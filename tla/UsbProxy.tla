----------------------------- MODULE UsbProxy -----------------------------
(***************************************************************************)
(* WebUSB passthrough end to end.  The I/O worker's runtime                *)
(* (web/src/usb/webusb_passthrough_runtime.ts) drains the host actions of  *)
(* UsbPassthrough and forwards them to the main thread, through a shared   *)
(* ring or, when the ring is full or gone, through a message port.  The    *)
(* broker (web/src/usb/usb_broker.ts) executes them one at a time on the   *)
(* selected USB device and sends completions back the same way.  Devices   *)
(* are selected, replaced, unplugged and forgotten at any time, and either *)
(* side may find a ring corrupt and give it up.                            *)
(*                                                                         *)
(* Each thread runs its tasks to completion, so a task is one action here; *)
(* awaits split a task in two.  The worker has one poll in flight exactly  *)
(* while an action it forwarded is pending: pollOnce awaits all of them,   *)
(* and every cancellation rejects all of them.                             *)
(*                                                                         *)
(* Left out: malformed messages (both ends of the channel are this code),  *)
(* ports of other workers, byte budgets, and the chooser dialog.           *)
(***************************************************************************)
EXTENDS UsbPassthrough

CONSTANTS
  Devices,            \* USB devices the user can select
  Results,            \* how a USB device may answer a transfer
  MaxSelections,      \* bound on how often devices are selected or unplugged
  DrainLimit,         \* actions per drain_actions: 64 in the code
  MaxActionsPerPoll,  \* actions forwarded per poll: 64 by default
  RingCap,            \* records a proxy ring holds
  MaxPending          \* maxPendingActions of the broker: 1024 by default

ASSUME ProxyAssumption ==
  /\ None \notin Devices
  /\ Results \subseteq Statuses
  /\ {MaxSelections, DrainLimit, MaxActionsPerPoll, RingCap, MaxPending} \subseteq Nat \ {0}

VARIABLES
  blocked,         \* worker: no device selected, as far as it was told
  pending,         \* worker: ids forwarded and not answered
  backlog,         \* worker: actions drained and not forwarded
  workerRings,     \* worker: the rings are attached
  toBroker,        \* messages from worker to broker
  toWorker,        \* messages from broker to worker
  actionRing,      \* shared ring of actions
  completionRing,  \* shared ring of completions
  rings,           \* broker: the rings of the port exist
  device,          \* broker: the selected device, or None
  queue,           \* broker: items waiting for the device
  current,         \* broker: the item being executed, or None
  forgetting,      \* broker: forgetSelectedDevice awaits close() and forget()
  selections,      \* number of selection changes so far
  ran,             \* per serial: "no", started ("yes"), or how it was answered
  saved            \* next_id in the last snapshot saved, 0 without one

workerVars == <<blocked, pending, backlog, workerRings>>
channelVars == <<toBroker, toWorker, actionRing, completionRing, rings>>
brokerVars == <<device, queue, current, forgetting, selections, ran>>
vars == <<deviceVars, workerVars, channelVars, brokerVars, saved>>

Item == [action : Action, ring : BOOLEAN, deaf : BOOLEAN]
ToBroker == [type : {"action"}, action : Action] \cup [type : {"ringDetach"}]
ToWorker == [type : {"completion"}, completion : Completion]
              \cup [type : {"selected"}, ok : BOOLEAN] \cup [type : {"ringDetach"}]

(* Option::None is none of the values it stands beside. *)
ASSUME NoneAssumption == None \notin Action \cup Item

TypeOK ==
  /\ DeviceTypeOK
  /\ blocked \in BOOLEAN /\ pending \subseteq 1..MaxId
  /\ backlog \in Seq(Action) /\ workerRings \in BOOLEAN
  /\ toBroker \in Seq(ToBroker) /\ toWorker \in Seq(ToWorker)
  /\ actionRing \in Seq(Action) /\ completionRing \in Seq(Completion)
  /\ Len(actionRing) <= RingCap /\ Len(completionRing) <= RingCap
  /\ rings \in BOOLEAN /\ device \in Devices \cup {None}
  /\ queue \in Seq(Item) /\ current \in Item \cup {None}
  /\ forgetting \in BOOLEAN /\ selections \in 0..MaxSelections
  /\ ran \in [1..MaxTransfers -> {"no", "yes"} \cup Statuses]
  /\ saved \in 0..MaxId

(* The runtime starts blocked and with the rings the broker sent it. *)
Init ==
  /\ DeviceInit
  /\ blocked = TRUE /\ pending = {} /\ backlog = <<>> /\ workerRings = TRUE
  /\ toBroker = <<>> /\ toWorker = <<>>
  /\ actionRing = <<>> /\ completionRing = <<>> /\ rings = TRUE
  /\ device = None /\ queue = <<>> /\ current = None
  /\ forgetting = FALSE /\ selections = 0
  /\ ran = [s \in 1..MaxTransfers |-> "no"]
  /\ saved = 0

Least(m, n) == IF m < n THEN m ELSE n
Front(s, n) == SubSeq(s, 1, Least(n, Len(s)))
Rest(s, n) == SubSeq(s, Least(n, Len(s)) + 1, Len(s))

---------------------------------------------------------------------------
(* The guest.  It has a device to talk to while the worker is not blocked:  *)
(* applyUsbSelectedToWebUsbUhciBridge attaches and detaches it.             *)

GuestSetup(t) ==
  /\ ~blocked /\ Setup(t)
  /\ UNCHANGED <<workerVars, channelVars, brokerVars, saved>>

GuestSubmit(e) ==
  /\ ~blocked /\ SubmitEndpoint(e)
  /\ UNCHANGED <<workerVars, channelVars, brokerVars, saved>>

GuestPoll(p) ==
  /\ ~blocked /\ TakeResult(p)
  /\ UNCHANGED <<workerVars, channelVars, brokerVars, saved>>

(* A reset of the guest's port resets the device model, not the runtime. *)
GuestBusReset ==
  /\ ~blocked /\ ResetDevice
  /\ UNCHANGED <<workerVars, channelVars, brokerVars, saved>>

---------------------------------------------------------------------------
(* The worker's runtime. *)

(* pollOnce up to its await.  What is left of an earlier drain goes first;   *)
(* the ring takes what fits and the port the rest.                           *)
Poll ==
  LET fresh   == backlog = <<>>
      drained == IF fresh THEN Front(actions, DrainLimit) ELSE backlog
      batch   == Front(drained, MaxActionsPerPoll)
      n       == IF workerRings THEN Least(Len(batch), RingCap - Len(actionRing)) ELSE 0
      posted  == Rest(batch, n)
  IN  /\ ~blocked
      /\ pending = {}
      /\ drained # <<>>
      /\ IF fresh THEN DrainActions(Len(drained)) ELSE UNCHANGED deviceVars
      /\ backlog' = Rest(drained, MaxActionsPerPoll)
      /\ pending' = {batch[i].id : i \in DOMAIN batch}
      /\ actionRing' = IF rings THEN actionRing \o Front(batch, n) ELSE actionRing
      /\ toBroker' = toBroker \o [i \in DOMAIN posted |->
                                    [type |-> "action", action |-> posted[i]]]
      /\ UNCHANGED <<blocked, workerRings, toWorker, completionRing, rings, brokerVars, saved>>

(* handleCompletion: only the answer to a pending action is passed on. *)
HandleCompletion(c) ==
  /\ pending' = pending \ {c.id}
  /\ IF c.id \in pending THEN PushCompletion(c) ELSE UNCHANGED deviceVars

(* cancelPending and the reset of the bridge, as every failure path does it. *)
CancelAll ==
  /\ pending' = {}
  /\ backlog' = <<>>
  /\ ResetDevice

ReceiveCompletion ==
  /\ toWorker # <<>> /\ Head(toWorker).type = "completion"
  /\ HandleCompletion(Head(toWorker).completion)
  /\ toWorker' = Tail(toWorker)
  /\ UNCHANGED <<blocked, backlog, workerRings, toBroker, actionRing, completionRing,
                 rings, brokerVars, saved>>

PopCompletion ==
  /\ workerRings /\ rings /\ completionRing # <<>>
  /\ HandleCompletion(Head(completionRing))
  /\ completionRing' = Tail(completionRing)
  /\ UNCHANGED <<blocked, backlog, workerRings, toBroker, toWorker, actionRing,
                 rings, brokerVars, saved>>

(* handleSelected. *)
ReceiveSelected ==
  /\ toWorker # <<>> /\ Head(toWorker).type = "selected"
  /\ blocked' = ~Head(toWorker).ok
  /\ IF Head(toWorker).ok THEN UNCHANGED <<pending, backlog, deviceVars>> ELSE CancelAll
  /\ toWorker' = Tail(toWorker)
  /\ UNCHANGED <<workerRings, toBroker, actionRing, completionRing, rings, brokerVars, saved>>

(* Mutant: only the rings are dropped, not what was sent through them. *)
ReceiveRingDetachKeepsPending ==
  /\ toWorker # <<>> /\ Head(toWorker).type = "ringDetach"
  /\ workerRings' = FALSE
  /\ toWorker' = Tail(toWorker)
  /\ UNCHANGED <<pending, backlog, deviceVars, blocked, toBroker, actionRing,
                 completionRing, rings, brokerVars, saved>>

(* handleRingDetach: the broker gave the rings up. *)
ReceiveRingDetach ==
  /\ toWorker # <<>> /\ Head(toWorker).type = "ringDetach"
  /\ workerRings' = FALSE
  /\ IF workerRings THEN CancelAll ELSE UNCHANGED <<pending, backlog, deviceVars>>
  /\ toWorker' = Tail(toWorker)
  /\ UNCHANGED <<blocked, toBroker, actionRing, completionRing, rings, brokerVars, saved>>

(* handleRingFailure: the worker finds a ring corrupt. *)
WorkerRingFails ==
  /\ workerRings
  /\ workerRings' = FALSE
  /\ CancelAll
  /\ toBroker' = Append(toBroker, [type |-> "ringDetach"])
  /\ UNCHANGED <<blocked, toWorker, actionRing, completionRing, rings, brokerVars, saved>>

---------------------------------------------------------------------------
(* The broker. *)

Answer(it, status) ==
  [id |-> it.action.id, in |-> it.action.target \in InTargets,
   status |-> status, serial |-> it.action.serial]

(* Completions go back the way their actions came: through the ring while   *)
(* it exists and has room, else through the port.                           *)
ViaRing(its) ==
  {i \in DOMAIN its :
     /\ its[i].ring /\ rings
     /\ Len(completionRing) + Cardinality({j \in 1..i : its[j].ring}) <= RingCap}

Answers(its, status) == [i \in DOMAIN its |-> Answer(its[i], status)]
Posted(comps) == [i \in DOMAIN comps |-> [type |-> "completion", completion |-> comps[i]]]

Reply(before, its, status) ==
  LET ringed == Picked(its, ViaRing(its))
      posted == Picked(its, DOMAIN its \ ViaRing(its))
  IN  /\ completionRing' = completionRing \o Answers(ringed, status)
      /\ toWorker' = toWorker \o before \o Posted(Answers(posted, status))

HasQueueCapacity == Len(queue) + (IF current = None THEN 0 ELSE 1) < MaxPending

Started(it) == [ran EXCEPT ![it.action.serial] = "yes"]
Answered(its, status) ==
  [s \in DOMAIN ran |-> IF \E i \in DOMAIN its : its[i].action.serial = s
                        THEN status ELSE ran[s]]

(* executeForPort with a device and room in the queue; drainQueue starts at  *)
(* once when nothing is being executed.                                      *)
Enqueue(it) ==
  IF current = None
  THEN /\ current' = it
       /\ ran' = Started(it)
       /\ UNCHANGED queue
  ELSE /\ queue' = Append(queue, it)
       /\ UNCHANGED <<current, ran>>

(* An action arrives at the port: it is refused or queued. *)
BrokerReceiveAction ==
  LET it == [action |-> Head(toBroker).action, ring |-> FALSE, deaf |-> FALSE]
  IN  /\ toBroker # <<>> /\ Head(toBroker).type = "action"
      /\ toBroker' = Tail(toBroker)
      /\ IF device # None /\ HasQueueCapacity
         THEN Enqueue(it) /\ UNCHANGED <<toWorker, completionRing>>
         ELSE /\ Reply(<<>>, <<it>>, "error") /\ ran' = Answered(<<it>>, "error")
              /\ UNCHANGED <<queue, current>>
      /\ UNCHANGED <<deviceVars, workerVars, actionRing, rings, device, forgetting,
                     selections, saved>>

(* drainActionRing, one record: refused without a device, left in the ring   *)
(* while the queue is full.                                                  *)
DrainActionRing ==
  LET it == [action |-> Head(actionRing), ring |-> TRUE, deaf |-> FALSE]
  IN  /\ rings /\ actionRing # <<>>
      /\ actionRing' = Tail(actionRing)
      /\ IF device = None
         THEN /\ Reply(<<>>, <<it>>, "error") /\ ran' = Answered(<<it>>, "error")
              /\ UNCHANGED <<queue, current>>
         ELSE HasQueueCapacity /\ Enqueue(it) /\ UNCHANGED <<toWorker, completionRing>>
      /\ UNCHANGED <<deviceVars, workerVars, toBroker, rings, device, forgetting,
                     selections, saved>>

(* The backend answers and drainQueue goes on with the next item. *)
BackendDone ==
  /\ current # None
  /\ \E status \in Results :
       /\ Reply(<<>>, <<current>>, status)
       /\ current' = IF queue = <<>> THEN None ELSE Head(queue)
       /\ queue' = Rest(queue, 1)
       /\ ran' = [s \in DOMAIN ran |->
                    IF queue # <<>> /\ s = Head(queue).action.serial
                    THEN "yes" ELSE Answered(<<current>>, status)[s]]
  /\ UNCHANGED <<deviceVars, workerVars, toBroker, actionRing, rings, device, forgetting,
                 selections, saved>>

(* Mutant: what is queued is failed but stays queued. *)
ResetSelectedDeviceKeepsQueue(broadcast) ==
  LET listening == current # None /\ ~current.deaf
      failed    == queue \o (IF listening THEN <<current>> ELSE <<>>)
  IN  /\ Reply(broadcast, failed, "error")
      /\ ran' = Answered(failed, "error")
      /\ current' = IF listening THEN None ELSE current
      /\ selections < MaxSelections
      /\ selections' = selections + 1
      /\ UNCHANGED <<deviceVars, workerVars, toBroker, actionRing, rings, saved, queue>>

(* resetSelectedDevice: what is queued fails, and so does the item being     *)
(* executed unless it no longer listens to the disconnect signal.  The       *)
(* broadcast that follows is posted before these completions, which resolve  *)
(* promises.                                                                 *)
ResetSelectedDevice(broadcast) ==
  LET listening == current # None /\ ~current.deaf
      failed    == queue \o (IF listening THEN <<current>> ELSE <<>>)
  IN  /\ Reply(broadcast, failed, "error")
      /\ ran' = Answered(failed, "error")
      /\ queue' = <<>>
      /\ current' = IF listening THEN None ELSE current
      /\ selections < MaxSelections
      /\ selections' = selections + 1
      /\ UNCHANGED <<deviceVars, workerVars, toBroker, actionRing, rings, saved>>

Selected(ok) == <<[type |-> "selected", ok |-> ok]>>

(* adoptDevice and attachKnownDevice once the device is open. *)
AdoptDevice(d) ==
  /\ device' = d
  /\ ResetSelectedDevice(Selected(TRUE))
  /\ UNCHANGED forgetting

(* handleDisconnect and detachSelectedDevice. *)
HandleDisconnect ==
  /\ device # None
  /\ device' = None
  /\ ResetSelectedDevice(Selected(FALSE))
  /\ UNCHANGED forgetting

(* forgetSelectedDevice until its awaits. *)
ForgetDevice ==
  /\ device # None /\ ~forgetting
  /\ device' = None
  /\ ResetSelectedDevice(<<>>)
  /\ forgetting' = TRUE

(* forgetSelectedDevice after its awaits: it installs a new disconnect signal *)
(* and announces that no device is selected.                                  *)
ForgetDone ==
  /\ forgetting
  /\ forgetting' = FALSE
  /\ current' = IF current = None THEN None ELSE [current EXCEPT !.deaf = TRUE]
  /\ toWorker' = toWorker \o Selected(FALSE)
  /\ UNCHANGED <<deviceVars, workerVars, toBroker, actionRing, completionRing, rings,
                 device, queue, selections, ran, saved>>

(* disableRingsForPort: the broker finds a ring corrupt. *)
BrokerRingFails ==
  /\ rings
  /\ rings' = FALSE
  /\ actionRing' = <<>> /\ completionRing' = <<>>
  /\ toWorker' = Append(toWorker, [type |-> "ringDetach"])
  /\ UNCHANGED <<deviceVars, workerVars, toBroker, brokerVars, saved>>

(* The worker asks for the rings to be given up. *)
BrokerReceiveRingDetach ==
  /\ toBroker # <<>> /\ Head(toBroker).type = "ringDetach"
  /\ toBroker' = Tail(toBroker)
  /\ rings' = FALSE
  /\ actionRing' = <<>> /\ completionRing' = <<>>
  /\ toWorker' = Append(toWorker, [type |-> "ringDetach"])
  /\ UNCHANGED <<deviceVars, workerVars, brokerVars, saved>>

---------------------------------------------------------------------------
(* Snapshots.  load_state restores next_id; what else it restores is dropped *)
(* by reset_host_state_for_restore, and the worker stops and restarts the    *)
(* runtime.  The broker is not told.                                         *)

SaveSnapshot ==
  /\ saved' = next_id
  /\ UNCHANGED <<deviceVars, workerVars, channelVars, brokerVars>>

RestoreSnapshot ==
  /\ saved # 0
  /\ next_id' = saved
  /\ actions' = <<>> /\ completions' = {} /\ inflight' = [p \in Pipes |-> None]
  /\ pending' = {} /\ backlog' = <<>>
  /\ UNCHANGED <<answer, serial, blocked, workerRings, channelVars, brokerVars, saved>>

---------------------------------------------------------------------------
Guest ==
  \/ \E t \in ControlRequests : GuestSetup(t)
  \/ \E e \in Endpoints : GuestSubmit(e)
  \/ \E p \in Pipes : GuestPoll(p)
  \/ GuestBusReset

Worker == \/ Poll \/ ReceiveCompletion \/ PopCompletion \/ ReceiveSelected
          \/ ReceiveRingDetach \/ WorkerRingFails

Broker == \/ BrokerReceiveAction \/ DrainActionRing \/ BackendDone
          \/ (\E d \in Devices : AdoptDevice(d))
          \/ HandleDisconnect \/ ForgetDevice \/ ForgetDone
          \/ BrokerRingFails \/ BrokerReceiveRingDetach

Next == Guest \/ Worker \/ Broker

(* Timers and message delivery run again and again, the guest keeps polling  *)
(* a transfer that was answered NAK, close() and forget() return, and the    *)
(* USB device answers every transfer (external: WebUSB itself has no         *)
(* timeout, so an endpoint with nothing to say holds the broker up).         *)
Fairness ==
  /\ WF_vars(Poll) /\ WF_vars(ReceiveCompletion) /\ WF_vars(PopCompletion)
  /\ WF_vars(ReceiveSelected) /\ WF_vars(ReceiveRingDetach)
  /\ WF_vars(BrokerReceiveAction) /\ WF_vars(DrainActionRing)
  /\ WF_vars(BackendDone) /\ WF_vars(BrokerReceiveRingDetach) /\ WF_vars(ForgetDone)
  /\ \A p \in Pipes : WF_vars(GuestPoll(p))

Spec == Init /\ [][Next]_vars /\ Fairness
RestoreSpec == Init /\ [][Next \/ SaveSnapshot \/ RestoreSnapshot]_vars

---------------------------------------------------------------------------
(* The guest is told that a transfer succeeded only if the USB device has    *)
(* executed that transfer with success, however often devices are replaced,  *)
(* unplugged or reset and requests are abandoned in the meantime.            *)
SuccessMeansExecuted ==
  \A p \in Pipes : answer[p] # None =>
    /\ answer[p].outcome = "ack" => ran[answer[p].serial] = "ok"
    /\ answer[p].outcome = "data" => ran[answer[p].serial] \in {"ok", "short"}

(* An action is executed at most once and answered at most once, and never   *)
(* executed after it was answered: what fails when a device is replaced does *)
(* not run on the new device.                                                *)
ExecutedOnce ==
  [][/\ \A s \in 1..MaxTransfers : ran[s] \in Statuses => ran'[s] = ran[s]
     /\ current' # None /\ (current = None \/ current'.action # current.action)
          => ran[current'.action.serial] = "no"]_vars

(* The broker never leaves work behind: items are queued only while one is   *)
(* being executed and a device is there for them, and at most MaxPending     *)
(* actions are held.                                                         *)
QueueServed ==
  /\ queue # <<>> => current # None /\ device # None
  /\ Len(queue) + (IF current = None THEN 0 ELSE 1) <= MaxPending

(* A transfer does not stay in flight for ever: the guest gets an answer, or *)
(* the transfer is abandoned or reset.  No completion is lost when rings are *)
(* given up, devices change or the queue is full.                            *)
TransferFinishes ==
  \A p \in Pipes : (inflight[p] # None) ~> (inflight[p] = None)

(* Once it has read its messages, the worker's view of whether a device is   *)
(* selected is the broker's.                                                 *)
SelectionAgrees ==
  ~forgetting /\ (\A i \in DOMAIN toWorker : toWorker[i].type # "selected")
    => (blocked <=> device = None)

===========================================================================
