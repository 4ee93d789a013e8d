-------------------------- MODULE UsbPassthrough --------------------------
(***************************************************************************)
(* The guest side of WebUSB passthrough, UsbPassthroughDevice              *)
(* (crates/aero-usb/src/passthrough.rs).  A guest transfer becomes a host  *)
(* action with a fresh id; the guest polls (and is told NAK) until a       *)
(* completion with that id has been pushed.  At most one transfer is in    *)
(* flight per pipe: the control pipe, where a new SETUP abandons the old   *)
(* request, and each endpoint, where the guest can only retry.             *)
(*                                                                         *)
(* A target stands for what a transfer asks for: a control request (setup  *)
(* packet and data stage) or an endpoint.  Lengths and bytes are left out  *)
(* except where they decide the answer: "short" is a write of fewer bytes  *)
(* than were sent.  Every transfer carries a serial number that the code   *)
(* does not have, so that properties can tell two uses of an id apart.     *)
(***************************************************************************)
EXTENDS Naturals, Sequences, FiniteSets

CONSTANTS
  ControlRequests,  \* distinct (setup, data) pairs the guest sends
  Endpoints,        \* bulk and interrupt endpoint addresses
  InTargets,        \* the requests and endpoints that read from the device
  MaxId,            \* the largest id: 2^32 - 1 in the code
  MaxTransfers,     \* bound on the transfers the guest starts
  None              \* Option::None

Control == "control"
Pipes == {Control} \cup Endpoints
Targets == ControlRequests \cup Endpoints
Statuses == {"ok", "short", "stall", "error"}

(* alloc_id finds a free id because there are more ids than pipes. *)
ASSUME UsbAssumption ==
  /\ IsFiniteSet(Endpoints) /\ Control \notin Endpoints
  /\ None \notin Targets \cup {Control} /\ ControlRequests \cap Endpoints = {}
  /\ InTargets \subseteq Targets
  /\ MaxId \in Nat /\ MaxId > Cardinality(Pipes)
  /\ MaxTransfers \in Nat

VARIABLES
  next_id,      \* the next id to try
  actions,      \* host actions not drained yet
  completions,  \* results pushed by the host and not taken by the guest
  inflight,     \* per pipe: the transfer in flight, or None
  answer,       \* per pipe: how the last transfer ended (what the guest saw)
  serial        \* number of transfers started so far

deviceVars == <<next_id, actions, completions, inflight, answer, serial>>

PipeOf(t) == IF t \in ControlRequests THEN Control ELSE t

Action == [id : 1..MaxId, target : Targets, serial : 1..MaxTransfers]
Completion == [id : 1..MaxId, in : BOOLEAN, status : Statuses, serial : 1..MaxTransfers]

DeviceTypeOK ==
  /\ next_id \in 1..MaxId
  /\ actions \in Seq(Action)
  /\ completions \subseteq Completion
  /\ inflight \in [Pipes -> Action \cup {None}]
  /\ answer \in [Pipes -> [serial : 1..MaxTransfers,
                           outcome : {"data", "ack", "stall", "timeout"}] \cup {None}]
  /\ serial \in 0..MaxTransfers

DeviceInit ==
  /\ next_id = 1
  /\ actions = <<>>
  /\ completions = {}
  /\ inflight = [p \in Pipes |-> None]
  /\ answer = [p \in Pipes |-> None]
  /\ serial = 0

---------------------------------------------------------------------------
IdsOf(fl) == {fl[p].id : p \in {q \in Pipes : fl[q] # None}}

(* The n-th id after i: the counter wraps from MaxId to 1, never to 0. *)
IdAfter(i, n) == ((i - 1 + n) % MaxId) + 1

(* alloc_id: the first id from next_id on that is not in flight. *)
AllocId(used) ==
  LET n == CHOOSE k \in 0..Cardinality(used) :
             /\ IdAfter(next_id, k) \notin used
             /\ \A j \in 0..(k - 1) : IdAfter(next_id, j) \in used
  IN  IdAfter(next_id, n)

(* The elements of s at the indexes in S, in their order: what SelectSeq    *)
(* returns, in a form that can be reasoned about.                           *)
Picked(s, S) ==
  [n \in 1..Cardinality(S) |->
     s[CHOOSE i \in S : Cardinality({j \in S : j <= i}) = n]]

(* Mutant: an abandoned action stays in the queue. *)
DropQueuedActionNever(acts, ids) == acts
DropQueuedAction(acts, ids) == Picked(acts, {i \in DOMAIN acts : acts[i].id \notin ids})
Without(comps, ids) == {c \in comps : c.id \notin ids}

(* A new host action is queued for target t; fl and acts are the in-flight *)
(* map and the queue without the transfer it replaces.                     *)
QueueAction(t, fl, acts) ==
  LET id == AllocId(IdsOf(fl))
      a  == [id |-> id, target |-> t, serial |-> serial + 1]
  IN  /\ serial < MaxTransfers
      /\ serial' = serial + 1
      /\ next_id' = IdAfter(id, 1)
      /\ actions' = Append(acts, a)
      /\ inflight' = [fl EXCEPT ![PipeOf(t)] = a]
      /\ answer' = [answer EXCEPT ![PipeOf(t)] = None]

(* handle_setup cancels the control transfer in flight, and then           *)
(* handle_control_request finds none and queues the new request.           *)
Setup(t) ==
  LET gone == {inflight[p].id : p \in {q \in {Control} : inflight[q] # None}}
  IN  /\ t \in ControlRequests
      /\ completions' = Without(completions, gone)
      /\ QueueAction(t, [inflight EXCEPT ![Control] = None],
                        DropQueuedAction(actions, gone))

(* handle_in_transfer and handle_out_transfer on an idle endpoint. *)
SubmitEndpoint(e) ==
  /\ e \in Endpoints
  /\ inflight[e] = None
  /\ QueueAction(e, inflight, actions)
  /\ UNCHANGED completions

(* Mutant: the result of an OUT transfer is not looked at. *)
OutcomeAlwaysAck(t, c) == IF t \in InTargets THEN "data" ELSE "ack"

(* map_in_result and map_out_result, with the length check of OUT transfers. *)
Outcome(t, c) ==
  CASE c.status = "stall" -> "stall"
    [] c.status = "error" -> "timeout"
    [] c.status \in {"ok", "short"} /\ c.in # (t \in InTargets) -> "timeout"
    [] c.status \in {"ok", "short"} /\ c.in /\ t \in InTargets -> "data"
    [] c.status = "short" /\ ~c.in /\ t \notin InTargets -> "timeout"
    [] c.status = "ok" /\ ~c.in /\ t \notin InTargets -> "ack"

(* The guest polls the transfer in flight on p and its completion is there.  *)
(* Without a completion the poll is answered NAK and changes nothing.        *)
TakeResult(p) ==
  /\ inflight[p] # None
  /\ \E c \in completions :
       /\ c.id = inflight[p].id
       /\ answer' = [answer EXCEPT ![p] =
                       [serial |-> inflight[p].serial,
                        outcome |-> Outcome(inflight[p].target, c)]]
       /\ completions' = completions \ {c}
       /\ actions' = DropQueuedAction(actions, {c.id})
       /\ inflight' = [inflight EXCEPT ![p] = None]
  /\ UNCHANGED <<next_id, serial>>

(* push_completion: a completion whose id is not in flight is stale. *)
PushCompletion(c) ==
  /\ IF c.id \in IdsOf(inflight)
     THEN /\ actions' = DropQueuedAction(actions, {c.id})
          /\ completions' = Without(completions, {c.id}) \cup {c}
     ELSE UNCHANGED <<actions, completions>>
  /\ UNCHANGED <<next_id, inflight, answer, serial>>

(* Mutant: reset starts over with id 1. *)
ResetDeviceRestartsIds ==
  /\ next_id' = 1
  /\ actions' = <<>>
  /\ completions' = {}
  /\ inflight' = [p \in Pipes |-> None]
  /\ UNCHANGED <<answer, serial>>

(* reset forgets every transfer but keeps counting ids where it was. *)
ResetDevice ==
  /\ actions' = <<>>
  /\ completions' = {}
  /\ inflight' = [p \in Pipes |-> None]
  /\ UNCHANGED <<next_id, answer, serial>>

(* drain_actions_limit. *)
DrainActions(n) ==
  /\ actions' = SubSeq(actions, n + 1, Len(actions))
  /\ UNCHANGED <<next_id, completions, inflight, answer, serial>>

---------------------------------------------------------------------------
(* Every state the device reaches passes the validation of snapshot_load, so *)
(* a snapshot that was saved can be loaded: the ids in flight differ, a      *)
(* queued action is the one its pipe has in flight, and a completion waits   *)
(* for a transfer that is in flight, has its direction and is no longer in   *)
(* the queue.                                                                *)
SnapshotLoadable ==
  /\ \A p, q \in Pipes : inflight[p] # None /\ inflight[q] # None /\ p # q
                           => inflight[p].id # inflight[q].id
  /\ \A i \in DOMAIN actions : inflight[PipeOf(actions[i].target)] = actions[i]
  /\ \A c \in completions :
       /\ \A i \in DOMAIN actions : actions[i].id # c.id
       /\ \E p \in Pipes :
            /\ inflight[p] # None /\ inflight[p].id = c.id
            /\ c.status \in {"ok", "short"} => c.in = (inflight[p].target \in InTargets)

(* A completion that the guest can take is the answer to the very transfer   *)
(* that waits for it: no completion of an earlier transfer is mistaken for   *)
(* it because the two share an id.                                           *)
OwnCompletion ==
  \A c \in completions : \A p \in Pipes :
    inflight[p] # None /\ inflight[p].id = c.id => c.serial = inflight[p].serial

===========================================================================
