---------------------------- MODULE FramePresent ----------------------------
(***************************************************************************)
(* How a frame gets from the CPU worker to the screen: the producer and    *)
(* the polling consumers of SharedFramebuffer, the frame scheduler on the  *)
(* main thread (web/src/main/frameScheduler.ts), which posts a tick per    *)
(* animation frame while there is something to present, and the GPU worker *)
(* (web/src/workers/gpu-worker.ts), which presents on a tick, loses and    *)
(* recovers its device, and stops touching guest memory while a VM         *)
(* snapshot is taken.                                                      *)
(*                                                                         *)
(* The worker is single-threaded: its message handlers run when no pass is *)
(* under way or while a pass awaits present() of an external module; the   *)
(* other threads run between any two of its shared-memory accesses.  The   *)
(* scanout descriptor is read whole (ScanoutState shows that) and is one   *)
(* of five kinds:                                                          *)
(*   "text"         the legacy framebuffer is the output                   *)
(*   "vbe", "wddm"  a guest surface is                                     *)
(*   "placeholder"  WDDM owns the output, AeroGPU supplies its frames      *)
(*   "off"          WDDM owns the output and has disabled it               *)
(***************************************************************************)
EXTENDS SharedFramebuffer, FiniteSets

CONSTANTS
  Backends,     \* "module": present() of wasmModuleUrl; "presenter"; "headless"
  Owners,       \* the kinds of scanout descriptor to check
  MaxTicks,     \* bound on the ticks waiting in the worker's message queue
  MaxChanges,   \* bound on the scanout updates
  MaxLosses,    \* bound on the failures of a device or a present
  MaxPauses     \* bound on the snapshot pauses

ASSUME PresentAssumption ==
  /\ Backends \subseteq {"module", "presenter", "headless"}
  /\ Owners \subseteq {"text", "vbe", "wddm", "placeholder", "off"}
  /\ "text" \in Owners
  /\ {MaxTicks, MaxChanges, MaxLosses, MaxPauses} \subseteq Nat

VARIABLES
  owner,        \* the scanout descriptor
  changes,      \* its generation
  seenGen,      \* lastScanoutGeneration of the scheduler
  ticks,        \* tick messages posted and not yet handled
  backend,
  kind,         \* the frame of this pass: "shared", "scanout" or "none"
  snap,         \* scanoutSnap of this pass
  isDeviceLost,
  losses,
  paused,       \* snapshotPaused
  epoch,        \* snapshotPauseEpoch
  waiting,      \* pauseEpoch of each pause attempt that waits for the tick
  disabled,     \* snapshotGuestMemoryBackup is set: guest memory is out of reach
  outcome,      \* what this pass did with the framebuffer's frame: "shown",
                \* "dropped" or, so far, "none"
  missed        \* how the newest frame was consumed without being presented
                \* ("owner", "dropped") or acknowledged (the others)

passVars == <<kind, snap, outcome>>
deviceVars == <<isDeviceLost, losses>>
pauseVars == <<paused, epoch, waiting, disabled>>
sourceVars == <<owner, changes, seenGen, ticks, backend>>
framebufferVars == <<headerVars, readerVars, wpc, consumer, last_seq, shown>>
presentVars == <<sourceVars, passVars, deviceVars, pauseVars, missed>>
vars == <<framebufferVars, presentVars>>

PresentInit ==
  /\ owner \in (IF consumer = "worker" THEN Owners ELSE {"text"})
  /\ changes = 0 /\ seenGen = 0
  /\ ticks = 0
  /\ backend \in Backends
  /\ kind = "none" /\ snap = "text" /\ outcome = "none"
  /\ isDeviceLost = FALSE /\ losses = 0
  /\ paused = FALSE /\ epoch = 0 /\ waiting = {} /\ disabled = FALSE
  /\ missed = {}

Init == FramebufferInit /\ PresentInit

Worker == consumer = "worker"

----------------------------------------------------------------------------
(* The main thread. *)

(* shouldSendTick *)
ShouldSendTick ==
  /\ status # "presenting"
  /\ \/ status = "dirty"
     \/ owner \in {"vbe", "wddm", "placeholder"}
     \/ seenGen # changes

SendTick ==
  /\ Worker /\ ticks < MaxTicks /\ ShouldSendTick
  /\ ticks' = ticks + 1
  /\ seenGen' = IF status = "dirty" \/ owner \in {"vbe", "wddm", "placeholder"}
                THEN seenGen ELSE changes
  /\ UNCHANGED <<framebufferVars, owner, changes, backend, passVars,
                 deviceVars, pauseVars, missed>>

(* The guest's display driver or BIOS publishes another descriptor. *)
ChangeOwner ==
  /\ Worker /\ changes < MaxChanges
  /\ \E o \in Owners \ {owner} : owner' = o
  /\ changes' = changes + 1
  /\ UNCHANGED <<framebufferVars, seenGen, ticks, backend, passVars,
                 deviceVars, pauseVars, missed>>

----------------------------------------------------------------------------
(* handleTick and presentOnce. *)

(* A message handler can run: no pass, or a pass that awaits present().  A
   pass presents the framebuffer ("reading") or something else ("other"). *)
Presenting == Worker /\ pc \in {"reading", "other"}
InLoop == Worker /\ (pc = "idle" \/ (Presenting /\ backend = "module"))

WantsPresentWhenIdle == owner # "text"

(* handleTick: a tick during a pass or a pause does nothing, and so does one
   with nothing to present; otherwise the pass claims the frame status. *)
HandleTick ==
  /\ InLoop /\ ticks > 0
  /\ ticks' = ticks - 1
  /\ IF pc = "idle" /\ ~paused /\ (status = "dirty" \/ WantsPresentWhenIdle)
     THEN status' = "presenting" /\ pc' = "frame"
     ELSE UNCHANGED <<status, pc>>
  /\ UNCHANGED <<slot, active_index, frame_seq, frame_dirty, rslot, rseq, wpc,
                 consumer, last_seq, shown, owner, changes, seenGen, backend,
                 passVars, deviceVars, pauseVars, missed>>

(* getCurrentFrameInfo: what it returns for descriptor o.  The framebuffer if
   the output is the legacy one or the WDDM descriptor is a placeholder, the
   scanout surface if one owns the output and can be read.  A descriptor that
   cannot be read in time but names a surface gives a black frame, and one
   that names the placeholder gives nothing. *)
FrameKinds(o) ==
  CASE o = "text" -> {"shared"}
    [] o = "placeholder" -> {"shared", "none"}
    [] OTHER -> {"scanout", "none"}

ReadOwner ==
  /\ pc = "frame"
  /\ \E k \in FrameKinds(owner) : kind' = k
  /\ pc' = IF kind' = "shared" THEN "active" ELSE "owner"
  /\ UNCHANGED <<headerVars, rslot, rseq, wpc, consumer, last_seq, shown,
                 sourceVars, snap, outcome, deviceVars, pauseVars, missed>>

ReadActive ==
  /\ Worker /\ pc = "active"
  /\ rslot' = active_index /\ pc' = "seq"
  /\ UNCHANGED <<headerVars, rseq, wpc, consumer, last_seq, shown, presentVars>>

ReadSeq ==
  /\ pc = "seq"
  /\ rseq' = frame_seq /\ pc' = "owner"
  /\ UNCHANGED <<headerVars, rslot, wpc, consumer, last_seq, shown, presentVars>>

WddmOwns(o) == o \in {"wddm", "placeholder", "off"}
ScanoutOwns(o) == o # "text" \/ kind = "scanout"

(* The output that a pass with descriptor o presents. *)
UsesFramebuffer(o) ==
  /\ kind = "shared"
  /\ backend = "module" \/ (backend = "presenter" /\ ~WddmOwns(o))

(* clearSharedFramebufferDirty: where it goes after presenting. *)
AfterPresent(o) ==
  IF kind = "shared" THEN "ack"
  ELSE IF ScanoutOwns(o) THEN "clear" ELSE "abort"

(* presentOnce takes the descriptor again and picks what to present. *)
ChooseOutput ==
  /\ pc = "owner"
  /\ snap' = owner
  /\ pc' = IF isDeviceLost THEN "abort"
           ELSE IF backend = "headless" THEN AfterPresent(owner)
           ELSE IF UsesFramebuffer(owner) THEN "reading" ELSE "other"
  /\ UNCHANGED <<headerVars, rslot, rseq, wpc, consumer, last_seq, shown,
                 sourceVars, kind, outcome, deviceVars, pauseVars, missed>>

(* present() returns: the presenter has taken the pixels, or it returns false
   because it dropped the frame (the surface timed out or is outdated).  A
   dropped frame is acknowledged like any other and is not tried again.  When
   an external module's present() resolves, the flag stays set if a pause
   came first. *)
FinishPresent ==
  /\ Presenting
  /\ \/ pc = "reading" /\ shown' = slot[rslot] /\ outcome' = "shown"
     \/ pc = "reading" /\ outcome' = "dropped" /\ UNCHANGED shown
     \/ pc = "other" /\ UNCHANGED <<shown, outcome>>
  /\ pc' = IF backend = "module" /\ paused THEN "abort" ELSE AfterPresent(snap)
  /\ UNCHANGED <<headerVars, rslot, rseq, wpc, consumer, last_seq, sourceVars,
                 kind, snap, deviceVars, pauseVars, missed>>

(* The present throws; a device-lost error also starts handleDeviceLost. *)
PresentThrows ==
  /\ Presenting /\ losses < MaxLosses
  /\ losses' = losses + 1
  /\ isDeviceLost' \in {isDeviceLost, TRUE}
  /\ pc' = "abort"
  /\ UNCHANGED <<headerVars, rslot, rseq, wpc, consumer, last_seq, shown,
                 sourceVars, passVars, pauseVars, missed>>

AckSeq ==
  /\ Worker /\ pc = "ack"
  /\ pc' = IF frame_seq = rseq THEN "clear" ELSE "finish"
  /\ UNCHANGED <<headerVars, rslot, rseq, wpc, consumer, last_seq, shown,
                 presentVars>>

AckClear ==
  /\ Worker /\ pc = "clear"
  /\ frame_dirty' = 0
  /\ pc' = "finish"
  /\ UNCHANGED <<slot, active_index, frame_seq, status, rslot, rseq, wpc,
                 consumer, last_seq, shown, presentVars>>

(* A pass that ends in "abort" has acknowledged nothing. *)
Misses == (IF pc = "abort" THEN {"fault"} ELSE {})
          \cup (CASE outcome = "shown" -> {}
                  [] outcome = "dropped" -> {"dropped"}
                  [] OTHER -> {"owner"})

(* The pass that ends was the last one for the newest frame: the producer is
   not about to mark it dirty, and has not done so since the pass began. *)
Consumes == status = "presenting" /\ wpc \notin {"dirty", "status"}

(* The status is stored without comparing it first. *)
FinishPassStores ==
  /\ pc \in {"finish", "abort"}
  /\ status' = "presented"
  /\ missed' = IF Consumes THEN missed \cup Misses ELSE missed
  /\ pc' = "idle" /\ rslot' = 0 /\ rseq' = 0
  /\ kind' = "none" /\ snap' = "text" /\ outcome' = "none"
  /\ UNCHANGED <<slot, active_index, frame_seq, frame_dirty, wpc, consumer,
                 last_seq, shown, sourceVars, deviceVars, pauseVars>>

(* finishPresentWithSharedState; the locals of the pass are gone. *)
FinishPass ==
  /\ pc \in {"finish", "abort"}
  /\ status' = IF status = "presenting" THEN "presented" ELSE status
  /\ missed' = IF Consumes THEN missed \cup Misses ELSE missed
  /\ pc' = "idle" /\ rslot' = 0 /\ rseq' = 0
  /\ kind' = "none" /\ snap' = "text" /\ outcome' = "none"
  /\ UNCHANGED <<slot, active_index, frame_seq, frame_dirty, wpc, consumer,
                 last_seq, shown, sourceVars, deviceVars, pauseVars>>

PassStep ==
  ReadOwner \/ ReadActive \/ ReadSeq \/ ChooseOutput \/ FinishPresent \/ AckSeq
  \/ AckClear \/ FinishPass

----------------------------------------------------------------------------
(* The device, and VM snapshots. *)

(* webglcontextlost, an uncaptured error or a telemetry event *)
LoseDevice ==
  /\ InLoop /\ ~isDeviceLost /\ losses < MaxLosses
  /\ isDeviceLost' = TRUE /\ losses' = losses + 1
  /\ UNCHANGED <<framebufferVars, sourceVars, passVars, pauseVars, missed>>

(* attemptRecovery waits for the end of a pause. *)
Recover ==
  /\ InLoop /\ isDeviceLost /\ ~paused
  /\ isDeviceLost' = FALSE
  /\ UNCHANGED <<framebufferVars, sourceVars, passVars, losses, pauseVars,
                 missed>>

(* ensureSnapshotPaused: one attempt at a time, none once memory is off. *)
RequestPause ==
  /\ InLoop /\ epoch < MaxPauses
  /\ ~disabled /\ epoch \notin waiting
  /\ paused' = TRUE
  /\ waiting' = waiting \cup {epoch}
  /\ UNCHANGED <<framebufferVars, sourceVars, passVars, deviceVars, epoch,
                 disabled, missed>>

(* An attempt does not notice that it was overtaken. *)
PauseWakesUnchecked(e) ==
  /\ InLoop /\ e \in waiting
  /\ pc = "idle" /\ disabled' = TRUE
  /\ waiting' = waiting \ {e}
  /\ UNCHANGED <<framebufferVars, sourceVars, passVars, deviceVars, paused,
                 epoch, missed>>

(* An attempt wakes: it was overtaken by a resume and gives up, or no tick is
   in flight and it takes guest memory away and acknowledges the pause. *)
PauseWakes(e) ==
  /\ InLoop /\ e \in waiting
  /\ IF ~paused \/ epoch # e
     THEN disabled' = disabled
     ELSE pc = "idle" /\ disabled' = TRUE
  /\ waiting' = waiting \ {e}
  /\ UNCHANGED <<framebufferVars, sourceVars, passVars, deviceVars, paused,
                 epoch, missed>>

(* handleSnapshotResume, which may overtake the acknowledgement. *)
Resume ==
  /\ InLoop /\ paused
  /\ epoch' = epoch + 1
  /\ paused' = FALSE /\ disabled' = FALSE
  /\ UNCHANGED <<framebufferVars, sourceVars, passVars, deviceVars, waiting,
                 missed>>

----------------------------------------------------------------------------
(* A publish starts a new frame that no pass has consumed yet. *)
Publish ==
  /\ ProducerStep
  /\ missed' = IF wpc = "seq" THEN {} ELSE missed
  /\ UNCHANGED <<sourceVars, passVars, deviceVars, pauseVars>>

(* A poller that clears the flag before the producer has set it has
   acknowledged nothing. *)
Poll ==
  /\ PollStep
  /\ missed' = IF pc = "clear" /\ wpc = "dirty" THEN missed \cup {"early"}
               ELSE missed
  /\ UNCHANGED <<sourceVars, passVars, deviceVars, pauseVars>>

(* A FrameSource that attaches behind an unread frame never acknowledges it. *)
AttachConsumer ==
  /\ Attach
  /\ missed' = IF consumer = "source" THEN missed \cup {"skipped"} ELSE missed
  /\ UNCHANGED <<sourceVars, passVars, deviceVars, pauseVars>>

Next ==
  \/ Publish \/ Poll \/ AttachConsumer
  \/ SendTick \/ ChangeOwner
  \/ HandleTick \/ PassStep \/ PresentThrows
  \/ LoseDevice \/ Recover
  \/ RequestPause \/ Resume
  \/ \E e \in waiting : PauseWakes(e)

(* Threads run; the browser fires animation frames and delivers messages; a
   present that does not throw ends.  Nothing makes a device come back, a
   pause end or the guest change its output. *)
Fairness ==
  /\ WF_vars(Publish) /\ WF_vars(Poll)
  /\ WF_vars(SendTick) /\ WF_vars(HandleTick) /\ WF_vars(PassStep)
  /\ WF_vars(\E e \in waiting : PauseWakes(e))

Spec == Init /\ [][Next]_vars /\ Fairness

----------------------------------------------------------------------------
TypeOK ==
  /\ FramebufferTypeOK
  /\ pc \in {"idle", "frame", "active", "seq", "owner", "reading", "other",
             "ack", "clear", "abort", "finish"}
  /\ owner \in Owners /\ snap \in Owners
  /\ changes \in 0..MaxChanges /\ seenGen \in 0..changes
  /\ ticks \in 0..MaxTicks /\ backend \in Backends
  /\ kind \in {"shared", "scanout", "none"} 
  /\ outcome \in {"shown", "dropped", "none"}
  /\ isDeviceLost \in BOOLEAN /\ losses \in 0..MaxLosses
  /\ paused \in BOOLEAN /\ disabled \in BOOLEAN
  /\ epoch \in 0..(MaxPauses + 1) /\ waiting \subseteq 0..MaxPauses
  /\ missed \subseteq {"owner", "dropped", "fault", "early", "skipped"}

(* ensureSnapshotPaused: when guest memory is out of reach the worker is    *)
(* paused and no pass is in flight, although resumes and later pauses       *)
(* overtake attempts that still wait.                                       *)
PauseBarrier == disabled => paused /\ pc = "idle"

(* The acknowledgement frees a throttled producer.  A published frame is    *)
(* acknowledged by whichever consumer is attached, also when the presenter  *)
(* drops it, with four exceptions: the worker's pass fails or finds nothing *)
(* to present; a pause comes while it presents; a poller presents before    *)
(* the producer has set frame_dirty; a FrameSource attaches behind the      *)
(* frame.                                                                   *)
ProducerResumes ==
  frame_dirty = 1 ~>
    (frame_dirty = 0 \/ paused \/ missed \ {"owner", "dropped"} # {})

(* gpu-worker.ts: a dropped frame is acknowledged too, because not doing so *)
(* can "stall producers": while the device works, no published frame stays  *)
(* unacknowledged for ever.                                                 *)
ProducerNeverStalls ==
  frame_dirty = 1 ~> (frame_dirty = 0 \/ isDeviceLost \/ paused)

(* The newest frame reaches the screen: publish and acknowledge race, but   *)
(* the last frame stays unpresented only if the pass that took it failed,   *)
(* was for another output, or had its frame dropped by the presenter, which *)
(* nothing tries again (presentOnce, "intentionally dropped"); or if a      *)
(* FrameSource attached behind it.                                          *)
LatestShown ==
  <>[](\/ shown = frame_seq \/ missed \ {"early"} # {}
       \/ backend = "headless" \/ isDeviceLost \/ paused)
=============================================================================
