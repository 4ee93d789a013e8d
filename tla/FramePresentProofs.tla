------------------------- MODULE FramePresentProofs -------------------------
(***************************************************************************)
(* The framebuffer protocol for every number of frames, ticks, losses and  *)
(* pauses and every consumer.                                              *)
(*                                                                         *)
(* NoTornRead is not inductive: it holds when the producer starts a frame  *)
(* because frame_dirty is clear, so what matters is what a clear flag      *)
(* says.  SlotInv: a consumer that has chosen a slot which is no longer    *)
(* the active one has not acknowledged yet, so the flag of the publish     *)
(* that overtook it is set or about to be.  SeqInv says which frame each   *)
(* slot holds at each step of a publish, and that a chosen slot holds a    *)
(* frame no older than the one on the screen.                              *)
(***************************************************************************)
EXTENDS FramePresent, TLAPS

\* The consumer has chosen the slot it presents from.
Chosen == pc = "reading" \/ (consumer = "worker" /\ pc \in {"seq", "owner"} /\ kind = "shared")

SlotInv ==
  /\ wpc \in {"pixels", "active"} => frame_dirty = 0
  /\ Chosen /\ rslot # active_index => wpc \in {"seq", "dirty"} \/ frame_dirty = 1

SeqInv ==
  /\ wpc \in {"pixels", "active", "seq"} => frame_seq < MaxFrames
  /\ slot[active_index] = IF wpc = "seq" THEN frame_seq + 1 ELSE frame_seq
  /\ wpc = "active" => slot[back] = frame_seq + 1
  /\ wpc # "active" => slot[back] <= slot[active_index]
  /\ shown <= slot[active_index]
  /\ Chosen => shown <= slot[rslot]

PassInv ==
  /\ pc = "reading" /\ Worker => kind = "shared"
  /\ ~Worker => pc \in {"idle", "active", "reading", "ack", "clear"}

PauseInv ==
  /\ disabled => Worker /\ paused /\ pc = "idle"
  /\ paused => epoch < MaxPauses

Inv == TypeOK /\ SlotInv /\ SeqInv /\ PassInv /\ PauseInv

USE DEF headerVars, readerVars, passVars, deviceVars, pauseVars, sourceVars,
        framebufferVars, presentVars

LEMMA Bounds ==
  /\ MaxFrames \in Nat /\ MaxTicks \in Nat /\ MaxChanges \in Nat
  /\ MaxLosses \in Nat /\ MaxPauses \in Nat
  BY FramebufferAssumption, PresentAssumption

LEMMA InvInit == Init => Inv
<1> SUFFICES ASSUME Init PROVE Inv
  OBVIOUS
<1> USE Bounds DEF Init, FramebufferInit, PresentInit
<1>1. FramebufferTypeOK
  BY FramebufferAssumption DEF FramebufferTypeOK, Slots, NoSeq
<1>2. TypeOK
  <2>1. owner \in Owners /\ snap \in Owners /\ backend \in Backends
    BY PresentAssumption
  <2>2. /\ isDeviceLost \in BOOLEAN
        /\ paused \in BOOLEAN /\ disabled \in BOOLEAN
    BY Zenon
  <2> QED
    BY <1>1, <2>1, <2>2 DEF TypeOK
<1>3. SlotInv /\ SeqInv
  BY DEF SlotInv, SeqInv, Chosen, Slots, back
<1>4. PassInv /\ PauseInv
  BY DEF PassInv, PauseInv
<1> QED
  BY <1>2, <1>3, <1>4 DEF Inv

-----------------------------------------------------------------------------
(* The producer *)

LEMMA BeginFrameStep ==
    ASSUME Inv, Publish, BeginFrame PROVE Inv'
<1> USE Bounds DEF Publish, back, BeginFrame
<1>1. TypeOK'
  BY DEF Inv, TypeOK, FramebufferTypeOK, Slots, NoSeq, SlotInv, SeqInv, PauseInv
<1>2. SlotInv'
  BY DEF Inv, TypeOK, FramebufferTypeOK, Slots, SlotInv, Chosen, PassInv
<1>3. SeqInv'
  BY DEF Inv, TypeOK, FramebufferTypeOK, Slots, SlotInv, SeqInv, Chosen, PassInv, back
<1>4. PassInv' /\ PauseInv'
  BY DEF Inv, TypeOK, PassInv, PauseInv, Worker
<1> QED
  BY <1>1, <1>2, <1>3, <1>4 DEF Inv

LEMMA EndPixelsStep ==
    ASSUME Inv, Publish, EndPixels PROVE Inv'
<1> USE Bounds DEF Publish, back, EndPixels
<1>1. TypeOK'
  BY DEF Inv, TypeOK, FramebufferTypeOK, Slots, NoSeq, SlotInv, SeqInv, PauseInv
<1>2. SlotInv'
  BY DEF Inv, TypeOK, FramebufferTypeOK, Slots, SlotInv, Chosen, PassInv
<1>3. SeqInv'
  BY DEF Inv, TypeOK, FramebufferTypeOK, Slots, SlotInv, SeqInv, Chosen, PassInv, back
<1>4. PassInv' /\ PauseInv'
  BY DEF Inv, TypeOK, PassInv, PauseInv, Worker
<1> QED
  BY <1>1, <1>2, <1>3, <1>4 DEF Inv

LEMMA StoreActiveStep ==
    ASSUME Inv, Publish, StoreActive PROVE Inv'
<1> USE Bounds DEF Publish, back, StoreActive
<1>1. TypeOK'
  BY DEF Inv, TypeOK, FramebufferTypeOK, Slots, NoSeq, SlotInv, SeqInv, PauseInv
<1>2. SlotInv'
  BY DEF Inv, TypeOK, FramebufferTypeOK, Slots, SlotInv, Chosen, PassInv
<1>3. SeqInv'
  BY DEF Inv, TypeOK, FramebufferTypeOK, Slots, SlotInv, SeqInv, Chosen, PassInv, back
<1>4. PassInv' /\ PauseInv'
  BY DEF Inv, TypeOK, PassInv, PauseInv, Worker
<1> QED
  BY <1>1, <1>2, <1>3, <1>4 DEF Inv

LEMMA StoreSeqStep ==
    ASSUME Inv, Publish, StoreSeq PROVE Inv'
<1> USE Bounds DEF Publish, back, StoreSeq
<1>1. TypeOK'
  BY DEF Inv, TypeOK, FramebufferTypeOK, Slots, NoSeq, SlotInv, SeqInv, PauseInv
<1>2. SlotInv'
  BY DEF Inv, TypeOK, FramebufferTypeOK, Slots, SlotInv, Chosen, PassInv
<1>3. SeqInv'
  BY DEF Inv, TypeOK, FramebufferTypeOK, Slots, SlotInv, SeqInv, Chosen, PassInv, back
<1>4. PassInv' /\ PauseInv'
  BY DEF Inv, TypeOK, PassInv, PauseInv, Worker
<1> QED
  BY <1>1, <1>2, <1>3, <1>4 DEF Inv

LEMMA StoreDirtyStep ==
    ASSUME Inv, Publish, StoreDirty PROVE Inv'
<1> USE Bounds DEF Publish, back, StoreDirty
<1>1. TypeOK'
  BY DEF Inv, TypeOK, FramebufferTypeOK, Slots, NoSeq, SlotInv, SeqInv, PauseInv
<1>2. SlotInv'
  BY DEF Inv, TypeOK, FramebufferTypeOK, Slots, SlotInv, Chosen, PassInv
<1>3. SeqInv'
  BY DEF Inv, TypeOK, FramebufferTypeOK, Slots, SlotInv, SeqInv, Chosen, PassInv, back
<1>4. PassInv' /\ PauseInv'
  BY DEF Inv, TypeOK, PassInv, PauseInv, Worker
<1> QED
  BY <1>1, <1>2, <1>3, <1>4 DEF Inv

LEMMA StoreStatusStep ==
    ASSUME Inv, Publish, StoreStatus PROVE Inv'
<1> USE Bounds DEF Publish, back, StoreStatus
<1>1. TypeOK'
  BY DEF Inv, TypeOK, FramebufferTypeOK, Slots, NoSeq, SlotInv, SeqInv, PauseInv
<1>2. SlotInv'
  BY DEF Inv, TypeOK, FramebufferTypeOK, Slots, SlotInv, Chosen, PassInv
<1>3. SeqInv'
  BY DEF Inv, TypeOK, FramebufferTypeOK, Slots, SlotInv, SeqInv, Chosen, PassInv, back
<1>4. PassInv' /\ PauseInv'
  BY DEF Inv, TypeOK, PassInv, PauseInv, Worker
<1> QED
  BY <1>1, <1>2, <1>3, <1>4 DEF Inv

-----------------------------------------------------------------------------
(* The consumers that poll *)

LEMMA PollSeqStep ==
    ASSUME Inv, Poll, Polls, PollSeq PROVE Inv'
<1> USE Bounds DEF Poll, Polls, PollSeq
<1>1. TypeOK'
  BY DEF Inv, TypeOK, FramebufferTypeOK, Slots, NoSeq, SlotInv, SeqInv, PauseInv
<1>2. SlotInv'
  BY DEF Inv, TypeOK, FramebufferTypeOK, Slots, SlotInv, Chosen, PassInv
<1>3. SeqInv'
  BY DEF Inv, TypeOK, FramebufferTypeOK, Slots, SlotInv, SeqInv, Chosen, PassInv, back
<1>4. PassInv' /\ PauseInv'
  BY DEF Inv, TypeOK, PassInv, PauseInv, Worker
<1> QED
  BY <1>1, <1>2, <1>3, <1>4 DEF Inv

LEMMA PollActiveStep ==
    ASSUME Inv, Poll, Polls, PollActive PROVE Inv'
<1> USE Bounds DEF Poll, Polls, PollActive
<1>1. TypeOK'
  BY DEF Inv, TypeOK, FramebufferTypeOK, Slots, NoSeq, SlotInv, SeqInv, PauseInv
<1>2. SlotInv'
  BY DEF Inv, TypeOK, FramebufferTypeOK, Slots, SlotInv, Chosen, PassInv
<1>3. SeqInv'
  BY DEF Inv, TypeOK, FramebufferTypeOK, Slots, SlotInv, SeqInv, Chosen, PassInv, back
<1>4. PassInv' /\ PauseInv'
  BY DEF Inv, TypeOK, PassInv, PauseInv, Worker
<1> QED
  BY <1>1, <1>2, <1>3, <1>4 DEF Inv

LEMMA EndReadStep ==
    ASSUME Inv, Poll, Polls, EndRead PROVE Inv'
<1> USE Bounds DEF Poll, Polls, EndRead
<1>1. TypeOK'
  BY DEF Inv, TypeOK, FramebufferTypeOK, Slots, NoSeq, SlotInv, SeqInv, PauseInv
<1>2. SlotInv'
  BY DEF Inv, TypeOK, FramebufferTypeOK, Slots, SlotInv, Chosen, PassInv
<1>3. SeqInv'
  BY DEF Inv, TypeOK, FramebufferTypeOK, Slots, SlotInv, SeqInv, Chosen, PassInv, back
<1>4. PassInv' /\ PauseInv'
  BY DEF Inv, TypeOK, PassInv, PauseInv, Worker
<1> QED
  BY <1>1, <1>2, <1>3, <1>4 DEF Inv

LEMMA LoadAckSeqStep ==
    ASSUME Inv, Poll, Polls, LoadAckSeq PROVE Inv'
<1> USE Bounds DEF Poll, Polls, LoadAckSeq
<1>1. TypeOK'
  BY DEF Inv, TypeOK, FramebufferTypeOK, Slots, NoSeq, SlotInv, SeqInv, PauseInv
<1>2. SlotInv'
  BY DEF Inv, TypeOK, FramebufferTypeOK, Slots, SlotInv, Chosen, PassInv
<1>3. SeqInv'
  BY DEF Inv, TypeOK, FramebufferTypeOK, Slots, SlotInv, SeqInv, Chosen, PassInv, back
<1>4. PassInv' /\ PauseInv'
  BY DEF Inv, TypeOK, PassInv, PauseInv, Worker
<1> QED
  BY <1>1, <1>2, <1>3, <1>4 DEF Inv

LEMMA ClearDirtyStep ==
    ASSUME Inv, Poll, Polls, ClearDirty PROVE Inv'
<1> USE Bounds DEF Poll, Polls, ClearDirty
<1>1. TypeOK'
  BY DEF Inv, TypeOK, FramebufferTypeOK, Slots, NoSeq, SlotInv, SeqInv, PauseInv
<1>2. SlotInv'
  BY DEF Inv, TypeOK, FramebufferTypeOK, Slots, SlotInv, Chosen, PassInv
<1>3. SeqInv'
  BY DEF Inv, TypeOK, FramebufferTypeOK, Slots, SlotInv, SeqInv, Chosen, PassInv, back
<1>4. PassInv' /\ PauseInv'
  BY DEF Inv, TypeOK, PassInv, PauseInv, Worker
<1> QED
  BY <1>1, <1>2, <1>3, <1>4 DEF Inv

LEMMA AttachStep ==
    ASSUME Inv, AttachConsumer PROVE Inv'
<1> USE Bounds DEF AttachConsumer, Attach, FirstSeq, Polls
<1>1. TypeOK'
  BY DEF Inv, TypeOK, FramebufferTypeOK, Slots, NoSeq, SlotInv, SeqInv, PauseInv
<1>2. SlotInv'
  BY DEF Inv, TypeOK, FramebufferTypeOK, Slots, SlotInv, Chosen, PassInv
<1>3. SeqInv'
  BY DEF Inv, TypeOK, FramebufferTypeOK, Slots, SlotInv, SeqInv, Chosen, PassInv, back
<1>4. PassInv' /\ PauseInv'
  BY DEF Inv, TypeOK, PassInv, PauseInv, Worker
<1> QED
  BY <1>1, <1>2, <1>3, <1>4 DEF Inv

-----------------------------------------------------------------------------
(* The GPU worker's pass *)

LEMMA HandleTickStep ==
    ASSUME Inv, HandleTick PROVE Inv'
<1> USE Bounds DEF HandleTick, InLoop, Presenting, Worker
<1>1. TypeOK'
  BY DEF Inv, TypeOK, FramebufferTypeOK, Slots, NoSeq, SlotInv, SeqInv, PauseInv
<1>2. SlotInv'
  BY DEF Inv, TypeOK, FramebufferTypeOK, Slots, SlotInv, Chosen, PassInv
<1>3. SeqInv'
  BY DEF Inv, TypeOK, FramebufferTypeOK, Slots, SlotInv, SeqInv, Chosen, PassInv, back
<1>4. PassInv' /\ PauseInv'
  BY DEF Inv, TypeOK, PassInv, PauseInv, Worker
<1> QED
  BY <1>1, <1>2, <1>3, <1>4 DEF Inv

LEMMA ReadOwnerStep ==
    ASSUME Inv, ReadOwner PROVE Inv'
<1> USE Bounds DEF ReadOwner, FrameKinds, Worker
<1>1. TypeOK'
  BY DEF Inv, TypeOK, FramebufferTypeOK, Slots, NoSeq, SlotInv, SeqInv, PauseInv
<1>2. SlotInv'
  BY DEF Inv, TypeOK, FramebufferTypeOK, Slots, SlotInv, Chosen, PassInv
<1>3. SeqInv'
  BY DEF Inv, TypeOK, FramebufferTypeOK, Slots, SlotInv, SeqInv, Chosen, PassInv, back
<1>4. PassInv' /\ PauseInv'
  BY DEF Inv, TypeOK, PassInv, PauseInv, Worker
<1> QED
  BY <1>1, <1>2, <1>3, <1>4 DEF Inv

LEMMA ReadActiveStep ==
    ASSUME Inv, ReadActive PROVE Inv'
<1> USE Bounds DEF ReadActive, Worker
<1>1. TypeOK'
  BY DEF Inv, TypeOK, FramebufferTypeOK, Slots, NoSeq, SlotInv, SeqInv, PauseInv
<1>2. SlotInv'
  BY DEF Inv, TypeOK, FramebufferTypeOK, Slots, SlotInv, Chosen, PassInv
<1>3. SeqInv'
  BY DEF Inv, TypeOK, FramebufferTypeOK, Slots, SlotInv, SeqInv, Chosen, PassInv, back
<1>4. PassInv' /\ PauseInv'
  BY DEF Inv, TypeOK, PassInv, PauseInv, Worker
<1> QED
  BY <1>1, <1>2, <1>3, <1>4 DEF Inv

LEMMA ReadSeqStep ==
    ASSUME Inv, ReadSeq PROVE Inv'
<1> USE Bounds DEF ReadSeq, Worker
<1>1. TypeOK'
  BY DEF Inv, TypeOK, FramebufferTypeOK, Slots, NoSeq, SlotInv, SeqInv, PauseInv
<1>2. SlotInv'
  BY DEF Inv, TypeOK, FramebufferTypeOK, Slots, SlotInv, Chosen, PassInv
<1>3. SeqInv'
  BY DEF Inv, TypeOK, FramebufferTypeOK, Slots, SlotInv, SeqInv, Chosen, PassInv, back
<1>4. PassInv' /\ PauseInv'
  BY DEF Inv, TypeOK, PassInv, PauseInv, Worker
<1> QED
  BY <1>1, <1>2, <1>3, <1>4 DEF Inv

LEMMA ChooseOutputStep ==
    ASSUME Inv, ChooseOutput PROVE Inv'
<1> USE Bounds DEF ChooseOutput, UsesFramebuffer, AfterPresent, Worker
<1>1. TypeOK'
  BY DEF Inv, TypeOK, FramebufferTypeOK, Slots, NoSeq, SlotInv, SeqInv, PauseInv
<1>2. SlotInv'
  BY DEF Inv, TypeOK, FramebufferTypeOK, Slots, SlotInv, Chosen, PassInv
<1>3. SeqInv'
  BY DEF Inv, TypeOK, FramebufferTypeOK, Slots, SlotInv, SeqInv, Chosen, PassInv, back
<1>4. PassInv' /\ PauseInv'
  BY DEF Inv, TypeOK, PassInv, PauseInv, Worker
<1> QED
  BY <1>1, <1>2, <1>3, <1>4 DEF Inv

LEMMA FinishPresentStep ==
    ASSUME Inv, FinishPresent PROVE Inv'
<1> USE Bounds DEF FinishPresent, Presenting, AfterPresent, Worker
<1>1. TypeOK'
  <2>1. FramebufferTypeOK'
    BY DEF Inv, TypeOK, FramebufferTypeOK, Slots, SlotInv, SeqInv
  <2>2. /\ isDeviceLost' \in BOOLEAN
        /\ paused' \in BOOLEAN /\ disabled' \in BOOLEAN
    BY Zenon DEF Inv, TypeOK
  <2> QED
    BY <2>1, <2>2 DEF Inv, TypeOK, PauseInv
<1>2. SlotInv'
  BY DEF Inv, TypeOK, FramebufferTypeOK, Slots, SlotInv, Chosen, PassInv
<1>3. SeqInv'
  BY DEF Inv, TypeOK, FramebufferTypeOK, Slots, SlotInv, SeqInv, Chosen, PassInv, back
<1>4. PassInv' /\ PauseInv'
  BY DEF Inv, TypeOK, PassInv, PauseInv, Worker
<1> QED
  BY <1>1, <1>2, <1>3, <1>4 DEF Inv

LEMMA AckSeqStep ==
    ASSUME Inv, AckSeq PROVE Inv'
<1> USE Bounds DEF AckSeq, Worker
<1>1. TypeOK'
  BY DEF Inv, TypeOK, FramebufferTypeOK, Slots, NoSeq, SlotInv, SeqInv, PauseInv
<1>2. SlotInv'
  BY DEF Inv, TypeOK, FramebufferTypeOK, Slots, SlotInv, Chosen, PassInv
<1>3. SeqInv'
  BY DEF Inv, TypeOK, FramebufferTypeOK, Slots, SlotInv, SeqInv, Chosen, PassInv, back
<1>4. PassInv' /\ PauseInv'
  BY DEF Inv, TypeOK, PassInv, PauseInv, Worker
<1> QED
  BY <1>1, <1>2, <1>3, <1>4 DEF Inv

LEMMA AckClearStep ==
    ASSUME Inv, AckClear PROVE Inv'
<1> USE Bounds DEF AckClear, Worker
<1>1. TypeOK'
  BY DEF Inv, TypeOK, FramebufferTypeOK, Slots, NoSeq, SlotInv, SeqInv, PauseInv
<1>2. SlotInv'
  BY DEF Inv, TypeOK, FramebufferTypeOK, Slots, SlotInv, Chosen, PassInv
<1>3. SeqInv'
  BY DEF Inv, TypeOK, FramebufferTypeOK, Slots, SlotInv, SeqInv, Chosen, PassInv, back
<1>4. PassInv' /\ PauseInv'
  BY DEF Inv, TypeOK, PassInv, PauseInv, Worker
<1> QED
  BY <1>1, <1>2, <1>3, <1>4 DEF Inv

LEMMA FinishPassStep ==
    ASSUME Inv, FinishPass PROVE Inv'
<1> USE Bounds DEF FinishPass, Worker
<1>1. TypeOK'
  <2>1. FramebufferTypeOK'
    BY DEF Inv, TypeOK, FramebufferTypeOK, Slots, SlotInv, SeqInv
  <2>2. /\ isDeviceLost' \in BOOLEAN
        /\ paused' \in BOOLEAN /\ disabled' \in BOOLEAN
    BY Zenon DEF Inv, TypeOK
  <2>3. missed' \subseteq {"owner", "dropped", "fault", "early", "skipped"}
    BY DEF Inv, TypeOK, Misses
  <2> QED
    BY <2>1, <2>2, <2>3, PresentAssumption DEF Inv, TypeOK, PauseInv
<1>2. SlotInv'
  BY DEF Inv, TypeOK, FramebufferTypeOK, Slots, SlotInv, Chosen, PassInv
<1>3. SeqInv'
  BY DEF Inv, TypeOK, FramebufferTypeOK, Slots, SlotInv, SeqInv, Chosen, PassInv, back
<1>4. PassInv' /\ PauseInv'
  BY DEF Inv, TypeOK, PassInv, PauseInv, Worker
<1> QED
  BY <1>1, <1>2, <1>3, <1>4 DEF Inv

LEMMA PresentThrowsStep ==
    ASSUME Inv, PresentThrows PROVE Inv'
<1> USE Bounds DEF PresentThrows, Presenting, Worker
<1>1. TypeOK'
  <2>1. FramebufferTypeOK'
    BY DEF Inv, TypeOK, FramebufferTypeOK, Slots, SlotInv, SeqInv
  <2>2. /\ isDeviceLost' \in BOOLEAN
        /\ paused' \in BOOLEAN /\ disabled' \in BOOLEAN
    BY Zenon DEF Inv, TypeOK
  <2> QED
    BY <2>1, <2>2 DEF Inv, TypeOK, PauseInv
<1>2. SlotInv'
  BY DEF Inv, TypeOK, FramebufferTypeOK, Slots, SlotInv, Chosen, PassInv
<1>3. SeqInv'
  BY DEF Inv, TypeOK, FramebufferTypeOK, Slots, SlotInv, SeqInv, Chosen, PassInv, back
<1>4. PassInv' /\ PauseInv'
  BY DEF Inv, TypeOK, PassInv, PauseInv, Worker
<1> QED
  BY <1>1, <1>2, <1>3, <1>4 DEF Inv

-----------------------------------------------------------------------------
(* The main thread, the device and the pauses *)

\* These steps leave the framebuffer and the pass alone.
LEMMA FramebufferUntouched ==
    ASSUME Inv, UNCHANGED <<framebufferVars, passVars>>
    PROVE  FramebufferTypeOK' /\ SlotInv' /\ SeqInv' /\ PassInv'
  BY DEF Inv, TypeOK, FramebufferTypeOK, SlotInv, SeqInv, PassInv, Chosen, Worker, back

LEMMA ControlStep ==
    ASSUME Inv,
           \/ SendTick \/ ChangeOwner \/ LoseDevice \/ Recover \/ RequestPause \/ Resume
           \/ \E e \in waiting : PauseWakes(e)
    PROVE  Inv'
<1> USE Bounds
<1>1. UNCHANGED <<framebufferVars, passVars>>
  BY DEF SendTick, ChangeOwner, LoseDevice, Recover, RequestPause, Resume, PauseWakes
<1>2. FramebufferTypeOK' /\ SlotInv' /\ SeqInv' /\ PassInv'
  BY <1>1, FramebufferUntouched
<1>3. CASE SendTick
  <2>1. /\ isDeviceLost' \in BOOLEAN
        /\ paused' \in BOOLEAN /\ disabled' \in BOOLEAN
    BY <1>3, Zenon DEF Inv, TypeOK, SendTick
  <2>2. TypeOK' /\ PauseInv'
    BY <1>3, <1>2, <2>1 DEF Inv, TypeOK, PauseInv, SendTick, Worker
  <2> QED
    BY <1>2, <2>2 DEF Inv
<1>4. CASE ChangeOwner
  <2>1. /\ isDeviceLost' \in BOOLEAN
        /\ paused' \in BOOLEAN /\ disabled' \in BOOLEAN
    BY <1>4, Zenon DEF Inv, TypeOK, ChangeOwner
  <2>2. TypeOK' /\ PauseInv'
    BY <1>4, <1>2, <2>1 DEF Inv, TypeOK, PauseInv, ChangeOwner, Worker
  <2> QED
    BY <1>2, <2>2 DEF Inv
<1>5. CASE LoseDevice
  <2>1. /\ isDeviceLost' \in BOOLEAN
        /\ paused' \in BOOLEAN /\ disabled' \in BOOLEAN
    BY <1>5, Zenon DEF Inv, TypeOK, LoseDevice
  <2>2. TypeOK' /\ PauseInv'
    BY <1>5, <1>2, <2>1 DEF Inv, TypeOK, PauseInv, LoseDevice, Worker
  <2> QED
    BY <1>2, <2>2 DEF Inv
<1>6. CASE Recover
  <2>1. /\ isDeviceLost' \in BOOLEAN
        /\ paused' \in BOOLEAN /\ disabled' \in BOOLEAN
    BY <1>6, Zenon DEF Inv, TypeOK, Recover
  <2>2. TypeOK' /\ PauseInv'
    BY <1>6, <1>2, <2>1 DEF Inv, TypeOK, PauseInv, Recover, Worker
  <2> QED
    BY <1>2, <2>2 DEF Inv
<1>7. CASE RequestPause
  <2>1. /\ isDeviceLost' \in BOOLEAN
        /\ paused' \in BOOLEAN /\ disabled' \in BOOLEAN
    BY <1>7, Zenon DEF Inv, TypeOK, RequestPause
  <2>2. TypeOK' /\ PauseInv'
    BY <1>7, <1>2, <2>1 DEF Inv, TypeOK, PauseInv, RequestPause, InLoop, Presenting, Worker
  <2> QED
    BY <1>2, <2>2 DEF Inv
<1>8. CASE Resume
  <2>1. /\ isDeviceLost' \in BOOLEAN
        /\ paused' \in BOOLEAN /\ disabled' \in BOOLEAN
    BY <1>8, Zenon DEF Inv, TypeOK, Resume
  <2>2. TypeOK' /\ PauseInv'
    BY <1>8, <1>2, <2>1 DEF Inv, TypeOK, PauseInv, Resume, Worker
  <2> QED
    BY <1>2, <2>2 DEF Inv
<1>9. CASE \E e \in waiting : PauseWakes(e)
  <2>1. /\ isDeviceLost' \in BOOLEAN
        /\ paused' \in BOOLEAN /\ disabled' \in BOOLEAN
    BY <1>9, Zenon DEF Inv, TypeOK, PauseWakes
  <2>2. TypeOK' /\ PauseInv'
    BY <1>9, <1>2, <2>1 DEF Inv, TypeOK, PauseInv, PauseWakes, InLoop, Presenting, Worker
  <2> QED
    BY <1>2, <2>2 DEF Inv
<1> QED
  BY <1>3, <1>4, <1>5, <1>6, <1>7, <1>8, <1>9

-----------------------------------------------------------------------------

LEMMA InvNext == Inv /\ [Next]_vars => Inv'
<1> SUFFICES ASSUME Inv, [Next]_vars PROVE Inv'
  OBVIOUS
<1>1. CASE Publish
  BY <1>1, BeginFrameStep, EndPixelsStep, StoreActiveStep, StoreSeqStep, StoreDirtyStep,
     StoreStatusStep DEF Publish, ProducerStep
<1>2. CASE Poll
  BY <1>2, PollSeqStep, PollActiveStep, EndReadStep, LoadAckSeqStep, ClearDirtyStep
     DEF Poll, PollStep, PollSeq, PollActive, LoadAckSeq, ClearDirty
<1>3. CASE AttachConsumer
  BY <1>3, AttachStep
<1>4. CASE HandleTick \/ PassStep \/ PresentThrows
  BY <1>4, HandleTickStep, ReadOwnerStep, ReadActiveStep, ReadSeqStep, ChooseOutputStep,
     FinishPresentStep, AckSeqStep, AckClearStep, FinishPassStep, PresentThrowsStep
     DEF PassStep
<1>5. CASE \/ SendTick \/ ChangeOwner \/ LoseDevice \/ Recover \/ RequestPause \/ Resume
           \/ \E e \in waiting : PauseWakes(e)
  BY <1>5, ControlStep
<1>6. CASE UNCHANGED vars
  BY <1>6, FramebufferUntouched DEF vars, Inv, TypeOK, PauseInv, Worker
<1> QED
  BY <1>1, <1>2, <1>3, <1>4, <1>5, <1>6 DEF Next

\* Type correctness of the presentation path.
THEOREM PresentTypeCorrect == Spec => []TypeOK
<1>1. Inv => TypeOK
  BY DEF Inv
<1> QED
  BY <1>1, InvInit, InvNext, PTL DEF Spec

\* A throttled producer never writes the slot that a consumer is reading, for
\* every consumer and however publishes, acknowledgements, failures and
\* pauses interleave (try_write_frame's check of frame_dirty is enough).
THEOREM NoFrameIsTorn == Spec => []NoTornRead
<1>1. Inv => NoTornRead
  BY DEF Inv, TypeOK, FramebufferTypeOK, Slots, NoTornRead, SlotInv, Chosen, back
<1> QED
  BY <1>1, InvInit, InvNext, PTL DEF Spec

\* While guest memory is out of reach, no pass is in flight
\* (ensureSnapshotPaused and handleSnapshotResume).
THEOREM PauseIsBarrier == Spec => []PauseBarrier
<1>1. Inv => PauseBarrier
  BY DEF Inv, PauseInv, PauseBarrier
<1> QED
  BY <1>1, InvInit, InvNext, PTL DEF Spec

\* The screen never goes back to an older frame.
THEOREM FramesGoForward == Spec => ShownForward
<1>1. Inv /\ [Next]_vars => [shown' >= shown]_shown
  <2> SUFFICES ASSUME Inv, [Next]_vars PROVE shown' >= shown \/ shown' = shown
    OBVIOUS
  <2>1. shown \in Nat /\ (Chosen => slot[rslot] \in Nat /\ shown <= slot[rslot])
    BY Bounds DEF Inv, TypeOK, FramebufferTypeOK, SeqInv, Slots
  <2>2. CASE Poll
    BY <2>1, <2>2 DEF Poll, PollStep, PollSeq, PollActive, EndRead, LoadAckSeq, ClearDirty, Chosen
  <2>3. CASE PassStep
    BY <2>1, <2>3 DEF PassStep, ReadOwner, ReadActive, ReadSeq, ChooseOutput, FinishPresent,
                      AckSeq, AckClear, FinishPass, Chosen
  <2>4. CASE ~Poll /\ ~PassStep
    BY <2>4 DEF Next, vars, Publish, ProducerStep, BeginFrame, EndPixels, StoreActive, StoreSeq,
                StoreDirty, StoreStatus, AttachConsumer, Attach, SendTick, ChangeOwner,
                HandleTick, PresentThrows, LoseDevice, Recover, RequestPause, Resume, PauseWakes
  <2> QED
    BY <2>2, <2>3, <2>4
<1> QED
  BY <1>1, InvInit, InvNext, PTL DEF Spec, ShownForward

=============================================================================
