------------------------- MODULE SharedFramebuffer -------------------------
(***************************************************************************)
(* The double-buffered framebuffer that the CPU worker publishes in shared *)
(* memory (crates/aero-shared/src/shared_framebuffer.rs) and two of its    *)
(* consumers: FrameSource (crates/aero-gpu/src/frame_source.rs) and the    *)
(* main thread's 2D canvas (web/src/display/shared_layout_presenter.ts).   *)
(* The GPU worker, the third, is in FramePresent.                          *)
(*                                                                         *)
(* Every atomic access to the header that another thread can tell apart is *)
(* a step of its own.  A frame is its sequence number, and a slot holds    *)
(* the number of the frame last written to it; the pixels are written      *)
(* between BeginFrame and EndPixels and read while pc = "reading".  The    *)
(* producers are the throttled ones (try_write_frame, publishShared-       *)
(* FramebufferFrame, publishSharedFramebufferVgaText, render_frame): they  *)
(* wait for frame_dirty to be cleared before they touch the back slot.     *)
(***************************************************************************)
EXTENDS Naturals

CONSTANTS
  Consumers,   \* the kinds of consumer to check
  MaxFrames    \* bound on the frames published

ASSUME FramebufferAssumption ==
  /\ Consumers \subseteq {"canvas", "source", "worker"}
  /\ MaxFrames \in Nat

Slots == {0, 1}

VARIABLES
  slot,         \* the frame whose pixels each slot holds
  active_index,
  frame_seq,
  frame_dirty,
  status,       \* FRAME_STATUS of the frame state the scheduler watches
  wpc,          \* where the producer is in a publish
  consumer,     \* the consumer attached to this framebuffer
  pc,           \* where the consumer is in a present
  rslot,        \* the slot it reads
  rseq,         \* the frame_seq it loaded
  last_seq,     \* FrameSource.last_seq, SharedLayoutPresenter.lastPresentedSeq
  shown         \* the last framebuffer frame that reached the screen

headerVars == <<slot, active_index, frame_seq, frame_dirty, status>>
readerVars == <<pc, rslot, rseq>>

NoSeq == MaxFrames + 1   \* lastPresentedSeq = -1: no sequence number

FramebufferInit ==
  /\ slot = [s \in Slots |-> 0]
  /\ active_index = 0 /\ frame_seq = 0 /\ frame_dirty = 0
  /\ status = "presented"
  /\ wpc = "idle"
  /\ consumer \in Consumers
  /\ pc = "idle" /\ rslot = 0 /\ rseq = 0
  /\ last_seq = IF consumer = "canvas" THEN NoSeq ELSE 0
  /\ shown = 0

----------------------------------------------------------------------------
(* The producer. *)

back == 1 - active_index

(* write_frame without the throttle *)
BeginFrameUnthrottled ==
  /\ wpc = "idle" /\ frame_seq < MaxFrames
  /\ wpc' = "pixels"
  /\ UNCHANGED <<headerVars, readerVars, consumer, last_seq, shown>>

(* try_write_frame loads frame_dirty and, when it is clear, starts writing
   the back slot.  Only the producer changes active_index, so loading it is
   no step of its own. *)
BeginFrame ==
  /\ wpc = "idle" /\ frame_dirty = 0 /\ frame_seq < MaxFrames
  /\ wpc' = "pixels"
  /\ UNCHANGED <<headerVars, readerVars, consumer, last_seq, shown>>

(* The pixels go to the slot on display. *)
EndPixelsInPlace ==
  /\ wpc = "pixels"
  /\ slot' = [slot EXCEPT ![active_index] = frame_seq + 1]
  /\ wpc' = "active"
  /\ UNCHANGED <<active_index, frame_seq, frame_dirty, status, readerVars,
                 consumer, last_seq, shown>>

EndPixels ==
  /\ wpc = "pixels"
  /\ slot' = [slot EXCEPT ![back] = frame_seq + 1]
  /\ wpc' = "active"
  /\ UNCHANGED <<active_index, frame_seq, frame_dirty, status, readerVars,
                 consumer, last_seq, shown>>

StoreActive ==
  /\ wpc = "active"
  /\ active_index' = back
  /\ wpc' = "seq"
  /\ UNCHANGED <<slot, frame_seq, frame_dirty, status, readerVars, consumer,
                 last_seq, shown>>

StoreSeq ==
  /\ wpc = "seq"
  /\ frame_seq' = frame_seq + 1
  /\ wpc' = "dirty"
  /\ UNCHANGED <<slot, active_index, frame_dirty, status, readerVars,
                 consumer, last_seq, shown>>

StoreDirty ==
  /\ wpc = "dirty"
  /\ frame_dirty' = 1
  /\ wpc' = "status"
  /\ UNCHANGED <<slot, active_index, frame_seq, status, readerVars, consumer,
                 last_seq, shown>>

StoreStatus ==
  /\ wpc = "status"
  /\ status' = "dirty"
  /\ wpc' = "idle"
  /\ UNCHANGED <<slot, active_index, frame_seq, frame_dirty, readerVars,
                 consumer, last_seq, shown>>

ProducerStep ==
  BeginFrame \/ EndPixels \/ StoreActive \/ StoreSeq \/ StoreDirty
  \/ StoreStatus

----------------------------------------------------------------------------
(* The consumers that poll frame_seq: presentLatestFrame, and poll_frame
   followed by ack_frame when the caller is done with the pixels. *)

Polls == consumer \in {"canvas", "source"}

FirstSeq == IF consumer = "canvas" THEN NoSeq ELSE frame_seq

(* from_shared_memory and setSharedFramebuffer: a FrameSource starts behind
   the frame that is already there, the canvas presents it. *)
Attach ==
  /\ Polls /\ pc = "idle" /\ last_seq # FirstSeq
  /\ last_seq' = FirstSeq
  /\ UNCHANGED <<headerVars, wpc, consumer, readerVars, shown>>

PollSeq ==
  /\ Polls /\ pc = "idle" /\ frame_seq # last_seq
  /\ rseq' = frame_seq /\ last_seq' = frame_seq
  /\ pc' = "active"
  /\ UNCHANGED <<headerVars, wpc, consumer, rslot, shown>>

PollActive ==
  /\ Polls /\ pc = "active"
  /\ rslot' = active_index
  /\ pc' = "reading"
  /\ UNCHANGED <<headerVars, wpc, consumer, rseq, last_seq, shown>>

(* The copy or the upload is done. *)
EndRead ==
  /\ pc = "reading"
  /\ shown' = slot[rslot]
  /\ pc' = "ack"
  /\ UNCHANGED <<headerVars, wpc, consumer, rslot, rseq, last_seq>>

(* The newest sequence number is taken for the one that was presented. *)
LoadAckSeqKeepsNewest ==
  /\ Polls /\ pc = "ack"
  /\ pc' = IF frame_seq = rseq THEN "clear" ELSE "idle"
  /\ last_seq' = frame_seq
  /\ UNCHANGED <<headerVars, wpc, consumer, rslot, rseq, shown>>

(* ack_frame: the flag is cleared only for the frame that was presented. *)
LoadAckSeq ==
  /\ Polls /\ pc = "ack"
  /\ pc' = IF frame_seq = rseq THEN "clear" ELSE "idle"
  /\ UNCHANGED <<headerVars, wpc, consumer, rslot, rseq, last_seq, shown>>

ClearDirty ==
  /\ Polls /\ pc = "clear"
  /\ frame_dirty' = 0
  /\ pc' = "idle"
  /\ UNCHANGED <<slot, active_index, frame_seq, status, wpc, consumer, rslot,
                 rseq, last_seq, shown>>

PollStep ==
  PollSeq \/ PollActive \/ (Polls /\ EndRead) \/ LoadAckSeq \/ ClearDirty

----------------------------------------------------------------------------
FramebufferTypeOK ==
  /\ slot \in [Slots -> 0..MaxFrames]
  /\ active_index \in Slots /\ frame_seq \in 0..MaxFrames
  /\ frame_dirty \in {0, 1}
  /\ status \in {"dirty", "presenting", "presented"}
  /\ wpc \in {"idle", "pixels", "active", "seq", "dirty", "status"}
  /\ consumer \in Consumers
  /\ rslot \in Slots /\ rseq \in 0..MaxFrames
  /\ last_seq \in 0..NoSeq /\ shown \in 0..MaxFrames

(* write_frame's "data race": a throttled producer never writes the slot   *)
(* that the consumer is copying, whatever publish and acknowledgement      *)
(* overlap, so no torn frame is shown.                                     *)
NoTornRead ==
  pc = "reading" /\ wpc = "pixels" => back # rslot

(* Frames reach the screen in the order in which they were published: a    *)
(* present that chose its slot before a publish never shows that older     *)
(* frame after a newer one.                                                *)
ShownForward == [][shown' >= shown]_shown
=============================================================================
