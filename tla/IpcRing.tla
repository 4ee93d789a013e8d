------------------------------ MODULE IpcRing ------------------------------
(***************************************************************************)
(* The lock-free ring of crates/aero-ipc/src/ring.rs: variable-length      *)
(* records in a shared byte buffer, several producers, one consumer.       *)
(* wasm.rs and web/src/ipc/ring_buffer.ts run the same steps through       *)
(* JavaScript Atomics; what they do when they must block is IpcWait.       *)
(*                                                                         *)
(* Cursors and sizes are counted in 4-byte words.  RingBuffer::new rejects *)
(* a capacity that is not a multiple of RECORD_ALIGN = 4, every record is  *)
(* rounded up to RECORD_ALIGN and the cursors start at 0, so each byte     *)
(* quantity the code computes is a multiple of 4 and the branch            *)
(* `remaining < 4` (an index in the last, partial word) is never taken.    *)
(* Payload lengths are still bytes; RecordWords rounds them.               *)
(*                                                                         *)
(* Each atomic load, compare-exchange and store of the code is an action.  *)
(* So are the plain writes of the marker, the length and the payload, and  *)
(* the plain reads of the length and the payload: another thread may run   *)
(* between any two of them.                                                *)
(***************************************************************************)
EXTENDS Integers, Sequences, FiniteSets

CONSTANTS
    Producers,    \* the threads that push
    Cap,          \* self.cap, in words
    CursorMod,    \* the cursors are u32 byte offsets: 2^30 words in the code
    PayloadLens,  \* the payload lengths pushed, in bytes
    PopLimits,    \* the max_len arguments of try_pop_capped; try_pop is the
                  \* limit that no length exceeds
    StartCursors, \* the cursors the ring may start a run with
    MaxPushes,    \* bound on the try_push calls of each producer
    NoWord        \* content of a word the producers have not written

ASSUME CapAssumption == Cap \in Nat \ {0}
ASSUME ModAssumption == CursorMod \in Nat /\ Cap < CursorMod
ASSUME LenAssumption == PayloadLens \subseteq Nat /\ PopLimits \subseteq Nat
ASSUME PushAssumption == MaxPushes \in Nat
ASSUME StartAssumption == StartCursors \subseteq 0 .. CursorMod - 1

VARIABLES
    head, tail_reserve, tail_commit,  \* the shared atomics
    data,         \* the shared words, by index
    pc,           \* where each producer is in try_push
    lhead, ltail, \* its local `head` and `tail`
    msg,          \* the payload it pushes
    pushes,       \* try_push calls it has made
    cpc,          \* where the consumer is in try_pop_capped
    chead, ctail, \* its local `head` and `tail`
    cmax,         \* its argument max_len
    cnext,        \* its local `new_head`
    cout,         \* what it is about to return
    log,          \* history: payloads in the order of their reservations
    published,    \* history: how many of them are committed
    taken         \* history: what the consumer has returned

shared == <<head, tail_reserve, tail_commit, data>>
prodVars == <<pc, lhead, ltail, msg, pushes>>
consVars == <<cpc, chead, ctail, cmax, cnext, cout>>
history == <<log, published, taken>>
vars == <<shared, prodVars, consVars, history>>

-----------------------------------------------------------------------------
(* Cursor arithmetic *)

Cursor == 0 .. CursorMod - 1

\* Mutant of Add: plain addition.
AddUnwrapped(a, n) == a + n

\* u32::wrapping_add, for an addend no larger than the modulus.
Add(a, n) == IF a + n >= CursorMod THEN a + n - CursorMod ELSE a + n

\* u32::wrapping_sub.
Sub(a, b) == IF a >= b THEN a - b ELSE a - b + CursorMod

\* The index of a cursor in the data region.
Idx(c) == c % Cap

\* Words from a cursor's index to the end of the data region.
Remaining(c) == Cap - Idx(c)

BodyWords(len) == (len + 3) \div 4

\* record_size_checked: the length word, the payload, rounded up.
RecordWords(len) == 1 + BodyWords(len)

\* Mutant of Padding: no padding when the record is one word too long.
PaddingOneShort(tail, len) ==
    IF Remaining(tail) + 1 < RecordWords(len) THEN Remaining(tail) ELSE 0

\* What a record reserved at `tail` skips at the end of the data region.
Padding(tail, len) ==
    IF Remaining(tail) < RecordWords(len) THEN Remaining(tail) ELSE 0

Reserve(tail, len) == Padding(tail, len) + RecordWords(len)

-----------------------------------------------------------------------------
(* Words of the data region.  A length word, a wrap marker and a payload   *)
(* word are told apart here; the code tells them apart only by position.   *)

Stale == [tag |-> "stale", val |-> NoWord]
LenWord(n) == [tag |-> "len", val |-> n]
WRAP_MARKER == [tag |-> "wrap", val |-> NoWord]
BodyWord(w) == [tag |-> "body", val |-> w]

\* The length the consumer may read: a word that is not a length or a marker
\* (old traffic, payload bytes) reads as any length.
BogusLen == 4 * Cap
HeaderReads(word) ==
    IF word.tag \in {"len", "wrap"} THEN {word}
    ELSE {WRAP_MARKER} \cup {LenWord(n) : n \in PayloadLens \cup {BogusLen}}

Payload(p, n, len) ==
    [src |-> p, len |-> len,
     words |-> [i \in 1 .. BodyWords(len) |-> BodyWord(<<p, n, i>>)]]

NoPayload(p) == [src |-> p, len |-> 0, words |-> <<>>]
NoOut == [res |-> "none", len |-> 0, words |-> <<>>]

-----------------------------------------------------------------------------

\* The cursors of an empty ring: 0 at creation, any cursor after traffic,
\* when the words hold what earlier records left.
Init ==
    /\ head \in StartCursors
    /\ tail_reserve = head
    /\ tail_commit = head
    /\ data = [i \in 0 .. Cap - 1 |-> Stale]
    /\ pc = [p \in Producers |-> "idle"]
    /\ lhead = [p \in Producers |-> 0]
    /\ ltail = [p \in Producers |-> 0]
    /\ msg = [p \in Producers |-> NoPayload(p)]
    /\ pushes = [p \in Producers |-> 0]
    /\ cpc = "idle" /\ chead = 0 /\ ctail = 0 /\ cmax = 0 /\ cnext = 0
    /\ cout = NoOut
    /\ log = <<>> /\ published = 0 /\ taken = <<>>

-----------------------------------------------------------------------------
(* try_push *)

\* The call.  A record larger than the ring returns TooLarge at once, having
\* touched nothing.
StartPush(p, len) ==
    /\ pc[p] = "idle"
    /\ pushes[p] < MaxPushes
    /\ pushes' = [pushes EXCEPT ![p] = @ + 1]
    /\ IF RecordWords(len) > Cap
       THEN UNCHANGED <<pc, msg>>
       ELSE /\ msg' = [msg EXCEPT ![p] = Payload(p, pushes[p], len)]
            /\ pc' = [pc EXCEPT ![p] = "load_head"]
    /\ UNCHANGED <<shared, lhead, ltail, consVars, history>>

\* A call that returns leaves no locals behind.
ReturnPush(p) ==
    /\ lhead' = [lhead EXCEPT ![p] = 0]
    /\ ltail' = [ltail EXCEPT ![p] = 0]
    /\ msg' = [msg EXCEPT ![p] = NoPayload(p)]

LoadHead(p) ==
    /\ pc[p] = "load_head"
    /\ lhead' = [lhead EXCEPT ![p] = head]
    /\ pc' = [pc EXCEPT ![p] = "load_tail"]
    /\ UNCHANGED <<shared, ltail, msg, pushes, consVars, history>>

\* Mutant of AfterLoads: the padding is not counted.
AfterLoadsNoPadding(used, tail, len) ==
    IF used > Cap THEN "load_head"
    ELSE IF RecordWords(len) > Cap - used THEN "idle"
    ELSE "cas"

\* After the two loads: retry when the head read is too old, return Full
\* when the record and its padding do not fit, else try to reserve.
AfterLoads(used, tail, len) ==
    IF used > Cap THEN "load_head"
    ELSE IF Reserve(tail, len) > Cap - used THEN "idle"
    ELSE "cas"

LoadTail(p) ==
    LET next == AfterLoads(Sub(tail_reserve, lhead[p]), tail_reserve, msg[p].len) IN
    /\ pc[p] = "load_tail"
    /\ pc' = [pc EXCEPT ![p] = next]
    /\ IF next = "idle"
       THEN ReturnPush(p)
       ELSE /\ ltail' = [ltail EXCEPT ![p] = tail_reserve]
            /\ UNCHANGED <<lhead, msg>>
    /\ UNCHANGED <<shared, pushes, consVars, history>>

\* The ring never moves through the whole u32 range (4 GiB of records) while
\* one producer stands between its two loads and its compare-exchange.  The
\* code relies on this timing bound; the model states it.
NoLap(n) ==
    \A q \in Producers : pc[q] \in {"load_tail", "cas"}
                           => Sub(tail_reserve, lhead[q]) + n < CursorMod

\* compare_exchange on tail_reserve.
Cas(p) ==
    /\ pc[p] = "cas"
    /\ \/ /\ tail_reserve = ltail[p]
          /\ NoLap(Reserve(ltail[p], msg[p].len))
          /\ tail_reserve' = Add(ltail[p], Reserve(ltail[p], msg[p].len))
          /\ log' = Append(log, msg[p])
          /\ lhead' = [lhead EXCEPT ![p] = 0]
          /\ pc' = [pc EXCEPT ![p] = "marker"]
       \/ /\ tail_reserve # ltail[p]
          /\ pc' = [pc EXCEPT ![p] = "load_head"]
          /\ UNCHANGED <<tail_reserve, log, lhead>>
    /\ UNCHANGED <<head, tail_commit, data, ltail, msg, pushes, consVars,
                   published, taken>>

\* Mutant of WriteMarker: the marker is not written.
WriteMarkerOmitted(p) ==
    /\ pc[p] = "marker"
    /\ pc' = [pc EXCEPT ![p] = "length"]
    /\ UNCHANGED <<shared, lhead, ltail, msg, pushes, consVars, history>>

WriteMarker(p) ==
    /\ pc[p] = "marker"
    /\ data' = IF Padding(ltail[p], msg[p].len) > 0
               THEN [data EXCEPT ![Idx(ltail[p])] = WRAP_MARKER]
               ELSE data
    /\ pc' = [pc EXCEPT ![p] = "length"]
    /\ UNCHANGED <<head, tail_reserve, tail_commit, lhead, ltail, msg, pushes,
                   consVars, history>>

\* start_index, where the record itself begins.
StartIdx(p) == Idx(Add(ltail[p], Padding(ltail[p], msg[p].len)))

WriteLength(p) ==
    /\ pc[p] = "length"
    /\ data' = [data EXCEPT ![StartIdx(p)] = LenWord(msg[p].len)]
    /\ pc' = [pc EXCEPT ![p] = "body"]
    /\ UNCHANGED <<head, tail_reserve, tail_commit, lhead, ltail, msg, pushes,
                   consVars, history>>

WriteBody(p) ==
    /\ pc[p] = "body"
    /\ data' = [i \in 0 .. Cap - 1 |->
                   IF i \in StartIdx(p) + 1 .. StartIdx(p) + BodyWords(msg[p].len)
                   THEN msg[p].words[i - StartIdx(p)] ELSE data[i]]
    /\ pc' = [pc EXCEPT ![p] = "await"]
    /\ UNCHANGED <<head, tail_reserve, tail_commit, lhead, ltail, msg, pushes,
                   consVars, history>>

\* Mutant of AwaitCommit: no waiting for earlier reservations.
AwaitCommitUnordered(p) ==
    /\ pc[p] = "await"
    /\ pc' = [pc EXCEPT ![p] = "commit"]
    /\ UNCHANGED <<shared, lhead, ltail, msg, pushes, consVars, history>>

\* Spin until every earlier reservation is committed.
AwaitCommit(p) ==
    /\ pc[p] = "await"
    /\ tail_commit = ltail[p]
    /\ pc' = [pc EXCEPT ![p] = "commit"]
    /\ UNCHANGED <<shared, lhead, ltail, msg, pushes, consVars, history>>

\* Mutant of StoreCommit: commits the record without its padding.
StoreCommitNoPadding(p) ==
    /\ pc[p] = "commit"
    /\ tail_commit' = Add(ltail[p], RecordWords(msg[p].len))
    /\ published' = published + 1
    /\ pc' = [pc EXCEPT ![p] = "idle"]
    /\ ReturnPush(p)
    /\ UNCHANGED <<head, tail_reserve, data, pushes, consVars, log, taken>>

StoreCommit(p) ==
    /\ pc[p] = "commit"
    /\ tail_commit' = Add(ltail[p], Reserve(ltail[p], msg[p].len))
    /\ published' = published + 1
    /\ pc' = [pc EXCEPT ![p] = "idle"]
    /\ ReturnPush(p)
    /\ UNCHANGED <<head, tail_reserve, data, pushes, consVars, log, taken>>

-----------------------------------------------------------------------------
(* try_pop_capped, and try_pop as its instance with an unreachable limit *)

StartPop(max) ==
    /\ cpc = "idle"
    /\ cmax' = max
    /\ cpc' = "load"
    /\ UNCHANGED <<shared, prodVars, chead, ctail, cnext, cout, history>>

\* Only the consumer stores head, so its two loads read one state.  Equal
\* cursors return Empty.
PopLoad ==
    /\ cpc = "load"
    /\ IF head = tail_commit
       THEN /\ cpc' = "idle"
            /\ cmax' = 0
            /\ UNCHANGED <<chead, ctail>>
       ELSE /\ cpc' = "inspect"
            /\ chead' = head
            /\ ctail' = tail_commit
            /\ UNCHANGED cmax
    /\ UNCHANGED <<shared, prodVars, cnext, cout, history>>

\* The two Corrupt returns.  They leave head alone: new_head = head.
Corrupt(len) ==
    \/ RecordWords(len) > Remaining(chead)
    \/ Sub(ctail, chead) < RecordWords(len)

PopInspect ==
    /\ cpc = "inspect"
    /\ \E word \in HeaderReads(data[Idx(chead)]) :
          IF word = WRAP_MARKER
          THEN /\ cnext' = Add(chead, Remaining(chead))
               /\ cout' = [NoOut EXCEPT !.res = "skip"]
               /\ cpc' = "store"
          ELSE LET len == word.val IN
               IF Corrupt(len)
               THEN /\ cnext' = chead
                    /\ cout' = [NoOut EXCEPT !.res = "corrupt"]
                    /\ cpc' = "store"
               ELSE /\ cnext' = Add(chead, RecordWords(len))
                    /\ cout' = [res |-> IF len > cmax THEN "too_large" ELSE "ok",
                                len |-> len, words |-> <<>>]
                    /\ cpc' = IF len > cmax THEN "store" ELSE "copy"
    /\ UNCHANGED <<shared, prodVars, chead, ctail, cmax, history>>

\* Mutant of PopCopy: the copy starts at the length word.
PopCopyFromLength ==
    /\ cpc = "copy"
    /\ cout' = [cout EXCEPT !.words =
                   [i \in 1 .. BodyWords(cout.len) |-> data[Idx(chead) + i - 1]]]
    /\ cpc' = "store"
    /\ UNCHANGED <<shared, prodVars, chead, ctail, cmax, cnext, history>>

PopCopy ==
    /\ cpc = "copy"
    /\ cout' = [cout EXCEPT !.words =
                   [i \in 1 .. BodyWords(cout.len) |-> data[Idx(chead) + i]]]
    /\ cpc' = "store"
    /\ UNCHANGED <<shared, prodVars, chead, ctail, cmax, cnext, history>>

\* The store of new_head: after a marker the loop starts again, after a
\* record the call returns.
PopStore ==
    /\ cpc = "store"
    /\ head' = cnext
    /\ cpc' = IF cout.res = "skip" THEN "load" ELSE "idle"
    /\ taken' = IF cout.res \in {"ok", "too_large"} THEN Append(taken, cout)
                ELSE taken
    /\ cmax' = IF cout.res = "skip" THEN cmax ELSE 0
    /\ chead' = 0 /\ ctail' = 0 /\ cnext' = 0 /\ cout' = NoOut
    /\ UNCHANGED <<tail_reserve, tail_commit, data, prodVars, log, published>>

-----------------------------------------------------------------------------

PushStep(p) ==
    \/ LoadHead(p) \/ LoadTail(p) \/ Cas(p)
    \/ WriteMarker(p) \/ WriteLength(p) \/ WriteBody(p)
    \/ AwaitCommit(p) \/ StoreCommit(p)

PopStep == PopLoad \/ PopInspect \/ PopCopy \/ PopStore

Next ==
    \/ \E p \in Producers : PushStep(p) \/ \E len \in PayloadLens : StartPush(p, len)
    \/ PopStep
    \/ \E max \in PopLimits : StartPop(max)

Spec == Init /\ [][Next]_vars

\* A worker that has started a push or a pop keeps running, and the consumer
\* keeps polling; nobody has to push.
FairSpec ==
    /\ Spec
    /\ \A p \in Producers : WF_vars(PushStep(p))
    /\ WF_vars(PopStep)
    /\ WF_vars(\E max \in PopLimits : StartPop(max))

-----------------------------------------------------------------------------
(* Properties *)

InFlight == {p \in Producers :
                pc[p] \in {"marker", "length", "body", "await", "commit"}}

\* The words a producer with a reservation writes.
WriteCells(p) ==
    StartIdx(p) .. StartIdx(p) + BodyWords(msg[p].len)
      \cup IF Padding(ltail[p], msg[p].len) > 0 THEN {Idx(ltail[p])} ELSE {}

\* The words the consumer may still read.
UnreadCells == {Idx(Add(head, i)) : i \in 0 .. Sub(tail_commit, head) - 1}

Word == [tag : {"stale", "wrap"}, val : {NoWord}]
          \cup [tag : {"len"}, val : Nat]
          \cup [tag : {"body"}, val : Producers \X Nat \X Nat]

PayloadOK(m) ==
    m.len \in Nat /\ m.words \in [1 .. BodyWords(m.len) -> Word]

PcLabels == {"idle", "load_head", "load_tail", "cas",
             "marker", "length", "body", "await", "commit"}

\* Types of the shared atomics and words and of both sides' locals.
TypeOK ==
    /\ head \in Cursor /\ tail_reserve \in Cursor /\ tail_commit \in Cursor
    /\ data \in [0 .. Cap - 1 -> Word]
    /\ pc \in [Producers -> PcLabels]
    /\ lhead \in [Producers -> Cursor]
    /\ ltail \in [Producers -> Cursor]
    /\ DOMAIN msg = Producers
    /\ \A p \in Producers : PayloadOK(msg[p])
    /\ pushes \in [Producers -> 0 .. MaxPushes]
    /\ cpc \in {"idle", "load", "inspect", "copy", "store"}
    /\ chead \in Cursor /\ ctail \in Cursor /\ cnext \in Cursor
    /\ cout.len \in Nat

\* The record is guaranteed to fit contiguously from start_index, for every
\* reservation: the plain writes after it stay inside the data region.
RecordContiguous ==
    \A p \in InFlight : StartIdx(p) + RecordWords(msg[p].len) <= Cap

\* The plain (non-atomic) writes of a producer never touch a word that another
\* producer holds or that the consumer may be reading.
NoDataRace ==
    /\ \A p, q \in InFlight : p # q => WriteCells(p) \cap WriteCells(q) = {}
    /\ \A p \in InFlight : WriteCells(p) \cap UnreadCells = {}

\* The two Corrupt returns of try_pop ("Shouldn't happen with in-order
\* commits") never happen: no push sequence makes the consumer misread.
NeverCorrupt == cout.res # "corrupt"

\* head only moves over committed words: try_pop never skips past tail_commit,
\* not even when it trusts a wrap marker without checking it.
HeadStaysBehindCommit ==
    [][Sub(head', head) <= Sub(tail_commit, head)]_vars

\* The ring implements the abstract queue: payloads come out once, unaltered,
\* in reservation order, and never occupy more than the ring.
Queue == INSTANCE IpcQueue WITH
    Payloads <- {Payload(p, n, len) : p \in Producers, n \in 0 .. MaxPushes,
                                      len \in PayloadLens},
    Room <- Cap, SizeOf <- RecordWords, Limits <- PopLimits,
    accepted <- SubSeq(log, published + 1, Len(log)),
    queue <- SubSeq(log, Len(taken) + 1, published),
    taken <- taken

ImplementsQueue == Queue!QSpec

\* Every reserved record is delivered: no interleaving of the commit spins
\* and the consumer's polls leaves one behind.
EveryRecordDelivered ==
    \A n \in 1 .. MaxPushes * Cardinality(Producers) :
        Len(log) >= n ~> Len(taken) >= n

=============================================================================
