------------------------------ MODULE IpcWait ------------------------------
(***************************************************************************)
(* How the threads of an IPC ring sleep and wake each other: the blocking  *)
(* operations of crates/aero-ipc/src/wasm.rs (ring_buffer.ts is the same   *)
(* protocol).  A producer runs push_blocking, the consumer runs            *)
(* pop_blocking in a loop.  IpcRing has the steps of a reservation and the *)
(* words of the data region; here a reservation is one step, cursors do    *)
(* not wrap, and the ring is the sequence of its segments.                 *)
(*                                                                         *)
(* A thread that may not call Atomics.wait (the browser's main thread)     *)
(* spins on tail_commit and calls try_push again when the ring is full.    *)
(***************************************************************************)
EXTENDS Integers, Sequences, FiniteSets

CONSTANTS
    Producers,
    Contexts,     \* the possible sets of producers that may call Atomics.wait
    Consumer,
    Cap,          \* capacity, in words
    Sizes,        \* the record sizes pushed, in words
    MaxPushes     \* bound on the pushes of each producer

ASSUME WaitAssumption ==
    /\ Contexts \subseteq SUBSET Producers /\ Consumer \notin Producers
    /\ Cap \in Nat \ {0} /\ MaxPushes \in Nat
    /\ Sizes \subseteq 1 .. Cap

Threads == Producers \cup {Consumer}

VARIABLES
    head, tail_reserve, tail_commit,  \* the shared atomics
    segments,     \* [size, pad] of the reserved words, oldest first
    canWait,      \* the producers in contexts where Atomics.wait is legal
    waiters,      \* the threads asleep on each atomic, first to sleep first
    pc, size, tail, new_tail, seen, pushes

ring == <<head, tail_reserve, tail_commit, segments>>
locals == <<canWait, size, tail, new_tail, seen, pushes>>
vars == <<ring, waiters, pc, locals>>

Init ==
    /\ head = 0 /\ tail_reserve = 0 /\ tail_commit = 0 /\ segments = <<>>
    /\ canWait \in Contexts
    /\ waiters = [a \in {"head", "tail_commit"} |-> <<>>]
    /\ pc = [t \in Threads |-> IF t = Consumer THEN "pop" ELSE "idle"]
    /\ size = [p \in Producers |-> 0]
    /\ tail = [p \in Producers |-> 0]
    /\ new_tail = [p \in Producers |-> 0]
    /\ seen = [t \in Threads |-> 0]
    /\ pushes = [p \in Producers |-> 0]

Goto(t, label) == pc' = [pc EXCEPT ![t] = label]

-----------------------------------------------------------------------------
(* Atomics.wait and Atomics.notify *)

\* Atomics.wait(addr, seen): compares and goes to sleep in one step, or
\* returns "not-equal" and the caller loops.
Wait(t, addr, value, asleep, loop) ==
    /\ IF value = seen[t]
       THEN /\ waiters' = [waiters EXCEPT ![addr] = Append(@, t)]
            /\ Goto(t, asleep)
       ELSE /\ Goto(t, loop)
            /\ UNCHANGED waiters
    /\ UNCHANGED <<ring, locals>>

\* Where a thread continues after Atomics.wait returns.
Resume(label) ==
    CASE label = "asleep_full" -> "try"
      [] label = "asleep_commit" -> "await"
      [] label = "asleep_empty" -> "empty"

\* Atomics.notify(addr, 1): wakes the thread that has slept longest on addr.
Notify(t, addr, next) ==
    /\ IF waiters[addr] = <<>>
       THEN /\ Goto(t, next)
            /\ UNCHANGED waiters
       ELSE LET w == Head(waiters[addr]) IN
            /\ waiters' = [waiters EXCEPT ![addr] = Tail(@)]
            /\ pc' = [pc EXCEPT ![t] = next, ![w] = Resume(pc[w])]
    /\ UNCHANGED <<ring, locals>>

-----------------------------------------------------------------------------
(* push_blocking *)

StartPush(p, n) ==
    /\ pc[p] = "idle"
    /\ pushes[p] < MaxPushes
    /\ pushes' = [pushes EXCEPT ![p] = @ + 1]
    /\ size' = [size EXCEPT ![p] = n]
    /\ Goto(p, "try")
    /\ UNCHANGED <<ring, waiters, canWait, tail, new_tail, seen>>

Padding(n) ==
    LET remaining == Cap - (tail_reserve % Cap)
    IN  IF remaining < n THEN remaining ELSE 0

Pads(n) == IF n = 0 THEN <<>> ELSE << [size |-> n, pad |-> TRUE] >>

\* Mutant of Full: a record that just fits is refused.
FullStrict(n) == Padding(n) + n >= Cap - (tail_reserve - head)

\* A record of n words and the padding before it do not fit.
Full(n) == Padding(n) + n > Cap - (tail_reserve - head)

\* try_push up to its compare-exchange: Full, or a reservation.
TryPush(p) ==
    LET padding == Padding(size[p])
        reserve == padding + size[p]
    IN
    /\ pc[p] = "try"
    /\ IF Full(size[p])
       THEN /\ Goto(p, "full")
            /\ UNCHANGED <<tail_reserve, segments, tail, new_tail>>
       ELSE /\ tail' = [tail EXCEPT ![p] = tail_reserve]
            /\ new_tail' = [new_tail EXCEPT ![p] = tail_reserve + reserve]
            /\ tail_reserve' = tail_reserve + reserve
            /\ segments' = segments \o Pads(padding)
                             \o << [size |-> size[p], pad |-> FALSE] >>
            /\ Goto(p, "await")
    /\ UNCHANGED <<head, tail_commit, waiters, canWait, size, seen, pushes>>

\* After Full: load head, then wait for it to change.
LoadHeadWhenFull(p) ==
    /\ pc[p] = "full"
    /\ IF p \in canWait
       THEN /\ seen' = [seen EXCEPT ![p] = head]
            /\ Goto(p, "wait_head")
       ELSE /\ Goto(p, "try")
            /\ UNCHANGED seen
    /\ UNCHANGED <<ring, waiters, canWait, size, tail, new_tail, pushes>>

WaitHead(p) ==
    /\ pc[p] = "wait_head"
    /\ Wait(p, "head", head, "asleep_full", "try")

\* The in-order commit loop.
AwaitCommit(p) ==
    /\ pc[p] = "await"
    /\ seen' = [seen EXCEPT ![p] = tail_commit]
    /\ Goto(p, IF tail_commit = tail[p] THEN "commit"
               ELSE IF p \in canWait THEN "wait_commit" ELSE "await")
    /\ UNCHANGED <<ring, waiters, canWait, size, tail, new_tail, pushes>>

WaitCommit(p) ==
    /\ pc[p] = "wait_commit"
    /\ Wait(p, "tail_commit", tail_commit, "asleep_commit", "await")

\* Mutant of StoreCommit: stores the start of the reservation.
StoreCommitStart(p) ==
    /\ pc[p] = "commit"
    /\ tail_commit' = tail[p]
    /\ Goto(p, "notify")
    /\ UNCHANGED <<head, tail_reserve, segments, waiters, locals>>

StoreCommit(p) ==
    /\ pc[p] = "commit"
    /\ tail_commit' = new_tail[p]
    /\ Goto(p, "notify")
    /\ UNCHANGED <<head, tail_reserve, segments, waiters, locals>>

\* Mutant of NotifyCommit: nobody is woken.
NotifyCommitForgotten(p) ==
    /\ pc[p] = "notify"
    /\ Goto(p, "idle")
    /\ UNCHANGED <<waiters, ring, locals>>

NotifyCommit(p) ==
    /\ pc[p] = "notify"
    /\ Notify(p, "tail_commit", "idle")

-----------------------------------------------------------------------------
(* pop_blocking *)

\* try_pop: None when empty; skips padding or takes a record, in both cases
\* by a store of head.
TryPop ==
    /\ pc[Consumer] = "pop"
    /\ IF head = tail_commit
       THEN /\ Goto(Consumer, "empty")
            /\ UNCHANGED <<head, segments>>
       ELSE /\ head' = head + Head(segments).size
            /\ segments' = Tail(segments)
            /\ Goto(Consumer, "notify")
    /\ UNCHANGED <<tail_reserve, tail_commit, waiters, locals>>

\* After a skip the loop of try_pop starts again, after a record the next
\* call of pop_blocking does.
NotifyHead ==
    /\ pc[Consumer] = "notify"
    /\ Notify(Consumer, "head", "pop")

\* wait_for_data: compare the cursors, then wait for tail_commit to change.
WaitForData ==
    /\ pc[Consumer] = "empty"
    /\ seen' = [seen EXCEPT ![Consumer] = tail_commit]
    /\ Goto(Consumer, IF head # tail_commit THEN "pop" ELSE "wait_data")
    /\ UNCHANGED <<ring, waiters, canWait, size, tail, new_tail, pushes>>

WaitData ==
    /\ pc[Consumer] = "wait_data"
    /\ Wait(Consumer, "tail_commit", tail_commit, "asleep_empty", "empty")

-----------------------------------------------------------------------------

PushStep(p) ==
    \/ TryPush(p) \/ LoadHeadWhenFull(p) \/ WaitHead(p)
    \/ AwaitCommit(p) \/ WaitCommit(p) \/ StoreCommit(p) \/ NotifyCommit(p)

PopStep == TryPop \/ NotifyHead \/ WaitForData \/ WaitData

Next ==
    \/ \E p \in Producers : PushStep(p) \/ \E n \in Sizes : StartPush(p, n)
    \/ PopStep

\* Every thread that is not asleep keeps running.
Spec ==
    /\ Init /\ [][Next]_vars
    /\ \A p \in Producers : WF_vars(PushStep(p))
    /\ WF_vars(PopStep)

-----------------------------------------------------------------------------
(* Properties *)

Pushing == {p \in Producers :
               pc[p] \in {"await", "wait_commit", "asleep_commit", "commit", "notify"}}

\* The consumer sleeps next to committed data only while some producer is
\* between its reservation and the notify that ends its push: no commit slips
\* between the emptiness check of wait_for_data and its wait.
NoLostDataWakeup ==
    (pc[Consumer] = "asleep_empty" /\ head # tail_commit) => Pushing # {}

\* push_blocking returns once the payload can be pushed.
PushReturns == \A p \in Producers : (pc[p] = "try") ~> (pc[p] = "idle")

\* A producer that calls try_push again while the ring is full (push_spinning)
\* gets its record in: the words that the record must skip at the end of the
\* region never leave it refused for ever, wherever the other producers have
\* left the tail.  Sizes of at most half the ring, rounded up, are needed: a
\* longer record may fit at no place the tail comes to rest.
SpinningPushReturns == canWait = {} => PushReturns

\* A reservation is committed and the call returns, whatever else sleeps on
\* tail_commit.
CommitReturns == \A p \in Producers : (pc[p] = "await") ~> (pc[p] = "idle")

\* Producers that spin, or one producer: the topologies in which one notify
\* is enough, since tail_commit has one sleeper at most.
OneSleeper ==
    canWait = {} \/ Cardinality({p \in Producers : pushes[p] > 0}) <= 1

\* With at most one sleeper on tail_commit, a push that has reserved returns.
CommitReturnsOneSleeper == []OneSleeper => CommitReturns

\* With at most one sleeper on tail_commit, the consumer empties the ring
\* again and again: it is woken for every record.
RingDrains == []OneSleeper => []<>(head = tail_reserve)

=============================================================================
