---------------------------- MODULE ScanoutState ----------------------------
(***************************************************************************)
(* The scanout descriptor of crates/aero-shared/src/scanout_state.rs: a    *)
(* seqlock shared by several publishing workers and several readers, which *)
(* must survive a publisher that dies in the middle.  cursor_state.rs and  *)
(* web/src/ipc/scanout_state.ts are the same protocol on other words.      *)
(*                                                                         *)
(* An update is abstracted to one name, held by every field it has stored. *)
(* All accesses are SeqCst atomics, one action each.                       *)
(***************************************************************************)
EXTENDS Integers, FiniteSets

CONSTANTS
    Writers, Readers,
    NFields,        \* words of the descriptor besides generation: 7
    BUSY_BIT,       \* 2^31 in the code: generations are below it
    MAX_SPINS,      \* 1000000 in the code
    Updates,        \* the updates published
    NoUpdate,       \* the content of a new ScanoutState
    MaxPublishes,   \* bound on the try_publish calls of each writer
    Mortal          \* the writers that may die while they hold the lock

Fields == 1 .. NFields

ASSUME ScanoutAssumption ==
    /\ NFields \in Nat \ {0} /\ BUSY_BIT \in Nat \ {0}
    /\ MAX_SPINS \in Nat \ {0} /\ MaxPublishes \in Nat
    /\ Mortal \subseteq Writers

VARIABLES
    generation, words,    \* the shared atomics
    wpc, start, wspins, update, wfield, publishes,   \* try_publish
    rpc, gen0, rspins, buf, rfield,                  \* try_snapshot
    current,   \* history: the update last published
    commits,   \* history: how many were published
    since      \* history: commits when a reader loaded gen0

writerVars == <<wpc, start, wspins, update, wfield, publishes>>
readerVars == <<rpc, gen0, rspins, buf, rfield, since>>
vars == <<generation, words, writerVars, readerVars, current, commits>>

Busy(g) == g >= BUSY_BIT

\* start.wrapping_add(1) & !BUSY_BIT, for a start without the bit.
NextGeneration(g) == IF g + 1 = BUSY_BIT THEN 0 ELSE g + 1

Init ==
    /\ generation = 0
    /\ words = [f \in Fields |-> NoUpdate]
    /\ wpc = [w \in Writers |-> "idle"]
    /\ start = [w \in Writers |-> 0]
    /\ wspins = [w \in Writers |-> 0]
    /\ update = [w \in Writers |-> NoUpdate]
    /\ wfield = [w \in Writers |-> 1]
    /\ publishes = [w \in Writers |-> 0]
    /\ rpc = [r \in Readers |-> "idle"]
    /\ gen0 = [r \in Readers |-> 0]
    /\ rspins = [r \in Readers |-> 0]
    /\ buf = [r \in Readers |-> [f \in Fields |-> NoUpdate]]
    /\ rfield = [r \in Readers |-> 1]
    /\ since = [r \in Readers |-> 0]
    /\ current = NoUpdate /\ commits = 0

-----------------------------------------------------------------------------
(* try_publish *)

StartPublish(w, u) ==
    /\ wpc[w] = "idle"
    /\ publishes[w] < MaxPublishes
    /\ publishes' = [publishes EXCEPT ![w] = @ + 1]
    /\ update' = [update EXCEPT ![w] = u]
    /\ start' = [start EXCEPT ![w] = generation]
    /\ wspins' = [wspins EXCEPT ![w] = 0]
    /\ wpc' = [wpc EXCEPT ![w] = "lock"]
    /\ UNCHANGED <<generation, words, wfield, readerVars, current, commits>>

\* Mutant of Lock: a plain store instead of the compare-exchange.
LockByStore(w) ==
    /\ wpc[w] = "lock" /\ wspins[w] < MAX_SPINS
    /\ ~Busy(start[w])
    /\ generation' = start[w] + BUSY_BIT
    /\ wfield' = [wfield EXCEPT ![w] = 1]
    /\ wpc' = [wpc EXCEPT ![w] = "write"]
    /\ UNCHANGED <<words, start, wspins, update, publishes, readerVars, current, commits>>

\* Mutant of Lock: the busy bit of start is not tested.
LockWhenBusy(w) ==
    /\ wpc[w] = "lock" /\ wspins[w] < MAX_SPINS
    /\ generation = start[w]
    /\ generation' = start[w] + BUSY_BIT
    /\ wfield' = [wfield EXCEPT ![w] = 1]
    /\ wpc' = [wpc EXCEPT ![w] = "write"]
    /\ UNCHANGED <<words, start, wspins, update, publishes, readerVars, current, commits>>

\* compare_exchange_weak that succeeds.
Lock(w) ==
    /\ wpc[w] = "lock" /\ wspins[w] < MAX_SPINS
    /\ ~Busy(start[w])
    /\ generation = start[w]
    /\ generation' = start[w] + BUSY_BIT
    /\ wfield' = [wfield EXCEPT ![w] = 1]
    /\ wpc' = [wpc EXCEPT ![w] = "write"]
    /\ UNCHANGED <<words, start, wspins, update, publishes, readerVars, current, commits>>

\* Mutant of SpinLock: the spin is not counted.
SpinLockForever(w) ==
    /\ wpc[w] = "lock" /\ wspins[w] < MAX_SPINS
    /\ start' = [start EXCEPT ![w] = generation]
    /\ UNCHANGED <<generation, words, wpc, wspins, update, wfield, publishes, readerVars, current,
                   commits>>

\* The busy bit is set, or the exchange fails, for a reason or spuriously:
\* load generation again.
SpinLock(w) ==
    /\ wpc[w] = "lock" /\ wspins[w] < MAX_SPINS
    /\ start' = [start EXCEPT ![w] = generation]
    /\ wspins' = [wspins EXCEPT ![w] = @ + 1]
    /\ UNCHANGED <<generation, words, wpc, update, wfield, publishes, readerVars, current,
                   commits>>

\* try_publish returns None (publish panics).
LockTimeout(w) ==
    /\ wpc[w] = "lock" /\ wspins[w] = MAX_SPINS
    /\ wpc' = [wpc EXCEPT ![w] = "idle"]
    /\ UNCHANGED <<generation, words, start, wspins, update, wfield, publishes, readerVars,
                   current, commits>>

StoreField(w) ==
    /\ wpc[w] = "write"
    /\ words' = [words EXCEPT ![wfield[w]] = update[w]]
    /\ wfield' = [wfield EXCEPT ![w] = @ + 1]
    /\ wpc' = [wpc EXCEPT ![w] = IF wfield[w] = NFields THEN "commit" ELSE "write"]
    /\ UNCHANGED <<generation, start, wspins, update, publishes, readerVars, current, commits>>

InSnapshot(r) == rpc[r] \in {"read", "gen1"}

\* Fewer than 2^31 updates are published while a reader is between its two
\* loads of generation.  The code relies on this; the model states it.
NoGenerationLap ==
    \A r \in Readers : InSnapshot(r) => commits + 1 - since[r] < BUSY_BIT

Commit(w) ==
    /\ wpc[w] = "commit"
    /\ NoGenerationLap
    /\ generation' = NextGeneration(start[w])
    /\ wpc' = [wpc EXCEPT ![w] = "idle"]
    /\ current' = update[w]
    /\ commits' = commits + 1
    /\ UNCHANGED <<words, start, wspins, update, wfield, publishes, readerVars>>

\* The worker panics or is terminated: the busy bit stays.
Die(w) ==
    /\ w \in Mortal
    /\ wpc[w] \in {"write", "commit"}
    /\ wpc' = [wpc EXCEPT ![w] = "dead"]
    /\ UNCHANGED <<generation, words, start, wspins, update, wfield, publishes, readerVars,
                   current, commits>>

-----------------------------------------------------------------------------
(* try_snapshot *)

StartSnapshot(r) ==
    /\ rpc[r] = "idle"
    /\ rpc' = [rpc EXCEPT ![r] = "gen0"]
    /\ rspins' = [rspins EXCEPT ![r] = 0]
    /\ UNCHANGED <<generation, words, writerVars, gen0, buf, rfield, since, current, commits>>

\* Mutant of LoadGen0: the busy bit is not tested.
LoadGen0Busy(r) ==
    /\ rpc[r] = "gen0" /\ rspins[r] < MAX_SPINS
    /\ rpc' = [rpc EXCEPT ![r] = "read"]
    /\ gen0' = [gen0 EXCEPT ![r] = generation]
    /\ rfield' = [rfield EXCEPT ![r] = 1]
    /\ since' = [since EXCEPT ![r] = commits]
    /\ UNCHANGED <<generation, words, writerVars, rspins, buf, current, commits>>

LoadGen0(r) ==
    /\ rpc[r] = "gen0" /\ rspins[r] < MAX_SPINS
    /\ IF Busy(generation)
       THEN /\ rspins' = [rspins EXCEPT ![r] = @ + 1]
            /\ UNCHANGED <<rpc, gen0, rfield, since>>
       ELSE /\ rpc' = [rpc EXCEPT ![r] = "read"]
            /\ gen0' = [gen0 EXCEPT ![r] = generation]
            /\ rfield' = [rfield EXCEPT ![r] = 1]
            /\ since' = [since EXCEPT ![r] = commits]
            /\ UNCHANGED rspins
    /\ UNCHANGED <<generation, words, writerVars, buf, current, commits>>

LoadField(r) ==
    /\ rpc[r] = "read"
    /\ buf' = [buf EXCEPT ![r][rfield[r]] = words[rfield[r]]]
    /\ rfield' = [rfield EXCEPT ![r] = @ + 1]
    /\ rpc' = [rpc EXCEPT ![r] = IF rfield[r] = NFields THEN "gen1" ELSE "read"]
    /\ UNCHANGED <<generation, words, writerVars, gen0, rspins, since, current, commits>>

\* The second load of generation: return the snapshot, or try again.
LoadGen1(r) ==
    /\ rpc[r] = "gen1"
    /\ IF generation = gen0[r]
       THEN /\ rpc' = [rpc EXCEPT ![r] = "idle"]
            /\ UNCHANGED rspins
       ELSE /\ rpc' = [rpc EXCEPT ![r] = "gen0"]
            /\ rspins' = [rspins EXCEPT ![r] = @ + 1]
    /\ UNCHANGED <<generation, words, writerVars, gen0, buf, rfield, since, current, commits>>

\* try_snapshot returns None (snapshot panics).
SnapshotTimeout(r) ==
    /\ rpc[r] = "gen0" /\ rspins[r] = MAX_SPINS
    /\ rpc' = [rpc EXCEPT ![r] = "idle"]
    /\ UNCHANGED <<generation, words, writerVars, gen0, rspins, buf, rfield, since, current,
                   commits>>

-----------------------------------------------------------------------------

PublishStep(w) ==
    Lock(w) \/ SpinLock(w) \/ LockTimeout(w) \/ StoreField(w) \/ Commit(w)

SnapshotStep(r) ==
    LoadGen0(r) \/ LoadField(r) \/ LoadGen1(r) \/ SnapshotTimeout(r)

Next ==
    \/ \E w \in Writers : PublishStep(w) \/ Die(w) \/ \E u \in Updates : StartPublish(w, u)
    \/ \E r \in Readers : SnapshotStep(r) \/ StartSnapshot(r)

Spec == Init /\ [][Next]_vars

\* A worker that has called the API keeps running until it dies.
FairSpec ==
    /\ Spec
    /\ \A w \in Writers : WF_vars(PublishStep(w))
    /\ \A r \in Readers : WF_vars(SnapshotStep(r))

-----------------------------------------------------------------------------
(* Properties *)

Holding == {w \in Writers : wpc[w] \in {"write", "commit", "dead"}}

Contents == Updates \cup {NoUpdate}

\* Types of the atomics and of both sides' locals.
TypeOK ==
    /\ generation \in 0 .. 2 * BUSY_BIT - 1
    /\ words \in [Fields -> Contents]
    /\ wpc \in [Writers -> {"idle", "lock", "write", "commit", "dead"}]
    /\ start \in [Writers -> 0 .. 2 * BUSY_BIT - 1]
    /\ wspins \in [Writers -> 0 .. MAX_SPINS]
    /\ update \in [Writers -> Contents]
    /\ wfield \in [Writers -> 1 .. NFields + 1]
    /\ publishes \in [Writers -> 0 .. MaxPublishes]
    /\ rpc \in [Readers -> {"idle", "gen0", "read", "gen1"}]
    /\ gen0 \in [Readers -> 0 .. 2 * BUSY_BIT - 1]
    /\ rspins \in [Readers -> 0 .. MAX_SPINS]
    /\ buf \in [Readers -> [Fields -> Contents]]
    /\ rfield \in [Readers -> 1 .. NFields + 1]
    /\ since \in [Readers -> Nat]
    /\ current \in Contents /\ commits \in Nat

\* A snapshot about to be returned is exactly the update published last: no
\* field comes from another update, complete or torn.
SnapshotCurrent ==
    \A r \in Readers : rpc[r] = "gen1" /\ generation = gen0[r]
        => buf[r] = [f \in Fields |-> current]

\* The busy bit is a lock: it is set exactly while one writer, possibly dead,
\* stores fields, and the published generation counts the completed updates.
BusyBitLocks ==
    /\ Cardinality(Holding) = IF Busy(generation) THEN 1 ELSE 0
    /\ generation % BUSY_BIT = commits % BUSY_BIT

\* Neither call spins forever, not even on the lock of a dead writer.
CallsReturn ==
    /\ \A w \in Writers : wpc[w] = "lock" ~> wpc[w] # "lock"
    /\ \A r \in Readers : rpc[r] = "gen0" ~> rpc[r] = "idle"

=============================================================================
