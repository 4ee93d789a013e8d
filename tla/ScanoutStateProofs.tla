------------------------- MODULE ScanoutStateProofs -------------------------
(***************************************************************************)
(* Coherence of the scanout snapshots, for any number of writers, readers  *)
(* and fields, any generation width and any crash.                         *)
(*                                                                         *)
(* LockInv says what the busy bit protects: while it is clear the words    *)
(* are the current update; while it is set one writer holds it and has     *)
(* stored the fields before wfield.  ReadInv says what a reader knows: its *)
(* gen0 is the generation as many commits ago as there were since, and if  *)
(* there were none and the bit is clear, what it read is current.          *)
(* CountInv, on top of Inv, says that a set busy bit has a holder and that *)
(* the published generation counts the commits, modulo its width.          *)
(***************************************************************************)
EXTENDS ScanoutState, FiniteSetTheorems, TLAPS

\* A generation g after d commits.
Advance(g, d) == IF g + d >= BUSY_BIT THEN g + d - BUSY_BIT ELSE g + d

\* The published part of generation: the bit masked out.
Published == IF Busy(generation) THEN generation - BUSY_BIT ELSE generation

Holds(w) == wpc[w] \in {"write", "commit", "dead"}

LockInv ==
    /\ ~Busy(generation) => /\ \A f \in Fields : words[f] = current
                            /\ \A w \in Writers : ~Holds(w)
    /\ \A v, w \in Writers : Holds(v) /\ Holds(w) => v = w
    /\ \A w \in Writers : Holds(w) => /\ start[w] < BUSY_BIT
                                      /\ generation = start[w] + BUSY_BIT
                                      /\ \A f \in Fields : f < wfield[w] => words[f] = update[w]
    /\ \A w \in Writers : /\ wpc[w] = "write" => wfield[w] <= NFields
                          /\ wpc[w] = "commit" => wfield[w] = NFields + 1

ReadInv ==
    \A r \in Readers :
        /\ rpc[r] = "read" => rfield[r] <= NFields
        /\ rpc[r] = "gen0" => rspins[r] <= MAX_SPINS
        /\ InSnapshot(r) =>
              /\ rspins[r] < MAX_SPINS
              /\ gen0[r] < BUSY_BIT
              /\ since[r] <= commits /\ commits - since[r] < BUSY_BIT
              /\ Published = Advance(gen0[r], commits - since[r])
              /\ since[r] = commits /\ ~Busy(generation) =>
                    \A f \in Fields : f < rfield[r] => buf[r][f] = current
        /\ rpc[r] = "gen1" => rfield[r] = NFields + 1

Inv == TypeOK /\ LockInv /\ ReadInv

-----------------------------------------------------------------------------
(* Generation arithmetic *)

LEMMA AdvanceZero ==
    ASSUME NEW g \in Nat, g < BUSY_BIT, NEW d \in Nat, d < BUSY_BIT, Advance(g, d) = g
    PROVE  d = 0
  BY ScanoutAssumption DEF Advance

LEMMA AdvanceNext ==
    ASSUME NEW g \in Nat, g < BUSY_BIT, NEW d \in Nat, d + 1 < BUSY_BIT
    PROVE  NextGeneration(Advance(g, d)) = Advance(g, d + 1)
  BY ScanoutAssumption DEF Advance, NextGeneration

LEMMA NextGenerationType ==
    ASSUME NEW g \in Nat, g < BUSY_BIT
    PROVE  NextGeneration(g) \in Nat /\ NextGeneration(g) < BUSY_BIT
  BY ScanoutAssumption DEF NextGeneration

-----------------------------------------------------------------------------
(* The writers *)

\* What a reader knows survives every step that leaves the reader, the
\* commits and a clear busy bit alone.
LEMMA ReadersUndisturbed ==
    ASSUME Inv, UNCHANGED <<readerVars, commits, current>>, Published' = Published,
           Busy(generation) => Busy(generation')
    PROVE  ReadInv'
<1>1. ASSUME NEW r \in Readers
      PROVE  /\ rpc'[r] = rpc[r] /\ gen0'[r] = gen0[r] /\ rfield'[r] = rfield[r]
             /\ since'[r] = since[r] /\ rspins'[r] = rspins[r] /\ buf'[r] = buf[r]
             /\ InSnapshot(r)' = InSnapshot(r)
  BY DEF readerVars, InSnapshot
<1> QED
  BY <1>1 DEF Inv, ReadInv, readerVars, InSnapshot

LEMMA StartPublishStep ==
    ASSUME Inv, NEW w \in Writers, NEW u \in Updates, StartPublish(w, u) PROVE Inv'
<1> USE DEF StartPublish
<1>1. TypeOK'
  BY ScanoutAssumption DEF Inv, TypeOK, Contents, readerVars
<1>2. LockInv'
  BY DEF Inv, TypeOK, LockInv, Holds, Busy
<1>3. ReadInv'
  BY ReadersUndisturbed DEF Published, Busy
<1> QED
  BY <1>1, <1>2, <1>3 DEF Inv

LEMMA LockStep ==
    ASSUME Inv, NEW w \in Writers, Lock(w) PROVE Inv'
<1> USE DEF Lock
<1>0. /\ generation = start[w] /\ start[w] < BUSY_BIT /\ start[w] \in Nat
      /\ generation' = start[w] + BUSY_BIT
      /\ ~Busy(generation) /\ Busy(generation')
  BY ScanoutAssumption DEF Inv, TypeOK, Busy
<1>1. TypeOK'
  BY <1>0, ScanoutAssumption DEF Inv, TypeOK, readerVars
<1>2. LockInv'
  <2>1. \A v \in Writers : ~Holds(v)
    BY <1>0 DEF Inv, LockInv
  <2>2. \A v \in Writers : Holds(v)' => v = w
    BY <2>1 DEF Inv, TypeOK, Holds
  <2>3. wfield'[w] = 1 /\ wpc'[w] = "write" /\ start'[w] = start[w]
    BY DEF Inv, TypeOK
  <2>4. \A v \in Writers : v # w => wpc'[v] = wpc[v] /\ wfield'[v] = wfield[v]
    BY DEF Inv, TypeOK
  <2>5. \A f \in Fields : ~(f < 1)
    BY ScanoutAssumption DEF Fields
  <2> QED
    BY <1>0, <2>2, <2>3, <2>4, <2>5, ScanoutAssumption DEF Inv, LockInv
<1>3. ReadInv'
  <2>1. Published' = Published
    BY <1>0, ScanoutAssumption DEF Published, Busy
  <2> QED
    BY <1>0, <2>1, ReadersUndisturbed
<1> QED
  BY <1>1, <1>2, <1>3 DEF Inv

LEMMA SpinLockStep ==
    ASSUME Inv, NEW w \in Writers, SpinLock(w) PROVE Inv'
<1> USE DEF SpinLock
<1>1. TypeOK'
  <2>1. wspins[w] \in 0 .. MAX_SPINS /\ wspins[w] + 1 \in 0 .. MAX_SPINS
    BY ScanoutAssumption DEF Inv, TypeOK
  <2> QED
    BY <2>1 DEF Inv, TypeOK, readerVars
<1>2. LockInv'
  BY DEF Inv, TypeOK, LockInv, Holds, Busy
<1>3. ReadInv'
  BY ReadersUndisturbed DEF Published, Busy
<1> QED
  BY <1>1, <1>2, <1>3 DEF Inv

LEMMA LockTimeoutStep ==
    ASSUME Inv, NEW w \in Writers, LockTimeout(w) PROVE Inv'
<1> USE DEF LockTimeout
<1>1. TypeOK'
  BY DEF Inv, TypeOK, readerVars
<1>2. LockInv'
  BY DEF Inv, TypeOK, LockInv, Holds, Busy
<1>3. ReadInv'
  BY ReadersUndisturbed DEF Published, Busy
<1> QED
  BY <1>1, <1>2, <1>3 DEF Inv

LEMMA StoreFieldStep ==
    ASSUME Inv, NEW w \in Writers, StoreField(w) PROVE Inv'
<1> USE DEF StoreField
<1>0. /\ wfield[w] \in Fields /\ Holds(w) /\ update[w] \in Contents
      /\ wfield[w] \in Nat /\ wfield[w] <= NFields
  BY ScanoutAssumption DEF Inv, TypeOK, LockInv, Fields, Holds
<1>1. TypeOK'
  <2>1. wfield[w] + 1 \in 1 .. NFields + 1
    BY <1>0, ScanoutAssumption
  <2> QED
    BY <1>0, <2>1 DEF Inv, TypeOK, readerVars
<1>2. LockInv'
  <2>1. Busy(generation)'
    BY <1>0 DEF Inv, LockInv, Busy
  <2>2. \A v \in Writers : Holds(v)' => v = w
    BY <1>0 DEF Inv, TypeOK, LockInv, Holds
  <2>3. \A f \in Fields : f < wfield'[w] => words'[f] = update[w]
    <3>1. wfield'[w] = wfield[w] + 1 /\ \A f \in Fields : f \in Nat
      BY ScanoutAssumption DEF Inv, TypeOK, Fields
    <3>2. \A f \in Fields : words'[f] = IF f = wfield[w] THEN update[w] ELSE words[f]
      BY <1>0 DEF Inv, TypeOK
    <3> QED
      BY <1>0, <3>1, <3>2 DEF Inv, LockInv
  <2>4. /\ wpc'[w] = "write" => wfield'[w] <= NFields
        /\ wpc'[w] = "commit" => wfield'[w] = NFields + 1
    <3>1. /\ wfield'[w] = wfield[w] + 1
          /\ wpc'[w] = IF wfield[w] = NFields THEN "commit" ELSE "write"
      BY DEF Inv, TypeOK
    <3> HIDE DEF StoreField
    <3> QED
      BY <1>0, <3>1, ScanoutAssumption
  <2>5. \A v \in Writers : v # w => wpc'[v] = wpc[v] /\ wfield'[v] = wfield[v]
    BY DEF Inv, TypeOK
  <2>6. start[w] < BUSY_BIT /\ generation = start[w] + BUSY_BIT
    BY <1>0 DEF Inv, LockInv
  <2> QED
    BY <2>1, <2>2, <2>3, <2>4, <2>5, <2>6 DEF Inv, LockInv
<1>3. ReadInv'
  BY ReadersUndisturbed DEF Published, Busy
<1> QED
  BY <1>1, <1>2, <1>3 DEF Inv

LEMMA CommitStep ==
    ASSUME Inv, NEW w \in Writers, Commit(w) PROVE Inv'
<1> USE DEF Commit
<1>0. /\ Holds(w) /\ start[w] \in Nat /\ start[w] < BUSY_BIT
      /\ generation = start[w] + BUSY_BIT
      /\ wfield[w] = NFields + 1
      /\ \A f \in Fields : words[f] = update[w]
  <2>1. \A f \in Fields : f < NFields + 1
    BY ScanoutAssumption DEF Fields
  <2> QED
    BY <2>1, ScanoutAssumption DEF Inv, TypeOK, LockInv, Holds
<1>1. generation' \in Nat /\ generation' < BUSY_BIT /\ ~Busy(generation')
  BY <1>0, NextGenerationType, ScanoutAssumption DEF Busy
<1>2. TypeOK'
  <2>1. generation' \in 0 .. 2 * BUSY_BIT - 1
    BY <1>1, ScanoutAssumption
  <2> QED
    BY <2>1 DEF Inv, TypeOK, readerVars
<1>3. LockInv'
  <2>1. \A v \in Writers : ~Holds(v)'
    BY <1>0 DEF Inv, TypeOK, LockInv, Holds
  <2>2. \A f \in Fields : words'[f] = current'
    BY <1>0
  <2> QED
    BY <1>1, <2>1, <2>2 DEF LockInv, Holds
<1>4. ReadInv'
  <2>1. SUFFICES ASSUME NEW r \in Readers, InSnapshot(r)
                 PROVE  /\ since[r] <= commits' /\ commits' - since[r] < BUSY_BIT
                        /\ since[r] # commits'
                        /\ Published' = Advance(gen0[r], commits' - since[r])
    BY DEF Inv, ReadInv, readerVars, InSnapshot
  <2>2. /\ since[r] \in Nat /\ commits \in Nat /\ commits' = commits + 1
        /\ gen0[r] \in Nat /\ gen0[r] < BUSY_BIT /\ since[r] <= commits
        /\ Published = Advance(gen0[r], commits - since[r])
    BY <2>1, ScanoutAssumption DEF Inv, TypeOK, ReadInv
  <2>3. commits + 1 - since[r] < BUSY_BIT
    BY <2>1 DEF NoGenerationLap
  <2>4. Published = start[w] /\ Published' = NextGeneration(start[w])
    BY <1>0, <1>1, ScanoutAssumption DEF Published, Busy
  <2>5. Published' = Advance(gen0[r], (commits - since[r]) + 1)
    BY <2>2, <2>3, <2>4, AdvanceNext
  <2> QED
    BY <2>2, <2>3, <2>5
<1> QED
  BY <1>2, <1>3, <1>4 DEF Inv

LEMMA DieStep ==
    ASSUME Inv, NEW w \in Writers, Die(w) PROVE Inv'
<1> USE DEF Die
<1>1. TypeOK'
  BY DEF Inv, TypeOK, readerVars
<1>2. LockInv'
  <2>1. \A v \in Writers : Holds(v)' <=> Holds(v)
    BY DEF Inv, TypeOK, Holds
  <2>2. \A v \in Writers : wpc'[v] = wpc[v] \/ wpc'[v] = "dead"
    BY DEF Inv, TypeOK
  <2> QED
    BY <2>1, <2>2 DEF Inv, LockInv
<1>3. ReadInv'
  BY ReadersUndisturbed DEF Published, Busy
<1> QED
  BY <1>1, <1>2, <1>3 DEF Inv

-----------------------------------------------------------------------------
(* The readers *)

\* A reader's step leaves what the writers know alone.
LEMMA WritersUndisturbed ==
    ASSUME Inv, UNCHANGED <<generation, words, writerVars, current>>
    PROVE  LockInv'
  BY DEF Inv, LockInv, writerVars, Holds, Busy

LEMMA StartSnapshotStep ==
    ASSUME Inv, NEW r \in Readers, StartSnapshot(r) PROVE Inv'
<1> USE DEF StartSnapshot
<1>1. TypeOK'
  BY ScanoutAssumption DEF Inv, TypeOK, writerVars
<1>2. LockInv'
  BY WritersUndisturbed
<1>3. ReadInv'
  BY ScanoutAssumption DEF Inv, TypeOK, ReadInv, InSnapshot, Published, Busy
<1> QED
  BY <1>1, <1>2, <1>3 DEF Inv

LEMMA LoadGen0Step ==
    ASSUME Inv, NEW r \in Readers, LoadGen0(r) PROVE Inv'
<1> USE DEF LoadGen0
<1>1. TypeOK'
  <2>1. rspins[r] \in 0 .. MAX_SPINS /\ rspins[r] + 1 \in 0 .. MAX_SPINS
    BY ScanoutAssumption DEF Inv, TypeOK
  <2>2. CASE Busy(generation)
    BY <2>1, <2>2 DEF Inv, TypeOK, writerVars
  <2>3. CASE ~Busy(generation)
    <3>1. 1 \in 1 .. NFields + 1
      BY ScanoutAssumption
    <3> QED
      BY <2>3, <3>1 DEF Inv, TypeOK, writerVars
  <2> QED
    BY <2>2, <2>3
<1>2. LockInv'
  BY WritersUndisturbed
<1>3. Published' = Published /\ Busy(generation)' = Busy(generation)
  BY DEF Published, Busy
<1>4. ReadInv'
  <2>1. CASE Busy(generation)
    <3>1. rspins[r] \in Nat /\ rspins'[r] = rspins[r] + 1 /\ rspins'[r] <= MAX_SPINS
      BY <2>1, ScanoutAssumption DEF Inv, TypeOK
    <3>2. \A q \in Readers : q # r => rspins'[q] = rspins[q]
      BY <2>1 DEF Inv, TypeOK
    <3> QED
      BY <1>3, <2>1, <3>1, <3>2 DEF Inv, ReadInv, InSnapshot
  <2>2. CASE ~Busy(generation)
    <3>1. /\ rpc'[r] = "read" /\ gen0'[r] = generation /\ rfield'[r] = 1
          /\ since'[r] = commits /\ rspins'[r] = rspins[r]
      BY <2>2 DEF Inv, TypeOK
    <3>2. /\ generation \in Nat /\ generation < BUSY_BIT /\ commits \in Nat
          /\ rspins[r] < MAX_SPINS /\ 1 <= NFields
      BY <2>2, ScanoutAssumption DEF Inv, TypeOK, Busy
    <3>3. Published = generation /\ Advance(generation, commits - commits) = generation
      BY <2>2, <3>2, ScanoutAssumption DEF Published, Advance, Busy
    <3>4. \A f \in Fields : ~(f < 1)
      BY ScanoutAssumption DEF Fields
    <3>5. ASSUME NEW q \in Readers, q # r
          PROVE  /\ rpc'[q] = rpc[q] /\ gen0'[q] = gen0[q] /\ rfield'[q] = rfield[q]
                 /\ since'[q] = since[q] /\ rspins'[q] = rspins[q]
      BY <2>2, <3>5 DEF Inv, TypeOK
    <3>6. UNCHANGED <<buf, commits, current, generation>>
      BY DEF writerVars
    <3>7. commits - commits < BUSY_BIT /\ commits <= commits
      BY <3>2, ScanoutAssumption
    <3> HIDE DEF LoadGen0
    <3> QED
      BY <1>3, <3>1, <3>2, <3>3, <3>4, <3>5, <3>6, <3>7 DEF Inv, ReadInv, InSnapshot
  <2> QED
    BY <2>1, <2>2
<1> QED
  BY <1>1, <1>2, <1>4 DEF Inv

LEMMA LoadFieldStep ==
    ASSUME Inv, NEW r \in Readers, LoadField(r) PROVE Inv'
<1> USE DEF LoadField
<1>0. /\ rfield[r] \in Fields /\ rfield[r] \in Nat /\ rfield[r] <= NFields
      /\ \A f \in Fields : words[f] \in Contents /\ f \in Nat
  BY ScanoutAssumption DEF Inv, TypeOK, ReadInv, Fields
<1>1. TypeOK'
  <2>1. rfield[r] + 1 \in 1 .. NFields + 1
    BY <1>0, ScanoutAssumption
  <2>2. buf' \in [Readers -> [Fields -> Contents]]
    BY <1>0 DEF Inv, TypeOK
  <2> QED
    BY <2>1, <2>2 DEF Inv, TypeOK, writerVars
<1>2. LockInv'
  BY WritersUndisturbed
<1>3. ReadInv'
  <2>1. /\ rfield'[r] = rfield[r] + 1
        /\ rpc'[r] = IF rfield[r] = NFields THEN "gen1" ELSE "read"
        /\ rpc[r] = "read"
    BY DEF Inv, TypeOK
  <2>2. \A f \in Fields : buf'[r][f] = IF f = rfield[r] THEN words[f] ELSE buf[r][f]
    BY <1>0 DEF Inv, TypeOK
  <2>3. ASSUME NEW q \in Readers, q # r
        PROVE  rpc'[q] = rpc[q] /\ rfield'[q] = rfield[q] /\ buf'[q] = buf[q]
    BY <2>3 DEF Inv, TypeOK
  <2>4. /\ Published' = Published /\ Busy(generation)' = Busy(generation)
        /\ UNCHANGED <<gen0, rspins, since, commits, current>>
    BY DEF Published, Busy
  <2>5. ~Busy(generation) => \A f \in Fields : words[f] = current
    BY DEF Inv, LockInv
  <2>6. /\ rpc'[r] = "read" => rfield'[r] <= NFields
        /\ rpc'[r] = "gen1" => rfield'[r] = NFields + 1
        /\ rpc'[r] # "gen0" /\ InSnapshot(r) /\ InSnapshot(r)'
    <3> HIDE DEF LoadField
    <3> QED
      BY <1>0, <2>1, ScanoutAssumption DEF InSnapshot
  <2>7. ASSUME since[r] = commits, ~Busy(generation), NEW f \in Fields, f < rfield'[r]
        PROVE  buf'[r][f] = current
    <3>1. f = rfield[r] \/ f < rfield[r]
      BY <1>0, <2>1, <2>7
    <3> QED
      BY <2>2, <2>5, <2>6, <2>7, <3>1 DEF Inv, ReadInv
  <2> HIDE DEF LoadField
  <2> QED
    BY <2>3, <2>4, <2>6, <2>7 DEF Inv, ReadInv, InSnapshot
<1> QED
  BY <1>1, <1>2, <1>3 DEF Inv

LEMMA LoadGen1Step ==
    ASSUME Inv, NEW r \in Readers, LoadGen1(r) PROVE Inv'
<1> USE DEF LoadGen1
<1>0. rspins[r] \in 0 .. MAX_SPINS /\ rspins[r] + 1 \in 0 .. MAX_SPINS
  BY ScanoutAssumption DEF Inv, TypeOK, ReadInv, InSnapshot
<1>1. TypeOK'
  BY <1>0 DEF Inv, TypeOK, writerVars
<1>2. LockInv'
  BY WritersUndisturbed
<1>3. ReadInv'
  <2>1. /\ rpc'[r] \in {"idle", "gen0"}
        /\ rspins'[r] <= MAX_SPINS
    BY <1>0, ScanoutAssumption DEF Inv, TypeOK
  <2>2. \A q \in Readers : q # r => rpc'[q] = rpc[q] /\ rspins'[q] = rspins[q]
    BY DEF Inv, TypeOK
  <2>3. /\ Published' = Published /\ Busy(generation)' = Busy(generation)
        /\ UNCHANGED <<gen0, rfield, buf, since, commits, current>>
    BY DEF Published, Busy
  <2> HIDE DEF LoadGen1
  <2> QED
    BY <2>1, <2>2, <2>3 DEF Inv, ReadInv, InSnapshot
<1> QED
  BY <1>1, <1>2, <1>3 DEF Inv

LEMMA SnapshotTimeoutStep ==
    ASSUME Inv, NEW r \in Readers, SnapshotTimeout(r) PROVE Inv'
<1> USE DEF SnapshotTimeout
<1>1. TypeOK'
  BY DEF Inv, TypeOK, writerVars
<1>2. LockInv'
  BY WritersUndisturbed
<1>3. ReadInv'
  BY DEF Inv, TypeOK, ReadInv, InSnapshot, Published, Busy
<1> QED
  BY <1>1, <1>2, <1>3 DEF Inv

-----------------------------------------------------------------------------
(* The invariant and the theorems *)

LEMMA InvInit ==
    Init => Inv
<1> SUFFICES ASSUME Init PROVE Inv
  OBVIOUS
<1>1. TypeOK
  BY ScanoutAssumption DEF Init, TypeOK, Contents
<1>2. LockInv
  BY ScanoutAssumption DEF Init, LockInv, Holds, Busy
<1>3. ReadInv
  BY ScanoutAssumption DEF Init, ReadInv, InSnapshot
<1> QED
  BY <1>1, <1>2, <1>3 DEF Inv

LEMMA InvStutter ==
    ASSUME Inv, UNCHANGED vars PROVE Inv'
<1>1. TypeOK'
  BY DEF Inv, TypeOK, vars, writerVars, readerVars
<1>2. LockInv'
  BY WritersUndisturbed DEF vars
<1>3. ReadInv'
  BY ReadersUndisturbed DEF vars, Published, Busy
<1> QED
  BY <1>1, <1>2, <1>3 DEF Inv

LEMMA InvNext ==
    Inv /\ [Next]_vars => Inv'
<1> SUFFICES ASSUME Inv, [Next]_vars PROVE Inv'
  OBVIOUS
<1>1. ASSUME NEW w \in Writers, PublishStep(w) PROVE Inv'
  BY <1>1, LockStep, SpinLockStep, LockTimeoutStep, StoreFieldStep, CommitStep DEF PublishStep
<1>2. ASSUME NEW w \in Writers, Die(w) PROVE Inv'
  BY <1>2, DieStep
<1>3. ASSUME NEW w \in Writers, NEW u \in Updates, StartPublish(w, u) PROVE Inv'
  BY <1>3, StartPublishStep
<1>4. ASSUME NEW r \in Readers, SnapshotStep(r) PROVE Inv'
  BY <1>4, LoadGen0Step, LoadFieldStep, LoadGen1Step, SnapshotTimeoutStep DEF SnapshotStep
<1>5. ASSUME NEW r \in Readers, StartSnapshot(r) PROVE Inv'
  BY <1>5, StartSnapshotStep
<1>6. CASE UNCHANGED vars
  BY <1>6, InvStutter
<1> QED
  BY <1>1, <1>2, <1>3, <1>4, <1>5, <1>6 DEF Next

LEMMA InvCoherent ==
    Inv => SnapshotCurrent
<1> SUFFICES ASSUME Inv, NEW r \in Readers, rpc[r] = "gen1", generation = gen0[r]
             PROVE  buf[r] = [f \in Fields |-> current]
  BY DEF SnapshotCurrent
<1>1. /\ gen0[r] \in Nat /\ gen0[r] < BUSY_BIT /\ rfield[r] = NFields + 1
      /\ commits - since[r] \in Nat /\ commits - since[r] < BUSY_BIT
      /\ commits \in Nat /\ since[r] \in Nat
      /\ Published = Advance(gen0[r], commits - since[r])
  BY ScanoutAssumption DEF Inv, TypeOK, ReadInv, InSnapshot
<1>2. ~Busy(generation) /\ Published = gen0[r]
  BY <1>1, ScanoutAssumption DEF Busy, Published
<1>3. commits - since[r] = 0
  BY <1>1, <1>2, AdvanceZero
<1>4. since[r] = commits
  BY <1>1, <1>3
<1>5. \A f \in Fields : f < rfield[r]
  BY <1>1, ScanoutAssumption DEF Fields
<1>6. \A f \in Fields : buf[r][f] = current
  BY <1>2, <1>4, <1>5 DEF Inv, ReadInv, InSnapshot
<1> QED
  BY <1>6 DEF Inv, TypeOK

\* The atomics and both sides' locals keep their types, whatever the number
\* of writers, readers and fields.
THEOREM ScanoutTypeCorrect == Spec => []TypeOK
<1>1. Inv => TypeOK
  BY DEF Inv
<1> QED
  BY <1>1, InvInit, InvNext, PTL DEF Spec

\* A snapshot that try_snapshot returns is the update last published, whole:
\* no interleaving of writers, no writer that dies and no wrap of the
\* generation short of a full lap during one read lets a reader see a mix.
THEOREM SnapshotsCoherent == Spec => []SnapshotCurrent
<1> QED
  BY InvCoherent, InvInit, InvNext, PTL DEF Spec

-----------------------------------------------------------------------------
(* The busy bit *)

CountInv ==
    /\ Busy(generation) => \E w \in Writers : Holds(w)
    /\ Published = commits % BUSY_BIT

LEMMA ModSucc ==
    ASSUME NEW b \in Nat \ {0}, NEW c \in Nat
    PROVE  (c + 1) % b = IF (c % b) + 1 = b THEN 0 ELSE (c % b) + 1
<1> DEFINE q == c \div b
           r == c % b
<1>1. q \in Int /\ r \in 0 .. b - 1 /\ c = b * q + r
  OBVIOUS
<1>2. \A k \in Int, x \in 0 .. b - 1 : (b * k + x) % b = x
  OBVIOUS
<1> HIDE DEF q
<1>3. CASE r + 1 = b
  <2>1. c + 1 = b * (q + 1) + 0 /\ 0 \in 0 .. b - 1 /\ q + 1 \in Int
    BY <1>1, <1>3
  <2>2. (b * (q + 1) + 0) % b = 0
    BY <1>2, <2>1
  <2> QED
    BY <1>3, <2>1, <2>2
<1>4. CASE r + 1 # b
  <2>1. c + 1 = b * q + (r + 1) /\ r + 1 \in 0 .. b - 1
    BY <1>1, <1>4
  <2>2. (b * q + (r + 1)) % b = r + 1
    BY <1>1, <1>2, <2>1
  <2> QED
    BY <1>4, <2>1, <2>2
<1> QED
  BY <1>3, <1>4

LEMMA CountInit == Init => CountInv
  BY ScanoutAssumption DEF Init, CountInv, Busy, Published

LEMMA CountNext == Inv /\ CountInv /\ [Next]_vars => CountInv'
<1> SUFFICES ASSUME Inv, CountInv, [Next]_vars PROVE CountInv'
  OBVIOUS
<1>1. ASSUME NEW w \in Writers, Lock(w) PROVE CountInv'
  <2>1. /\ start[w] \in Nat /\ start[w] < BUSY_BIT /\ generation = start[w]
        /\ generation' = start[w] + BUSY_BIT /\ commits' = commits
    BY <1>1, ScanoutAssumption DEF Lock, Inv, TypeOK, Busy
  <2>2. Published' = Published
    BY <2>1, ScanoutAssumption DEF Published, Busy
  <2>3. Holds(w)'
    BY <1>1 DEF Lock, Holds, Inv, TypeOK
  <2> QED
    BY <2>1, <2>2, <2>3 DEF CountInv
<1>2. ASSUME NEW w \in Writers, Commit(w) PROVE CountInv'
  <2>1. /\ start[w] \in Nat /\ start[w] < BUSY_BIT /\ generation = start[w] + BUSY_BIT
    BY <1>2 DEF Commit, Inv, TypeOK, LockInv, Holds
  <2>2. Published = start[w]
    BY <2>1, ScanoutAssumption DEF Published, Busy
  <2>3. ~Busy(generation') /\ Published' = NextGeneration(start[w])
    BY <1>2, <2>1, NextGenerationType, ScanoutAssumption DEF Commit, Published, Busy
  <2>4. (commits + 1) % BUSY_BIT = NextGeneration(commits % BUSY_BIT)
    BY ModSucc, ScanoutAssumption DEF Inv, TypeOK, NextGeneration
  <2> QED
    BY <1>2, <2>2, <2>3, <2>4 DEF Commit, CountInv, Busy
<1>3. ASSUME UNCHANGED <<generation, commits>>,
             \A w \in Writers : Holds(w) => Holds(w)'
      PROVE  CountInv'
  BY <1>3 DEF CountInv, Published, Busy
<1>4. ASSUME NEW w \in Writers, \/ SpinLock(w) \/ LockTimeout(w) \/ StoreField(w) \/ Die(w)
                                \/ \E u \in Updates : StartPublish(w, u)
      PROVE  CountInv'
  BY <1>3, <1>4 DEF SpinLock, LockTimeout, StoreField, Die, StartPublish, Holds, Inv, TypeOK
<1>5. ASSUME NEW r \in Readers, SnapshotStep(r) \/ StartSnapshot(r) PROVE CountInv'
  BY <1>3, <1>5 DEF SnapshotStep, LoadGen0, LoadField, LoadGen1, SnapshotTimeout,
                    StartSnapshot, writerVars, Holds
<1>6. CASE UNCHANGED vars
  BY <1>3, <1>6 DEF vars, writerVars, Holds
<1> QED
  BY <1>1, <1>2, <1>4, <1>5, <1>6 DEF Next, PublishStep

LEMMA CountLocks == Inv /\ CountInv => BusyBitLocks
<1> SUFFICES ASSUME Inv, CountInv PROVE BusyBitLocks
  OBVIOUS
<1>1. Cardinality(Holding) = IF Busy(generation) THEN 1 ELSE 0
  <2>1. CASE Busy(generation)
    <3>1. PICK w \in Writers : Holds(w)
      BY <2>1 DEF CountInv
    <3>2. Holding = {w}
      BY <3>1 DEF Holding, Holds, Inv, LockInv
    <3> QED
      BY <2>1, <3>2, FS_Singleton
  <2>2. CASE ~Busy(generation)
    <3>1. Holding = {}
      BY <2>2 DEF Holding, Holds, Inv, LockInv
    <3> QED
      BY <2>2, <3>1, FS_EmptySet
  <2> QED
    BY <2>1, <2>2
<1>2. generation % BUSY_BIT = commits % BUSY_BIT
  <2>1. generation \in Nat /\ generation < 2 * BUSY_BIT /\ commits \in Nat
    BY ScanoutAssumption DEF Inv, TypeOK
  <2>2. \A k \in Int, x \in 0 .. BUSY_BIT - 1 : (BUSY_BIT * k + x) % BUSY_BIT = x
    BY ScanoutAssumption
  <2>3. generation % BUSY_BIT = Published
    <3>1. CASE Busy(generation)
      <4>1. generation = BUSY_BIT * 1 + Published /\ Published \in 0 .. BUSY_BIT - 1
        BY <2>1, <3>1, ScanoutAssumption DEF Published, Busy
      <4> QED
        BY <2>2, <4>1
    <3>2. CASE ~Busy(generation)
      <4>1. generation = BUSY_BIT * 0 + Published /\ Published \in 0 .. BUSY_BIT - 1
        BY <2>1, <3>2, ScanoutAssumption DEF Published, Busy
      <4> QED
        BY <2>2, <4>1
    <3> QED
      BY <3>1, <3>2
  <2> QED
    BY <2>3 DEF CountInv
<1> QED
  BY <1>1, <1>2 DEF BusyBitLocks

\* The busy bit excludes: for every number of writers, and whichever die, it
\* is set exactly while one writer holds it, and the generation below it
\* counts the published updates.
THEOREM BusyBitExcludes == Spec => []BusyBitLocks
  BY InvInit, InvNext, CountInit, CountNext, CountLocks, PTL DEF Spec

=============================================================================
