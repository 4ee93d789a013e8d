-------------------------- MODULE JitRuntimeProofs --------------------------
(***************************************************************************)
(* The tiering runtime for any number of pages, entry addresses, jobs and  *)
(* resets, any width of the versions, and every limit and capacity: what   *)
(* is in the code cache is fresh (ValidMeansFresh), the cache keeps its    *)
(* limits and its list (CacheWithinLimits), the hotness profile keeps its  *)
(* capacity and its counters (ProfileConsistent), and a requested address  *)
(* is being worked on or was rejected by Tier-1 since (RequestsAccounted). *)
(*                                                                         *)
(* ValidMeansFresh is not inductive: it says nothing of a block that is    *)
(* stale, or of a job that has yet to be installed.  Fresh strengthens it  *)
(* to every snapshot of the current generation: since the snapshot, its    *)
(* page has been written fewer than VerMod times, the version has moved by *)
(* that many steps, and what was read of the page was read since.          *)
(***************************************************************************)
EXTENDS JitRuntime, FiniteSetTheorems, SequenceTheorems, TLAPS

\* A version v after d writes.
Advance(v, d) == IF v + d >= VerMod THEN v + d - VerMod ELSE v + d

\* In memory M with versions V: what a snapshot of page p says of the page.
PageSnap(M, V, meta, p) ==
    /\ meta.at[p] <= M[p]
    /\ M[p] - meta.at[p] < VerMod
    /\ V[p] = Advance(meta.vers[p], M[p] - meta.at[p])

SnapOK(M, V, G, r, meta) ==
    /\ meta.gen <= G
    /\ meta.k >= 1
    /\ meta.gen = G =>
          \A p \in Pages : p \in Span(r, meta.k) /\ p < Tracked
                             => PageSnap(M, V, meta, p)

\* The code of the first n pages was read since the snapshot.
CodeOK(M, G, r, meta, n, code) ==
    meta.gen = G =>
        \A p \in Pages : p \in Span(r, meta.k) /\ p \in Span(r, n) /\ p < Tracked
            => meta.at[p] <= code[p] /\ code[p] <= M[p]

BlockOK(M, V, G, r, h) ==
    /\ h.meta.n <= SnapSpan
    /\ SnapOK(M, V, G, r, h.meta)
    /\ CodeOK(M, G, r, h.meta, h.meta.n, h.code)

JobOK(M, V, G, b) ==
    /\ SnapOK(M, V, G, b.rip, b.meta)
    /\ CodeOK(M, G, b.rip, b.meta, b.read, b.code)

Fresh ==
    /\ TypeOK
    /\ \A r \in DOMAIN blocks : BlockOK(mem, ver, gen, r, blocks[r])
    /\ \A j \in Jobs : job[j] # NoJob => JobOK(mem, ver, gen, job[j])

-----------------------------------------------------------------------------
(* Facts about the version arithmetic and the snapshots *)

\* A page whose version is back where it was has not been written.
LEMMA AdvanceZero ==
    ASSUME NEW v \in Versions, NEW d \in Nat, d < VerMod, Advance(v, d) = v
    PROVE  d = 0
  BY JitAssumption DEF Advance, Versions

\* One more write is one more step of the version.
LEMMA AdvanceBump ==
    ASSUME NEW v \in Versions, NEW d \in Nat, d + 1 < VerMod
    PROVE  Bump(Advance(v, d)) = Advance(v, d + 1)
  BY JitAssumption DEF Advance, Bump, Versions

LEMMA BumpType ==
    ASSUME NEW v \in Versions PROVE Bump(v) \in Versions
  BY JitAssumption DEF Bump, Versions

LEMMA AdvanceNone ==
    ASSUME NEW v \in Versions PROVE Advance(v, 0) = v
  BY JitAssumption DEF Advance, Versions

\* The pages of a block are pages of the guest.
LEMMA SpanInPages ==
    ASSUME NEW r \in Rips, NEW n \in Nat, n <= SnapSpan
    PROVE  Span(r, n) \subseteq Pages
  BY JitAssumption DEF Span, Pages

LEMMA VersionType ==
    ASSUME TypeOK, NEW p \in Pages PROVE Version(p) \in Versions
  BY JitAssumption DEF TypeOK, Version, Versions, Pages

\* A snapshot is well typed, and says the truth when it is taken.
LEMMA SnapshotOK ==
    ASSUME TypeOK, NEW r \in Rips, NEW n \in Nat \ {0}
    PROVE  /\ SnapshotMeta(r, n) \in Meta
           /\ SnapshotMeta(r, n).gen = gen
           /\ SnapshotMeta(r, n).n = n
           /\ SnapOK(mem, ver, gen, r, SnapshotMeta(r, n))
           /\ \A p \in Pages : p \in Span(r, SnapshotMeta(r, n).k)
                                 => SnapshotMeta(r, n).at[p] = mem[p]
<1> DEFINE k == MinOf(n, MAX_SNAPSHOT_PAGES)
           m == SnapshotMeta(r, n)
<1>1. k \in Nat /\ k >= 1
  BY JitAssumption DEF MinOf
<1>2. m.n = n /\ m.k = k /\ m.gen = gen
  BY DEF SnapshotMeta
<1>3. \A p \in Pages : /\ p \in Span(r, k) => m.vers[p] = Version(p) /\ m.at[p] = mem[p]
                       /\ p \notin Span(r, k) => m.vers[p] = 0 /\ m.at[p] = 0
  BY DEF SnapshotMeta
<1>4. m \in Meta
  <2>1. 0 \in Versions
    BY JitAssumption DEF Versions
  <2>2. gen \in Nat /\ \A p \in Pages : mem[p] \in Nat
    BY DEF TypeOK
  <2>3. [p \in Pages |-> IF p \in Span(r, k) THEN Version(p) ELSE 0] \in [Pages -> Versions]
    BY <2>1, VersionType
  <2>4. [p \in Pages |-> IF p \in Span(r, k) THEN mem[p] ELSE 0] \in [Pages -> Nat]
    BY <2>2
  <2> QED
    BY <1>1, <2>2, <2>3, <2>4 DEF SnapshotMeta, Meta
<1>5. SnapOK(mem, ver, gen, r, m)
  <2>1. ASSUME NEW p \in Pages, p \in Span(r, m.k), p < Tracked PROVE PageSnap(mem, ver, m, p)
    <3>1. m.at[p] = mem[p] /\ m.vers[p] = ver[p]
      BY <1>2, <1>3, <2>1 DEF Version
    <3>2. mem[p] \in Nat /\ ver[p] \in Versions
      BY DEF TypeOK
    <3> QED
      BY <3>1, <3>2, AdvanceNone, JitAssumption DEF PageSnap
  <2> QED
    BY <1>1, <1>2, <2>1 DEF SnapOK, TypeOK
<1> QED
  BY <1>2, <1>3, <1>4, <1>5

-----------------------------------------------------------------------------
(* What the cache operations do to the map *)

\* Every entry of the new map is an old one, or h at r.
CacheFrom(r, h) ==
    \A x \in DOMAIN blocks' :
        \/ x \in DOMAIN blocks /\ blocks'[x] = blocks[x]
        \/ x = r /\ blocks'[x] = h

LEMMA TouchKeeps ==
    ASSUME NEW r, SetCache(Touch(Cache, r)) PROVE blocks' = blocks
  BY DEF SetCache, Touch, Cache

LEMMA RemoveKeeps ==
    ASSUME NEW r, SetCache(Remove(Cache, r))
    PROVE  \A x \in DOMAIN blocks' : x \in DOMAIN blocks /\ blocks'[x] = blocks[x]
  BY DEF SetCache, Remove, Cache, Restrict

LEMMA InsertKeeps ==
    ASSUME NEW r, NEW h, SetCache(Insert(Cache, r, h)) PROVE CacheFrom(r, h)
<1> DEFINE c == [blocks |-> [x \in DOMAIN blocks \cup {r} |-> IF x = r THEN h ELSE blocks[x]],
                 lru |-> <<r>> \o Without(lru, r)]
<1>1. Insert(Cache, r, h) = EvictIfNeeded(c)
  BY DEF Insert, Cache
<1>2. PICK S : EvictIfNeeded(c).blocks = Restrict(c.blocks, DOMAIN c.blocks \ S)
  BY DEF EvictIfNeeded
<1>3. blocks' = [x \in DOMAIN c.blocks \ S |-> c.blocks[x]]
  BY <1>1, <1>2 DEF SetCache, Restrict
<1> QED
  BY <1>3 DEF CacheFrom

LEMMA RequestType ==
    ASSUME NEW q \in Seq(Rips), NEW r \in Rips PROVE RequestCompile(q, r) \in Seq(Rips)
  BY DEF RequestCompile

LEMMA InstallKeeps ==
    ASSUME TypeOK, NEW r \in Rips, NEW h, InstallHandle(r, h)
    PROVE  CacheFrom(r, h) /\ queue' \in Seq(Rips)
<1>0. queue \in Seq(Rips)
  BY DEF TypeOK
<1>1. CASE IsBlockValid(r, h.meta)
  <2>1. SetCache(Insert(Cache, r, h)) /\ queue' = queue
    BY <1>1 DEF InstallHandle, InstallOk
  <2> QED
    BY <1>0, <2>1, InsertKeeps
<1>2. CASE ~IsBlockValid(r, h.meta)
  <2>1. InstallStale(r)
    BY <1>2 DEF InstallHandle
  <2>2. CASE SetCache(Touch(Cache, r)) /\ queue' = queue
    BY <1>0, <2>2, TouchKeeps DEF CacheFrom
  <2>3. CASE SetCache(Remove(Cache, r)) /\ queue' = RequestCompile(queue, r)
    BY <1>0, <2>3, RemoveKeeps, RequestType DEF CacheFrom
  <2> QED
    BY <2>1, <2>2, <2>3 DEF InstallStale, Request
<1> QED
  BY <1>1, <1>2

-----------------------------------------------------------------------------
(* Fresh is inductive *)

\* Steps that leave memory and versions alone, install what is fresh, and
\* start and advance jobs that are fresh.
LEMMA QuietStep ==
    ASSUME Fresh, UNCHANGED <<mem, ver, gen, writes, resets>>,
           queue' \in Seq(Rips),
           \A x \in DOMAIN blocks' :
              \/ x \in DOMAIN blocks /\ blocks'[x] = blocks[x]
              \/ /\ x \in Rips /\ blocks'[x] \in Handle
                 /\ BlockOK(mem, ver, gen, x, blocks'[x]),
           job' \in [Jobs -> Job \cup {NoJob}],
           \A j \in Jobs : \/ job'[j] = NoJob \/ job'[j] = job[j]
                           \/ JobOK(mem, ver, gen, job'[j])
    PROVE  Fresh'
<1>1. TypeOK'
  BY DEF Fresh, TypeOK
<1>2. \A r \in DOMAIN blocks' : BlockOK(mem, ver, gen, r, blocks'[r])
  BY DEF Fresh
<1>3. \A j \in Jobs : job'[j] # NoJob => JobOK(mem, ver, gen, job'[j])
  BY DEF Fresh
<1> QED
  BY <1>1, <1>2, <1>3 DEF Fresh

LEMMA WriteKeepsSnap ==
    ASSUME TypeOK, NEW q \in Pages, NEW r \in Rips, NEW meta \in Meta,
           SnapOK(mem, ver, gen, r, meta),
           q \in Span(r, meta.k) => mem[q] + 1 - meta.at[q] < VerMod,
           mem' = [mem EXCEPT ![q] = @ + 1],
           ver' = IF q < Tracked THEN [ver EXCEPT ![q] = Bump(@)] ELSE ver
    PROVE  SnapOK(mem', ver', gen, r, meta)
<1>1. SUFFICES ASSUME meta.gen = gen, NEW p \in Pages, p \in Span(r, meta.k), p < Tracked
               PROVE  PageSnap(mem', ver', meta, p)
  BY DEF SnapOK
<1>2. PageSnap(mem, ver, meta, p)
  BY <1>1 DEF SnapOK
<1>3. mem[p] \in Nat /\ ver[p] \in Versions /\ meta.at[p] \in Nat /\ meta.vers[p] \in Versions
  BY DEF TypeOK, Meta
<1>4. CASE p # q
  <2>1. mem'[p] = mem[p] /\ ver'[p] = ver[p]
    BY <1>4 DEF TypeOK
  <2> QED
    BY <1>2, <2>1 DEF PageSnap
<1>5. CASE p = q
  <2> DEFINE d == mem[p] - meta.at[p]
  <2>1. mem'[p] = mem[p] + 1 /\ ver'[p] = Bump(ver[p])
    BY <1>1, <1>5 DEF TypeOK
  <2>2. d \in Nat /\ d + 1 < VerMod /\ mem'[p] - meta.at[p] = d + 1
    BY <1>1, <1>2, <1>3, <1>5, <2>1, JitAssumption DEF PageSnap
  <2>3. ver'[p] = Advance(meta.vers[p], d + 1)
    BY <1>2, <1>3, <2>1, <2>2, AdvanceBump DEF PageSnap
  <2> QED
    BY <1>2, <1>3, <2>1, <2>2, <2>3 DEF PageSnap
<1> QED
  BY <1>4, <1>5

LEMMA WriteKeepsCode ==
    ASSUME TypeOK, NEW q \in Pages, NEW r, NEW meta, NEW n, NEW code \in [Pages -> Nat],
           CodeOK(mem, gen, r, meta, n, code),
           mem' = [mem EXCEPT ![q] = @ + 1]
    PROVE  CodeOK(mem', gen, r, meta, n, code)
<1>1. \A p \in Pages : mem[p] \in Nat /\ code[p] \in Nat /\ mem'[p] \in {mem[p], mem[p] + 1}
  BY DEF TypeOK
<1> QED
  BY <1>1 DEF CodeOK

LEMMA WriteStep ==
    ASSUME Fresh, NEW q \in Pages, GuestWrite(q) PROVE Fresh'
<1> USE DEF GuestWrite
<1>0. TypeOK
  BY DEF Fresh
<1>1. TypeOK'
  <2>1. mem' \in [Pages -> Nat]
    BY <1>0 DEF TypeOK
  <2>2. ver' \in [Pages -> Versions]
    BY <1>0, BumpType DEF TypeOK
  <2> QED
    BY <1>0, <2>1, <2>2 DEF TypeOK
<1>2. ASSUME NEW r \in DOMAIN blocks PROVE BlockOK(mem', ver', gen, r, blocks[r])
  <2>1. r \in Rips /\ blocks[r].meta \in Meta /\ blocks[r].code \in [Pages -> Nat]
    BY <1>0 DEF TypeOK, Handle
  <2>2. BlockOK(mem, ver, gen, r, blocks[r])
    BY DEF Fresh
  <2>3. SnapOK(mem', ver', gen, r, blocks[r].meta)
    BY <1>0, <2>1, <2>2, WriteKeepsSnap DEF BlockOK, NoVersionLap
  <2>4. CodeOK(mem', gen, r, blocks[r].meta, blocks[r].meta.n, blocks[r].code)
    BY <1>0, <2>1, <2>2, WriteKeepsCode DEF BlockOK
  <2> QED
    BY <2>2, <2>3, <2>4 DEF BlockOK
<1>3. ASSUME NEW j \in Jobs, job[j] # NoJob PROVE JobOK(mem', ver', gen, job[j])
  <2>1. job[j].rip \in Rips /\ job[j].meta \in Meta /\ job[j].code \in [Pages -> Nat]
    BY <1>0, <1>3 DEF TypeOK, Job
  <2>2. JobOK(mem, ver, gen, job[j])
    BY <1>3 DEF Fresh
  <2>3. SnapOK(mem', ver', gen, job[j].rip, job[j].meta)
    BY <1>0, <1>3, <2>1, <2>2, WriteKeepsSnap DEF JobOK, NoVersionLap
  <2>4. CodeOK(mem', gen, job[j].rip, job[j].meta, job[j].read, job[j].code)
    BY <1>0, <2>1, <2>2, WriteKeepsCode DEF JobOK
  <2> QED
    BY <2>3, <2>4 DEF JobOK
<1> QED
  BY <1>1, <1>2, <1>3 DEF Fresh

\* A reset leaves every earlier snapshot in an older generation.
LEMMA ResetStep ==
    ASSUME Fresh, Reset PROVE Fresh'
<1> USE DEF Reset
<1>1. TypeOK'
  BY JitAssumption DEF Fresh, TypeOK, Versions
<1>2. ASSUME NEW j \in Jobs, job[j] # NoJob PROVE JobOK(mem', ver', gen', job[j])
  <2>1. job[j].meta.gen \in Nat /\ gen \in Nat
    BY <1>2 DEF Fresh, TypeOK, Job, Meta
  <2>2. job[j].meta.gen <= gen /\ job[j].meta.k >= 1
    BY <1>2 DEF Fresh, JobOK, SnapOK
  <2>3. job[j].meta.gen <= gen' /\ job[j].meta.gen # gen'
    BY <2>1, <2>2
  <2> QED
    BY <2>2, <2>3 DEF JobOK, SnapOK, CodeOK
<1> QED
  BY <1>1, <1>2 DEF Fresh

LEMMA PrepareStep ==
    ASSUME Fresh, NEW r \in Rips, PrepareBlock(r) PROVE Fresh'
<1>0. queue \in Seq(Rips) /\ job \in [Jobs -> Job \cup {NoJob}]
  BY DEF Fresh, TypeOK
<1>1. CASE PrepareHit(r)
  BY <1>0, <1>1, TouchKeeps, QuietStep DEF PrepareHit
<1>2. CASE PrepareStale(r)
  BY <1>0, <1>2, RemoveKeeps, RequestType, QuietStep DEF PrepareStale, Request
<1>3. CASE PrepareMiss(r)
  <2>1. queue' \in Seq(Rips)
    BY <1>0, <1>3, RequestType DEF PrepareMiss, Request
  <2> QED
    BY <1>0, <1>3, <2>1, QuietStep DEF PrepareMiss
<1> QED
  BY <1>1, <1>2, <1>3 DEF PrepareBlock

LEMMA InvalidateStep ==
    ASSUME Fresh, NEW r \in Rips, InvalidateBlock(r) PROVE Fresh'
<1>0. queue \in Seq(Rips) /\ job \in [Jobs -> Job \cup {NoJob}]
  BY DEF Fresh, TypeOK
<1> QED
  BY <1>0, RemoveKeeps, QuietStep DEF InvalidateBlock

LEMMA InstallBlockStep ==
    ASSUME Fresh, NEW r \in Rips, NEW n \in 1 .. SnapSpan, InstallBlock(r, n)
    PROVE  Fresh'
<1> DEFINE m == SnapshotMeta(r, n)
           h == [meta |-> m,
                 code |-> [p \in Pages |-> IF p \in Span(r, n) THEN mem[p] ELSE 0]]
<1>0. TypeOK /\ job \in [Jobs -> Job \cup {NoJob}] /\ n \in Nat \ {0}
  BY JitAssumption DEF Fresh, TypeOK
<1>1. /\ m \in Meta /\ m.gen = gen /\ m.n = n
      /\ SnapOK(mem, ver, gen, r, m)
      /\ \A p \in Pages : p \in Span(r, m.k) => m.at[p] = mem[p]
  BY <1>0, SnapshotOK
<1>2. h \in Handle
  BY <1>0, <1>1 DEF Handle, TypeOK
<1>3. BlockOK(mem, ver, gen, r, h)
  <2>1. CodeOK(mem, gen, r, m, n, h.code)
    BY <1>0, <1>1 DEF CodeOK, TypeOK
  <2> QED
    BY <1>1, <2>1, JitAssumption DEF BlockOK
<1>4. CacheFrom(r, h) /\ queue' \in Seq(Rips)
  BY <1>0, InstallKeeps DEF InstallBlock
<1> QED
  BY <1>0, <1>2, <1>3, <1>4, QuietStep DEF InstallBlock, CacheFrom

LEMMA StartCompileStep ==
    ASSUME Fresh, NEW j \in Jobs, StartCompile(j) PROVE Fresh'
<1> DEFINE r == Head(queue)
           m == SnapshotMeta(r, SnapSpan)
           b == [rip |-> r, read |-> 0, meta |-> m, code |-> [p \in Pages |-> 0]]
<1>0. /\ TypeOK /\ job \in [Jobs -> Job \cup {NoJob}]
      /\ queue \in Seq(Rips) /\ queue # <<>>
      /\ SnapSpan \in Nat \ {0}
  BY JitAssumption DEF Fresh, TypeOK, StartCompile
<1>1. r \in Rips /\ Tail(queue) \in Seq(Rips)
  BY <1>0
<1>2. m \in Meta /\ SnapOK(mem, ver, gen, r, m)
  BY <1>0, <1>1, SnapshotOK
<1>3. b \in Job
  BY <1>0, <1>1, <1>2 DEF Job
<1>4. JobOK(mem, ver, gen, b)
  <2>1. Span(r, 0) = {}
    BY <1>1, JitAssumption DEF Span
  <2> QED
    BY <1>2, <2>1 DEF JobOK, CodeOK
<1>5. job' = [job EXCEPT ![j] = b] /\ queue' = Tail(queue)
  BY DEF StartCompile
<1>6. /\ job' \in [Jobs -> Job \cup {NoJob}]
      /\ \A i \in Jobs : job'[i] = job[i] \/ job'[i] = b
  BY <1>0, <1>3, <1>5
<1> QED
  BY <1>0, <1>1, <1>4, <1>5, <1>6, QuietStep DEF StartCompile

LEMMA ReadPageStep ==
    ASSUME Fresh, NEW j \in Jobs, ReadPage(j) PROVE Fresh'
<1> DEFINE o == job[j]
           q == FirstPage[o.rip] + o.read
           b == job'[j]
<1>0. TypeOK /\ job \in [Jobs -> Job \cup {NoJob}] /\ queue \in Seq(Rips)
  BY DEF Fresh, TypeOK
<1>1. o \in Job /\ o.read < SnapSpan /\ JobOK(mem, ver, gen, o)
  BY <1>0 DEF ReadPage, Fresh
<1>2. /\ o.rip \in Rips /\ o.read \in 0 .. SnapSpan /\ o.meta \in Meta
      /\ o.code \in [Pages -> Nat]
  BY <1>1 DEF Job
<1>3. q \in Pages /\ mem[q] \in Nat
  <2>1. /\ FirstPage[o.rip] \in Nat /\ FirstPage[o.rip] + SnapSpan <= NPages
        /\ o.read \in Nat /\ SnapSpan \in Nat /\ NPages \in Nat
    BY <1>2, JitAssumption
  <2>2. q \in Pages
    BY <1>1, <2>1 DEF Pages
  <2> QED
    BY <1>0, <2>2 DEF TypeOK
<1>4. job' = [job EXCEPT ![j] = [o EXCEPT !.read = @ + 1, !.code[q] = mem[q]]]
  BY <1>0 DEF ReadPage
<1>5. /\ b = [o EXCEPT !.read = @ + 1, !.code[q] = mem[q]]
      /\ \A i \in Jobs : i # j => job'[i] = job[i]
  BY <1>0, <1>4
<1>6. /\ b.rip = o.rip /\ b.meta = o.meta /\ b.read = o.read + 1
      /\ b.code = [o.code EXCEPT ![q] = mem[q]]
  BY <1>1, <1>5 DEF Job
<1>7. b \in Job
  <2>1. o.read + 1 \in 0 .. SnapSpan /\ [o.code EXCEPT ![q] = mem[q]] \in [Pages -> Nat]
    BY <1>1, <1>2, <1>3, JitAssumption
  <2> QED
    BY <1>1, <1>2, <1>5, <2>1 DEF Job
<1>8. CodeOK(mem, gen, o.rip, o.meta, b.read, b.code)
  <2>1. SUFFICES ASSUME o.meta.gen = gen, NEW p \in Pages, p \in Span(o.rip, o.meta.k),
                        p \in Span(o.rip, o.read + 1), p < Tracked
                 PROVE  o.meta.at[p] <= b.code[p] /\ b.code[p] <= mem[p]
    BY <1>6 DEF CodeOK
  <2>2. PageSnap(mem, ver, o.meta, p)
    BY <1>1, <2>1 DEF JobOK, SnapOK
  <2>3. CASE p = q
    BY <1>2, <1>3, <1>6, <2>2, <2>3 DEF PageSnap
  <2>4. CASE p # q
    <3>1. p \in Span(o.rip, o.read)
      <4>1. FirstPage[o.rip] \in Nat /\ o.read \in Nat
        BY <1>2, JitAssumption
      <4> QED
        BY <2>1, <2>4, <4>1 DEF Span
    <3>2. o.meta.at[p] <= o.code[p] /\ o.code[p] <= mem[p]
      BY <1>1, <2>1, <3>1 DEF JobOK, CodeOK
    <3>3. b.code[p] = o.code[p]
      BY <1>2, <1>6, <2>4
    <3> QED
      BY <3>2, <3>3
  <2> QED
    BY <2>3, <2>4
<1>9. JobOK(mem, ver, gen, b)
  BY <1>1, <1>6, <1>8 DEF JobOK
<1>10. /\ job' \in [Jobs -> Job \cup {NoJob}]
       /\ \A i \in Jobs : job'[i] = job[i] \/ JobOK(mem, ver, gen, job'[i])
  BY <1>0, <1>4, <1>5, <1>7, <1>9
<1> QED
  BY <1>0, <1>10, QuietStep DEF ReadPage

LEMMA InstallStep ==
    ASSUME Fresh, NEW j \in Jobs, Install(j) PROVE Fresh'
<1> DEFINE o == job[j]
<1>0. TypeOK /\ job \in [Jobs -> Job \cup {NoJob}]
  BY DEF Fresh, TypeOK
<1>1. o \in Job /\ JobOK(mem, ver, gen, o)
  BY <1>0 DEF Install, Fresh
<1>2. /\ o.rip \in Rips /\ o.read \in 0 .. SnapSpan /\ o.meta \in Meta
      /\ o.code \in [Pages -> Nat]
  BY <1>1 DEF Job
<1>3. PICK n \in 1 .. o.read :
         InstallHandle(o.rip, [meta |-> ShrinkMeta(o.meta, n), code |-> o.code])
  BY DEF Install
<1> DEFINE m == ShrinkMeta(o.meta, n)
           h == [meta |-> m, code |-> o.code]
<1>4. n \in Nat /\ n >= 1 /\ n <= o.read /\ n <= SnapSpan
  BY <1>2, <1>3, JitAssumption
<1>5. /\ m.n = n /\ m.k = MinOf(n, o.meta.k) /\ m.gen = o.meta.gen
      /\ m.vers = o.meta.vers /\ m.at = o.meta.at /\ m \in Meta
  BY <1>2, <1>4 DEF ShrinkMeta, Meta, MinOf
<1>6. h \in Handle
  BY <1>2, <1>5 DEF Handle
<1>7. /\ o.meta.k \in Nat /\ o.meta.k >= 1
      /\ m.k \in Nat /\ m.k >= 1 /\ m.k <= o.meta.k /\ m.k <= n
  BY <1>1, <1>2, <1>4, <1>5 DEF JobOK, SnapOK, Meta, MinOf
<1>8. /\ Span(o.rip, m.k) \subseteq Span(o.rip, o.meta.k)
      /\ Span(o.rip, n) \subseteq Span(o.rip, o.read)
  BY <1>2, <1>4, <1>7, JitAssumption DEF Span
<1>9. SnapOK(mem, ver, gen, o.rip, m)
  BY <1>1, <1>5, <1>7, <1>8 DEF JobOK, SnapOK, PageSnap
<1>10. CodeOK(mem, gen, o.rip, m, n, o.code)
  BY <1>1, <1>5, <1>8 DEF JobOK, CodeOK
<1>11. BlockOK(mem, ver, gen, o.rip, h)
  BY <1>4, <1>5, <1>9, <1>10 DEF BlockOK
<1>12. CacheFrom(o.rip, h) /\ queue' \in Seq(Rips)
  BY <1>0, <1>2, <1>3, InstallKeeps
<1>13. /\ job' \in [Jobs -> Job \cup {NoJob}]
       /\ \A i \in Jobs : job'[i] = job[i] \/ job'[i] = NoJob
  BY <1>0 DEF Install
<1> QED
  BY <1>2, <1>6, <1>11, <1>12, <1>13, QuietStep DEF Install, CacheFrom

LEMMA CompileErrorStep ==
    ASSUME Fresh, NEW j \in Jobs, CompileError(j) PROVE Fresh'
<1>0. job \in [Jobs -> Job \cup {NoJob}] /\ queue \in Seq(Rips)
  BY DEF Fresh, TypeOK
<1>1. /\ job' \in [Jobs -> Job \cup {NoJob}]
      /\ \A i \in Jobs : job'[i] = job[i] \/ job'[i] = NoJob
  BY <1>0 DEF CompileError
<1> QED
  BY <1>0, <1>1, QuietStep DEF CompileError

LEMMA FreshInit ==
    Init => Fresh
<1> SUFFICES ASSUME Init PROVE Fresh
  OBVIOUS
<1>1. DOMAIN blocks = {}
  BY DEF Init
<1>2. TypeOK
  BY <1>1, JitAssumption DEF Init, TypeOK, Versions
<1> QED
  BY <1>1, <1>2 DEF Init, Fresh

LEMMA FreshNext ==
    Fresh /\ [Next]_vars => Fresh'
<1> SUFFICES ASSUME Fresh, [Next]_vars PROVE Fresh'
  OBVIOUS
<1>1. ASSUME NEW p \in Pages, GuestWrite(p) PROVE Fresh'
  BY <1>1, WriteStep
<1>2. CASE Reset
  BY <1>2, ResetStep
<1>3. ASSUME NEW r \in Rips, PrepareBlock(r) PROVE Fresh'
  BY <1>3, PrepareStep
<1>4. ASSUME NEW r \in Rips, InvalidateBlock(r) PROVE Fresh'
  BY <1>4, InvalidateStep
<1>5. ASSUME NEW r \in Rips, NEW n \in 1 .. SnapSpan, InstallBlock(r, n) PROVE Fresh'
  BY <1>5, InstallBlockStep
<1>6. ASSUME NEW j \in Jobs, JobStep(j) PROVE Fresh'
  BY <1>6, StartCompileStep, ReadPageStep, InstallStep, CompileErrorStep DEF JobStep
<1>7. CASE UNCHANGED vars
  BY <1>7 DEF Fresh, TypeOK, vars
<1> QED
  BY <1>1, <1>2, <1>3, <1>4, <1>5, <1>6, <1>7 DEF Next

\* Fresh gives the property: a valid snapshot is of this generation and its
\* versions have not moved, so its pages were not written since.
LEMMA FreshImplies ==
    Fresh => ValidMeansFresh
<1> SUFFICES ASSUME Fresh, NEW r \in DOMAIN blocks, IsBlockValid(r, blocks[r].meta),
                    NEW p \in Span(r, blocks[r].meta.n), p < Tracked
             PROVE  blocks[r].code[p] = mem[p]
  BY DEF ValidMeansFresh
<1> DEFINE m == blocks[r].meta
<1>0. TypeOK /\ BlockOK(mem, ver, gen, r, blocks[r])
  BY DEF Fresh
<1>1. r \in Rips /\ m \in Meta /\ blocks[r].code \in [Pages -> Nat]
  BY <1>0 DEF TypeOK, Handle
<1>2. m.n \in Nat /\ m.k \in Nat /\ m.k >= 1 /\ m.n <= SnapSpan
  BY <1>0, <1>1 DEF BlockOK, SnapOK, Meta
<1>3. /\ m.gen = gen /\ m.n <= m.k
      /\ \A x \in Span(r, m.k) : Version(x) = m.vers[x]
  BY <1>2 DEF IsBlockValid
<1>4. p \in Pages /\ p \in Span(r, m.k)
  <2>1. p \in Span(r, m.k)
    BY <1>1, <1>2, <1>3, JitAssumption DEF Span
  <2> QED
    BY <1>1, <1>2, <2>1, SpanInPages
<1>5. PageSnap(mem, ver, m, p) /\ m.at[p] <= blocks[r].code[p] /\ blocks[r].code[p] <= mem[p]
  BY <1>0, <1>3, <1>4 DEF BlockOK, SnapOK, CodeOK
<1>6. /\ mem[p] \in Nat /\ m.at[p] \in Nat /\ m.vers[p] \in Versions
      /\ blocks[r].code[p] \in Nat
  BY <1>0, <1>1, <1>4 DEF TypeOK, Meta
<1>7. ver[p] = m.vers[p]
  BY <1>3, <1>4 DEF Version
<1>8. mem[p] - m.at[p] = 0
  BY <1>5, <1>6, <1>7, AdvanceZero, JitAssumption DEF PageSnap
<1> QED
  BY <1>5, <1>6, <1>8

\* Type correctness of JitRuntime.
THEOREM JitTypeCorrect == Spec => []TypeOK
<1>1. Fresh => TypeOK
  BY DEF Fresh
<1> QED
  BY <1>1, FreshInit, FreshNext, PTL DEF Spec

\* No sequence of guest writes, resets, stale results and evictions makes
\* prepare_block run code that is not what the guest's tracked pages hold.
THEOREM CacheIsFresh == Spec => []ValidMeansFresh
  BY FreshInit, FreshNext, FreshImplies, PTL DEF Spec

-----------------------------------------------------------------------------
(* Induction over data, with sets for predicates *)

LEMMA SmallestNat ==
    ASSUME NEW T \in SUBSET Nat, T # {}
    PROVE  \E x \in T : \A y \in T : x <= y
<1>1. PICK x \in T : \A y \in T : ~(<<y, x>> \in OpToRel(<, Nat))
  BY Zenon, NatLessThanWellFounded, WFMin
<1>2. \A y \in T : ~(y < x)
  BY <1>1 DEF OpToRel
<1> QED
  BY <1>2

\* A set that contains a, and every successor up to b, contains a .. b.
LEMMA IntervalInduction ==
    ASSUME NEW a \in Nat, NEW b \in Nat, NEW S, a \in S,
           \A i \in a .. b - 1 : i \in S => i + 1 \in S
    PROVE  \A i \in a .. b : i \in S
<1> DEFINE T == {i \in a .. b : i \notin S}
<1> SUFFICES ASSUME T # {} PROVE FALSE
  OBVIOUS
<1>1. T \in SUBSET Nat
  OBVIOUS
<1>2. PICK x \in T : \A y \in T : x <= y
  <2> HIDE DEF T
  <2> QED
    BY <1>1, SmallestNat
<1>3. x \in a .. b /\ x \notin S /\ x # a
  BY <1>2
<1>4. x - 1 \in a .. b - 1 /\ x - 1 \notin T /\ (x - 1) + 1 = x
  <2>1. x - 1 \in a .. b - 1 /\ ~(x <= x - 1) /\ (x - 1) + 1 = x
    BY <1>3
  <2> HIDE DEF T
  <2> QED
    BY <1>2, <2>1
<1>5. x - 1 \in S
  BY <1>4
<1> QED
  BY <1>3, <1>4, <1>5

\* A set of numbers up to b has a largest member.
LEMMA LargestNat ==
    ASSUME NEW b \in Nat, NEW T \in SUBSET (0 .. b), T # {}
    PROVE  \E x \in T : \A y \in T : y <= x
<1> DEFINE U == {b - y : y \in T}
<1>1. U \in SUBSET Nat /\ U # {}
  <2>1. ASSUME NEW z \in U
        PROVE  z \in Nat
    <3>1. PICK y \in T : z = b - y
      OBVIOUS
    <3>2. y \in 0 .. b
      OBVIOUS
    <3> QED
      BY <3>1, <3>2
  <2> QED
    BY <2>1
<1>2. PICK u \in U : \A v \in U : u <= v
  <2> HIDE DEF U
  <2> QED
    BY <1>1, SmallestNat
<1>3. PICK x \in T : u = b - x
  BY <1>2
<1>4. \A y \in T : b - x <= b - y
  BY <1>2, <1>3
<1> QED
  BY <1>4

-----------------------------------------------------------------------------
(* Partial sums *)

\* u holds the partial sums of the n weights w.
SumsOf(u, w, n) ==
    /\ u \in [0 .. n -> Nat]
    /\ u[0] = 0
    /\ \A i \in 1 .. n : u[i] = u[i - 1] + w[i]

LEMMA SumsExist ==
    ASSUME NEW n \in Nat, NEW w, \A i \in 1 .. n : w[i] \in Nat
    PROVE  \E u : SumsOf(u, w, n)
<1> DEFINE S == {m \in 0 .. n : \E u : SumsOf(u, w, m)}
<1>1. 0 \in S
  <2>1. SumsOf([i \in 0 .. 0 |-> 0], w, 0)
    BY DEF SumsOf
  <2> QED
    BY <2>1
<1>2. ASSUME NEW m \in 0 .. n - 1, m \in S
      PROVE  m + 1 \in S
  <2>1. PICK g : SumsOf(g, w, m)
    BY <1>2
  <2>2. m + 1 \in 1 .. n /\ w[m + 1] \in Nat
    OBVIOUS
  <2> DEFINE h == [i \in 0 .. m + 1 |-> IF i = m + 1 THEN g[m] + w[m + 1] ELSE g[i]]
  <2>3. /\ g \in [0 .. m -> Nat] /\ g[0] = 0
        /\ \A i \in 1 .. m : g[i] = g[i - 1] + w[i]
    BY <2>1 DEF SumsOf
  <2>4. h \in [0 .. m + 1 -> Nat] /\ h[0] = 0
    BY <2>2, <2>3
  <2>5. ASSUME NEW i \in 1 .. m + 1
        PROVE  h[i] = h[i - 1] + w[i]
    <3>1. h[i - 1] = g[i - 1]
      OBVIOUS
    <3>2. CASE i = m + 1
      BY <3>1, <3>2
    <3>3. CASE i # m + 1
      <4>1. i \in 1 .. m /\ h[i] = g[i]
        BY <3>3
      <4> QED
        BY <2>3, <3>1, <4>1
    <3> QED
      BY <3>2, <3>3
  <2>6. SumsOf(h, w, m + 1)
    BY <2>4, <2>5 DEF SumsOf
  <2> QED
    BY <2>2, <2>6
<1>3. \A m \in 0 .. n : m \in S
  <2> HIDE DEF S
  <2> QED
    BY <1>1, <1>2, IntervalInduction
<1> QED
  BY <1>3

\* Equal weights have equal sums.
LEMMA SameSums ==
    ASSUME NEW n \in Nat, NEW m \in 0 .. n, NEW u, NEW w, NEW v, NEW x,
           SumsOf(u, w, n), SumsOf(v, x, m), \A i \in 1 .. m : x[i] = w[i]
    PROVE  \A i \in 0 .. m : v[i] = u[i]
<1> DEFINE S == {i \in 0 .. m : v[i] = u[i]}
<1>1. 0 \in S
  BY DEF SumsOf
<1>2. ASSUME NEW i \in 0 .. m - 1, i \in S
      PROVE  i + 1 \in S
  <2>1. i + 1 \in 1 .. m /\ i + 1 \in 1 .. n /\ (i + 1) - 1 = i
    OBVIOUS
  <2>2. v[i + 1] = v[i] + x[i + 1] /\ u[i + 1] = u[i] + w[i + 1]
    BY <2>1 DEF SumsOf
  <2> QED
    BY <1>2, <2>1, <2>2
<1>3. \A i \in 0 .. m : i \in S
  <2> HIDE DEF S
  <2> QED
    BY <1>1, <1>2, IntervalInduction
<1> QED
  BY <1>3

\* Moving weight k to the front does not change the total.
LEMMA MovedSums ==
    ASSUME NEW n \in Nat, NEW k \in 1 .. n, NEW u, NEW w, NEW v, NEW x,
           \A i \in 1 .. n : w[i] \in Nat,
           SumsOf(u, w, n), SumsOf(v, x, n), x[1] = w[k],
           \A i \in 2 .. k : x[i] = w[i - 1],
           \A i \in k + 1 .. n : x[i] = w[i]
    PROVE  v[n] = u[n]
<1>0. u \in [0 .. n -> Nat] /\ v \in [0 .. n -> Nat] /\ w[k] \in Nat
  BY DEF SumsOf
<1> DEFINE S == {i \in 1 .. k : v[i] = u[i - 1] + w[k]}
           R == {i \in k .. n : v[i] = u[i]}
<1>1. 1 \in S
  <2>1. 1 \in 1 .. n /\ 1 - 1 = 0
    OBVIOUS
  <2>2. v[1] = v[0] + x[1] /\ v[0] = 0 /\ u[0] = 0
    BY <2>1 DEF SumsOf
  <2> QED
    BY <1>0, <2>2
<1>2. ASSUME NEW i \in 1 .. k - 1, i \in S
      PROVE  i + 1 \in S
  <2>1. /\ i + 1 \in 1 .. n /\ i \in 1 .. n /\ (i + 1) - 1 = i /\ i + 1 \in 2 .. k
        /\ i - 1 \in 0 .. n
    OBVIOUS
  <2>2. v[i + 1] = v[i] + x[i + 1] /\ u[i] = u[i - 1] + w[i]
    BY <2>1 DEF SumsOf
  <2>3. x[i + 1] = w[i] /\ w[i] \in Nat /\ u[i - 1] \in Nat /\ w[k] \in Nat
    BY <1>0, <2>1
  <2>4. v[i + 1] = u[i] + w[k]
    <3>1. v[i] = u[i - 1] + w[k]
      BY <1>2
    <3>2. ASSUME NEW a \in Nat, NEW b \in Nat, NEW c \in Nat
          PROVE  (a + b) + c = (a + c) + b
      OBVIOUS
    <3> QED
      BY <2>2, <2>3, <3>1, <3>2
  <2> QED
    BY <2>1, <2>4
<1>3. \A i \in 1 .. k : i \in S
  <2>1. 1 \in Nat /\ k \in Nat
    OBVIOUS
  <2> HIDE DEF S
  <2> QED
    BY <1>1, <1>2, <2>1, IntervalInduction
<1>4. k \in R
  <2>1. k \in 1 .. k /\ u[k] = u[k - 1] + w[k]
    BY DEF SumsOf
  <2> QED
    BY <1>3, <2>1
<1>5. ASSUME NEW i \in k .. n - 1, i \in R
      PROVE  i + 1 \in R
  <2>1. i + 1 \in 1 .. n /\ (i + 1) - 1 = i /\ i + 1 \in k + 1 .. n /\ i + 1 \in k .. n
    OBVIOUS
  <2>2. v[i + 1] = v[i] + x[i + 1] /\ u[i + 1] = u[i] + w[i + 1]
    BY <2>1 DEF SumsOf
  <2>3. x[i + 1] = w[i + 1] /\ v[i] = u[i]
    BY <1>5, <2>1
  <2> QED
    BY <2>1, <2>2, <2>3
<1>6. \A i \in k .. n : i \in R
  <2>1. k \in Nat
    OBVIOUS
  <2> HIDE DEF R
  <2> QED
    BY <1>4, <1>5, <2>1, IntervalInduction
<1> QED
  BY <1>6

\* Dropping weight k takes it off the total.
LEMMA DroppedSums ==
    ASSUME NEW n \in Nat, NEW k \in 1 .. n, NEW u, NEW w, NEW v, NEW x,
           \A i \in 1 .. n : w[i] \in Nat,
           SumsOf(u, w, n), SumsOf(v, x, n - 1),
           \A i \in 1 .. k - 1 : x[i] = w[i],
           \A i \in k .. n - 1 : x[i] = w[i + 1]
    PROVE  v[n - 1] + w[k] = u[n]
<1>0. /\ u \in [0 .. n -> Nat] /\ v \in [0 .. n - 1 -> Nat] /\ w[k] \in Nat
      /\ n - 1 \in Nat /\ k - 1 \in Nat
  BY DEF SumsOf
<1> DEFINE S == {i \in 0 .. k - 1 : v[i] = u[i]}
           R == {i \in k - 1 .. n - 1 : v[i] + w[k] = u[i + 1]}
<1>1. 0 \in S
  BY DEF SumsOf
<1>2. ASSUME NEW i \in 0 .. (k - 1) - 1, i \in S
      PROVE  i + 1 \in S
  <2>1. i + 1 \in 1 .. n /\ i + 1 \in 1 .. n - 1 /\ (i + 1) - 1 = i /\ i + 1 \in 1 .. k - 1
    OBVIOUS
  <2>2. v[i + 1] = v[i] + x[i + 1] /\ u[i + 1] = u[i] + w[i + 1]
    BY <2>1 DEF SumsOf
  <2>3. x[i + 1] = w[i + 1]
    BY <2>1
  <2> QED
    BY <1>2, <2>1, <2>2, <2>3
<1>3. \A i \in 0 .. k - 1 : i \in S
  <2>1. 0 \in Nat
    OBVIOUS
  <2> HIDE DEF S
  <2> QED
    BY <1>0, <1>1, <1>2, <2>1, IntervalInduction
<1>4. k - 1 \in R
  <2>1. k - 1 \in 0 .. k - 1 /\ u[k] = u[k - 1] + w[k] /\ (k - 1) + 1 = k
    BY DEF SumsOf
  <2> QED
    BY <1>3, <2>1
<1>5. ASSUME NEW i \in k - 1 .. (n - 1) - 1, i \in R
      PROVE  i + 1 \in R
  <2>1. /\ i + 1 \in 1 .. n - 1 /\ (i + 1) - 1 = i /\ i + 1 \in k .. n - 1
        /\ (i + 1) + 1 \in 1 .. n /\ ((i + 1) + 1) - 1 = i + 1 /\ i \in 0 .. n - 1
    OBVIOUS
  <2>2. v[i + 1] = v[i] + x[i + 1] /\ u[(i + 1) + 1] = u[i + 1] + w[(i + 1) + 1]
    BY <2>1 DEF SumsOf
  <2>3. x[i + 1] = w[(i + 1) + 1] /\ w[(i + 1) + 1] \in Nat
    BY <2>1
  <2>4. v[i] \in Nat /\ v[i] + w[k] = u[i + 1]
    BY <1>0, <1>5, <2>1
  <2>5. v[i + 1] + w[k] = u[(i + 1) + 1]
    <3>1. ASSUME NEW a \in Nat, NEW b \in Nat, NEW c \in Nat
          PROVE  (a + b) + c = (a + c) + b
      OBVIOUS
    <3>2. w[k] \in Nat
      BY <1>0
    <3> QED
      BY <2>2, <2>3, <2>4, <3>1, <3>2
  <2> QED
    BY <2>1, <2>5
<1>6. \A i \in k - 1 .. n - 1 : i \in R
  <2> HIDE DEF R
  <2> QED
    BY <1>0, <1>4, <1>5, IntervalInduction
<1>7. n - 1 \in k - 1 .. n - 1 /\ (n - 1) + 1 = n
  OBVIOUS
<1>8. n - 1 \in R
  BY <1>6, <1>7
<1> QED
  BY <1>7, <1>8

-----------------------------------------------------------------------------
(* Lists that hold every member of a set once *)

Once(s, D) ==
    /\ D \subseteq Rips
    /\ s \in Seq(Rips)
    /\ \A i, j \in 1 .. Len(s) : s[i] = s[j] => i = j
    /\ \A i \in 1 .. Len(s) : s[i] \in D
    /\ \A x \in D : \E i \in 1 .. Len(s) : s[i] = x

LEMMA OnceCounts ==
    ASSUME NEW s, NEW D, Once(s, D)
    PROVE  Cardinality(D) = Len(s) /\ Len(s) \in Nat /\ {s[i] : i \in DOMAIN s} = D
<1>1. Len(s) \in Nat /\ DOMAIN s = 1 .. Len(s) /\ s \in [1 .. Len(s) -> D]
  BY DEF Once
<1>2. s \in Bijection(1 .. Len(s), D)
  BY <1>1 DEF Once, Bijection, Injection, Surjection, IsInjective
<1>3. ExistsBijection(1 .. Len(s), D)
  BY <1>2 DEF ExistsBijection
<1>4. Cardinality(D) = Len(s)
  BY <1>1, <1>3, FS_CountingElements
<1> QED
  BY <1>1, <1>4 DEF Once

\* What unlink does to such a list.
LEMMA WithoutMember ==
    ASSUME NEW s, NEW D, Once(s, D), NEW k \in 1 .. Len(s)
    PROVE  /\ Len(Without(s, s[k])) = Len(s) - 1
           /\ \A i \in 1 .. k - 1 : Without(s, s[k])[i] = s[i]
           /\ \A i \in k .. Len(s) - 1 : Without(s, s[k])[i] = s[i + 1]
           /\ Once(Without(s, s[k]), D \ {s[k]})
<1> DEFINE t == Without(s, s[k])
           n == Len(s)
<1>1. n \in Nat /\ DOMAIN s = 1 .. n /\ s \in Seq(Rips)
  BY DEF Once
<1>2. (CHOOSE i \in DOMAIN s : s[i] = s[k]) = k
  BY <1>1 DEF Once
<1>3. t = [i \in 1 .. n - 1 |-> IF i < k THEN s[i] ELSE s[i + 1]]
  BY <1>1, <1>2 DEF Without
<1>4. n - 1 \in Nat
  BY <1>1
<1>5. \A i \in 1 .. n - 1 : (IF i < k THEN s[i] ELSE s[i + 1]) \in Rips
  BY <1>1
<1>6. t \in Seq(Rips) /\ Len(t) = n - 1
  BY <1>3, <1>4, <1>5
<1>7. /\ \A i \in 1 .. k - 1 : t[i] = s[i]
      /\ \A i \in k .. n - 1 : t[i] = s[i + 1]
  BY <1>1, <1>3
<1> HIDE DEF t
<1>8. ASSUME NEW i \in 1 .. n - 1
      PROVE  \E a \in 1 .. n : a # k /\ t[i] = s[a] /\ a = (IF i < k THEN i ELSE i + 1)
  <2>1. CASE i < k
    BY <1>1, <1>7, <2>1
  <2>2. CASE ~(i < k)
    <3>1. i + 1 \in 1 .. n /\ i + 1 # k /\ i \in k .. n - 1
      BY <1>1, <2>2
    <3> QED
      BY <1>7, <2>2, <3>1
  <2> QED
    BY <2>1, <2>2
<1>9. ASSUME NEW i \in 1 .. n - 1, NEW j \in 1 .. n - 1, t[i] = t[j]
      PROVE  i = j
  <2>1. PICK a \in 1 .. n : t[i] = s[a] /\ a = (IF i < k THEN i ELSE i + 1)
    BY <1>8
  <2>2. PICK b \in 1 .. n : t[j] = s[b] /\ b = (IF j < k THEN j ELSE j + 1)
    BY <1>8
  <2>3. a = b
    BY <1>9, <2>1, <2>2 DEF Once
  <2> QED
    BY <1>1, <2>1, <2>2, <2>3
<1>10. ASSUME NEW i \in 1 .. n - 1
       PROVE  t[i] \in D \ {s[k]}
  BY <1>8 DEF Once
<1>11. ASSUME NEW x \in D \ {s[k]}
       PROVE  \E i \in 1 .. n - 1 : t[i] = x
  <2>1. PICK a \in 1 .. n : s[a] = x
    BY DEF Once
  <2>2. CASE a < k
    <3>1. a \in 1 .. k - 1 /\ a \in 1 .. n - 1
      BY <1>1, <2>2
    <3> QED
      BY <1>7, <2>1, <3>1
  <2>3. CASE a > k
    <3>1. a - 1 \in k .. n - 1 /\ a - 1 \in 1 .. n - 1 /\ (a - 1) + 1 = a
      BY <1>1, <2>3
    <3>2. t[a - 1] = s[(a - 1) + 1]
      BY <1>7, <3>1
    <3> QED
      BY <2>1, <3>1, <3>2
  <2>4. a # k
    BY <2>1
  <2> QED
    BY <1>1, <2>2, <2>3, <2>4
<1>12. Once(t, D \ {s[k]})
  BY <1>6, <1>9, <1>10, <1>11 DEF Once
<1> QED
  BY <1>6, <1>7, <1>12 DEF t

LEMMA WithoutOther ==
    ASSUME NEW s, NEW D, Once(s, D), NEW r, r \notin D
    PROVE  Without(s, r) = s
<1>1. DOMAIN s = 1 .. Len(s)
  BY DEF Once
<1>2. ~ \E i \in DOMAIN s : s[i] = r
  BY <1>1 DEF Once
<1> QED
  BY <1>2 DEF Without

LEMMA WithoutOnce ==
    ASSUME NEW s, NEW D, Once(s, D), NEW r
    PROVE  Once(Without(s, r), D \ {r})
<1>1. CASE r \in D
  <2>1. PICK k \in 1 .. Len(s) : s[k] = r
    BY <1>1 DEF Once
  <2> QED
    BY <2>1, WithoutMember
<1>2. CASE r \notin D
  <2>1. D \ {r} = D
    BY <1>2
  <2> QED
    BY <1>2, <2>1, WithoutOther
<1> QED
  BY <1>1, <1>2

\* What link_front does to such a list.
LEMMA FrontOnce ==
    ASSUME NEW s, NEW D, Once(s, D), NEW r \in Rips, r \notin D
    PROVE  /\ Once(<<r>> \o s, D \cup {r})
           /\ Len(<<r>> \o s) = Len(s) + 1
           /\ (<<r>> \o s)[1] = r
           /\ \A i \in 2 .. Len(s) + 1 : (<<r>> \o s)[i] = s[i - 1]
<1> DEFINE t == <<r>> \o s
           n == Len(s)
<1>1. n \in Nat /\ s \in Seq(Rips) /\ <<r>> \in Seq(Rips) /\ Len(<<r>>) = 1
  BY DEF Once
<1>2. t \in Seq(Rips) /\ Len(t) = n + 1
  BY <1>1
<1>3. t[1] = r /\ \A i \in 2 .. n + 1 : t[i] = s[i - 1]
  BY <1>1
<1> HIDE DEF t
<1>4. \A i \in 2 .. n + 1 : i - 1 \in 1 .. n /\ t[i] = s[i - 1] /\ s[i - 1] \in D
  BY <1>1, <1>3 DEF Once
<1>5. ASSUME NEW i \in 1 .. n + 1, NEW j \in 1 .. n + 1, t[i] = t[j]
      PROVE  i = j
  <2>1. CASE i = 1 /\ j = 1
    BY <2>1
  <2>2. CASE i = 1 /\ j # 1
    <3>1. j \in 2 .. n + 1
      BY <2>2
    <3> QED
      BY <1>3, <1>4, <1>5, <2>2, <3>1
  <2>3. CASE i # 1 /\ j = 1
    <3>1. i \in 2 .. n + 1
      BY <2>3
    <3> QED
      BY <1>3, <1>4, <1>5, <2>3, <3>1
  <2>4. CASE i # 1 /\ j # 1
    <3>1. i \in 2 .. n + 1 /\ j \in 2 .. n + 1
      BY <2>4
    <3>2. i - 1 = j - 1
      BY <1>4, <1>5, <3>1 DEF Once
    <3> QED
      BY <3>1, <3>2
  <2> QED
    BY <2>1, <2>2, <2>3, <2>4
<1>6. ASSUME NEW i \in 1 .. n + 1
      PROVE  t[i] \in D \cup {r}
  <2>1. i = 1 \/ i \in 2 .. n + 1
    OBVIOUS
  <2> QED
    BY <1>3, <1>4, <2>1
<1>7. ASSUME NEW x \in D \cup {r}
      PROVE  \E i \in 1 .. n + 1 : t[i] = x
  <2>1. CASE x = r
    BY <1>1, <1>3, <2>1
  <2>2. CASE x \in D
    <3>1. PICK a \in 1 .. n : s[a] = x
      BY <2>2 DEF Once
    <3>2. a + 1 \in 2 .. n + 1 /\ a + 1 \in 1 .. n + 1 /\ (a + 1) - 1 = a
      BY <1>1
    <3>3. t[a + 1] = s[(a + 1) - 1]
      BY <1>3, <3>2
    <3> QED
      BY <3>1, <3>2, <3>3
  <2> QED
    BY <2>1, <2>2
<1>8. D \cup {r} \subseteq Rips
  BY DEF Once
<1>9. Once(t, D \cup {r})
  BY <1>2, <1>5, <1>6, <1>7, <1>8 DEF Once
<1> QED
  BY <1>2, <1>3, <1>9 DEF t

LEMMA BackOnce ==
    ASSUME NEW s, NEW D, Once(s, D), NEW r \in Rips, r \notin D
    PROVE  Once(Append(s, r), D \cup {r}) /\ Len(Append(s, r)) = Len(s) + 1
<1> DEFINE t == Append(s, r)
           n == Len(s)
<1>1. n \in Nat /\ s \in Seq(Rips)
  BY DEF Once
<1>2. t \in Seq(Rips) /\ Len(t) = n + 1
  BY <1>1
<1>3. t[n + 1] = r /\ \A i \in 1 .. n : t[i] = s[i] /\ s[i] \in D
  BY <1>1 DEF Once
<1> HIDE DEF t
<1>4. ASSUME NEW i \in 1 .. n + 1, NEW j \in 1 .. n + 1, t[i] = t[j]
      PROVE  i = j
  <2>1. CASE i \in 1 .. n /\ j \in 1 .. n
    BY <1>3, <1>4, <2>1 DEF Once
  <2>2. CASE i = n + 1 /\ j \in 1 .. n
    BY <1>3, <1>4, <2>2
  <2>3. CASE i \in 1 .. n /\ j = n + 1
    BY <1>3, <1>4, <2>3
  <2> QED
    BY <1>1, <2>1, <2>2, <2>3
<1>5. ASSUME NEW i \in 1 .. n + 1
      PROVE  t[i] \in D \cup {r}
  <2>1. i \in 1 .. n \/ i = n + 1
    BY <1>1
  <2> QED
    BY <1>3, <2>1
<1>6. ASSUME NEW x \in D \cup {r}
      PROVE  \E i \in 1 .. n + 1 : t[i] = x
  <2>1. CASE x = r
    BY <1>1, <1>3, <2>1
  <2>2. CASE x \in D
    <3>1. PICK a \in 1 .. n : s[a] = x
      BY <2>2 DEF Once
    <3> QED
      BY <1>1, <1>3, <3>1
  <2> QED
    BY <2>1, <2>2
<1>7. D \cup {r} \subseteq Rips
  BY DEF Once
<1>8. Once(t, D \cup {r})
  BY <1>2, <1>4, <1>5, <1>6, <1>7 DEF Once
<1> QED
  BY <1>2, <1>8 DEF t

-----------------------------------------------------------------------------
(* The code cache *)

\* A cache whose list and map agree, with block sizes that can be added up.
CacheOK(c) ==
    /\ Once(c.lru, DOMAIN c.blocks)
    /\ \A x \in DOMAIN c.blocks : c.blocks[x].meta.n \in Nat

Limits(c) ==
    /\ Len(c.lru) <= max_blocks
    /\ max_bytes # 0 => BytesOf(c, Len(c.lru)) <= max_bytes

Weight(c, i) == c.blocks[c.lru[i]].meta.n

\* BytesOf is a partial sum of the sizes on the list.
LEMMA BytesFacts ==
    ASSUME NEW c, CacheOK(c)
    PROVE  \E u : /\ SumsOf(u, [i \in 1 .. Len(c.lru) |-> Weight(c, i)], Len(c.lru))
                  /\ \A i \in 0 .. Len(c.lru) : BytesOf(c, i) = u[i]
<1> DEFINE n == Len(c.lru)
           w == [i \in 1 .. n |-> Weight(c, i)]
           F(f) == [j \in 0 .. n |-> IF j = 0 THEN 0
                                     ELSE f[j - 1] + c.blocks[c.lru[j]].meta.n]
           u == CHOOSE f : f = F(f)
<1>1. n \in Nat /\ \A i \in 1 .. n : w[i] \in Nat
  BY DEF CacheOK, Once, Weight
<1>2. \A i : BytesOf(c, i) = u[i]
  BY DEF BytesOf
<1>3. PICK g : SumsOf(g, w, n)
  <2> HIDE DEF n, w
  <2> QED
    BY <1>1, SumsExist
<1>4. ASSUME NEW j \in 0 .. n
      PROVE  g[j] = F(g)[j]
  <2>1. CASE j = 0
    BY <1>3, <2>1 DEF SumsOf
  <2>2. CASE j # 0
    <3>1. j \in 1 .. n
      BY <2>2
    <3>2. w[j] = c.blocks[c.lru[j]].meta.n
      BY <3>1 DEF Weight
    <3>3. g[j] = g[j - 1] + w[j]
      BY <1>3, <3>1 DEF SumsOf
    <3> QED
      BY <2>2, <3>2, <3>3
  <2> QED
    BY <2>1, <2>2
<1>5. g = F(g)
  <2>1. g \in [0 .. n -> Nat]
    BY <1>3 DEF SumsOf
  <2> QED
    BY <1>4, <2>1
<1>6. u = F(u)
  BY <1>5
<1> HIDE DEF u
<1>7. \A j \in 0 .. n : u[j] = F(u)[j]
  BY <1>6
<1>8. u[0] = 0 /\ \A j \in 1 .. n : u[j] = u[j - 1] + w[j]
  <2>1. u[0] = 0
    <3>1. 0 \in 0 .. n /\ F(u)[0] = 0
      BY <1>1
    <3> QED
      BY <1>7, <3>1
  <2>2. ASSUME NEW j \in 1 .. n
        PROVE  u[j] = u[j - 1] + w[j]
    <3>1. j \in 0 .. n /\ j # 0
      BY <1>1
    <3>2. w[j] = c.blocks[c.lru[j]].meta.n
      BY DEF Weight
    <3> QED
      BY <1>7, <3>1, <3>2
  <2> QED
    BY <2>1, <2>2
<1>9. u = g
  <2> DEFINE S == {j \in 0 .. n : u[j] = g[j]}
  <2>1. 0 \in S
    BY <1>1, <1>3, <1>8 DEF SumsOf
  <2>2. ASSUME NEW j \in 0 .. n - 1, j \in S
        PROVE  j + 1 \in S
    <3>1. j + 1 \in 1 .. n /\ (j + 1) - 1 = j
      BY <1>1
    <3>2. g[j + 1] = g[j] + w[j + 1] /\ u[j + 1] = u[j] + w[j + 1]
      BY <1>3, <1>8, <3>1 DEF SumsOf
    <3> HIDE DEF w
    <3> QED
      BY <2>2, <3>1, <3>2
  <2>3. \A j \in 0 .. n : j \in S
    <3>1. 0 \in Nat
      OBVIOUS
    <3> HIDE DEF S
    <3> QED
      BY <1>1, <2>1, <2>2, <3>1, IntervalInduction
  <2>4. u \in [0 .. n -> {u[j] : j \in 0 .. n}]
    BY <1>6
  <2>5. g \in [0 .. n -> Nat]
    BY <1>3 DEF SumsOf
  <2> QED
    BY <2>3, <2>4, <2>5
<1> QED
  BY <1>2, <1>3, <1>9

\* Touch keeps the members and the total.
LEMMA TouchOK ==
    ASSUME NEW c, CacheOK(c), c = [blocks |-> c.blocks, lru |-> c.lru], Limits(c),
           NEW r \in DOMAIN c.blocks
    PROVE  CacheOK(Touch(c, r)) /\ Limits(Touch(c, r))
<1> DEFINE s == c.lru
           D == DOMAIN c.blocks
           n == Len(s)
           t == <<r>> \o Without(s, r)
           d == Touch(c, r)
<1>0. d.blocks = c.blocks /\ d.lru = t
  BY DEF Touch
<1>1. Once(s, D) /\ n \in Nat /\ r \in Rips
  BY DEF CacheOK, Once
<1>2. PICK k \in 1 .. n : s[k] = r
  BY <1>1 DEF Once
<1>3. /\ Len(Without(s, r)) = n - 1
      /\ \A i \in 1 .. k - 1 : Without(s, r)[i] = s[i]
      /\ \A i \in k .. n - 1 : Without(s, r)[i] = s[i + 1]
      /\ Once(Without(s, r), D \ {r})
  BY <1>1, <1>2, WithoutMember
<1>4. /\ Once(t, (D \ {r}) \cup {r})
      /\ Len(t) = Len(Without(s, r)) + 1
      /\ t[1] = r
      /\ \A i \in 2 .. Len(Without(s, r)) + 1 : t[i] = Without(s, r)[i - 1]
  <2> DEFINE q == Without(s, r)
             E == D \ {r}
  <2>1. Once(q, E) /\ r \notin E
    BY <1>3
  <2> HIDE DEF q, E
  <2>2. /\ Once(<<r>> \o q, E \cup {r}) /\ Len(<<r>> \o q) = Len(q) + 1
        /\ (<<r>> \o q)[1] = r
        /\ \A i \in 2 .. Len(q) + 1 : (<<r>> \o q)[i] = q[i - 1]
    BY <1>1, <2>1, FrontOnce
  <2> QED
    BY <2>2 DEF q, E
<1>5. Once(t, D) /\ Len(t) = n
  <2>1. (D \ {r}) \cup {r} = D
    OBVIOUS
  <2>2. (n - 1) + 1 = n
    BY <1>1
  <2> QED
    BY <1>3, <1>4, <2>1, <2>2
<1>6. \A i \in 2 .. k : t[i] = s[i - 1]
  <2>1. \A i \in 2 .. k : i \in 2 .. Len(Without(s, r)) + 1 /\ i - 1 \in 1 .. k - 1
    BY <1>1, <1>3
  <2> QED
    BY <1>3, <1>4, <2>1
<1>7. \A i \in k + 1 .. n : t[i] = s[i]
  <2>1. \A i \in k + 1 .. n : /\ i \in 2 .. Len(Without(s, r)) + 1
                             /\ i - 1 \in k .. n - 1 /\ (i - 1) + 1 = i
    BY <1>1, <1>3
  <2> QED
    BY <1>3, <1>4, <2>1
<1> HIDE DEF t, d
<1>8. CacheOK(d)
  BY <1>0, <1>5 DEF CacheOK
<1> DEFINE w == [i \in 1 .. n |-> Weight(c, i)]
           x == [i \in 1 .. n |-> Weight(d, i)]
<1>9. PICK u : SumsOf(u, w, n) /\ \A i \in 0 .. n : BytesOf(c, i) = u[i]
  BY BytesFacts
<1>10. PICK v : SumsOf(v, x, n) /\ \A i \in 0 .. n : BytesOf(d, i) = v[i]
  <2>1. Len(d.lru) = n
    BY <1>0, <1>5
  <2> QED
    BY <1>8, <2>1, BytesFacts
<1>11. v[n] = u[n]
  <2>1. \A i \in 1 .. n : w[i] \in Nat
    BY <1>1 DEF CacheOK, Once, Weight
  <2>2. x[1] = w[k]
    BY <1>0, <1>2, <1>4 DEF Weight
  <2>3. \A i \in 2 .. k : x[i] = w[i - 1]
    BY <1>0, <1>6 DEF Weight
  <2>4. \A i \in k + 1 .. n : x[i] = w[i]
    BY <1>0, <1>7 DEF Weight
  <2> HIDE DEF w, x, n
  <2> QED
    BY <1>1, <1>9, <1>10, <2>1, <2>2, <2>3, <2>4, MovedSums
<1>12. BytesOf(d, n) = BytesOf(c, n)
  BY <1>1, <1>9, <1>10, <1>11
<1> QED
  BY <1>0, <1>5, <1>8, <1>12 DEF Limits, d

\* Remove drops one block.
LEMMA RemoveOK ==
    ASSUME NEW c, CacheOK(c), c = [blocks |-> c.blocks, lru |-> c.lru], Limits(c), NEW r
    PROVE  CacheOK(Remove(c, r)) /\ Limits(Remove(c, r))
<1> DEFINE s == c.lru
           D == DOMAIN c.blocks
           n == Len(s)
           t == Without(s, r)
           d == Remove(c, r)
<1>0. d.blocks = [x \in D \ {r} |-> c.blocks[x]] /\ d.lru = t
  BY DEF Remove, Restrict
<1>1. Once(s, D) /\ n \in Nat
  BY DEF CacheOK, Once
<1>2. Once(t, D \ {r})
  BY <1>1, WithoutOnce
<1> HIDE DEF t, d
<1>3. CacheOK(d)
  <2>1. DOMAIN d.blocks = D \ {r} /\ \A x \in D \ {r} : d.blocks[x] = c.blocks[x]
    BY <1>0
  <2> QED
    BY <1>0, <1>2, <2>1 DEF CacheOK
<1>4. CASE r \notin D
  <2>1. t = s
    BY <1>1, <1>4, WithoutOther DEF t
  <2>2. \A i \in 1 .. n : Weight(d, i) = Weight(c, i)
    BY <1>0, <1>1, <1>4, <2>1 DEF Weight, Once
  <2> DEFINE w == [i \in 1 .. n |-> Weight(c, i)]
             x == [i \in 1 .. n |-> Weight(d, i)]
  <2>3. PICK u : SumsOf(u, w, n) /\ \A i \in 0 .. n : BytesOf(c, i) = u[i]
    BY BytesFacts
  <2>4. PICK v : SumsOf(v, x, n) /\ \A i \in 0 .. n : BytesOf(d, i) = v[i]
    <3>1. Len(d.lru) = n
      BY <1>0, <2>1
    <3> QED
      BY <1>3, <3>1, BytesFacts
  <2>5. \A i \in 0 .. n : v[i] = u[i]
    <3>1. \A i \in 1 .. n : x[i] = w[i]
      BY <2>2
    <3>2. n \in 0 .. n
      BY <1>1
    <3> HIDE DEF x, w, n
    <3> QED
      BY <1>1, <2>3, <2>4, <3>1, <3>2, SameSums
  <2> QED
    BY <1>0, <1>1, <1>3, <2>1, <2>3, <2>4, <2>5 DEF Limits, d
<1>5. CASE r \in D
  <2>1. PICK k \in 1 .. n : s[k] = r
    BY <1>1, <1>5 DEF Once
  <2>2. /\ Len(t) = n - 1
        /\ \A i \in 1 .. k - 1 : t[i] = s[i]
        /\ \A i \in k .. n - 1 : t[i] = s[i + 1]
    BY <1>1, <2>1, WithoutMember DEF t
  <2>3. \A i \in 1 .. n - 1 : t[i] \in D \ {r} /\ n - 1 \in Nat
    BY <1>1, <1>2, <2>2 DEF Once
  <2> DEFINE w == [i \in 1 .. n |-> Weight(c, i)]
             x == [i \in 1 .. n - 1 |-> Weight(d, i)]
  <2>4. PICK u : SumsOf(u, w, n) /\ \A i \in 0 .. n : BytesOf(c, i) = u[i]
    BY BytesFacts
  <2>5. PICK v : SumsOf(v, x, n - 1) /\ \A i \in 0 .. n - 1 : BytesOf(d, i) = v[i]
    <3>1. Len(d.lru) = n - 1
      BY <1>0, <2>2
    <3> QED
      BY <1>3, <3>1, BytesFacts
  <2>6. v[n - 1] + w[k] = u[n] /\ w[k] \in Nat
    <3>1. \A i \in 1 .. n : w[i] \in Nat
      BY <1>1 DEF CacheOK, Once, Weight
    <3>2. \A i \in 1 .. n - 1 : x[i] = c.blocks[t[i]].meta.n
      BY <1>0, <2>3 DEF Weight
    <3>3. \A i \in 1 .. k - 1 : x[i] = w[i]
      <4>1. \A i \in 1 .. k - 1 : i \in 1 .. n - 1 /\ i \in 1 .. n
        BY <1>1
      <4> QED
        BY <2>2, <3>2, <4>1 DEF Weight
    <3>4. \A i \in k .. n - 1 : x[i] = w[i + 1]
      <4>1. \A i \in k .. n - 1 : i \in 1 .. n - 1 /\ i + 1 \in 1 .. n
        BY <1>1
      <4> QED
        BY <2>2, <3>2, <4>1 DEF Weight
    <3> HIDE DEF x, w, n
    <3> QED
      BY <1>1, <2>4, <2>5, <3>1, <3>3, <3>4, DroppedSums
  <2>7. v[n - 1] \in Nat /\ u[n] \in Nat /\ n - 1 \in 0 .. n - 1 /\ n \in 0 .. n
    BY <1>1, <2>4, <2>5 DEF SumsOf
  <2>8. BytesOf(d, n - 1) <= BytesOf(c, n)
    <3> HIDE DEF w, x
    <3> QED
      BY <2>4, <2>5, <2>6, <2>7
  <2>9. BytesOf(d, n - 1) \in Nat /\ BytesOf(c, n) \in Nat
    BY <2>4, <2>5, <2>7
  <2>10. Limits(d)
    <3>1. max_bytes \in Nat /\ max_blocks \in Nat
      BY JitAssumption
    <3>2. n <= max_blocks /\ (max_bytes # 0 => BytesOf(c, n) <= max_bytes)
      BY DEF Limits
    <3>3. Len(d.lru) = n - 1
      BY <1>0, <2>2
    <3> QED
      BY <1>1, <2>8, <2>9, <3>1, <3>2, <3>3 DEF Limits
  <2> QED
    BY <1>3, <2>10 DEF d
<1> QED
  BY <1>4, <1>5

\* evict_if_needed leaves a prefix of the list, and it is within the limits.
LEMMA EvictOK ==
    ASSUME NEW c, CacheOK(c)
    PROVE  /\ CacheOK(EvictIfNeeded(c)) /\ Limits(EvictIfNeeded(c))
           /\ DOMAIN EvictIfNeeded(c).blocks \subseteq DOMAIN c.blocks
<1> DEFINE s == c.lru
           D == DOMAIN c.blocks
           n == Len(s)
           fits(i) == i <= max_blocks /\ (max_bytes = 0 \/ BytesOf(c, i) <= max_bytes)
           Top(i) == fits(i) /\ \A j \in i + 1 .. n : ~fits(j)
           T == {i \in 0 .. n : fits(i)}
           keep == CHOOSE i \in 0 .. n : Top(i)
           evicted == {s[i] : i \in keep + 1 .. n}
           d == EvictIfNeeded(c)
<1>1. Once(s, D) /\ n \in Nat /\ max_blocks \in Nat /\ max_bytes \in Nat
  BY JitAssumption DEF CacheOK, Once
<1> DEFINE w == [i \in 1 .. n |-> Weight(c, i)]
<1>2. PICK u : SumsOf(u, w, n) /\ \A i \in 0 .. n : BytesOf(c, i) = u[i]
  BY BytesFacts
<1>3. 0 \in T
  <2>1. BytesOf(c, 0) = 0 /\ 0 \in 0 .. n
    BY <1>1, <1>2 DEF SumsOf
  <2> QED
    BY <1>1, <2>1
<1>4. \E i \in 0 .. n : Top(i)
  <2>1. PICK i \in T : \A y \in T : y <= i
    <3>1. T \in SUBSET (0 .. n) /\ T # {}
      BY <1>3
    <3> HIDE DEF T, n
    <3> QED
      BY <1>1, <3>1, LargestNat
  <2>2. ASSUME NEW j \in i + 1 .. n
        PROVE  ~fits(j)
    <3>1. j \in 0 .. n /\ ~(j <= i)
      BY <1>1
    <3>2. j \notin T
      <4> HIDE DEF T
      <4> QED
        BY <2>1, <3>1
    <3> HIDE DEF fits
    <3> QED
      BY <3>1, <3>2
  <2> HIDE DEF fits
  <2> QED
    BY <2>1, <2>2
<1>5. keep \in 0 .. n /\ Top(keep)
  <2> HIDE DEF Top, n
  <2> QED
    BY <1>4
<1>6. d = [blocks |-> Restrict(c.blocks, D \ evicted), lru |-> SubSeq(s, 1, keep)]
  BY DEF EvictIfNeeded
<1> HIDE DEF Top, d
<1>7. PICK k \in Nat : k = keep
  BY <1>1, <1>5
<1> HIDE DEF keep
<1>8. k \in 0 .. n /\ fits(k)
  BY <1>5, <1>7 DEF Top
<1>9. /\ d.lru \in Seq(Rips) /\ Len(d.lru) = k
      /\ \A i \in 1 .. k : d.lru[i] = s[i] /\ i \in 1 .. n
  <2>1. d.lru = SubSeq(s, 1, k)
    BY <1>6, <1>7
  <2>2. s \in Seq(Rips) /\ k <= n /\ k \in Nat
    BY <1>1, <1>8 DEF Once
  <2>3. SubSeq(s, 1, k) \in Seq(Rips) /\ Len(SubSeq(s, 1, k)) = k
    BY <2>2, SubSeqProperties
  <2>4. \A i \in 1 .. k : SubSeq(s, 1, k)[i] = s[i] /\ i \in 1 .. n
    BY <2>2, SubSeqProperties
  <2> QED
    BY <2>1, <2>3, <2>4
<1>10. DOMAIN d.blocks = D \ evicted /\ \A x \in D \ evicted : d.blocks[x] = c.blocks[x]
  BY <1>6 DEF Restrict
<1>11. \A i \in 1 .. k : s[i] \in D \ evicted
  <2>1. ASSUME NEW i \in 1 .. k, s[i] \in evicted
        PROVE  FALSE
    <3>1. PICK j \in k + 1 .. n : s[j] = s[i]
      BY <1>7, <2>1
    <3>2. i \in 1 .. n /\ j \in 1 .. n /\ i # j
      BY <1>1, <1>8, <3>1
    <3> QED
      BY <1>1, <3>1, <3>2 DEF Once
  <2>2. \A i \in 1 .. k : s[i] \in D
    BY <1>1, <1>9 DEF Once
  <2> QED
    BY <2>1, <2>2
<1>12. ASSUME NEW x \in D \ evicted
       PROVE  \E i \in 1 .. k : s[i] = x
  <2>1. PICK i \in 1 .. n : s[i] = x
    BY <1>1 DEF Once
  <2>2. i \notin k + 1 .. n
    BY <1>7, <2>1
  <2>3. i \in 1 .. k
    BY <1>1, <1>8, <2>2
  <2> QED
    BY <2>1, <2>3
<1> HIDE DEF evicted
<1>13. Once(d.lru, D \ evicted)
  <2>1. D \ evicted \subseteq Rips
    BY <1>1 DEF Once
  <2>2. \A i, j \in 1 .. k : d.lru[i] = d.lru[j] => i = j
    BY <1>1, <1>9 DEF Once
  <2>3. \A i \in 1 .. k : d.lru[i] \in D \ evicted
    BY <1>9, <1>11
  <2>4. \A x \in D \ evicted : \E i \in 1 .. k : d.lru[i] = x
    BY <1>9, <1>12
  <2> QED
    BY <1>9, <2>1, <2>2, <2>3, <2>4 DEF Once
<1>14. CacheOK(d)
  BY <1>10, <1>13 DEF CacheOK
<1> DEFINE y == [i \in 1 .. k |-> Weight(d, i)]
<1>15. PICK v : SumsOf(v, y, k) /\ \A i \in 0 .. k : BytesOf(d, i) = v[i]
  BY <1>9, <1>14, BytesFacts
<1>16. BytesOf(d, k) = BytesOf(c, k)
  <2>1. \A i \in 1 .. k : y[i] = w[i]
    BY <1>9, <1>10, <1>11 DEF Weight
  <2>2. \A i \in 0 .. k : v[i] = u[i]
    <3> HIDE DEF y, w, n
    <3> QED
      BY <1>1, <1>2, <1>8, <1>15, <2>1, SameSums
  <2>3. k \in 0 .. k
    OBVIOUS
  <2> QED
    BY <1>2, <1>8, <1>15, <2>2, <2>3
<1>17. Limits(d)
  BY <1>8, <1>9, <1>16 DEF Limits
<1> QED
  BY <1>10, <1>14, <1>17 DEF d

LEMMA InsertOK ==
    ASSUME NEW c, CacheOK(c), NEW r \in Rips, NEW h, h.meta.n \in Nat
    PROVE  /\ CacheOK(Insert(c, r, h)) /\ Limits(Insert(c, r, h))
           /\ DOMAIN Insert(c, r, h).blocks \subseteq DOMAIN c.blocks \cup {r}
<1> DEFINE D == DOMAIN c.blocks
           q == Without(c.lru, r)
           E == D \ {r}
           e == [blocks |-> [x \in D \cup {r} |-> IF x = r THEN h ELSE c.blocks[x]],
                 lru |-> <<r>> \o q]
<1>1. Once(q, E) /\ r \notin E
  BY WithoutOnce DEF CacheOK
<1>2. Once(<<r>> \o q, E \cup {r})
  <2> HIDE DEF q, E
  <2> QED
    BY <1>1, FrontOnce
<1>3. E \cup {r} = D \cup {r}
  OBVIOUS
<1>4. e.lru = <<r>> \o q /\ DOMAIN e.blocks = D \cup {r}
      /\ \A x \in D \cup {r} : e.blocks[x].meta.n \in Nat
  BY DEF CacheOK
<1>5. Insert(c, r, h) = EvictIfNeeded(e)
  BY DEF Insert
<1> HIDE DEF e
<1>6. CacheOK(e)
  BY <1>2, <1>3, <1>4 DEF CacheOK
<1> QED
  BY <1>4, <1>5, <1>6, EvictOK

\* The list and the map agree and the limits hold.
CacheInv == CacheOK(Cache) /\ Limits(Cache)

LEMMA TouchCache ==
    ASSUME CacheInv, NEW r \in DOMAIN blocks, SetCache(Touch(Cache, r))
    PROVE  CacheInv' /\ DOMAIN blocks' = DOMAIN blocks
<1>1. Cache = [blocks |-> Cache.blocks, lru |-> Cache.lru] /\ r \in DOMAIN Cache.blocks
  BY DEF Cache
<1>2. CacheOK(Touch(Cache, r)) /\ Limits(Touch(Cache, r))
  BY <1>1, TouchOK DEF CacheInv
<1>3. Touch(Cache, r) = [blocks |-> blocks, lru |-> <<r>> \o Without(lru, r)]
  BY DEF Touch, Cache
<1>4. Cache' = Touch(Cache, r) /\ blocks' = blocks
  BY <1>3 DEF SetCache, Cache
<1> QED
  BY <1>2, <1>4 DEF CacheInv

LEMMA RemoveCache ==
    ASSUME CacheInv, NEW r, SetCache(Remove(Cache, r))
    PROVE  CacheInv' /\ DOMAIN blocks' = DOMAIN blocks \ {r}
<1>1. Cache = [blocks |-> Cache.blocks, lru |-> Cache.lru]
  BY DEF Cache
<1>2. CacheOK(Remove(Cache, r)) /\ Limits(Remove(Cache, r))
  BY <1>1, RemoveOK DEF CacheInv
<1>3. Cache' = Remove(Cache, r) /\ DOMAIN blocks' = DOMAIN blocks \ {r}
  BY DEF SetCache, Cache, Remove, Restrict
<1> QED
  BY <1>2, <1>3 DEF CacheInv

LEMMA InsertCache ==
    ASSUME CacheInv, NEW r \in Rips, NEW h, h.meta.n \in Nat, SetCache(Insert(Cache, r, h))
    PROVE  CacheInv' /\ DOMAIN blocks' \subseteq DOMAIN blocks \cup {r}
<1>1. /\ CacheOK(Insert(Cache, r, h)) /\ Limits(Insert(Cache, r, h))
      /\ DOMAIN Insert(Cache, r, h).blocks \subseteq DOMAIN Cache.blocks \cup {r}
  BY InsertOK DEF CacheInv
<1>2. Cache' = Insert(Cache, r, h)
  <2>1. PICK b, l : Insert(Cache, r, h) = [blocks |-> b, lru |-> l]
    BY DEF Insert, EvictIfNeeded
  <2> QED
    BY <2>1 DEF SetCache, Cache
<1>3. blocks' = Insert(Cache, r, h).blocks /\ Cache.blocks = blocks
  BY DEF SetCache, Cache
<1> QED
  BY <1>1, <1>2, <1>3 DEF CacheInv

LEMMA InstallCache ==
    ASSUME CacheInv, NEW r \in Rips, NEW h, h.meta.n \in Nat, InstallHandle(r, h)
    PROVE  CacheInv'
<1>1. CASE IsBlockValid(r, h.meta)
  <2>1. SetCache(Insert(Cache, r, h))
    BY <1>1 DEF InstallHandle, InstallOk
  <2> QED
    BY <2>1, InsertCache
<1>2. CASE ~IsBlockValid(r, h.meta)
  <2>1. InstallStale(r)
    BY <1>2 DEF InstallHandle
  <2>2. \/ r \in DOMAIN blocks /\ SetCache(Touch(Cache, r))
        \/ SetCache(Remove(Cache, r))
    BY <2>1 DEF InstallStale
  <2> QED
    BY <2>2, TouchCache, RemoveCache
<1> QED
  BY <1>1, <1>2

LEMMA EmptyOK ==
    ASSUME NEW c, c.blocks = <<>>, c.lru = <<>>
    PROVE  CacheOK(c) /\ Limits(c)
<1>1. DOMAIN <<>> = {} /\ <<>> \in Seq(Rips) /\ Len(<<>>) = 0
  OBVIOUS
<1>2. CacheOK(c)
  <2>1. Once(<<>>, {})
    BY <1>1 DEF Once
  <2> QED
    BY <1>1, <2>1 DEF CacheOK
<1>3. BytesOf(c, 0) = 0
  <2>1. PICK u : /\ SumsOf(u, [i \in 1 .. Len(c.lru) |-> Weight(c, i)], Len(c.lru))
                 /\ \A i \in 0 .. Len(c.lru) : BytesOf(c, i) = u[i]
    BY <1>2, BytesFacts
  <2>2. 0 \in 0 .. Len(c.lru)
    BY <1>1
  <2> QED
    BY <2>1, <2>2 DEF SumsOf
<1>4. Limits(c)
  BY <1>1, <1>3, JitAssumption DEF Limits
<1> QED
  BY <1>2, <1>4

LEMMA CacheInit == Init => CacheInv
<1> SUFFICES ASSUME Init
             PROVE  CacheInv
  OBVIOUS
<1>1. Cache.blocks = <<>> /\ Cache.lru = <<>>
  BY DEF Init, Cache
<1> QED
  BY <1>1, EmptyOK DEF CacheInv

LEMMA CacheStep == TypeOK /\ CacheInv /\ [Next]_vars => CacheInv'
<1> SUFFICES ASSUME TypeOK, CacheInv, [Next]_vars
             PROVE  CacheInv'
  OBVIOUS
<1>1. ASSUME UNCHANGED <<blocks, lru>>
      PROVE  CacheInv'
  BY <1>1 DEF CacheInv, CacheOK, Limits, Cache, BytesOf
<1>2. ASSUME NEW p \in Pages, GuestWrite(p)
      PROVE  CacheInv'
  BY <1>1, <1>2 DEF GuestWrite
<1>3. CASE Reset
  <2>1. Cache'.blocks = <<>> /\ Cache'.lru = <<>>
    BY <1>3 DEF Reset, Cache
  <2> DEFINE e == Cache'
  <2>2. e.blocks = <<>> /\ e.lru = <<>>
    BY <2>1
  <2> HIDE DEF e
  <2>3. CacheOK(e) /\ Limits(e)
    BY <2>2, EmptyOK
  <2> QED
    BY <2>3 DEF CacheInv, e
<1>4. ASSUME NEW r \in Rips, PrepareBlock(r)
      PROVE  CacheInv'
  <2>1. \/ r \in DOMAIN blocks /\ SetCache(Touch(Cache, r))
        \/ SetCache(Remove(Cache, r))
        \/ UNCHANGED <<blocks, lru>>
    BY <1>4 DEF PrepareBlock, PrepareHit, PrepareStale, PrepareMiss
  <2> QED
    BY <1>1, <2>1, TouchCache, RemoveCache
<1>5. ASSUME NEW r \in Rips, InvalidateBlock(r)
      PROVE  CacheInv'
  BY <1>5, RemoveCache DEF InvalidateBlock
<1>6. ASSUME NEW r \in Rips, NEW n \in 1 .. SnapSpan, InstallBlock(r, n)
      PROVE  CacheInv'
  <2> DEFINE h == [meta |-> SnapshotMeta(r, n),
                   code |-> [p \in Pages |-> IF p \in Span(r, n) THEN mem[p] ELSE 0]]
  <2>1. h.meta.n \in Nat
    BY JitAssumption DEF SnapshotMeta
  <2>2. InstallHandle(r, h)
    BY <1>6 DEF InstallBlock
  <2> HIDE DEF h
  <2> QED
    BY <2>1, <2>2, InstallCache
<1>7. ASSUME NEW j \in Jobs, JobStep(j)
      PROVE  CacheInv'
  <2>1. CASE Install(j)
    <3>1. job[j] \in Job
      BY <2>1 DEF Install, TypeOK
    <3>2. job[j].rip \in Rips /\ job[j].read \in 0 .. SnapSpan /\ job[j].meta \in Meta
      BY <3>1 DEF Job
    <3>3. PICK n \in 1 .. job[j].read :
             InstallHandle(job[j].rip, [meta |-> ShrinkMeta(job[j].meta, n), code |-> job[j].code])
      BY <2>1 DEF Install
    <3> DEFINE h == [meta |-> ShrinkMeta(job[j].meta, n), code |-> job[j].code]
    <3>4. h.meta.n \in Nat
      <4>1. n \in Nat
        BY <3>2, JitAssumption
      <4>2. ShrinkMeta(job[j].meta, n).n = n
        BY <3>2 DEF ShrinkMeta, Meta
      <4> QED
        BY <4>1, <4>2
    <3> HIDE DEF h
    <3>5. InstallHandle(job[j].rip, h)
      BY <3>3 DEF h
    <3> QED
      BY <3>2, <3>4, <3>5, InstallCache
  <2>2. CASE StartCompile(j) \/ ReadPage(j) \/ CompileError(j)
    BY <1>1, <2>2 DEF StartCompile, ReadPage, CompileError
  <2> QED
    BY <1>7, <2>1, <2>2 DEF JobStep
<1>8. CASE UNCHANGED vars
  BY <1>1, <1>8 DEF vars
<1> QED
  BY <1>2, <1>3, <1>4, <1>5, <1>6, <1>7, <1>8 DEF Next

\* The code cache keeps its block and byte limits, and its linked list holds
\* exactly the addresses of its map, each once, whatever is installed,
\* touched, invalidated and evicted in whatever order.
THEOREM CacheKeepsLimits == Spec => []CacheWithinLimits
<1>1. CacheInv => CacheWithinLimits
  <2> SUFFICES ASSUME CacheInv
               PROVE  CacheWithinLimits
    OBVIOUS
  <2>1. Once(lru, DOMAIN blocks) /\ Limits(Cache) /\ Cache.lru = lru
    BY DEF CacheInv, CacheOK, Cache
  <2>2. /\ Cardinality(DOMAIN blocks) = Len(lru)
        /\ {lru[i] : i \in DOMAIN lru} = DOMAIN blocks
    BY <2>1, OnceCounts
  <2> QED
    BY <2>1, <2>2 DEF CacheWithinLimits, Limits
<1> QED
  BY <1>1, JitTypeCorrect, CacheInit, CacheStep, PTL DEF Spec

-----------------------------------------------------------------------------
(* The hotness profile *)

Rec(c, s, q) == [count |-> c, recent |-> s, requested |-> q]

Dropped(c, r) == [x \in DOMAIN c \ {r} |-> c[x]]

Added(c, r, n) == [x \in DOMAIN c \cup {r} |-> IF x = r THEN n ELSE c[x]]

ProfileOK(c, s, q) ==
    /\ \A x \in DOMAIN c : c[x] \in Nat
    /\ Once(s, DOMAIN c)
    /\ Len(s) <= ProfileCapacity
    /\ q \subseteq DOMAIN c

\* P is a consistent profile that requests only addresses of X.
Sound(P, X) ==
    \E c, s, q : P = Rec(c, s, q) /\ ProfileOK(c, s, q) /\ q \subseteq X

\* The fields that the profile's operations set.
LEMMA FieldsOf ==
    ASSUME NEW c, NEW s, NEW q
    PROVE  Rec(c, s, q).count = c /\ Rec(c, s, q).recent = s /\ Rec(c, s, q).requested = q
  BY DEF Rec

LEMMA UsedFields ==
    ASSUME NEW c, NEW s, NEW q, NEW r
    PROVE  Used(Rec(c, s, q), r) = Rec(c, Append(Without(s, r), r), q)
  BY DEF Used, Rec

LEMMA ClearFields ==
    ASSUME NEW c, NEW s, NEW q, NEW r
    PROVE  ClearRequested(Rec(c, s, q), r) = Rec(c, s, q \ {r})
  BY DEF ClearRequested, Rec

LEMMA EvictFields ==
    ASSUME NEW c, NEW s, NEW q, NEW r
    PROVE  EvictEntry(Rec(c, s, q), r)
             = Rec(Dropped(c, r), Without(s, r), q \ {r})
  BY DEF EvictEntry, Rec, Restrict, Dropped

LEMMA AddFields ==
    ASSUME NEW c, NEW s, NEW q, NEW r, NEW n
    PROVE  AddEntry(Rec(c, s, q), r, n)
             = Rec(Added(c, r, n), Append(Without(s, r), r), q)
<1>1. [Rec(c, s, q) EXCEPT !.count = [x \in DOMAIN @ \cup {r} |-> IF x = r THEN n ELSE @[x]]]
        = Rec(Added(c, r, n), s, q)
  BY DEF Rec, Added
<1>2. AddEntry(Rec(c, s, q), r, n) = Used(Rec(Added(c, r, n), s, q), r)
  BY <1>1 DEF AddEntry
<1> QED
  BY <1>2, UsedFields

LEMMA UsedOK ==
    ASSUME NEW c, NEW s, NEW q, ProfileOK(c, s, q), NEW r \in DOMAIN c
    PROVE  ProfileOK(c, Append(Without(s, r), r), q)
<1> DEFINE D == DOMAIN c
           E == D \ {r}
           t == Without(s, r)
<1>1. Once(s, D) /\ r \in Rips /\ Len(s) \in Nat
  BY DEF ProfileOK, Once
<1>2. Once(t, E) /\ r \notin E
  BY <1>1, WithoutOnce
<1>3. PICK k \in 1 .. Len(s) : s[k] = r
  BY <1>1 DEF Once
<1>4. Len(t) = Len(s) - 1
  BY <1>1, <1>3, WithoutMember
<1>5. E \cup {r} = D
  OBVIOUS
<1> HIDE DEF t, E
<1>6. Once(Append(t, r), D) /\ Len(Append(t, r)) = Len(t) + 1
  BY <1>1, <1>2, <1>5, BackOnce
<1>7. Len(Append(t, r)) = Len(s)
  BY <1>1, <1>4, <1>6
<1> QED
  BY <1>6, <1>7 DEF ProfileOK, t

LEMMA EvictEntryOK ==
    ASSUME NEW c, NEW s, NEW q, ProfileOK(c, s, q), NEW v \in DOMAIN c
    PROVE  /\ ProfileOK(Dropped(c, v), Without(s, v), q \ {v})
           /\ Len(Without(s, v)) < ProfileCapacity
<1> DEFINE D == DOMAIN c
           E == D \ {v}
           t == Without(s, v)
           b == Dropped(c, v)
<1>1. Once(s, D) /\ Len(s) \in Nat /\ Len(s) <= ProfileCapacity /\ ProfileCapacity \in Nat
  <2>1. Once(s, D) /\ Len(s) <= ProfileCapacity
    BY DEF ProfileOK
  <2>2. Len(s) \in Nat
    BY <2>1 DEF Once
  <2> QED
    BY <2>1, <2>2, JitAssumption
<1>2. Once(t, E)
  BY <1>1, WithoutOnce
<1>3. PICK k \in 1 .. Len(s) : s[k] = v
  BY <1>1 DEF Once
<1>4. Len(t) = Len(s) - 1
  BY <1>1, <1>3, WithoutMember
<1>5. Len(t) < ProfileCapacity
  BY <1>1, <1>4
<1>6. DOMAIN b = E /\ \A x \in E : b[x] \in Nat
  BY DEF ProfileOK, Dropped
<1>7. q \ {v} \subseteq E
  BY DEF ProfileOK
<1>8. Len(t) <= ProfileCapacity
  BY <1>1, <1>4
<1> HIDE DEF b, t, E
<1>9. ProfileOK(b, t, q \ {v})
  BY <1>2, <1>6, <1>7, <1>8 DEF ProfileOK
<1> QED
  BY <1>5, <1>9 DEF b, t, E

LEMMA AddEntryOK ==
    ASSUME NEW c, NEW s, NEW q, ProfileOK(c, s, q), Len(s) < ProfileCapacity,
           NEW r \in Rips, r \notin DOMAIN c, NEW n \in Nat
    PROVE  ProfileOK(Added(c, r, n), Append(Without(s, r), r), q)
<1> DEFINE D == DOMAIN c
           E == D \cup {r}
           b == Added(c, r, n)
<1>1. Once(s, D) /\ Len(s) \in Nat /\ ProfileCapacity \in Nat
  BY JitAssumption DEF ProfileOK, Once
<1>2. Without(s, r) = s
  BY <1>1, WithoutOther
<1>3. Once(Append(s, r), E) /\ Len(Append(s, r)) = Len(s) + 1
  BY <1>1, BackOnce
<1>4. DOMAIN b = E /\ \A x \in E : b[x] \in Nat
  BY DEF ProfileOK, Added
<1>5. q \subseteq E
  BY DEF ProfileOK
<1>6. Len(Append(s, r)) <= ProfileCapacity
  BY <1>1, <1>3
<1> HIDE DEF b, E
<1>7. ProfileOK(b, Append(s, r), q)
  BY <1>3, <1>4, <1>5, <1>6 DEF ProfileOK
<1> QED
  BY <1>2, <1>7 DEF b, E

\* pick_victim finds a victim among the candidates.
LEMMA VictimOK ==
    ASSUME NEW c, NEW s, NEW q, ProfileOK(c, s, q),
           NEW candidates, candidates # {}, candidates \subseteq DOMAIN c
    PROVE  PickVictim(Rec(c, s, q), candidates) \in candidates
<1> DEFINE n == Len(s)
           A == {c[x] : x \in candidates}
           Best(i) == /\ s[i] \in candidates
                      /\ \A j \in DOMAIN s : s[j] \in candidates =>
                           \/ c[s[i]] < c[s[j]]
                           \/ c[s[i]] = c[s[j]] /\ i <= j
<1>1. Once(s, DOMAIN c) /\ n \in Nat /\ DOMAIN s = 1 .. n
  BY DEF ProfileOK, Once
<1>2. A \in SUBSET Nat /\ A # {}
  BY DEF ProfileOK
<1>3. PICK m \in A : \A y \in A : m <= y
  <2> HIDE DEF A
  <2> QED
    BY <1>2, SmallestNat
<1> DEFINE B == {i \in 1 .. n : s[i] \in candidates /\ c[s[i]] = m}
<1>4. B \in SUBSET Nat /\ B # {}
  <2>1. PICK x \in candidates : c[x] = m
    BY <1>3
  <2>2. PICK i \in 1 .. n : s[i] = x
    BY <1>1, <2>1 DEF Once
  <2> QED
    BY <1>1, <2>1, <2>2
<1>5. PICK i \in B : \A y \in B : i <= y
  <2> HIDE DEF B
  <2> QED
    BY <1>4, SmallestNat
<1>6. ASSUME NEW j \in 1 .. n, s[j] \in candidates
      PROVE  c[s[i]] < c[s[j]] \/ (c[s[i]] = c[s[j]] /\ i <= j)
  <2>1. c[s[j]] \in Nat /\ c[s[i]] = m /\ m \in Nat /\ m <= c[s[j]]
    BY <1>2, <1>3, <1>5, <1>6 DEF ProfileOK
  <2>2. CASE c[s[j]] = m
    <3>1. j \in B
      BY <1>6, <2>2
    <3> QED
      BY <1>5, <2>1, <2>2, <3>1
  <2> QED
    BY <2>1, <2>2
<1>7. i \in DOMAIN s /\ Best(i)
  BY <1>1, <1>5, <1>6
<1> DEFINE k == CHOOSE a \in DOMAIN s : Best(a)
<1>8. PickVictim(Rec(c, s, q), candidates) = s[k]
  BY DEF PickVictim, Rec
<1>9. k \in DOMAIN s /\ Best(k)
  <2> HIDE DEF Best
  <2> QED
    BY <1>7
<1> QED
  BY <1>8, <1>9

\* A full profile has an entry to evict, one that is not full has room.
LEMMA FullFacts ==
    ASSUME NEW c, NEW s, NEW q, ProfileOK(c, s, q)
    PROVE  /\ Full(Rec(c, s, q)) => DOMAIN c # {}
           /\ ~Full(Rec(c, s, q)) => Len(s) < ProfileCapacity
           /\ Idle(Rec(c, s, q)) \subseteq DOMAIN c
           /\ \A r : Tracks(Rec(c, s, q), r) <=> r \in DOMAIN c
<1>1. Cardinality(DOMAIN c) = Len(s) /\ Len(s) \in Nat
  BY OnceCounts DEF ProfileOK
<1>2. ProfileCapacity \in Nat /\ ProfileCapacity # 0
  BY JitAssumption
<1>3. Full(Rec(c, s, q)) <=> Len(s) >= ProfileCapacity
  BY <1>1 DEF Full, Rec
<1>4. ASSUME DOMAIN c = {}
      PROVE  Len(s) = 0
  BY <1>1, <1>4 DEF ProfileOK, Once
<1>5. Full(Rec(c, s, q)) => DOMAIN c # {}
  BY <1>1, <1>2, <1>3, <1>4
<1>6. ~Full(Rec(c, s, q)) => Len(s) < ProfileCapacity
  BY <1>1, <1>2, <1>3
<1>7. Idle(Rec(c, s, q)) \subseteq DOMAIN c /\ \A r : Tracks(Rec(c, s, q), r) <=> r \in DOMAIN c
  BY DEF Idle, Tracks, Rec
<1> QED
  BY <1>5, <1>6, <1>7

LEMMA ClearSound ==
    ASSUME NEW P, NEW X, Sound(P, X), NEW r
    PROVE  Sound(ClearRequested(P, r), X \ {r})
<1>1. PICK c, s, q : P = Rec(c, s, q) /\ ProfileOK(c, s, q) /\ q \subseteq X
  BY DEF Sound
<1>2. ClearRequested(P, r) = Rec(c, s, q \ {r})
  BY <1>1, ClearFields
<1>3. ProfileOK(c, s, q \ {r}) /\ q \ {r} \subseteq X \ {r}
  BY <1>1 DEF ProfileOK
<1> QED
  BY <1>2, <1>3 DEF Sound

\* Evicting a victim among the candidates leaves room for r.
LEMMA VictimSound ==
    ASSUME NEW c, NEW s, NEW q, ProfileOK(c, s, q), NEW r, r \notin DOMAIN c,
           NEW candidates, candidates # {}, candidates \subseteq DOMAIN c
    PROVE  \E a, b, e : /\ EvictEntry(Rec(c, s, q), PickVictim(Rec(c, s, q), candidates))
                             = Rec(a, b, e)
                        /\ ProfileOK(a, b, e) /\ Len(b) < ProfileCapacity
                        /\ r \notin DOMAIN a /\ e \subseteq q
<1> DEFINE v == PickVictim(Rec(c, s, q), candidates)
           a == Dropped(c, v)
<1>1. v \in DOMAIN c
  BY VictimOK
<1> HIDE DEF v
<1>2. EvictEntry(Rec(c, s, q), v) = Rec(a, Without(s, v), q \ {v})
  BY EvictFields
<1>3. ProfileOK(a, Without(s, v), q \ {v}) /\ Len(Without(s, v)) < ProfileCapacity
  BY <1>1, EvictEntryOK
<1>4. r \notin DOMAIN a /\ q \ {v} \subseteq q
  BY DEF Dropped
<1> HIDE DEF a
<1> QED
  BY <1>2, <1>3, <1>4 DEF v

LEMMA AddSound ==
    ASSUME NEW c, NEW s, NEW q, ProfileOK(c, s, q), Len(s) < ProfileCapacity,
           NEW r \in Rips, r \notin DOMAIN c, NEW n \in Nat, NEW X, q \subseteq X
    PROVE  /\ Sound(AddEntry(Rec(c, s, q), r, n), X)
           /\ r \in DOMAIN AddEntry(Rec(c, s, q), r, n).count
<1> DEFINE b == Added(c, r, n)
           t == Append(Without(s, r), r)
<1>1. AddEntry(Rec(c, s, q), r, n) = Rec(b, t, q)
  BY AddFields
<1>2. ProfileOK(b, t, q)
  BY AddEntryOK
<1>3. r \in DOMAIN b
  BY DEF Added
<1> HIDE DEF b, t
<1>4. Rec(b, t, q).count = b
  BY FieldsOf
<1> QED
  BY <1>1, <1>2, <1>3, <1>4 DEF Sound

LEMMA UsedSound ==
    ASSUME NEW c, NEW s, NEW q, ProfileOK(c, s, q), NEW r \in DOMAIN c, NEW X, q \subseteq X
    PROVE  /\ Sound(Used(Rec(c, s, q), r), X)
           /\ r \in DOMAIN Used(Rec(c, s, q), r).count
<1> DEFINE t == Append(Without(s, r), r)
<1>1. Used(Rec(c, s, q), r) = Rec(c, t, q)
  BY UsedFields
<1>2. ProfileOK(c, t, q)
  BY UsedOK
<1> HIDE DEF t
<1>3. Rec(c, t, q).count = c
  BY FieldsOf
<1> QED
  BY <1>1, <1>2, <1>3 DEF Sound

LEMMA HitSound ==
    ASSUME NEW P, NEW X, Sound(P, X), NEW r \in Rips
    PROVE  Sound(RecordHit(P, r), X)
<1>1. PICK c, s, q : P = Rec(c, s, q) /\ ProfileOK(c, s, q) /\ q \subseteq X
  BY DEF Sound
<1>2. /\ Full(P) => DOMAIN c # {}
      /\ ~Full(P) => Len(s) < ProfileCapacity
      /\ Idle(P) \subseteq DOMAIN c
      /\ Tracks(P, r) <=> r \in DOMAIN c
  BY <1>1, FullFacts
<1>3. CASE Tracks(P, r)
  <2> DEFINE b == [c EXCEPT ![r] = MinOf(@ + 1, MaxCount)]
  <2>1. [P EXCEPT !.count[r] = MinOf(@ + 1, MaxCount)] = Rec(b, s, q)
    BY <1>1 DEF Rec
  <2>2. RecordHit(P, r) = Used(Rec(b, s, q), r)
    BY <1>3, <2>1 DEF RecordHit
  <2>3. MinOf(c[r] + 1, MaxCount) \in Nat
    BY <1>1, <1>2, <1>3, JitAssumption DEF ProfileOK, MinOf
  <2>4. DOMAIN b = DOMAIN c /\ \A x \in DOMAIN c : b[x] \in Nat
    BY <1>1, <1>2, <1>3, <2>3 DEF ProfileOK
  <2> HIDE DEF b
  <2>5. ProfileOK(b, s, q) /\ r \in DOMAIN b
    BY <1>1, <1>2, <1>3, <2>4 DEF ProfileOK
  <2> QED
    BY <1>1, <2>2, <2>5, UsedSound
<1>4. CASE ~Tracks(P, r) /\ ~Full(P)
  <2>1. RecordHit(P, r) = AddEntry(Rec(c, s, q), r, 1)
    BY <1>1, <1>4 DEF RecordHit
  <2> QED
    BY <1>1, <1>2, <1>4, <2>1, AddSound
<1>5. CASE ~Tracks(P, r) /\ Full(P) /\ Idle(P) # {}
  <2>1. PICK a, b, e : /\ EvictEntry(P, PickVictim(P, Idle(P))) = Rec(a, b, e)
                       /\ ProfileOK(a, b, e) /\ Len(b) < ProfileCapacity
                       /\ r \notin DOMAIN a /\ e \subseteq q
    BY <1>1, <1>2, <1>5, VictimSound
  <2>2. RecordHit(P, r) = AddEntry(Rec(a, b, e), r, 1) /\ e \subseteq X
    BY <1>1, <1>5, <2>1 DEF RecordHit
  <2> QED
    BY <2>1, <2>2, AddSound
<1>6. CASE ~Tracks(P, r) /\ Full(P) /\ Idle(P) = {}
  BY <1>6 DEF RecordHit
<1> QED
  BY <1>3, <1>4, <1>5, <1>6

\* A profile that tracks r may request it.
LEMMA RequestSound ==
    ASSUME NEW P, NEW X, Sound(P, X), NEW r, r \in DOMAIN P.count
    PROVE  Sound([P EXCEPT !.requested = @ \cup {r}], X \cup {r})
<1>1. PICK c, s, q : P = Rec(c, s, q) /\ ProfileOK(c, s, q) /\ q \subseteq X
  BY DEF Sound
<1>2. [P EXCEPT !.requested = @ \cup {r}] = Rec(c, s, q \cup {r}) /\ P.count = c
  BY <1>1 DEF Rec
<1>3. ProfileOK(c, s, q \cup {r}) /\ q \cup {r} \subseteq X \cup {r}
  BY <1>1, <1>2 DEF ProfileOK
<1> QED
  BY <1>2, <1>3 DEF Sound

LEMMA MarkSound ==
    ASSUME NEW P, NEW X, Sound(P, X), NEW r \in Rips
    PROVE  Sound(MarkRequested(P, r), X \cup {r})
<1>1. PICK c, s, q : P = Rec(c, s, q) /\ ProfileOK(c, s, q) /\ q \subseteq X
  BY DEF Sound
<1>2. /\ Full(P) => DOMAIN c # {}
      /\ ~Full(P) => Len(s) < ProfileCapacity
      /\ Idle(P) \subseteq DOMAIN c
      /\ Tracks(P, r) <=> r \in DOMAIN c
      /\ P.count = c
  BY <1>1, FullFacts, FieldsOf
<1> DEFINE n == IF hot_threshold > 1 THEN hot_threshold ELSE 1
           candidates == IF Idle(P) # {} THEN Idle(P) ELSE DOMAIN P.count
           room == IF ~Full(P) THEN P ELSE EvictEntry(P, PickVictim(P, candidates))
           Q == IF Tracks(P, r) THEN Used(P, r) ELSE AddEntry(room, r, n)
<1>3. n \in Nat
  BY JitAssumption
<1>4. MarkRequested(P, r) = [Q EXCEPT !.requested = @ \cup {r}]
  BY DEF MarkRequested
<1> HIDE DEF n
<1>5. Sound(Q, X) /\ r \in DOMAIN Q.count
  <2>1. CASE Tracks(P, r)
    BY <1>1, <1>2, <2>1, UsedSound
  <2>2. CASE ~Tracks(P, r) /\ ~Full(P)
    BY <1>1, <1>2, <1>3, <2>2, AddSound
  <2>3. CASE ~Tracks(P, r) /\ Full(P)
    <3>1. candidates # {} /\ candidates \subseteq DOMAIN c
      BY <1>2, <2>3
    <3> HIDE DEF candidates
    <3>2. PICK a, b, e : /\ EvictEntry(P, PickVictim(P, candidates)) = Rec(a, b, e)
                         /\ ProfileOK(a, b, e) /\ Len(b) < ProfileCapacity
                         /\ r \notin DOMAIN a /\ e \subseteq q
      BY <1>1, <1>2, <2>3, <3>1, VictimSound
    <3>3. Q = AddEntry(Rec(a, b, e), r, n) /\ e \subseteq X
      BY <1>1, <2>3, <3>2
    <3> HIDE DEF Q
    <3> QED
      BY <1>3, <3>2, <3>3, AddSound
  <2> QED
    BY <2>1, <2>2, <2>3
<1> HIDE DEF Q
<1> QED
  BY <1>4, <1>5, RequestSound

LEMMA SoundWider ==
    ASSUME NEW P, NEW X, NEW Y, Sound(P, X), X \subseteq Y
    PROVE  Sound(P, Y)
  BY DEF Sound

LEMMA DropSound ==
    ASSUME NEW P, NEW X, NEW S, Sound(P, X)
    PROVE  Sound([P EXCEPT !.requested = @ \ S], X \ S)
<1>1. PICK c, s, q : P = Rec(c, s, q) /\ ProfileOK(c, s, q) /\ q \subseteq X
  BY DEF Sound
<1>2. [P EXCEPT !.requested = @ \ S] = Rec(c, s, q \ S)
  BY <1>1 DEF Rec
<1>3. ProfileOK(c, s, q \ S) /\ q \ S \subseteq X \ S
  BY <1>1 DEF ProfileOK
<1> QED
  BY <1>2, <1>3 DEF Sound

LEMMA EmptySound == Sound(EmptyProfile, {})
<1>1. EmptyProfile = Rec(<<>>, <<>>, {})
  BY DEF EmptyProfile, Rec
<1>2. DOMAIN <<>> = {} /\ <<>> \in Seq(Rips) /\ Len(<<>>) = 0
  OBVIOUS
<1>3. ProfileOK(<<>>, <<>>, {})
  BY <1>2, JitAssumption DEF ProfileOK, Once
<1> QED
  BY <1>1, <1>3 DEF Sound

\* prepare_block on a block that is stale or missing.
LEMMA StaleSound ==
    ASSUME NEW P, NEW X, Sound(P, X), NEW r \in Rips
    PROVE  Sound(RecordHit(MarkRequested(ClearRequested(P, r), r), r), X \cup {r})
<1>1. Sound(ClearRequested(P, r), X)
  <2>1. Sound(ClearRequested(P, r), X \ {r})
    BY ClearSound
  <2> QED
    BY <2>1, SoundWider
<1>2. Sound(MarkRequested(ClearRequested(P, r), r), X \cup {r})
  BY <1>1, MarkSound
<1> QED
  BY <1>2, HitSound

LEMMA MissSound ==
    ASSUME NEW X, Sound(profile, X), NEW r \in Rips, PrepareMiss(r)
    PROVE  \/ Sound(profile', X) /\ UNCHANGED <<queue, rejected>>
           \/ Sound(profile', X \cup {r}) /\ Request(r)
<1> DEFINE P == RecordHit(profile, r)
<1>1. Sound(P, X)
  BY HitSound
<1>2. CASE DueToHotness(P, r)
  <2>1. /\ profile' = [P EXCEPT !.requested = @ \cup {r}]
        /\ Request(r)
    BY <1>2 DEF PrepareMiss
  <2>2. r \in DOMAIN P.count
    BY <1>2 DEF DueToHotness, Tracks
  <2> HIDE DEF P
  <2> QED
    BY <1>1, <2>1, <2>2, RequestSound
<1>3. CASE ~DueToHotness(P, r)
  BY <1>1, <1>3 DEF PrepareMiss
<1> QED
  BY <1>2, <1>3

\* install_handle: a valid block takes the requests of what it evicts along, a
\* stale one for an address is ignored in favour of the cached block, or puts
\* its address back into the queue.
LEMMA InstallSound ==
    ASSUME NEW X, Sound(profile, X), NEW r \in Rips, NEW h, InstallHandle(r, h)
    PROVE  \/ /\ UNCHANGED <<queue, rejected>>
              /\ Sound(profile', X \ ((DOMAIN blocks \cup {r}) \ DOMAIN blocks'))
           \/ /\ UNCHANGED <<queue, rejected>> /\ r \in DOMAIN blocks /\ DOMAIN blocks' = DOMAIN blocks
              /\ Sound(profile', X)
           \/ /\ Request(r) /\ DOMAIN blocks' = DOMAIN blocks \ {r}
              /\ Sound(profile', X \cup {r})
<1>1. CASE IsBlockValid(r, h.meta)
  <2> DEFINE evicted == (DOMAIN blocks \cup {r}) \ DOMAIN Insert(Cache, r, h).blocks
  <2>1. /\ UNCHANGED <<queue, rejected>> /\ blocks' = Insert(Cache, r, h).blocks
        /\ profile' = [profile EXCEPT !.requested = @ \ evicted]
    BY <1>1 DEF InstallHandle, InstallOk, SetCache
  <2>2. Sound(profile', X \ evicted)
    <3> HIDE DEF evicted
    <3> QED
      BY <2>1, DropSound
  <2> QED
    BY <2>1, <2>2
<1>2. CASE ~IsBlockValid(r, h.meta) /\ r \in DOMAIN blocks /\ IsBlockValid(r, blocks[r].meta)
  <2>1. SetCache(Touch(Cache, r)) /\ UNCHANGED <<profile, queue, rejected>>
    BY <1>2 DEF InstallHandle, InstallStale
  <2> QED
    BY <1>2, <2>1, TouchKeeps
<1>3. CASE ~IsBlockValid(r, h.meta) /\ ~(r \in DOMAIN blocks /\ IsBlockValid(r, blocks[r].meta))
  <2> DEFINE P == IF r \in DOMAIN blocks THEN ClearRequested(profile, r) ELSE profile
  <2>1. /\ SetCache(Remove(Cache, r)) /\ Request(r)
        /\ profile' = MarkRequested(P, r)
    BY <1>3 DEF InstallHandle, InstallStale
  <2>2. DOMAIN blocks' = DOMAIN blocks \ {r}
    BY <2>1 DEF SetCache, Cache, Remove, Restrict
  <2>3. Sound(P, X)
    <3>1. Sound(ClearRequested(profile, r), X \ {r})
      BY ClearSound
    <3> QED
      BY <3>1, SoundWider
  <2>4. Sound(profile', X \cup {r})
    <3> HIDE DEF P
    <3> QED
      BY <2>1, <2>3, MarkSound
  <2> QED
    BY <2>1, <2>2, <2>4
<1> QED
  BY <1>1, <1>2, <1>3

LEMMA ProfileStep == TypeOK /\ Sound(profile, Rips) /\ [Next]_vars => Sound(profile, Rips)'
<1> SUFFICES ASSUME TypeOK, Sound(profile, Rips), [Next]_vars
             PROVE  Sound(profile', Rips)
  BY DEF Sound, ProfileOK, Once
<1>1. ASSUME NEW r \in Rips, NEW h, InstallHandle(r, h)
      PROVE  Sound(profile', Rips)
  <2>1. PICK Y \in SUBSET Rips : Sound(profile', Y)
    <3>1. \A S : Rips \ S \in SUBSET Rips
      OBVIOUS
    <3>2. Rips \cup {r} = Rips
      OBVIOUS
    <3> QED
      BY <1>1, <3>1, <3>2, InstallSound
  <2> QED
    BY <2>1, SoundWider
<1>2. ASSUME NEW r \in Rips, PrepareBlock(r)
      PROVE  Sound(profile', Rips)
  <2>1. Rips \cup {r} = Rips
    OBVIOUS
  <2>2. CASE PrepareHit(r)
    BY <2>2, HitSound DEF PrepareHit
  <2>3. CASE PrepareStale(r)
    <3>1. Sound(profile', Rips \cup {r})
      BY <2>3, StaleSound DEF PrepareStale
    <3> QED
      BY <2>1, <3>1
  <2>4. CASE PrepareMiss(r)
    BY <2>1, <2>4, MissSound
  <2> QED
    BY <1>2, <2>2, <2>3, <2>4 DEF PrepareBlock
<1>3. ASSUME NEW r \in Rips, InvalidateBlock(r)
      PROVE  Sound(profile', Rips)
  <2>1. Sound(profile', Rips \ {r})
    BY <1>3, ClearSound DEF InvalidateBlock
  <2> QED
    BY <2>1, SoundWider
<1>4. ASSUME NEW r \in Rips, NEW n \in 1 .. SnapSpan, InstallBlock(r, n)
      PROVE  Sound(profile', Rips)
  BY <1>1, <1>4 DEF InstallBlock
<1>5. CASE Reset
  <2>1. profile' = EmptyProfile
    BY <1>5 DEF Reset
  <2> QED
    BY <2>1, EmptySound, SoundWider
<1>6. ASSUME NEW j \in Jobs, JobStep(j)
      PROVE  Sound(profile', Rips)
  <2>1. CASE Install(j)
    <3>1. job[j].rip \in Rips
      BY <2>1 DEF Install, TypeOK, Job
    <3>2. PICK h : InstallHandle(job[j].rip, h)
      BY <2>1 DEF Install
    <3> QED
      BY <1>1, <3>1, <3>2
  <2>2. CASE StartCompile(j) \/ ReadPage(j) \/ CompileError(j)
    BY <2>2 DEF StartCompile, ReadPage, CompileError
  <2> QED
    BY <1>6, <2>1, <2>2 DEF JobStep
<1>7. ASSUME UNCHANGED profile
      PROVE  Sound(profile', Rips)
  BY <1>7
<1> QED
  BY <1>2, <1>3, <1>4, <1>5, <1>6, <1>7 DEF Next, GuestWrite, vars

\* The hotness profile keeps its capacity, every tracked address has one
\* counter and one place in the order of use, and a requested address is
\* tracked: evictions that prefer idle entries, evictions of requested ones
\* and the clearing of requests leave no orphan behind.
THEOREM ProfileKeepsCapacity == Spec => []ProfileConsistent
<1>1. Init => Sound(profile, Rips)
  <2> SUFFICES ASSUME Init
               PROVE  Sound(profile, Rips)
    OBVIOUS
  <2>1. profile = EmptyProfile
    BY DEF Init
  <2> QED
    BY <2>1, EmptySound, SoundWider
<1>2. Sound(profile, Rips) => ProfileConsistent
  <2> SUFFICES ASSUME Sound(profile, Rips)
               PROVE  ProfileConsistent
    OBVIOUS
  <2>1. PICK c, s, q : profile = Rec(c, s, q) /\ ProfileOK(c, s, q)
    BY DEF Sound
  <2>2. profile.count = c /\ profile.recent = s /\ profile.requested = q
    BY <2>1, FieldsOf
  <2>3. Cardinality(DOMAIN c) = Len(s) /\ {s[i] : i \in DOMAIN s} = DOMAIN c
    BY <2>1, OnceCounts DEF ProfileOK
  <2> QED
    BY <2>1, <2>2, <2>3 DEF ProfileConsistent, ProfileOK
<1> QED
  BY <1>1, <1>2, JitTypeCorrect, ProfileStep, PTL DEF Spec

-----------------------------------------------------------------------------
(* Requests *)

Queued == {queue[i] : i \in DOMAIN queue}

\* Where a requested address may be: the last of them is where requests end
\* that nobody works on any more.
Places == Queued \cup Compiling \cup DOMAIN blocks \cup rejected

LEMMA RequestQueued ==
    ASSUME TypeOK, NEW r \in Rips, Request(r)
    PROVE  Queued \cup {r} \subseteq Queued' /\ rejected \subseteq rejected' \cup {r}
<1>0. rejected \subseteq rejected' \cup {r}
  BY DEF Request
<1>1. queue \in Seq(Rips)
  BY DEF TypeOK
<1>2. CASE \E i \in DOMAIN queue : queue[i] = r
  <2>1. queue' = queue
    BY <1>2 DEF Request, RequestCompile
  <2> QED
    BY <1>0, <1>2, <2>1 DEF Queued
<1>3. CASE ~ \E i \in DOMAIN queue : queue[i] = r
  <2>1. queue' = Append(queue, r)
    BY <1>3 DEF Request, RequestCompile
  <2>2. PICK n \in Nat : n = Len(queue)
    BY <1>1
  <2>3. DOMAIN queue = 1 .. n /\ DOMAIN queue' = 1 .. n + 1 /\ queue'[n + 1] = r
        /\ \A i \in 1 .. n : queue'[i] = queue[i]
    BY <1>1, <2>1, <2>2
  <2>4. n + 1 \in DOMAIN queue' /\ \A i \in 1 .. n : i \in DOMAIN queue'
    BY <2>3
  <2> HIDE DEF RequestCompile
  <2>5. ASSUME NEW x \in Queued \cup {r}
        PROVE  x \in Queued'
    BY <2>3, <2>4 DEF Queued
  <2> QED
    BY <1>0, <2>5
<1> QED
  BY <1>2, <1>3

\* A step in which nobody leaves the queue, no job ends, and the cache keeps
\* its addresses except for those that the profile stops requesting.
LEMMA PlacesKept ==
    ASSUME NEW X, Sound(profile', X), X \subseteq Places'
    PROVE  Sound(profile', Places')
  BY SoundWider

LEMMA RequestsStep ==
    ASSUME TypeOK, Sound(profile, Places), [Next]_vars
    PROVE  Sound(profile', Places')
<1>Q. PICK Q : Q = Queued
  OBVIOUS
<1>C. PICK C : C = Compiling
  OBVIOUS
<1>B. PICK B : B = DOMAIN blocks
  OBVIOUS
<1>R. PICK R : R = rejected
  OBVIOUS
<1>0. Sound(profile, Q \cup C \cup B \cup R)
  BY <1>Q, <1>C, <1>B, <1>R DEF Places
<1>1. UNCHANGED job => Compiling' = C
  BY <1>C DEF Compiling
<1>2. UNCHANGED <<queue, rejected>> => Queued' = Q /\ rejected' = R
  BY <1>Q, <1>R DEF Queued
<1>3. ASSUME NEW r \in Rips, NEW D, Sound(profile, Q \cup D \cup B \cup R),
             C \subseteq D, D \subseteq Compiling' \cup {r},
             NEW h, InstallHandle(r, h)
      PROVE  Sound(profile', Places')
  <2> DEFINE X == Q \cup D \cup B \cup R
             E == (DOMAIN blocks \cup {r}) \ DOMAIN blocks'
  <2>1. \/ UNCHANGED <<queue, rejected>> /\ Sound(profile', X \ E)
        \/ /\ UNCHANGED <<queue, rejected>> /\ r \in DOMAIN blocks /\ DOMAIN blocks' = DOMAIN blocks
           /\ Sound(profile', X)
        \/ /\ Request(r) /\ DOMAIN blocks' = DOMAIN blocks \ {r}
           /\ Sound(profile', X \cup {r})
    BY <1>3, InstallSound
  <2>2. CASE UNCHANGED <<queue, rejected>> /\ Sound(profile', X \ E)
    <3>1. X \ E \subseteq Places'
      BY <1>B, <1>2, <1>3, <2>2 DEF Places
    <3> HIDE DEF X, E
    <3> QED
      BY <2>2, <3>1, PlacesKept
  <2>3. CASE /\ UNCHANGED <<queue, rejected>> /\ r \in DOMAIN blocks /\ DOMAIN blocks' = DOMAIN blocks
             /\ Sound(profile', X)
    <3>1. X \subseteq Places'
      BY <1>B, <1>2, <1>3, <2>3 DEF Places
    <3> HIDE DEF X, E
    <3> QED
      BY <2>3, <3>1, PlacesKept
  <2>4. CASE /\ Request(r) /\ DOMAIN blocks' = DOMAIN blocks \ {r}
             /\ Sound(profile', X \cup {r})
    <3>1. Q \cup {r} \subseteq Queued' /\ R \subseteq rejected' \cup {r}
      BY <1>Q, <1>R, <2>4, RequestQueued
    <3>2. X \cup {r} \subseteq Places'
      BY <1>B, <1>3, <2>4, <3>1 DEF Places
    <3> HIDE DEF X, E
    <3> QED
      BY <2>4, <3>2, PlacesKept
  <2> QED
    BY <2>1, <2>2, <2>3, <2>4
<1>4. ASSUME NEW r \in Rips, PrepareHit(r)
      PROVE  Sound(profile', Places')
  <2>1. Sound(profile', Q \cup C \cup B \cup R)
    BY <1>0, <1>4, HitSound DEF PrepareHit
  <2>2. Q \cup C \cup B \cup R \subseteq Places'
    BY <1>1, <1>2, <1>4, <1>B, TouchKeeps DEF PrepareHit, Places
  <2> QED
    BY <2>1, <2>2, PlacesKept
<1>5. ASSUME NEW r \in Rips, PrepareStale(r)
      PROVE  Sound(profile', Places')
  <2>1. Sound(profile', (Q \cup C \cup B \cup R) \cup {r})
    BY <1>0, <1>5, StaleSound DEF PrepareStale
  <2>2. DOMAIN blocks' = B \ {r}
    BY <1>5, <1>B DEF PrepareStale, SetCache, Cache, Remove, Restrict
  <2>3. Q \cup {r} \subseteq Queued' /\ R \subseteq rejected' \cup {r}
    BY <1>Q, <1>R, <1>5, RequestQueued DEF PrepareStale
  <2>4. (Q \cup C \cup B \cup R) \cup {r} \subseteq Places'
    BY <1>1, <1>5, <2>2, <2>3 DEF PrepareStale, Places
  <2> QED
    BY <2>1, <2>4, PlacesKept
<1>6. ASSUME NEW r \in Rips, PrepareMiss(r)
      PROVE  Sound(profile', Places')
  <2>1. UNCHANGED blocks /\ Compiling' = C
    BY <1>1, <1>6 DEF PrepareMiss
  <2>2. \/ Sound(profile', Q \cup C \cup B \cup R) /\ UNCHANGED <<queue, rejected>>
        \/ Sound(profile', (Q \cup C \cup B \cup R) \cup {r}) /\ Request(r)
    BY <1>0, <1>6, MissSound
  <2>3. CASE Sound(profile', Q \cup C \cup B \cup R) /\ UNCHANGED <<queue, rejected>>
    <3>1. Q \cup C \cup B \cup R \subseteq Places'
      BY <1>2, <1>B, <2>1, <2>3 DEF Places
    <3> QED
      BY <2>3, <3>1, PlacesKept
  <2>4. CASE Sound(profile', (Q \cup C \cup B \cup R) \cup {r}) /\ Request(r)
    <3>1. Q \cup {r} \subseteq Queued' /\ R \subseteq rejected' \cup {r}
      BY <1>Q, <1>R, <2>4, RequestQueued
    <3>2. (Q \cup C \cup B \cup R) \cup {r} \subseteq Places'
      BY <1>B, <2>1, <3>1 DEF Places
    <3> QED
      BY <2>4, <3>2, PlacesKept
  <2> QED
    BY <2>2, <2>3, <2>4
<1>7. ASSUME NEW r \in Rips, InvalidateBlock(r)
      PROVE  Sound(profile', Places')
  <2>1. Sound(profile', (Q \cup C \cup B \cup R) \ {r})
    BY <1>0, <1>7, ClearSound DEF InvalidateBlock
  <2>2. DOMAIN blocks' = B \ {r}
    BY <1>7, <1>B DEF InvalidateBlock, SetCache, Cache, Remove, Restrict
  <2>3. (Q \cup C \cup B \cup R) \ {r} \subseteq Places'
    BY <1>1, <1>2, <1>7, <2>2 DEF InvalidateBlock, Places
  <2> QED
    BY <2>1, <2>3, PlacesKept
<1>8. ASSUME NEW r \in Rips, NEW n \in 1 .. SnapSpan, InstallBlock(r, n)
      PROVE  Sound(profile', Places')
  <2>1. Compiling' = C
    BY <1>1, <1>8 DEF InstallBlock
  <2>2. PICK h : InstallHandle(r, h)
    BY <1>8 DEF InstallBlock
  <2> QED
    BY <1>0, <1>3, <2>1, <2>2
<1>9. CASE Reset
  <2>1. profile' = EmptyProfile
    BY <1>9 DEF Reset
  <2> QED
    BY <2>1, EmptySound, PlacesKept
<1>10. ASSUME NEW j \in Jobs, StartCompile(j)
       PROVE  Sound(profile', Places')
  <2>1. queue \in Seq(Rips) /\ queue # <<>> /\ queue' = Tail(queue) /\ job[j] = NoJob
        /\ UNCHANGED <<profile, blocks, rejected>>
    BY <1>10 DEF StartCompile, TypeOK
  <2> DEFINE r == Head(queue)
             b == [rip |-> r, read |-> 0, meta |-> SnapshotMeta(r, SnapSpan),
                   code |-> [p \in Pages |-> 0]]
  <2>2. job' = [job EXCEPT ![j] = b] /\ job \in [Jobs -> Job \cup {NoJob}]
    BY <1>10 DEF StartCompile, TypeOK
  <2>3. b # NoJob /\ b.rip = r
    BY DEF NoJob
  <2> HIDE DEF b
  <2>4. Q \subseteq Queued' \cup {r}
    <3>1. \A i \in 1 .. Len(queue) : i = 1 \/ (i - 1 \in 1 .. Len(Tail(queue))
                                             /\ Tail(queue)[i - 1] = queue[i])
      BY <2>1
    <3>2. queue[1] = r /\ DOMAIN queue = 1 .. Len(queue) /\ Tail(queue) \in Seq(Rips)
      BY <2>1
    <3>3. DOMAIN Tail(queue) = 1 .. Len(Tail(queue))
      BY <3>2
    <3>4. ASSUME NEW i \in 1 .. Len(queue)
          PROVE  queue[i] \in Queued' \cup {r}
      <4>1. CASE i = 1
        BY <3>2, <4>1
      <4>2. CASE i # 1
        BY <2>1, <3>1, <3>3, <4>2 DEF Queued
      <4> QED
        BY <4>1, <4>2
    <3> QED
      BY <1>Q, <3>2, <3>4 DEF Queued
  <2>5. C \cup {r} \subseteq Compiling'
    <3>1. job'[j] = b /\ \A i \in Jobs : i # j => job'[i] = job[i]
      BY <2>2
    <3>2. r \in Compiling'
      BY <2>3, <3>1 DEF Compiling
    <3>3. ASSUME NEW i \in Jobs, job[i] # NoJob
          PROVE  job[i].rip \in Compiling'
      <4>1. i # j /\ job'[i] = job[i]
        BY <2>1, <3>1, <3>3
      <4> QED
        BY <3>3, <4>1 DEF Compiling
    <3> QED
      BY <1>C, <3>2, <3>3 DEF Compiling
  <2>6. Q \cup C \cup B \cup R \subseteq Places'
    BY <1>B, <1>R, <2>1, <2>4, <2>5 DEF Places
  <2> QED
    BY <1>0, <2>1, <2>6, PlacesKept
<1>11. ASSUME NEW j \in Jobs, ReadPage(j)
       PROVE  Sound(profile', Places')
  <2>1. UNCHANGED <<profile, blocks, queue, rejected>> /\ job \in [Jobs -> Job \cup {NoJob}]
        /\ job[j] # NoJob
    BY <1>11 DEF ReadPage, TypeOK
  <2>2. C \subseteq Compiling'
    <3>1. job[j] \in Job /\ DOMAIN job = Jobs
      BY <2>1
    <3>2. /\ job'[j].rip = job[j].rip /\ job'[j].read = job[j].read + 1
          /\ \A i \in Jobs : i # j => job'[i] = job[i]
      BY <1>11, <3>1 DEF ReadPage, Job
    <3>3. job'[j] # NoJob
      <4>1. job'[j].rip # "none" \/ job'[j] # NoJob
        BY <1>11, <3>1 DEF ReadPage, Job, NoJob
      <4> QED
        BY <4>1 DEF NoJob
    <3>4. ASSUME NEW i \in Jobs, job[i] # NoJob
          PROVE  job[i].rip \in Compiling'
      BY <3>2, <3>3, <3>4 DEF Compiling
    <3> QED
      BY <1>C, <3>4 DEF Compiling
  <2>3. Q \cup C \cup B \cup R \subseteq Places'
    BY <1>2, <1>B, <2>1, <2>2 DEF Places
  <2> QED
    BY <1>0, <2>1, <2>3, PlacesKept
<1>12. ASSUME NEW j \in Jobs, job' = [job EXCEPT ![j] = NoJob], job[j] # NoJob
       PROVE  job[j].rip \in Rips /\ C \subseteq Compiling' \cup {job[j].rip}
  <2>1. job[j].rip \in Rips /\ job \in [Jobs -> Job \cup {NoJob}]
    BY <1>12 DEF TypeOK, Job
  <2>2. \A i \in Jobs : i # j => job'[i] = job[i]
    BY <1>12, <2>1
  <2>3. ASSUME NEW i \in Jobs, job[i] # NoJob
        PROVE  job[i].rip \in Compiling' \cup {job[j].rip}
    <3>1. CASE i = j
      BY <3>1
    <3>2. CASE i # j
      BY <2>2, <2>3, <3>2 DEF Compiling
    <3> QED
      BY <3>1, <3>2
  <2> QED
    BY <1>C, <2>1, <2>3 DEF Compiling
<1>13. ASSUME NEW j \in Jobs, Install(j) \/ CompileError(j)
       PROVE  Sound(profile', Places')
  <2>1. job' = [job EXCEPT ![j] = NoJob] /\ job[j] # NoJob
    BY <1>13 DEF Install, CompileError
  <2>2. job[j].rip \in Rips /\ C \subseteq Compiling' \cup {job[j].rip}
    BY <1>12, <2>1
  <2>3. CASE Install(j)
    <3>1. PICK h : InstallHandle(job[j].rip, h)
      BY <2>3 DEF Install
    <3> QED
      BY <1>0, <1>3, <2>2, <3>1
  <2>4. CASE CompileError(j)
    <3>1. UNCHANGED <<profile, queue, blocks>> /\ rejected' = R \cup {job[j].rip}
      BY <1>R, <2>4 DEF CompileError
    <3>2. Queued' = Q
      BY <1>Q, <3>1 DEF Queued
    <3>3. Q \cup C \cup B \cup R \subseteq Places'
      BY <1>B, <2>2, <3>1, <3>2 DEF Places
    <3> QED
      BY <1>0, <3>1, <3>3, PlacesKept
  <2> QED
    BY <1>13, <2>3, <2>4
<1>14. ASSUME UNCHANGED <<profile, queue, rejected, job, blocks>>
       PROVE  Sound(profile', Places')
  <2>1. Q \cup C \cup B \cup R \subseteq Places'
    BY <1>1, <1>2, <1>14, <1>B DEF Places
  <2> QED
    BY <1>0, <1>14, <2>1, PlacesKept
<1>15. ASSUME NEW p \in Pages, GuestWrite(p)
       PROVE  Sound(profile', Places')
  BY <1>14, <1>15 DEF GuestWrite
<1>16. CASE UNCHANGED vars
  BY <1>14, <1>16 DEF vars
<1> QED
  BY <1>4, <1>5, <1>6, <1>7, <1>8, <1>9, <1>10, <1>11, <1>13, <1>15, <1>16
     DEF Next, JobStep, PrepareBlock

\* A requested address is queued, being compiled or cached, unless Tier-1 has
\* rejected it since: evictions, stale results, invalidations and resets lose
\* no request, and a rejection loses its own only.
THEOREM RequestsStayAccounted == Spec => []RequestsAccounted
<1> DEFINE AccountedInv == Sound(profile, Places)
<1>1. Init => AccountedInv
  <2> SUFFICES ASSUME Init PROVE AccountedInv
    OBVIOUS
  <2>1. profile = EmptyProfile
    BY DEF Init
  <2> QED
    BY <2>1, EmptySound, SoundWider
<1>2. AccountedInv => RequestsAccounted
  BY FieldsOf DEF Sound, RequestsAccounted, Places, Queued
<1>3. TypeOK /\ AccountedInv /\ [Next]_vars => AccountedInv'
  <2> SUFFICES ASSUME TypeOK, Sound(profile, Places), [Next]_vars PROVE AccountedInv'
    OBVIOUS
  <2>1. Sound(profile', Places')
    BY RequestsStep
  <2> QED
    BY <2>1 DEF Sound, ProfileOK, Once
<1> QED
  BY <1>1, <1>2, <1>3, JitTypeCorrect, PTL DEF Spec
=============================================================================
