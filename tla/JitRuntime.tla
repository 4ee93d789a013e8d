----------------------------- MODULE JitRuntime -----------------------------
(***************************************************************************)
(* The tiering runtime of crates/aero-cpu-core/src/jit: JitRuntime with    *)
(* its PageVersionTracker (runtime.rs), CodeCache (cache.rs) and           *)
(* HotnessProfile (profile.rs), and the Tier-1 pipeline that compiles in   *)
(* the background (crates/aero-jit-x86/src/tier1_pipeline.rs, and          *)
(* src/workers/cpu-worker.ts in the browser).                              *)
(*                                                                         *)
(* Every call of the runtime is one step: it runs on the CPU thread.  A    *)
(* compile job is not: it snapshots the page versions, then reads the      *)
(* guest's code page by page on another thread while the guest runs, then  *)
(* asks the runtime to install what it compiled.                           *)
(*                                                                         *)
(* Guest memory is one content number per page, new at every write.  A     *)
(* block's byte length is counted in pages: that is all the validation     *)
(* sees of it, and the cache's byte budget is counted in the same unit.    *)
(* Statistics and metrics are left out.                                    *)
(***************************************************************************)
EXTENDS Integers, Sequences, FiniteSets, Functions

CONSTANTS
    Rips,              \* entry addresses of guest blocks
    NPages,            \* guest-physical pages
    FirstPage,         \* the page of each entry address
    SnapSpan,          \* pages covered by a job's snapshot (max_bytes + 15)
    Tracked,           \* pages in the version table (code_version_max_pages)
    VerMod,            \* versions are u32: 2^32 in the code
    MAX_SNAPSHOT_PAGES,
    hot_threshold, ProfileCapacity, MaxCount,  \* counts saturate at MaxCount
    max_blocks, max_bytes,                     \* limits of the code cache
    Uncompilable,      \* entry addresses whose code Tier-1 rejects
    Jobs,              \* compile jobs that may be in flight at once
    MaxWrites, MaxResets   \* bounds on guest writes and on resets

Pages == 0 .. NPages - 1

ASSUME JitAssumption ==
    /\ NPages \in Nat /\ Tracked \in Nat /\ VerMod \in Nat \ {0}
    /\ SnapSpan \in Nat \ {0} /\ MAX_SNAPSHOT_PAGES \in Nat \ {0}
    /\ FirstPage \in [Rips -> Nat]
    /\ \A r \in Rips : FirstPage[r] + SnapSpan <= NPages
    /\ MaxCount \in Nat \ {0} /\ hot_threshold \in 0 .. MaxCount
    /\ ProfileCapacity \in Nat \ {0}
    /\ max_blocks \in Nat /\ max_bytes \in Nat
    /\ Uncompilable \subseteq Rips
    /\ MaxWrites \in Nat /\ MaxResets \in Nat

VARIABLES
    mem,        \* guest memory: the content of each page
    ver, gen,   \* the page-version table and its generation
    blocks,     \* CodeCache.map: the cached handle of an entry address
    lru,        \* CodeCache's list: entry addresses, most recent first
    profile,    \* HotnessProfile
    queue,      \* requested entry addresses, oldest first, no duplicates
    rejected,   \* history: addresses that Tier-1 has rejected since they were
                \* last put into the queue
    job,        \* the compile jobs in flight
    writes, resets   \* counters of the bounds

vars == <<mem, ver, gen, blocks, lru, profile, queue, rejected, job, writes, resets>>

-----------------------------------------------------------------------------
(* PageVersionTracker *)

\* A page outside the table has version 0.
Version(p) == IF p < Tracked THEN ver[p] ELSE 0

\* Mutant of Bump: the version is not wrapped.
BumpUnwrapped(v) == v + 1

\* u32::wrapping_add(1).
Bump(v) == IF v + 1 = VerMod THEN 0 ELSE v + 1

MinOf(a, b) == IF a < b THEN a ELSE b

\* The pages of a block of n pages, as far as a snapshot of k pages goes.
Span(r, k) == FirstPage[r] .. FirstPage[r] + k - 1

\* snapshot_meta.  n: pages of the block; k: pages the snapshot kept;
\* at: (not in the code) the contents at the time, to say what a version means.
SnapshotMeta(r, n) ==
    LET k == MinOf(n, MAX_SNAPSHOT_PAGES) IN
    [n |-> n, k |-> k, gen |-> gen,
     vers |-> [p \in Pages |-> IF p \in Span(r, k) THEN Version(p) ELSE 0],
     at |-> [p \in Pages |-> IF p \in Span(r, k) THEN mem[p] ELSE 0]]

\* Mutant of IsBlockValid: the generation is not compared.
IsBlockValidAnyGen(r, meta) ==
    \/ meta.k = 0
    \/ /\ meta.n <= meta.k
       /\ \A p \in Span(r, meta.k) : Version(p) = meta.vers[p]

\* An empty snapshot means that there is nothing to validate.
IsBlockValid(r, meta) ==
    \/ meta.k = 0
    \/ /\ meta.gen = gen
       /\ meta.n <= meta.k
       /\ \A p \in Span(r, meta.k) : Version(p) = meta.vers[p]

-----------------------------------------------------------------------------
(* CodeCache: pure operators on a cache [blocks, lru] *)

Cache == [blocks |-> blocks, lru |-> lru]

\* Takes r out of a list that holds it at most once.
Without(s, r) ==
    LET k == CHOOSE k \in DOMAIN s : s[k] = r
    IN  IF \E i \in DOMAIN s : s[i] = r
        THEN [i \in 1 .. Len(s) - 1 |-> IF i < k THEN s[i] ELSE s[i + 1]]
        ELSE s

Touch(c, r) == [c EXCEPT !.lru = <<r>> \o Without(@, r)]

Remove(c, r) ==
    [blocks |-> Restrict(c.blocks, DOMAIN c.blocks \ {r}),
     lru |-> Without(c.lru, r)]

\* The byte budget used by the first i entries of the list.
BytesOf(c, i) ==
    LET used[j \in 0 .. Len(c.lru)] ==
          IF j = 0 THEN 0 ELSE used[j - 1] + c.blocks[c.lru[j]].meta.n
    IN  used[i]

\* Mutant of EvictIfNeeded: one block more than the limit.
EvictIfNeededLate(c) ==
    LET fits(i) == i <= max_blocks + 1 /\ (max_bytes = 0 \/ BytesOf(c, i) <= max_bytes)
        keep == CHOOSE i \in 0 .. Len(c.lru) :
                   fits(i) /\ \A j \in i + 1 .. Len(c.lru) : ~fits(j)
        evicted == {c.lru[i] : i \in keep + 1 .. Len(c.lru)}
    IN  [blocks |-> Restrict(c.blocks, DOMAIN c.blocks \ evicted),
         lru |-> SubSeq(c.lru, 1, keep)]

\* evict_if_needed drops the tail of the list until both limits hold.
EvictIfNeeded(c) ==
    LET fits(i) == i <= max_blocks /\ (max_bytes = 0 \/ BytesOf(c, i) <= max_bytes)
        keep == CHOOSE i \in 0 .. Len(c.lru) :
                   fits(i) /\ \A j \in i + 1 .. Len(c.lru) : ~fits(j)
        evicted == {c.lru[i] : i \in keep + 1 .. Len(c.lru)}
    IN  [blocks |-> Restrict(c.blocks, DOMAIN c.blocks \ evicted),
         lru |-> SubSeq(c.lru, 1, keep)]

Insert(c, r, h) ==
    EvictIfNeeded(
        [blocks |-> [x \in DOMAIN c.blocks \cup {r} |->
                        IF x = r THEN h ELSE c.blocks[x]],
         lru |-> <<r>> \o Without(c.lru, r)])

-----------------------------------------------------------------------------
(* HotnessProfile: pure operators on a profile [count, recent, requested]. *)
(* recent lists the tracked addresses by last_hit, oldest first; the clock *)
(* gives every access a new last_hit.                                      *)

EmptyProfile == [count |-> <<>>, recent |-> <<>>, requested |-> {}]

Tracks(P, r) == r \in DOMAIN P.count

Used(P, r) == [P EXCEPT !.recent = Append(Without(@, r), r)]

ClearRequested(P, r) == [P EXCEPT !.requested = @ \ {r}]

\* Mutant of EvictEntry: the evicted address stays requested.
EvictEntryKeepsRequested(P, r) ==
    [count |-> Restrict(P.count, DOMAIN P.count \ {r}),
     recent |-> Without(P.recent, r),
     requested |-> P.requested]

EvictEntry(P, r) ==
    [count |-> Restrict(P.count, DOMAIN P.count \ {r}),
     recent |-> Without(P.recent, r),
     requested |-> P.requested \ {r}]

\* pick_victim: the lowest count, the oldest among equals.
PickVictim(P, candidates) ==
    LET at(i) == P.recent[i]
        i == CHOOSE i \in DOMAIN P.recent :
                /\ at(i) \in candidates
                /\ \A j \in DOMAIN P.recent : at(j) \in candidates =>
                     \/ P.count[at(i)] < P.count[at(j)]
                     \/ P.count[at(i)] = P.count[at(j)] /\ i <= j
    IN  at(i)

Full(P) == Cardinality(DOMAIN P.count) >= ProfileCapacity

Idle(P) == DOMAIN P.count \ P.requested

\* A new counter entry for r.
AddEntry(P, r, n) ==
    Used([P EXCEPT !.count = [x \in DOMAIN @ \cup {r} |-> IF x = r THEN n ELSE @[x]]], r)

\* mark_requested makes room at the cost of a requested entry if it must.
MarkRequested(P, r) ==
    LET room == IF ~Full(P) THEN P
                ELSE EvictEntry(P, PickVictim(P,
                        IF Idle(P) # {} THEN Idle(P) ELSE DOMAIN P.count))
        Q == IF Tracks(P, r) THEN Used(P, r)
             ELSE AddEntry(room, r, IF hot_threshold > 1 THEN hot_threshold ELSE 1)
    IN  [Q EXCEPT !.requested = @ \cup {r}]

\* record_hit counts the hit.  A new address is not tracked when every entry
\* of a full profile is requested.
RecordHit(P, r) ==
    IF Tracks(P, r)
    THEN Used([P EXCEPT !.count[r] = MinOf(@ + 1, MaxCount)], r)
    ELSE IF ~Full(P) THEN AddEntry(P, r, 1)
    ELSE IF Idle(P) # {} THEN AddEntry(EvictEntry(P, PickVictim(P, Idle(P))), r, 1)
    ELSE P

\* Mutant of DueToHotness: only the hit that reaches the threshold counts.
DueToHotnessOnce(P, r) ==
    /\ Tracks(P, r)
    /\ P.count[r] = hot_threshold
    /\ r \notin P.requested

\* ... and asks for a compilation when r is hot, not compiled and not yet
\* requested.
DueToHotness(P, r) ==
    /\ Tracks(P, r)
    /\ P.count[r] >= hot_threshold
    /\ r \notin P.requested

-----------------------------------------------------------------------------
(* The compile queue (Tier1CompileQueue, CompileQueue) *)

RequestCompile(q, r) ==
    IF \E i \in DOMAIN q : q[i] = r THEN q ELSE Append(q, r)

Request(r) ==
    /\ queue' = RequestCompile(queue, r)
    /\ rejected' = rejected \ {r}

NoJob == [rip |-> "none"]

\* The entry addresses with a job in flight.
Compiling == {job[j].rip : j \in {i \in Jobs : job[i] # NoJob}}

Init ==
    /\ mem = [p \in Pages |-> 0]
    /\ ver = [p \in Pages |-> 0]
    /\ gen = 0
    /\ blocks = <<>> /\ lru = <<>>
    /\ profile = EmptyProfile
    /\ queue = <<>> /\ rejected = {}
    /\ job = [j \in Jobs |-> NoJob]
    /\ writes = 0 /\ resets = 0

-----------------------------------------------------------------------------
(* Operations of JitRuntime *)

\* No page is written VerMod (2^32) times between a snapshot and a check of
\* it.  The code relies on this; the model states it.
NoVersionLap(p) ==
    /\ \A r \in DOMAIN blocks : p \in Span(r, blocks[r].meta.k)
          => mem[p] + 1 - blocks[r].meta.at[p] < VerMod
    /\ \A j \in Jobs : job[j] # NoJob /\ p \in Span(job[j].rip, job[j].meta.k)
          => mem[p] + 1 - job[j].meta.at[p] < VerMod

\* A guest store and its on_guest_write, on the CPU thread.
GuestWrite(p) ==
    /\ writes < MaxWrites
    /\ NoVersionLap(p)
    /\ writes' = writes + 1
    /\ mem' = [mem EXCEPT ![p] = @ + 1]
    /\ ver' = IF p < Tracked THEN [ver EXCEPT ![p] = Bump(@)] ELSE ver
    /\ UNCHANGED <<gen, blocks, lru, profile, queue, rejected, job, resets>>

\* JitRuntime::reset, around the restore of a guest snapshot.
Reset ==
    /\ resets < MaxResets
    /\ resets' = resets + 1
    /\ mem' = [p \in Pages |-> mem[p] + 1]
    /\ ver' = [p \in Pages |-> 0]
    /\ gen' = gen + 1
    /\ blocks' = <<>> /\ lru' = <<>>
    /\ profile' = EmptyProfile /\ rejected' = {}
    /\ UNCHANGED <<queue, job, writes>>

SetCache(c) == blocks' = c.blocks /\ lru' = c.lru

\* prepare_block when it returns a handle.
PrepareHit(r) ==
    /\ r \in DOMAIN blocks
    /\ IsBlockValid(r, blocks[r].meta)
    /\ SetCache(Touch(Cache, r))
    /\ profile' = RecordHit(profile, r)
    /\ UNCHANGED <<mem, ver, gen, queue, rejected, job, writes, resets>>

\* prepare_block when it drops a stale block and asks for a new one.
PrepareStale(r) ==
    /\ r \in DOMAIN blocks
    /\ ~IsBlockValid(r, blocks[r].meta)
    /\ SetCache(Remove(Cache, r))
    /\ profile' = RecordHit(MarkRequested(ClearRequested(profile, r), r), r)
    /\ Request(r)
    /\ UNCHANGED <<mem, ver, gen, job, writes, resets>>

\* prepare_block without a block: the interpreter runs, the hit is counted.
PrepareMiss(r) ==
    LET P == RecordHit(profile, r) IN
    /\ r \notin DOMAIN blocks
    /\ IF DueToHotness(P, r)
       THEN /\ profile' = [P EXCEPT !.requested = @ \cup {r}]
            /\ Request(r)
       ELSE /\ profile' = P
            /\ UNCHANGED <<queue, rejected>>
    /\ UNCHANGED <<mem, ver, gen, blocks, lru, job, writes, resets>>

PrepareBlock(r) == PrepareHit(r) \/ PrepareStale(r) \/ PrepareMiss(r)

InvalidateBlock(r) ==
    /\ r \in DOMAIN blocks
    /\ SetCache(Remove(Cache, r))
    /\ profile' = ClearRequested(profile, r)
    /\ UNCHANGED <<mem, ver, gen, queue, rejected, job, writes, resets>>

\* Mutant of InstallOk: the evicted addresses stay requested.
InstallOkKeepsRequested(r, h) ==
    /\ SetCache(Insert(Cache, r, h))
    /\ UNCHANGED <<profile, queue, rejected>>

\* install_handle of a valid handle; the evicted addresses may be requested
\* again.
InstallOk(r, h) ==
    LET c == Insert(Cache, r, h)
        evicted == (DOMAIN blocks \cup {r}) \ DOMAIN c.blocks
    IN
    /\ SetCache(c)
    /\ profile' = [profile EXCEPT !.requested = @ \ evicted]
    /\ UNCHANGED <<queue, rejected>>

\* install_handle of a stale handle: ignored when the cached block is valid,
\* else the cached block is dropped and a compilation requested.
InstallStale(r) ==
    IF r \in DOMAIN blocks /\ IsBlockValid(r, blocks[r].meta)
    THEN /\ SetCache(Touch(Cache, r))
         /\ UNCHANGED <<profile, queue, rejected>>
    ELSE /\ SetCache(Remove(Cache, r))
         /\ profile' = MarkRequested(IF r \in DOMAIN blocks THEN ClearRequested(profile, r)
                                     ELSE profile, r)
         /\ Request(r)

InstallHandle(r, h) ==
    IF IsBlockValid(r, h.meta) THEN InstallOk(r, h) ELSE InstallStale(r)

\* install_block snapshots at the time of the call: right for a caller that
\* has compiled the current bytes without letting the guest run. It does not
\* ask which compiler made the block.
InstallBlock(r, n) ==
    /\ InstallHandle(r, [meta |-> SnapshotMeta(r, n),
                         code |-> [p \in Pages |-> IF p \in Span(r, n) THEN mem[p] ELSE 0]])
    /\ UNCHANGED <<mem, ver, gen, job, writes, resets>>

-----------------------------------------------------------------------------
(* Compile jobs *)

\* Take the oldest request and snapshot the page versions (pre_meta), before
\* any byte is read.
StartCompile(j) ==
    /\ queue # <<>>
    /\ job[j] = NoJob
    /\ job' = [job EXCEPT ![j] =
                  [rip |-> Head(queue), read |-> 0,
                   meta |-> SnapshotMeta(Head(queue), SnapSpan),
                   code |-> [p \in Pages |-> 0]]]
    /\ queue' = Tail(queue)
    /\ UNCHANGED <<mem, ver, gen, blocks, lru, profile, rejected, writes, resets>>

\* Read the next page of code.
ReadPage(j) ==
    /\ job[j] # NoJob
    /\ job[j].read < SnapSpan
    /\ LET p == FirstPage[job[j].rip] + job[j].read IN
       job' = [job EXCEPT ![j].read = @ + 1, ![j].code[p] = mem[p]]
    /\ UNCHANGED <<mem, ver, gen, blocks, lru, profile, queue, rejected, writes,
                   resets>>

\* shrink_meta keeps the snapshot of the pages the block really covers.
ShrinkMeta(meta, n) == [meta EXCEPT !.n = n, !.k = MinOf(n, @)]

\* The job has found a block of n pages in what it read (the decoder may look
\* ahead), compiled it and installs the result.
Install(j) ==
    LET r == job[j].rip IN
    /\ job[j] # NoJob
    /\ r \notin Uncompilable
    /\ \E n \in 1 .. job[j].read :
          InstallHandle(r, [meta |-> ShrinkMeta(job[j].meta, n),
                            code |-> job[j].code])
    /\ job' = [job EXCEPT ![j] = NoJob]
    /\ UNCHANGED <<mem, ver, gen, writes, resets>>

\* Tier-1 returns an error: nothing is installed and nobody is told.
CompileError(j) ==
    /\ job[j] # NoJob
    /\ job[j].read > 0
    /\ job[j].rip \in Uncompilable
    /\ job' = [job EXCEPT ![j] = NoJob]
    /\ rejected' = rejected \cup {job[j].rip}
    /\ UNCHANGED <<mem, ver, gen, blocks, lru, profile, queue, writes, resets>>

JobStep(j) == StartCompile(j) \/ ReadPage(j) \/ Install(j) \/ CompileError(j)

Next ==
    \/ \E p \in Pages : GuestWrite(p)
    \/ Reset
    \/ \E r \in Rips : PrepareBlock(r) \/ InvalidateBlock(r)
                         \/ \E n \in 1 .. SnapSpan : InstallBlock(r, n)
    \/ \E j \in Jobs : JobStep(j)

Spec == Init /\ [][Next]_vars

\* A guest that keeps running every block, and a pipeline that keeps working.
LoopSpec ==
    /\ Spec
    /\ \A r \in Rips : WF_vars(PrepareBlock(r))
    /\ \A j \in Jobs : WF_vars(JobStep(j))

\* WasmTieredVm::reset_real_mode, before a boot sector is loaded: a new
\* JitRuntime, whose generation and versions start at 0, and an empty queue.
\* The jobs are in another worker and go on.
ResetRealMode ==
    /\ resets < MaxResets
    /\ resets' = resets + 1
    /\ mem' = [p \in Pages |-> mem[p] + 1]
    /\ ver' = [p \in Pages |-> 0]
    /\ gen' = 0
    /\ blocks' = <<>> /\ lru' = <<>>
    /\ profile' = EmptyProfile /\ rejected' = {}
    /\ queue' = <<>>
    /\ UNCHANGED <<job, writes>>

\* The runtime as WasmTieredVm drives it.
VmNext ==
    \/ \E p \in Pages : GuestWrite(p)
    \/ ResetRealMode
    \/ \E r \in Rips : PrepareBlock(r)
    \/ \E j \in Jobs : JobStep(j)

VmSpec == Init /\ [][VmNext]_vars

-----------------------------------------------------------------------------
(* Properties *)

Versions == 0 .. VerMod - 1

Meta == [n : Nat, k : Nat, gen : Nat, vers : [Pages -> Versions], at : [Pages -> Nat]]

Handle == [meta : Meta, code : [Pages -> Nat]]

Job == [rip : Rips, read : 0 .. SnapSpan, meta : Meta, code : [Pages -> Nat]]

\* Types of guest memory, the version table, the cache and the jobs.
TypeOK ==
    /\ mem \in [Pages -> Nat] /\ ver \in [Pages -> Versions] /\ gen \in Nat
    /\ DOMAIN blocks \subseteq Rips
    /\ \A r \in DOMAIN blocks : blocks[r] \in Handle
    /\ queue \in Seq(Rips)
    /\ job \in [Jobs -> Job \cup {NoJob}]
    /\ writes \in Nat /\ resets \in Nat

\* A cached block that passes the validation of prepare_block was compiled
\* from the bytes that the tracked pages hold now, whatever the guest wrote
\* while the compiler read them.
ValidMeansFresh ==
    \A r \in DOMAIN blocks : IsBlockValid(r, blocks[r].meta) =>
        \A p \in Span(r, blocks[r].meta.n) :
            p < Tracked => blocks[r].code[p] = mem[p]

\* The cache keeps its limits, and its list holds each cached address once.
CacheWithinLimits ==
    /\ Len(lru) <= max_blocks
    /\ max_bytes # 0 => BytesOf(Cache, Len(lru)) <= max_bytes
    /\ {lru[i] : i \in DOMAIN lru} = DOMAIN blocks
    /\ Len(lru) = Cardinality(DOMAIN blocks)

\* The profile keeps its capacity, and a requested address keeps its counter:
\* no sequence of hits, stale blocks and evictions leaks an entry.
ProfileConsistent ==
    /\ Cardinality(DOMAIN profile.count) <= ProfileCapacity
    /\ {profile.recent[i] : i \in DOMAIN profile.recent} = DOMAIN profile.count
    /\ Len(profile.recent) = Cardinality(DOMAIN profile.count)
    /\ profile.requested \subseteq DOMAIN profile.count

\* A requested address is "in-flight compilation or already compiled", or else
\* Tier-1 has rejected it since it was requested, which the profile is not
\* told: no stale result, eviction, invalidation or reset leaves an address
\* requested with nobody working on it, whatever else Tier-1 rejects.
RequestsAccounted ==
    profile.requested \subseteq
        {queue[i] : i \in DOMAIN queue} \cup Compiling \cup DOMAIN blocks
          \cup rejected

\* A block that the guest keeps running and Tier-1 accepts is compiled and,
\* after an eviction or an invalidation, compiled again, although the blocks
\* that Tier-1 rejects keep their places in the profile.
HotBlockCompiled ==
    \A r \in Rips \ Uncompilable : []<>(r \in DOMAIN blocks)
=============================================================================
