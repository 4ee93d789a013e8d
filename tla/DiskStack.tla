------------------------------ MODULE DiskStack ------------------------------
(***************************************************************************)
(* The disk a storage controller sees: BlockCachedDisk (cache.rs), an LRU  *)
(* write-back cache, over the copy-on-write disk of SparseDisk.  The       *)
(* controller makes one call at a time; a call's backend calls may fail    *)
(* and the process may die between any two of them.                        *)
(***************************************************************************)
EXTENDS SparseDisk

CONSTANT MaxFaults  \* bound: crashes, or calls that fail

VARIABLES cache,    \* most recently used first: [line, data, dirty]
          status,   \* "open" or "crashed"
          vol,      \* history: what each sector should read as
          stable,   \* history: what each sector may read as after a crash
          unsure,   \* history: the sectors whose last change failed or goes on
          faults

history == <<vol, stable, unsure>>
vars == <<geom, file, mem, todo, cache, status, history, faults>>

\* MaxSlots is no limit of the code: every block has a slot, and each failure
\* may lose one more.
ASSUME StackAssumption ==
    MaxFaults \in Nat /\ NSectors + MaxFaults <= MaxSlots

LineOf(s) == s \div geom.line
Lines == {LineOf(s) : s \in Sectors}
InLine(k) == {s \in Sectors : LineOf(s) = k}
Cached(k) == \E i \in DOMAIN cache : cache[i].line = k
Entry(k) == cache[CHOOSE i \in DOMAIN cache : cache[i].line = k]
CachedAt(K) == {i \in DOMAIN cache : cache[i].line \in K}
Dropped(K) == Picked(cache, DOMAIN cache \ CachedAt(K))

\* g with f written over it.
Over(f, g) == [s \in DOMAIN f \cup DOMAIN g |-> IF s \in DOMAIN f THEN f[s] ELSE g[s]]

\* get_mut moves the entry to the front.
Promoted(e) == <<e>> \o Dropped({e.line})

\* What a read returns.
Visible(s) == IF Cached(LineOf(s)) THEN Entry(LineOf(s)).data[s] ELSE Stored(mem.table, s)

Init ==
    /\ geom \in Setups
    /\ file = NewImage
    /\ mem = Loaded(NewImage)
    /\ todo = <<>>
    /\ cache = <<>>
    /\ status = "open"
    /\ vol = [s \in Sectors |-> Base(s)]
    /\ stable = [s \in Sectors |-> {Base(s)}]
    /\ unsure = {}
    /\ faults = 0

TypeOK ==
    /\ SparseTypeOK
    /\ Len(cache) <= geom.lines
    /\ \A i \in DOMAIN cache :
          /\ cache[i].line \in Lines /\ cache[i].dirty \in BOOLEAN
          /\ cache[i].data \in [InLine(cache[i].line) -> Values]
    /\ status \in {"open", "crashed"}
    /\ vol \in [Sectors -> Values] /\ stable \in [Sectors -> SUBSET Values]
    /\ unsure \in SUBSET Sectors

-----------------------------------------------------------------------------
(* Steps of the cache. *)

\* The part of f in each group of K, in order, as a step.
Split(f, Group(_), MkStep(_, _)) ==
    LET K == Ascending({Group(s) : s \in DOMAIN f})
    IN  [i \in 1..Len(K) |-> MkStep(K[i], [s \in {t \in DOMAIN f : Group(t) = K[i]} |-> f[s]])]

\* write_back_block: one call of AeroCowDisk::write_at, block by block.
WriteBack(e) == Split(e.data, BlockOf, LAMBDA b, f : [do |-> "cow", chunk |-> f])

KeepCache == UNCHANGED <<cache, status, history, faults>>
CacheOnly == KeepDisk /\ UNCHANGED <<geom, status, history, faults>>

MissSteps(k, data, dirty) ==
    <<[do |-> "evict"], [do |-> "insert", entry |-> [line |-> k, data |-> data, dirty |-> dirty]]>>

\* ensure_block_cached; the read of the disk comes before the eviction.
LoadSteps(k) == MissSteps(k, [s \in InLine(k) |-> Stored(mem.table, s)], FALSE)

LoadLine ==
    LET k == Step.line
    IN  /\ Doing("load")
        /\ \/ /\ Cached(k)
              /\ cache' = Promoted(Entry(k)) /\ Continue(<<>>)
           \/ /\ ~Cached(k)
              /\ Continue(LoadSteps(k)) /\ UNCHANGED cache
        /\ CacheOnly

\* One iteration of BlockCachedDisk::write_at.
WriteChunk ==
    LET k == Step.line
        e == Entry(k)
    IN  /\ Doing("chunk")
        /\ \/ /\ Cached(k)
              /\ cache' = Promoted([e EXCEPT !.data = Over(Step.data, @), !.dirty = TRUE])
              /\ Continue(<<>>)
           \/ /\ ~Cached(k)
              /\ Continue(IF Cardinality(DOMAIN Step.data) = geom.line
                          THEN MissSteps(k, Step.data, TRUE)
                          ELSE LoadSteps(k) \o <<Step>>)
              /\ UNCHANGED cache
        /\ CacheOnly

\* Mutant: off by one, the cache holds one entry more than max_cached_blocks.
EvictLate ==
    /\ Doing("evict")
    /\ Len(cache) <= geom.lines
    /\ Continue(<<>>) /\ UNCHANGED cache
    /\ CacheOnly

\* ensure_space_for_block: the least recently used entry is written back and
\* then dropped.
Evict ==
    /\ Doing("evict")
    /\ \/ /\ Len(cache) < geom.lines
          /\ Continue(<<>>) /\ UNCHANGED cache
       \/ /\ Len(cache) >= geom.lines /\ ~Last(cache).dirty
          /\ Continue(<<Step>>) /\ cache' = Front(cache)
       \/ /\ Len(cache) >= geom.lines /\ Last(cache).dirty
          /\ Continue(WriteBack(Last(cache)) \o <<[do |-> "evicted"], Step>>)
          /\ UNCHANGED cache
    /\ CacheOnly

Evicted ==
    /\ Doing("evicted")
    /\ cache' = Front(cache) /\ Continue(<<>>)
    /\ CacheOnly

InsertEntry ==
    /\ Doing("insert")
    /\ cache' = <<Step.entry>> \o cache /\ Continue(<<>>)
    /\ CacheOnly

\* The loop body of flush and of discard_range.
SyncLine ==
    LET e == Entry(Step.line)
    IN  /\ Doing("sync")
        /\ cache' = Promoted(e)
        /\ Continue(IF e.dirty THEN WriteBack(e) \o <<[do |-> "clean", line |-> e.line]>>
                    ELSE <<>>)
        /\ CacheOnly

CleanLine ==
    /\ Doing("clean")
    /\ cache' = Promoted([Entry(Step.line) EXCEPT !.dirty = FALSE])
    /\ Continue(<<>>)
    /\ CacheOnly

\* The inner flush has returned: nothing older may come back.
FlushReturns ==
    /\ Doing("flushed")
    /\ stable' = [s \in Sectors |-> {vol[s]}]
    /\ Continue(<<>>)
    /\ KeepDisk /\ UNCHANGED <<geom, cache, status, vol, unsure, faults>>

\* The tail of discard_range.
DropLines ==
    /\ Doing("drop")
    /\ cache' = Dropped(Step.lines)
    /\ vol' = [s \in Sectors |-> IF BlockOf(s) \in Step.blocks THEN Base(s) ELSE vol[s]]
    /\ unsure' = unsure \ Step.sure
    /\ Continue(<<>>)
    /\ KeepDisk /\ UNCHANGED <<geom, status, stable, faults>>

\* write_at has returned Ok.
WriteReturns ==
    /\ Doing("written")
    /\ unsure' = unsure \ Step.sure
    /\ Continue(<<>>)
    /\ KeepDisk /\ UNCHANGED <<geom, cache, status, vol, stable, faults>>

CacheStep ==
    \/ LoadLine \/ WriteChunk \/ Evict \/ Evicted \/ InsertEntry
    \/ SyncLine \/ CleanLine \/ FlushReturns \/ DropLines \/ WriteReturns

-----------------------------------------------------------------------------
(* Calls of the controller. *)

Idle == status = "open" /\ todo = <<>>
Call == Idle /\ KeepDisk /\ UNCHANGED <<geom, cache, status, faults>>

ReadAt(s) ==
    /\ Call
    /\ todo' = <<[do |-> "load", line |-> LineOf(s)]>>
    /\ UNCHANGED history

WriteAt(first, last, v) ==
    LET data == [s \in first..last |-> <<s, v>>]
    IN  /\ Call
        /\ todo' = Split(data, LineOf, LAMBDA k, f : [do |-> "chunk", line |-> k, data |-> f])
                   \o <<[do |-> "written", sure |-> first..last]>>
        /\ vol' = Over(data, vol)
        /\ stable' = Over([s \in first..last |-> stable[s] \cup {data[s]}], stable)
        /\ unsure' = unsure \cup (first..last)

SyncSteps(K) ==
    LET keys == Picked(cache, CachedAt(K))
    IN  [i \in DOMAIN keys |-> [do |-> "sync", line |-> keys[i].line]]

\* Mutant: only the inner disk is flushed.
FlushInnerOnly ==
    /\ Call
    /\ todo' = <<[do |-> "flushed"]>>
    /\ UNCHANGED history

Flush ==
    /\ Call
    /\ todo' = SyncSteps(Lines) \o <<[do |-> "flushed"]>>
    /\ UNCHANGED history

\* Mutant: the cached lines of the range are dropped before the disk is told,
\* modified or not.
DiscardRangeNoSync(first, last) ==
    LET K == {LineOf(s) : s \in first..last}
        B == Covered(first, last)
    IN  /\ Call
        /\ todo' = DiscardSteps(first, last) \o <<[do |-> "drop", lines |-> K, blocks |-> B,
                          sure |-> (first..last) \ unsure]>>
        /\ stable' = [s \in Sectors |-> IF BlockOf(s) \in B THEN stable[s] \cup {Base(s)} ELSE stable[s]]
        /\ unsure' = unsure \cup (first..last)
        /\ UNCHANGED vol

DiscardRange(first, last) ==
    LET K == {LineOf(s) : s \in first..last}
        B == Covered(first, last)
    IN  /\ Call
        /\ todo' = SyncSteps(K) \o DiscardSteps(first, last)
                   \o <<[do |-> "drop", lines |-> K, blocks |-> B,
                          sure |-> (first..last) \ unsure]>>
        /\ stable' = [s \in Sectors |-> IF BlockOf(s) \in B THEN stable[s] \cup {Base(s)} ELSE stable[s]]
        /\ unsure' = unsure \cup (first..last)
        /\ UNCHANGED vol

-----------------------------------------------------------------------------
(* Failures. *)

\* A backend call, or the read of the base that a put may start with, fails;
\* every caller returns the error.  A failed eviction puts its entry back.
\* The read that fills a line on a miss comes before the eviction and the
\* insert, so that its failure changes nothing and is not a step.
Fail ==
    /\ geom.fault = "error"
    /\ faults < MaxFaults /\ faults' = faults + 1
    /\ todo # <<>>
    /\ Step.do \in {"header", "entry", "grow", "put", "clear", "truncate", "flushed"}
    /\ todo' = <<>>
    /\ cache' = IF \E i \in DOMAIN todo : todo[i].do = "evicted" THEN Promoted(Last(cache)) ELSE cache
    /\ KeepDisk /\ UNCHANGED <<geom, status, history>>

\* The worker or the tab is gone; the backend keeps what it was given.
Crash ==
    /\ status = "open"
    /\ geom.fault = "crash"
    /\ faults < MaxFaults /\ faults' = faults + 1
    /\ status' = "crashed"
    /\ todo' = <<>> /\ cache' = <<>> /\ mem' = Loaded(NewImage)
    /\ UNCHANGED <<geom, file, history>>

\* AeroCowDisk::open
Reopen ==
    /\ status = "crashed" /\ Opens(file)
    /\ status' = "open"
    /\ mem' = Loaded(file)
    /\ vol' = [s \in Sectors |-> Stored(file.table, s)]
    /\ stable' = [s \in Sectors |-> {Stored(file.table, s)}]
    /\ unsure' = {}
    /\ UNCHANGED <<geom, file, todo, cache, faults>>

Next ==
    \/ DiskStep /\ UNCHANGED geom /\ KeepCache
    \/ CacheStep
    \/ \E s \in Sectors : ReadAt(s)
    \/ \E first, last \in Sectors, v \in 1..MaxVersion : first <= last /\ WriteAt(first, last, v)
    \/ Flush
    \/ \E first, last \in Sectors : first <= last /\ DiscardRange(first, last)
    \/ Fail \/ Crash \/ Reopen

Spec == Init /\ [][Next]_vars

-----------------------------------------------------------------------------
(* Properties. *)

Failed == geom.fault = "error" /\ faults > 0

\* Safety: between calls every sector reads as it was last written, or as the
\* base when it was discarded, whichever of cache, overlay and base holds it,
\* whatever was evicted or reused, also after a crash and open.  Backend calls
\* that fail do not lose what the guest was told is written
\* (BlockCachedDisk and AeroCowDisk: read_at, write_at, discard_range).
ReadsSeeWrites ==
    Idle => \A s \in Sectors \ unsure :
        ~Failed \/ vol[s] # Base(s) => Visible(s) = vol[s]

\* The blocks that the call in progress is filling for the first time.
Filling == {BlockOf(todo[i].sector) : i \in {j \in DOMAIN todo : todo[j].do = "put" /\ todo[j].new}}

\* Safety: a crash at any moment leaves each sector with its value of the last
\* flush or one it was given since, and with no other sector's data, unless
\* its block is just being allocated (flush, ensure_block_allocated,
\* deallocate_block_inner), as long as no backend call has failed.
CrashConfined ==
    status = "open" /\ ~Failed =>
        \A s \in Sectors : BlockOf(s) \in Filling \/ Stored(file.table, s) \in stable[s]

\* Safety: open accepts the image whenever the process dies, except between
\* the header write and the set_len of one allocation, and as long as no
\* backend call has failed (trim_trailing_free_phys, ensure_block_allocated).
ImageOpens ==
    status = "open" /\ ~Failed /\ ~(\E i \in DOMAIN todo : todo[i].do = "grow") => Opens(file)

\* Safety: between calls the file says what memory says and exactly the mapped
\* slots are in use, so that no slot is lost or given out twice, as long as no
\* backend call has failed (phys_used).
SlotsMirrored ==
    Idle /\ ~Failed =>
        /\ mem.table = file.table /\ mem.allocated = file.allocated
        /\ mem.used = Mapped(mem.table)

\* What AeroCowDisk::write_at says of a block that is allocated: it holds the
\* right bytes for the sectors the guest has not written.
OverlayHoldsBase ==
    Idle => \A s \in Sectors :
        vol[s] = Base(s) /\ mem.table[BlockOf(s)] # None => Stored(mem.table, s) = Base(s)
=============================================================================
