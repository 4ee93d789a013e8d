------------------------------ MODULE SparseDisk ------------------------------
(***************************************************************************)
(* The copy-on-write disk of crates/aero-storage: a sparse overlay image   *)
(* (AeroSparseDisk, sparse.rs) over a read-only base (AeroCowDisk,         *)
(* cow.rs).                                                                *)
(*                                                                         *)
(* file is what the storage backend holds, mem what the open disk keeps in *)
(* memory.  A call is a sequence of backend calls, each of which may be    *)
(* the last one before a crash or the one that fails; todo holds the rest  *)
(* of the call in progress, one step per backend call or loop iteration.   *)
(* Offsets count sectors of the data region; the value of a sector is the  *)
(* sector it was written to and a version, so that data which turns up in  *)
(* the wrong place shows.  Version 0 is the base image.                    *)
(***************************************************************************)
EXTENDS Naturals, Sequences, FiniteSets, SequencesExt

CONSTANTS NSectors,    \* capacity, which need not be a multiple of a block
          Setups,      \* the disks to explore: block sizes in sectors, of the
                       \* overlay (block) and of the cache (line), the cache's
                       \* max_cached_blocks (lines), and whether a crash or a
                       \* failing backend or base call is explored (fault)
          MaxVersion,  \* bound: versions a sector is written with
          MaxSlots,    \* bound: physical block slots
          None         \* an entry of the allocation table that is 0

VARIABLES geom,  \* constant during a run
          file, mem, todo

ASSUME DiskAssumption ==
    /\ {NSectors, MaxSlots, MaxVersion} \subseteq Nat \ {0}
    /\ Setups \subseteq [block : 1..NSectors, line : 1..NSectors, lines : 1..NSectors,
                         fault : {"crash", "error"}]
    /\ None \notin Nat

Sectors == 0..(NSectors - 1)
Base(s) == <<s, 0>>
Zero == <<>>
Values == {Zero} \cup (Sectors \X (0..MaxVersion))

BlockOf(s) == s \div geom.block
Blocks == {BlockOf(s) : s \in Sectors}
SectorsOf(b) == {s \in Sectors : BlockOf(s) = b}
Slots == 0..(MaxSlots - 1)
End(n) == n * geom.block
Place(slot, s) == End(slot) + (s % geom.block)
Places == 0..(End(MaxSlots) - 1)

\* The numbers of S in order, and the elements of s whose indexes are in S.
Ascending(S) ==
    [n \in 1..Cardinality(S) |-> CHOOSE i \in S : Cardinality({j \in S : j <= i}) = n]
Picked(s, S) == LET at == Ascending(S) IN [n \in 1..Cardinality(S) |-> s[at[n]]]

\* read_at through an allocation table: the overlay block if there is one,
\* else the base.  After a failed header, entry or grow step a mapped slot can
\* lie beyond the end of the file, where the backend's exact read returns an
\* error (backend.rs:52); here it reads as zero, what the retry makes of it.
Stored(table, s) ==
    IF table[BlockOf(s)] = None THEN Base(s) ELSE file.data[Place(table[BlockOf(s)], s)]

Mapped(table) == {table[b] : b \in Blocks} \ {None}

\* AeroSparseDisk::create
NewImage == [allocated |-> 0, table |-> [b \in Blocks |-> None],
             data |-> [p \in Places |-> Zero], len |-> 0]

\* What AeroSparseDisk::open checks, and what it builds.
Opens(f) ==
    /\ f.allocated <= Cardinality(Blocks)
    /\ f.len >= End(f.allocated)
    /\ \A b \in Blocks : f.table[b] # None => f.table[b] < f.allocated
    /\ \A b, c \in Blocks : b # c /\ f.table[b] # None => f.table[b] # f.table[c]

Loaded(f) == [allocated |-> f.allocated, table |-> f.table, used |-> Mapped(f.table)]

SparseTypeOK ==
    /\ geom \in Setups
    /\ file.allocated \in 0..MaxSlots
    /\ file.table \in [Blocks -> Slots \cup {None}]
    /\ file.data \in [Places -> Values]
    /\ file.len \in 0..End(MaxSlots)
    /\ mem.allocated \in 0..MaxSlots
    /\ mem.table \in [Blocks -> Slots \cup {None}]
    /\ mem.used \in SUBSET Slots

-----------------------------------------------------------------------------
(* Steps. *)

Doing(what) == todo # <<>> /\ Head(todo).do = what
Step == Head(todo)
Continue(steps) == todo' = steps \o Tail(todo)
KeepDisk == UNCHANGED <<file, mem>>

\* set_len: what is cut off reads as zero when the file grows again.
Resize(f, len) == [f EXCEPT !.len = len,
                            !.data = [p \in Places |-> IF p < len THEN @[p] ELSE Zero]]

WriteHeader ==
    /\ Doing("header")
    /\ file' = [file EXCEPT !.allocated = mem.allocated]
    /\ Continue(<<>>) /\ UNCHANGED mem

WriteEntry ==
    /\ Doing("entry")
    /\ file' = [file EXCEPT !.table[Step.block] = mem.table[Step.block]]
    /\ Continue(<<>>) /\ UNCHANGED mem

Grow ==
    /\ Doing("grow")
    /\ file' = IF End(Step.slot + 1) > file.len THEN Resize(file, End(Step.slot + 1)) ELSE file
    /\ Continue(<<>>) /\ UNCHANGED mem

\* write_to_alloc_table of one sector.
PutSector ==
    LET p == Place(mem.table[BlockOf(Step.sector)], Step.sector)
    IN  /\ Doing("put")
        /\ file' = [file EXCEPT !.data[p] = Step.value, !.len = IF p < @ THEN @ ELSE p + 1]
        /\ Continue(<<>>) /\ UNCHANGED mem

-----------------------------------------------------------------------------
(* Writing. *)

Put(s, value, new) == [do |-> "put", sector |-> s, value |-> value, new |-> new]

\* A new block: the prefix from the base, the guest's data, the suffix.
Fill(b, chunk) ==
    [i \in 1..Cardinality(SectorsOf(b)) |->
        LET s == Ascending(SectorsOf(b))[i]
        IN  Put(s, IF s \in DOMAIN chunk THEN chunk[s] ELSE Base(s), TRUE)]

\* find_free_phys_idx
FreeSlots == (0..(mem.allocated - 1)) \ mem.used

\* Mutant: the lowest free slot is taken without being marked.
AllocateUnmarked(b) ==
    LET slot == IF FreeSlots # {} THEN Min(FreeSlots) ELSE mem.allocated
    IN  [mem EXCEPT !.table[b] = slot,
                    !.allocated = IF FreeSlots # {} THEN @ ELSE @ + 1,
                    !.used = IF FreeSlots # {} THEN @ ELSE @ \cup {slot}]

\* The in-memory part of ensure_block_allocated comes before its backend calls.
Allocate(b) ==
    LET slot == IF FreeSlots # {} THEN Min(FreeSlots) ELSE mem.allocated
    IN  [mem EXCEPT !.table[b] = slot, !.used = @ \cup {slot},
                    !.allocated = IF FreeSlots # {} THEN @ ELSE @ + 1]

\* AeroCowDisk::write_at, one iteration: the chunk is within one block.
CowWrite ==
    LET b == BlockOf(Min(DOMAIN Step.chunk))
        new == Allocate(b)
        puts == LET S == Ascending(DOMAIN Step.chunk)
                IN  [i \in 1..Len(S) |-> Put(S[i], Step.chunk[S[i]], FALSE)]
    IN  /\ Doing("cow")
        /\ \/ /\ mem.table[b] # None
              /\ Continue(puts) /\ UNCHANGED mem
           \/ /\ mem.table[b] = None
              /\ mem' = new
              /\ Continue((IF FreeSlots = {} THEN <<[do |-> "header"]>> ELSE <<>>)
                          \o <<[do |-> "entry", block |-> b],
                               [do |-> "grow", slot |-> new.table[b]]>>
                          \o Fill(b, Step.chunk))
        /\ UNCHANGED file

-----------------------------------------------------------------------------
(* Discarding. *)

\* deallocate_block_inner: the slot is free once the entry is cleared on file.
DeallocateBlock ==
    LET b == Step.block
    IN  /\ Doing("dealloc")
        /\ mem' = [mem EXCEPT !.table[b] = None]
        /\ Continue(IF mem.table[b] = None THEN <<>>
                    ELSE <<[do |-> "clear", block |-> b, slot |-> mem.table[b]]>>)
        /\ UNCHANGED file

ClearEntry ==
    /\ Doing("clear")
    /\ file' = [file EXCEPT !.table[Step.block] = None]
    /\ mem' = [mem EXCEPT !.used = @ \ {Step.slot}]
    /\ Continue(<<>>)

\* Mutant: the file is cut before the header says so.
TrimCutsFirst ==
    LET n == IF mem.used = {} THEN 0 ELSE Max(mem.used) + 1
    IN  /\ Doing("trim")
        /\ mem' = [mem EXCEPT !.allocated = n]
        /\ Continue(IF n = mem.allocated THEN <<>> ELSE <<[do |-> "truncate"], [do |-> "header"]>>)
        /\ UNCHANGED file

\* trim_trailing_free_phys: the header is written before the file is cut.
Trim ==
    LET n == IF mem.used = {} THEN 0 ELSE Max(mem.used) + 1
    IN  /\ Doing("trim")
        /\ mem' = [mem EXCEPT !.allocated = n]
        /\ Continue(IF n = mem.allocated THEN <<>> ELSE <<[do |-> "header"], [do |-> "truncate"]>>)
        /\ UNCHANGED file

Truncate ==
    /\ Doing("truncate")
    /\ file' = IF End(mem.allocated) < file.len THEN Resize(file, End(mem.allocated)) ELSE file
    /\ Continue(<<>>) /\ UNCHANGED mem

\* discard_range of sectors first..last: the blocks it covers whole.
Covered(first, last) == {b \in Blocks : first <= End(b) /\ End(b + 1) - 1 <= last}

DiscardSteps(first, last) ==
    LET S == Ascending(Covered(first, last))
    IN  IF S = <<>> THEN <<>>
        ELSE [i \in 1..Len(S) |-> [do |-> "dealloc", block |-> S[i]]] \o <<[do |-> "trim"]>>

DiskStep ==
    \/ WriteHeader \/ WriteEntry \/ Grow \/ PutSector
    \/ CowWrite
    \/ DeallocateBlock \/ ClearEntry \/ Trim \/ Truncate
=============================================================================
