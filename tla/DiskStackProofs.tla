--------------------------- MODULE DiskStackProofs ---------------------------
(***************************************************************************)
(* The disk stack of DiskStack, for every number of sectors, every size of *)
(* blocks and cache lines, every number of cached lines, of versions and   *)
(* of failures: the types, what the image file says, and what reads and    *)
(* crashes return.                                                         *)
(***************************************************************************)
EXTENDS DiskStack, FiniteSetTheorems, SequenceTheorems, TLAPS

-----------------------------------------------------------------------------
(* Numbers *)

\* The well-ordering of the naturals, as a fact about sets.
LEMMA LeastNat ==
    ASSUME NEW T \in SUBSET Nat, T # {}
    PROVE  \E x \in T : \A y \in T : x <= y
<1>1. PICK x \in T : \A y \in T : ~(<<y, x>> \in OpToRel(<, Nat))
  BY Zenon, NatLessThanWellFounded, WFMin
<1>2. \A y \in T : ~(y < x)
  BY <1>1 DEF OpToRel
<1> QED
  BY <1>2

\* Min of a set of numbers is one of them.
LEMMA MinFacts ==
    ASSUME NEW S \in SUBSET Nat, S # {}
    PROVE  Min(S) \in S
<1>1. \E x \in S : \A y \in S : x <= y
  BY LeastNat
<1> QED
  BY <1>1 DEF Min

\* Max of a bounded set of numbers is one of them and bounds them.
LEMMA MaxFacts ==
    ASSUME NEW n \in Nat, NEW S \in SUBSET (0 .. n), S # {}
    PROVE  Max(S) \in S /\ \A x \in S : x <= Max(S)
<1> DEFINE T == {k \in 0 .. n : n - k \in S}
<1>1. T \in SUBSET Nat
  OBVIOUS
<1>2. T # {}
  <2>1. PICK x \in S : TRUE
    OBVIOUS
  <2>2. n - x \in 0 .. n /\ n - (n - x) = x
    OBVIOUS
  <2>3. n - x \in T
    BY <2>2
  <2> QED
    BY <2>3
<1>3. PICK k \in T : \A y \in T : k <= y
  <2> HIDE DEF T
  <2> QED
    BY <1>1, <1>2, LeastNat
<1>4. n - k \in S
  BY <1>3
<1>5. ASSUME NEW x \in S PROVE x <= n - k
  <2>1. n - x \in 0 .. n /\ n - (n - x) = x
    OBVIOUS
  <2>2. n - x \in T
    BY <2>1
  <2>3. k <= n - x
    BY <1>3, <2>2
  <2> QED
    BY <2>1, <2>3
<1>6. \E x \in S : \A y \in S : x >= y
  BY <1>4, <1>5
<1>7. Max(S) \in S /\ \A y \in S : Max(S) >= y
  BY <1>6 DEF Max
<1> QED
  BY <1>7

LEMMA FiniteNumbers ==
    ASSUME NEW m \in Nat, NEW S \in SUBSET (0 .. m)
    PROVE  IsFiniteSet(S) /\ Cardinality(S) \in Nat
<1>1. IsFiniteSet(0 .. m)
  BY FS_Interval
<1>2. IsFiniteSet(S)
  BY <1>1, FS_Subset
<1> QED
  BY <1>2, FS_CardinalityType

\* The elements of a set of numbers that are at most i.
UpTo(S, i) == {j \in S : j <= i}

\* Every rank from 1 to the size of a finite set of numbers is taken.
LEMMA RankExists ==
    ASSUME NEW m \in Nat, NEW S \in SUBSET (0 .. m), NEW n \in 1 .. Cardinality(S)
    PROVE  \E i \in S : Cardinality(UpTo(S, i)) = n
<1>0. \A j \in S : j \in Nat /\ 0 <= j /\ j <= m
  OBVIOUS
<1>1. IsFiniteSet(S) /\ Cardinality(S) \in Nat
  BY FiniteNumbers
<1>2. \A i \in -1 .. m : IsFiniteSet(UpTo(S, i)) /\ Cardinality(UpTo(S, i)) \in Nat
  BY <1>1, FS_Subset, FS_CardinalityType DEF UpTo
<1> DEFINE T == {i \in 0 .. m : Cardinality(UpTo(S, i)) >= n}
<1>3. m \in T
  <2>1. UpTo(S, m) = S
    BY <1>0 DEF UpTo
  <2> QED
    BY <1>1, <2>1
<1>4. PICK x \in T : \A y \in T : x <= y
  <2>1. T \in SUBSET Nat /\ T # {}
    BY <1>3
  <2> HIDE DEF T
  <2> QED
    BY <2>1, LeastNat
<1>5. x \in 0 .. m /\ x - 1 \in -1 .. m
  OBVIOUS
<1>6. Cardinality(UpTo(S, x - 1)) < n
  <2>1. CASE x = 0
    <3>1. \A j \in S : ~(j <= x - 1)
      BY <1>0, <2>1
    <3>2. UpTo(S, x - 1) = {}
      BY <3>1 DEF UpTo
    <3>3. Cardinality(UpTo(S, x - 1)) = 0
      BY <3>2, FS_EmptySet
    <3> QED
      BY <3>3
  <2>2. CASE x # 0
    <3>1. x - 1 \in 0 .. m /\ x - 1 \notin T
      BY <1>4, <1>5, <2>2
    <3> QED
      BY <1>2, <1>5, <3>1
  <2> QED
    BY <2>1, <2>2
<1>7. x \in S
  <2> SUFFICES ASSUME x \notin S PROVE FALSE
    OBVIOUS
  <2>1. \A j \in S : j <= x <=> j <= x - 1
    BY <1>0, <1>5
  <2>2. UpTo(S, x) = UpTo(S, x - 1)
    BY <2>1 DEF UpTo
  <2> QED
    BY <1>2, <1>4, <1>5, <1>6, <2>2
<1>8. Cardinality(UpTo(S, x)) = Cardinality(UpTo(S, x - 1)) + 1
  <2>0. /\ \A j \in S : j <= x <=> (j <= x - 1 \/ j = x)
        /\ ~(x <= x - 1) /\ x <= x
    BY <1>0, <1>5
  <2>1. UpTo(S, x) = UpTo(S, x - 1) \cup {x} /\ x \notin UpTo(S, x - 1)
    BY <1>7, <2>0 DEF UpTo
  <2> QED
    BY <1>2, <1>5, <2>1, FS_AddElement
<1> QED
  BY <1>2, <1>4, <1>5, <1>6, <1>7, <1>8

\* Ascending(S) lists S, each element once.
LEMMA AscendingFacts ==
    ASSUME NEW m \in Nat, NEW S \in SUBSET (0 .. m)
    PROVE  /\ IsFiniteSet(S) /\ Cardinality(S) \in Nat
           /\ Ascending(S) \in Seq(S) /\ Len(Ascending(S)) = Cardinality(S)
           /\ \A n \in 1 .. Cardinality(S) : Ascending(S)[n] \in S
           /\ \A n, k \in 1 .. Cardinality(S) : Ascending(S)[n] = Ascending(S)[k] => n = k
           /\ \A i \in S : \E n \in 1 .. Cardinality(S) : Ascending(S)[n] = i
<1>1. IsFiniteSet(S) /\ Cardinality(S) \in Nat
  BY FiniteNumbers
<1> DEFINE Nth(n) == CHOOSE i \in S : Cardinality({j \in S : j <= i}) = n
<1>2. \A n \in 1 .. Cardinality(S) : Nth(n) \in S /\ Cardinality(UpTo(S, Nth(n))) = n
  <2> SUFFICES ASSUME NEW n \in 1 .. Cardinality(S)
               PROVE  Nth(n) \in S /\ Cardinality(UpTo(S, Nth(n))) = n
    OBVIOUS
  <2>1. \E i \in S : Cardinality({j \in S : j <= i}) = n
    BY RankExists DEF UpTo
  <2> QED
    BY <2>1 DEF UpTo
<1>3. Ascending(S) = [n \in 1 .. Cardinality(S) |-> Nth(n)]
  BY DEF Ascending
<1> HIDE DEF Nth
<1>4. Ascending(S) \in Seq(S) /\ Len(Ascending(S)) = Cardinality(S)
  BY <1>1, <1>2, <1>3, IsASeq
<1>5. \A n, k \in 1 .. Cardinality(S) : Ascending(S)[n] = Ascending(S)[k] => n = k
  BY <1>2, <1>3
<1>6. Ascending(S) \in Injection(1 .. Cardinality(S), S)
  BY <1>2, <1>3, <1>5 DEF Injection, IsInjective
<1>7. Cardinality(1 .. Cardinality(S)) = Cardinality(S)
  BY <1>1, FS_Interval
<1>8. Ascending(S) \in Surjection(1 .. Cardinality(S), S)
  BY <1>1, <1>6, <1>7, FS_Injection
<1>9. \A n \in 1 .. Cardinality(S) : Ascending(S)[n] \in S
  BY <1>2, <1>3
<1> QED
  BY <1>1, <1>4, <1>5, <1>8, <1>9 DEF Surjection

\* Picked(s, S) holds the elements of s with an index in S, each one once.
LEMMA PickedFacts ==
    ASSUME NEW T, NEW s \in Seq(T), NEW S \in SUBSET DOMAIN s
    PROVE  /\ Picked(s, S) \in Seq(T)
           /\ Len(Picked(s, S)) = Cardinality(S) /\ Cardinality(S) <= Len(s)
           /\ Range(Picked(s, S)) = {s[i] : i \in S}
           /\ \A n, k \in DOMAIN Picked(s, S) : n # k =>
                 \E i, j \in S : i # j /\ Picked(s, S)[n] = s[i] /\ Picked(s, S)[k] = s[j]
<1>1. DOMAIN s = 1 .. Len(s) /\ Len(s) \in Nat /\ S \in SUBSET (0 .. Len(s))
  OBVIOUS
<1> DEFINE c == Cardinality(S)
           a == Ascending(S)
<1>2. /\ IsFiniteSet(S) /\ c \in Nat /\ a \in Seq(S) /\ Len(a) = c
      /\ \A n, k \in 1 .. c : a[n] = a[k] => n = k
      /\ \A i \in S : \E n \in 1 .. c : a[n] = i
  BY <1>1, AscendingFacts
<1>3. Picked(s, S) = [n \in 1 .. c |-> s[a[n]]]
  BY DEF Picked
<1>4. c <= Len(s)
  <2>1. IsFiniteSet(1 .. Len(s)) /\ Cardinality(1 .. Len(s)) = Len(s)
    BY <1>1, FS_Interval
  <2> QED
    BY <1>1, <2>1, FS_Subset
<1> HIDE DEF a, c
<1>5. \A n \in 1 .. c : a[n] \in S /\ s[a[n]] \in T
  BY <1>1, <1>2
<1>6. Picked(s, S) \in Seq(T) /\ Len(Picked(s, S)) = c
  BY <1>2, <1>3, <1>5, IsASeq
<1>7. DOMAIN Picked(s, S) = 1 .. c
  BY <1>3
<1>8. Range(Picked(s, S)) = {s[i] : i \in S}
  <2>1. \A n \in 1 .. c : Picked(s, S)[n] = s[a[n]]
    BY <1>3
  <2>2. Range(Picked(s, S)) = {Picked(s, S)[n] : n \in 1 .. c}
    BY <1>7 DEF Range
  <2>3. \A x \in Range(Picked(s, S)) : x \in {s[i] : i \in S}
    BY <1>5, <2>1, <2>2
  <2>4. ASSUME NEW i \in S PROVE s[i] \in Range(Picked(s, S))
    BY <1>2, <2>1, <2>2
  <2> QED
    BY <2>3, <2>4
<1>9. \A n, k \in DOMAIN Picked(s, S) : n # k =>
                 \E i, j \in S : i # j /\ Picked(s, S)[n] = s[i] /\ Picked(s, S)[k] = s[j]
  BY <1>2, <1>3, <1>5, <1>7
<1> QED
  BY <1>4, <1>6, <1>8, <1>9 DEF c

-----------------------------------------------------------------------------
(* Geometry *)

LEMMA DivMod ==
    ASSUME NEW b \in Nat \ {0}, NEW s \in Nat
    PROVE  /\ s \div b \in Nat /\ b * (s \div b) \in Nat
           /\ s % b \in 0 .. b - 1 /\ s % b = s - b * (s \div b)
<1>1. s % b \in 0 .. b - 1
  OBVIOUS
<1>2. s \div b \in Int /\ s \div b >= 0
  OBVIOUS
<1>3. s % b = s - b * (s \div b)
  OBVIOUS
<1>4. b * (s \div b) \in Nat
  BY <1>2
<1> QED
  BY <1>1, <1>2, <1>3, <1>4

\* Blocks of b places do not overlap.
LEMMA PlaceOnce ==
    ASSUME NEW b \in Nat \ {0}, NEW x \in Nat, NEW y \in Nat,
           NEW r \in 0 .. b - 1, NEW q \in 0 .. b - 1, x * b + r = y * b + q
    PROVE  x = y /\ r = q
<1>1. ASSUME NEW u \in Nat, NEW w \in Nat, u < w PROVE u * b + b <= w * b
  <2>1. PICK k \in Nat : w = u + 1 + k
    <3>1. w - u - 1 \in Nat /\ w = u + 1 + (w - u - 1)
      BY <1>1
    <3> QED
      BY <3>1
  <2>2. w * b = u * b + b + k * b
    BY <2>1
  <2>3. k * b \in Nat /\ u * b \in Nat
    OBVIOUS
  <2> QED
    BY <2>2, <2>3
<1>2. x * b \in Nat /\ y * b \in Nat
  OBVIOUS
<1>3. ~(x < y)
  BY <1>1, <1>2
<1>4. ~(y < x)
  BY <1>1, <1>2
<1>5. x = y
  BY <1>3, <1>4
<1> QED
  BY <1>2, <1>5

\* One size of a block or line is at least 1.
LEMMA GeomType ==
    ASSUME geom \in Setups
    PROVE  /\ NSectors \in Nat \ {0} /\ MaxSlots \in Nat \ {0} /\ MaxVersion \in Nat \ {0}
           /\ MaxFaults \in Nat /\ NSectors + MaxFaults <= MaxSlots /\ None \notin Nat
           /\ geom.block \in Nat \ {0} /\ geom.line \in Nat \ {0} /\ geom.lines \in Nat \ {0}
           /\ geom.fault \in {"crash", "error"}
<1>1. geom \in [block : 1..NSectors, line : 1..NSectors, lines : 1..NSectors,
                         fault : {"crash", "error"}]
  BY DiskAssumption
<1>2. NSectors \in Nat \ {0} /\ MaxSlots \in Nat \ {0} /\ MaxVersion \in Nat \ {0}
  BY DiskAssumption
<1> QED
  BY <1>1, <1>2, DiskAssumption, StackAssumption

\* Sectors and their blocks and lines.
LEMMA SectorFacts ==
    ASSUME geom \in Setups
    PROVE  /\ \A s \in Sectors : /\ s \in 0 .. NSectors /\ s \in Nat
                                /\ BlockOf(s) \in Blocks /\ LineOf(s) \in Lines
                                /\ s \in SectorsOf(BlockOf(s)) /\ s \in InLine(LineOf(s))
           /\ Blocks \in SUBSET (0 .. NSectors) /\ Lines \in SUBSET (0 .. NSectors)
           /\ Sectors \in SUBSET (0 .. NSectors)
           /\ \A b \in Blocks : b \in Nat /\ \E s \in Sectors : BlockOf(s) = b
           /\ \A k \in Lines : k \in Nat /\ \E s \in Sectors : LineOf(s) = k
           /\ \A b : \A s \in SectorsOf(b) : s \in Sectors /\ BlockOf(s) = b
           /\ \A k : \A s \in InLine(k) : s \in Sectors /\ LineOf(s) = k
<1>1. \A s \in Sectors : s \in 0 .. NSectors /\ s \in Nat /\ s < NSectors
  BY GeomType DEF Sectors
<1>2. ASSUME NEW s \in Sectors, NEW b \in Nat \ {0} PROVE s \div b \in 0 .. NSectors
  <2>1. /\ s \div b \in Nat /\ b * (s \div b) \in Nat
        /\ s % b \in 0 .. b - 1 /\ s % b = s - b * (s \div b)
    BY <1>1, <1>2, DivMod
  <2>2. PICK q \in Nat : q = s \div b
    BY <2>1
  <2>3. q <= b * q
    BY <1>2
  <2>4. b * q <= s
    BY <1>1, <1>2, <2>1, <2>2
  <2>5. q <= s
    BY <1>1, <1>2, <2>3, <2>4
  <2> QED
    BY <1>1, <2>2, <2>5, GeomType
<1>3. \A s \in Sectors : BlockOf(s) \in 0 .. NSectors /\ LineOf(s) \in 0 .. NSectors
  BY <1>2, GeomType DEF BlockOf, LineOf
<1> QED
  BY <1>1, <1>3 DEF Blocks, Lines, SectorsOf, InLine

\* A block has at most as many slots as there are sectors.
LEMMA BlocksFinite ==
    ASSUME geom \in Setups
    PROVE  IsFiniteSet(Blocks) /\ Cardinality(Blocks) \in Nat /\ Cardinality(Blocks) <= NSectors
<1>1. IsFiniteSet(Sectors) /\ Cardinality(Sectors) = NSectors
  <2>1. NSectors \in Nat \ {0} /\ NSectors - 1 \in Int /\ ~(0 > NSectors - 1)
    BY GeomType
  <2>2. IsFiniteSet(0 .. NSectors - 1) /\ Cardinality(0 .. NSectors - 1) = NSectors - 1 - 0 + 1
    BY <2>1, FS_Interval
  <2> QED
    BY <2>1, <2>2 DEF Sectors
<1> DEFINE f == [s \in Sectors |-> BlockOf(s)]
<1>2. f \in Surjection(Sectors, Blocks)
  BY DEF Surjection, Blocks
<1> HIDE DEF f
<1>3. IsFiniteSet(Blocks) /\ Cardinality(Blocks) <= Cardinality(Sectors)
  BY <1>1, <1>2, FS_Surjection
<1> QED
  BY <1>1, <1>3, FS_CardinalityType

\* A place of the data region belongs to one slot and one sector of a block.
LEMMA PlaceFacts ==
    ASSUME geom \in Setups
    PROVE  /\ \A k \in Nat, s \in Sectors :
                 /\ Place(k, s) \in Nat /\ End(k) <= Place(k, s) /\ Place(k, s) < End(k + 1)
                 /\ End(k) \in Nat
           /\ \A k, j \in Nat, s, r \in Sectors : Place(k, s) = Place(j, r) =>
                 k = j /\ (BlockOf(s) = BlockOf(r) => s = r)
           /\ \A k, j \in Nat : k <= j => End(k) <= End(j)
           /\ \A k \in Slots, s \in Sectors : Place(k, s) \in Places
<1> DEFINE b == geom.block
<1>1. b \in Nat \ {0} /\ MaxSlots \in Nat
  BY GeomType
<1> HIDE DEF b
<1>2. /\ \A k \in Nat : End(k) = k * b
      /\ \A k \in Nat, s \in Sectors : Place(k, s) = k * b + (s % b)
      /\ \A s \in Sectors : BlockOf(s) = s \div b
  <2>1. \A k \in Nat : End(k) = k * b
    BY DEF End, b
  <2>2. \A k, s : Place(k, s) = End(k) + (s % b)
    BY Zenon DEF Place, b
  <2>3. \A s \in Sectors : BlockOf(s) = s \div b
    BY Zenon DEF BlockOf, b
  <2> QED
    BY Zenon, <2>1, <2>2, <2>3
<1>3. \A k \in Nat : k * b \in Nat /\ (k + 1) * b = k * b + b
  BY <1>1
<1>4. \A s \in Sectors : s \in Nat /\ s % b \in 0 .. b - 1 /\ s % b = s - b * (s \div b)
                         /\ b * (s \div b) \in Nat /\ s \div b \in Nat
  BY <1>1, DivMod, SectorFacts
<1>5. \A k \in Nat, s \in Sectors : /\ Place(k, s) \in Nat /\ End(k) <= Place(k, s)
                                    /\ Place(k, s) < End(k + 1) /\ End(k) \in Nat
  <2> TAKE k \in Nat, s \in Sectors
  <2>1. End(k) = k * b /\ End(k + 1) = k * b + b /\ Place(k, s) = k * b + (s % b)
    BY <1>2, <1>3
  <2>2. PICK n \in Nat, r \in 0 .. b - 1 : n = k * b /\ r = s % b
    BY <1>3, <1>4
  <2>3. End(k) = n /\ End(k + 1) = n + b /\ Place(k, s) = n + r
    BY Zenon, <2>1, <2>2
  <2> QED
    BY ONLY <1>1, <2>3, r \in 0 .. b - 1, n \in Nat
<1>6. ASSUME NEW k \in Nat, NEW j \in Nat, NEW s \in Sectors, NEW r \in Sectors,
             Place(k, s) = Place(j, r)
      PROVE  k = j /\ (BlockOf(s) = BlockOf(r) => s = r)
  <2>1. k = j /\ s % b = r % b
    <3>1. k * b + (s % b) = j * b + (r % b)
      BY <1>2, <1>6
    <3>2. s % b \in 0 .. b - 1 /\ r % b \in 0 .. b - 1
      BY <1>4
    <3>3. PICK u \in 0 .. b - 1, w \in 0 .. b - 1 : u = s % b /\ w = r % b
      BY <3>2
    <3>4. k * b + u = j * b + w
      BY Zenon, <3>1, <3>3
    <3>5. k = j /\ u = w
      BY ONLY <1>1, <3>4, PlaceOnce, k \in Nat, j \in Nat, u \in 0 .. b - 1, w \in 0 .. b - 1
    <3> QED
      BY <3>3, <3>5
  <2>2. ASSUME s \div b = r \div b PROVE s = r
    BY <1>4, <2>1, <2>2
  <2> QED
    BY <1>2, <2>1, <2>2
<1>7. ASSUME NEW k \in Nat, NEW j \in Nat, k <= j PROVE End(k) <= End(j)
  <2>1. PICK d \in Nat : j = k + d
    <3>1. j - k \in Nat /\ j = k + (j - k)
      BY <1>7
    <3> QED
      BY <3>1
  <2>2. j * b = k * b + d * b /\ d * b \in Nat /\ k * b \in Nat
    BY <1>1, <2>1
  <2> QED
    BY <1>2, <2>2
<1>8. ASSUME NEW k \in Slots, NEW s \in Sectors PROVE Place(k, s) \in Places
  <2>1. k \in Nat /\ k + 1 \in Nat /\ k + 1 <= MaxSlots
    BY <1>1, <1>8 DEF Slots
  <2>2. Place(k, s) < End(k + 1) /\ End(k + 1) <= End(MaxSlots) /\ Place(k, s) \in Nat
        /\ End(k + 1) \in Nat /\ End(MaxSlots) \in Nat
    BY <1>1, <1>5, <1>7, <2>1
  <2> QED
    BY <2>2 DEF Places
<1> QED
  BY <1>5, <1>6, <1>7, <1>8
-----------------------------------------------------------------------------
(* The steps that are left of a call and the entries of the cache, as sets; *)
(* their order is Ordered and the place of the last entry.                 *)

Work == Range(todo)
Held == Range(cache)

Chunks == UNION {[S -> Values] : S \in SUBSET Sectors}
Lined == UNION {[line : {k}, data : [InLine(k) -> Values], dirty : BOOLEAN] : k \in Lines}

\* What a step may be.
Steps ==
    [do : {"header", "trim", "truncate", "evict", "evicted", "flushed"}]
    \cup [do : {"entry", "dealloc"}, block : Blocks]
    \cup [do : {"clear"}, block : Blocks, slot : Slots]
    \cup [do : {"grow"}, slot : Slots]
    \cup [do : {"put"}, sector : Sectors, value : Values, new : BOOLEAN]
    \cup {t \in [do : {"cow"}, chunk : Chunks] :
             /\ DOMAIN t.chunk # {}
             /\ \A s, r \in DOMAIN t.chunk : BlockOf(s) = BlockOf(r)}
    \cup [do : {"load", "sync", "clean"}, line : Lines]
    \cup {t \in [do : {"chunk"}, line : Lines, data : Chunks] : DOMAIN t.data \subseteq InLine(t.line)}
    \cup [do : {"insert"}, entry : Lined]
    \cup [do : {"drop"}, lines : SUBSET Lines, blocks : SUBSET Blocks, sure : SUBSET Sectors]
    \cup [do : {"written"}, sure : SUBSET Sectors]

\* Which step may stand before which: a call's backend calls come first, and
\* what a write-back stands for is done before what follows it begins.
Storing == {"header", "entry", "grow", "put", "cow"}

Before(x, y) ==
    \/ y \in {"entry", "truncate"} /\ x = "header"
    \/ y = "grow" /\ x \in {"header", "entry"}
    \/ y = "put" /\ x \in {"header", "entry", "grow", "put"}
    \/ y \in {"cow", "clean", "evicted"} /\ x \in Storing
    \/ y = "evict" /\ x \in Storing \cup {"evicted"}
    \/ y = "insert" /\ x \in Storing \cup {"evicted", "evict"}
    \/ y \in {"chunk", "written"} /\ x \in Storing \cup {"evicted", "evict", "insert", "chunk"}
    \/ y \in {"sync", "flushed"} /\ x \in Storing \cup {"clean", "sync"}
    \/ y \in {"dealloc", "trim"} /\ x \in Storing \cup {"clean", "sync", "clear", "dealloc"}
    \/ y = "drop" /\ x \in Storing \cup {"clean", "sync", "clear", "dealloc", "trim", "truncate"}

Ordered(q) == \A i, j \in DOMAIN q : i < j => Before(q[i].do, q[j].do)

Has(T, kind) == \E t \in T : t.do = kind

\* The slots whose entry is being cleared on file, and the number of slots
\* that failures may have cost.
Clearing(T) == {t.slot : t \in {u \in T : u.do = "clear"}}
Lost(n) == IF geom.fault = "error" THEN n ELSE 0

MemInv(T, m, len, d, n) ==
    /\ \A b, c \in Blocks : m.table[b] # None /\ m.table[b] = m.table[c] => b = c
    /\ \A b \in Blocks : m.table[b] # None => m.table[b] \in m.used
    /\ m.used \subseteq 0 .. (m.allocated - 1)
    /\ \E L \in SUBSET m.used :
          Cardinality(L) <= Lost(n) /\ m.used \subseteq Mapped(m.table) \cup Clearing(T) \cup L
    /\ m.allocated <= Cardinality(Blocks) + Lost(n)
    /\ \A t \in T : t.do = "grow" => t.slot \in m.used
    /\ \A t \in T : t.do = "put" => m.table[BlockOf(t.sector)] # None
    /\ \A t \in T : t.do = "clear" =>
          m.table[t.block] = None /\ t.slot \in m.used /\ \A b \in Blocks : m.table[b] # t.slot
    /\ \A t, u \in T : t.do = "cow" /\ u.do = "cow" /\ t # u =>
          \A s \in DOMAIN t.chunk, r \in DOMAIN u.chunk : BlockOf(s) # BlockOf(r)
    /\ \A p \in Places : p >= len => d[p] = Zero

SlotInv(T, m, f) ==
    /\ ~Has(T, "header") => f.allocated = m.allocated
    /\ \A b \in Blocks : \/ f.table[b] = m.table[b]
                         \/ \E t \in T : t.do \in {"entry", "clear"} /\ t.block = b
    /\ Has(T, "header") /\ ~Has(T, "grow") =>
          m.allocated <= f.allocated /\ f.allocated <= Cardinality(Blocks)
    /\ Has(T, "entry") => Has(T, "grow")
    /\ ~Has(T, "grow") => End(f.allocated) <= f.len
    /\ \A t \in T : t.do = "grow" =>
          \/ t.slot + 1 = m.allocated
          \/ ~Has(T, "header") /\ End(f.allocated) <= f.len
    /\ \A t \in T : t.do = "clear" => f.table[t.block] = t.slot

CacheInv(T, c) ==
    /\ \A t \in T : t.do = "insert" => \A e \in Range(c) : e.line # t.entry.line
    /\ Has(T, "insert") /\ ~Has(T, "evict") => Len(c) < geom.lines
    /\ Has(T, "evicted") => c # <<>>
    /\ \A t \in T : t.do \in {"sync", "clean"} => \E e \in Range(c) : e.line = t.line

\* Some step of T stores v in sector s.
Writes(T, s, v) ==
    \E t \in T : \/ t.do = "put" /\ t.sector = s /\ t.value = v
                 \/ t.do = "cow" /\ s \in DOMAIN t.chunk /\ t.chunk[s] = v

\* What sector s reads as through a table, from the data region d.
At(tb, d, s) == IF tb[BlockOf(s)] = None THEN Base(s) ELSE d[Place(tb[BlockOf(s)], s)]

\* The disk holds v in s once the steps of T are done.
Settles(T, tb, d, s, v) ==
    /\ \A w \in Values : Writes(T, s, w) => w = v
    /\ Writes(T, s, v) \/ At(tb, d, s) = v

\* The cache and the disk have v for s.
Good(T, E, tb, d, s, v) ==
    /\ \A e \in E : e.line = LineOf(s) => e.data[s] = v
    /\ (\A e \in E : e.line = LineOf(s) => ~e.dirty) => Settles(T, tb, d, s, v)

\* A write of s is still to reach the cache.
Coming(T, s) ==
    \E t \in T : \/ t.do = "chunk" /\ s \in DOMAIN t.data
                 \/ t.do = "insert" /\ t.entry.dirty /\ s \in DOMAIN t.entry.data

Tracked(T, un, s) ==
    \/ s \notin un
    \/ \E t \in T : t.do = "drop" /\ s \in t.sure /\ BlockOf(s) \notin t.blocks
    \/ (\E t \in T : t.do = "written" /\ s \in t.sure) /\ ~Coming(T, s)

\* A sector that the cache and the disk must have right; n counts the slots
\* that failures may have cost.
Kept(T, un, v, s, n) == s \in Sectors /\ Tracked(T, un, s) /\ (n = 0 \/ v[s] # Base(s))

DataInv(T, E, last, tb, d, v, un, n) ==
    /\ \A s \in Sectors : Kept(T, un, v, s, n) => Good(T, E, tb, d, s, v[s])
    /\ Has(T, "evicted") => last.dirty /\ \A s \in InLine(last.line) : Settles(T, tb, d, s, last.data[s])
    /\ \A t \in T : t.do = "clean" => \A e \in E : e.line = t.line =>
          \A s \in InLine(e.line) : Settles(T, tb, d, s, e.data[s])
    /\ \A s \in Sectors, w \in Values : Writes(T, s, w) /\ w # Base(s) =>
          \E e \in E : e.line = LineOf(s) /\ e.dirty
    /\ \A t \in T : t.do = "chunk" => \A s \in DOMAIN t.data : t.data[s] = v[s]
    /\ \A t \in T : t.do = "insert" => \A s \in InLine(t.entry.line) :
          t.entry.dirty \/ Kept(T, un, v, s, n) => t.entry.data[s] = v[s]

DropInv(T, E, tb, un) ==
    /\ \A t \in T : t.do = "drop" =>
          /\ \A e \in E : e.line \in t.lines /\ e.dirty =>
                \E u \in T : u.do \in {"sync", "clean"} /\ u.line = e.line
          /\ \A b \in t.blocks : \/ \E u \in T : u.do = "dealloc" /\ u.block = b
                                 \/ tb[b] = None /\ \A u \in T : u.do \notin {"sync", "cow"}
          /\ \A b \in t.blocks : \A s \in SectorsOf(b) : s \in un /\ LineOf(s) \in t.lines
          /\ \A s \in t.sure : LineOf(s) \in t.lines
    /\ \A u \in T : u.do = "dealloc" => \E t \in T : t.do = "drop" /\ u.block \in t.blocks
    /\ \A t \in T : t.do = "flushed" => \A e \in E : e.dirty =>
          \E u \in T : u.do \in {"sync", "clean"} /\ u.line = e.line

CrashInv(T, E, m, f, v, st, un) ==
    /\ \A s \in Sectors : v[s] \in st[s]
    /\ \A e \in E : \A s \in InLine(e.line) : e.data[s] \in st[s]
    /\ \A t \in T : t.do = "insert" => \A s \in InLine(t.entry.line) : t.entry.data[s] \in st[s]
    /\ \A s \in Sectors, w \in Values : Writes(T, s, w) => w \in st[s]
    /\ \A s \in Sectors : \/ \E t \in T : t.do = "put" /\ t.sector = s /\ t.new
                          \/ At(m.table, f.data, s) \in st[s]
    /\ \A t \in T : t.do = "clear" => \A s \in SectorsOf(t.block) : f.data[Place(t.slot, s)] \in st[s]
    /\ \A t \in T : t.do = "clear" => \E u \in T : u.do = "drop" /\ t.block \in u.blocks
    /\ \A t \in T : t.do = "drop" => \A b \in t.blocks : \A s \in SectorsOf(b) : Base(s) \in st[s]
    /\ \A t \in T : t.do = "entry" =>
          \E u \in T : u.do = "put" /\ u.new /\ BlockOf(u.sector) = t.block
    /\ \A s \in un : \E t \in T : t.do \in {"written", "drop"} /\ s \in t.sure

Sound == status = "open" /\ ~Failed

-----------------------------------------------------------------------------
(* Sequences of steps *)

\* A sequence of steps that may be left of a call.
Plan(q) == q \in Seq(Steps) /\ Ordered(q)

\* Every step of p may stand before every step of q.
Precedes(p, q) == \A t \in Range(p), u \in Range(q) : Before(t.do, u.do)

LEMMA RangeOf ==
    ASSUME NEW T, NEW q \in Seq(T)
    PROVE  /\ DOMAIN q = 1 .. Len(q) /\ Len(q) \in Nat
           /\ \A i \in 1 .. Len(q) : q[i] \in Range(q)
           /\ \A t \in Range(q) : t \in T /\ \E i \in 1 .. Len(q) : q[i] = t
           /\ Range(q) \subseteq T
  BY DEF Range

LEMMA RangeConcat ==
    ASSUME NEW T, NEW p \in Seq(T), NEW q \in Seq(T)
    PROVE  p \o q \in Seq(T) /\ Range(p \o q) = Range(p) \cup Range(q)
           /\ Len(p \o q) = Len(p) + Len(q)
<1>1. /\ p \o q \in Seq(T) /\ Len(p \o q) = Len(p) + Len(q)
      /\ \A i \in 1 .. Len(p) + Len(q) :
            (p \o q)[i] = IF i <= Len(p) THEN p[i] ELSE q[i - Len(p)]
  BY ConcatProperties
<1>2. PICK r \in Seq(T) : r = p \o q
  BY <1>1
<1>3. /\ DOMAIN p = 1 .. Len(p) /\ DOMAIN q = 1 .. Len(q) /\ DOMAIN r = 1 .. Len(r)
      /\ Len(p) \in Nat /\ Len(q) \in Nat
  OBVIOUS
<1>4. ASSUME NEW i \in 1 .. Len(p) PROVE p[i] \in Range(r)
  <2>1. i \in 1 .. Len(r) /\ r[i] = p[i]
    BY <1>1, <1>2, <1>3
  <2> QED
    BY <1>3, <2>1 DEF Range
<1>5. ASSUME NEW i \in 1 .. Len(q) PROVE q[i] \in Range(r)
  <2>1. i + Len(p) \in 1 .. Len(r) /\ r[i + Len(p)] = q[i]
    BY <1>1, <1>2, <1>3
  <2> QED
    BY <1>3, <2>1 DEF Range
<1>6. ASSUME NEW i \in 1 .. Len(r) PROVE r[i] \in Range(p) \cup Range(q)
  <2>1. CASE i <= Len(p)
    BY <1>1, <1>2, <1>3, <2>1 DEF Range
  <2>2. CASE ~(i <= Len(p))
    <3>1. i - Len(p) \in 1 .. Len(q) /\ r[i] = q[i - Len(p)]
      BY <1>1, <1>2, <1>3, <2>2
    <3> QED
      BY <1>3, <3>1 DEF Range
  <2> QED
    BY <2>1, <2>2
<1>7. Range(r) = Range(p) \cup Range(q)
  BY <1>3, <1>4, <1>5, <1>6 DEF Range
<1> QED
  BY <1>1, <1>2, <1>7

LEMMA PlanConcat ==
    ASSUME NEW p, NEW q, Plan(p), Plan(q), Precedes(p, q)
    PROVE  Plan(p \o q) /\ Range(p \o q) = Range(p) \cup Range(q)
<1>0. p \in Seq(Steps) /\ q \in Seq(Steps) /\ Ordered(p) /\ Ordered(q)
  BY DEF Plan
<1>1. /\ p \o q \in Seq(Steps) /\ Len(p \o q) = Len(p) + Len(q)
      /\ \A i \in 1 .. Len(p) + Len(q) :
            (p \o q)[i] = IF i <= Len(p) THEN p[i] ELSE q[i - Len(p)]
  BY <1>0, ConcatProperties
<1>2. PICK r \in Seq(Steps) : r = p \o q
  BY <1>1
<1>3. /\ DOMAIN p = 1 .. Len(p) /\ DOMAIN q = 1 .. Len(q) /\ DOMAIN r = 1 .. Len(r)
      /\ Len(p) \in Nat /\ Len(q) \in Nat
  BY <1>0
<1>4. ASSUME NEW i \in 1 .. Len(r), NEW j \in 1 .. Len(r), i < j PROVE Before(r[i].do, r[j].do)
  <2>1. CASE j <= Len(p)
    <3>1. i \in DOMAIN p /\ j \in DOMAIN p /\ r[i] = p[i] /\ r[j] = p[j]
      BY <1>1, <1>2, <1>3, <1>4, <2>1
    <3> QED
      BY <1>0, <1>4, <3>1 DEF Ordered
  <2>2. CASE i <= Len(p) /\ ~(j <= Len(p))
    <3>1. i \in DOMAIN p /\ j - Len(p) \in DOMAIN q /\ r[i] = p[i] /\ r[j] = q[j - Len(p)]
      BY <1>1, <1>2, <1>3, <1>4, <2>2
    <3>2. p[i] \in Range(p) /\ q[j - Len(p)] \in Range(q)
      BY <3>1 DEF Range
    <3> QED
      BY <3>1, <3>2 DEF Precedes
  <2>3. CASE ~(i <= Len(p))
    <3>1. /\ i - Len(p) \in DOMAIN q /\ j - Len(p) \in DOMAIN q /\ i - Len(p) < j - Len(p)
          /\ r[i] = q[i - Len(p)] /\ r[j] = q[j - Len(p)]
      BY <1>1, <1>2, <1>3, <1>4, <2>3
    <3> QED
      BY <1>0, <3>1 DEF Ordered
  <2> QED
    BY <1>3, <1>4, <2>1, <2>2, <2>3
<1>5. Ordered(r)
  BY <1>3, <1>4 DEF Ordered
<1> QED
  BY <1>0, <1>2, <1>5, RangeConcat DEF Plan

LEMMA PlanNone == Plan(<<>>) /\ Range(<<>>) = {}
  BY DEF Plan, Ordered, Range

LEMMA PlanOne ==
    ASSUME NEW t \in Steps
    PROVE  Plan(<<t>>) /\ Range(<<t>>) = {t}
<1>1. <<t>> \in Seq(Steps) /\ DOMAIN <<t>> = 1 .. 1
  OBVIOUS
<1>2. \A i, j \in 1 .. 1 : ~(i < j)
  OBVIOUS
<1> QED
  BY <1>1, <1>2 DEF Plan, Ordered, Range

LEMMA PlanTwo ==
    ASSUME NEW t \in Steps, NEW u \in Steps, Before(t.do, u.do)
    PROVE  Plan(<<t, u>>) /\ Range(<<t, u>>) = {t, u}
<1>1. <<t, u>> \in Seq(Steps) /\ DOMAIN <<t, u>> = 1 .. 2
  OBVIOUS
<1>2. <<t, u>>[1] = t /\ <<t, u>>[2] = u
  OBVIOUS
<1>3. \A i, j \in 1 .. 2 : i < j => i = 1 /\ j = 2
  OBVIOUS
<1>4. Ordered(<<t, u>>)
  BY <1>1, <1>2, <1>3 DEF Ordered
<1>5. 1 .. 2 = {1, 2}
  OBVIOUS
<1>6. Range(<<t, u>>) = {t, u}
  BY <1>1, <1>2, <1>5 DEF Range
<1> QED
  BY <1>1, <1>4, <1>6 DEF Plan

\* A sequence of steps of one kind, of which any number may follow each other.
LEMMA PlanSame ==
    ASSUME NEW q \in Seq(Steps), NEW kind, Before(kind, kind), \A t \in Range(q) : t.do = kind
    PROVE  Plan(q)
<1>1. \A i \in DOMAIN q : q[i].do = kind
  BY DEF Range
<1> QED
  BY <1>1 DEF Plan, Ordered

\* The first step of a call and the rest.
LEMMA PlanHead ==
    ASSUME NEW q, Plan(q), q # <<>>
    PROVE  /\ Head(q) \in Steps /\ Plan(Tail(q))
           /\ Range(q) = {Head(q)} \cup Range(Tail(q))
           /\ Range(Tail(q)) \subseteq Steps
           /\ \A u \in Range(Tail(q)) : Before(Head(q).do, u.do)
<1>0. q \in Seq(Steps) /\ Ordered(q)
  BY DEF Plan
<1>1. /\ Head(q) \in Steps /\ Tail(q) \in Seq(Steps) /\ Len(Tail(q)) = Len(q) - 1
      /\ \A i \in 1 .. Len(Tail(q)) : Tail(q)[i] = q[i + 1]
  BY <1>0, HeadTailProperties
<1>2. PICK r \in Seq(Steps) : r = Tail(q)
  BY <1>1
<1>3. /\ DOMAIN q = 1 .. Len(q) /\ DOMAIN r = 1 .. Len(r) /\ Len(q) \in Nat \ {0}
      /\ Len(r) = Len(q) - 1 /\ Head(q) = q[1]
      /\ \A i \in 1 .. Len(r) : r[i] = q[i + 1] /\ i + 1 \in 1 .. Len(q)
  BY <1>0, <1>1, <1>2, EmptySeq
<1>4. ASSUME NEW i \in 1 .. Len(r), NEW j \in 1 .. Len(r), i < j PROVE Before(r[i].do, r[j].do)
  <2>1. i + 1 \in DOMAIN q /\ j + 1 \in DOMAIN q /\ i + 1 < j + 1
    BY <1>3, <1>4
  <2> QED
    BY <1>0, <1>3, <2>1 DEF Ordered
<1>5. Plan(r)
  BY <1>3, <1>4 DEF Plan, Ordered
<1>6. \A u \in Range(r) : Before(Head(q).do, u.do)
  <2> SUFFICES ASSUME NEW i \in 1 .. Len(r) PROVE Before(q[1].do, r[i].do)
    BY <1>3 DEF Range
  <2>1. 1 \in DOMAIN q /\ i + 1 \in DOMAIN q /\ 1 < i + 1
    BY <1>3
  <2> QED
    BY <1>0, <1>3, <2>1 DEF Ordered
<1>7. Range(q) = {Head(q)} \cup Range(r)
  <2>1. \A i \in 1 .. Len(q) : i = 1 \/ (i - 1 \in 1 .. Len(r) /\ q[i] = r[i - 1])
    BY <1>3
  <2>2. \A x \in Range(q) : x \in {Head(q)} \cup Range(r)
    BY <1>3, <2>1 DEF Range
  <2>3. \A x \in {Head(q)} \cup Range(r) : x \in Range(q)
    BY <1>3 DEF Range
  <2> QED
    BY <2>2, <2>3
<1>8. Range(r) \subseteq Steps
  BY <1>3 DEF Range
<1> QED
  BY <1>1, <1>2, <1>5, <1>6, <1>7, <1>8

\* Two steps of a call stand in some order.
LEMMA PlanApart ==
    ASSUME NEW q, Plan(q), NEW t \in Range(q), NEW u \in Range(q), t # u
    PROVE  Before(t.do, u.do) \/ Before(u.do, t.do)
<1>1. PICK i \in DOMAIN q : q[i] = t
  BY DEF Range
<1>2. PICK j \in DOMAIN q : q[j] = u
  BY DEF Range
<1>3. DOMAIN q = 1 .. Len(q) /\ Len(q) \in Nat
  BY DEF Plan
<1>4. i < j \/ j < i
  BY <1>1, <1>2, <1>3
<1> QED
  BY <1>1, <1>2, <1>4 DEF Plan, Ordered

\* What the fields of a step are.
LEMMA StepKinds ==
    ASSUME NEW t \in Steps
    PROVE  /\ t.do \in {"entry", "dealloc"} => t.block \in Blocks
           /\ t.do = "clear" => t.block \in Blocks /\ t.slot \in Slots
           /\ t.do = "grow" => t.slot \in Slots
           /\ t.do = "put" => t.sector \in Sectors /\ t.value \in Values /\ t.new \in BOOLEAN
           /\ t.do = "cow" => /\ t.chunk \in Chunks /\ DOMAIN t.chunk # {}
                              /\ \A s, r \in DOMAIN t.chunk : BlockOf(s) = BlockOf(r)
           /\ t.do \in {"load", "sync", "clean"} => t.line \in Lines
           /\ t.do = "chunk" => /\ t.line \in Lines /\ t.data \in Chunks
                                /\ DOMAIN t.data \subseteq InLine(t.line)
           /\ t.do = "insert" => t.entry \in Lined
           /\ t.do = "drop" => /\ t.lines \in SUBSET Lines /\ t.blocks \in SUBSET Blocks
                               /\ t.sure \in SUBSET Sectors
           /\ t.do = "written" => t.sure \in SUBSET Sectors
           /\ t.do \in {"header", "trim", "truncate", "evict", "evicted", "flushed"} =>
                 t = [do |-> t.do]
  BY DEF Steps

LEMMA StepSimple ==
    ASSUME NEW kind \in {"header", "trim", "truncate", "evict", "evicted", "flushed"}
    PROVE  [do |-> kind] \in Steps
  BY DEF Steps

LEMMA StepBlock ==
    ASSUME NEW b \in Blocks
    PROVE  /\ [do |-> "entry", block |-> b] \in Steps
           /\ [do |-> "dealloc", block |-> b] \in Steps
           /\ \A k \in Slots : [do |-> "clear", block |-> b, slot |-> k] \in Steps
  BY DEF Steps

LEMMA StepGrow ==
    ASSUME NEW k \in Slots
    PROVE  [do |-> "grow", slot |-> k] \in Steps
  BY DEF Steps

LEMMA StepPut ==
    ASSUME NEW s \in Sectors, NEW v \in Values, NEW n \in BOOLEAN
    PROVE  Put(s, v, n) \in Steps
  BY DEF Steps, Put

LEMMA StepCow ==
    ASSUME NEW f \in Chunks, DOMAIN f # {}, \A s, r \in DOMAIN f : BlockOf(s) = BlockOf(r)
    PROVE  [do |-> "cow", chunk |-> f] \in Steps
  BY DEF Steps

LEMMA StepLine ==
    ASSUME NEW k \in Lines
    PROVE  /\ [do |-> "load", line |-> k] \in Steps
           /\ [do |-> "sync", line |-> k] \in Steps
           /\ [do |-> "clean", line |-> k] \in Steps
           /\ \A f \in Chunks : DOMAIN f \subseteq InLine(k) =>
                 [do |-> "chunk", line |-> k, data |-> f] \in Steps
  BY DEF Steps

LEMMA StepInsert ==
    ASSUME NEW e \in Lined
    PROVE  [do |-> "insert", entry |-> e] \in Steps
  BY DEF Steps

LEMMA StepReturn ==
    ASSUME NEW S \in SUBSET Sectors, NEW K \in SUBSET Lines, NEW B \in SUBSET Blocks
    PROVE  /\ [do |-> "written", sure |-> S] \in Steps
           /\ [do |-> "drop", lines |-> K, blocks |-> B, sure |-> S] \in Steps
  BY DEF Steps

\* Chunks are functions on sectors; an entry has the data of its line.
LEMMA ChunkFacts ==
    ASSUME NEW f \in Chunks
    PROVE  /\ DOMAIN f \in SUBSET Sectors /\ \A s \in DOMAIN f : f[s] \in Values
           /\ f \in [DOMAIN f -> Values]
  BY DEF Chunks

LEMMA ChunkType ==
    ASSUME NEW S \in SUBSET Sectors, NEW f \in [S -> Values]
    PROVE  f \in Chunks
  BY DEF Chunks

LEMMA LinedFacts ==
    ASSUME NEW e \in Lined
    PROVE  /\ e.line \in Lines /\ e.data \in [InLine(e.line) -> Values] /\ e.dirty \in BOOLEAN
           /\ e.data \in Chunks /\ DOMAIN e.data = InLine(e.line)
<1>1. e.line \in Lines /\ e.data \in [InLine(e.line) -> Values] /\ e.dirty \in BOOLEAN
  BY DEF Lined
<1>2. InLine(e.line) \in SUBSET Sectors
  BY DEF InLine
<1> QED
  BY <1>1, <1>2, ChunkType

LEMMA LinedType ==
    ASSUME NEW k \in Lines, NEW f \in [InLine(k) -> Values], NEW d \in BOOLEAN
    PROVE  [line |-> k, data |-> f, dirty |-> d] \in Lined
<1>1. [line |-> k, data |-> f, dirty |-> d]
          \in [line : {k}, data : [InLine(k) -> Values], dirty : BOOLEAN]
  OBVIOUS
<1> QED
  BY <1>1 DEF Lined

-----------------------------------------------------------------------------
(* The lists of steps that the actions make *)

LEMMA ValueFacts ==
    ASSUME geom \in Setups
    PROVE  /\ Zero \in Values /\ \A s \in Sectors : Base(s) \in Values
           /\ \A s \in Sectors, v \in 1 .. MaxVersion : <<s, v>> \in Values
  BY GeomType DEF Values, Base

\* A list with a step for each number of S.
LEMMA ListOver ==
    ASSUME NEW m \in Nat, NEW S \in SUBSET (0 .. m), NEW g \in [S -> Steps]
    PROVE  LET q == [n \in 1 .. Cardinality(S) |-> g[Ascending(S)[n]]]
           IN  q \in Seq(Steps) /\ Range(q) = {g[s] : s \in S}
<1> DEFINE c == Cardinality(S)
           a == Ascending(S)
           q == [n \in 1 .. c |-> g[a[n]]]
<1>1. /\ c \in Nat /\ a \in Seq(S) /\ Len(a) = c
      /\ \A i \in S : \E n \in 1 .. c : a[n] = i
  BY AscendingFacts
<1> HIDE DEF a, c
<1>2. \A n \in 1 .. c : a[n] \in S /\ g[a[n]] \in Steps
  BY <1>1
<1>3. q \in Seq(Steps)
  BY <1>1, <1>2
<1>4. DOMAIN q = 1 .. c /\ \A n \in 1 .. c : q[n] = g[a[n]]
  OBVIOUS
<1> HIDE DEF q
<1>0. Range(q) = {q[n] : n \in 1 .. c}
  BY <1>4 DEF Range
<1>5. \A x \in Range(q) : x \in {g[s] : s \in S}
  <2> TAKE x \in Range(q)
  <2>1. PICK n \in 1 .. c : x = q[n]
    BY <1>0
  <2>2. x = g[a[n]] /\ a[n] \in S
    BY <1>2, <1>4, <2>1
  <2> QED
    BY <2>2
<1>6. ASSUME NEW s \in S PROVE g[s] \in Range(q)
  <2>1. PICK n \in 1 .. c : a[n] = s
    BY <1>1
  <2>2. q[n] = g[s]
    BY <1>4, <2>1
  <2> QED
    BY <1>0, <2>2
<1>7. Range(q) = {g[s] : s \in S}
  BY <1>5, <1>6
<1> QED
  BY <1>3, <1>7 DEF q, a, c

\* The puts of a chunk into a block that has a slot.
Puts(f) == LET S == Ascending(DOMAIN f)
           IN  [i \in 1..Len(S) |-> Put(S[i], f[S[i]], FALSE)]

LEMMA PutsFacts ==
    ASSUME geom \in Setups, NEW f \in Chunks
    PROVE  Plan(Puts(f)) /\ Range(Puts(f)) = {Put(s, f[s], FALSE) : s \in DOMAIN f}
<1> DEFINE S == DOMAIN f
           g == [s \in S |-> Put(s, f[s], FALSE)]
           q == [n \in 1 .. Cardinality(S) |-> g[Ascending(S)[n]]]
<1>1. S \in SUBSET Sectors /\ S \in SUBSET (0 .. NSectors) /\ NSectors \in Nat
  BY ChunkFacts, SectorFacts, GeomType
<1>2. g \in [S -> Steps]
  <2>1. \A s \in S : s \in Sectors /\ f[s] \in Values
    BY ChunkFacts
  <2>2. \A s \in S : Put(s, f[s], FALSE) \in Steps
    BY <2>1, StepPut
  <2> QED
    BY <2>2
<1>3. \A s \in S : g[s] = Put(s, f[s], FALSE)
  OBVIOUS
<1>4. \A n \in 1 .. Cardinality(S) : Ascending(S)[n] \in S
  BY <1>1, AscendingFacts
<1>5. Len(Ascending(S)) = Cardinality(S)
  BY <1>1, AscendingFacts
<1>6. Puts(f) = q
  BY <1>3, <1>4, <1>5 DEF Puts
<1> HIDE DEF g
<1>7. q \in Seq(Steps) /\ Range(q) = {g[s] : s \in S}
  BY <1>1, <1>2, ListOver
<1> HIDE DEF q
<1>8. Range(q) = {Put(s, f[s], FALSE) : s \in S}
  BY <1>3, <1>7
<1>9. Plan(q)
  <2>1. \A t \in Range(q) : t.do = "put"
    BY <1>8 DEF Put
  <2>2. Before("put", "put")
    BY DEF Before
  <2> QED
    BY <1>7, <2>1, <2>2, PlanSame
<1> QED
  BY <1>6, <1>8, <1>9

\* What a new block is filled with.
Filled(s, f) == IF s \in DOMAIN f THEN f[s] ELSE Base(s)

LEMMA FillFacts ==
    ASSUME geom \in Setups, NEW f \in Chunks, NEW b \in Blocks
    PROVE  /\ Plan(Fill(b, f))
           /\ Range(Fill(b, f)) = {Put(s, Filled(s, f), TRUE) : s \in SectorsOf(b)}
<1> DEFINE S == SectorsOf(b)
           g == [s \in S |-> Put(s, Filled(s, f), TRUE)]
           q == [n \in 1 .. Cardinality(S) |-> g[Ascending(S)[n]]]
<1>1. S \in SUBSET Sectors /\ S \in SUBSET (0 .. NSectors) /\ NSectors \in Nat
  BY SectorFacts, GeomType DEF SectorsOf
<1>2. g \in [S -> Steps]
  <2>1. \A s \in S : s \in Sectors /\ Filled(s, f) \in Values
    BY <1>1, ChunkFacts, ValueFacts DEF Filled
  <2>2. \A s \in S : Put(s, Filled(s, f), TRUE) \in Steps
    BY <2>1, StepPut
  <2> QED
    BY <2>2
<1>3. \A s \in S : g[s] = Put(s, Filled(s, f), TRUE)
  OBVIOUS
<1>4. \A n \in 1 .. Cardinality(S) : Ascending(S)[n] \in S
  BY <1>1, AscendingFacts
<1>6. Fill(b, f) = q
  <2>1. Fill(b, f) = [n \in 1 .. Cardinality(S) |-> Put(Ascending(S)[n], Filled(Ascending(S)[n], f), TRUE)]
    BY DEF Fill, Filled
  <2> HIDE DEF S
  <2> QED
    BY <1>3, <1>4, <2>1
<1> HIDE DEF g, S
<1>7. q \in Seq(Steps) /\ Range(q) = {g[s] : s \in S}
  BY <1>1, <1>2, ListOver
<1> HIDE DEF q
<1>8. Range(q) = {Put(s, Filled(s, f), TRUE) : s \in S}
  BY <1>3, <1>7
<1>9. Plan(q)
  <2>1. \A t \in Range(q) : t.do = "put"
    BY <1>8 DEF Put
  <2>2. Before("put", "put")
    BY DEF Before
  <2> QED
    BY <1>7, <2>1, <2>2, PlanSame
<1> QED
  BY <1>6, <1>8, <1>9 DEF S

\* The part of f in a block, and the step that writes it.
Part(f, b) == [s \in {t \in DOMAIN f : BlockOf(t) = b} |-> f[s]]
CowStep(f, b) == [do |-> "cow", chunk |-> Part(f, b)]
BlocksIn(f) == {BlockOf(s) : s \in DOMAIN f}

LEMMA WriteBackFacts ==
    ASSUME geom \in Setups, NEW e \in Lined
    PROVE  Plan(WriteBack(e)) /\ Range(WriteBack(e)) = {CowStep(e.data, b) : b \in BlocksIn(e.data)}
<1> DEFINE f == e.data
           S == BlocksIn(f)
           g == [b \in S |-> CowStep(f, b)]
           q == [n \in 1 .. Cardinality(S) |-> g[Ascending(S)[n]]]
<1>0. f \in Chunks
  BY LinedFacts
<1>1. S \in SUBSET Blocks /\ S \in SUBSET (0 .. NSectors) /\ NSectors \in Nat
  <2>1. \A s \in DOMAIN f : s \in Sectors
    BY <1>0, ChunkFacts
  <2> QED
    BY <2>1, SectorFacts, GeomType DEF BlocksIn
<1>2. g \in [S -> Steps]
  <2> SUFFICES ASSUME NEW b \in S PROVE CowStep(f, b) \in Steps
    OBVIOUS
  <2>1. DOMAIN Part(f, b) = {t \in DOMAIN f : BlockOf(t) = b}
    BY DEF Part
  <2>2. DOMAIN Part(f, b) # {}
    BY <2>1 DEF BlocksIn
  <2>3. DOMAIN Part(f, b) \in SUBSET Sectors
    BY <1>0, <2>1, ChunkFacts
  <2>4. Part(f, b) \in [DOMAIN Part(f, b) -> Values]
    BY <1>0, <2>1, ChunkFacts DEF Part
  <2>5. Part(f, b) \in Chunks
    BY <2>3, <2>4, ChunkType
  <2>6. \A s, r \in DOMAIN Part(f, b) : BlockOf(s) = BlockOf(r)
    BY <2>1
  <2> QED
    BY <2>2, <2>5, <2>6, StepCow DEF CowStep
<1>3. \A b \in S : g[b] = CowStep(f, b)
  OBVIOUS
<1>4. \A n \in 1 .. Cardinality(S) : Ascending(S)[n] \in S
  BY <1>1, AscendingFacts
<1>5. Len(Ascending(S)) = Cardinality(S)
  BY <1>1, AscendingFacts
<1>6. WriteBack(e) = q
  <2>1. WriteBack(e) = [n \in 1 .. Len(Ascending(S)) |-> CowStep(f, Ascending(S)[n])]
    BY DEF WriteBack, Split, CowStep, Part, BlocksIn
  <2> HIDE DEF S, f
  <2> QED
    BY <1>3, <1>4, <1>5, <2>1
<1> HIDE DEF g, S, f
<1>7. q \in Seq(Steps) /\ Range(q) = {g[s] : s \in S}
  BY <1>1, <1>2, ListOver
<1> HIDE DEF q
<1>8. Range(q) = {CowStep(f, b) : b \in S}
  BY <1>3, <1>7
<1>9. Plan(q)
  <2>1. \A t \in Range(q) : t.do = "cow"
    BY <1>8 DEF CowStep
  <2>2. Before("cow", "cow")
    BY DEF Before, Storing
  <2> QED
    BY <1>7, <2>1, <2>2, PlanSame
<1> QED
  BY <1>6, <1>8, <1>9 DEF S, f

\* The steps of write_at.
WriteData(first, last, v) == [s \in first .. last |-> <<s, v>>]
ChunkStep(f, k) == [do |-> "chunk", line |-> k,
                    data |-> [s \in {t \in DOMAIN f : LineOf(t) = k} |-> f[s]]]
LinesIn(f) == {LineOf(s) : s \in DOMAIN f}
ChunkSteps(f) == Split(f, LineOf, LAMBDA k, g : [do |-> "chunk", line |-> k, data |-> g])

LEMMA ChunkStepsFacts ==
    ASSUME geom \in Setups, NEW f \in Chunks
    PROVE  Plan(ChunkSteps(f)) /\ Range(ChunkSteps(f)) = {ChunkStep(f, k) : k \in LinesIn(f)}
<1> DEFINE S == LinesIn(f)
           g == [k \in S |-> ChunkStep(f, k)]
           q == [n \in 1 .. Cardinality(S) |-> g[Ascending(S)[n]]]
<1>1. S \in SUBSET Lines /\ S \in SUBSET (0 .. NSectors) /\ NSectors \in Nat
  <2>1. \A s \in DOMAIN f : s \in Sectors
    BY ChunkFacts
  <2> QED
    BY <2>1, SectorFacts, GeomType DEF LinesIn
<1>2. g \in [S -> Steps]
  <2> SUFFICES ASSUME NEW k \in S PROVE ChunkStep(f, k) \in Steps
    OBVIOUS
  <2> DEFINE D == {t \in DOMAIN f : LineOf(t) = k}
             h == [s \in D |-> f[s]]
  <2>1. D \in SUBSET Sectors
    BY ChunkFacts
  <2>2. h \in [D -> Values]
    BY ChunkFacts
  <2>3. h \in Chunks
    BY <2>1, <2>2, ChunkType
  <2>4. DOMAIN h \subseteq InLine(k)
    BY <2>1 DEF InLine
  <2>5. k \in Lines
    BY <1>1
  <2>6. ChunkStep(f, k) = [do |-> "chunk", line |-> k, data |-> h]
    BY DEF ChunkStep
  <2> HIDE DEF h
  <2> QED
    BY <2>3, <2>4, <2>5, <2>6, StepLine
<1>3. \A k \in S : g[k] = ChunkStep(f, k)
  OBVIOUS
<1>4. \A n \in 1 .. Cardinality(S) : Ascending(S)[n] \in S
  BY <1>1, AscendingFacts
<1>5. Len(Ascending(S)) = Cardinality(S)
  BY <1>1, AscendingFacts
<1>6. ChunkSteps(f) = q
  <2>1. ChunkSteps(f) = [n \in 1 .. Len(Ascending(S)) |-> ChunkStep(f, Ascending(S)[n])]
    BY DEF ChunkSteps, Split, ChunkStep, LinesIn
  <2> HIDE DEF S
  <2> QED
    BY <1>3, <1>4, <1>5, <2>1
<1> HIDE DEF g, S
<1>7. q \in Seq(Steps) /\ Range(q) = {g[s] : s \in S}
  BY <1>1, <1>2, ListOver
<1> HIDE DEF q
<1>8. Range(q) = {ChunkStep(f, k) : k \in S}
  BY <1>3, <1>7
<1>9. Plan(q)
  <2>0. \A k : ChunkStep(f, k).do = "chunk"
    BY DEF ChunkStep
  <2>1. \A t \in Range(q) : t.do = "chunk"
    BY <1>8, <2>0
  <2>2. Before("chunk", "chunk")
    BY DEF Before, Storing
  <2> QED
    BY <1>7, <2>1, <2>2, PlanSame
<1> QED
  BY <1>6, <1>8, <1>9 DEF S

\* The lines in K that the cache holds, and the steps that write them back.
SyncStep(k) == [do |-> "sync", line |-> k]

LEMMA SyncStepsFacts ==
    ASSUME cache \in Seq(Lined), NEW K
    PROVE  /\ Plan(SyncSteps(K))
           /\ Range(SyncSteps(K)) = {SyncStep(e.line) : e \in {x \in Held : x.line \in K}}
<1> DEFINE S == CachedAt(K)
           keys == Picked(cache, S)
<1>1. S \in SUBSET DOMAIN cache
  BY DEF CachedAt
<1>2. keys \in Seq(Lined) /\ Range(keys) = {cache[i] : i \in S}
  BY <1>1, PickedFacts
<1>3. SyncSteps(K) = [i \in DOMAIN keys |-> SyncStep(keys[i].line)]
  BY DEF SyncSteps, SyncStep
<1>4. Range(keys) = {x \in Held : x.line \in K}
  BY <1>2 DEF CachedAt, Held, Range
<1> HIDE DEF keys, S
<1>5. /\ DOMAIN keys = 1 .. Len(keys) /\ Len(keys) \in Nat
      /\ \A i \in 1 .. Len(keys) : keys[i] \in Lined
  BY <1>2
<1>6. \A i \in 1 .. Len(keys) : SyncStep(keys[i].line) \in Steps
  BY <1>5, LinedFacts, StepLine DEF SyncStep
<1>7. SyncSteps(K) \in Seq(Steps)
  BY <1>3, <1>5, <1>6
<1>8. Range(SyncSteps(K)) = {SyncStep(e.line) : e \in Range(keys)}
  <2>1. PICK q \in Seq(Steps) : q = SyncSteps(K)
    BY <1>7
  <2>2. DOMAIN q = DOMAIN keys /\ \A i \in DOMAIN keys : q[i] = SyncStep(keys[i].line)
    BY <1>3, <2>1
  <2>3. \A x \in Range(q) : x \in {SyncStep(e.line) : e \in Range(keys)}
    BY <2>2 DEF Range
  <2>4. ASSUME NEW e \in Range(keys) PROVE SyncStep(e.line) \in Range(q)
    BY <2>2 DEF Range
  <2> QED
    BY <2>1, <2>3, <2>4
<1>9. Plan(SyncSteps(K))
  <2>1. \A t \in Range(SyncSteps(K)) : t.do = "sync"
    BY <1>8 DEF SyncStep
  <2>2. Before("sync", "sync")
    BY DEF Before, Storing
  <2> QED
    BY <1>7, <2>1, <2>2, PlanSame
<1> QED
  BY <1>4, <1>8, <1>9

\* discard_range frees the blocks it covers and then trims the file.
DeallocStep(b) == [do |-> "dealloc", block |-> b]

LEMMA DiscardStepsFacts ==
    ASSUME geom \in Setups, NEW first, NEW last
    PROVE  /\ Plan(DiscardSteps(first, last))
           /\ Covered(first, last) \in SUBSET Blocks
           /\ \A b \in Covered(first, last) : DeallocStep(b) \in Range(DiscardSteps(first, last))
           /\ \A t \in Range(DiscardSteps(first, last)) :
                 \/ t = [do |-> "trim"]
                 \/ \E b \in Covered(first, last) : t = DeallocStep(b)
<1> DEFINE S == Covered(first, last)
           g == [b \in S |-> DeallocStep(b)]
           q == [n \in 1 .. Cardinality(S) |-> g[Ascending(S)[n]]]
           trim == [do |-> "trim"]
<1>1. S \in SUBSET Blocks /\ S \in SUBSET (0 .. NSectors) /\ NSectors \in Nat
  BY SectorFacts, GeomType DEF Covered
<1>2. g \in [S -> Steps]
  BY <1>1, StepBlock DEF DeallocStep
<1>3. \A b \in S : g[b] = DeallocStep(b)
  OBVIOUS
<1>4. /\ \A n \in 1 .. Cardinality(S) : Ascending(S)[n] \in S
      /\ Len(Ascending(S)) = Cardinality(S) /\ Ascending(S) \in Seq(S) /\ IsFiniteSet(S)
  BY <1>1, AscendingFacts
<1>5. DiscardSteps(first, last) = IF Ascending(S) = <<>> THEN <<>> ELSE q \o <<trim>>
  <2>1. DiscardSteps(first, last) =
          IF Ascending(S) = <<>> THEN <<>>
          ELSE [n \in 1 .. Len(Ascending(S)) |-> DeallocStep(Ascending(S)[n])] \o <<trim>>
    BY DEF DiscardSteps, DeallocStep
  <2> HIDE DEF S
  <2>2. [n \in 1 .. Len(Ascending(S)) |-> DeallocStep(Ascending(S)[n])] = q
    BY <1>3, <1>4
  <2> QED
    BY <2>1, <2>2
<1> HIDE DEF g, S
<1>6. q \in Seq(Steps) /\ Range(q) = {g[b] : b \in S}
  BY <1>1, <1>2, ListOver
<1> HIDE DEF q
<1>7. Range(q) = {DeallocStep(b) : b \in S}
  BY <1>3, <1>6
<1>8. Plan(q)
  <2>1. \A t \in Range(q) : t.do = "dealloc"
    BY <1>7 DEF DeallocStep
  <2>2. Before("dealloc", "dealloc")
    BY DEF Before, Storing
  <2> QED
    BY <1>6, <2>1, <2>2, PlanSame
<1>9. trim \in Steps
  BY StepSimple
<1>10. CASE Ascending(S) = <<>>
  <2>1. S = {}
    <3>1. Cardinality(S) = 0
      BY <1>4, <1>10
    <3> QED
      BY <1>4, <3>1, FS_EmptySet
  <2> QED
    BY <1>1, <1>5, <1>10, <2>1, PlanNone DEF S
<1>11. CASE Ascending(S) # <<>>
  <2>1. Plan(<<trim>>) /\ Range(<<trim>>) = {trim}
    BY <1>9, PlanOne
  <2>2. Precedes(q, <<trim>>)
    <3>1. Before("dealloc", "trim")
      BY DEF Before, Storing
    <3>2. \A t \in Range(q) : t.do = "dealloc"
      BY <1>7 DEF DeallocStep
    <3> QED
      BY <2>1, <3>1, <3>2 DEF Precedes
  <2>3. Plan(q \o <<trim>>) /\ Range(q \o <<trim>>) = Range(q) \cup {trim}
    BY <1>8, <2>1, <2>2, PlanConcat
  <2> QED
    BY <1>1, <1>5, <1>7, <1>11, <2>3 DEF S
<1> QED
  BY <1>10, <1>11

-----------------------------------------------------------------------------
(* The cache *)

\* No line is cached twice.
CacheOK(c) == c \in Seq(Lined) /\ \A i, j \in DOMAIN c : c[i].line = c[j].line => i = j

LEMMA HeldFacts ==
    ASSUME NEW c, CacheOK(c)
    PROVE  /\ \A e \in Range(c) : e \in Lined
           /\ \A e, x \in Range(c) : e.line = x.line => e = x
           /\ Len(c) \in Nat /\ DOMAIN c = 1 .. Len(c)
           /\ c = <<>> <=> Range(c) = {}
<1>1. c \in Seq(Lined) /\ DOMAIN c = 1 .. Len(c) /\ Len(c) \in Nat
  BY DEF CacheOK
<1>2. /\ \A e \in Range(c) : e \in Lined
      /\ \A e, x \in Range(c) : e.line = x.line => e = x
  BY <1>1 DEF CacheOK, Range
<1>3. c = <<>> => Range(c) = {}
  BY DEF Range
<1>4. ASSUME c # <<>> PROVE Range(c) # {}
  <2>1. 1 \in DOMAIN c
    BY <1>1, <1>4, EmptySeq
  <2> QED
    BY <2>1 DEF Range
<1> QED
  BY <1>1, <1>2, <1>3, <1>4

LEMMA CachedFacts ==
    ASSUME CacheOK(cache), NEW k
    PROVE  /\ Cached(k) <=> \E e \in Held : e.line = k
           /\ Cached(k) => Entry(k) \in Held /\ Entry(k).line = k
           /\ \A e \in Held : e.line = k => e = Entry(k)
<1>1. Cached(k) <=> \E e \in Held : e.line = k
  BY DEF Cached, Held, Range
<1>2. ASSUME Cached(k) PROVE Entry(k) \in Held /\ Entry(k).line = k
  <2>1. PICK i \in DOMAIN cache : cache[i].line = k /\ Entry(k) = cache[i]
    BY <1>2 DEF Entry, Cached
  <2> QED
    BY <2>1 DEF Held, Range
<1>3. ASSUME NEW e \in Held, e.line = k PROVE e = Entry(k)
  <2>1. Entry(k) \in Held /\ Entry(k).line = k
    BY <1>1, <1>2, <1>3
  <2> QED
    BY <1>3, <2>1, HeldFacts DEF Held
<1> QED
  BY <1>1, <1>2, <1>3

LEMMA DroppedFacts ==
    ASSUME CacheOK(cache), NEW K
    PROVE  /\ CacheOK(Dropped(K)) /\ Range(Dropped(K)) = {e \in Held : e.line \notin K}
           /\ Len(Dropped(K)) <= Len(cache)
           /\ \A e \in Held : K = {e.line} => Len(Dropped(K)) = Len(cache) - 1
<1> DEFINE S == DOMAIN cache \ CachedAt(K)
<1>1. cache \in Seq(Lined) /\ DOMAIN cache = 1 .. Len(cache) /\ Len(cache) \in Nat
      /\ S \in SUBSET DOMAIN cache /\ Dropped(K) = Picked(cache, S)
  BY DEF CacheOK, Dropped
<1>2. /\ Dropped(K) \in Seq(Lined)
      /\ Len(Dropped(K)) = Cardinality(S) /\ Cardinality(S) <= Len(cache)
      /\ Range(Dropped(K)) = {cache[i] : i \in S}
      /\ \A n, k \in DOMAIN Dropped(K) : n # k =>
            \E i, j \in S : i # j /\ Dropped(K)[n] = cache[i] /\ Dropped(K)[k] = cache[j]
  <2> HIDE DEF S
  <2>1. PICK d : d = Picked(cache, S)
    OBVIOUS
  <2>2. /\ d \in Seq(Lined) /\ Len(d) = Cardinality(S) /\ Cardinality(S) <= Len(cache)
        /\ Range(d) = {cache[i] : i \in S}
        /\ \A n, k \in DOMAIN d : n # k =>
              \E i, j \in S : i # j /\ d[n] = cache[i] /\ d[k] = cache[j]
    BY <1>1, <2>1, PickedFacts
  <2> QED
    BY <1>1, <2>1, <2>2
<1>3. \A n, k \in DOMAIN Dropped(K) : Dropped(K)[n].line = Dropped(K)[k].line => n = k
  <2> SUFFICES ASSUME NEW n \in DOMAIN Dropped(K), NEW k \in DOMAIN Dropped(K), n # k
               PROVE  Dropped(K)[n].line # Dropped(K)[k].line
    OBVIOUS
  <2>1. PICK i \in S, j \in S : i # j /\ Dropped(K)[n] = cache[i] /\ Dropped(K)[k] = cache[j]
    BY <1>2
  <2> QED
    BY <1>1, <2>1 DEF CacheOK
<1>4. {cache[i] : i \in S} = {e \in Held : e.line \notin K}
  BY DEF CachedAt, Held, Range
<1>5. ASSUME NEW e \in Held, K = {e.line} PROVE Cardinality(S) = Len(cache) - 1
  <2>1. PICK i \in DOMAIN cache : cache[i] = e
    BY DEF Held, Range
  <2>2. CachedAt(K) = {i}
    BY <1>5, <2>1 DEF CachedAt, CacheOK
  <2>3. S = (1 .. Len(cache)) \ {i}
    BY <1>1, <2>2
  <2>4. IsFiniteSet(1 .. Len(cache)) /\ Cardinality(1 .. Len(cache)) = Len(cache)
    <3>1. PICK n \in Nat : n = Len(cache)
      BY <1>1
    <3>2. IsFiniteSet(1 .. n) /\ Cardinality(1 .. n) = IF 1 > n THEN 0 ELSE n - 1 + 1
      BY FS_Interval
    <3> QED
      BY <3>1, <3>2
  <2>5. i \in 1 .. Len(cache)
    BY <1>1
  <2> HIDE DEF S
  <2> QED
    BY <2>3, <2>4, <2>5, FS_RemoveElement
<1> HIDE DEF S
<1> QED
  BY <1>2, <1>3, <1>4, <1>5 DEF CacheOK

\* An entry put in front of a cache that does not hold its line.
LEMMA ConsFacts ==
    ASSUME NEW c, CacheOK(c), NEW e \in Lined, \A x \in Range(c) : x.line # e.line
    PROVE  /\ CacheOK(<<e>> \o c) /\ Range(<<e>> \o c) = {e} \cup Range(c)
           /\ Len(<<e>> \o c) = Len(c) + 1
<1>1. c \in Seq(Lined) /\ Len(c) \in Nat /\ DOMAIN c = 1 .. Len(c)
  BY DEF CacheOK
<1>2. <<e>> \in Seq(Lined) /\ Len(<<e>>) = 1 /\ <<e>>[1] = e
  OBVIOUS
<1>3. PICK o \in Seq(Lined) : o = <<e>> /\ Len(o) = 1 /\ o[1] = e
  BY <1>2
<1>4. /\ o \o c \in Seq(Lined) /\ Len(o \o c) = 1 + Len(c)
      /\ \A i \in 1 .. 1 + Len(c) : (o \o c)[i] = IF i <= 1 THEN o[i] ELSE c[i - 1]
  BY <1>1, <1>3, ConcatProperties
<1>5. PICK d \in Seq(Lined) : d = o \o c
  BY <1>4
<1>6. /\ DOMAIN d = 1 .. Len(c) + 1 /\ Len(d) = Len(c) + 1 /\ d[1] = e
      /\ \A i \in 1 .. Len(c) + 1 : i = 1 \/ (i - 1 \in DOMAIN c /\ d[i] = c[i - 1])
  BY <1>1, <1>3, <1>4, <1>5
<1>7. \A i, j \in DOMAIN d : d[i].line = d[j].line => i = j
  <2> SUFFICES ASSUME NEW i \in DOMAIN d, NEW j \in DOMAIN d, d[i].line = d[j].line PROVE i = j
    OBVIOUS
  <2>1. CASE i = 1 /\ j # 1
    BY <1>6, <2>1 DEF Range
  <2>2. CASE i # 1 /\ j = 1
    BY <1>6, <2>2 DEF Range
  <2>3. CASE i # 1 /\ j # 1
    <3>1. i - 1 \in DOMAIN c /\ j - 1 \in DOMAIN c /\ d[i] = c[i - 1] /\ d[j] = c[j - 1]
      BY <1>6, <2>3
    <3>2. i - 1 = j - 1
      BY <3>1 DEF CacheOK
    <3> QED
      BY <1>6, <3>2
  <2> QED
    BY <2>1, <2>2, <2>3
<1>8. Range(o) = {e}
  BY <1>3 DEF Range
<1>9. Range(<<e>> \o c) = {e} \cup Range(c)
  <2>1. Range(o \o c) = Range(o) \cup Range(c)
    BY <1>1, RangeConcat
  <2> QED
    BY <1>3, <1>8, <2>1
<1> QED
  BY <1>3, <1>5, <1>6, <1>7, <1>9 DEF CacheOK

\* A held line moves to the front, perhaps changed.
LEMMA PromotedFacts ==
    ASSUME CacheOK(cache), NEW e \in Lined, \E x \in Held : x.line = e.line
    PROVE  /\ CacheOK(Promoted(e)) /\ Len(Promoted(e)) = Len(cache)
           /\ Range(Promoted(e)) = {e} \cup {x \in Held : x.line # e.line}
<1>1. PICK c : c = Dropped({e.line})
  OBVIOUS
<1>2. /\ CacheOK(c) /\ Range(c) = {x \in Held : x.line \notin {e.line}}
      /\ Len(c) = Len(cache) - 1
  BY <1>1, DroppedFacts
<1>3. \A x \in Range(c) : x.line # e.line
  BY <1>2
<1>4. /\ CacheOK(<<e>> \o c) /\ Range(<<e>> \o c) = {e} \cup Range(c)
      /\ Len(<<e>> \o c) = Len(c) + 1
  BY <1>2, <1>3, ConsFacts
<1>5. Len(cache) \in Nat
  BY HeldFacts
<1>6. Promoted(e) = <<e>> \o c
  BY <1>1 DEF Promoted
<1> QED
  BY <1>2, <1>4, <1>5, <1>6

\* The last entry is one of the entries, and Front leaves out just that one.
LEMMA FrontFacts ==
    ASSUME CacheOK(cache), cache # <<>>
    PROVE  /\ Last(cache) \in Held
           /\ CacheOK(Front(cache)) /\ Len(Front(cache)) = Len(cache) - 1
           /\ Range(Front(cache)) = Held \ {Last(cache)}
<1>1. cache \in Seq(Lined) /\ DOMAIN cache = 1 .. Len(cache) /\ Len(cache) \in Nat \ {0}
  BY EmptySeq DEF CacheOK
<1> DEFINE n == Len(cache)
<1>2. n \in Nat \ {0} /\ n - 1 \in Int /\ n - 1 - 1 + 1 = n - 1
  BY <1>1
<1>3. \A i \in 1 .. n - 1 : cache[i] \in Lined
  BY <1>1
<1> HIDE DEF n
<1>4. /\ SubSeq(cache, 1, n - 1) \in Seq(Lined)
      /\ Len(SubSeq(cache, 1, n - 1)) = IF 1 <= n - 1 THEN n - 1 - 1 + 1 ELSE 0
      /\ \A i \in 1 .. n - 1 - 1 + 1 : SubSeq(cache, 1, n - 1)[i] = cache[1 + i - 1]
  BY <1>2, <1>3, SubSeqProperties
<1>5. PICK d \in Seq(Lined) : d = Front(cache)
  BY <1>4 DEF Front, n
<1>6. Len(d) = n - 1 /\ \A i \in 1 .. n - 1 : d[i] = cache[i]
  <2>1. \A i \in 1 .. n - 1 : 1 + i - 1 = i
    BY <1>2
  <2> QED
    BY <1>2, <1>4, <1>5, <2>1 DEF Front, n
<1>7. DOMAIN d = 1 .. n - 1 /\ DOMAIN cache = 1 .. n /\ Last(cache) = cache[n]
  BY <1>1, <1>6 DEF Last, n
<1>8. \A i, j \in DOMAIN d : d[i].line = d[j].line => i = j
  BY <1>2, <1>6, <1>7 DEF CacheOK
<1>9. Last(cache) \in Held
  BY <1>2, <1>7 DEF Held, Range
<1>10. \A x \in Range(d) : x \in Held /\ x # Last(cache)
  <2> SUFFICES ASSUME NEW i \in 1 .. n - 1 PROVE d[i] \in Held /\ d[i] # Last(cache)
    BY <1>7 DEF Range
  <2>1. i \in DOMAIN cache /\ n \in DOMAIN cache /\ i # n /\ d[i] = cache[i]
    BY <1>2, <1>6, <1>7
  <2> QED
    BY <1>7, <2>1 DEF Held, Range, CacheOK
<1>11. \A x \in Held : x # Last(cache) => x \in Range(d)
  <2> SUFFICES ASSUME NEW i \in 1 .. n, cache[i] # Last(cache) PROVE cache[i] \in Range(d)
    BY <1>7 DEF Held, Range
  <2>1. i \in 1 .. n - 1
    BY <1>2, <1>7
  <2> QED
    BY <1>6, <1>7, <2>1 DEF Range
<1> QED
  BY <1>5, <1>6, <1>8, <1>9, <1>10, <1>11 DEF CacheOK, n

-----------------------------------------------------------------------------
(* The types, together with what they need: how the tables of the overlay  *)
(* and the cache are kept.                                                 *)

Images == [allocated : 0 .. MaxSlots, table : [Blocks -> Slots \cup {None}],
           data : [Places -> Values], len : 0 .. End(MaxSlots)]
Maps == [allocated : 0 .. MaxSlots, table : [Blocks -> Slots \cup {None}],
         used : SUBSET Slots]

Typed(f, m, q, c, st, v, sb, un, n) ==
    /\ f \in Images /\ m \in Maps
    /\ Plan(q) /\ CacheOK(c) /\ Len(c) <= geom.lines
    /\ st \in {"open", "crashed"}
    /\ v \in [Sectors -> Values] /\ sb \in [Sectors -> SUBSET Values]
    /\ un \in SUBSET Sectors /\ n \in 0 .. MaxFaults
    /\ st = "crashed" => q = <<>> /\ c = <<>>

BaseInv ==
    /\ geom \in Setups
    /\ Typed(file, mem, todo, cache, status, vol, stable, unsure, faults)
    /\ MemInv(Work, mem, file.len, file.data, faults)
    /\ CacheInv(Work, cache)

\* The invariant gives the type invariant of DiskStack.
LEMMA BaseInvType == BaseInv => TypeOK
<1> SUFFICES ASSUME BaseInv PROVE TypeOK
  OBVIOUS
<1>1. /\ geom \in Setups /\ file \in Images /\ mem \in Maps /\ CacheOK(cache)
      /\ Len(cache) <= geom.lines /\ status \in {"open", "crashed"}
      /\ vol \in [Sectors -> Values] /\ stable \in [Sectors -> SUBSET Values]
      /\ unsure \in SUBSET Sectors
  BY DEF BaseInv, Typed
<1>2. SparseTypeOK
  BY <1>1 DEF SparseTypeOK, Images, Maps
<1>3. \A i \in DOMAIN cache : cache[i] \in Lined
  BY <1>1 DEF CacheOK
<1>4. \A i \in DOMAIN cache :
          /\ cache[i].line \in Lines /\ cache[i].dirty \in BOOLEAN
          /\ cache[i].data \in [InLine(cache[i].line) -> Values]
  BY <1>3, LinedFacts
<1> QED
  BY <1>1, <1>2, <1>4 DEF TypeOK

\* The geometry never changes, so the invariant may be shown with today's.
LEMMA SameGeom ==
    ASSUME geom' = geom
    PROVE  /\ Blocks' = Blocks /\ Lines' = Lines /\ Places' = Places
           /\ Images' = Images /\ Maps' = Maps
           /\ \A k : InLine(k)' = InLine(k)
           /\ \A s : BlockOf(s)' = BlockOf(s) /\ LineOf(s)' = LineOf(s)
           /\ Lined' = Lined /\ Steps' = Steps
<1>1. Blocks' = Blocks /\ Lines' = Lines /\ Places' = Places
  BY DEF Blocks, BlockOf, Lines, LineOf, Places, End
<1>2. Images' = Images /\ Maps' = Maps
  BY <1>1 DEF Images, Maps, End
<1>3. /\ \A k : InLine(k)' = InLine(k)
      /\ \A s : BlockOf(s)' = BlockOf(s) /\ LineOf(s)' = LineOf(s)
  BY DEF InLine, BlockOf, LineOf
<1>4. Lined' = Lined
  BY <1>1, <1>3 DEF Lined
<1>5. Steps' = Steps
  BY <1>1, <1>3, <1>4 DEF Steps
<1> QED
  BY <1>1, <1>2, <1>3, <1>4, <1>5

LEMMA SameTyped ==
    ASSUME geom' = geom,
           Typed(file', mem', todo', cache', status', vol', stable', unsure', faults')
    PROVE  Typed(file, mem, todo, cache, status, vol, stable, unsure, faults)'
  BY SameGeom DEF Typed, Plan, CacheOK

LEMMA SameMem ==
    ASSUME geom' = geom, MemInv(Range(todo'), mem', file'.len, file'.data, faults')
    PROVE  MemInv(Work, mem, file.len, file.data, faults)'
  BY SameGeom DEF MemInv, Work, Lost, Mapped, BlockOf

LEMMA SameCache ==
    ASSUME geom' = geom, CacheInv(Range(todo'), cache')
    PROVE  CacheInv(Work, cache)'
  BY DEF CacheInv, Work

\* What is left of the call after its next step.
Rest == Range(Tail(todo))

LEMMA Consume ==
    ASSUME Plan(todo), NEW kind, Doing(kind), NEW ss, Plan(ss), Continue(ss),
           \A t \in Range(ss) : \A y : Before(kind, y) => Before(t.do, y)
    PROVE  /\ Plan(todo') /\ Step \in Steps /\ Step.do = kind
           /\ Work = {Step} \cup Rest /\ Range(todo') = Range(ss) \cup Rest
           /\ Rest \in SUBSET Steps /\ \A u \in Rest : Before(kind, u.do)
<1>1. todo # <<>> /\ Step.do = kind
  BY DEF Doing, Step
<1>2. /\ Step \in Steps /\ Plan(Tail(todo)) /\ Work = {Step} \cup Rest
      /\ Rest \in SUBSET Steps /\ \A u \in Rest : Before(kind, u.do)
  BY <1>1, PlanHead DEF Step, Work, Rest
<1>3. Precedes(ss, Tail(todo))
  BY <1>2 DEF Precedes, Rest
<1>4. Plan(ss \o Tail(todo)) /\ Range(ss \o Tail(todo)) = Range(ss) \cup Rest
  BY <1>2, <1>3, PlanConcat DEF Rest
<1> QED
  BY <1>1, <1>2, <1>4 DEF Continue

-----------------------------------------------------------------------------
(* Steps that only take work away *)

LEMMA MemLess ==
    ASSUME NEW T, NEW U, NEW m, NEW len, NEW d, NEW n, MemInv(T, m, len, d, n),
           \A t \in U : t.do \in {"grow", "put", "clear", "cow"} => t \in T,
           \A t \in T : t.do = "clear" => t \in U
    PROVE  MemInv(U, m, len, d, n)
<1>1. Clearing(T) = Clearing(U)
  BY DEF Clearing
<1> QED
  BY <1>1 DEF MemInv

\* Another order of the cache, or other data in it.
SameLines(c, e) ==
    /\ Len(c) = Len(e)
    /\ \A x \in Range(c) : \E y \in Range(e) : x.line = y.line
    /\ \A y \in Range(e) : \E x \in Range(c) : x.line = y.line

LEMMA CacheLess ==
    ASSUME NEW T, NEW U, NEW c, NEW e, CacheInv(T, c), CacheOK(c), CacheOK(e), SameLines(c, e),
           \A t \in U : t.do \in {"insert", "sync", "clean"} => t \in T,
           Has(U, "evicted") => Has(T, "evicted"),
           Has(U, "insert") => Has(U, "evict") \/ ~Has(T, "evict")
    PROVE  CacheInv(U, e)
<1>1. e = <<>> => c = <<>>
  BY HeldFacts DEF SameLines
<1>2. Has(U, "insert") => Has(T, "insert")
  BY DEF Has
<1>3. \A t \in U : t.do = "insert" => \A y \in Range(e) : y.line # t.entry.line
  BY DEF CacheInv, SameLines
<1>4. \A t \in U : t.do \in {"sync", "clean"} => \E y \in Range(e) : y.line = t.line
  <2> SUFFICES ASSUME NEW t \in U, t.do \in {"sync", "clean"}
               PROVE  \E y \in Range(e) : y.line = t.line
    OBVIOUS
  <2>1. PICK x \in Range(c) : x.line = t.line
    BY DEF CacheInv
  <2>2. PICK y \in Range(e) : x.line = y.line
    BY DEF SameLines
  <2> QED
    BY <2>1, <2>2
<1>5. Has(U, "insert") /\ ~Has(U, "evict") => Len(e) < geom.lines
  BY <1>2 DEF CacheInv, SameLines
<1> QED
  BY <1>1, <1>3, <1>4, <1>5 DEF CacheInv

LEMMA SameLinesSelf ==
    ASSUME NEW c
    PROVE  SameLines(c, c)
  BY DEF SameLines

\* What the invariant says of the parts of the state.
LEMMA BaseFacts ==
    ASSUME BaseInv
    PROVE  /\ geom \in Setups /\ file \in Images /\ mem \in Maps
           /\ Plan(todo) /\ CacheOK(cache) /\ Len(cache) <= geom.lines
           /\ status \in {"open", "crashed"}
           /\ vol \in [Sectors -> Values] /\ stable \in [Sectors -> SUBSET Values]
           /\ unsure \in SUBSET Sectors /\ faults \in 0 .. MaxFaults
           /\ status = "crashed" => todo = <<>> /\ cache = <<>>
           /\ MemInv(Work, mem, file.len, file.data, faults)
           /\ CacheInv(Work, cache)
  BY DEF BaseInv, Typed

\* A step of the disk leaves the cache alone.
LEMMA BaseDisk ==
    ASSUME BaseInv, geom' = geom, KeepCache, todo # <<>>,
           Plan(todo'), file' \in Images, mem' \in Maps,
           MemInv(Range(todo'), mem', file'.len, file'.data, faults'),
           \A t \in Range(todo') :
              t.do \in {"insert", "sync", "clean", "evict", "evicted"} => t \in Work,
           \A t \in Work : t.do = "evict" => t \in Range(todo')
    PROVE  BaseInv'
<1>1. /\ cache' = cache /\ status' = status /\ vol' = vol /\ stable' = stable
      /\ unsure' = unsure /\ faults' = faults
  BY DEF KeepCache, history
<1>2. Typed(file', mem', todo', cache', status', vol', stable', unsure', faults')
  BY <1>1, BaseFacts DEF Typed
<1>3. PICK U : U = Range(todo')
  OBVIOUS
<1>4. CacheInv(U, cache)
  <2>1. Has(U, "evicted") => Has(Work, "evicted")
    BY <1>3 DEF Has
  <2>2. Has(U, "insert") => Has(U, "evict") \/ ~Has(Work, "evict")
    BY <1>3 DEF Has
  <2> QED
    BY <1>3, <2>1, <2>2, BaseFacts, CacheLess, SameLinesSelf
<1> QED
  BY <1>1, <1>2, <1>3, <1>4, BaseFacts, SameTyped, SameMem, SameCache DEF BaseInv

\* A step of the cache leaves the disk alone.
LEMMA BaseCache ==
    ASSUME BaseInv, geom' = geom, KeepDisk, status' = status, faults' = faults,
           vol' \in [Sectors -> Values], stable' \in [Sectors -> SUBSET Values],
           unsure' \in SUBSET Sectors,
           status = "crashed" => todo' = <<>> /\ cache' = <<>>,
           Plan(todo'), CacheOK(cache'), Len(cache') <= geom.lines,
           MemInv(Range(todo'), mem, file.len, file.data, faults),
           CacheInv(Range(todo'), cache')
    PROVE  BaseInv'
<1>1. file' = file /\ mem' = mem
  BY DEF KeepDisk
<1>2. Typed(file', mem', todo', cache', status', vol', stable', unsure', faults')
  BY <1>1, BaseFacts DEF Typed
<1>3. MemInv(Range(todo'), mem', file'.len, file'.data, faults')
  BY <1>1
<1> QED
  BY <1>2, <1>3, BaseFacts, SameTyped, SameMem, SameCache DEF BaseInv

-----------------------------------------------------------------------------
(* The disk's steps keep the types *)

LEMMA Spend ==
    ASSUME BaseInv, NEW kind, Doing(kind), Continue(<<>>)
    PROVE  /\ Plan(todo') /\ todo # <<>> /\ Step \in Steps /\ Step.do = kind
           /\ Work = {Step} \cup Rest /\ Range(todo') = Rest
           /\ Rest \in SUBSET Steps /\ \A u \in Rest : Before(kind, u.do)
<1>1. PICK e : e = <<>> /\ Plan(e) /\ Range(e) = {} /\ Continue(e)
  BY PlanNone
<1>2. \A t \in Range(e) : \A y : Before(kind, y) => Before(t.do, y)
  BY <1>1
<1>3. Plan(todo) /\ todo # <<>>
  BY BaseFacts DEF Doing
<1>4. /\ Plan(todo') /\ Step \in Steps /\ Step.do = kind
      /\ Work = {Step} \cup Rest /\ Range(todo') = Range(e) \cup Rest
      /\ Rest \in SUBSET Steps /\ \A u \in Rest : Before(kind, u.do)
  BY <1>1, <1>2, <1>3, Consume
<1> QED
  BY <1>1, <1>3, <1>4

\* A step that only writes the file and has no successor.
LEMMA SpendDisk ==
    ASSUME BaseInv, geom' = geom, KeepCache, NEW kind \in {"header", "entry", "grow", "put", "truncate"},
           Doing(kind), Continue(<<>>), mem' = mem, NEW f \in Images, file' = f,
           \A p \in Places : p >= f.len => f.data[p] = Zero
    PROVE  BaseInv'
<1>1. /\ Plan(todo') /\ todo # <<>> /\ Step \in Steps /\ Step.do = kind
      /\ Work = {Step} \cup Rest /\ Range(todo') = Rest
  BY Spend
<1>2. MemInv(Work, mem, f.len, f.data, faults)
  BY BaseFacts DEF MemInv
<1>3. MemInv(Rest, mem, f.len, f.data, faults)
  <2>1. \A t \in Rest : t.do \in {"grow", "put", "clear", "cow"} => t \in Work
    BY <1>1
  <2>2. \A t \in Work : t.do = "clear" => t \in Rest
    BY <1>1
  <2> QED
    BY <1>2, <2>1, <2>2, MemLess
<1>4. faults' = faults
  BY DEF KeepCache
<1>5. MemInv(Range(todo'), mem', file'.len, file'.data, faults')
  BY <1>1, <1>3, <1>4
<1>6. mem' \in Maps
  BY BaseFacts
<1>7. \A t \in Range(todo') :
              t.do \in {"insert", "sync", "clean", "evict", "evicted"} => t \in Work
  BY <1>1
<1>8. \A t \in Work : t.do = "evict" => t \in Range(todo')
  BY <1>1
<1> QED
  BY <1>1, <1>5, <1>6, <1>7, <1>8, BaseDisk

\* The fields of an image and of what is in memory.
LEMMA ImageFacts ==
    ASSUME geom \in Setups
    PROVE  /\ \A f \in Images : /\ f.allocated \in 0 .. MaxSlots
                                /\ f.table \in [Blocks -> Slots \cup {None}]
                                /\ f.data \in [Places -> Values] /\ f.len \in 0 .. End(MaxSlots)
                                /\ \A b \in Blocks : f.table[b] # None => f.table[b] \in Nat
                                /\ f.len \in Nat /\ f.allocated \in Nat
           /\ \A m \in Maps : /\ m.allocated \in 0 .. MaxSlots
                              /\ m.table \in [Blocks -> Slots \cup {None}]
                              /\ m.used \in SUBSET Slots
                              /\ \A b \in Blocks : m.table[b] # None => m.table[b] \in Slots
                              /\ m.allocated \in Nat
           /\ Slots \in SUBSET Nat /\ End(MaxSlots) \in Nat /\ None \notin Slots
           /\ \A k \in Slots : k + 1 <= MaxSlots
<1>1. MaxSlots \in Nat \ {0} /\ None \notin Nat
  BY GeomType
<1>2. Slots \in SUBSET Nat /\ \A k \in Slots : k + 1 <= MaxSlots
  BY <1>1 DEF Slots
<1>3. PICK z \in Sectors : z = 0
  BY GeomType DEF Sectors
<1>4. End(MaxSlots) \in Nat
  BY <1>1, <1>3, PlaceFacts
<1>5. ASSUME NEW f \in Images
      PROVE  /\ f.allocated \in 0 .. MaxSlots /\ f.table \in [Blocks -> Slots \cup {None}]
             /\ f.data \in [Places -> Values] /\ f.len \in 0 .. End(MaxSlots)
  BY DEF Images
<1>6. ASSUME NEW m \in Maps
      PROVE  /\ m.allocated \in 0 .. MaxSlots /\ m.table \in [Blocks -> Slots \cup {None}]
             /\ m.used \in SUBSET Slots
  BY DEF Maps
<1>7. ASSUME NEW t \in [Blocks -> Slots \cup {None}], NEW b \in Blocks, t[b] # None
      PROVE  t[b] \in Slots /\ t[b] \in Nat
  BY <1>2, <1>7
<1>8. ASSUME NEW n \in Nat, NEW k \in 0 .. n PROVE k \in Nat
  OBVIOUS
<1> QED
  BY <1>1, <1>2, <1>4, <1>5, <1>6, <1>7, <1>8

LEMMA HeaderBase ==
    ASSUME BaseInv, WriteHeader, UNCHANGED geom, KeepCache
    PROVE  BaseInv'
<1>1. file \in Images /\ mem \in Maps /\ geom \in Setups
      /\ \A p \in Places : p >= file.len => file.data[p] = Zero
  BY BaseFacts DEF MemInv
<1>2. PICK f : f = [file EXCEPT !.allocated = mem.allocated]
  OBVIOUS
<1>3. f \in Images /\ f.len = file.len /\ f.data = file.data
  BY <1>1, <1>2 DEF Images, Maps
<1> QED
  BY <1>1, <1>2, <1>3, SpendDisk DEF WriteHeader

LEMMA EntryBase ==
    ASSUME BaseInv, WriteEntry, UNCHANGED geom, KeepCache
    PROVE  BaseInv'
<1>1. file \in Images /\ mem \in Maps /\ geom \in Setups
      /\ \A p \in Places : p >= file.len => file.data[p] = Zero
  BY BaseFacts DEF MemInv
<1>2. PICK f : f = [file EXCEPT !.table[Step.block] = mem.table[Step.block]]
  OBVIOUS
<1>3. Step \in Steps /\ Step.do = "entry"
  BY Spend DEF WriteEntry
<1>4. Step.block \in Blocks
  BY <1>3, StepKinds
<1>5. f \in Images /\ f.len = file.len /\ f.data = file.data
  BY <1>1, <1>2, <1>4 DEF Images, Maps
<1> QED
  BY <1>1, <1>2, <1>5, SpendDisk DEF WriteEntry

\* set_len
LEMMA ResizeFacts ==
    ASSUME geom \in Setups, NEW f \in Images, NEW n \in 0 .. End(MaxSlots)
    PROVE  /\ Resize(f, n) \in Images /\ Resize(f, n).len = n
           /\ Resize(f, n).table = f.table /\ Resize(f, n).allocated = f.allocated
           /\ \A p \in Places : Resize(f, n).data[p] = IF p < n THEN f.data[p] ELSE Zero
<1>1. PICK d : d = [p \in Places |-> IF p < n THEN f.data[p] ELSE Zero]
  OBVIOUS
<1>2. d \in [Places -> Values]
  BY <1>1, ImageFacts, ValueFacts
<1>3. Resize(f, n) = [f EXCEPT !.len = n, !.data = d]
  BY <1>1 DEF Resize, Images
<1>4. PICK g : g = [f EXCEPT !.len = n, !.data = d]
  OBVIOUS
<1>5. g \in Images /\ g.len = n /\ g.table = f.table /\ g.allocated = f.allocated /\ g.data = d
  BY <1>2, <1>4 DEF Images
<1> QED
  BY <1>1, <1>3, <1>4, <1>5

\* The file after Grow and after Truncate.
LEMMA SetLenBase ==
    ASSUME geom \in Setups, NEW f \in Images, NEW n \in 0 .. End(MaxSlots), NEW g \in {f, Resize(f, n)},
           \A p \in Places : p >= f.len => f.data[p] = Zero
    PROVE  g \in Images /\ \A p \in Places : p >= g.len => g.data[p] = Zero
<1>1. CASE g = f
  BY <1>1
<1>2. CASE g = Resize(f, n)
  <2>1. g \in Images /\ g.len = n /\ \A p \in Places : g.data[p] = IF p < n THEN f.data[p] ELSE Zero
    BY <1>2, ResizeFacts
  <2>2. n \in Nat /\ \A p \in Places : p \in Nat
    BY ImageFacts DEF Places
  <2> QED
    BY <2>1, <2>2
<1> QED
  BY <1>1, <1>2

LEMMA GrowBase ==
    ASSUME BaseInv, Grow, UNCHANGED geom, KeepCache
    PROVE  BaseInv'
<1>1. file \in Images /\ mem \in Maps /\ geom \in Setups
      /\ \A p \in Places : p >= file.len => file.data[p] = Zero
  BY BaseFacts DEF MemInv
<1>3. Step \in Steps /\ Step.do = "grow"
  BY Spend DEF Grow
<1>4. Step.slot \in Slots
  BY <1>3, StepKinds
<1>5. PICK n \in 0 .. End(MaxSlots) : n = End(Step.slot + 1)
  <2>1. Step.slot + 1 \in Nat /\ MaxSlots \in Nat /\ Step.slot + 1 <= MaxSlots
    BY <1>1, <1>4, ImageFacts, GeomType
  <2>2. PICK z \in Sectors : z = 0
    BY <1>1, GeomType DEF Sectors
  <2> QED
    BY <1>1, <2>1, <2>2, PlaceFacts
<1>6. PICK g : g = IF n > file.len THEN Resize(file, n) ELSE file
  OBVIOUS
<1>7. g \in Images /\ \A p \in Places : p >= g.len => g.data[p] = Zero
  BY <1>1, <1>6, SetLenBase
<1>8. file' = g /\ mem' = mem /\ Doing("grow") /\ Continue(<<>>)
  BY <1>5, <1>6 DEF Grow
<1> QED
  BY <1>7, <1>8, SpendDisk

LEMMA TruncateBase ==
    ASSUME BaseInv, Truncate, UNCHANGED geom, KeepCache
    PROVE  BaseInv'
<1>1. file \in Images /\ mem \in Maps /\ geom \in Setups
      /\ \A p \in Places : p >= file.len => file.data[p] = Zero
  BY BaseFacts DEF MemInv
<1>5. PICK n \in 0 .. End(MaxSlots) : n = End(mem.allocated)
  <2>1. mem.allocated \in Nat /\ MaxSlots \in Nat /\ mem.allocated <= MaxSlots
    BY <1>1, ImageFacts, GeomType
  <2>2. PICK z \in Sectors : z = 0
    BY <1>1, GeomType DEF Sectors
  <2> QED
    BY <1>1, <2>1, <2>2, PlaceFacts
<1>6. PICK g : g = IF n < file.len THEN Resize(file, n) ELSE file
  OBVIOUS
<1>7. g \in Images /\ \A p \in Places : p >= g.len => g.data[p] = Zero
  BY <1>1, <1>6, SetLenBase
<1>8. file' = g /\ mem' = mem /\ Doing("truncate") /\ Continue(<<>>)
  BY <1>5, <1>6 DEF Truncate
<1> QED
  BY <1>7, <1>8, SpendDisk

\* The place that a put writes.
LEMMA PutPlace ==
    ASSUME BaseInv, PutSector
    PROVE  /\ Step \in Steps /\ Step.do = "put" /\ Step.sector \in Sectors /\ Step.value \in Values
           /\ mem.table[BlockOf(Step.sector)] \in Slots
           /\ Place(mem.table[BlockOf(Step.sector)], Step.sector) \in Places
           /\ Place(mem.table[BlockOf(Step.sector)], Step.sector) \in Nat
           /\ Place(mem.table[BlockOf(Step.sector)], Step.sector) < End(MaxSlots)
<1>1. Step \in Steps /\ Step.do = "put" /\ Step \in Work
  BY Spend DEF PutSector
<1>2. Step.sector \in Sectors /\ Step.value \in Values /\ geom \in Setups /\ mem \in Maps
  BY <1>1, StepKinds, BaseFacts
<1>3. BlockOf(Step.sector) \in Blocks /\ mem.table[BlockOf(Step.sector)] # None
  BY <1>1, <1>2, SectorFacts, BaseFacts DEF MemInv
<1>4. mem.table[BlockOf(Step.sector)] \in Slots
  BY <1>2, <1>3, ImageFacts
<1>5. Place(mem.table[BlockOf(Step.sector)], Step.sector) \in Places
  BY <1>2, <1>4, PlaceFacts
<1>6. \A p \in Places : p \in Nat /\ p < End(MaxSlots)
  BY <1>2, ImageFacts DEF Places
<1> QED
  BY <1>1, <1>2, <1>4, <1>5, <1>6

LEMMA PutBase ==
    ASSUME BaseInv, PutSector, UNCHANGED geom, KeepCache
    PROVE  BaseInv'
<1>1. file \in Images /\ mem \in Maps /\ geom \in Setups
      /\ \A p \in Places : p >= file.len => file.data[p] = Zero
  BY BaseFacts DEF MemInv
<1>2. PICK p \in Places : p = Place(mem.table[BlockOf(Step.sector)], Step.sector)
                          /\ p \in Nat /\ p < End(MaxSlots)
  BY PutPlace
<1>3. PICK v \in Values : v = Step.value
  BY PutPlace
<1>4. file.len \in Nat /\ End(MaxSlots) \in Nat /\ file.len \in 0 .. End(MaxSlots)
      /\ file.data \in [Places -> Values]
  BY <1>1, ImageFacts
<1>5. PICK n : n = IF p < file.len THEN file.len ELSE p + 1
  OBVIOUS
<1>6. n \in 0 .. End(MaxSlots) /\ n \in Nat /\ p < n /\ file.len <= n
  BY <1>2, <1>4, <1>5
<1>7. PICK g : g = [file EXCEPT !.data[p] = v, !.len = n]
  OBVIOUS
<1>8. g \in Images /\ g.len = n /\ g.data = [file.data EXCEPT ![p] = v]
  BY <1>1, <1>4, <1>6, <1>7 DEF Images
<1>9. \A r \in Places : r \in Nat
  BY DEF Places
<1>10. \A r \in Places : r >= g.len => g.data[r] = Zero
  BY <1>1, <1>2, <1>4, <1>6, <1>8, <1>9
<1>11. file' = g /\ mem' = mem /\ Doing("put") /\ Continue(<<>>)
  BY <1>2, <1>3, <1>5, <1>7 DEF PutSector
<1> QED
  BY <1>8, <1>10, <1>11, SpendDisk

\* There are at most as many mapped slots as mapped blocks.
LEMMA MappedCard ==
    ASSUME geom \in Setups, NEW tb \in [Blocks -> Slots \cup {None}],
           NEW b \in Blocks, tb[b] = None
    PROVE  /\ IsFiniteSet(Mapped(tb)) /\ Cardinality(Mapped(tb)) \in Nat
           /\ Cardinality(Mapped(tb)) <= Cardinality(Blocks) - 1
<1> DEFINE S == {c \in Blocks : tb[c] # None}
           f == [c \in S |-> tb[c]]
<1>1. IsFiniteSet(Blocks) /\ Cardinality(Blocks) \in Nat
  BY BlocksFinite
<1>2. IsFiniteSet(Blocks \ {b}) /\ Cardinality(Blocks \ {b}) = Cardinality(Blocks) - 1
  BY <1>1, FS_RemoveElement
<1>3. S \subseteq Blocks \ {b}
  OBVIOUS
<1>4. f \in Surjection(S, Mapped(tb))
  BY DEF Surjection, Mapped
<1> HIDE DEF S, f
<1>5. IsFiniteSet(S) /\ Cardinality(S) <= Cardinality(Blocks \ {b})
  BY <1>2, <1>3, FS_Subset
<1>6. IsFiniteSet(Mapped(tb)) /\ Cardinality(Mapped(tb)) <= Cardinality(S)
  BY <1>4, <1>5, FS_Surjection
<1>7. Cardinality(Mapped(tb)) \in Nat /\ Cardinality(S) \in Nat
  BY <1>5, <1>6, FS_CardinalityType
<1> QED
  BY <1>1, <1>2, <1>5, <1>6, <1>7

\* As long as some block has no slot, a slot for it is in reach.
LEMMA SlotLeft ==
    ASSUME BaseInv, NEW b \in Blocks, mem.table[b] = None, ~Has(Work, "clear"), FreeSlots = {}
    PROVE  mem.allocated + 1 <= Cardinality(Blocks) + Lost(faults)
<1>1. /\ geom \in Setups /\ mem \in Maps /\ MemInv(Work, mem, file.len, file.data, faults)
      /\ mem.allocated \in Nat /\ mem.table \in [Blocks -> Slots \cup {None}]
  BY BaseFacts, ImageFacts
<1>2. PICK L \in SUBSET mem.used : /\ Cardinality(L) <= Lost(faults)
                                   /\ mem.used \subseteq Mapped(mem.table) \cup Clearing(Work) \cup L
  BY <1>1 DEF MemInv
<1>3. Clearing(Work) = {}
  BY DEF Clearing, Has
<1>4. mem.used = 0 .. mem.allocated - 1
  BY <1>1 DEF MemInv, FreeSlots
<1>5. IsFiniteSet(mem.used) /\ Cardinality(mem.used) = mem.allocated
  <2>1. CASE mem.allocated = 0
    <3>1. 0 .. mem.allocated - 1 = {}
      BY <2>1
    <3> QED
      BY <1>4, <2>1, <3>1, FS_EmptySet
  <2>2. CASE mem.allocated # 0
    <3>1. mem.allocated - 1 \in Int /\ ~(0 > mem.allocated - 1) /\ mem.allocated - 1 - 0 + 1 = mem.allocated
      BY <1>1, <2>2
    <3> QED
      BY <1>4, <3>1, FS_Interval
  <2> QED
    BY <2>1, <2>2
<1>6. IsFiniteSet(L) /\ Cardinality(L) \in Nat
  BY <1>5, FS_Subset, FS_CardinalityType
<1>7. /\ IsFiniteSet(Mapped(mem.table)) /\ Cardinality(Mapped(mem.table)) \in Nat
      /\ Cardinality(Mapped(mem.table)) <= Cardinality(Blocks) - 1
  BY <1>1, MappedCard
<1>8. /\ IsFiniteSet(Mapped(mem.table) \cup L)
      /\ Cardinality(Mapped(mem.table) \cup L) = Cardinality(Mapped(mem.table)) + Cardinality(L)
                                                 - Cardinality(Mapped(mem.table) \cap L)
      /\ Cardinality(Mapped(mem.table) \cap L) \in Nat
  <2>1. IsFiniteSet(Mapped(mem.table) \cap L)
    BY <1>6, FS_Subset
  <2> QED
    BY <1>6, <1>7, <2>1, FS_Union, FS_CardinalityType
<1>9. mem.used \subseteq Mapped(mem.table) \cup L
  BY <1>2, <1>3
<1>10. Cardinality(mem.used) <= Cardinality(Mapped(mem.table) \cup L)
  BY <1>8, <1>9, FS_Subset
<1>11. Cardinality(Blocks) \in Nat /\ Lost(faults) \in Nat
  <2>1. faults \in 0 .. MaxFaults /\ MaxFaults \in Nat
    BY <1>1, BaseFacts, GeomType
  <2> QED
    BY <1>1, <2>1, BlocksFinite DEF Lost
<1>12. PICK u \in Nat, x \in Nat, y \in Nat, z \in Nat, n \in Nat, k \in Nat :
          /\ u = mem.allocated /\ x = Cardinality(Mapped(mem.table)) /\ y = Cardinality(L)
          /\ z = Cardinality(Mapped(mem.table) \cap L) /\ n = Cardinality(Blocks) /\ k = Lost(faults)
  BY <1>1, <1>6, <1>7, <1>8, <1>11
<1>13. u <= x + y - z /\ x <= n - 1 /\ y <= k
  BY <1>2, <1>5, <1>7, <1>8, <1>10, <1>12
<1>14. u + 1 <= n + k
  BY <1>13
<1> QED
  BY <1>12, <1>14

\* The numbers stay in range of the bound on slots.
LEMMA SlotBound ==
    ASSUME BaseInv
    PROVE  /\ Cardinality(Blocks) \in Nat /\ Lost(faults) \in Nat
           /\ Cardinality(Blocks) + Lost(faults) <= MaxSlots
<1>1. /\ geom \in Setups /\ faults \in 0 .. MaxFaults /\ MaxFaults \in Nat
      /\ NSectors + MaxFaults <= MaxSlots /\ NSectors \in Nat /\ MaxSlots \in Nat
  BY BaseFacts, GeomType
<1>2. Cardinality(Blocks) \in Nat /\ Cardinality(Blocks) <= NSectors
  BY <1>1, BlocksFinite
<1>3. Lost(faults) \in 0 .. MaxFaults
  BY <1>1 DEF Lost
<1> QED
  BY <1>1, <1>2, <1>3

-----------------------------------------------------------------------------
(* One iteration of AeroCowDisk::write_at *)

\* Block b is given slot k, which no one uses; H is the header write that this
\* takes when the slot is a new one.
GivesSlot(b, k, H, m) ==
    /\ k \in Slots /\ k \notin mem.used
    /\ m.table = [mem.table EXCEPT ![b] = k]
    /\ m.used = mem.used \cup {k}
    /\ \/ k < mem.allocated /\ m.allocated = mem.allocated /\ H = {}
       \/ k = mem.allocated /\ m.allocated = mem.allocated + 1 /\ H = {[do |-> "header"]}

LEMMA AllocateFacts ==
    ASSUME BaseInv, NEW b \in Blocks, mem.table[b] = None, ~Has(Work, "clear")
    PROVE  /\ Allocate(b) \in Maps
           /\ Allocate(b).allocated <= Cardinality(Blocks) + Lost(faults)
           /\ GivesSlot(b, Allocate(b).table[b],
                        IF FreeSlots = {} THEN {[do |-> "header"]} ELSE {}, Allocate(b))
<1>1. /\ geom \in Setups /\ mem \in Maps /\ MemInv(Work, mem, file.len, file.data, faults)
      /\ mem.allocated \in Nat /\ mem.table \in [Blocks -> Slots \cup {None}]
      /\ mem.used \in SUBSET Slots /\ MaxSlots \in Nat /\ mem.allocated <= MaxSlots
  BY BaseFacts, ImageFacts, GeomType
<1>2. mem.used \subseteq 0 .. mem.allocated - 1 /\ mem.allocated <= Cardinality(Blocks) + Lost(faults)
  BY <1>1 DEF MemInv
<1>3. PICK k : k = IF FreeSlots # {} THEN Min(FreeSlots) ELSE mem.allocated
  OBVIOUS
<1>4. PICK a : a = IF FreeSlots # {} THEN mem.allocated ELSE mem.allocated + 1
  OBVIOUS
<1>5. PICK m : m = [mem EXCEPT !.table[b] = k, !.used = @ \cup {k}, !.allocated = a]
  OBVIOUS
<1>6. Allocate(b) = m
  BY <1>3, <1>4, <1>5 DEF Allocate
<1>7. CASE FreeSlots # {}
  <2>1. FreeSlots \in SUBSET Nat
    BY <1>1 DEF FreeSlots
  <2>2. k \in FreeSlots /\ a = mem.allocated
    BY <1>3, <1>4, <1>7, <2>1, MinFacts
  <2>3. k \in 0 .. mem.allocated - 1 /\ k \notin mem.used
    BY <2>2 DEF FreeSlots
  <2>4. k \in Slots /\ k < mem.allocated
    BY <1>1, <2>3 DEF Slots
  <2>5. /\ m.table = [mem.table EXCEPT ![b] = k] /\ m.used = mem.used \cup {k}
        /\ m.allocated = mem.allocated /\ m \in Maps
    BY <1>1, <1>5, <2>2, <2>4 DEF Maps
  <2>6. m.table[b] = k
    BY <1>1, <2>5
  <2> QED
    BY <1>2, <1>6, <1>7, <2>3, <2>4, <2>5, <2>6 DEF GivesSlot
<1>8. CASE FreeSlots = {}
  <2>1. k = mem.allocated /\ a = mem.allocated + 1
    BY <1>3, <1>4, <1>8
  <2>2. a <= Cardinality(Blocks) + Lost(faults)
    BY <1>8, <2>1, SlotLeft
  <2>3. a <= MaxSlots /\ a \in Nat
    BY <1>1, <2>1, <2>2, SlotBound
  <2>4. k \in Slots /\ k \notin mem.used
    BY <1>1, <1>2, <2>1, <2>3 DEF Slots
  <2>7. a \in 0 .. MaxSlots
    BY <1>1, <2>3
  <2>8. /\ m.table = [mem.table EXCEPT ![b] = k] /\ m.used = mem.used \cup {k}
        /\ m.allocated = a /\ m \in Maps
    BY <1>1, <1>5, <2>4, <2>7 DEF Maps
  <2>5. /\ m.table = [mem.table EXCEPT ![b] = k] /\ m.used = mem.used \cup {k}
        /\ m.allocated = mem.allocated + 1 /\ m \in Maps
    BY <2>1, <2>8
  <2>6. m.table[b] = k
    BY <1>1, <2>5
  <2> QED
    BY <1>6, <1>8, <2>1, <2>2, <2>4, <2>5, <2>6 DEF GivesSlot
<1> QED
  BY <1>7, <1>8

\* The steps that give a block its slot.
NewSteps(b, k, H, c) ==
    H \cup {[do |-> "entry", block |-> b], [do |-> "grow", slot |-> k]}
      \cup {Put(s, Filled(s, c), TRUE) : s \in SectorsOf(b)}

\* What CowWrite finds and what it leaves to do, when the block has a slot and
\* when it has none.
CowOver(b, c) == /\ mem.table[b] # None /\ mem' = mem
                 /\ Range(todo') = {Put(s, c[s], FALSE) : s \in DOMAIN c} \cup Rest
CowNew(b, c, k, H) == /\ mem.table[b] = None /\ GivesSlot(b, k, H, mem')
                      /\ mem' \in Maps /\ mem'.allocated <= Cardinality(Blocks) + Lost(faults)
                      /\ Range(todo') = NewSteps(b, k, H, c) \cup Rest

\* The new steps of a block in their order.
LEMMA NewPlan ==
    ASSUME geom \in Setups, NEW b \in Blocks, NEW k \in Slots, NEW c \in Chunks, NEW free \in BOOLEAN
    PROVE  LET q == (IF free THEN <<[do |-> "header"]>> ELSE <<>>)
                    \o <<[do |-> "entry", block |-> b], [do |-> "grow", slot |-> k]>>
                    \o Fill(b, c)
           IN  Plan(q) /\ Range(q) = NewSteps(b, k, IF free THEN {[do |-> "header"]} ELSE {}, c)
<1> DEFINE h == [do |-> "header"]
           e == [do |-> "entry", block |-> b]
           g == [do |-> "grow", slot |-> k]
<1>1. h \in Steps /\ e \in Steps /\ g \in Steps /\ h.do = "header" /\ e.do = "entry" /\ g.do = "grow"
  BY StepSimple, StepBlock, StepGrow
<1>2. PICK p : p = IF free THEN <<h>> ELSE <<>>
  OBVIOUS
<1>3. Plan(p) /\ Range(p) = IF free THEN {h} ELSE {}
  <2> HIDE DEF h
  <2> QED
    BY <1>1, <1>2, PlanNone, PlanOne
<1>4. PICK q : q = <<e, g>>
  OBVIOUS
<1>5. Plan(q) /\ Range(q) = {e, g}
  <2>1. Before(e.do, g.do)
    BY <1>1 DEF Before
  <2> HIDE DEF e, g
  <2> QED
    BY <1>1, <1>4, <2>1, PlanTwo
<1>6. PICK r : r = Fill(b, c) /\ Plan(r) /\ Range(r) = {Put(s, Filled(s, c), TRUE) : s \in SectorsOf(b)}
  BY FillFacts
<1>7. \A t \in Range(p) : t.do = "header"
  BY <1>1, <1>3
<1>8. \A t \in Range(q) : t.do \in {"entry", "grow"}
  BY <1>1, <1>5
<1>9. \A t \in Range(r) : t.do = "put"
  BY <1>6 DEF Put
<1>10. Precedes(q, r)
  BY <1>8, <1>9 DEF Precedes, Before
<1>11. Plan(q \o r) /\ Range(q \o r) = Range(q) \cup Range(r)
  BY <1>5, <1>6, <1>10, PlanConcat
<1>12. Precedes(p, q \o r)
  BY <1>7, <1>8, <1>9, <1>11 DEF Precedes, Before
<1>13. Plan(p \o (q \o r)) /\ Range(p \o (q \o r)) = Range(p) \cup Range(q) \cup Range(r)
  BY <1>3, <1>11, <1>12, PlanConcat
<1>14. p \o (q \o r) = (p \o q) \o r
  <2>1. p \in Seq(Steps) /\ q \in Seq(Steps) /\ r \in Seq(Steps)
    BY <1>3, <1>5, <1>6 DEF Plan
  <2> QED
    BY <2>1, ConcatAssociative
<1>15. Range(p) \cup Range(q) \cup Range(r) = NewSteps(b, k, IF free THEN {h} ELSE {}, c)
  BY <1>3, <1>5, <1>6 DEF NewSteps
<1>16. (p \o q) \o r = (IF free THEN <<[do |-> "header"]>> ELSE <<>>)
                    \o <<[do |-> "entry", block |-> b], [do |-> "grow", slot |-> k]>>
                    \o Fill(b, c)
  BY <1>2, <1>4, <1>6
<1> QED
  BY <1>13, <1>14, <1>15, <1>16

LEMMA CowEffect ==
    ASSUME BaseInv, CowWrite
    PROVE  \E b \in Blocks, c \in Chunks :
             /\ Step \in Steps /\ Step.do = "cow" /\ Step.chunk = c /\ todo # <<>>
             /\ DOMAIN c # {} /\ (\A s \in DOMAIN c : BlockOf(s) = b)
             /\ Work = {Step} \cup Rest /\ Rest \in SUBSET Steps
             /\ (\A u \in Rest : Before("cow", u.do)) /\ ~Has(Work, "clear")
             /\ Plan(todo') /\ file' = file
             /\ CowOver(b, c) \/ \E k \in Slots : \E H : CowNew(b, c, k, H)
<1>1. geom \in Setups /\ Plan(todo) /\ todo # <<>> /\ Doing("cow") /\ file' = file
  BY BaseFacts DEF CowWrite, Doing
<1>2. /\ Step \in Steps /\ Step.do = "cow" /\ Work = {Step} \cup Rest
      /\ Rest \in SUBSET Steps /\ \A u \in Rest : Before("cow", u.do)
  BY <1>1, PlanHead DEF Step, Work, Rest, Doing
<1>3. PICK c \in Chunks : c = Step.chunk /\ DOMAIN c # {}
                          /\ \A s, r \in DOMAIN c : BlockOf(s) = BlockOf(r)
  BY <1>2 DEF Steps
<1>4. DOMAIN c \in SUBSET Sectors /\ \A s \in DOMAIN c : s \in Nat
  BY <1>1, <1>3, ChunkFacts, SectorFacts
<1>5. PICK b \in Blocks : b = BlockOf(Min(DOMAIN c)) /\ \A s \in DOMAIN c : BlockOf(s) = b
  <2>1. Min(DOMAIN c) \in DOMAIN c
    BY <1>3, <1>4, MinFacts
  <2> QED
    BY <1>1, <1>3, <1>4, <2>1, SectorFacts
<1>6. ~Has(Work, "clear")
  <2>1. ~Before("cow", "clear")
    BY DEF Before
  <2> QED
    BY <1>2, <2>1 DEF Has
<1>7. \/ mem.table[b] # None /\ Continue(Puts(c)) /\ mem' = mem
      \/ /\ mem.table[b] = None /\ mem' = Allocate(b)
         /\ Continue((IF FreeSlots = {} THEN <<[do |-> "header"]>> ELSE <<>>)
                          \o <<[do |-> "entry", block |-> b],
                               [do |-> "grow", slot |-> Allocate(b).table[b]]>>
                          \o Fill(b, c))
  BY <1>3, <1>5 DEF CowWrite, Puts
<1>8. ASSUME mem.table[b] # None, Continue(Puts(c)), mem' = mem
      PROVE  Plan(todo') /\ CowOver(b, c)
  <2>1. PICK q : q = Puts(c) /\ Plan(q) /\ Range(q) = {Put(s, c[s], FALSE) : s \in DOMAIN c}
    BY <1>1, PutsFacts
  <2>2. \A t \in Range(q) : \A y : Before("cow", y) => Before(t.do, y)
    BY <2>1 DEF Before, Put, Storing
  <2>3. Continue(q)
    BY <1>8, <2>1
  <2>4. Plan(todo') /\ Range(todo') = Range(q) \cup Rest
    BY <1>1, <2>1, <2>2, <2>3, Consume
  <2> QED
    BY <1>8, <2>1, <2>4 DEF CowOver
<1>9. ASSUME mem.table[b] = None, mem' = Allocate(b),
             Continue((IF FreeSlots = {} THEN <<[do |-> "header"]>> ELSE <<>>)
                          \o <<[do |-> "entry", block |-> b],
                               [do |-> "grow", slot |-> Allocate(b).table[b]]>>
                          \o Fill(b, c))
      PROVE  Plan(todo') /\ \E k \in Slots : \E H : CowNew(b, c, k, H)
  <2>1. PICK m, k, H : /\ m = Allocate(b) /\ k = Allocate(b).table[b]
                       /\ H = IF FreeSlots = {} THEN {[do |-> "header"]} ELSE {}
    OBVIOUS
  <2>2. m \in Maps /\ m.allocated <= Cardinality(Blocks) + Lost(faults) /\ GivesSlot(b, k, H, m)
    BY <1>6, <1>9, <2>1, AllocateFacts
  <2>3. k \in Slots
    BY <2>2 DEF GivesSlot
  <2>4. PICK q : q = (IF FreeSlots = {} THEN <<[do |-> "header"]>> ELSE <<>>)
                          \o <<[do |-> "entry", block |-> b], [do |-> "grow", slot |-> k]>>
                          \o Fill(b, c)
    OBVIOUS
  <2>5. PICK free \in BOOLEAN : free <=> (FreeSlots = {})
    BY Zenon
  <2>6. q = (IF free THEN <<[do |-> "header"]>> ELSE <<>>)
                          \o <<[do |-> "entry", block |-> b], [do |-> "grow", slot |-> k]>>
                          \o Fill(b, c)
    BY <2>4, <2>5
  <2>7. Plan(q) /\ Range(q) = NewSteps(b, k, IF free THEN {[do |-> "header"]} ELSE {}, c)
    BY <1>1, <2>3, <2>6, NewPlan
  <2>8. (IF free THEN {[do |-> "header"]} ELSE {}) = H
    BY <2>1, <2>5
  <2>9. Range(q) = NewSteps(b, k, H, c)
    BY <2>7, <2>8
  <2>10. \A t \in Range(q) : t.do \in {"header", "entry", "grow", "put"}
    BY <2>1, <2>9 DEF NewSteps, Put
  <2>11. \A t \in Range(q) : \A y : Before("cow", y) => Before(t.do, y)
    BY <2>10 DEF Before, Storing
  <2>12. Continue(q)
    BY <1>9, <2>1, <2>4
  <2>13. Plan(todo') /\ Range(todo') = Range(q) \cup Rest
    BY <1>1, <2>7, <2>11, <2>12, Consume
  <2>14. mem' = m
    BY <1>9, <2>1
  <2>15. CowNew(b, c, k, H)
    BY <1>9, <2>2, <2>9, <2>13, <2>14 DEF CowNew
  <2> QED
    BY <2>3, <2>13, <2>15
<1> QED
  BY <1>1, <1>2, <1>3, <1>5, <1>6, <1>7, <1>8, <1>9

\* The kinds of step that may follow a copy-on-write step.
LEMMA AfterCow ==
    ASSUME NEW u, Before("cow", u.do)
    PROVE  u.do \in {"cow", "clean", "evicted", "evict", "insert", "chunk", "written", "sync",
                     "flushed", "dealloc", "trim", "drop"}
  BY DEF Before

LEMMA CowOverMem ==
    ASSUME BaseInv, NEW b \in Blocks, NEW c \in Chunks, mem.table[b] # None,
           \A s \in DOMAIN c : BlockOf(s) = b,
           NEW U, U = {Put(s, c[s], FALSE) : s \in DOMAIN c} \cup Rest, Rest \subseteq Work,
           ~Has(Work, "clear")
    PROVE  MemInv(U, mem, file.len, file.data, faults)
<1>1. MemInv(Work, mem, file.len, file.data, faults)
  BY BaseFacts
<1>2. \A t \in U : t \in Work \/ (t.do = "put" /\ BlockOf(t.sector) = b)
  BY DEF Put
<1>3. Clearing(U) = {} /\ Clearing(Work) = {}
  <2>1. \A t \in U : t.do # "clear"
    BY <1>2 DEF Has
  <2> QED
    BY <2>1 DEF Clearing, Has
<1>4. \E L \in SUBSET mem.used :
          Cardinality(L) <= Lost(faults) /\ mem.used \subseteq Mapped(mem.table) \cup Clearing(U) \cup L
  BY <1>1, <1>3 DEF MemInv
<1>5. \A t, u \in U : t.do = "cow" /\ u.do = "cow" /\ t # u =>
          \A s \in DOMAIN t.chunk, r \in DOMAIN u.chunk : BlockOf(s) # BlockOf(r)
  BY <1>1, <1>2 DEF MemInv
<1> QED
  BY <1>1, <1>2, <1>4, <1>5 DEF MemInv, Has

LEMMA CowNewMem ==
    ASSUME BaseInv, NEW b \in Blocks, NEW c \in Chunks, mem.table[b] = None,
           NEW k \in Slots, NEW H, NEW m \in Maps, GivesSlot(b, k, H, m),
           m.allocated <= Cardinality(Blocks) + Lost(faults),
           NEW U, U = NewSteps(b, k, H, c) \cup Rest, Rest \subseteq Work,
           ~Has(Work, "clear"), \A u \in Rest : Before("cow", u.do)
    PROVE  MemInv(U, m, file.len, file.data, faults)
<1>1. /\ MemInv(Work, mem, file.len, file.data, faults) /\ geom \in Setups /\ mem \in Maps
      /\ mem.table \in [Blocks -> Slots \cup {None}] /\ mem.allocated \in Nat /\ mem.used \in SUBSET Slots
      /\ None \notin Slots /\ Slots \in SUBSET Nat
  BY BaseFacts, ImageFacts
<1>2. /\ k \notin mem.used /\ m.table = [mem.table EXCEPT ![b] = k] /\ m.used = mem.used \cup {k}
      /\ m.allocated \in Nat /\ mem.allocated <= m.allocated /\ k < m.allocated
  BY <1>1 DEF GivesSlot
<1>3. \A t \in U : \/ t \in Rest /\ t.do \in {"cow", "clean", "evicted", "evict", "insert", "chunk",
                            "written", "sync", "flushed", "dealloc", "trim", "drop"}
                   \/ t.do \in {"header", "entry"}
                   \/ t.do = "grow" /\ t.slot = k
                   \/ t.do = "put" /\ BlockOf(t.sector) = b
  <2>1. \A t \in Rest : t.do \in {"cow", "clean", "evicted", "evict", "insert", "chunk",
                            "written", "sync", "flushed", "dealloc", "trim", "drop"}
    BY AfterCow
  <2>2. \A t \in H : t.do = "header"
    BY DEF GivesSlot
  <2>3. \A s \in SectorsOf(b) : BlockOf(s) = b
    BY <1>1, SectorFacts
  <2> QED
    BY <2>1, <2>2, <2>3 DEF NewSteps, Put
<1>4. /\ m.table[b] = k /\ b \in Blocks /\ k # None
      /\ \A x \in Blocks : x # b => m.table[x] = mem.table[x]
  BY <1>1, <1>2
<1>5. \A x \in Blocks : mem.table[x] # k
  BY <1>1, <1>2 DEF MemInv
<1>6. \A x, y \in Blocks : m.table[x] # None /\ m.table[x] = m.table[y] => x = y
  BY <1>1, <1>4, <1>5 DEF MemInv
<1>7. \A x \in Blocks : m.table[x] # None => m.table[x] \in m.used
  BY <1>1, <1>2, <1>4 DEF MemInv
<1>8. m.used \subseteq 0 .. (m.allocated - 1)
  <2>1. mem.used \subseteq 0 .. (mem.allocated - 1)
    BY <1>1 DEF MemInv
  <2>2. \A x \in m.used : x \in Nat /\ x < m.allocated
    BY <1>1, <1>2, <2>1
  <2> QED
    BY <1>2, <2>2
<1>9. \E L \in SUBSET m.used :
          Cardinality(L) <= Lost(faults) /\ m.used \subseteq Mapped(m.table) \cup Clearing(U) \cup L
  <2>1. PICK L \in SUBSET mem.used :
          Cardinality(L) <= Lost(faults) /\ mem.used \subseteq Mapped(mem.table) \cup Clearing(Work) \cup L
    BY <1>1 DEF MemInv
  <2>3. Mapped(mem.table) \cup {k} \subseteq Mapped(m.table)
    BY <1>1, <1>4 DEF Mapped
  <2>4. Clearing(Work) = {}
    BY DEF Clearing, Has
  <2> QED
    BY <1>2, <2>1, <2>3, <2>4
<1>10. \A t, u \in U : t.do = "cow" /\ u.do = "cow" /\ t # u =>
          \A s \in DOMAIN t.chunk, r \in DOMAIN u.chunk : BlockOf(s) # BlockOf(r)
  BY <1>1, <1>3 DEF MemInv
<1>11. \A t \in U : t.do = "grow" => t.slot \in m.used
  BY <1>2, <1>3
<1>12. \A t \in U : t.do = "put" => m.table[BlockOf(t.sector)] # None
  BY <1>3, <1>4
<1>13. \A t \in U : t.do # "clear"
  BY <1>3
<1>14. \A p \in Places : p >= file.len => file.data[p] = Zero
  BY <1>1 DEF MemInv
<1> QED
  BY <1>6, <1>7, <1>8, <1>9, <1>10, <1>11, <1>12, <1>13, <1>14 DEF MemInv

LEMMA CowBase ==
    ASSUME BaseInv, CowWrite, UNCHANGED geom, KeepCache
    PROVE  BaseInv'
<1>1. PICK b \in Blocks, c \in Chunks :
             /\ Step \in Steps /\ Step.do = "cow" /\ Step.chunk = c /\ todo # <<>>
             /\ DOMAIN c # {} /\ (\A s \in DOMAIN c : BlockOf(s) = b)
             /\ Work = {Step} \cup Rest /\ Rest \in SUBSET Steps
             /\ (\A u \in Rest : Before("cow", u.do)) /\ ~Has(Work, "clear")
             /\ Plan(todo') /\ file' = file
             /\ CowOver(b, c) \/ \E k \in Slots : \E H : CowNew(b, c, k, H)
  BY CowEffect
<1>2. file' \in Images /\ faults' = faults
  BY <1>1, BaseFacts DEF KeepCache
<1>3. PICK U : U = Range(todo')
  OBVIOUS
<1>4. ASSUME CowOver(b, c)
      PROVE  /\ mem' \in Maps /\ MemInv(U, mem', file.len, file.data, faults)
             /\ \A t \in U : t \in Rest \/ t.do = "put"
             /\ Rest \subseteq U
  <2>1. U = {Put(s, c[s], FALSE) : s \in DOMAIN c} \cup Rest /\ mem.table[b] # None /\ mem' = mem
    BY <1>3, <1>4 DEF CowOver
  <2>2. MemInv(U, mem, file.len, file.data, faults)
    BY <1>1, <2>1, CowOverMem
  <2> QED
    BY <2>1, <2>2, BaseFacts DEF Put
<1>5. ASSUME NEW k \in Slots, NEW H, CowNew(b, c, k, H)
      PROVE  /\ mem' \in Maps /\ MemInv(U, mem', file.len, file.data, faults)
             /\ \A t \in U : t \in Rest \/ t.do \in Storing
             /\ Rest \subseteq U
  <2>1. PICK m \in Maps : m = mem'
    BY <1>5 DEF CowNew
  <2>2. /\ U = NewSteps(b, k, H, c) \cup Rest /\ mem.table[b] = None /\ GivesSlot(b, k, H, m)
        /\ m.allocated <= Cardinality(Blocks) + Lost(faults)
    BY <1>3, <1>5, <2>1 DEF CowNew
  <2>3. MemInv(U, m, file.len, file.data, faults)
    BY <1>1, <2>2, CowNewMem
  <2>4. \A t \in H : t.do = "header"
    BY <2>2 DEF GivesSlot
  <2>5. \A t \in U : t \in Rest \/ t.do \in Storing
    BY <2>2, <2>4 DEF NewSteps, Put, Storing
  <2> QED
    BY <2>1, <2>2, <2>3, <2>5
<1>6. /\ mem' \in Maps /\ MemInv(U, mem', file.len, file.data, faults)
      /\ \A t \in U : t \in Rest \/ t.do \in Storing
      /\ Rest \subseteq U
  <2>1. CASE CowOver(b, c)
    BY <1>4, <2>1 DEF Storing
  <2>2. CASE \E k \in Slots : \E H : CowNew(b, c, k, H)
    BY <1>5, <2>2
  <2> QED
    BY <1>1, <2>1, <2>2
<1>7. MemInv(Range(todo'), mem', file'.len, file'.data, faults')
  BY <1>1, <1>2, <1>3, <1>6
<1>8. \A t \in Range(todo') :
              t.do \in {"insert", "sync", "clean", "evict", "evicted"} => t \in Work
  BY <1>1, <1>3, <1>6 DEF Storing
<1>9. \A t \in Work : t.do = "evict" => t \in Range(todo')
  BY <1>1, <1>3, <1>6
<1> QED
  BY <1>1, <1>2, <1>6, <1>7, <1>8, <1>9, BaseDisk

-----------------------------------------------------------------------------
(* discard_range of the sparse disk *)

ClearStep(b, k) == [do |-> "clear", block |-> b, slot |-> k]

\* What follows the steps of a discard.
LEMMA AfterDealloc ==
    ASSUME NEW u, Before("dealloc", u.do) \/ Before("clear", u.do)
    PROVE  u.do \in {"dealloc", "trim", "drop"}
  BY DEF Before, Storing

LEMMA AfterTrim ==
    ASSUME NEW u, Before("trim", u.do) \/ Before("truncate", u.do)
    PROVE  u.do = "drop"
  BY DEF Before, Storing

LEMMA DeallocEffect ==
    ASSUME BaseInv, DeallocateBlock
    PROVE  \E b \in Blocks :
             /\ Step \in Steps /\ Step.do = "dealloc" /\ Step.block = b /\ todo # <<>>
             /\ Work = {Step} \cup Rest /\ Rest \in SUBSET Steps
             /\ (\A u \in Rest : u.do \in {"dealloc", "trim", "drop"})
             /\ Plan(todo') /\ file' = file /\ mem' \in Maps
             /\ mem'.table = [mem.table EXCEPT ![b] = None]
             /\ mem'.used = mem.used /\ mem'.allocated = mem.allocated
             /\ Range(todo') = (IF mem.table[b] = None THEN {} ELSE {ClearStep(b, mem.table[b])})
                               \cup Rest
<1>1. geom \in Setups /\ Plan(todo) /\ todo # <<>> /\ Doing("dealloc") /\ file' = file
      /\ mem \in Maps
  BY BaseFacts DEF DeallocateBlock, Doing
<1>2. /\ Step \in Steps /\ Step.do = "dealloc" /\ Work = {Step} \cup Rest
      /\ Rest \in SUBSET Steps /\ \A u \in Rest : Before("dealloc", u.do)
  BY <1>1, PlanHead DEF Step, Work, Rest, Doing
<1>3. PICK b \in Blocks : b = Step.block
  BY <1>2, StepKinds
<1>4. PICK m : m = [mem EXCEPT !.table[b] = None]
  OBVIOUS
<1>5. /\ m \in Maps /\ m.table = [mem.table EXCEPT ![b] = None]
      /\ m.used = mem.used /\ m.allocated = mem.allocated
  BY <1>1, <1>4 DEF Maps
<1>6. mem' = m
  BY <1>3, <1>4 DEF DeallocateBlock
<1>7. PICK q : q = IF mem.table[b] = None THEN <<>> ELSE <<ClearStep(b, mem.table[b])>>
  OBVIOUS
<1>8. Continue(q)
  BY <1>3, <1>7 DEF DeallocateBlock, ClearStep
<1>9. Plan(q) /\ Range(q) = IF mem.table[b] = None THEN {} ELSE {ClearStep(b, mem.table[b])}
  <2>1. CASE mem.table[b] = None
    BY <1>7, <2>1, PlanNone
  <2>2. CASE mem.table[b] # None
    <3>1. mem.table[b] \in Slots
      BY <1>1, <2>2, ImageFacts
    <3>2. PICK t \in Steps : t = ClearStep(b, mem.table[b])
      BY <3>1, StepBlock DEF ClearStep
    <3>3. q = <<t>> /\ Plan(<<t>>) /\ Range(<<t>>) = {t}
      BY <1>7, <2>2, <3>2, PlanOne
    <3> QED
      BY <2>2, <3>2, <3>3
  <2> QED
    BY <2>1, <2>2
<1>10. \A t \in Range(q) : t.do = "clear"
  BY <1>9 DEF ClearStep
<1>11. \A t \in Range(q) : \A y : Before("dealloc", y) => Before(t.do, y)
  BY <1>10 DEF Before, Storing
<1>12. Plan(todo') /\ Range(todo') = Range(q) \cup Rest
  BY <1>1, <1>8, <1>9, <1>11, Consume
<1>13. \A u \in Rest : u.do \in {"dealloc", "trim", "drop"}
  BY <1>2, AfterDealloc
<1> QED
  BY <1>1, <1>2, <1>3, <1>5, <1>6, <1>9, <1>12, <1>13

LEMMA DeallocBase ==
    ASSUME BaseInv, DeallocateBlock, UNCHANGED geom, KeepCache
    PROVE  BaseInv'
<1>1. PICK b \in Blocks :
             /\ Step \in Steps /\ Step.do = "dealloc" /\ Step.block = b /\ todo # <<>>
             /\ Work = {Step} \cup Rest /\ Rest \in SUBSET Steps
             /\ (\A u \in Rest : u.do \in {"dealloc", "trim", "drop"})
             /\ Plan(todo') /\ file' = file /\ mem' \in Maps
             /\ mem'.table = [mem.table EXCEPT ![b] = None]
             /\ mem'.used = mem.used /\ mem'.allocated = mem.allocated
             /\ Range(todo') = (IF mem.table[b] = None THEN {} ELSE {ClearStep(b, mem.table[b])})
                               \cup Rest
  BY DeallocEffect
<1>2. PICK m \in Maps : /\ m = mem' /\ m.table = [mem.table EXCEPT ![b] = None]
                        /\ m.used = mem.used /\ m.allocated = mem.allocated
  BY <1>1
<1>3. PICK U : /\ U = Range(todo')
               /\ U = (IF mem.table[b] = None THEN {} ELSE {ClearStep(b, mem.table[b])}) \cup Rest
  BY <1>1
<1>4. faults' = faults
  BY DEF KeepCache
<1>5. /\ geom \in Setups /\ mem \in Maps /\ mem.table \in [Blocks -> Slots \cup {None}]
      /\ MemInv(Work, mem, file.len, file.data, faults)
      /\ \A x \in Blocks : mem.table[x] # None => mem.table[x] \in Slots
  BY BaseFacts, ImageFacts
<1>6. m.table[b] = None /\ \A x \in Blocks : x # b => m.table[x] = mem.table[x]
  BY <1>2, <1>5
<1>7. \A t \in U : t.do = "clear" => t.block = b /\ t.slot = mem.table[b] /\ mem.table[b] # None
  BY <1>1, <1>3 DEF ClearStep
<1>8. MemInv(U, m, file.len, file.data, faults)
  <2>1. \A x, y \in Blocks : m.table[x] # None /\ m.table[x] = m.table[y] => x = y
    BY <1>5, <1>6 DEF MemInv
  <2>2. \A x \in Blocks : m.table[x] # None => m.table[x] \in m.used
    BY <1>2, <1>5, <1>6 DEF MemInv
  <2>3. m.used \subseteq 0 .. (m.allocated - 1) /\ m.allocated <= Cardinality(Blocks) + Lost(faults)
    BY <1>2, <1>5 DEF MemInv
  <2>4. \E L \in SUBSET m.used :
          Cardinality(L) <= Lost(faults) /\ m.used \subseteq Mapped(m.table) \cup Clearing(U) \cup L
    <3>1. PICK L \in SUBSET mem.used :
          Cardinality(L) <= Lost(faults) /\ mem.used \subseteq Mapped(mem.table) \cup Clearing(Work) \cup L
      BY <1>5 DEF MemInv
    <3>2. Clearing(Work) = {}
      BY <1>1 DEF Clearing
    <3>3. \A x \in Blocks : mem.table[x] # None => mem.table[x] \in Mapped(m.table) \cup Clearing(U)
      <4> SUFFICES ASSUME NEW x \in Blocks, mem.table[x] # None
                   PROVE  mem.table[x] \in Mapped(m.table) \cup Clearing(U)
        OBVIOUS
      <4>1. CASE x = b
        <5>1. ClearStep(b, mem.table[b]) \in U
          BY <1>3, <4>1
        <5> QED
          BY <4>1, <5>1 DEF Clearing, ClearStep
      <4>2. CASE x # b
        BY <1>6, <4>2 DEF Mapped
      <4> QED
        BY <4>1, <4>2
    <3>4. Mapped(mem.table) \subseteq Mapped(m.table) \cup Clearing(U)
      BY <3>3 DEF Mapped
    <3> QED
      BY <1>2, <3>1, <3>2, <3>4
  <2>5. \A t \in U : t.do \notin {"grow", "put", "cow"}
    BY <1>1, <1>3 DEF ClearStep
  <2>6. \A t \in U : t.do = "clear" =>
          m.table[t.block] = None /\ t.slot \in m.used /\ \A x \in Blocks : m.table[x] # t.slot
    BY <1>2, <1>5, <1>6, <1>7 DEF MemInv
  <2>7. \A p \in Places : p >= file.len => file.data[p] = Zero
    BY <1>5 DEF MemInv
  <2> QED
    BY <2>1, <2>2, <2>3, <2>4, <2>5, <2>6, <2>7 DEF MemInv
<1>9. MemInv(Range(todo'), mem', file'.len, file'.data, faults')
  BY <1>1, <1>2, <1>3, <1>4, <1>8
<1>10. \A t \in Range(todo') :
              t.do \in {"insert", "sync", "clean", "evict", "evicted"} => t \in Work
  BY <1>1, <1>3 DEF ClearStep
<1>11. \A t \in Work : t.do = "evict" => t \in Range(todo')
  BY <1>1
<1>12. file' \in Images
  BY <1>1, BaseFacts
<1> QED
  BY <1>1, <1>9, <1>10, <1>11, <1>12, BaseDisk

LEMMA ClearEffect ==
    ASSUME BaseInv, ClearEntry
    PROVE  \E b \in Blocks, k \in Slots :
             /\ Step \in Steps /\ Step.do = "clear" /\ Step.block = b /\ Step.slot = k /\ todo # <<>>
             /\ Work = {Step} \cup Rest /\ Rest \in SUBSET Steps
             /\ (\A u \in Rest : u.do \in {"dealloc", "trim", "drop"})
             /\ Plan(todo') /\ Range(todo') = Rest
             /\ mem' \in Maps /\ mem'.table = mem.table
             /\ mem'.used = mem.used \ {k} /\ mem'.allocated = mem.allocated
             /\ file' \in Images /\ file'.table = [file.table EXCEPT ![b] = None]
             /\ file'.data = file.data /\ file'.len = file.len /\ file'.allocated = file.allocated
<1>1. /\ Plan(todo') /\ todo # <<>> /\ Step \in Steps /\ Step.do = "clear"
      /\ Work = {Step} \cup Rest /\ Range(todo') = Rest
      /\ Rest \in SUBSET Steps /\ \A u \in Rest : Before("clear", u.do)
  BY Spend DEF ClearEntry
<1>2. PICK b \in Blocks, k \in Slots : b = Step.block /\ k = Step.slot
  BY <1>1, StepKinds
<1>3. PICK m : m = [mem EXCEPT !.used = @ \ {k}]
  OBVIOUS
<1>4. PICK f : f = [file EXCEPT !.table[b] = None]
  OBVIOUS
<1>5. m \in Maps /\ m.table = mem.table /\ m.used = mem.used \ {k} /\ m.allocated = mem.allocated
  BY <1>3, BaseFacts DEF Maps
<1>6. /\ f \in Images /\ f.table = [file.table EXCEPT ![b] = None]
      /\ f.data = file.data /\ f.len = file.len /\ f.allocated = file.allocated
  BY <1>4, BaseFacts DEF Images
<1>7. mem' = m /\ file' = f
  BY <1>2, <1>3, <1>4 DEF ClearEntry
<1>8. \A u \in Rest : u.do \in {"dealloc", "trim", "drop"}
  BY <1>1, AfterDealloc
<1> QED
  BY <1>1, <1>2, <1>5, <1>6, <1>7, <1>8

LEMMA ClearBase ==
    ASSUME BaseInv, ClearEntry, UNCHANGED geom, KeepCache
    PROVE  BaseInv'
<1>1. PICK b \in Blocks, k \in Slots :
             /\ Step \in Steps /\ Step.do = "clear" /\ Step.block = b /\ Step.slot = k /\ todo # <<>>
             /\ Work = {Step} \cup Rest /\ Rest \in SUBSET Steps
             /\ (\A u \in Rest : u.do \in {"dealloc", "trim", "drop"})
             /\ Plan(todo') /\ Range(todo') = Rest
             /\ mem' \in Maps /\ mem'.table = mem.table
             /\ mem'.used = mem.used \ {k} /\ mem'.allocated = mem.allocated
             /\ file' \in Images /\ file'.table = [file.table EXCEPT ![b] = None]
             /\ file'.data = file.data /\ file'.len = file.len /\ file'.allocated = file.allocated
  BY ClearEffect
<1>2. PICK m \in Maps : /\ m = mem' /\ m.table = mem.table
                        /\ m.used = mem.used \ {k} /\ m.allocated = mem.allocated
  BY <1>1
<1>3. faults' = faults
  BY DEF KeepCache
<1>4. /\ geom \in Setups /\ mem \in Maps /\ MemInv(Work, mem, file.len, file.data, faults)
      /\ mem.allocated \in Nat /\ mem.used \in SUBSET Slots
  BY BaseFacts, ImageFacts
<1>5. \A x \in Blocks : m.table[x] # k
  BY <1>1, <1>2, <1>4 DEF MemInv
<1>6. Clearing(Work) = {k} /\ Clearing(Rest) = {}
  BY <1>1 DEF Clearing
<1>7. \E L \in SUBSET m.used :
          Cardinality(L) <= Lost(faults) /\ m.used \subseteq Mapped(m.table) \cup Clearing(Rest) \cup L
  <2>1. PICK L \in SUBSET mem.used :
          Cardinality(L) <= Lost(faults) /\ mem.used \subseteq Mapped(mem.table) \cup Clearing(Work) \cup L
    BY <1>4 DEF MemInv
  <2>2. IsFiniteSet(L)
    <3>1. mem.used \subseteq 0 .. mem.allocated
      BY <1>4 DEF MemInv
    <3> QED
      BY <1>4, <3>1, FiniteNumbers, FS_Subset
  <2>3. IsFiniteSet(L \ {k}) /\ Cardinality(L \ {k}) <= Cardinality(L)
        /\ Cardinality(L) \in Nat /\ Cardinality(L \ {k}) \in Nat
    BY <2>2, FS_Subset, FS_CardinalityType
  <2>4. Lost(faults) \in Nat
    BY SlotBound
  <2>5. L \ {k} \in SUBSET m.used /\ m.used \subseteq Mapped(m.table) \cup Clearing(Rest) \cup (L \ {k})
    BY <1>2, <1>6, <2>1
  <2> QED
    BY <2>1, <2>3, <2>4, <2>5
<1>8. MemInv(Rest, m, file.len, file.data, faults)
  <2>1. \A t \in Rest : t.do \notin {"grow", "put", "cow", "clear"}
    BY <1>1
  <2>2. \A x \in Blocks : m.table[x] # None => m.table[x] \in m.used
    BY <1>2, <1>4, <1>5 DEF MemInv
  <2>3. m.used \subseteq 0 .. (m.allocated - 1) /\ m.allocated <= Cardinality(Blocks) + Lost(faults)
    BY <1>2, <1>4 DEF MemInv
  <2>4. /\ \A x, y \in Blocks : m.table[x] # None /\ m.table[x] = m.table[y] => x = y
        /\ \A p \in Places : p >= file.len => file.data[p] = Zero
    BY <1>2, <1>4 DEF MemInv
  <2> QED
    BY <1>7, <2>1, <2>2, <2>3, <2>4 DEF MemInv
<1>9. MemInv(Range(todo'), mem', file'.len, file'.data, faults')
  BY <1>1, <1>2, <1>3, <1>8
<1>10. \A t \in Range(todo') :
              t.do \in {"insert", "sync", "clean", "evict", "evicted"} => t \in Work
  BY <1>1
<1>11. \A t \in Work : t.do = "evict" => t \in Range(todo')
  BY <1>1
<1> QED
  BY <1>1, <1>9, <1>10, <1>11, BaseDisk

LEMMA TrimEffect ==
    ASSUME BaseInv, Trim
    PROVE  \E n \in 0 .. MaxSlots :
             /\ Step \in Steps /\ Step.do = "trim" /\ todo # <<>>
             /\ Work = {Step} \cup Rest /\ Rest \in SUBSET Steps
             /\ (\A u \in Rest : u.do = "drop")
             /\ Plan(todo') /\ file' = file /\ mem' \in Maps
             /\ mem'.table = mem.table /\ mem'.used = mem.used /\ mem'.allocated = n
             /\ n <= mem.allocated /\ mem.used \subseteq 0 .. (n - 1)
             /\ Range(todo') = (IF n = mem.allocated THEN {}
                                ELSE {[do |-> "header"], [do |-> "truncate"]}) \cup Rest
<1>1. /\ geom \in Setups /\ Plan(todo) /\ todo # <<>> /\ Doing("trim") /\ file' = file
      /\ mem \in Maps /\ mem.allocated \in Nat /\ mem.allocated <= MaxSlots /\ MaxSlots \in Nat
      /\ mem.used \subseteq 0 .. (mem.allocated - 1)
  BY BaseFacts, ImageFacts, GeomType DEF Trim, Doing, MemInv
<1>2. /\ Step \in Steps /\ Step.do = "trim" /\ Work = {Step} \cup Rest
      /\ Rest \in SUBSET Steps /\ \A u \in Rest : Before("trim", u.do)
  BY <1>1, PlanHead DEF Step, Work, Rest, Doing
<1>3. PICK n : n = IF mem.used = {} THEN 0 ELSE Max(mem.used) + 1
  OBVIOUS
<1>4. n \in 0 .. MaxSlots /\ n <= mem.allocated /\ mem.used \subseteq 0 .. (n - 1)
  <2>1. CASE mem.used = {}
    BY <1>1, <1>3, <2>1
  <2>2. CASE mem.used # {}
    <3>1. mem.used \in SUBSET (0 .. mem.allocated)
      BY <1>1
    <3>2. Max(mem.used) \in mem.used /\ \A x \in mem.used : x <= Max(mem.used)
      BY <1>1, <2>2, <3>1, MaxFacts
    <3>3. PICK x \in mem.used : x = Max(mem.used)
      BY <3>2
    <3>4. n = x + 1 /\ x \in 0 .. mem.allocated - 1 /\ \A y \in mem.used : y <= x /\ y \in 0 .. mem.allocated - 1
      BY <1>1, <1>3, <2>2, <3>2, <3>3
    <3> QED
      BY <1>1, <3>4
  <2> QED
    BY <2>1, <2>2
<1>5. PICK m : m = [mem EXCEPT !.allocated = n]
  OBVIOUS
<1>6. m \in Maps /\ m.table = mem.table /\ m.used = mem.used /\ m.allocated = n
  BY <1>1, <1>4, <1>5 DEF Maps
<1>7. mem' = m
  BY <1>3, <1>5 DEF Trim
<1>8. PICK q : q = IF n = mem.allocated THEN <<>> ELSE <<[do |-> "header"], [do |-> "truncate"]>>
  OBVIOUS
<1>9. Continue(q)
  BY <1>3, <1>8 DEF Trim
<1>10. Plan(q) /\ Range(q) = IF n = mem.allocated THEN {} ELSE {[do |-> "header"], [do |-> "truncate"]}
  <2>1. PICK h \in Steps, t \in Steps : h = [do |-> "header"] /\ t = [do |-> "truncate"]
    BY StepSimple
  <2>2. Before(h.do, t.do)
    BY <2>1 DEF Before
  <2>3. Plan(<<h, t>>) /\ Range(<<h, t>>) = {h, t}
    BY <2>2, PlanTwo
  <2>4. q = IF n = mem.allocated THEN <<>> ELSE <<h, t>>
    BY <1>8, <2>1
  <2>5. CASE n = mem.allocated
    BY <2>4, <2>5, PlanNone
  <2>6. CASE n # mem.allocated
    BY <2>1, <2>3, <2>4, <2>6
  <2> QED
    BY <2>5, <2>6
<1>11. \A t \in Range(q) : t.do \in {"header", "truncate"}
  BY <1>10
<1>12. \A t \in Range(q) : \A y : Before("trim", y) => Before(t.do, y)
  BY <1>11 DEF Before, Storing
<1>13. Plan(todo') /\ Range(todo') = Range(q) \cup Rest
  BY <1>1, <1>9, <1>10, <1>12, Consume
<1>14. \A u \in Rest : u.do = "drop"
  BY <1>2, AfterTrim
<1> QED
  BY <1>1, <1>2, <1>4, <1>6, <1>7, <1>10, <1>13, <1>14

LEMMA TrimBase ==
    ASSUME BaseInv, Trim, UNCHANGED geom, KeepCache
    PROVE  BaseInv'
<1>1. PICK n \in 0 .. MaxSlots :
             /\ Step \in Steps /\ Step.do = "trim" /\ todo # <<>>
             /\ Work = {Step} \cup Rest /\ Rest \in SUBSET Steps
             /\ (\A u \in Rest : u.do = "drop")
             /\ Plan(todo') /\ file' = file /\ mem' \in Maps
             /\ mem'.table = mem.table /\ mem'.used = mem.used /\ mem'.allocated = n
             /\ n <= mem.allocated /\ mem.used \subseteq 0 .. (n - 1)
             /\ Range(todo') = (IF n = mem.allocated THEN {}
                                ELSE {[do |-> "header"], [do |-> "truncate"]}) \cup Rest
  BY TrimEffect
<1>2. PICK m \in Maps : m = mem' /\ m.table = mem.table /\ m.used = mem.used /\ m.allocated = n
  BY <1>1
<1>3. PICK U : /\ U = Range(todo')
               /\ \A t \in U : t.do \in {"drop", "header", "truncate"}
  <2>1. \A t \in Range(todo') : t.do \in {"drop", "header", "truncate"}
    BY <1>1
  <2> QED
    BY <2>1
<1>4. faults' = faults
  BY DEF KeepCache
<1>5. /\ geom \in Setups /\ mem \in Maps /\ MemInv(Work, mem, file.len, file.data, faults)
      /\ mem.allocated \in Nat /\ MaxSlots \in Nat
      /\ Cardinality(Blocks) \in Nat /\ Lost(faults) \in Nat
  BY BaseFacts, ImageFacts, GeomType, SlotBound
<1>6. Clearing(Work) = {} /\ Clearing(U) = {}
  BY <1>1, <1>3 DEF Clearing
<1>7. m.allocated <= Cardinality(Blocks) + Lost(faults)
  BY <1>1, <1>2, <1>5 DEF MemInv
<1>8. \E L \in SUBSET m.used :
          Cardinality(L) <= Lost(faults) /\ m.used \subseteq Mapped(m.table) \cup Clearing(U) \cup L
  BY <1>2, <1>5, <1>6 DEF MemInv
<1>9. MemInv(U, m, file.len, file.data, faults)
  <2>1. \A t \in U : t.do \notin {"grow", "put", "cow", "clear"}
    BY <1>3
  <2>2. m.used \subseteq 0 .. (m.allocated - 1)
    BY <1>1, <1>2
  <2>3. /\ \A x, y \in Blocks : m.table[x] # None /\ m.table[x] = m.table[y] => x = y
        /\ \A x \in Blocks : m.table[x] # None => m.table[x] \in m.used
        /\ \A p \in Places : p >= file.len => file.data[p] = Zero
    BY <1>2, <1>5 DEF MemInv
  <2> QED
    BY <1>7, <1>8, <2>1, <2>2, <2>3 DEF MemInv
<1>10. MemInv(Range(todo'), mem', file'.len, file'.data, faults')
  BY <1>1, <1>2, <1>3, <1>4, <1>9
<1>11. \A t \in Range(todo') :
              t.do \in {"insert", "sync", "clean", "evict", "evicted"} => t \in Work
  BY <1>3
<1>12. \A t \in Work : t.do = "evict" => t \in Range(todo')
  BY <1>1
<1>13. file' \in Images
  BY <1>1, BaseFacts
<1> QED
  BY <1>1, <1>10, <1>11, <1>12, <1>13, BaseDisk

\* Every step of the disk.
LEMMA DiskBase ==
    ASSUME BaseInv, DiskStep, UNCHANGED geom, KeepCache
    PROVE  BaseInv'
  BY HeaderBase, EntryBase, GrowBase, PutBase, CowBase, DeallocBase, ClearBase, TrimBase,
     TruncateBase DEF DiskStep

-----------------------------------------------------------------------------
(* The steps of the cache: what they find and what they leave to do *)

EvictStep == [do |-> "evict"]
EvictedStep == [do |-> "evicted"]
InsertStep(e) == [do |-> "insert", entry |-> e]
CleanStep(k) == [do |-> "clean", line |-> k]
CowSteps(e) == {CowStep(e.data, b) : b \in BlocksIn(e.data)}

\* The line as the disk has it.
LoadEntry(k) == [line |-> k, data |-> [s \in InLine(k) |-> Stored(mem.table, s)], dirty |-> FALSE]

\* What may follow a step of the cache.
LEMMA AfterCache ==
    ASSUME NEW y
    PROVE  /\ ~Before("load", y) /\ ~Before("flushed", y) /\ ~Before("drop", y) /\ ~Before("written", y)
           /\ Before("chunk", y) \/ Before("insert", y) => y \in {"chunk", "written"}
           /\ Before("evict", y) => y \in {"insert", "chunk", "written"}
           /\ Before("evicted", y) => y \in {"evict", "insert", "chunk", "written"}
           /\ Before("sync", y) \/ Before("clean", y) => y \in {"sync", "flushed", "dealloc", "trim", "drop"}
  BY DEF Before, Storing

LEMMA StoredFacts ==
    ASSUME BaseInv, NEW s \in Sectors
    PROVE  Stored(mem.table, s) \in Values /\ Stored(mem.table, s) = At(mem.table, file.data, s)
<1>1. geom \in Setups /\ mem \in Maps /\ file \in Images
  BY BaseFacts
<1>2. BlockOf(s) \in Blocks /\ file.data \in [Places -> Values] /\ Base(s) \in Values
  BY <1>1, SectorFacts, ImageFacts, ValueFacts
<1>3. mem.table[BlockOf(s)] # None => Place(mem.table[BlockOf(s)], s) \in Places
  BY <1>1, <1>2, ImageFacts, PlaceFacts
<1> QED
  BY <1>2, <1>3 DEF Stored, At

LEMMA LoadEntryFacts ==
    ASSUME BaseInv, NEW k \in Lines
    PROVE  /\ LoadEntry(k) \in Lined /\ LoadEntry(k).line = k /\ LoadEntry(k).dirty = FALSE
           /\ \A s \in InLine(k) : LoadEntry(k).data[s] = At(mem.table, file.data, s)
<1>1. \A s \in InLine(k) : s \in Sectors
  BY DEF InLine
<1>2. PICK f \in [InLine(k) -> Values] : /\ f = [s \in InLine(k) |-> Stored(mem.table, s)]
                                         /\ \A s \in InLine(k) : f[s] = At(mem.table, file.data, s)
  <2>1. \A s \in InLine(k) : /\ Stored(mem.table, s) \in Values
                             /\ Stored(mem.table, s) = At(mem.table, file.data, s)
    BY <1>1, StoredFacts
  <2>2. PICK f : f = [s \in InLine(k) |-> Stored(mem.table, s)]
    OBVIOUS
  <2>3. f \in [InLine(k) -> Values]
    BY <2>1, <2>2
  <2>4. \A s \in InLine(k) : f[s] = At(mem.table, file.data, s)
    BY <2>1, <2>2
  <2> QED
    BY <2>2, <2>3, <2>4
<1>3. LoadEntry(k) = [line |-> k, data |-> f, dirty |-> FALSE]
  BY <1>2 DEF LoadEntry
<1>4. [line |-> k, data |-> f, dirty |-> FALSE] \in Lined
  BY LinedType
<1> QED
  BY <1>2, <1>3, <1>4

LEMMA MissFacts ==
    ASSUME NEW k \in Lines, NEW f \in [InLine(k) -> Values], NEW d \in BOOLEAN
    PROVE  /\ Plan(MissSteps(k, f, d))
           /\ Range(MissSteps(k, f, d)) = {EvictStep, InsertStep([line |-> k, data |-> f, dirty |-> d])}
<1>1. PICK e \in Lined : e = [line |-> k, data |-> f, dirty |-> d]
  BY LinedType
<1>2. PICK t \in Steps, u \in Steps : t = EvictStep /\ u = InsertStep(e)
  BY StepSimple, StepInsert DEF EvictStep, InsertStep
<1>3. Before(t.do, u.do)
  BY <1>2 DEF Before, EvictStep, InsertStep
<1>4. Plan(<<t, u>>) /\ Range(<<t, u>>) = {t, u}
  BY <1>3, PlanTwo
<1>5. MissSteps(k, f, d) = <<t, u>>
  BY <1>1, <1>2 DEF MissSteps, EvictStep, InsertStep
<1> QED
  BY <1>1, <1>2, <1>4, <1>5

LEMMA LoadFacts ==
    ASSUME BaseInv, NEW k \in Lines
    PROVE  Plan(LoadSteps(k)) /\ Range(LoadSteps(k)) = {EvictStep, InsertStep(LoadEntry(k))}
<1>1. PICK f \in [InLine(k) -> Values] : f = [s \in InLine(k) |-> Stored(mem.table, s)]
  BY StoredFacts DEF InLine
<1>2. LoadSteps(k) = MissSteps(k, f, FALSE) /\ LoadEntry(k) = [line |-> k, data |-> f, dirty |-> FALSE]
  BY <1>1 DEF LoadSteps, LoadEntry
<1> QED
  BY <1>2, MissFacts

\* The step at hand and the rest.
LEMMA AtStep ==
    ASSUME BaseInv, NEW kind, Doing(kind)
    PROVE  /\ geom \in Setups /\ Plan(todo) /\ todo # <<>> /\ CacheOK(cache) /\ status = "open"
           /\ Step \in Steps /\ Step.do = kind /\ Work = {Step} \cup Rest
           /\ Rest \in SUBSET Steps /\ \A u \in Rest : Before(kind, u.do)
<1>1. geom \in Setups /\ Plan(todo) /\ todo # <<>> /\ CacheOK(cache) /\ status = "open" /\ Step.do = kind
  BY BaseFacts DEF Doing, Step
<1>2. /\ Step \in Steps /\ Work = {Step} \cup Rest
      /\ Rest \in SUBSET Steps /\ \A u \in Rest : Before(kind, u.do)
  BY <1>1, PlanHead DEF Step, Work, Rest
<1> QED
  BY <1>1, <1>2

LEMMA LoadEffect ==
    ASSUME BaseInv, LoadLine
    PROVE  \E k \in Lines :
             /\ Step \in Steps /\ Step.do = "load" /\ Work = {Step} /\ Plan(todo')
             /\ \/ \E e \in Held : e.line = k /\ cache' = Promoted(e) /\ Range(todo') = {}
                \/ /\ \A e \in Held : e.line # k
                   /\ cache' = cache /\ Range(todo') = {EvictStep, InsertStep(LoadEntry(k))}
<1>1. /\ Plan(todo) /\ todo # <<>> /\ CacheOK(cache) /\ Doing("load")
      /\ Step \in Steps /\ Step.do = "load" /\ Work = {Step} \cup Rest
      /\ \A u \in Rest : Before("load", u.do)
  BY AtStep DEF LoadLine
<1>2. Rest = {}
  BY <1>1, AfterCache
<1>3. PICK k \in Lines : k = Step.line
  BY <1>1 DEF Steps
<1>4. CASE Cached(k)
  <2>1. Entry(k) \in Held /\ Entry(k).line = k
    BY <1>1, <1>4, CachedFacts
  <2>2. cache' = Promoted(Entry(k)) /\ Continue(<<>>)
    BY <1>3, <1>4 DEF LoadLine
  <2>3. Plan(todo') /\ Range(todo') = Rest
    BY <1>1, <2>2, Spend
  <2> QED
    BY <1>1, <1>2, <2>1, <2>2, <2>3
<1>5. CASE ~Cached(k)
  <2>1. \A e \in Held : e.line # k
    BY <1>1, <1>5, CachedFacts
  <2>2. PICK q : q = LoadSteps(k) /\ Plan(q) /\ Range(q) = {EvictStep, InsertStep(LoadEntry(k))}
    BY LoadFacts
  <2>3. cache' = cache /\ Continue(q)
    BY <1>3, <1>5, <2>2 DEF LoadLine
  <2>4. \A t \in Range(q) : \A y : Before("load", y) => Before(t.do, y)
    BY AfterCache
  <2>5. Plan(todo') /\ Range(todo') = Range(q) \cup Rest
    BY <1>1, <2>2, <2>3, <2>4, Consume
  <2> QED
    BY <1>1, <1>2, <2>1, <2>2, <2>3, <2>5
<1> QED
  BY <1>4, <1>5

\* A cached line with part of it written over.
Overwritten(e, f) == [line |-> e.line, data |-> Over(f, e.data), dirty |-> TRUE]

LEMMA OverwriteFacts ==
    ASSUME geom \in Setups, NEW e \in Lined, NEW f \in Chunks, DOMAIN f \subseteq InLine(e.line)
    PROVE  /\ Overwritten(e, f) \in Lined /\ Overwritten(e, f).line = e.line
           /\ Overwritten(e, f).dirty = TRUE
           /\ \A s \in InLine(e.line) :
                 Overwritten(e, f).data[s] = IF s \in DOMAIN f THEN f[s] ELSE e.data[s]
<1>1. /\ e.line \in Lines /\ e.data \in [InLine(e.line) -> Values] /\ DOMAIN e.data = InLine(e.line)
      /\ \A s \in DOMAIN f : f[s] \in Values
  BY LinedFacts, ChunkFacts
<1>2. PICK d : d = Over(f, e.data)
  OBVIOUS
<1>3. d = [s \in DOMAIN f \cup DOMAIN e.data |-> IF s \in DOMAIN f THEN f[s] ELSE e.data[s]]
  BY <1>2 DEF Over
<1>4. DOMAIN f \cup DOMAIN e.data = InLine(e.line)
  BY <1>1
<1>5. d \in [InLine(e.line) -> Values]
      /\ \A s \in InLine(e.line) : d[s] = IF s \in DOMAIN f THEN f[s] ELSE e.data[s]
  BY <1>1, <1>3, <1>4
<1>6. [line |-> e.line, data |-> d, dirty |-> TRUE] \in Lined
  BY <1>1, <1>5, LinedType
<1>7. Overwritten(e, f) = [line |-> e.line, data |-> d, dirty |-> TRUE]
  BY <1>2 DEF Overwritten
<1>8. /\ Overwritten(e, f).line = e.line /\ Overwritten(e, f).dirty = TRUE
      /\ Overwritten(e, f).data = d
  BY <1>7
<1> QED
  BY <1>5, <1>6, <1>7, <1>8

LEMMA OverwriteExcept ==
    ASSUME NEW e \in Lined, NEW f
    PROVE  Overwritten(e, f) = [e EXCEPT !.data = Over(f, @), !.dirty = TRUE]
<1>1. PICK k : e \in [line : {k}, data : [InLine(k) -> Values], dirty : BOOLEAN]
  BY DEF Lined
<1>2. PICK d : d = Over(f, e.data)
  OBVIOUS
<1>3. Overwritten(e, f) = [line |-> e.line, data |-> d, dirty |-> TRUE]
  BY <1>2 DEF Overwritten
<1>4. PICK r \in BOOLEAN : r = TRUE
  OBVIOUS
<1>5. [e EXCEPT !.data = d, !.dirty = r] = [line |-> e.line, data |-> d, dirty |-> r]
  <2>1. PICK K, D, B : K = {k} /\ D = [InLine(k) -> Values] \cup {d} /\ B = BOOLEAN
    OBVIOUS
  <2>2. e \in [line : K, data : D, dirty : B] /\ d \in D /\ r \in B
    BY <1>1, <2>1
  <2>3. PICK x : x = [e EXCEPT !.data = d, !.dirty = r]
    OBVIOUS
  <2>4. x.line = e.line /\ x.data = d /\ x.dirty = r /\ x \in [line : K, data : D, dirty : B]
    BY ONLY <2>2, <2>3
  <2>5. x = [line |-> x.line, data |-> x.data, dirty |-> x.dirty]
    BY ONLY <2>4
  <2> QED
    BY Zenon, <2>3, <2>4, <2>5
<1>6. [e EXCEPT !.data = Over(f, @), !.dirty = TRUE] = [e EXCEPT !.data = d, !.dirty = r]
  BY Zenon, <1>2, <1>4
<1> QED
  BY Zenon, <1>3, <1>4, <1>5, <1>6

\* A chunk of as many sectors as a line holds is the whole line.
LEMMA WholeLine ==
    ASSUME geom \in Setups, NEW k \in Lines, NEW S \in SUBSET InLine(k), Cardinality(S) = geom.line
    PROVE  S = InLine(k)
<1> DEFINE n == geom.line
           f == [s \in InLine(k) |-> s % n]
<1>1. n \in Nat \ {0} /\ k \in Nat
  BY GeomType, SectorFacts
<1>2. \A s \in InLine(k) : /\ s \in Nat /\ LineOf(s) = k
                           /\ s % n \in 0 .. n - 1 /\ s % n = s - n * (s \div n)
  BY <1>1, SectorFacts, DivMod
<1>3. \A s \in InLine(k) : s \div n = k
  BY <1>2 DEF LineOf
<1>4. f \in Injection(InLine(k), 0 .. n - 1)
  <2>1. f \in [InLine(k) -> 0 .. n - 1]
    BY <1>2
  <2>2. ASSUME NEW s \in InLine(k), NEW r \in InLine(k), s % n = r % n PROVE s = r
    <3>1. s % n = s - n * k /\ r % n = r - n * k
      BY <1>2, <1>3
    <3>2. PICK c \in Nat : c = n * k
      BY <1>1
    <3>3. s - c = r - c
      BY <2>2, <3>1, <3>2
    <3> QED
      BY <1>2, <3>3
  <2> QED
    BY <2>1, <2>2 DEF Injection, IsInjective
<1> HIDE DEF f, n
<1>5. IsFiniteSet(0 .. n - 1) /\ Cardinality(0 .. n - 1) = n
  <2>1. n - 1 \in Int /\ ~(0 > n - 1) /\ n - 1 - 0 + 1 = n
    BY <1>1
  <2> QED
    BY <2>1, FS_Interval
<1>6. IsFiniteSet(InLine(k)) /\ Cardinality(InLine(k)) <= n
  BY <1>4, <1>5, FS_Injection
<1>7. Cardinality(S) <= Cardinality(InLine(k)) /\ (Cardinality(S) = Cardinality(InLine(k)) => S = InLine(k))
  BY <1>6, FS_Subset
<1>8. Cardinality(InLine(k)) \in Nat
  BY <1>6, FS_CardinalityType
<1> QED
  BY <1>1, <1>6, <1>7, <1>8 DEF n

LEMMA ChunkEffect ==
    ASSUME BaseInv, WriteChunk
    PROVE  \E k \in Lines, f \in Chunks :
             /\ Step \in Steps /\ Step.do = "chunk" /\ Step.line = k /\ Step.data = f
             /\ DOMAIN f \subseteq InLine(k)
             /\ Work = {Step} \cup Rest /\ Plan(todo')
             /\ (\A u \in Rest : u.do \in {"chunk", "written"})
             /\ \/ \E e \in Held, x \in Lined :
                      /\ e.line = k /\ x.line = k /\ x.dirty = TRUE
                      /\ \A s \in InLine(k) : x.data[s] = IF s \in DOMAIN f THEN f[s] ELSE e.data[s]
                      /\ cache' = Promoted(x) /\ Range(todo') = Rest
                \/ \E x \in Lined :
                      /\ \A e \in Held : e.line # k
                      /\ x.line = k /\ x.dirty = TRUE /\ x.data = f /\ DOMAIN f = InLine(k)
                      /\ cache' = cache /\ Range(todo') = {EvictStep, InsertStep(x)} \cup Rest
                \/ /\ \A e \in Held : e.line # k
                   /\ cache' = cache
                   /\ Range(todo') = {EvictStep, InsertStep(LoadEntry(k)), Step} \cup Rest
<1>1. /\ geom \in Setups /\ Plan(todo) /\ todo # <<>> /\ CacheOK(cache) /\ Doing("chunk")
      /\ Step \in Steps /\ Step.do = "chunk" /\ Work = {Step} \cup Rest
      /\ \A u \in Rest : Before("chunk", u.do)
  BY AtStep DEF WriteChunk
<1>2. \A u \in Rest : u.do \in {"chunk", "written"}
  BY <1>1, AfterCache
<1>3. PICK k \in Lines, f \in Chunks : k = Step.line /\ f = Step.data /\ DOMAIN f \subseteq InLine(k)
  BY <1>1 DEF Steps
<1>4. CASE Cached(k)
  <2>1. Entry(k) \in Held /\ Entry(k).line = k /\ Entry(k) \in Lined
    BY <1>1, <1>4, CachedFacts, HeldFacts DEF Held
  <2>2. PICK e \in Held : e = Entry(k) /\ e.line = k /\ e \in Lined
    BY <2>1
  <2>3. PICK x : x = Overwritten(e, f)
    OBVIOUS
  <2>4. cache' = Promoted(x) /\ Continue(<<>>)
    <3>1. x = [e EXCEPT !.data = Over(f, @), !.dirty = TRUE]
      BY Zenon, <2>2, <2>3, OverwriteExcept
    <3> QED
      BY Zenon, <1>3, <1>4, <2>2, <3>1 DEF WriteChunk
  <2>5. Plan(todo') /\ Range(todo') = Rest
    BY <1>1, <2>4, Spend
  <2>6. /\ x \in Lined /\ x.line = e.line /\ x.dirty = TRUE
        /\ \A s \in InLine(e.line) : x.data[s] = IF s \in DOMAIN f THEN f[s] ELSE e.data[s]
    <3>1. DOMAIN f \subseteq InLine(e.line) /\ e \in Lined
      BY <1>3, <2>2
    <3> QED
      BY Zenon, <1>1, <2>3, <3>1, OverwriteFacts
  <2> QED
    BY <1>1, <1>2, <1>3, <2>2, <2>4, <2>5, <2>6
<1>5. CASE ~Cached(k) /\ Cardinality(DOMAIN f) = geom.line
  <2>1. \A e \in Held : e.line # k
    BY <1>1, <1>5, CachedFacts
  <2>2. DOMAIN f = InLine(k) /\ f \in [InLine(k) -> Values]
    BY <1>1, <1>3, <1>5, WholeLine, ChunkFacts
  <2>3. PICK x \in Lined : x = [line |-> k, data |-> f, dirty |-> TRUE]
    BY <2>2, LinedType
  <2>4. PICK q : q = MissSteps(k, f, TRUE) /\ Plan(q) /\ Range(q) = {EvictStep, InsertStep(x)}
    BY <2>2, <2>3, MissFacts
  <2>5. cache' = cache /\ Continue(q)
    BY <1>3, <1>5, <2>4 DEF WriteChunk
  <2>9. \A t \in Range(q) : t.do \in {"evict", "insert"}
    <3>1. EvictStep.do = "evict" /\ InsertStep(x).do = "insert"
      BY DEF EvictStep, InsertStep
    <3> QED
      BY <2>4, <3>1
  <2>6. \A t \in Range(q) : \A y : Before("chunk", y) => Before(t.do, y)
    BY <2>9 DEF Before, Storing
  <2>7. Plan(todo') /\ Range(todo') = Range(q) \cup Rest
    BY <1>1, <2>4, <2>5, <2>6, Consume
  <2>8. x.line = k /\ x.dirty = TRUE /\ x.data = f
    BY <2>3
  <2> QED
    BY <1>1, <1>2, <1>3, <2>1, <2>2, <2>4, <2>5, <2>7, <2>8
<1>6. CASE ~Cached(k) /\ Cardinality(DOMAIN f) # geom.line
  <2>1. \A e \in Held : e.line # k
    BY <1>1, <1>6, CachedFacts
  <2>2. PICK p : p = LoadSteps(k) /\ Plan(p) /\ Range(p) = {EvictStep, InsertStep(LoadEntry(k))}
    BY LoadFacts
  <2>3. PICK o : o = <<Step>> /\ Plan(o) /\ Range(o) = {Step}
    BY <1>1, PlanOne
  <2>4. Precedes(p, o)
    BY <1>1, <2>2, <2>3 DEF Precedes, Before, EvictStep, InsertStep
  <2>5. PICK q : q = p \o o /\ Plan(q) /\ Range(q) = {EvictStep, InsertStep(LoadEntry(k)), Step}
    <3>1. Plan(p \o o) /\ Range(p \o o) = Range(p) \cup Range(o)
      BY <2>2, <2>3, <2>4, PlanConcat
    <3>2. Range(p) \cup Range(o) = {EvictStep, InsertStep(LoadEntry(k)), Step}
      BY <2>2, <2>3
    <3> QED
      BY <3>1, <3>2
  <2>6. cache' = cache /\ Continue(q)
    BY <1>3, <1>6, <2>2, <2>3, <2>5 DEF WriteChunk
  <2>7. \A t \in Range(q) : t.do \in {"evict", "insert", "chunk"}
    BY <1>1, <2>5 DEF EvictStep, InsertStep
  <2>8. \A t \in Range(q) : \A y : Before("chunk", y) => Before(t.do, y)
    BY <2>7 DEF Before, Storing
  <2>9. Plan(todo') /\ Range(todo') = Range(q) \cup Rest
    BY <1>1, <2>5, <2>6, <2>8, Consume
  <2> QED
    BY <1>1, <1>2, <1>3, <2>1, <2>5, <2>6, <2>9
<1> QED
  BY <1>4, <1>5, <1>6

LEMMA CowStepsFacts ==
    ASSUME geom \in Setups, NEW e \in Lined
    PROVE  /\ Plan(WriteBack(e)) /\ Range(WriteBack(e)) = CowSteps(e)
           /\ \A t \in CowSteps(e) : t.do = "cow"
  BY WriteBackFacts DEF CowSteps, CowStep

LEMMA EvictEffect ==
    ASSUME BaseInv, Evict
    PROVE  /\ Step \in Steps /\ Step = EvictStep /\ Work = {EvictStep} \cup Rest /\ Plan(todo')
           /\ (\A u \in Rest : u.do \in {"insert", "chunk", "written"})
           /\ \/ Len(cache) < geom.lines /\ cache' = cache /\ Range(todo') = Rest
              \/ /\ Len(cache) >= geom.lines /\ cache # <<>> /\ ~Last(cache).dirty
                 /\ cache' = Front(cache) /\ Range(todo') = Work
              \/ /\ Len(cache) >= geom.lines /\ cache # <<>> /\ Last(cache).dirty
                 /\ cache' = cache
                 /\ Range(todo') = CowSteps(Last(cache)) \cup {EvictedStep} \cup Work
<1>1. /\ geom \in Setups /\ Plan(todo) /\ todo # <<>> /\ CacheOK(cache) /\ Doing("evict")
      /\ Step \in Steps /\ Step.do = "evict" /\ Work = {Step} \cup Rest
      /\ \A u \in Rest : Before("evict", u.do)
  BY AtStep DEF Evict
<1>2. \A u \in Rest : u.do \in {"insert", "chunk", "written"}
  BY <1>1, AfterCache
<1>3. Step = EvictStep
  BY <1>1, StepKinds DEF EvictStep
<1>4. Len(cache) >= geom.lines => cache # <<>>
  <2>1. Len(cache) \in Nat /\ geom.lines \in Nat \ {0}
    BY <1>1, HeldFacts, GeomType
  <2> QED
    BY <2>1
<1>5. CASE Len(cache) < geom.lines /\ Continue(<<>>) /\ UNCHANGED cache
  BY <1>1, <1>2, <1>3, <1>5, Spend
<1>6. CASE Len(cache) >= geom.lines /\ ~Last(cache).dirty /\ Continue(<<Step>>) /\ cache' = Front(cache)
  <2>1. PICK q : q = <<Step>> /\ Plan(q) /\ Range(q) = {Step}
    BY <1>1, PlanOne
  <2>2. \A t \in Range(q) : \A y : Before("evict", y) => Before(t.do, y)
    BY <1>1, <2>1
  <2>3. Continue(q)
    BY <1>6, <2>1
  <2>4. Plan(todo') /\ Range(todo') = Range(q) \cup Rest
    BY <1>1, <2>1, <2>2, <2>3, Consume
  <2> QED
    BY <1>1, <1>2, <1>3, <1>4, <1>6, <2>1, <2>4
<1>7. CASE /\ Len(cache) >= geom.lines /\ Last(cache).dirty
           /\ Continue(WriteBack(Last(cache)) \o <<[do |-> "evicted"], Step>>) /\ UNCHANGED cache
  <2>1. PICK e \in Lined : e = Last(cache)
    BY <1>1, <1>4, <1>7, FrontFacts, HeldFacts DEF Held
  <2>2. PICK p : p = WriteBack(e) /\ Plan(p) /\ Range(p) = CowSteps(e) /\ \A t \in Range(p) : t.do = "cow"
    BY <1>1, CowStepsFacts
  <2>3. PICK d \in Steps : d = EvictedStep /\ d = [do |-> "evicted"] /\ d.do = "evicted"
    BY StepSimple DEF EvictedStep
  <2>4. PICK o : o = <<d, Step>> /\ Plan(o) /\ Range(o) = {d, Step}
    <3>1. Before(d.do, Step.do)
      BY <1>1, <2>3 DEF Before
    <3> QED
      BY <1>1, <3>1, PlanTwo
  <2>5. Precedes(p, o)
    BY <1>1, <2>2, <2>3, <2>4 DEF Precedes, Before, Storing
  <2>6. PICK q : q = p \o o /\ Plan(q) /\ Range(q) = Range(p) \cup Range(o)
    BY <2>2, <2>4, <2>5, PlanConcat
  <2>7. \A t \in Range(q) : t.do \in {"cow", "evicted", "evict"}
    BY <1>1, <2>2, <2>3, <2>4, <2>6
  <2>8. \A t \in Range(q) : \A y : Before("evict", y) => Before(t.do, y)
    BY <2>7 DEF Before, Storing
  <2>9. Continue(q)
    BY <1>7, <2>1, <2>2, <2>3, <2>4, <2>6
  <2>10. Plan(todo') /\ Range(todo') = Range(q) \cup Rest
    BY <1>1, <2>6, <2>8, <2>9, Consume
  <2>11. Range(todo') = CowSteps(Last(cache)) \cup {EvictedStep} \cup Work
    BY <1>1, <2>1, <2>2, <2>3, <2>4, <2>6, <2>10
  <2> QED
    BY <1>1, <1>2, <1>3, <1>4, <1>7, <2>10, <2>11
<1> QED
  BY <1>5, <1>6, <1>7 DEF Evict

LEMMA EvictedEffect ==
    ASSUME BaseInv, Evicted
    PROVE  /\ Step \in Steps /\ Step.do = "evicted" /\ Work = {Step} \cup Rest /\ Plan(todo')
           /\ (\A u \in Rest : u.do \in {"evict", "insert", "chunk", "written"})
           /\ cache # <<>> /\ cache' = Front(cache) /\ Range(todo') = Rest
<1>1. /\ Plan(todo') /\ Step \in Steps /\ Step.do = "evicted" /\ Work = {Step} \cup Rest
      /\ Range(todo') = Rest /\ \A u \in Rest : Before("evicted", u.do)
  BY Spend DEF Evicted
<1>2. \A u \in Rest : u.do \in {"evict", "insert", "chunk", "written"}
  BY <1>1, AfterCache
<1>3. cache # <<>>
  BY <1>1, BaseFacts DEF CacheInv, Has
<1> QED
  BY <1>1, <1>2, <1>3 DEF Evicted

LEMMA InsertEffect ==
    ASSUME BaseInv, InsertEntry
    PROVE  \E e \in Lined :
             /\ Step \in Steps /\ Step.do = "insert" /\ Step.entry = e
             /\ Work = {Step} \cup Rest /\ Plan(todo') /\ Range(todo') = Rest
             /\ (\A u \in Rest : u.do \in {"chunk", "written"})
             /\ (\A x \in Held : x.line # e.line) /\ Len(cache) < geom.lines
             /\ cache' = <<e>> \o cache
<1>1. /\ Plan(todo') /\ Step \in Steps /\ Step.do = "insert" /\ Work = {Step} \cup Rest
      /\ Range(todo') = Rest /\ \A u \in Rest : Before("insert", u.do)
  BY Spend DEF InsertEntry
<1>2. \A u \in Rest : u.do \in {"chunk", "written"}
  BY <1>1, AfterCache
<1>3. PICK e \in Lined : e = Step.entry
  BY <1>1 DEF Steps
<1>4. \A x \in Held : x.line # e.line
  BY <1>1, <1>3, BaseFacts DEF CacheInv, Held
<1>5. Len(cache) < geom.lines
  BY <1>1, <1>2, BaseFacts DEF CacheInv, Has
<1>6. cache' = <<e>> \o cache
  BY <1>3 DEF InsertEntry
<1> QED
  BY <1>1, <1>2, <1>3, <1>4, <1>5, <1>6

\* The kinds of step that flush and discard_range have left.
SyncRest == {"sync", "flushed", "dealloc", "trim", "drop"}

LEMMA SyncEffect ==
    ASSUME BaseInv, SyncLine
    PROVE  \E e \in Held :
             /\ Step \in Steps /\ Step.do = "sync" /\ Step.line = e.line
             /\ Work = {Step} \cup Rest /\ Plan(todo') /\ (\A u \in Rest : u.do \in SyncRest)
             /\ cache' = Promoted(e)
             /\ Range(todo') = (IF e.dirty THEN CowSteps(e) \cup {CleanStep(e.line)} ELSE {}) \cup Rest
<1>1. /\ geom \in Setups /\ Plan(todo) /\ todo # <<>> /\ CacheOK(cache) /\ Doing("sync")
      /\ Step \in Steps /\ Step.do = "sync" /\ Work = {Step} \cup Rest
      /\ \A u \in Rest : Before("sync", u.do)
  BY AtStep DEF SyncLine
<1>2. \A u \in Rest : u.do \in SyncRest
  BY <1>1, AfterCache DEF SyncRest
<1>3. \E x \in Held : x.line = Step.line
  BY <1>1, BaseFacts DEF CacheInv, Held
<1>4. PICK e \in Held : e = Entry(Step.line) /\ e.line = Step.line /\ e \in Lined
  BY <1>1, <1>3, CachedFacts, HeldFacts DEF Held
<1>5. cache' = Promoted(e)
  BY <1>4 DEF SyncLine
<1>6. CASE ~e.dirty
  <2>1. Continue(<<>>)
    BY <1>4, <1>6 DEF SyncLine
  <2> QED
    BY <1>1, <1>2, <1>4, <1>5, <1>6, <2>1, Spend
<1>7. CASE e.dirty
  <2>1. PICK p : p = WriteBack(e) /\ Plan(p) /\ Range(p) = CowSteps(e) /\ \A t \in Range(p) : t.do = "cow"
    BY <1>1, <1>4, CowStepsFacts
  <2>2. PICK d \in Steps : d = CleanStep(e.line) /\ d.do = "clean"
    <3>1. e.line \in Lines
      BY <1>4, LinedFacts
    <3> QED
      BY <3>1, StepLine DEF CleanStep
  <2>3. PICK o : o = <<d>> /\ Plan(o) /\ Range(o) = {d}
    BY PlanOne
  <2>4. Precedes(p, o)
    BY <2>1, <2>2, <2>3 DEF Precedes, Before, Storing
  <2>5. PICK q : q = p \o o /\ Plan(q) /\ Range(q) = Range(p) \cup Range(o)
    BY <2>1, <2>3, <2>4, PlanConcat
  <2>6. \A t \in Range(q) : t.do \in {"cow", "clean"}
    BY <2>1, <2>2, <2>3, <2>5
  <2>7. \A t \in Range(q) : \A y : Before("sync", y) => Before(t.do, y)
    BY <2>6 DEF Before, Storing
  <2>8. Continue(q)
    BY <1>4, <1>7, <2>1, <2>2, <2>3, <2>5 DEF SyncLine, CleanStep
  <2>9. Plan(todo') /\ Range(todo') = Range(q) \cup Rest
    BY <1>1, <2>5, <2>7, <2>8, Consume
  <2>10. Range(todo') = CowSteps(e) \cup {CleanStep(e.line)} \cup Rest
    BY <2>1, <2>2, <2>3, <2>5, <2>9
  <2> QED
    BY <1>1, <1>2, <1>4, <1>5, <1>7, <2>9, <2>10
<1> QED
  BY <1>6, <1>7

\* An entry with its mark of change taken away.
Cleaned(e) == [line |-> e.line, data |-> e.data, dirty |-> FALSE]

LEMMA CleanedFacts ==
    ASSUME NEW e \in Lined
    PROVE  /\ Cleaned(e) \in Lined /\ Cleaned(e).line = e.line /\ Cleaned(e).data = e.data
           /\ Cleaned(e).dirty = FALSE
<1>1. Cleaned(e) \in Lined
  BY LinedFacts, LinedType DEF Cleaned
<1> QED
  BY <1>1 DEF Cleaned

LEMMA CleanedExcept ==
    ASSUME NEW e \in Lined
    PROVE  Cleaned(e) = [e EXCEPT !.dirty = FALSE]
<1>1. PICK k : e \in [line : {k}, data : [InLine(k) -> Values], dirty : BOOLEAN]
  BY DEF Lined
<1>2. PICK K, D, B, r : K = {k} /\ D = [InLine(k) -> Values] /\ B = BOOLEAN /\ r = FALSE
  OBVIOUS
<1>3. e \in [line : K, data : D, dirty : B] /\ r \in B
  BY <1>1, <1>2
<1>4. [e EXCEPT !.dirty = r] = [line |-> e.line, data |-> e.data, dirty |-> r]
  BY ONLY <1>3
<1> QED
  BY Zenon, <1>2, <1>4 DEF Cleaned

LEMMA CleanEffect ==
    ASSUME BaseInv, CleanLine
    PROVE  \E e \in Held :
             /\ Step \in Steps /\ Step.do = "clean" /\ Step.line = e.line /\ e \in Lined
             /\ Work = {Step} \cup Rest /\ Plan(todo') /\ (\A u \in Rest : u.do \in SyncRest)
             /\ cache' = Promoted(Cleaned(e)) /\ Range(todo') = Rest
<1>1. /\ Plan(todo') /\ Step \in Steps /\ Step.do = "clean" /\ Work = {Step} \cup Rest
      /\ Range(todo') = Rest /\ \A u \in Rest : Before("clean", u.do)
  BY Spend DEF CleanLine
<1>2. \A u \in Rest : u.do \in SyncRest
  BY <1>1, AfterCache DEF SyncRest
<1>3. CacheOK(cache) /\ \E x \in Held : x.line = Step.line
  BY <1>1, BaseFacts DEF CacheInv, Held
<1>4. PICK e \in Held : e = Entry(Step.line) /\ e.line = Step.line /\ e \in Lined
  BY <1>3, CachedFacts, HeldFacts DEF Held
<1>5. cache' = Promoted(Cleaned(e))
  <2>1. Cleaned(e) = [Entry(Step.line) EXCEPT !.dirty = FALSE]
    BY Zenon, <1>4, CleanedExcept
  <2> QED
    BY Zenon, <2>1 DEF CleanLine
<1> QED
  BY <1>1, <1>2, <1>4, <1>5

-----------------------------------------------------------------------------
(* The steps of the cache keep the types *)

\* The steps left say nothing about the cache.
LEMMA QuietCache ==
    ASSUME NEW U, NEW c, \A t \in U : t.do \notin {"insert", "evicted", "sync", "clean"}
    PROVE  CacheInv(U, c)
  BY DEF CacheInv, Has

\* The steps left say nothing about the tables.
LEMMA QuietMem ==
    ASSUME BaseInv, NEW U,
           \A t \in U : t.do \in {"grow", "put", "clear", "cow"} => t \in Work,
           \A t \in Work : t.do = "clear" => t \in U
    PROVE  MemInv(U, mem, file.len, file.data, faults)
  BY BaseFacts, MemLess

\* A line is written back.
LEMMA CowsMem ==
    ASSUME BaseInv, NEW e \in Lined, NEW V, NEW U, U = CowSteps(e) \cup V,
           \A t \in V : t.do \notin {"grow", "put", "clear", "cow"},
           \A t \in Work : t.do # "clear"
    PROVE  MemInv(U, mem, file.len, file.data, faults)
<1>1. MemInv(V, mem, file.len, file.data, faults)
  BY QuietMem
<1>2. \A t \in CowSteps(e) : t.do = "cow"
  BY BaseFacts, CowStepsFacts
<1>3. \A t \in U : t.do \in {"grow", "put", "clear"} => t \in V
  BY <1>2
<1>4. Clearing(U) = Clearing(V)
  BY <1>2 DEF Clearing
<1>5. \A t, u \in U : t.do = "cow" /\ u.do = "cow" /\ t # u =>
          \A s \in DOMAIN t.chunk, r \in DOMAIN u.chunk : BlockOf(s) # BlockOf(r)
  <2> SUFFICES ASSUME NEW t \in U, NEW u \in U, t.do = "cow", u.do = "cow", t # u,
                      NEW s \in DOMAIN t.chunk, NEW r \in DOMAIN u.chunk
               PROVE  BlockOf(s) # BlockOf(r)
    OBVIOUS
  <2>1. t \in CowSteps(e) /\ u \in CowSteps(e)
    OBVIOUS
  <2>2. PICK b \in BlocksIn(e.data) : t = CowStep(e.data, b)
    BY <2>1 DEF CowSteps
  <2>3. PICK c \in BlocksIn(e.data) : u = CowStep(e.data, c)
    BY <2>1 DEF CowSteps
  <2>4. t.chunk = Part(e.data, b) /\ u.chunk = Part(e.data, c)
    BY <2>2, <2>3 DEF CowStep
  <2>5. BlockOf(s) = b /\ BlockOf(r) = c
    BY <2>4 DEF Part
  <2> QED
    BY <2>2, <2>3, <2>5
<1> QED
  BY <1>1, <1>3, <1>4, <1>5 DEF MemInv

\* A step of the cache that is no return.
LEMMA BaseCacheOnly ==
    ASSUME BaseInv, CacheOnly, todo # <<>>, Plan(todo'), CacheOK(cache'), Len(cache') <= geom.lines,
           MemInv(Range(todo'), mem, file.len, file.data, faults),
           CacheInv(Range(todo'), cache')
    PROVE  BaseInv'
<1>1. /\ geom' = geom /\ KeepDisk /\ status' = status /\ faults' = faults
      /\ vol' = vol /\ stable' = stable /\ unsure' = unsure
  BY DEF CacheOnly, history
<1>2. status # "crashed"
  BY BaseFacts
<1>3. vol' \in [Sectors -> Values] /\ stable' \in [Sectors -> SUBSET Values] /\ unsure' \in SUBSET Sectors
  BY <1>1, BaseFacts
<1> QED
  BY <1>1, <1>2, <1>3, BaseCache

\* A miss: the line is inserted once there is room.
LEMMA MissCache ==
    ASSUME BaseInv, NEW x \in Lined, \A e \in Held : e.line # x.line, NEW U, NEW V,
           U = {EvictStep, InsertStep(x)} \cup V, \A t \in V : t.do \in {"chunk", "written"},
           \A t \in Work : t.do # "clear"
    PROVE  /\ CacheInv(U, cache) /\ MemInv(U, mem, file.len, file.data, faults)
<1>1. EvictStep.do = "evict" /\ InsertStep(x).do = "insert" /\ InsertStep(x).entry = x
  BY DEF EvictStep, InsertStep
<1>2. \A t \in U : t.do = "insert" => t = InsertStep(x)
  BY <1>1
<1>3. \A t \in U : t.do \in {"evict", "insert", "chunk", "written"}
  BY <1>1
<1>4. Has(U, "evict")
  BY <1>1 DEF Has
<1>5. MemInv(U, mem, file.len, file.data, faults)
  BY <1>3, QuietMem
<1>6. CacheInv(U, cache)
  BY <1>1, <1>2, <1>3, <1>4 DEF CacheInv, Has, Held
<1> QED
  BY <1>5, <1>6

LEMMA LoadBase ==
    ASSUME BaseInv, LoadLine
    PROVE  BaseInv'
<1>1. CacheOnly /\ todo # <<>> /\ CacheOK(cache) /\ Len(cache) <= geom.lines
  BY BaseFacts DEF LoadLine, Doing
<1>2. PICK k \in Lines :
             /\ Step \in Steps /\ Step.do = "load" /\ Work = {Step} /\ Plan(todo')
             /\ \/ \E e \in Held : e.line = k /\ cache' = Promoted(e) /\ Range(todo') = {}
                \/ /\ \A e \in Held : e.line # k
                   /\ cache' = cache /\ Range(todo') = {EvictStep, InsertStep(LoadEntry(k))}
  BY LoadEffect
<1>3. \A t \in Work : t.do # "clear"
  BY <1>2
<1>4. ASSUME NEW e \in Held, cache' = Promoted(e), Range(todo') = {}
      PROVE  BaseInv'
  <2>1. e \in Lined
    BY <1>1, HeldFacts DEF Held
  <2>2. PICK c : c = Promoted(e) /\ CacheOK(c) /\ Len(c) = Len(cache)
    BY <1>1, <2>1, PromotedFacts
  <2>3. PICK U : U = Range(todo') /\ U = {}
    BY <1>4
  <2>4. MemInv(U, mem, file.len, file.data, faults) /\ CacheInv(U, c)
    BY <1>3, <2>3, QuietMem, QuietCache
  <2>5. cache' = c
    BY <1>4, <2>2
  <2> QED
    BY <1>1, <1>2, <2>2, <2>3, <2>4, <2>5, BaseCacheOnly
<1>5. ASSUME \A e \in Held : e.line # k, cache' = cache,
             Range(todo') = {EvictStep, InsertStep(LoadEntry(k))}
      PROVE  BaseInv'
  <2>1. PICK x \in Lined : x = LoadEntry(k) /\ x.line = k
    BY LoadEntryFacts
  <2>2. PICK U, V : U = Range(todo') /\ U = {EvictStep, InsertStep(x)} \cup V /\ V = {}
    BY <1>5, <2>1
  <2>3. CacheInv(U, cache) /\ MemInv(U, mem, file.len, file.data, faults)
    <3>1. \A t \in V : t.do \in {"chunk", "written"}
      BY <2>2
    <3>2. U = {EvictStep, InsertStep(x)} \cup V /\ \A e \in Held : e.line # x.line
      BY <1>5, <2>1, <2>2
    <3> QED
      BY ONLY <1>3, <3>1, <3>2, MissCache, BaseInv, x \in Lined
  <2> QED
    BY <1>1, <1>2, <1>5, <2>2, <2>3, BaseCacheOnly
<1> QED
  BY <1>2, <1>4, <1>5

LEMMA ChunkBase ==
    ASSUME BaseInv, WriteChunk
    PROVE  BaseInv'
<1>1. CacheOnly /\ todo # <<>> /\ CacheOK(cache) /\ Len(cache) <= geom.lines
  BY BaseFacts DEF WriteChunk, Doing
<1>2. PICK k \in Lines, f \in Chunks :
             /\ Step \in Steps /\ Step.do = "chunk" /\ Step.line = k /\ Step.data = f
             /\ DOMAIN f \subseteq InLine(k)
             /\ Work = {Step} \cup Rest /\ Plan(todo')
             /\ (\A u \in Rest : u.do \in {"chunk", "written"})
             /\ \/ \E e \in Held, x \in Lined :
                      /\ e.line = k /\ x.line = k /\ x.dirty = TRUE
                      /\ \A s \in InLine(k) : x.data[s] = IF s \in DOMAIN f THEN f[s] ELSE e.data[s]
                      /\ cache' = Promoted(x) /\ Range(todo') = Rest
                \/ \E x \in Lined :
                      /\ \A e \in Held : e.line # k
                      /\ x.line = k /\ x.dirty = TRUE /\ x.data = f /\ DOMAIN f = InLine(k)
                      /\ cache' = cache /\ Range(todo') = {EvictStep, InsertStep(x)} \cup Rest
                \/ /\ \A e \in Held : e.line # k
                   /\ cache' = cache
                   /\ Range(todo') = {EvictStep, InsertStep(LoadEntry(k)), Step} \cup Rest
  BY ChunkEffect
<1>3. \A t \in Work : t.do \in {"chunk", "written"}
  BY <1>2
<1>4. ASSUME NEW e \in Held, NEW x \in Lined, e.line = k, x.line = k,
             cache' = Promoted(x), Range(todo') = Rest
      PROVE  BaseInv'
  <2>1. PICK c : c = Promoted(x) /\ CacheOK(c) /\ Len(c) = Len(cache)
    BY <1>1, <1>4, PromotedFacts
  <2>2. MemInv(Rest, mem, file.len, file.data, faults) /\ CacheInv(Rest, c)
    BY <1>2, <1>3, QuietMem, QuietCache
  <2>3. cache' = c
    BY <1>4, <2>1
  <2> QED
    BY <1>1, <1>2, <1>4, <2>1, <2>2, <2>3, BaseCacheOnly
<1>5. ASSUME NEW x \in Lined, NEW V, \A e \in Held : e.line # k, x.line = k, cache' = cache,
             Range(todo') = {EvictStep, InsertStep(x)} \cup V, \A t \in V : t.do \in {"chunk", "written"}
      PROVE  BaseInv'
  <2>1. PICK U : U = Range(todo') /\ U = {EvictStep, InsertStep(x)} \cup V
    BY <1>5
  <2>2. CacheInv(U, cache) /\ MemInv(U, mem, file.len, file.data, faults)
    BY <1>3, <1>5, <2>1, MissCache
  <2> QED
    BY <1>1, <1>2, <1>5, <2>1, <2>2, BaseCacheOnly
<1>6. CASE \E x \in Lined :
                      /\ \A e \in Held : e.line # k
                      /\ x.line = k /\ x.dirty = TRUE /\ x.data = f /\ DOMAIN f = InLine(k)
                      /\ cache' = cache /\ Range(todo') = {EvictStep, InsertStep(x)} \cup Rest
  BY <1>2, <1>5, <1>6
<1>7. CASE /\ \A e \in Held : e.line # k
           /\ cache' = cache
           /\ Range(todo') = {EvictStep, InsertStep(LoadEntry(k)), Step} \cup Rest
  <2>1. PICK x \in Lined : x = LoadEntry(k) /\ x.line = k
    BY LoadEntryFacts
  <2>2. PICK V : V = {Step} \cup Rest
    OBVIOUS
  <2>3. Range(todo') = {EvictStep, InsertStep(x)} \cup V
    BY <1>7, <2>1, <2>2
  <2>4. \A t \in V : t.do \in {"chunk", "written"}
    BY <1>2, <2>2
  <2> QED
    BY <1>5, <1>7, <2>1, <2>3, <2>4
<1> QED
  BY <1>2, <1>4, <1>6, <1>7

LEMMA EvictBase ==
    ASSUME BaseInv, Evict
    PROVE  BaseInv'
<1>1. CacheOnly /\ todo # <<>> /\ CacheOK(cache) /\ Len(cache) <= geom.lines
      /\ CacheInv(Work, cache) /\ geom \in Setups
  BY BaseFacts DEF Evict, Doing
<1>2. /\ Step \in Steps /\ Step = EvictStep /\ Work = {EvictStep} \cup Rest /\ Plan(todo')
      /\ (\A u \in Rest : u.do \in {"insert", "chunk", "written"})
      /\ \/ Len(cache) < geom.lines /\ cache' = cache /\ Range(todo') = Rest
         \/ /\ Len(cache) >= geom.lines /\ cache # <<>> /\ ~Last(cache).dirty
            /\ cache' = Front(cache) /\ Range(todo') = Work
         \/ /\ Len(cache) >= geom.lines /\ cache # <<>> /\ Last(cache).dirty
            /\ cache' = cache
            /\ Range(todo') = CowSteps(Last(cache)) \cup {EvictedStep} \cup Work
  BY EvictEffect
<1>3. EvictStep.do = "evict" /\ EvictedStep.do = "evicted"
  BY DEF EvictStep, EvictedStep
<1>4. \A t \in Work : t.do \in {"evict", "insert", "chunk", "written"}
  BY <1>2, <1>3
<1>5. CASE Len(cache) < geom.lines /\ cache' = cache /\ Range(todo') = Rest
  <2>1. MemInv(Rest, mem, file.len, file.data, faults)
    BY <1>2, <1>4, QuietMem
  <2>2. CacheInv(Rest, cache)
    BY <1>1, <1>2, <1>5 DEF CacheInv, Has
  <2> QED
    BY <1>1, <1>2, <1>5, <2>1, <2>2, BaseCacheOnly
<1>6. CASE cache # <<>> /\ cache' = Front(cache) /\ Range(todo') = Work
  <2>1. PICK c : c = Front(cache) /\ CacheOK(c) /\ Len(c) = Len(cache) - 1 /\ Range(c) \subseteq Held
    BY <1>1, <1>6, FrontFacts
  <2>2. CacheInv(Work, c)
    BY <1>1, <1>2, <1>3, <1>4, <2>1 DEF CacheInv, Has, Held
  <2>3. Len(c) <= geom.lines
    BY <1>1, <2>1, HeldFacts, GeomType
  <2>4. MemInv(Work, mem, file.len, file.data, faults) /\ cache' = c
    BY <1>6, <2>1, BaseFacts
  <2> QED
    BY <1>1, <1>2, <1>6, <2>1, <2>2, <2>3, <2>4, BaseCacheOnly
<1>7. CASE /\ cache # <<>> /\ cache' = cache
           /\ Range(todo') = CowSteps(Last(cache)) \cup {EvictedStep} \cup Work
  <2>1. PICK e \in Lined : e = Last(cache)
    BY <1>1, <1>7, FrontFacts, HeldFacts DEF Held
  <2>2. PICK V : V = {EvictedStep} \cup Work
    OBVIOUS
  <2>3. PICK U : U = Range(todo') /\ U = CowSteps(e) \cup V
    BY <1>7, <2>1, <2>2
  <2>4. \A t \in V : t.do \in {"evicted", "evict", "insert", "chunk", "written"}
    BY <1>3, <1>4, <2>2
  <2>5. MemInv(U, mem, file.len, file.data, faults)
    BY <1>4, <2>3, <2>4, CowsMem
  <2>6. \A t \in CowSteps(e) : t.do = "cow"
    BY <1>1, CowStepsFacts
  <2>7. \A t \in U : t.do \in {"insert", "sync", "clean"} => t \in Work
    BY <1>3, <2>2, <2>3, <2>6
  <2>8. Has(U, "evict")
    BY <1>2, <1>3, <2>2, <2>3 DEF Has
  <2>9. CacheInv(U, cache)
    BY <1>1, <1>7, <2>7, <2>8 DEF CacheInv
  <2> QED
    BY <1>1, <1>2, <1>7, <2>3, <2>5, <2>9, BaseCacheOnly
<1> QED
  BY <1>2, <1>5, <1>6, <1>7

LEMMA EvictedBase ==
    ASSUME BaseInv, Evicted
    PROVE  BaseInv'
<1>1. /\ CacheOnly /\ todo # <<>> /\ CacheOK(cache) /\ Len(cache) <= geom.lines
      /\ CacheInv(Work, cache) /\ geom \in Setups
  BY BaseFacts DEF Evicted, Doing
<1>2. /\ Step \in Steps /\ Step.do = "evicted" /\ Work = {Step} \cup Rest /\ Plan(todo')
      /\ (\A u \in Rest : u.do \in {"evict", "insert", "chunk", "written"})
      /\ cache # <<>> /\ cache' = Front(cache) /\ Range(todo') = Rest
  BY EvictedEffect
<1>3. PICK c : /\ c = Front(cache) /\ CacheOK(c) /\ Len(c) = Len(cache) - 1 /\ Range(c) \subseteq Held
  BY <1>1, <1>2, FrontFacts
<1>4. Len(c) < geom.lines /\ Len(c) <= geom.lines
  BY <1>1, <1>3, HeldFacts, GeomType
<1>5. CacheInv(Rest, c)
  BY <1>1, <1>2, <1>3, <1>4 DEF CacheInv, Has, Held
<1>6. MemInv(Rest, mem, file.len, file.data, faults)
  BY <1>2, QuietMem
<1>7. cache' = c
  BY <1>2, <1>3
<1> QED
  BY <1>1, <1>2, <1>3, <1>4, <1>5, <1>6, <1>7, BaseCacheOnly

LEMMA InsertBase ==
    ASSUME BaseInv, InsertEntry
    PROVE  BaseInv'
<1>1. /\ CacheOnly /\ todo # <<>> /\ CacheOK(cache) /\ geom \in Setups
  BY BaseFacts DEF InsertEntry, Doing
<1>2. PICK e \in Lined :
             /\ Step \in Steps /\ Step.do = "insert" /\ Step.entry = e
             /\ Work = {Step} \cup Rest /\ Plan(todo') /\ Range(todo') = Rest
             /\ (\A u \in Rest : u.do \in {"chunk", "written"})
             /\ (\A x \in Held : x.line # e.line) /\ Len(cache) < geom.lines
             /\ cache' = <<e>> \o cache
  BY InsertEffect
<1>3. PICK c : c = <<e>> \o cache /\ CacheOK(c) /\ Len(c) = Len(cache) + 1
  BY <1>1, <1>2, ConsFacts DEF Held
<1>4. Len(c) <= geom.lines
  BY <1>1, <1>2, <1>3, HeldFacts, GeomType
<1>5. CacheInv(Rest, c)
  BY <1>2, QuietCache
<1>6. MemInv(Rest, mem, file.len, file.data, faults)
  BY <1>2, QuietMem
<1>7. cache' = c
  BY <1>2, <1>3
<1> QED
  BY <1>1, <1>2, <1>3, <1>4, <1>5, <1>6, <1>7, BaseCacheOnly

\* Lines that are held are held wherever they stand.
LEMMA PromotedHolds ==
    ASSUME CacheOK(cache), NEW x \in Lined, \E e \in Held : e.line = x.line, NEW c, c = Promoted(x)
    PROVE  \A e \in Held : \E y \in Range(c) : y.line = e.line
<1>1. Range(c) = {x} \cup {e \in Held : e.line # x.line}
  BY PromotedFacts
<1> QED
  BY <1>1

LEMMA SyncBase ==
    ASSUME BaseInv, SyncLine
    PROVE  BaseInv'
<1>1. /\ CacheOnly /\ todo # <<>> /\ CacheOK(cache) /\ Len(cache) <= geom.lines
      /\ CacheInv(Work, cache) /\ geom \in Setups
  BY BaseFacts DEF SyncLine, Doing
<1>2. PICK e \in Held :
             /\ Step \in Steps /\ Step.do = "sync" /\ Step.line = e.line
             /\ Work = {Step} \cup Rest /\ Plan(todo') /\ (\A u \in Rest : u.do \in SyncRest)
             /\ cache' = Promoted(e)
             /\ Range(todo') = (IF e.dirty THEN CowSteps(e) \cup {CleanStep(e.line)} ELSE {}) \cup Rest
  BY SyncEffect
<1>3. e \in Lined
  BY <1>1, HeldFacts DEF Held
<1>4. PICK c : c = Promoted(e) /\ CacheOK(c) /\ Len(c) = Len(cache)
  BY <1>1, <1>3, PromotedFacts
<1>5. \A x \in Held : \E y \in Range(c) : y.line = x.line
  BY <1>1, <1>3, <1>4, PromotedHolds
<1>6. \A t \in Work : t.do \in SyncRest
  BY <1>2 DEF SyncRest
<1>7. \A t \in Rest : t.do = "sync" => \E y \in Range(c) : y.line = t.line
  <2> SUFFICES ASSUME NEW t \in Rest, t.do = "sync" PROVE \E y \in Range(c) : y.line = t.line
    OBVIOUS
  <2>1. PICK x \in Held : x.line = t.line
    BY <1>1, <1>2 DEF CacheInv, Held
  <2> QED
    BY <1>5, <2>1
<1>8. cache' = c
  BY <1>2, <1>4
<1>9. CASE ~e.dirty
  <2>1. Range(todo') = Rest
    BY <1>2, <1>9
  <2>2. MemInv(Rest, mem, file.len, file.data, faults)
    BY <1>2, <1>6, QuietMem DEF SyncRest
  <2>3. CacheInv(Rest, c)
    BY <1>2, <1>7 DEF CacheInv, Has, SyncRest
  <2> QED
    BY <1>1, <1>2, <1>4, <1>8, <2>1, <2>2, <2>3, BaseCacheOnly
<1>10. CASE e.dirty
  <2>1. PICK V : V = {CleanStep(e.line)} \cup Rest
    OBVIOUS
  <2>2. PICK U : U = Range(todo') /\ U = CowSteps(e) \cup V
    BY <1>2, <1>10, <2>1
  <2>3. CleanStep(e.line).do = "clean" /\ CleanStep(e.line).line = e.line
    BY DEF CleanStep
  <2>4. \A t \in V : t = CleanStep(e.line) \/ t \in Rest
    BY <2>1
  <2>5. \A t \in V : t.do \notin {"grow", "put", "clear", "cow"}
    BY <1>2, <2>3, <2>4 DEF SyncRest
  <2>6. MemInv(U, mem, file.len, file.data, faults)
    BY <1>3, <1>6, <2>2, <2>5, CowsMem DEF SyncRest
  <2>7. \A t \in CowSteps(e) : t.do = "cow"
    BY <1>1, <1>3, CowStepsFacts
  <2>8. \E y \in Range(c) : y.line = e.line
    BY <1>5
  <2>9. \A t \in U : t.do \in {"sync", "clean"} => \E y \in Range(c) : y.line = t.line
    BY <1>2, <1>7, <2>2, <2>3, <2>4, <2>7, <2>8 DEF SyncRest
  <2>10. \A t \in U : t.do \notin {"insert", "evicted"}
    BY <1>2, <2>2, <2>3, <2>4, <2>7 DEF SyncRest
  <2>11. CacheInv(U, c)
    BY <2>9, <2>10 DEF CacheInv, Has
  <2> QED
    BY <1>1, <1>2, <1>4, <1>8, <2>2, <2>6, <2>11, BaseCacheOnly
<1> QED
  BY <1>9, <1>10

LEMMA CleanBase ==
    ASSUME BaseInv, CleanLine
    PROVE  BaseInv'
<1>1. /\ CacheOnly /\ todo # <<>> /\ CacheOK(cache) /\ Len(cache) <= geom.lines
      /\ CacheInv(Work, cache) /\ geom \in Setups
  BY BaseFacts DEF CleanLine, Doing
<1>2. PICK e \in Held :
             /\ Step \in Steps /\ Step.do = "clean" /\ Step.line = e.line /\ e \in Lined
             /\ Work = {Step} \cup Rest /\ Plan(todo') /\ (\A u \in Rest : u.do \in SyncRest)
             /\ cache' = Promoted(Cleaned(e)) /\ Range(todo') = Rest
  BY CleanEffect
<1>3. PICK x \in Lined : x = Cleaned(e) /\ x.line = e.line
  BY <1>2, CleanedFacts
<1>4. PICK c : c = Promoted(x) /\ CacheOK(c) /\ Len(c) = Len(cache)
  BY <1>1, <1>3, PromotedFacts
<1>5. \A y \in Held : \E z \in Range(c) : z.line = y.line
  BY <1>1, <1>3, <1>4, PromotedHolds
<1>6. \A t \in Rest : t.do = "sync" => \E y \in Range(c) : y.line = t.line
  <2> SUFFICES ASSUME NEW t \in Rest, t.do = "sync" PROVE \E y \in Range(c) : y.line = t.line
    OBVIOUS
  <2>1. PICK z \in Held : z.line = t.line
    BY <1>1, <1>2 DEF CacheInv, Held
  <2> QED
    BY <1>5, <2>1
<1>7. CacheInv(Rest, c)
  BY <1>2, <1>6 DEF CacheInv, Has, SyncRest
<1>8. MemInv(Rest, mem, file.len, file.data, faults)
  BY <1>2, QuietMem DEF SyncRest
<1>9. cache' = c
  BY <1>2, <1>3, <1>4
<1> QED
  BY <1>1, <1>2, <1>4, <1>7, <1>8, <1>9, BaseCacheOnly

\* The last step of a call.
LEMMA LastEffect ==
    ASSUME BaseInv, NEW kind \in {"flushed", "drop", "written"}, Doing(kind), Continue(<<>>)
    PROVE  /\ Step \in Steps /\ Step.do = kind /\ Work = {Step} /\ Rest = {}
           /\ Plan(todo') /\ Range(todo') = {} /\ status # "crashed" /\ todo' = <<>>
<1>1. /\ Plan(todo') /\ todo # <<>> /\ Step \in Steps /\ Step.do = kind
      /\ Work = {Step} \cup Rest /\ Range(todo') = Rest
      /\ \A u \in Rest : Before(kind, u.do)
  BY Spend
<1>2. Rest = {}
  BY <1>1, AfterCache
<1>3. status # "crashed"
  BY <1>1, BaseFacts
<1>4. todo' = <<>>
  <2>1. PICK q \in Seq(Steps) : q = todo' /\ Range(q) = {}
    BY <1>1, <1>2 DEF Plan
  <2>2. Len(q) = 0
    <3>1. Len(q) \in Nat /\ \A i \in 1 .. Len(q) : q[i] \in Range(q)
      BY RangeOf
    <3>2. Len(q) # 0 => 1 \in 1 .. Len(q)
      BY <3>1
    <3> QED
      BY <2>1, <3>1, <3>2
  <2>3. q = <<>>
    BY <2>2, EmptySeq
  <2> QED
    BY <2>1, <2>3
<1> QED
  BY <1>1, <1>2, <1>3, <1>4

LEMMA FlushedBase ==
    ASSUME BaseInv, FlushReturns
    PROVE  BaseInv'
<1>1. /\ Work = {Step} /\ Plan(todo') /\ Range(todo') = {} /\ status # "crashed" /\ Step.do = "flushed"
  BY LastEffect DEF FlushReturns
<1>2. /\ geom' = geom /\ KeepDisk /\ status' = status /\ faults' = faults
      /\ cache' = cache /\ vol' = vol /\ unsure' = unsure
      /\ stable' = [s \in Sectors |-> {vol[s]}]
  BY DEF FlushReturns
<1>3. stable' \in [Sectors -> SUBSET Values]
  <2>1. \A s \in Sectors : vol[s] \in Values
    BY BaseFacts
  <2> QED
    BY <1>2, <2>1
<1>4. PICK U : U = Range(todo') /\ U = {}
  BY <1>1
<1>5. CacheInv(U, cache) /\ MemInv(U, mem, file.len, file.data, faults)
  BY <1>1, <1>4, QuietCache, QuietMem
<1> QED
  BY <1>1, <1>2, <1>3, <1>4, <1>5, BaseCache, BaseFacts

LEMMA WrittenBase ==
    ASSUME BaseInv, WriteReturns
    PROVE  BaseInv'
<1>1. /\ Work = {Step} /\ Plan(todo') /\ Range(todo') = {} /\ status # "crashed" /\ Step.do = "written"
  BY LastEffect DEF WriteReturns
<1>2. /\ geom' = geom /\ KeepDisk /\ status' = status /\ faults' = faults
      /\ cache' = cache /\ vol' = vol /\ stable' = stable /\ unsure' = unsure \ Step.sure
  BY DEF WriteReturns
<1>3. PICK U : U = Range(todo') /\ U = {}
  BY <1>1
<1>4. CacheInv(U, cache) /\ MemInv(U, mem, file.len, file.data, faults)
  BY <1>1, <1>3, QuietCache, QuietMem
<1> QED
  BY <1>1, <1>2, <1>3, <1>4, BaseCache, BaseFacts

LEMMA DropBase ==
    ASSUME BaseInv, DropLines
    PROVE  BaseInv'
<1>1. /\ Work = {Step} /\ Plan(todo') /\ Range(todo') = {} /\ status # "crashed" /\ Step.do = "drop"
  BY LastEffect DEF DropLines
<1>2. /\ geom' = geom /\ KeepDisk /\ status' = status /\ faults' = faults
      /\ cache' = Dropped(Step.lines) /\ stable' = stable /\ unsure' = unsure \ Step.sure
      /\ vol' = [s \in Sectors |-> IF BlockOf(s) \in Step.blocks THEN Base(s) ELSE vol[s]]
  BY DEF DropLines
<1>3. geom \in Setups /\ CacheOK(cache) /\ Len(cache) <= geom.lines
  BY BaseFacts
<1>4. vol' \in [Sectors -> Values]
  <2>1. \A s \in Sectors : vol[s] \in Values /\ Base(s) \in Values
    BY <1>3, BaseFacts, ValueFacts
  <2> QED
    BY <1>2, <2>1
<1>5. PICK c : c = Dropped(Step.lines) /\ CacheOK(c) /\ Len(c) <= Len(cache)
  BY <1>3, DroppedFacts
<1>6. Len(c) <= geom.lines
  BY <1>3, <1>5, HeldFacts, GeomType
<1>7. PICK U : U = Range(todo') /\ U = {}
  BY <1>1
<1>8. CacheInv(U, c) /\ MemInv(U, mem, file.len, file.data, faults)
  BY <1>1, <1>7, QuietCache, QuietMem
<1>9. cache' = c /\ unsure' \in SUBSET Sectors /\ stable' \in [Sectors -> SUBSET Values]
  BY <1>2, <1>5, BaseFacts
<1> QED
  BY <1>1, <1>2, <1>4, <1>5, <1>6, <1>7, <1>8, <1>9, BaseCache

\* Every step of the cache.
LEMMA CacheBase ==
    ASSUME BaseInv, CacheStep
    PROVE  BaseInv'
  BY LoadBase, ChunkBase, EvictBase, EvictedBase, InsertBase, SyncBase, CleanBase,
     FlushedBase, DropBase, WrittenBase DEF CacheStep

-----------------------------------------------------------------------------
(* The calls *)

LEMMA IdleFacts ==
    ASSUME BaseInv, Call
    PROVE  /\ geom \in Setups /\ geom' = geom /\ KeepDisk /\ cache' = cache /\ status' = status
           /\ faults' = faults /\ Work = {} /\ status = "open" /\ CacheOK(cache)
           /\ Len(cache) <= geom.lines
<1>1. todo = <<>> /\ status = "open"
  BY DEF Call, Idle
<1>2. Work = {}
  BY <1>1, PlanNone DEF Work
<1> QED
  BY <1>1, <1>2, BaseFacts DEF Call

\* A call begins with steps that say nothing about the tables yet.
LEMMA CallBase ==
    ASSUME BaseInv, Call, Plan(todo'), vol' \in [Sectors -> Values],
           stable' \in [Sectors -> SUBSET Values], unsure' \in SUBSET Sectors,
           \A t \in Range(todo') :
              t.do \notin {"grow", "put", "clear", "cow", "insert", "evicted", "clean"},
           \A t \in Range(todo') : t.do = "sync" => \E e \in Held : e.line = t.line
    PROVE  BaseInv'
<1>1. /\ geom' = geom /\ KeepDisk /\ cache' = cache /\ status' = status
      /\ faults' = faults /\ Work = {} /\ status = "open" /\ CacheOK(cache)
      /\ Len(cache) <= geom.lines
  BY IdleFacts
<1>2. PICK U : U = Range(todo')
  OBVIOUS
<1>3. /\ \A t \in U : t.do \notin {"grow", "put", "clear", "cow", "insert", "evicted", "clean"}
      /\ \A t \in U : t.do = "sync" => \E e \in Held : e.line = t.line
  BY <1>2
<1>4. MemInv(U, mem, file.len, file.data, faults)
  BY <1>1, <1>3, QuietMem
<1>5. CacheInv(U, cache)
  BY <1>3 DEF CacheInv, Has, Held
<1> QED
  BY <1>1, <1>2, <1>4, <1>5, BaseCache

LoadStep(k) == [do |-> "load", line |-> k]

LEMMA ReadEffect ==
    ASSUME BaseInv, NEW s \in Sectors, ReadAt(s)
    PROVE  Plan(todo') /\ Range(todo') = {LoadStep(LineOf(s))}
<1>1. LineOf(s) \in Lines
  BY BaseFacts, SectorFacts
<1>2. PICK t \in Steps : t = LoadStep(LineOf(s))
  BY <1>1, StepLine DEF LoadStep
<1>3. Plan(<<t>>) /\ Range(<<t>>) = {t}
  BY PlanOne
<1>4. todo' = <<t>>
  BY <1>2 DEF ReadAt, LoadStep
<1> QED
  BY <1>2, <1>3, <1>4

LEMMA ReadBase ==
    ASSUME BaseInv, NEW s \in Sectors, ReadAt(s)
    PROVE  BaseInv'
<1>1. Call /\ Plan(todo') /\ Range(todo') = {LoadStep(LineOf(s))}
  BY ReadEffect DEF ReadAt
<1>2. vol' = vol /\ stable' = stable /\ unsure' = unsure
  BY DEF ReadAt, history
<1>3. \A t \in Range(todo') : t.do = "load"
  BY <1>1 DEF LoadStep
<1> QED
  BY <1>1, <1>2, <1>3, CallBase, BaseFacts

WrittenStep(S) == [do |-> "written", sure |-> S]

LEMMA WriteDataFacts ==
    ASSUME geom \in Setups, NEW first \in Sectors, NEW last \in Sectors, NEW v \in 1 .. MaxVersion
    PROVE  /\ WriteData(first, last, v) \in Chunks /\ DOMAIN WriteData(first, last, v) = first .. last
           /\ first .. last \in SUBSET Sectors
           /\ \A s \in first .. last : WriteData(first, last, v)[s] = <<s, v>> /\ <<s, v>> \in Values
<1>1. first .. last \in SUBSET Sectors
  BY GeomType DEF Sectors
<1>2. \A s \in first .. last : <<s, v>> \in Values
  BY <1>1, ValueFacts
<1>3. PICK f : f = WriteData(first, last, v)
  OBVIOUS
<1>4. f = [s \in first .. last |-> <<s, v>>]
  BY <1>3 DEF WriteData
<1>5. f \in [first .. last -> Values] /\ \A s \in first .. last : f[s] = <<s, v>>
  BY <1>2, <1>4
<1>6. f \in Chunks
  BY <1>1, <1>5, ChunkType
<1> QED
  BY <1>1, <1>2, <1>3, <1>5, <1>6

LEMMA ChunkStepDo == \A f, k : ChunkStep(f, k).do = "chunk"
  BY DEF ChunkStep

LEMMA WriteEffect ==
    ASSUME BaseInv, NEW first \in Sectors, NEW last \in Sectors, NEW v \in 1 .. MaxVersion,
           WriteAt(first, last, v)
    PROVE  LET f == WriteData(first, last, v)
           IN  /\ Plan(todo')
               /\ Range(todo') = {ChunkStep(f, k) : k \in LinesIn(f)} \cup {WrittenStep(first .. last)}
               /\ vol' \in [Sectors -> Values] /\ stable' \in [Sectors -> SUBSET Values]
               /\ unsure' = unsure \cup (first .. last)
               /\ \A s \in Sectors : vol'[s] = IF s \in first .. last THEN <<s, v>> ELSE vol[s]
               /\ \A s \in Sectors : stable'[s] = IF s \in first .. last THEN stable[s] \cup {<<s, v>>}
                                                  ELSE stable[s]
<1>1. PICK f : f = WriteData(first, last, v)
  OBVIOUS
<1>2. /\ geom \in Setups /\ f \in Chunks /\ DOMAIN f = first .. last
      /\ first .. last \in SUBSET Sectors
      /\ \A s \in first .. last : f[s] = <<s, v>> /\ <<s, v>> \in Values
      /\ vol \in [Sectors -> Values] /\ stable \in [Sectors -> SUBSET Values]
  BY <1>1, BaseFacts, WriteDataFacts
<1>3. PICK p : p = ChunkSteps(f) /\ Plan(p) /\ Range(p) = {ChunkStep(f, k) : k \in LinesIn(f)}
  BY <1>2, ChunkStepsFacts
<1>4. PICK t \in Steps : t = WrittenStep(first .. last) /\ t = [do |-> "written", sure |-> first .. last]
                         /\ t.do = "written"
  <2>1. {} \in SUBSET Lines /\ {} \in SUBSET Blocks
    OBVIOUS
  <2> QED
    BY <1>2, <2>1, StepReturn DEF WrittenStep
<1>5. PICK o : o = <<t>> /\ Plan(o) /\ Range(o) = {t}
  BY PlanOne
<1>6. Precedes(p, o)
  <2>1. \A x \in Range(p) : x.do = "chunk"
    BY <1>3, ChunkStepDo
  <2> QED
    BY <1>4, <1>5, <2>1 DEF Precedes, Before
<1>7. Plan(p \o o) /\ Range(p \o o) = Range(p) \cup Range(o)
  BY <1>3, <1>5, <1>6, PlanConcat
<1>8. /\ todo' = p \o o /\ vol' = Over(f, vol) /\ unsure' = unsure \cup (first .. last)
      /\ stable' = Over([s \in first .. last |-> stable[s] \cup {f[s]}], stable)
  BY <1>1, <1>3, <1>4, <1>5 DEF WriteAt, WriteData, ChunkSteps
<1>9. PICK w : w = Over(f, vol)
  OBVIOUS
<1>10. w = [s \in Sectors |-> IF s \in first .. last THEN f[s] ELSE vol[s]]
  <2>1. DOMAIN f \cup DOMAIN vol = Sectors
    BY <1>2
  <2> QED
    BY <1>2, <1>9, <2>1 DEF Over
<1>11. w \in [Sectors -> Values] /\ \A s \in Sectors : w[s] = IF s \in first .. last THEN <<s, v>> ELSE vol[s]
  BY <1>2, <1>10
<1>12. PICK g : g = [s \in first .. last |-> stable[s] \cup {f[s]}]
  OBVIOUS
<1>13. PICK z : z = Over(g, stable)
  OBVIOUS
<1>14. z = [s \in Sectors |-> IF s \in first .. last THEN g[s] ELSE stable[s]]
  <2>1. DOMAIN g \cup DOMAIN stable = Sectors /\ DOMAIN g = first .. last
    BY <1>2, <1>12
  <2> QED
    BY <1>13, <2>1 DEF Over
<1>15. \A s \in first .. last : g[s] = stable[s] \cup {<<s, v>>}
  BY <1>2, <1>12
<1>16. /\ z \in [Sectors -> SUBSET Values]
       /\ \A s \in Sectors : z[s] = IF s \in first .. last THEN stable[s] \cup {<<s, v>>} ELSE stable[s]
  BY <1>2, <1>14, <1>15
<1>17. vol' = w /\ stable' = z
  BY <1>8, <1>9, <1>12, <1>13
<1> QED
  BY <1>1, <1>3, <1>4, <1>5, <1>7, <1>8, <1>11, <1>16, <1>17

LEMMA WriteBase ==
    ASSUME BaseInv, NEW first \in Sectors, NEW last \in Sectors, NEW v \in 1 .. MaxVersion,
           WriteAt(first, last, v)
    PROVE  BaseInv'
<1>1. PICK f : f = WriteData(first, last, v)
  OBVIOUS
<1>2. /\ Plan(todo')
      /\ Range(todo') = {ChunkStep(f, k) : k \in LinesIn(f)} \cup {WrittenStep(first .. last)}
      /\ vol' \in [Sectors -> Values] /\ stable' \in [Sectors -> SUBSET Values]
      /\ unsure' = unsure \cup (first .. last)
  BY <1>1, WriteEffect
<1>3. \A t \in Range(todo') : t.do \in {"chunk", "written"}
  BY <1>2, ChunkStepDo DEF WrittenStep
<1>4. first .. last \in SUBSET Sectors
  BY BaseFacts, WriteDataFacts
<1>5. unsure' \in SUBSET Sectors /\ Call
  BY <1>2, <1>4, BaseFacts DEF WriteAt
<1> QED
  BY <1>2, <1>3, <1>5, CallBase

FlushedStep == [do |-> "flushed"]
SyncsOf(K) == {SyncStep(e.line) : e \in {x \in Held : x.line \in K}}

LEMMA FlushEffect ==
    ASSUME BaseInv, Flush
    PROVE  Plan(todo') /\ Range(todo') = SyncsOf(Lines) \cup {FlushedStep}
<1>1. cache \in Seq(Lined)
  BY BaseFacts DEF CacheOK
<1>2. PICK p : p = SyncSteps(Lines) /\ Plan(p) /\ Range(p) = SyncsOf(Lines)
  BY <1>1, SyncStepsFacts DEF SyncsOf
<1>3. PICK t \in Steps : t = FlushedStep /\ t.do = "flushed"
  BY StepSimple DEF FlushedStep
<1>4. PICK o : o = <<t>> /\ Plan(o) /\ Range(o) = {t}
  BY PlanOne
<1>5. \A x \in Range(p) : x.do = "sync"
  BY <1>2 DEF SyncsOf, SyncStep
<1>6. Precedes(p, o)
  BY <1>3, <1>4, <1>5 DEF Precedes, Before
<1>7. Plan(p \o o) /\ Range(p \o o) = Range(p) \cup Range(o)
  BY <1>2, <1>4, <1>6, PlanConcat
<1>8. todo' = p \o o
  BY <1>2, <1>3, <1>4 DEF Flush, FlushedStep
<1> QED
  BY <1>2, <1>3, <1>4, <1>7, <1>8

LEMMA FlushBase ==
    ASSUME BaseInv, Flush
    PROVE  BaseInv'
<1>1. Call /\ Plan(todo') /\ Range(todo') = SyncsOf(Lines) \cup {FlushedStep}
  BY FlushEffect DEF Flush
<1>2. vol' = vol /\ stable' = stable /\ unsure' = unsure
  BY DEF Flush, history
<1>3. \A t \in Range(todo') : t.do \in {"sync", "flushed"}
  BY <1>1 DEF SyncsOf, SyncStep, FlushedStep
<1>4. \A t \in Range(todo') : t.do = "sync" => \E e \in Held : e.line = t.line
  BY <1>1 DEF SyncsOf, SyncStep, FlushedStep
<1> QED
  BY <1>1, <1>2, <1>3, <1>4, CallBase, BaseFacts

DropStep(K, B, S) == [do |-> "drop", lines |-> K, blocks |-> B, sure |-> S]

\* discard_range of these sectors has begun.
Discards(first, last, K, B, D) ==
    /\ K = {LineOf(s) : s \in first .. last} /\ B = Covered(first, last)
    /\ Plan(todo') /\ first .. last \in SUBSET Sectors
    /\ \A b \in B : DeallocStep(b) \in D
    /\ \A t \in D : t = [do |-> "trim"] \/ \E b \in B : t = DeallocStep(b)
    /\ Range(todo') = SyncsOf(K) \cup D \cup {DropStep(K, B, (first .. last) \ unsure)}
    /\ vol' = vol /\ unsure' = unsure \cup (first .. last)
    /\ stable' \in [Sectors -> SUBSET Values]
    /\ \A s \in Sectors : stable'[s] = IF BlockOf(s) \in B THEN stable[s] \cup {Base(s)}
                                       ELSE stable[s]

LEMMA DiscardEffect ==
    ASSUME BaseInv, NEW first \in Sectors, NEW last \in Sectors, DiscardRange(first, last)
    PROVE  \E K \in SUBSET Lines, B \in SUBSET Blocks : \E D : Discards(first, last, K, B, D)
<1>1. /\ geom \in Setups /\ cache \in Seq(Lined) /\ stable \in [Sectors -> SUBSET Values]
      /\ unsure \in SUBSET Sectors
  BY BaseFacts DEF CacheOK
<1>2. first .. last \in SUBSET Sectors
  BY <1>1, GeomType DEF Sectors
<1>3. PICK K \in SUBSET Lines : K = {LineOf(s) : s \in first .. last}
  <2>1. \A s \in first .. last : LineOf(s) \in Lines
    BY <1>1, <1>2, SectorFacts
  <2>2. PICK K : K = {LineOf(s) : s \in first .. last}
    OBVIOUS
  <2>3. K \in SUBSET Lines
    BY <2>1, <2>2
  <2> QED
    BY <2>2, <2>3
<1>4. PICK B \in SUBSET Blocks : B = Covered(first, last)
  BY <1>1, DiscardStepsFacts
<1>5. PICK p : p = SyncSteps(K) /\ Plan(p) /\ Range(p) = SyncsOf(K)
  BY <1>1, SyncStepsFacts DEF SyncsOf
<1>6. PICK d : /\ d = DiscardSteps(first, last) /\ Plan(d)
               /\ \A b \in B : DeallocStep(b) \in Range(d)
               /\ \A t \in Range(d) : t = [do |-> "trim"] \/ \E b \in B : t = DeallocStep(b)
  BY <1>1, <1>4, DiscardStepsFacts
<1>7. PICK S \in SUBSET Sectors : S = (first .. last) \ unsure
  BY <1>2
<1>8. PICK t \in Steps : t = DropStep(K, B, S) /\ t.do = "drop"
  BY StepReturn DEF DropStep
<1>9. PICK o : o = <<t>> /\ Plan(o) /\ Range(o) = {t}
  BY PlanOne
<1>10. \A x \in Range(p) : x.do = "sync"
  BY <1>5 DEF SyncsOf, SyncStep
<1>11. \A x \in Range(d) : x.do \in {"dealloc", "trim"}
  BY <1>6 DEF DeallocStep
<1>12. Precedes(p, d)
  BY <1>10, <1>11 DEF Precedes, Before
<1>13. PICK q : q = p \o d /\ Plan(q) /\ Range(q) = Range(p) \cup Range(d)
  BY <1>5, <1>6, <1>12, PlanConcat
<1>14. Precedes(q, o)
  BY <1>8, <1>9, <1>10, <1>11, <1>13 DEF Precedes, Before
<1>15. Plan(q \o o) /\ Range(q \o o) = Range(q) \cup Range(o)
  BY <1>9, <1>13, <1>14, PlanConcat
<1>16. /\ todo' = q \o o /\ vol' = vol /\ unsure' = unsure \cup (first .. last)
       /\ stable' = [s \in Sectors |-> IF BlockOf(s) \in B THEN stable[s] \cup {Base(s)} ELSE stable[s]]
  BY <1>3, <1>4, <1>5, <1>6, <1>7, <1>8, <1>9, <1>13 DEF DiscardRange, DropStep
<1>17. PICK z : z = [s \in Sectors |-> IF BlockOf(s) \in B THEN stable[s] \cup {Base(s)} ELSE stable[s]]
  OBVIOUS
<1>18. /\ z \in [Sectors -> SUBSET Values]
       /\ \A s \in Sectors : z[s] = IF BlockOf(s) \in B THEN stable[s] \cup {Base(s)} ELSE stable[s]
  <2>1. \A s \in Sectors : Base(s) \in Values
    BY <1>1, ValueFacts
  <2> QED
    BY <1>1, <1>17, <2>1
<1>19. Range(todo') = SyncsOf(K) \cup Range(d) \cup {DropStep(K, B, (first .. last) \ unsure)}
  BY <1>5, <1>7, <1>8, <1>9, <1>13, <1>15, <1>16
<1>20. stable' = z
  BY <1>16, <1>17
<1>21. Plan(todo')
  BY <1>15, <1>16
<1>22. /\ stable' \in [Sectors -> SUBSET Values]
       /\ \A s \in Sectors : stable'[s] = IF BlockOf(s) \in B THEN stable[s] \cup {Base(s)}
                                          ELSE stable[s]
  BY <1>18, <1>20
<1>23. Discards(first, last, K, B, Range(d))
  BY <1>2, <1>3, <1>4, <1>6, <1>16, <1>19, <1>21, <1>22 DEF Discards
<1> QED
  BY <1>23

LEMMA DiscardBase ==
    ASSUME BaseInv, NEW first \in Sectors, NEW last \in Sectors, DiscardRange(first, last)
    PROVE  BaseInv'
<1>9. PICK K \in SUBSET Lines, B \in SUBSET Blocks : \E D : Discards(first, last, K, B, D)
  BY DiscardEffect
<1>0. PICK D : Discards(first, last, K, B, D)
  BY <1>9
<1>1. /\ Plan(todo') /\ first .. last \in SUBSET Sectors
      /\ (\A t \in D : t = [do |-> "trim"] \/ \E b \in B : t = DeallocStep(b))
      /\ Range(todo') = SyncsOf(K) \cup D \cup {DropStep(K, B, (first .. last) \ unsure)}
      /\ vol' = vol /\ unsure' = unsure \cup (first .. last)
      /\ stable' \in [Sectors -> SUBSET Values]
  BY <1>0 DEF Discards
<1>2. \A t \in Range(todo') : t \in SyncsOf(K) \/ t.do \in {"dealloc", "trim", "drop"}
  BY <1>1 DEF DeallocStep, DropStep
<1>3. \A t \in SyncsOf(K) : t.do = "sync" /\ \E e \in Held : e.line = t.line
  BY DEF SyncsOf, SyncStep
<1>4. Call /\ vol' \in [Sectors -> Values] /\ unsure' \in SUBSET Sectors
  BY <1>1, BaseFacts DEF DiscardRange
<1> QED
  BY <1>1, <1>2, <1>3, <1>4, CallBase

-----------------------------------------------------------------------------
(* Failures and open *)

\* At most one entry is being cleared.
LEMMA OneClear ==
    ASSUME Plan(todo), NEW t \in Work, NEW u \in Work, t.do = "clear", u.do = "clear"
    PROVE  t = u
<1>1. ~Before("clear", "clear")
  BY DEF Before, Storing
<1> QED
  BY <1>1, PlanApart DEF Work

\* The steps left stop with the error of a backend call.
LEMMA FailEffect ==
    ASSUME BaseInv, Fail
    PROVE  /\ geom \in Setups /\ geom' = geom /\ KeepDisk /\ status' = status /\ status = "open"
           /\ vol' = vol /\ stable' = stable /\ unsure' = unsure
           /\ geom.fault = "error" /\ faults \in Nat /\ faults < MaxFaults /\ faults' = faults + 1
           /\ todo' = <<>> /\ Plan(todo') /\ Range(todo') = {}
           /\ Has(Work, "evicted") => cache # <<>> /\ Last(cache) \in Held /\ cache' = Promoted(Last(cache))
           /\ ~Has(Work, "evicted") => cache' = cache
<1>1. /\ geom \in Setups /\ faults \in 0 .. MaxFaults /\ MaxFaults \in Nat /\ todo # <<>>
      /\ CacheOK(cache) /\ CacheInv(Work, cache) /\ status = "open"
  BY BaseFacts, GeomType DEF Fail
<1>2. /\ geom' = geom /\ KeepDisk /\ status' = status
      /\ vol' = vol /\ stable' = stable /\ unsure' = unsure
      /\ geom.fault = "error" /\ faults < MaxFaults /\ faults' = faults + 1 /\ todo' = <<>>
      /\ cache' = IF \E i \in DOMAIN todo : todo[i].do = "evicted" THEN Promoted(Last(cache)) ELSE cache
  BY DEF Fail, history
<1>3. Has(Work, "evicted") <=> \E i \in DOMAIN todo : todo[i].do = "evicted"
  BY DEF Has, Work, Range
<1>4. Has(Work, "evicted") => cache # <<>> /\ Last(cache) \in Held
  BY <1>1, FrontFacts DEF CacheInv
<1>5. PICK e : e = <<>> /\ Plan(e) /\ Range(e) = {}
  BY PlanNone
<1>6. faults \in Nat
  BY <1>1
<1> QED
  BY <1>1, <1>2, <1>3, <1>4, <1>5, <1>6

\* What the invariant says of the tables when no call is in progress.
LEMMA IdleMem ==
    ASSUME geom \in Setups, NEW m, NEW f, NEW n,
           \A b, c \in Blocks : m.table[b] # None /\ m.table[b] = m.table[c] => b = c,
           \A b \in Blocks : m.table[b] # None => m.table[b] \in m.used,
           m.used \subseteq 0 .. (m.allocated - 1),
           \E L \in SUBSET m.used : Cardinality(L) <= Lost(n) /\ m.used \subseteq Mapped(m.table) \cup L,
           m.allocated <= Cardinality(Blocks) + Lost(n),
           \A p \in Places : p >= f.len => f.data[p] = Zero
    PROVE  MemInv({}, m, f.len, f.data, n)
<1>1. Clearing({}) = {}
  BY DEF Clearing
<1> QED
  BY <1>1 DEF MemInv

LEMMA FailBase ==
    ASSUME BaseInv, Fail
    PROVE  BaseInv'
<1>1. /\ geom \in Setups /\ geom' = geom /\ KeepDisk /\ status' = status /\ status = "open"
      /\ vol' = vol /\ stable' = stable /\ unsure' = unsure
      /\ geom.fault = "error" /\ faults \in Nat /\ faults < MaxFaults /\ faults' = faults + 1
      /\ todo' = <<>> /\ Plan(todo') /\ Range(todo') = {}
      /\ Has(Work, "evicted") => cache # <<>> /\ Last(cache) \in Held /\ cache' = Promoted(Last(cache))
      /\ ~Has(Work, "evicted") => cache' = cache
  BY FailEffect
<1>2. /\ CacheOK(cache) /\ Len(cache) <= geom.lines /\ Plan(todo) /\ mem \in Maps
      /\ MemInv(Work, mem, file.len, file.data, faults)
      /\ mem.allocated \in Nat /\ MaxFaults \in Nat
  BY <1>1, BaseFacts, ImageFacts, GeomType
<1>3. CacheOK(cache') /\ Len(cache') <= geom.lines
  <2>1. CASE Has(Work, "evicted")
    <3>1. PICK e \in Held : e = Last(cache) /\ e \in Lined
      BY <1>1, <1>2, <2>1, HeldFacts DEF Held
    <3>2. CacheOK(Promoted(e)) /\ Len(Promoted(e)) = Len(cache)
      BY <1>2, <3>1, PromotedFacts
    <3>3. cache' = Promoted(e)
      BY <1>1, <2>1, <3>1
    <3> QED
      BY <1>2, <3>2, <3>3
  <2>2. CASE ~Has(Work, "evicted")
    BY <1>1, <1>2, <2>2
  <2> QED
    BY <2>1, <2>2
<1>4. PICK n : n = faults + 1 /\ n \in 0 .. MaxFaults
  BY <1>1, <1>2
<1>5. Lost(n) = n /\ Lost(faults) = faults
  BY <1>1 DEF Lost
<1>6. \E L \in SUBSET mem.used : Cardinality(L) <= Lost(n) /\ mem.used \subseteq Mapped(mem.table) \cup L
  <2>1. PICK L \in SUBSET mem.used :
          Cardinality(L) <= Lost(faults) /\ mem.used \subseteq Mapped(mem.table) \cup Clearing(Work) \cup L
    BY <1>2 DEF MemInv
  <2>2. IsFiniteSet(L) /\ Cardinality(L) \in Nat
    <3>1. mem.used \subseteq 0 .. mem.allocated
      BY <1>2 DEF MemInv
    <3> QED
      BY <1>2, <3>1, FiniteNumbers, FS_Subset, FS_CardinalityType
  <2>3. CASE Clearing(Work) = {}
    BY <1>1, <1>4, <1>5, <2>1, <2>2, <2>3
  <2>4. CASE Clearing(Work) # {}
    <3>1. PICK t \in Work : t.do = "clear"
      BY <2>4 DEF Clearing
    <3>2. Clearing(Work) = {t.slot} /\ t.slot \in mem.used
      BY <1>2, <3>1, OneClear DEF Clearing, MemInv
    <3>3. PICK k : k = t.slot
      OBVIOUS
    <3>4. IsFiniteSet(L \cup {k}) /\ Cardinality(L \cup {k}) <= Cardinality(L) + 1
      <4>1. PICK M : M = L \cup {k}
        OBVIOUS
      <4>2. IsFiniteSet(M) /\ Cardinality(M) = (IF k \in L THEN Cardinality(L) ELSE Cardinality(L) + 1)
        BY <2>2, <4>1, FS_AddElement
      <4>3. PICK j \in Nat : j = Cardinality(L)
        BY <2>2
      <4>4. Cardinality(M) <= j + 1
        BY <4>2, <4>3
      <4> QED
        BY <4>1, <4>2, <4>3, <4>4
    <3>5. Cardinality(L \cup {k}) \in Nat
      BY <3>4, FS_CardinalityType
    <3>6. Cardinality(L \cup {k}) <= Lost(n)
      BY <1>1, <1>4, <1>5, <2>1, <2>2, <3>4, <3>5
    <3>7. L \cup {k} \in SUBSET mem.used /\ mem.used \subseteq Mapped(mem.table) \cup (L \cup {k})
      BY <2>1, <3>2, <3>3
    <3> QED
      BY <3>6, <3>7
  <2> QED
    BY <2>3, <2>4
<1>7. mem.allocated <= Cardinality(Blocks) + Lost(n)
  <2>1. mem.allocated <= Cardinality(Blocks) + Lost(faults) /\ Cardinality(Blocks) \in Nat
    BY <1>2, SlotBound DEF MemInv
  <2> QED
    BY <1>1, <1>2, <1>4, <1>5, <2>1
<1>8. MemInv({}, mem, file.len, file.data, n)
  <2>1. /\ \A b, c \in Blocks : mem.table[b] # None /\ mem.table[b] = mem.table[c] => b = c
        /\ \A b \in Blocks : mem.table[b] # None => mem.table[b] \in mem.used
        /\ mem.used \subseteq 0 .. (mem.allocated - 1)
        /\ \A p \in Places : p >= file.len => file.data[p] = Zero
    BY <1>2 DEF MemInv
  <2> QED
    BY <1>1, <1>6, <1>7, <2>1, IdleMem
<1>9. \A c : CacheInv({}, c)
  BY QuietCache
<1>10. file' = file /\ mem' = mem /\ faults' = n
  BY <1>1, <1>4 DEF KeepDisk
<1>11. MemInv(Range(todo'), mem', file'.len, file'.data, faults')
  BY <1>1, <1>8, <1>10
<1>12. CacheInv(Range(todo'), cache')
  BY <1>1, <1>9
<1>13. Typed(file', mem', todo', cache', status', vol', stable', unsure', faults')
  BY <1>1, <1>3, <1>4, <1>10, BaseFacts DEF Typed
<1> QED
  BY <1>1, <1>11, <1>12, <1>13, SameTyped, SameMem, SameCache DEF BaseInv

LEMMA EmptyFacts == Plan(<<>>) /\ Range(<<>>) = {} /\ CacheOK(<<>>) /\ Len(<<>>) = 0
<1>1. Plan(<<>>) /\ Range(<<>>) = {}
  BY PlanNone
<1>2. Len(<<>>) = 0 /\ DOMAIN <<>> = {}
  OBVIOUS
<1>3. PICK e \in Seq(Lined) : e = <<>> /\ DOMAIN e = {}
  BY <1>2, EmptySeq
<1>4. CacheOK(e)
  BY <1>3 DEF CacheOK
<1> QED
  BY <1>1, <1>2, <1>3, <1>4

LEMMA NewFacts ==
    ASSUME geom \in Setups
    PROVE  /\ NewImage \in Images /\ Loaded(NewImage) \in Maps
           /\ Loaded(NewImage).used = {} /\ Loaded(NewImage).allocated = 0
           /\ NewImage.allocated = 0 /\ NewImage.len = 0 /\ NewImage.table = Loaded(NewImage).table
           /\ \A b \in Blocks : NewImage.table[b] = None
           /\ \A p \in Places : NewImage.data[p] = Zero
<1>1. PICK f : f = NewImage
  OBVIOUS
<1>2. /\ f.allocated = 0 /\ f.len = 0 /\ f.table = [b \in Blocks |-> None]
      /\ f.data = [p \in Places |-> Zero] /\ f \in Images
  BY <1>1, ImageFacts, ValueFacts, GeomType DEF NewImage, Images
<1>3. Mapped(f.table) = {}
  BY <1>2 DEF Mapped
<1>4. PICK m : m = [allocated |-> f.allocated, table |-> f.table, used |-> Mapped(f.table)]
  OBVIOUS
<1>5. m \in Maps /\ m.used = {} /\ m.allocated = 0 /\ m.table = f.table
  BY <1>2, <1>3, <1>4, GeomType DEF Maps
<1>6. Loaded(NewImage) = m
  BY <1>1, <1>4 DEF Loaded
<1> QED
  BY <1>1, <1>2, <1>5, <1>6

\* Memory of a new image.
LEMMA NewMem ==
    ASSUME geom \in Setups, NEW n \in 0 .. MaxFaults, NEW f, \A p \in Places : p >= f.len => f.data[p] = Zero
    PROVE  MemInv({}, Loaded(NewImage), f.len, f.data, n)
<1>1. PICK m : m = Loaded(NewImage)
  OBVIOUS
<1>2. m.used = {} /\ m.allocated = 0 /\ \A b \in Blocks : m.table[b] = None
  BY <1>1, NewFacts
<1>3. Lost(n) \in Nat /\ Cardinality(Blocks) \in Nat
  BY GeomType, BlocksFinite DEF Lost
<1>4. \E L \in SUBSET m.used : Cardinality(L) <= Lost(n) /\ m.used \subseteq Mapped(m.table) \cup L
  <2>1. {} \in SUBSET m.used /\ Cardinality({}) = 0 /\ m.used \subseteq Mapped(m.table) \cup {}
    BY <1>2, FS_EmptySet
  <2> QED
    BY <1>3, <2>1
<1>5. m.allocated <= Cardinality(Blocks) + Lost(n)
  BY <1>2, <1>3
<1>6. MemInv({}, m, f.len, f.data, n)
  BY <1>2, <1>4, <1>5, IdleMem
<1> QED
  BY <1>1, <1>6

LEMMA CrashBase ==
    ASSUME BaseInv, Crash
    PROVE  BaseInv'
<1>1. /\ geom' = geom /\ status' = "crashed" /\ vol' = vol /\ stable' = stable /\ unsure' = unsure
      /\ faults < MaxFaults /\ faults' = faults + 1 /\ file' = file
      /\ todo' = <<>> /\ cache' = <<>> /\ mem' = Loaded(NewImage)
  BY DEF Crash, history
<1>2. /\ geom \in Setups /\ faults \in 0 .. MaxFaults /\ MaxFaults \in Nat /\ file \in Images
      /\ \A p \in Places : p >= file.len => file.data[p] = Zero
  BY BaseFacts, GeomType DEF MemInv
<1>3. PICK n \in 0 .. MaxFaults : n = faults + 1
  BY <1>1, <1>2
<1>4. PICK e : e = <<>> /\ Plan(e) /\ Range(e) = {} /\ CacheOK(e) /\ Len(e) = 0
  BY EmptyFacts
<1>5. MemInv({}, Loaded(NewImage), file.len, file.data, n)
  BY <1>2, NewMem
<1>6. CacheInv({}, e)
  BY QuietCache
<1>7. MemInv(Range(todo'), mem', file'.len, file'.data, faults')
  BY <1>1, <1>3, <1>4, <1>5
<1>8. CacheInv(Range(todo'), cache')
  BY <1>1, <1>4, <1>6
<1>9. Len(e) <= geom.lines
  BY <1>2, <1>4, GeomType
<1>10. Typed(file', mem', todo', cache', status', vol', stable', unsure', faults')
  <2>1. PICK m \in Maps : m = mem'
    BY <1>1, <1>2, NewFacts
  <2>2. Typed(file, m, e, e, "crashed", vol, stable, unsure, n)
    BY <1>2, <1>4, <1>9, BaseFacts DEF Typed
  <2> QED
    BY <1>1, <1>3, <1>4, <2>1, <2>2
<1> QED
  BY <1>1, <1>2, <1>7, <1>8, <1>10, SameTyped, SameMem, SameCache DEF BaseInv

\* What open builds from an image it accepts.
LEMMA OpenFacts ==
    ASSUME geom \in Setups, NEW f \in Images, Opens(f)
    PROVE  /\ Loaded(f) \in Maps /\ Loaded(f).table = f.table /\ Loaded(f).allocated = f.allocated
           /\ Loaded(f).used = Mapped(f.table)
           /\ \A b \in Blocks : f.table[b] # None => f.table[b] \in Mapped(f.table)
           /\ Mapped(f.table) \subseteq 0 .. (f.allocated - 1)
           /\ \A b, c \in Blocks : f.table[b] # None /\ f.table[b] = f.table[c] => b = c
           /\ f.allocated <= Cardinality(Blocks)
<1>1. /\ f.allocated \in 0 .. MaxSlots /\ f.table \in [Blocks -> Slots \cup {None}]
      /\ f.allocated \in Nat /\ \A b \in Blocks : f.table[b] # None => f.table[b] \in Slots /\ f.table[b] \in Nat
  BY ImageFacts
<1>2. /\ f.allocated <= Cardinality(Blocks)
      /\ \A b \in Blocks : f.table[b] # None => f.table[b] < f.allocated
      /\ \A b, c \in Blocks : b # c /\ f.table[b] # None => f.table[b] # f.table[c]
  BY DEF Opens
<1>3. \A b \in Blocks : f.table[b] # None => f.table[b] \in Mapped(f.table)
  BY DEF Mapped
<1>4. Mapped(f.table) \subseteq 0 .. (f.allocated - 1) /\ Mapped(f.table) \in SUBSET Slots
  <2>1. \A b \in Blocks : f.table[b] # None => f.table[b] \in 0 .. (f.allocated - 1) /\ f.table[b] \in Slots
    BY <1>1, <1>2
  <2> QED
    BY <2>1 DEF Mapped
<1>5. PICK m : m = [allocated |-> f.allocated, table |-> f.table, used |-> Mapped(f.table)]
  OBVIOUS
<1>6. m \in Maps /\ m.table = f.table /\ m.allocated = f.allocated /\ m.used = Mapped(f.table)
  BY <1>1, <1>4, <1>5 DEF Maps
<1>7. Loaded(f) = m
  BY <1>5 DEF Loaded
<1> QED
  BY <1>2, <1>3, <1>4, <1>6, <1>7

LEMMA ReopenEffect ==
    ASSUME BaseInv, Reopen
    PROVE  /\ geom \in Setups /\ geom' = geom /\ file' = file /\ faults' = faults
           /\ todo' = <<>> /\ cache' = <<>> /\ status' = "open"
           /\ mem' = Loaded(file) /\ Opens(file)
           /\ vol' \in [Sectors -> Values] /\ stable' \in [Sectors -> SUBSET Values] /\ unsure' = {}
           /\ \A s \in Sectors : /\ vol'[s] = At(file.table, file.data, s)
                                 /\ stable'[s] = {At(file.table, file.data, s)}
<1>1. /\ geom' = geom /\ file' = file /\ todo' = todo /\ cache' = cache /\ faults' = faults
      /\ status = "crashed" /\ status' = "open" /\ mem' = Loaded(file) /\ Opens(file) /\ unsure' = {}
      /\ vol' = [s \in Sectors |-> Stored(file.table, s)]
      /\ stable' = [s \in Sectors |-> {Stored(file.table, s)}]
  BY DEF Reopen
<1>2. geom \in Setups /\ file \in Images /\ todo = <<>> /\ cache = <<>>
  BY <1>1, BaseFacts
<1>3. \A s \in Sectors : Stored(file.table, s) \in Values /\ Stored(file.table, s) = At(file.table, file.data, s)
  <2> SUFFICES ASSUME NEW s \in Sectors
               PROVE  Stored(file.table, s) \in Values /\ Stored(file.table, s) = At(file.table, file.data, s)
    OBVIOUS
  <2>1. BlockOf(s) \in Blocks /\ file.data \in [Places -> Values] /\ Base(s) \in Values
    BY <1>2, SectorFacts, ImageFacts, ValueFacts
  <2>2. file.table[BlockOf(s)] # None => file.table[BlockOf(s)] \in Slots
    BY <1>2, <2>1, ImageFacts
  <2>3. file.table[BlockOf(s)] # None => Place(file.table[BlockOf(s)], s) \in Places
    BY <1>2, <2>2, PlaceFacts
  <2> QED
    BY <2>1, <2>3 DEF Stored, At
<1>4. vol' \in [Sectors -> Values] /\ stable' \in [Sectors -> SUBSET Values]
  BY <1>1, <1>3
<1> QED
  BY <1>1, <1>2, <1>3, <1>4

LEMMA ReopenBase ==
    ASSUME BaseInv, Reopen
    PROVE  BaseInv'
<1>1. /\ geom \in Setups /\ geom' = geom /\ file' = file /\ faults' = faults
      /\ todo' = <<>> /\ cache' = <<>> /\ status' = "open"
      /\ mem' = Loaded(file) /\ Opens(file)
      /\ vol' \in [Sectors -> Values] /\ stable' \in [Sectors -> SUBSET Values] /\ unsure' = {}
  BY ReopenEffect
<1>2. file \in Images /\ faults \in 0 .. MaxFaults
      /\ \A p \in Places : p >= file.len => file.data[p] = Zero
  BY BaseFacts DEF MemInv
<1>3. PICK m \in Maps :
        /\ m = Loaded(file) /\ m.table = file.table /\ m.used = Mapped(m.table)
        /\ \A b \in Blocks : m.table[b] # None => m.table[b] \in m.used
        /\ m.used \subseteq 0 .. (m.allocated - 1)
        /\ \A b, c \in Blocks : m.table[b] # None /\ m.table[b] = m.table[c] => b = c
        /\ m.allocated <= Cardinality(Blocks)
  BY <1>1, <1>2, OpenFacts
<1>4. Lost(faults) \in Nat /\ Cardinality(Blocks) \in Nat /\ m.allocated \in Nat
  BY <1>1, SlotBound, ImageFacts
<1>5. \E L \in SUBSET m.used : Cardinality(L) <= Lost(faults) /\ m.used \subseteq Mapped(m.table) \cup L
  <2>1. {} \in SUBSET m.used /\ Cardinality({}) = 0 /\ m.used \subseteq Mapped(m.table) \cup {}
    BY <1>3, FS_EmptySet
  <2> QED
    BY <1>4, <2>1
<1>6. m.allocated <= Cardinality(Blocks) + Lost(faults)
  BY <1>3, <1>4
<1>7. MemInv({}, m, file.len, file.data, faults)
  BY <1>1, <1>2, <1>3, <1>5, <1>6, IdleMem
<1>8. PICK e : e = <<>> /\ Plan(e) /\ Range(e) = {} /\ CacheOK(e) /\ Len(e) = 0
  BY EmptyFacts
<1>9. CacheInv({}, e)
  BY QuietCache
<1>10. MemInv(Range(todo'), mem', file'.len, file'.data, faults')
  BY <1>1, <1>3, <1>7, <1>8
<1>11. CacheInv(Range(todo'), cache')
  BY <1>1, <1>8, <1>9
<1>12. Len(e) <= geom.lines
  BY <1>1, <1>8, GeomType
<1>13. Typed(file', mem', todo', cache', status', vol', stable', unsure', faults')
  BY <1>1, <1>2, <1>3, <1>8, <1>12 DEF Typed
<1> QED
  BY <1>1, <1>10, <1>11, <1>13, SameTyped, SameMem, SameCache DEF BaseInv

LEMMA InitBase == Init => BaseInv
<1> SUFFICES ASSUME Init PROVE BaseInv
  OBVIOUS
<1>1. /\ geom \in Setups /\ file = NewImage /\ mem = Loaded(NewImage) /\ todo = <<>> /\ cache = <<>>
      /\ status = "open" /\ vol = [s \in Sectors |-> Base(s)]
      /\ stable = [s \in Sectors |-> {Base(s)}] /\ unsure = {} /\ faults = 0
  BY DEF Init
<1>2. \A s \in Sectors : Base(s) \in Values
  BY <1>1, ValueFacts
<1>3. vol \in [Sectors -> Values] /\ stable \in [Sectors -> SUBSET Values]
  BY <1>1, <1>2
<1>4. faults \in 0 .. MaxFaults
  BY <1>1, GeomType
<1>5. file \in Images /\ mem \in Maps /\ \A p \in Places : p >= file.len => file.data[p] = Zero
  BY <1>1, NewFacts
<1>6. PICK e : e = <<>> /\ Plan(e) /\ Range(e) = {} /\ CacheOK(e) /\ Len(e) = 0
  BY EmptyFacts
<1>7. MemInv({}, mem, file.len, file.data, faults)
  BY <1>1, <1>4, <1>5, NewMem
<1>8. CacheInv({}, cache)
  BY QuietCache
<1>9. Work = {}
  BY <1>1, <1>6 DEF Work
<1>10. Len(e) <= geom.lines
  BY <1>1, <1>6, GeomType
<1>11. Typed(file, mem, todo, cache, status, vol, stable, unsure, faults)
  BY <1>1, <1>3, <1>4, <1>5, <1>6, <1>10 DEF Typed
<1> QED
  BY <1>1, <1>7, <1>8, <1>9, <1>11 DEF BaseInv

LEMMA StutterBase ==
    ASSUME BaseInv, UNCHANGED vars
    PROVE  BaseInv'
<1>1. /\ geom' = geom /\ file' = file /\ mem' = mem /\ todo' = todo /\ cache' = cache
      /\ status' = status /\ vol' = vol /\ stable' = stable /\ unsure' = unsure /\ faults' = faults
  BY DEF vars, history
<1>2. Range(todo') = Work
  BY <1>1 DEF Work
<1>3. /\ Typed(file', mem', todo', cache', status', vol', stable', unsure', faults')
      /\ MemInv(Range(todo'), mem', file'.len, file'.data, faults') /\ CacheInv(Range(todo'), cache')
      /\ geom \in Setups
  BY <1>1, <1>2 DEF BaseInv
<1> QED
  BY <1>1, <1>3, SameTyped, SameMem, SameCache DEF BaseInv

LEMMA BaseInvNext == BaseInv /\ [Next]_vars => BaseInv'
<1> SUFFICES ASSUME BaseInv, [Next]_vars PROVE BaseInv'
  OBVIOUS
<1>1. CASE DiskStep /\ UNCHANGED geom /\ KeepCache
  BY <1>1, DiskBase
<1>2. CASE CacheStep
  BY <1>2, CacheBase
<1>3. CASE \E s \in Sectors : ReadAt(s)
  BY <1>3, ReadBase
<1>4. CASE \E first, last \in Sectors, v \in 1..MaxVersion : first <= last /\ WriteAt(first, last, v)
  BY <1>4, WriteBase
<1>5. CASE Flush
  BY <1>5, FlushBase
<1>6. CASE \E first, last \in Sectors : first <= last /\ DiscardRange(first, last)
  BY <1>6, DiscardBase
<1>7. CASE Fail
  BY <1>7, FailBase
<1>8. CASE Crash
  BY <1>8, CrashBase
<1>9. CASE Reopen
  BY <1>9, ReopenBase
<1>10. CASE UNCHANGED vars
  BY <1>10, StutterBase
<1> QED
  BY <1>1, <1>2, <1>3, <1>4, <1>5, <1>6, <1>7, <1>8, <1>9, <1>10 DEF Next

\* The disk stack keeps its types whatever is read, written, flushed or
\* discarded and whatever fails: no table entry leaves the slots, no cache
\* holds more than max_cached_blocks lines or a line of another size, and
\* ensure_block_allocated never runs out of the slots that the blocks and the
\* failures account for (SparseDisk, BlockCachedDisk).
THEOREM DiskTypeCorrect == Spec => []TypeOK
<1>1. Spec => []BaseInv
  BY InitBase, BaseInvNext, PTL DEF Spec
<1> QED
  BY <1>1, BaseInvType, PTL

-----------------------------------------------------------------------------
(* What the steps that write the file do to it *)

LEMMA HeaderEffect ==
    ASSUME BaseInv, WriteHeader
    PROVE  /\ Step \in Steps /\ Step.do = "header" /\ Work = {Step} \cup Rest /\ Range(todo') = Rest
           /\ mem' = mem /\ file'.allocated = mem.allocated
           /\ file'.table = file.table /\ file'.data = file.data /\ file'.len = file.len
<1>1. /\ Step \in Steps /\ Step.do = "header" /\ Work = {Step} \cup Rest /\ Range(todo') = Rest
  BY Spend DEF WriteHeader
<1>2. mem' = mem /\ file' = [file EXCEPT !.allocated = mem.allocated] /\ file \in Images
  BY BaseFacts DEF WriteHeader
<1> QED
  BY <1>1, <1>2 DEF Images

LEMMA EntryEffect ==
    ASSUME BaseInv, WriteEntry
    PROVE  \E b \in Blocks :
             /\ Step \in Steps /\ Step.do = "entry" /\ Step.block = b
             /\ Work = {Step} \cup Rest /\ Range(todo') = Rest /\ mem' = mem
             /\ (\A u \in Rest : Before("entry", u.do))
             /\ file'.table = [file.table EXCEPT ![b] = mem.table[b]]
             /\ file'.allocated = file.allocated /\ file'.data = file.data /\ file'.len = file.len
<1>1. /\ Step \in Steps /\ Step.do = "entry" /\ Work = {Step} \cup Rest /\ Range(todo') = Rest
      /\ \A u \in Rest : Before("entry", u.do)
  BY Spend DEF WriteEntry
<1>2. PICK b \in Blocks : b = Step.block
  BY <1>1, StepKinds
<1>3. mem' = mem /\ file' = [file EXCEPT !.table[b] = mem.table[b]] /\ file \in Images
  BY <1>2, BaseFacts DEF WriteEntry
<1> QED
  BY <1>1, <1>2, <1>3 DEF Images

\* Beyond its end the file is zero already.
LEMMA GrowEffect ==
    ASSUME BaseInv, Grow
    PROVE  \E k \in Slots :
             /\ Step \in Steps /\ Step.do = "grow" /\ Step.slot = k
             /\ Work = {Step} \cup Rest /\ Range(todo') = Rest /\ mem' = mem
             /\ (\A u \in Rest : Before("grow", u.do))
             /\ file'.table = file.table /\ file'.allocated = file.allocated /\ file'.data = file.data
             /\ file'.len \in Nat /\ End(k + 1) <= file'.len /\ file.len <= file'.len
<1>1. /\ Step \in Steps /\ Step.do = "grow" /\ Work = {Step} \cup Rest /\ Range(todo') = Rest
      /\ \A u \in Rest : Before("grow", u.do)
  BY Spend DEF Grow
<1>2. PICK k \in Slots : k = Step.slot
  BY <1>1, StepKinds
<1>3. /\ geom \in Setups /\ file \in Images /\ file.len \in Nat
      /\ \A p \in Places : p >= file.len => file.data[p] = Zero
  BY BaseFacts, ImageFacts DEF MemInv
<1>4. PICK n \in 0 .. End(MaxSlots) : n = End(k + 1) /\ n \in Nat
  <2>1. k + 1 \in Nat /\ MaxSlots \in Nat /\ k + 1 <= MaxSlots
    BY <1>2, <1>3, ImageFacts, GeomType
  <2>2. PICK z \in Sectors : z = 0
    BY <1>3, GeomType DEF Sectors
  <2> QED
    BY <1>3, <2>1, <2>2, PlaceFacts
<1>5. file' = (IF n > file.len THEN Resize(file, n) ELSE file) /\ mem' = mem
  BY <1>2, <1>4 DEF Grow
<1>6. CASE n > file.len
  <2>1. PICK g \in Images : g = Resize(file, n)
    BY <1>3, ResizeFacts
  <2>2. /\ g.len = n /\ g.table = file.table /\ g.allocated = file.allocated
        /\ \A p \in Places : g.data[p] = IF p < n THEN file.data[p] ELSE Zero
    BY <1>3, <2>1, ResizeFacts
  <2>3. \A p \in Places : p \in Nat
    BY DEF Places
  <2>4. g.data \in [Places -> Values] /\ file.data \in [Places -> Values]
    BY <1>3, ImageFacts
  <2>5. \A p \in Places : g.data[p] = file.data[p]
    BY <1>3, <1>4, <1>6, <2>2, <2>3
  <2>6. g.data = file.data
    BY <2>4, <2>5
  <2>7. file' = g
    BY <1>5, <1>6, <2>1
  <2> QED
    BY <1>1, <1>2, <1>3, <1>4, <1>5, <1>6, <2>2, <2>6, <2>7
<1>7. CASE ~(n > file.len)
  BY <1>1, <1>2, <1>3, <1>4, <1>5, <1>7
<1> QED
  BY <1>6, <1>7

\* What a put writes, and where.
LEMMA PutEffect ==
    ASSUME BaseInv, PutSector
    PROVE  \E s \in Sectors, v \in Values, k \in Slots :
             /\ Step \in Steps /\ Step.do = "put" /\ Step.sector = s /\ Step.value = v
             /\ Work = {Step} \cup Rest /\ Range(todo') = Rest /\ mem' = mem
             /\ mem.table[BlockOf(s)] = k
             /\ file'.table = file.table /\ file'.allocated = file.allocated
             /\ file'.data = [file.data EXCEPT ![Place(k, s)] = v] /\ Place(k, s) \in Places
             /\ file'.len \in Nat /\ file.len <= file'.len
<1>1. file \in Images /\ mem \in Maps /\ geom \in Setups
  BY BaseFacts
<1>2. PICK s \in Sectors, v \in Values, k \in Slots :
        /\ s = Step.sector /\ v = Step.value /\ k = mem.table[BlockOf(s)]
        /\ Place(k, s) \in Places /\ Place(k, s) \in Nat
  BY PutPlace
<1>3. PICK p : p = Place(k, s)
  OBVIOUS
<1>4. /\ Step \in Steps /\ Step.do = "put" /\ Work = {Step} \cup Rest /\ Range(todo') = Rest
  BY Spend DEF PutSector
<1>5. file.len \in Nat /\ file.data \in [Places -> Values]
  BY <1>1, ImageFacts
<1>6. PICK n : n = IF p < file.len THEN file.len ELSE p + 1
  OBVIOUS
<1>7. n \in Nat /\ file.len <= n
  BY <1>2, <1>3, <1>5, <1>6
<1>8. PICK g : g = [file EXCEPT !.data[p] = v, !.len = n]
  OBVIOUS
<1>9. /\ g.len = n /\ g.data = [file.data EXCEPT ![p] = v]
      /\ g.table = file.table /\ g.allocated = file.allocated
  BY <1>1, <1>8 DEF Images
<1>10. file' = g /\ mem' = mem
  BY <1>2, <1>3, <1>6, <1>8 DEF PutSector
<1> QED
  BY <1>2, <1>3, <1>4, <1>7, <1>9, <1>10

\* What is cut off lies beyond the slots of the header.
LEMMA TruncateEffect ==
    ASSUME BaseInv, Truncate
    PROVE  /\ Step \in Steps /\ Step.do = "truncate" /\ Work = {Step} \cup Rest /\ Range(todo') = Rest
           /\ (\A u \in Rest : u.do = "drop") /\ mem' = mem
           /\ file'.table = file.table /\ file'.allocated = file.allocated
           /\ file'.len \in Nat
           /\ file'.len = file.len \/ file'.len = End(mem.allocated)
           /\ \A p \in Places : p < End(mem.allocated) => file'.data[p] = file.data[p]
<1>1. /\ Step \in Steps /\ Step.do = "truncate" /\ Work = {Step} \cup Rest /\ Range(todo') = Rest
      /\ \A u \in Rest : Before("truncate", u.do)
  BY Spend DEF Truncate
<1>2. \A u \in Rest : u.do = "drop"
  BY <1>1, AfterTrim
<1>3. /\ geom \in Setups /\ file \in Images /\ mem \in Maps /\ file.len \in Nat
  BY BaseFacts, ImageFacts
<1>4. PICK n \in 0 .. End(MaxSlots) : n = End(mem.allocated) /\ n \in Nat
  <2>1. mem.allocated \in Nat /\ MaxSlots \in Nat /\ mem.allocated <= MaxSlots
    BY <1>3, ImageFacts, GeomType
  <2>2. PICK z \in Sectors : z = 0
    BY <1>3, GeomType DEF Sectors
  <2> QED
    BY <1>3, <2>1, <2>2, PlaceFacts
<1>5. file' = (IF n < file.len THEN Resize(file, n) ELSE file) /\ mem' = mem
  BY <1>4 DEF Truncate
<1>6. CASE n < file.len
  <2>1. PICK g \in Images : g = Resize(file, n)
    BY <1>3, ResizeFacts
  <2>2. /\ g.len = n /\ g.table = file.table /\ g.allocated = file.allocated
        /\ \A p \in Places : g.data[p] = IF p < n THEN file.data[p] ELSE Zero
    BY <1>3, <2>1, ResizeFacts
  <2>3. file' = g
    BY <1>5, <1>6, <2>1
  <2> QED
    BY <1>1, <1>2, <1>4, <1>5, <2>2, <2>3
<1>7. CASE ~(n < file.len)
  BY <1>1, <1>2, <1>3, <1>5, <1>7
<1> QED
  BY <1>6, <1>7

-----------------------------------------------------------------------------
(* The tables in memory and on file *)

LEMMA SameSlot ==
    ASSUME geom' = geom, SlotInv(Range(todo'), mem', file')
    PROVE  SlotInv(Work, mem, file)'
  BY SameGeom DEF SlotInv, Work, Has, End

Tabling == {"header", "entry", "grow", "clear"}

\* The tables are as they were and so are the steps that are about them.
LEMMA SlotQuiet ==
    ASSUME SlotInv(Work, mem, file), NEW U, NEW f, f.table = file.table, f.allocated = file.allocated,
           f.len = file.len,
           \A t \in U : t.do \in Tabling => t \in Work,
           \A t \in Work : t.do \in Tabling => t \in U
    PROVE  SlotInv(U, mem, f)
<1>1. /\ \A t \in U : t.do \in {"header", "entry", "grow", "clear"} => t \in Work
      /\ \A t \in Work : t.do \in {"header", "entry", "grow", "clear"} => t \in U
  BY DEF Tabling
<1>2. /\ Has(U, "header") <=> Has(Work, "header")
      /\ Has(U, "entry") <=> Has(Work, "entry")
      /\ Has(U, "grow") <=> Has(Work, "grow")
  BY <1>1 DEF Has
<1>3. \A b \in Blocks : \/ f.table[b] = mem.table[b]
                        \/ \E t \in U : t.do \in {"entry", "clear"} /\ t.block = b
  BY <1>1 DEF SlotInv
<1>4. \A t \in U : t.do = "grow" =>
          \/ t.slot + 1 = mem.allocated
          \/ ~Has(U, "header") /\ End(f.allocated) <= f.len
  BY <1>1, <1>2 DEF SlotInv
<1>5. \A t \in U : t.do = "clear" => f.table[t.block] = t.slot
  BY <1>1 DEF SlotInv
<1> QED
  BY <1>2, <1>3, <1>4, <1>5 DEF SlotInv

LEMMA NumberFacts ==
    ASSUME BaseInv
    PROVE  /\ mem.allocated \in Nat /\ file.allocated \in Nat /\ file.len \in Nat
           /\ Cardinality(Blocks) \in Nat
           /\ End(mem.allocated) \in Nat /\ End(file.allocated) \in Nat
           /\ mem.allocated <= file.allocated => End(mem.allocated) <= End(file.allocated)
           /\ ~Failed => mem.allocated <= Cardinality(Blocks) /\ mem.used \subseteq Mapped(mem.table) \cup Clearing(Work)
<1>1. /\ geom \in Setups /\ file \in Images /\ mem \in Maps /\ faults \in 0 .. MaxFaults
      /\ MemInv(Work, mem, file.len, file.data, faults) /\ MaxFaults \in Nat
  BY BaseFacts, GeomType
<1>2. mem.allocated \in Nat /\ file.allocated \in Nat /\ file.len \in Nat /\ mem.used \in SUBSET Slots
      /\ mem.allocated \in 0 .. MaxSlots
  BY <1>1, ImageFacts
<1>3. Cardinality(Blocks) \in Nat
  BY SlotBound
<1>4. PICK z \in Sectors : z = 0
  BY <1>1, GeomType DEF Sectors
<1>5. /\ End(mem.allocated) \in Nat /\ End(file.allocated) \in Nat
      /\ mem.allocated <= file.allocated => End(mem.allocated) <= End(file.allocated)
  BY <1>1, <1>2, <1>4, PlaceFacts
<1>6. ASSUME ~Failed
      PROVE  mem.allocated <= Cardinality(Blocks) /\ mem.used \subseteq Mapped(mem.table) \cup Clearing(Work)
  <2>1. Lost(faults) = 0
    BY <1>1, <1>6 DEF Failed, Lost
  <2>2. mem.allocated <= Cardinality(Blocks)
    BY <1>1, <1>2, <1>3, <2>1 DEF MemInv
  <2>3. PICK L \in SUBSET mem.used :
          Cardinality(L) <= 0 /\ mem.used \subseteq Mapped(mem.table) \cup Clearing(Work) \cup L
    BY <1>1, <2>1 DEF MemInv
  <2>4. IsFiniteSet(L) /\ Cardinality(L) \in Nat
    <3>1. mem.used \subseteq 0 .. mem.allocated
      BY <1>1, <1>2 DEF MemInv
    <3> QED
      BY <1>2, <2>3, <3>1, FiniteNumbers, FS_Subset, FS_CardinalityType
  <2>5. L = {}
    <3>1. Cardinality(L) = 0
      BY <2>3, <2>4
    <3> QED
      BY <2>4, <3>1, FS_EmptySet
  <2> QED
    BY <2>2, <2>3, <2>5
<1> QED
  BY <1>2, <1>3, <1>5, <1>6

LEMMA HeaderSlot ==
    ASSUME BaseInv, SlotInv(Work, mem, file), WriteHeader
    PROVE  SlotInv(Range(todo'), mem', file')
<1>1. /\ Step.do = "header" /\ Work = {Step} \cup Rest /\ Range(todo') = Rest
      /\ mem' = mem /\ file'.allocated = mem.allocated
      /\ file'.table = file.table /\ file'.data = file.data /\ file'.len = file.len
  BY HeaderEffect
<1>2. /\ mem.allocated \in Nat /\ file.allocated \in Nat /\ file.len \in Nat /\ Cardinality(Blocks) \in Nat
      /\ End(mem.allocated) \in Nat /\ End(file.allocated) \in Nat
      /\ mem.allocated <= file.allocated => End(mem.allocated) <= End(file.allocated)
  BY NumberFacts
<1>3. Has(Work, "header")
  BY <1>1 DEF Has
<1>4. /\ Has(Rest, "entry") <=> Has(Work, "entry")
      /\ Has(Rest, "grow") <=> Has(Work, "grow")
  BY <1>1 DEF Has
<1>5. PICK f : f = file'
  OBVIOUS
<1>6. ~Has(Rest, "grow") => mem.allocated <= Cardinality(Blocks) /\ End(mem.allocated) <= file.len
  BY <1>2, <1>3, <1>4 DEF SlotInv
<1>7. \A t \in Rest : t.do = "grow" => t.slot + 1 = mem.allocated
  BY <1>1, <1>3 DEF SlotInv
<1>8. \A b \in Blocks : \/ file.table[b] = mem.table[b]
                        \/ \E t \in Rest : t.do \in {"entry", "clear"} /\ t.block = b
  BY <1>1 DEF SlotInv
<1>9. \A t \in Rest : t.do = "clear" => file.table[t.block] = t.slot
  BY <1>1 DEF SlotInv
<1>10. Has(Rest, "entry") => Has(Rest, "grow")
  BY <1>4 DEF SlotInv
<1>11. SlotInv(Rest, mem, f)
  BY <1>1, <1>2, <1>5, <1>6, <1>7, <1>8, <1>9, <1>10 DEF SlotInv
<1> QED
  BY <1>1, <1>5, <1>11

LEMMA EntrySlot ==
    ASSUME BaseInv, SlotInv(Work, mem, file), WriteEntry
    PROVE  SlotInv(Range(todo'), mem', file')
<1>1. PICK b \in Blocks :
             /\ Step.do = "entry" /\ Step.block = b
             /\ Work = {Step} \cup Rest /\ Range(todo') = Rest /\ mem' = mem
             /\ (\A u \in Rest : Before("entry", u.do))
             /\ file'.table = [file.table EXCEPT ![b] = mem.table[b]]
             /\ file'.allocated = file.allocated /\ file'.data = file.data /\ file'.len = file.len
  BY EntryEffect
<1>2. PICK f : f = file'
  OBVIOUS
<1>3. \A u \in Rest : u.do \notin {"header", "entry", "clear"}
  BY <1>1 DEF Before, Storing
<1>4. Has(Work, "entry") /\ (Has(Work, "grow") <=> Has(Rest, "grow"))
  BY <1>1 DEF Has
<1>5. Has(Rest, "grow") /\ ~Has(Rest, "header") /\ ~Has(Work, "header") /\ ~Has(Rest, "entry")
  BY <1>1, <1>3, <1>4 DEF SlotInv, Has
<1>6. file.table \in [Blocks -> Slots \cup {None}]
  BY BaseFacts, ImageFacts
<1>7. \A c \in Blocks : f.table[c] = mem.table[c]
  <2> SUFFICES ASSUME NEW c \in Blocks, c # b PROVE f.table[c] = mem.table[c]
    BY <1>1, <1>2, <1>6
  <2>1. \A t \in Work : t.do \in {"entry", "clear"} => t.block = b
    BY <1>1, <1>3
  <2>2. file.table[c] = mem.table[c]
    BY <2>1 DEF SlotInv
  <2> QED
    BY <1>1, <1>2, <1>6, <2>2
<1>8. \A t \in Rest : t.do = "grow" =>
          \/ t.slot + 1 = mem.allocated
          \/ ~Has(Rest, "header") /\ End(f.allocated) <= f.len
  BY <1>1, <1>2, <1>5 DEF SlotInv
<1>9. f.allocated = mem.allocated
  BY <1>1, <1>2, <1>5 DEF SlotInv
<1>10. SlotInv(Rest, mem, f)
  BY <1>3, <1>5, <1>7, <1>8, <1>9 DEF SlotInv
<1> QED
  BY <1>1, <1>2, <1>10

LEMMA GrowSlot ==
    ASSUME BaseInv, SlotInv(Work, mem, file), Grow
    PROVE  SlotInv(Range(todo'), mem', file')
<1>1. PICK k \in Slots :
             /\ Step.do = "grow" /\ Step.slot = k
             /\ Work = {Step} \cup Rest /\ Range(todo') = Rest /\ mem' = mem
             /\ (\A u \in Rest : Before("grow", u.do))
             /\ file'.table = file.table /\ file'.allocated = file.allocated /\ file'.data = file.data
             /\ file'.len \in Nat /\ End(k + 1) <= file'.len /\ file.len <= file'.len
  BY GrowEffect
<1>2. PICK f : f = file'
  OBVIOUS
<1>3. \A u \in Rest : u.do \notin {"header", "entry", "grow", "clear"}
  BY <1>1 DEF Before, Storing
<1>4. ~Has(Rest, "header") /\ ~Has(Work, "header") /\ ~Has(Rest, "entry") /\ ~Has(Rest, "grow")
  BY <1>1, <1>3 DEF Has
<1>5. \A c \in Blocks : f.table[c] = mem.table[c]
  BY <1>1, <1>2, <1>3 DEF SlotInv
<1>6. f.allocated = mem.allocated /\ file.allocated = mem.allocated
  BY <1>1, <1>2, <1>4 DEF SlotInv
<1>7. End(f.allocated) <= f.len
  <2>1. k + 1 = mem.allocated \/ End(file.allocated) <= file.len
    BY <1>1 DEF SlotInv
  <2>2. CASE k + 1 = mem.allocated
    BY <1>1, <1>2, <1>6, <2>2
  <2>3. CASE End(file.allocated) <= file.len
    <3>1. PICK x \in Nat : x = End(file.allocated)
      BY NumberFacts
    <3>2. file.len \in Nat
      BY NumberFacts
    <3>3. x <= f.len
      BY <1>1, <1>2, <2>3, <3>1, <3>2
    <3> QED
      BY <1>1, <1>2, <3>1, <3>3
  <2> QED
    BY <2>1, <2>2, <2>3
<1>8. SlotInv(Rest, mem, f)
  BY <1>3, <1>4, <1>5, <1>6, <1>7 DEF SlotInv
<1> QED
  BY <1>1, <1>2, <1>8

LEMMA PutSlot ==
    ASSUME BaseInv, SlotInv(Work, mem, file), PutSector
    PROVE  SlotInv(Range(todo'), mem', file')
<1>1. /\ Step.do = "put" /\ Work = {Step} \cup Rest /\ Range(todo') = Rest /\ mem' = mem
      /\ file'.table = file.table /\ file'.allocated = file.allocated
      /\ file'.len \in Nat /\ file.len <= file'.len
  BY PutEffect
<1>2. PICK f : f = [table |-> file.table, allocated |-> file.allocated, len |-> file.len]
  OBVIOUS
<1>3. SlotInv(Rest, mem, f)
  <2>1. \A t \in Work : t.do \in Tabling => t \in Rest
    BY <1>1 DEF Tabling
  <2> QED
    BY <1>1, <1>2, <2>1, SlotQuiet
<1>4. file.len \in Nat /\ file.allocated \in Nat
  BY NumberFacts
<1>5. PICK x \in Nat : x = End(file.allocated)
  BY NumberFacts
<1>6. PICK g : g = file'
  OBVIOUS
<1>7. g.table = f.table /\ g.allocated = f.allocated /\ (End(f.allocated) <= f.len => End(g.allocated) <= g.len)
  BY <1>1, <1>2, <1>4, <1>5, <1>6
<1>8. SlotInv(Rest, mem, g)
  BY <1>3, <1>7 DEF SlotInv
<1> QED
  BY <1>1, <1>6, <1>8

LEMMA CowSlot ==
    ASSUME BaseInv, SlotInv(Work, mem, file), CowWrite
    PROVE  SlotInv(Range(todo'), mem', file')
<1>1. PICK b \in Blocks, c \in Chunks :
             /\ Step.do = "cow" /\ Work = {Step} \cup Rest
             /\ (\A u \in Rest : Before("cow", u.do)) /\ file' = file
             /\ CowOver(b, c) \/ \E k \in Slots : \E H : CowNew(b, c, k, H)
  BY CowEffect
<1>2. \A u \in Work : u.do \notin {"header", "entry", "grow", "clear"}
  BY <1>1, AfterCow
<1>3. ~Has(Work, "header") /\ ~Has(Work, "grow")
  BY <1>2 DEF Has
<1>4. /\ file.allocated = mem.allocated /\ End(file.allocated) <= file.len
      /\ \A d \in Blocks : file.table[d] = mem.table[d]
  BY <1>2, <1>3 DEF SlotInv
<1>5. CASE CowOver(b, c)
  <2>1. mem' = mem /\ Range(todo') = {Put(s, c[s], FALSE) : s \in DOMAIN c} \cup Rest
    BY <1>5 DEF CowOver
  <2>2. PICK U : U = Range(todo')
    OBVIOUS
  <2>3. \A t \in U : t.do \notin {"header", "entry", "grow", "clear"}
    BY <1>1, <1>2, <2>1, <2>2 DEF Put
  <2>4. SlotInv(U, mem, file)
    BY <1>2, <2>3, SlotQuiet DEF Tabling
  <2> QED
    BY <1>1, <2>1, <2>2, <2>4
<1>6. ASSUME NEW k \in Slots, NEW H, CowNew(b, c, k, H)
      PROVE  SlotInv(Range(todo'), mem', file')
  <2>1. GivesSlot(b, k, H, mem') /\ Range(todo') = NewSteps(b, k, H, c) \cup Rest
    BY <1>6 DEF CowNew
  <2>2. PICK m, U : m = mem' /\ U = Range(todo')
    OBVIOUS
  <2>3. PICK et, gt, P : et = [do |-> "entry", block |-> b] /\ gt = [do |-> "grow", slot |-> k]
                         /\ P = {Put(s, Filled(s, c), TRUE) : s \in SectorsOf(b)}
    OBVIOUS
  <2>4. /\ et.do = "entry" /\ et.block = b /\ gt.do = "grow" /\ gt.slot = k
        /\ \A t \in P : t.do = "put"
    BY <2>3 DEF Put
  <2>5. U = H \cup {et, gt} \cup P \cup Rest
    BY <2>1, <2>2, <2>3 DEF NewSteps
  <2>6. /\ \A d \in Blocks : d # b => m.table[d] = mem.table[d]
        /\ \/ m.allocated = mem.allocated /\ H = {}
           \/ k = mem.allocated /\ m.allocated = mem.allocated + 1 /\ H = {[do |-> "header"]}
    BY <2>1, <2>2, BaseFacts, ImageFacts DEF GivesSlot
  <2>7. \A t \in H : t.do = "header"
    BY <2>6
  <2>8. \A t \in U : /\ t.do = "entry" => t = et
                     /\ t.do = "grow" => t = gt
                     /\ t.do # "clear"
                     /\ t.do = "header" => t \in H
    BY <1>1, <1>2, <2>4, <2>5, <2>7
  <2>9. Has(U, "grow") /\ (Has(U, "header") <=> H # {})
    BY <2>4, <2>5, <2>7, <2>8 DEF Has
  <2>10. \A d \in Blocks : \/ file.table[d] = m.table[d]
                           \/ \E t \in U : t.do \in {"entry", "clear"} /\ t.block = d
    <3> SUFFICES ASSUME NEW d \in Blocks PROVE \/ file.table[d] = m.table[d]
                           \/ \E t \in U : t.do \in {"entry", "clear"} /\ t.block = d
      OBVIOUS
    <3>1. CASE d = b
      BY <2>4, <2>5, <3>1
    <3>2. CASE d # b
      BY <1>4, <2>6, <3>2
    <3> QED
      BY <3>1, <3>2
  <2>11. ~Has(U, "header") => file.allocated = m.allocated
    BY <1>4, <2>6, <2>9
  <2>12. k + 1 = m.allocated \/ (~Has(U, "header") /\ End(file.allocated) <= file.len)
    BY <1>4, <2>6, <2>9
  <2>13. SlotInv(U, m, file)
    BY <2>4, <2>8, <2>9, <2>10, <2>11, <2>12 DEF SlotInv
  <2> QED
    BY <1>1, <2>2, <2>13
<1> QED
  BY <1>1, <1>5, <1>6

LEMMA DeallocSlot ==
    ASSUME BaseInv, SlotInv(Work, mem, file), DeallocateBlock
    PROVE  SlotInv(Range(todo'), mem', file')
<1>1. PICK b \in Blocks :
             /\ Step.do = "dealloc" /\ Work = {Step} \cup Rest
             /\ (\A u \in Rest : u.do \in {"dealloc", "trim", "drop"})
             /\ file' = file
             /\ mem'.table = [mem.table EXCEPT ![b] = None]
             /\ mem'.used = mem.used /\ mem'.allocated = mem.allocated
             /\ Range(todo') = (IF mem.table[b] = None THEN {} ELSE {ClearStep(b, mem.table[b])})
                               \cup Rest
  BY DeallocEffect
<1>2. PICK m, U, cs : m = mem' /\ U = Range(todo') /\ cs = ClearStep(b, mem.table[b])
  OBVIOUS
<1>3. cs.do = "clear" /\ cs.block = b /\ cs.slot = mem.table[b]
  BY <1>2 DEF ClearStep
<1>4. \A u \in Work : u.do \notin {"header", "entry", "grow", "clear"}
  BY <1>1
<1>5. ~Has(Work, "header") /\ ~Has(Work, "grow")
  BY <1>4 DEF Has
<1>6. /\ file.allocated = mem.allocated /\ End(file.allocated) <= file.len
      /\ \A d \in Blocks : file.table[d] = mem.table[d]
  BY <1>4, <1>5 DEF SlotInv
<1>7. \A t \in U : /\ t.do \notin {"header", "entry", "grow"}
                   /\ t.do = "clear" => t = cs /\ mem.table[b] # None
  BY <1>1, <1>2, <1>3
<1>8. ~Has(U, "header") /\ ~Has(U, "grow") /\ ~Has(U, "entry")
  BY <1>7 DEF Has
<1>9. \A d \in Blocks : \/ file.table[d] = m.table[d]
                        \/ \E t \in U : t.do \in {"entry", "clear"} /\ t.block = d
  <2> SUFFICES ASSUME NEW d \in Blocks PROVE \/ file.table[d] = m.table[d]
                           \/ \E t \in U : t.do \in {"entry", "clear"} /\ t.block = d
    OBVIOUS
  <2>1. mem.table \in [Blocks -> Slots \cup {None}]
    BY BaseFacts, ImageFacts
  <2>2. CASE d = b /\ mem.table[b] # None
    BY <1>1, <1>2, <1>3, <2>2
  <2>3. CASE d # b \/ mem.table[b] = None
    BY <1>1, <1>2, <1>6, <2>1, <2>3
  <2> QED
    BY <2>2, <2>3
<1>10. \A t \in U : t.do = "clear" => file.table[t.block] = t.slot
  BY <1>3, <1>6, <1>7
<1>11. SlotInv(U, m, file)
  BY <1>1, <1>2, <1>6, <1>7, <1>8, <1>9, <1>10 DEF SlotInv
<1> QED
  BY <1>1, <1>2, <1>11

LEMMA ClearSlot ==
    ASSUME BaseInv, SlotInv(Work, mem, file), ClearEntry
    PROVE  SlotInv(Range(todo'), mem', file')
<1>1. PICK b \in Blocks, k \in Slots :
             /\ Step \in Work /\ Step.do = "clear" /\ Step.block = b /\ Step.slot = k
             /\ Work = {Step} \cup Rest
             /\ (\A u \in Rest : u.do \in {"dealloc", "trim", "drop"})
             /\ Range(todo') = Rest
             /\ mem'.table = mem.table /\ mem'.allocated = mem.allocated
             /\ file'.table = [file.table EXCEPT ![b] = None]
             /\ file'.len = file.len /\ file'.allocated = file.allocated
  BY ClearEffect
<1>2. PICK m, f : m = mem' /\ f = file'
  OBVIOUS
<1>3. mem.table[b] = None
  BY <1>1, BaseFacts DEF MemInv
<1>4. \A u \in Work : u.do \notin {"header", "entry", "grow"} /\ (u.do = "clear" => u.block = b)
  BY <1>1
<1>5. ~Has(Work, "header") /\ ~Has(Work, "grow") /\ ~Has(Rest, "header") /\ ~Has(Rest, "grow")
      /\ ~Has(Rest, "entry")
  BY <1>1, <1>4 DEF Has
<1>6. /\ file.allocated = mem.allocated /\ End(file.allocated) <= file.len
      /\ \A d \in Blocks : d # b => file.table[d] = mem.table[d]
  BY <1>4, <1>5 DEF SlotInv
<1>7. file.table \in [Blocks -> Slots \cup {None}]
  BY BaseFacts, ImageFacts
<1>8. \A d \in Blocks : f.table[d] = m.table[d]
  BY <1>1, <1>2, <1>3, <1>6, <1>7
<1>9. SlotInv(Rest, m, f)
  BY <1>1, <1>2, <1>5, <1>6, <1>8 DEF SlotInv
<1> QED
  BY <1>1, <1>2, <1>9

LEMMA TrimSlot ==
    ASSUME BaseInv, ~Failed, SlotInv(Work, mem, file), Trim
    PROVE  SlotInv(Range(todo'), mem', file')
<1>1. PICK n \in 0 .. MaxSlots :
             /\ Step.do = "trim" /\ Work = {Step} \cup Rest
             /\ (\A u \in Rest : u.do = "drop")
             /\ file' = file
             /\ mem'.table = mem.table /\ mem'.used = mem.used /\ mem'.allocated = n
             /\ n <= mem.allocated /\ mem.used \subseteq 0 .. (n - 1)
             /\ Range(todo') = (IF n = mem.allocated THEN {}
                                ELSE {[do |-> "header"], [do |-> "truncate"]}) \cup Rest
  BY TrimEffect
<1>2. PICK m, U : m = mem' /\ U = Range(todo')
  OBVIOUS
<1>3. \A u \in Work : u.do \notin {"header", "entry", "grow", "clear"}
  BY <1>1
<1>4. ~Has(Work, "header") /\ ~Has(Work, "grow")
  BY <1>3 DEF Has
<1>5. /\ file.allocated = mem.allocated /\ End(file.allocated) <= file.len
      /\ \A d \in Blocks : file.table[d] = mem.table[d]
  BY <1>3, <1>4 DEF SlotInv
<1>6. mem.allocated <= Cardinality(Blocks)
  BY NumberFacts
<1>7. \A t \in U : t.do \in {"header", "truncate", "drop"} /\ (t.do = "header" => n # mem.allocated)
  BY <1>1, <1>2
<1>8. (Has(U, "header") <=> n # mem.allocated) /\ ~Has(U, "grow") /\ ~Has(U, "entry")
  <2>1. PICK h : h = [do |-> "header"]
    OBVIOUS
  <2>2. n # mem.allocated => h \in U /\ h.do = "header"
    BY <1>1, <1>2, <2>1
  <2> QED
    BY <1>7, <2>2 DEF Has
<1>9. SlotInv(U, m, file)
  BY <1>1, <1>2, <1>5, <1>6, <1>7, <1>8 DEF SlotInv
<1> QED
  BY <1>1, <1>2, <1>9

LEMMA TruncateSlot ==
    ASSUME BaseInv, SlotInv(Work, mem, file), Truncate
    PROVE  SlotInv(Range(todo'), mem', file')
<1>1. /\ Step.do = "truncate" /\ Work = {Step} \cup Rest /\ Range(todo') = Rest
      /\ (\A u \in Rest : u.do = "drop") /\ mem' = mem
      /\ file'.table = file.table /\ file'.allocated = file.allocated
      /\ file'.len \in Nat
      /\ file'.len = file.len \/ file'.len = End(mem.allocated)
  BY TruncateEffect
<1>2. PICK f : f = file'
  OBVIOUS
<1>3. \A u \in Work : u.do \notin {"header", "entry", "grow", "clear"}
  BY <1>1
<1>4. /\ ~Has(Work, "header") /\ ~Has(Work, "grow")
      /\ ~Has(Rest, "header") /\ ~Has(Rest, "grow") /\ ~Has(Rest, "entry")
  BY <1>1, <1>3 DEF Has
<1>5. /\ file.allocated = mem.allocated /\ End(file.allocated) <= file.len
      /\ \A d \in Blocks : file.table[d] = mem.table[d]
  BY <1>3, <1>4 DEF SlotInv
<1>6. End(f.allocated) <= f.len
  <2>1. PICK x \in Nat : x = End(mem.allocated)
    BY NumberFacts
  <2> QED
    BY <1>1, <1>2, <1>5, <2>1
<1>7. SlotInv(Rest, mem, f)
  BY <1>1, <1>2, <1>3, <1>4, <1>5, <1>6 DEF SlotInv
<1> QED
  BY <1>1, <1>2, <1>7

\* A step of the cache neither finds nor leaves a step that writes the tables.
LEMMA CacheKinds ==
    ASSUME BaseInv, CacheStep
    PROVE  /\ KeepDisk /\ geom' = geom /\ status' = status /\ faults' = faults
           /\ \A t \in Work \cup Range(todo') :
                 t.do \notin {"header", "entry", "grow", "put", "clear", "truncate"}
<1>1. KeepDisk /\ geom' = geom /\ status' = status /\ faults' = faults
  BY DEF CacheStep, LoadLine, WriteChunk, Evict, Evicted, InsertEntry, SyncLine, CleanLine, FlushReturns,
         DropLines, WriteReturns, CacheOnly
<1>2. ASSUME NEW k PROVE EvictStep.do = "evict" /\ EvictedStep.do = "evicted" /\ CleanStep(k).do = "clean"
  BY DEF EvictStep, EvictedStep, CleanStep
<1>3. ASSUME NEW e PROVE InsertStep(e).do = "insert"
  BY DEF InsertStep
<1>4. ASSUME NEW e \in Held PROVE \A t \in CowSteps(e) : t.do = "cow"
  BY BaseFacts, HeldFacts, CowStepsFacts DEF Held
<1>5. CASE LoadLine
  <2>1. PICK k \in Lines :
          /\ Step.do = "load" /\ Work = {Step}
          /\ Range(todo') = {} \/ Range(todo') = {EvictStep, InsertStep(LoadEntry(k))}
    BY <1>5, LoadEffect
  <2> QED
    BY <2>1, <1>1, <1>2, <1>3
<1>6. CASE WriteChunk
  <2>1. PICK k \in Lines :
          /\ Step.do = "chunk" /\ Work = {Step} \cup Rest
          /\ (\A u \in Rest : u.do \in {"chunk", "written"})
          /\ \/ Range(todo') = Rest
             \/ \E x \in Lined : Range(todo') = {EvictStep, InsertStep(x)} \cup Rest
             \/ Range(todo') = {EvictStep, InsertStep(LoadEntry(k)), Step} \cup Rest
    BY <1>6, ChunkEffect
  <2>2. \A t \in Range(todo') : t.do \in {"chunk", "written", "evict", "insert"}
    BY <2>1, <1>2, <1>3
  <2> QED
    BY <2>1, <2>2, <1>1
<1>7. CASE Evict
  <2>1. /\ Work = {EvictStep} \cup Rest
        /\ (\A u \in Rest : u.do \in {"insert", "chunk", "written"})
        /\ \/ Range(todo') = Rest
           \/ Range(todo') = Work
           \/ /\ cache # <<>> /\ Range(todo') = CowSteps(Last(cache)) \cup {EvictedStep} \cup Work
    BY <1>7, EvictEffect
  <2>2. cache # <<>> => Last(cache) \in Held
    BY BaseFacts, FrontFacts
  <2>3. \A t \in Range(todo') : t.do \in {"cow", "evicted", "evict", "insert", "chunk", "written"}
    BY <2>1, <2>2, <1>2, <1>4
  <2> QED
    BY <2>1, <2>3, <1>1, <1>2
<1>8. CASE Evicted
  BY <1>1, <1>8, EvictedEffect
<1>9. CASE InsertEntry
  BY <1>1, <1>9, InsertEffect
<1>10. CASE SyncLine
  <2>1. PICK e \in Held :
          /\ Step.do = "sync" /\ Work = {Step} \cup Rest /\ (\A u \in Rest : u.do \in SyncRest)
          /\ Range(todo') = (IF e.dirty THEN CowSteps(e) \cup {CleanStep(e.line)} ELSE {}) \cup Rest
    BY <1>10, SyncEffect
  <2>2. \A t \in Range(todo') : t.do \in {"cow", "clean"} \/ t.do \in SyncRest
    BY <2>1, <1>2, <1>4
  <2> QED
    BY <2>1, <2>2, <1>1 DEF SyncRest
<1>11. CASE CleanLine
  BY <1>1, <1>11, CleanEffect DEF SyncRest
<1>12. CASE FlushReturns
  <2>1. Work = {Step} /\ Step.do = "flushed" /\ Range(todo') = {}
    BY <1>12, LastEffect DEF FlushReturns
  <2> QED
    BY <2>1, <1>1
<1>13. CASE DropLines
  <2>1. Work = {Step} /\ Step.do = "drop" /\ Range(todo') = {}
    BY <1>13, LastEffect DEF DropLines
  <2> QED
    BY <2>1, <1>1
<1>14. CASE WriteReturns
  <2>1. Work = {Step} /\ Step.do = "written" /\ Range(todo') = {}
    BY <1>14, LastEffect DEF WriteReturns
  <2> QED
    BY <2>1, <1>1
<1> QED
  BY <1>5, <1>6, <1>7, <1>8, <1>9, <1>10, <1>11, <1>12, <1>13, <1>14 DEF CacheStep

Calling ==
    \/ \E s \in Sectors : ReadAt(s)
    \/ \E first, last \in Sectors, v \in 1..MaxVersion : first <= last /\ WriteAt(first, last, v)
    \/ Flush
    \/ \E first, last \in Sectors : first <= last /\ DiscardRange(first, last)

\* Neither does a call that begins.
LEMMA CallKinds ==
    ASSUME BaseInv, Calling
    PROVE  /\ KeepDisk /\ geom' = geom /\ status' = status /\ faults' = faults /\ Work = {} /\ cache' = cache
           /\ \A t \in Range(todo') :
                 t.do \in {"load", "chunk", "written", "sync", "flushed", "dealloc", "trim", "drop"}
<1>1. Call
  BY DEF Calling, ReadAt, WriteAt, Flush, DiscardRange
<1>2. KeepDisk /\ geom' = geom /\ status' = status /\ faults' = faults /\ Work = {} /\ cache' = cache
  BY <1>1, IdleFacts
<1>3. \A K : \A t \in SyncsOf(K) : t.do = "sync"
  BY DEF SyncsOf, SyncStep
<1>4. ASSUME NEW s \in Sectors, ReadAt(s) PROVE \A t \in Range(todo') : t.do = "load"
  <2>1. LoadStep(LineOf(s)).do = "load"
    BY DEF LoadStep
  <2> QED
    BY <1>4, <2>1, ReadEffect
<1>5. ASSUME NEW first \in Sectors, NEW last \in Sectors, NEW v \in 1..MaxVersion, WriteAt(first, last, v)
      PROVE  \A t \in Range(todo') : t.do \in {"chunk", "written"}
  <2>1. PICK f : /\ f = WriteData(first, last, v)
                 /\ Range(todo') = {ChunkStep(f, k) : k \in LinesIn(f)} \cup {WrittenStep(first .. last)}
    BY <1>5, WriteEffect
  <2>2. WrittenStep(first .. last).do = "written"
    BY DEF WrittenStep
  <2> QED
    BY <2>1, <2>2, ChunkStepDo
<1>6. ASSUME Flush PROVE \A t \in Range(todo') : t.do \in {"sync", "flushed"}
  <2>1. FlushedStep.do = "flushed"
    BY DEF FlushedStep
  <2> QED
    BY <1>3, <1>6, <2>1, FlushEffect
<1>7. ASSUME NEW first \in Sectors, NEW last \in Sectors, DiscardRange(first, last)
      PROVE  \A t \in Range(todo') : t.do \in {"sync", "dealloc", "trim", "drop"}
  <2>5. PICK K \in SUBSET Lines, B \in SUBSET Blocks : \E D : Discards(first, last, K, B, D)
    BY <1>7, DiscardEffect
  <2>1. PICK D : Discards(first, last, K, B, D)
    BY <2>5
  <2>2. /\ (\A t \in D : t = [do |-> "trim"] \/ \E b \in B : t = DeallocStep(b))
        /\ Range(todo') = SyncsOf(K) \cup D \cup {DropStep(K, B, (first .. last) \ unsure)}
    BY <2>1 DEF Discards
  <2>3. \A t \in Range(todo') : t \in SyncsOf(K) \/ t.do \in {"dealloc", "trim", "drop"}
    BY <2>2 DEF DeallocStep, DropStep
  <2> QED
    BY <1>3, <2>3
<1> QED
  BY <1>2, <1>4, <1>5, <1>6, <1>7 DEF Calling

SlotsOK == Sound => SlotInv(Work, mem, file)

LEMMA InitSlots == Init => SlotsOK
<1> SUFFICES ASSUME Init PROVE SlotInv(Work, mem, file)
  BY DEF SlotsOK
<1>1. geom \in Setups /\ file = NewImage /\ mem = Loaded(NewImage) /\ todo = <<>>
  BY DEF Init
<1>2. PICK e : e = <<>> /\ Range(e) = {}
  BY EmptyFacts
<1>3. Work = {}
  BY <1>1, <1>2 DEF Work
<1>4. /\ file.allocated = 0 /\ mem.allocated = 0 /\ file.len = 0 /\ file.table = mem.table
  BY <1>1, NewFacts
<1>5. End(0) <= 0
  <2>1. geom.block \in Nat
    BY <1>1, GeomType
  <2> QED
    BY <2>1 DEF End
<1> QED
  BY <1>3, <1>4, <1>5 DEF SlotInv, Has

\* An image that opens is the state of a disk at rest.
LEMMA ReopenSlot ==
    ASSUME BaseInv, Reopen
    PROVE  SlotInv(Range(todo'), mem', file')
<1>1. geom \in Setups /\ file' = file /\ todo' = <<>> /\ mem' = Loaded(file) /\ Opens(file) /\ file \in Images
  BY ReopenEffect, BaseFacts
<1>2. PICK e : e = <<>> /\ Range(e) = {}
  BY EmptyFacts
<1>3. PICK m : m = Loaded(file) /\ m.table = file.table /\ m.allocated = file.allocated
  BY <1>1, OpenFacts
<1>4. PICK x \in Nat : x = End(file.allocated)
  BY NumberFacts
<1>5. file.len >= x /\ file.len \in Nat
  BY <1>1, <1>4, NumberFacts DEF Opens
<1>6. End(file.allocated) <= file.len
  BY <1>4, <1>5
<1>7. SlotInv({}, m, file)
  BY <1>3, <1>6 DEF SlotInv, Has
<1> QED
  BY <1>1, <1>2, <1>3, <1>7

LEMMA SlotsNext == BaseInv /\ SlotsOK /\ [Next]_vars => SlotsOK'
<1> SUFFICES ASSUME BaseInv, SlotsOK, [Next]_vars PROVE SlotsOK'
  OBVIOUS
<1>1. ASSUME geom' = geom, Sound' => SlotInv(Range(todo'), mem', file')
      PROVE  SlotsOK'
  BY <1>1, SameSlot DEF SlotsOK
<1>2. ASSUME geom' = geom, status' = status, faults' = faults PROVE Sound' => Sound /\ SlotInv(Work, mem, file)
  BY <1>2 DEF Sound, Failed, SlotsOK
<1>3. CASE DiskStep /\ UNCHANGED geom /\ KeepCache
  <2>1. geom' = geom /\ status' = status /\ faults' = faults
    BY <1>3 DEF KeepCache
  <2>2. ASSUME Sound, SlotInv(Work, mem, file) PROVE SlotInv(Range(todo'), mem', file')
    <3>1. ~Failed
      BY <2>2 DEF Sound
    <3> QED
      BY <1>3, <2>2, <3>1, HeaderSlot, EntrySlot, GrowSlot, PutSlot, CowSlot, DeallocSlot, ClearSlot,
         TrimSlot, TruncateSlot DEF DiskStep
  <2> QED
    BY <1>1, <1>2, <2>1, <2>2
<1>4. CASE CacheStep
  <2>1. /\ KeepDisk /\ geom' = geom /\ status' = status /\ faults' = faults
        /\ \A t \in Work \cup Range(todo') : t.do \notin {"header", "entry", "grow", "clear"}
    BY <1>4, CacheKinds
  <2>2. PICK U : U = Range(todo')
    OBVIOUS
  <2>3. SlotInv(Work, mem, file) => SlotInv(U, mem, file)
    BY <2>1, <2>2, SlotQuiet DEF Tabling
  <2>4. mem' = mem /\ file' = file
    BY <2>1 DEF KeepDisk
  <2> QED
    BY <1>1, <1>2, <2>1, <2>2, <2>3, <2>4
<1>5. CASE Calling
  <2>1. /\ KeepDisk /\ geom' = geom /\ status' = status /\ faults' = faults /\ Work = {}
        /\ \A t \in Range(todo') : t.do \notin {"header", "entry", "grow", "clear"}
    BY <1>5, CallKinds
  <2>2. PICK U : U = Range(todo')
    OBVIOUS
  <2>3. SlotInv(Work, mem, file) => SlotInv(U, mem, file)
    BY <2>1, <2>2, SlotQuiet DEF Tabling
  <2>4. mem' = mem /\ file' = file
    BY <2>1 DEF KeepDisk
  <2> QED
    BY <1>1, <1>2, <2>1, <2>2, <2>3, <2>4
<1>6. CASE Fail
  <2>1. geom' = geom /\ geom.fault = "error" /\ faults \in Nat /\ faults' = faults + 1
    BY <1>6, FailEffect
  <2>2. Failed'
    BY <2>1 DEF Failed
  <2> QED
    BY <2>2 DEF SlotsOK, Sound
<1>7. CASE Crash
  <2>1. status' = "crashed"
    BY <1>7 DEF Crash
  <2> QED
    BY <2>1 DEF SlotsOK, Sound
<1>8. CASE Reopen
  BY <1>1, <1>8, ReopenSlot, ReopenEffect
<1>9. CASE UNCHANGED vars
  <2>1. /\ geom' = geom /\ file' = file /\ mem' = mem /\ todo' = todo /\ status' = status /\ faults' = faults
    BY <1>9 DEF vars
  <2>2. Range(todo') = Work
    BY <2>1 DEF Work
  <2> QED
    BY <1>1, <1>2, <2>1, <2>2
<1> QED
  BY <1>3, <1>4, <1>5, <1>6, <1>7, <1>8, <1>9 DEF Next, Calling

LEMMA DiskSlots == Spec => [](BaseInv /\ SlotsOK)
<1>1. BaseInv /\ SlotsOK /\ [Next]_vars => (BaseInv /\ SlotsOK)'
  BY BaseInvNext, SlotsNext
<1> QED
  BY <1>1, InitBase, InitSlots, PTL DEF Spec

\* What open would find is an image it accepts.
LEMMA SlotsOpen == BaseInv /\ SlotsOK => ImageOpens
<1> SUFFICES ASSUME BaseInv, SlotsOK, Sound, ~Has(Work, "grow") PROVE Opens(file)
  <2>1. Has(Work, "grow") <=> \E i \in DOMAIN todo : todo[i].do = "grow"
    BY DEF Has, Work, Range
  <2> QED
    BY <2>1 DEF ImageOpens, Sound
<1>1. SlotInv(Work, mem, file) /\ MemInv(Work, mem, file.len, file.data, faults) /\ Plan(todo)
      /\ geom \in Setups /\ mem \in Maps
  BY BaseFacts DEF SlotsOK
<1>2. /\ mem.allocated \in Nat /\ file.allocated \in Nat /\ file.len \in Nat /\ Cardinality(Blocks) \in Nat
      /\ End(file.allocated) \in Nat /\ mem.allocated <= Cardinality(Blocks)
  BY NumberFacts DEF Sound
<1>3. ~Has(Work, "entry") /\ End(file.allocated) <= file.len
      /\ mem.allocated <= file.allocated /\ file.allocated <= Cardinality(Blocks)
  BY <1>1, <1>2 DEF SlotInv
<1>4. \A b \in Blocks : \/ file.table[b] = mem.table[b]
                        \/ \E t \in Work : t.do = "clear" /\ t.block = b /\ file.table[b] = t.slot
                                           /\ t.slot \in mem.used /\ \A c \in Blocks : mem.table[c] # t.slot
  BY <1>1, <1>3 DEF SlotInv, MemInv, Has
<1>5. \A b \in Blocks : file.table[b] # None => file.table[b] \in mem.used
  BY <1>1, <1>4 DEF MemInv
<1>6. \A k \in mem.used : k < file.allocated
  <2>1. \A k \in mem.used : k \in 0 .. (mem.allocated - 1)
    BY <1>1 DEF MemInv
  <2> QED
    BY <1>2, <1>3, <2>1
<1>7. \A b, c \in Blocks : b # c /\ file.table[b] # None => file.table[b] # file.table[c]
  <2> SUFFICES ASSUME NEW b \in Blocks, NEW c \in Blocks, b # c, file.table[b] # None,
                      file.table[b] = file.table[c]
               PROVE  FALSE
    OBVIOUS
  <2>1. CASE file.table[b] = mem.table[b] /\ file.table[c] = mem.table[c]
    BY <1>1, <2>1 DEF MemInv
  <2>2. CASE file.table[b] # mem.table[b] /\ file.table[c] # mem.table[c]
    <3>1. PICK t \in Work, u \in Work : t.do = "clear" /\ t.block = b /\ u.do = "clear" /\ u.block = c
      BY <1>4, <2>2
    <3> QED
      BY <1>1, <3>1, OneClear
  <2>3. CASE file.table[b] = mem.table[b] /\ file.table[c] # mem.table[c]
    <3>1. PICK t \in Work : file.table[c] = t.slot /\ \A d \in Blocks : mem.table[d] # t.slot
      BY <1>4, <2>3
    <3> QED
      BY <2>3, <3>1
  <2>4. CASE file.table[b] # mem.table[b] /\ file.table[c] = mem.table[c]
    <3>1. PICK t \in Work : file.table[b] = t.slot /\ \A d \in Blocks : mem.table[d] # t.slot
      BY <1>4, <2>4
    <3> QED
      BY <2>4, <3>1
  <2> QED
    BY <2>1, <2>2, <2>3, <2>4
<1>8. file.len >= End(file.allocated)
  BY <1>2, <1>3
<1> QED
  BY <1>3, <1>5, <1>6, <1>7, <1>8 DEF Opens

LEMMA SlotsSame == BaseInv /\ SlotsOK => SlotsMirrored
<1> SUFFICES ASSUME BaseInv, SlotsOK, Idle, ~Failed
             PROVE  mem.table = file.table /\ mem.allocated = file.allocated /\ mem.used = Mapped(mem.table)
  BY DEF SlotsMirrored
<1>1. PICK e : e = <<>> /\ Range(e) = {}
  BY EmptyFacts
<1>2. Work = {} /\ Sound
  BY <1>1 DEF Work, Idle, Sound
<1>3. SlotInv({}, mem, file) /\ MemInv({}, mem, file.len, file.data, faults)
  BY <1>2, BaseFacts DEF SlotsOK
<1>4. mem.allocated = file.allocated /\ \A b \in Blocks : mem.table[b] = file.table[b]
  BY <1>3 DEF SlotInv, Has
<1>5. mem.table \in [Blocks -> Slots \cup {None}] /\ file.table \in [Blocks -> Slots \cup {None}]
  BY BaseFacts, ImageFacts
<1>6. mem.table = file.table
  BY <1>4, <1>5
<1>7. mem.used \subseteq Mapped(mem.table)
  BY <1>2, NumberFacts DEF Clearing
<1>8. Mapped(mem.table) \subseteq mem.used
  BY <1>3 DEF Mapped, MemInv
<1> QED
  BY <1>4, <1>6, <1>7, <1>8

\* Whenever the process dies, open accepts what is on the backend, except
\* between the header write and the set_len of one allocation: the order of the
\* backend calls in ensure_block_allocated, deallocate_block_inner and
\* trim_trailing_free_phys keeps the image valid at every point in between.
THEOREM DiskImageOpens == Spec => []ImageOpens
  BY DiskSlots, SlotsOpen, PTL

\* Between calls the file and memory have the same table and the same count,
\* and the slots in use are exactly the mapped ones: no sequence of writes,
\* evictions and discards loses a slot or gives it out twice (phys_used).
THEOREM DiskSlotsMirrored == Spec => []SlotsMirrored
  BY DiskSlots, SlotsSame, PTL

-----------------------------------------------------------------------------
(* What the sectors hold *)

DropOK == status = "open" => DropInv(Work, Held, mem.table, unsure)
DataOK ==
    status = "open" => DataInv(Work, Held, Last(cache), mem.table, file.data, vol, unsure, Lost(faults))

LEMMA SameSectors ==
    ASSUME geom' = geom
    PROVE  /\ \A b : SectorsOf(b)' = SectorsOf(b)
           /\ \A k, s : Place(k, s)' = Place(k, s)
           /\ \A tb, d, s : At(tb, d, s)' = At(tb, d, s)
  BY SameGeom DEF SectorsOf, Place, End, At, BlockOf

LEMMA SameDrop ==
    ASSUME geom' = geom, DropInv(Range(todo'), Range(cache'), mem'.table, unsure')
    PROVE  DropInv(Work, Held, mem.table, unsure)'
  BY SameGeom, SameSectors DEF DropInv, Work, Held

LEMMA SameSettles ==
    ASSUME geom' = geom
    PROVE  /\ \A T, tb, d, s, v : Settles(T, tb, d, s, v)' <=> Settles(T, tb, d, s, v)
           /\ \A T, E, tb, d, s, v : Good(T, E, tb, d, s, v)' <=> Good(T, E, tb, d, s, v)
           /\ \A T, un, v, s, n : Kept(T, un, v, s, n)' <=> Kept(T, un, v, s, n)
<1>1. \A T, tb, d, s, v : Settles(T, tb, d, s, v)' <=> Settles(T, tb, d, s, v)
  BY SameSectors DEF Settles
<1>2. \A T, E, tb, d, s, v : Good(T, E, tb, d, s, v)' <=> Good(T, E, tb, d, s, v)
  BY <1>1, SameGeom DEF Good
<1>3. \A T, un, v, s, n : Kept(T, un, v, s, n)' <=> Kept(T, un, v, s, n)
  BY SameGeom DEF Kept, Tracked
<1> QED
  BY <1>1, <1>2, <1>3

LEMMA SameData ==
    ASSUME geom' = geom,
           DataInv(Range(todo'), Range(cache'), Last(cache'), mem'.table, file'.data, vol', unsure', Lost(faults'))
    PROVE  DataInv(Work, Held, Last(cache), mem.table, file.data, vol, unsure, Lost(faults))'
  BY SameGeom, SameSettles DEF DataInv, Work, Held, Last, Lost

\* The steps that the cache still has to do.
Caching == {"evicted", "clean", "chunk", "insert", "drop", "written"}
SameCaching(T, U) == \A t : t.do \in Caching => (t \in U <=> t \in T)

LEMMA CachingSame ==
    ASSUME NEW T, NEW U, SameCaching(T, U)
    PROVE  /\ \A kind \in Caching : \A t : t.do = kind => (t \in U <=> t \in T)
           /\ \A kind \in Caching : Has(U, kind) <=> Has(T, kind)
           /\ \A s : Coming(U, s) <=> Coming(T, s)
           /\ \A un, v, s, n : Kept(U, un, v, s, n) <=> Kept(T, un, v, s, n)
<1>1. \A kind \in Caching : \A t : t.do = kind => (t \in U <=> t \in T)
  BY DEF SameCaching
<1>2. \A kind \in Caching : Has(U, kind) <=> Has(T, kind)
  BY <1>1 DEF Has
<1>3. "chunk" \in Caching /\ "insert" \in Caching /\ "drop" \in Caching /\ "written" \in Caching
  BY DEF Caching
<1>4. \A s : Coming(U, s) <=> Coming(T, s)
  BY <1>1, <1>3 DEF Coming
<1>5. \A un, s : Tracked(U, un, s) <=> Tracked(T, un, s)
  BY <1>1, <1>3, <1>4 DEF Tracked
<1>6. \A un, v, s, n : Kept(U, un, v, s, n) <=> Kept(T, un, v, s, n)
  BY <1>5 DEF Kept
<1> QED
  BY <1>1, <1>2, <1>4, <1>6

\* A step of the disk, which settles what was to be settled.
LEMMA DataKeep ==
    ASSUME NEW T, NEW U, NEW E, NEW l, NEW tb, NEW tc, NEW d, NEW c, NEW v, NEW un, NEW n,
           DataInv(T, E, l, tb, d, v, un, n), SameCaching(T, U),
           \A s \in Sectors : \A x : Settles(T, tb, d, s, x) => Settles(U, tc, c, s, x),
           \A s \in Sectors, w \in Values : Writes(U, s, w) => Writes(T, s, w) \/ w = Base(s),
           \A k : \A s \in InLine(k) : s \in Sectors
    PROVE  DataInv(U, E, l, tc, c, v, un, n)
<1>1. /\ \A kind \in Caching : \A t : t.do = kind => (t \in U <=> t \in T)
      /\ \A kind \in Caching : Has(U, kind) <=> Has(T, kind)
      /\ \A s : Kept(U, un, v, s, n) <=> Kept(T, un, v, s, n)
  BY CachingSame
<1>2. "evicted" \in Caching /\ "clean" \in Caching /\ "chunk" \in Caching /\ "insert" \in Caching
  BY DEF Caching
<1>3. \A s \in Sectors : Kept(U, un, v, s, n) => Good(U, E, tc, c, s, v[s])
  BY <1>1 DEF DataInv, Good
<1>4. Has(U, "evicted") => l.dirty /\ \A s \in InLine(l.line) : Settles(U, tc, c, s, l.data[s])
  BY <1>1, <1>2 DEF DataInv
<1>5. \A t \in U : t.do = "clean" => \A e \in E : e.line = t.line =>
          \A s \in InLine(e.line) : Settles(U, tc, c, s, e.data[s])
  BY <1>1, <1>2 DEF DataInv
<1>6. \A s \in Sectors, w \in Values : Writes(U, s, w) /\ w # Base(s) =>
          \E e \in E : e.line = LineOf(s) /\ e.dirty
  BY DEF DataInv
<1>7. \A t \in U : t.do = "chunk" => \A s \in DOMAIN t.data : t.data[s] = v[s]
  BY <1>1, <1>2 DEF DataInv
<1>8. \A t \in U : t.do = "insert" => \A s \in InLine(t.entry.line) :
          t.entry.dirty \/ Kept(U, un, v, s, n) => t.entry.data[s] = v[s]
  BY <1>1, <1>2 DEF DataInv
<1> QED
  BY <1>3, <1>4, <1>5, <1>6, <1>7, <1>8 DEF DataInv

\* A step of the disk does the same to the discard in progress.
LEMMA DropKeep ==
    ASSUME NEW T, NEW U, NEW E, NEW tb, NEW tc, NEW un, DropInv(T, E, tb, un),
           \A t : t.do \in {"drop", "sync", "clean", "dealloc", "flushed"} => (t \in U <=> t \in T),
           \A t \in U : t.do = "cow" => t \in T,
           \/ \A b \in Blocks : tc[b] = tb[b]
           \/ Has(T, "cow"),
           \A t \in T : t.do = "drop" => t.blocks \subseteq Blocks
    PROVE  DropInv(U, E, tc, un)
<1>1. ASSUME NEW t \in U, t.do = "drop"
      PROVE  /\ \A e \in E : e.line \in t.lines /\ e.dirty =>
                   \E u \in U : u.do \in {"sync", "clean"} /\ u.line = e.line
             /\ \A b \in t.blocks : \/ \E u \in U : u.do = "dealloc" /\ u.block = b
                                    \/ tc[b] = None /\ \A u \in U : u.do \notin {"sync", "cow"}
             /\ \A b \in t.blocks : \A s \in SectorsOf(b) : s \in un /\ LineOf(s) \in t.lines
             /\ \A s \in t.sure : LineOf(s) \in t.lines
  <2>1. t \in T
    BY <1>1
  <2>2. \A b \in t.blocks : b \in Blocks
    BY <1>1, <2>1
  <2>3. \A e \in E : e.line \in t.lines /\ e.dirty =>
                   \E u \in U : u.do \in {"sync", "clean"} /\ u.line = e.line
    BY <1>1, <2>1 DEF DropInv
  <2>4. /\ \A b \in t.blocks : \A s \in SectorsOf(b) : s \in un /\ LineOf(s) \in t.lines
        /\ \A s \in t.sure : LineOf(s) \in t.lines
    BY <1>1, <2>1 DEF DropInv
  <2>5. ASSUME NEW b \in t.blocks
        PROVE  \/ \E u \in U : u.do = "dealloc" /\ u.block = b
               \/ tc[b] = None /\ \A u \in U : u.do \notin {"sync", "cow"}
    <3>1. \/ \E u \in T : u.do = "dealloc" /\ u.block = b
          \/ tb[b] = None /\ \A u \in T : u.do \notin {"sync", "cow"}
      BY <1>1, <2>1 DEF DropInv
    <3>2. CASE \E u \in T : u.do = "dealloc" /\ u.block = b
      BY <3>2
    <3>3. CASE tb[b] = None /\ \A u \in T : u.do \notin {"sync", "cow"}
      BY <2>2, <3>3 DEF Has
    <3> QED
      BY <3>1, <3>2, <3>3
  <2> QED
    BY <2>3, <2>4, <2>5
<1>2. \A u \in U : u.do = "dealloc" => \E t \in U : t.do = "drop" /\ u.block \in t.blocks
  BY DEF DropInv
<1>3. \A t \in U : t.do = "flushed" => \A e \in E : e.dirty =>
          \E u \in U : u.do \in {"sync", "clean"} /\ u.line = e.line
  BY DEF DropInv
<1> QED
  BY <1>1, <1>2, <1>3 DEF DropInv

LEMMA WritesSame ==
    ASSUME NEW T, NEW U, \A t : t.do \in {"put", "cow"} => (t \in U <=> t \in T)
    PROVE  \A s, w : Writes(U, s, w) <=> Writes(T, s, w)
  BY DEF Writes

LEMMA WritesNone ==
    ASSUME NEW T, \A t \in T : t.do \notin {"put", "cow"}
    PROVE  \A s, w : ~Writes(T, s, w)
  BY DEF Writes

\* The blocks of a discard are blocks.
LEMMA DropBlocks ==
    ASSUME BaseInv
    PROVE  /\ \A t \in Work : t.do = "drop" => t.blocks \subseteq Blocks
           /\ \A k : \A s \in InLine(k) : s \in Sectors
<1>1. geom \in Setups /\ Plan(todo)
  BY BaseFacts
<1>2. \A t \in Work : t \in Steps
  BY <1>1, RangeOf DEF Plan, Work
<1>3. \A t \in Work : t.do = "drop" => t.blocks \subseteq Blocks
  BY <1>2 DEF Steps
<1> QED
  BY <1>1, <1>3, SectorFacts

Sectored == Caching \cup {"put", "cow", "sync", "dealloc", "flushed"}

\* A step of the disk that no sector sees.
LEMMA DiskQuiet ==
    ASSUME BaseInv, NEW E, NEW l, NEW v, NEW un, NEW n, DropInv(Work, E, mem.table, un),
           DataInv(Work, E, l, mem.table, file.data, v, un, n),
           NEW U, NEW c, \A t : t.do \in Sectored => (t \in U <=> t \in Work),
           \A s \in Sectors : At(mem.table, c, s) = At(mem.table, file.data, s)
    PROVE  DropInv(U, E, mem.table, un) /\ DataInv(U, E, l, mem.table, c, v, un, n)
<1>1. /\ \A t : t.do \in Caching => (t \in U <=> t \in Work)
      /\ \A t : t.do \in {"put", "cow"} => (t \in U <=> t \in Work)
      /\ \A t : t.do \in {"drop", "sync", "clean", "dealloc", "flushed"} => (t \in U <=> t \in Work)
      /\ \A t \in U : t.do = "cow" => t \in Work
  BY DEF Sectored, Caching
<1>2. SameCaching(Work, U)
  BY <1>1 DEF SameCaching
<1>3. \A s, w : Writes(U, s, w) <=> Writes(Work, s, w)
  BY <1>1, WritesSame
<1>4. \A s \in Sectors : \A x : Settles(Work, mem.table, file.data, s, x) => Settles(U, mem.table, c, s, x)
  BY <1>3 DEF Settles
<1>5. /\ \A t \in Work : t.do = "drop" => t.blocks \subseteq Blocks
      /\ \A k : \A s \in InLine(k) : s \in Sectors
  BY DropBlocks
<1>6. DropInv(U, E, mem.table, un)
  BY <1>1, <1>5, DropKeep
<1>7. DataInv(U, E, l, mem.table, c, v, un, n)
  BY <1>2, <1>3, <1>4, <1>5, DataKeep
<1> QED
  BY <1>6, <1>7

\* What is in the slots of the table survives a truncation.
LEMMA TruncateAt ==
    ASSUME BaseInv, Truncate, NEW s \in Sectors
    PROVE  At(mem.table, file'.data, s) = At(mem.table, file.data, s)
<1>1. geom \in Setups /\ mem \in Maps /\ MemInv(Work, mem, file.len, file.data, faults)
  BY BaseFacts
<1>2. PICK k : k = mem.table[BlockOf(s)]
  OBVIOUS
<1>3. CASE k = None
  BY <1>2, <1>3 DEF At
<1>4. CASE k # None
  <2>1. BlockOf(s) \in Blocks
    BY <1>1, SectorFacts
  <2>2. k \in Slots /\ k \in mem.used /\ k \in 0 .. (mem.allocated - 1) /\ mem.allocated \in Nat
    BY <1>1, <1>2, <1>4, <2>1, ImageFacts DEF MemInv
  <2>3. k \in Nat /\ k + 1 \in Nat /\ k + 1 <= mem.allocated
    BY <2>2
  <2>4. Place(k, s) \in Nat /\ Place(k, s) < End(k + 1) /\ End(k + 1) <= End(mem.allocated)
        /\ Place(k, s) \in Places /\ End(mem.allocated) \in Nat /\ End(k + 1) \in Nat
    BY <1>1, <2>2, <2>3, PlaceFacts
  <2>5. Place(k, s) < End(mem.allocated)
    BY <2>4
  <2>6. \A p \in Places : p < End(mem.allocated) => file'.data[p] = file.data[p]
    BY TruncateEffect
  <2> QED
    BY <1>2, <1>4, <2>4, <2>5, <2>6 DEF At
<1> QED
  BY <1>3, <1>4

\* What the steps of the disk mean to the sectors, for the entries E of the
\* cache, which they leave alone.
DataStep(U, E, l, tc, c, v, un, n) ==
    DropInv(U, E, tc, un) /\ DataInv(U, E, l, tc, c, v, un, n)

LEMMA QuietData ==
    ASSUME BaseInv, WriteHeader \/ WriteEntry \/ Grow \/ ClearEntry \/ Trim \/ Truncate,
           NEW E, NEW l, NEW v, NEW un, NEW n,
           DataStep(Work, E, l, mem.table, file.data, v, un, n)
    PROVE  DataStep(Range(todo'), E, l, mem'.table, file'.data, v, un, n)
<1>1. DropInv(Work, E, mem.table, un) /\ DataInv(Work, E, l, mem.table, file.data, v, un, n)
  BY DEF DataStep
<1>2. ASSUME NEW U, NEW c, U = Range(todo'), c = file'.data, mem'.table = mem.table,
             \A t \in U : t.do \in Sectored => t \in Work,
             \A t \in Work : t.do \in Sectored => t \in U,
             \A s \in Sectors : At(mem.table, c, s) = At(mem.table, file.data, s)
      PROVE  DataStep(Range(todo'), E, l, mem'.table, file'.data, v, un, n)
  <2>1. DropInv(U, E, mem.table, un) /\ DataInv(U, E, l, mem.table, c, v, un, n)
    BY <1>1, <1>2, DiskQuiet
  <2> QED
    BY <1>2, <2>1 DEF DataStep
<1>3. \A kind \in Sectored : kind \notin {"header", "entry", "grow", "clear", "trim", "truncate"}
  BY DEF Sectored, Caching
<1>4. CASE WriteHeader
  <2>1. Step.do = "header" /\ Work = {Step} \cup Rest /\ Range(todo') = Rest
        /\ mem' = mem /\ file'.data = file.data
    BY <1>4, HeaderEffect
  <2> QED
    BY <1>2, <1>3, <2>1
<1>5. CASE WriteEntry
  <2>1. Step.do = "entry" /\ Work = {Step} \cup Rest /\ Range(todo') = Rest
        /\ mem' = mem /\ file'.data = file.data
    BY <1>5, EntryEffect
  <2> QED
    BY <1>2, <1>3, <2>1
<1>6. CASE Grow
  <2>1. Step.do = "grow" /\ Work = {Step} \cup Rest /\ Range(todo') = Rest
        /\ mem' = mem /\ file'.data = file.data
    BY <1>6, GrowEffect
  <2> QED
    BY <1>2, <1>3, <2>1
<1>7. CASE ClearEntry
  <2>1. Step.do = "clear" /\ Work = {Step} \cup Rest /\ Range(todo') = Rest
        /\ mem'.table = mem.table /\ file'.data = file.data
    BY <1>7, ClearEffect
  <2> QED
    BY <1>2, <1>3, <2>1
<1>8. CASE Trim
  <2>1. PICK j : /\ Step.do = "trim" /\ Work = {Step} \cup Rest
                 /\ file' = file /\ mem'.table = mem.table
                 /\ Range(todo') = (IF j = mem.allocated THEN {}
                                    ELSE {[do |-> "header"], [do |-> "truncate"]}) \cup Rest
    BY <1>8, TrimEffect
  <2>2. \A t \in Range(todo') : t \in Rest \/ t.do \in {"header", "truncate"}
    BY <2>1
  <2>3. \A t \in Rest : t \in Range(todo')
    BY <2>1
  <2> QED
    BY <1>2, <1>3, <2>1, <2>2, <2>3
<1>9. CASE Truncate
  <2>1. Step.do = "truncate" /\ Work = {Step} \cup Rest /\ Range(todo') = Rest /\ mem' = mem
    BY <1>9, TruncateEffect
  <2>2. \A s \in Sectors : At(mem.table, file'.data, s) = At(mem.table, file.data, s)
    BY <1>9, TruncateAt
  <2> QED
    BY <1>2, <1>3, <2>1, <2>2
<1> QED
  BY <1>4, <1>5, <1>6, <1>7, <1>8, <1>9

\* A place belongs to one sector of the table.
LEMMA PlaceApart ==
    ASSUME BaseInv, NEW s \in Sectors, NEW r \in Sectors, s # r,
           mem.table[BlockOf(s)] # None, mem.table[BlockOf(r)] # None
    PROVE  Place(mem.table[BlockOf(s)], s) # Place(mem.table[BlockOf(r)], r)
<1>1. geom \in Setups /\ mem \in Maps /\ MemInv(Work, mem, file.len, file.data, faults)
  BY BaseFacts
<1>2. BlockOf(s) \in Blocks /\ BlockOf(r) \in Blocks
  BY <1>1, SectorFacts
<1>3. PICK j \in Nat, k \in Nat : j = mem.table[BlockOf(s)] /\ k = mem.table[BlockOf(r)]
  BY <1>1, <1>2, ImageFacts
<1>4. j = k => BlockOf(s) = BlockOf(r)
  BY <1>1, <1>2, <1>3 DEF MemInv
<1>5. Place(j, s) = Place(k, r) => j = k /\ (BlockOf(s) = BlockOf(r) => s = r)
  BY <1>1, PlaceFacts
<1> QED
  BY <1>3, <1>4, <1>5

LEMMA PutData ==
    ASSUME BaseInv, PutSector, NEW E, NEW l, NEW v, NEW un, NEW n,
           DataStep(Work, E, l, mem.table, file.data, v, un, n)
    PROVE  DataStep(Range(todo'), E, l, mem'.table, file'.data, v, un, n)
<1>1. DropInv(Work, E, mem.table, un) /\ DataInv(Work, E, l, mem.table, file.data, v, un, n)
  BY DEF DataStep
<1>2. PICK r \in Sectors, x \in Values, k \in Slots :
             /\ Step.do = "put" /\ Step.sector = r /\ Step.value = x
             /\ Work = {Step} \cup Rest /\ Range(todo') = Rest /\ mem' = mem
             /\ mem.table[BlockOf(r)] = k
             /\ file'.data = [file.data EXCEPT ![Place(k, r)] = x] /\ Place(k, r) \in Places
  BY PutEffect
<1>3. PICK c : c = file'.data
  OBVIOUS
<1>4. /\ geom \in Setups /\ file.data \in [Places -> Values] /\ k # None /\ mem \in Maps
  BY BaseFacts, ImageFacts
<1>5. At(mem.table, c, r) = x
  BY <1>2, <1>3, <1>4 DEF At
<1>6. ASSUME NEW s \in Sectors, s # r PROVE At(mem.table, c, s) = At(mem.table, file.data, s)
  <2>1. PICK j : j = mem.table[BlockOf(s)]
    OBVIOUS
  <2>2. CASE j = None
    BY <2>1, <2>2 DEF At
  <2>3. CASE j # None
    <3>1. BlockOf(s) \in Blocks
      BY <1>4, SectorFacts
    <3>2. j \in Slots /\ Place(j, s) \in Places
      BY <1>4, <2>1, <2>3, <3>1, ImageFacts, PlaceFacts
    <3>3. Place(j, s) # Place(k, r)
      BY <1>2, <1>4, <1>6, <2>1, <2>3, PlaceApart
    <3>4. c[Place(j, s)] = file.data[Place(j, s)]
      BY <1>2, <1>3, <1>4, <3>2, <3>3
    <3> QED
      BY <2>1, <2>3, <3>4 DEF At
  <2> QED
    BY <2>2, <2>3
<1>7. \A s, w : Writes(Rest, s, w) => Writes(Work, s, w)
  BY <1>2 DEF Writes
<1>8. \A s, w : s # r /\ Writes(Work, s, w) => Writes(Rest, s, w)
  BY <1>2 DEF Writes
<1>9. Writes(Work, r, x)
  BY <1>2 DEF Writes
<1>10. ASSUME NEW s \in Sectors, NEW y, Settles(Work, mem.table, file.data, s, y)
       PROVE  Settles(Rest, mem.table, c, s, y)
  <2>1. CASE s = r
    <3>1. y = x
      BY <1>9, <1>10, <2>1 DEF Settles
    <3> QED
      BY <1>5, <1>7, <1>10, <2>1, <3>1 DEF Settles
  <2>2. CASE s # r
    BY <1>6, <1>7, <1>8, <1>10, <2>2 DEF Settles
  <2> QED
    BY <2>1, <2>2
<1>11. SameCaching(Work, Rest)
  BY <1>2 DEF SameCaching, Caching
<1>12. /\ \A t \in Work : t.do = "drop" => t.blocks \subseteq Blocks
       /\ \A j : \A s \in InLine(j) : s \in Sectors
  BY DropBlocks
<1>13. DataInv(Rest, E, l, mem.table, c, v, un, n)
  BY <1>1, <1>7, <1>10, <1>11, <1>12, DataKeep
<1>14. DropInv(Rest, E, mem.table, un)
  BY <1>1, <1>2, <1>12, DropKeep
<1> QED
  BY <1>2, <1>3, <1>13, <1>14 DEF DataStep

LEMMA CowOverData ==
    ASSUME BaseInv, NEW b \in Blocks, NEW c \in Chunks,
           Step.do = "cow", Step.chunk = c, Work = {Step} \cup Rest, CowOver(b, c), file' = file,
           NEW E, NEW l, NEW v, NEW un, NEW n,
           DataStep(Work, E, l, mem.table, file.data, v, un, n)
    PROVE  DataStep(Range(todo'), E, l, mem'.table, file'.data, v, un, n)
<1>1. DropInv(Work, E, mem.table, un) /\ DataInv(Work, E, l, mem.table, file.data, v, un, n)
  BY DEF DataStep
<1>2. PICK P, U : P = {Put(s, c[s], FALSE) : s \in DOMAIN c} /\ U = Range(todo')
  OBVIOUS
<1>3. U = P \cup Rest /\ mem' = mem
  BY <1>2 DEF CowOver
<1>4. /\ \A t \in P : t.do = "put"
      /\ \A s, w : (\E t \in P : t.do = "put" /\ t.sector = s /\ t.value = w) <=> s \in DOMAIN c /\ c[s] = w
  <2>1. /\ \A t \in P : t.do = "put" /\ t.sector \in DOMAIN c /\ t.value = c[t.sector]
        /\ \A s \in DOMAIN c : \E t \in P : t.do = "put" /\ t.sector = s /\ t.value = c[s]
    <3>1. ASSUME NEW t \in P PROVE t.do = "put" /\ t.sector \in DOMAIN c /\ t.value = c[t.sector]
      <4>1. PICK s \in DOMAIN c : t = Put(s, c[s], FALSE)
        BY <1>2
      <4> QED
        BY <4>1 DEF Put
    <3>2. ASSUME NEW s \in DOMAIN c PROVE \E t \in P : t.do = "put" /\ t.sector = s /\ t.value = c[s]
      <4>1. PICK t \in P : t = Put(s, c[s], FALSE)
        BY <1>2
      <4> QED
        BY <4>1 DEF Put
    <3> QED
      BY <3>1, <3>2
  <2> QED
    BY ONLY <2>1
<1>5. \A s, w : Writes(U, s, w) <=> Writes(Work, s, w)
  <2>1. \A s, w : Writes(U, s, w) <=> (s \in DOMAIN c /\ c[s] = w) \/ Writes(Rest, s, w)
    BY <1>3, <1>4 DEF Writes
  <2>2. \A s, w : Writes(Work, s, w) <=> (s \in DOMAIN c /\ c[s] = w) \/ Writes(Rest, s, w)
    BY DEF Writes
  <2> QED
    BY <2>1, <2>2
<1>6. \A s \in Sectors : \A x : Settles(Work, mem.table, file.data, s, x) => Settles(U, mem.table, file.data, s, x)
  BY <1>5 DEF Settles
<1>7. SameCaching(Work, U)
  BY <1>3, <1>4 DEF SameCaching, Caching
<1>8. /\ \A t \in Work : t.do = "drop" => t.blocks \subseteq Blocks
      /\ \A j : \A s \in InLine(j) : s \in Sectors
  BY DropBlocks
<1>9. DataInv(U, E, l, mem.table, file.data, v, un, n)
  BY <1>1, <1>5, <1>6, <1>7, <1>8, DataKeep
<1>10. /\ \A t : t.do \in {"drop", "sync", "clean", "dealloc", "flushed"} => (t \in U <=> t \in Work)
       /\ \A t \in U : t.do = "cow" => t \in Work
  BY <1>3, <1>4
<1>11. DropInv(U, E, mem.table, un)
  BY <1>1, <1>8, <1>10, DropKeep
<1> QED
  BY <1>2, <1>3, <1>9, <1>11 DEF DataStep

\* A new block: what its sectors read as is put into its slot.
LEMMA CowNewData ==
    ASSUME BaseInv, NEW b \in Blocks, NEW c \in Chunks,
           Step.do = "cow", Step.chunk = c, Work = {Step} \cup Rest,
           DOMAIN c # {}, \A s \in DOMAIN c : BlockOf(s) = b,
           \A u \in Rest : Before("cow", u.do), file' = file,
           NEW k \in Slots, NEW H, CowNew(b, c, k, H),
           NEW E, NEW l, NEW v, NEW un, NEW n,
           DataStep(Work, E, l, mem.table, file.data, v, un, n)
    PROVE  DataStep(Range(todo'), E, l, mem'.table, file'.data, v, un, n)
<1>1. DropInv(Work, E, mem.table, un) /\ DataInv(Work, E, l, mem.table, file.data, v, un, n)
  BY DEF DataStep
<1>2. PICK P, U, tc : /\ P = {Put(s, Filled(s, c), TRUE) : s \in SectorsOf(b)}
                      /\ U = Range(todo') /\ tc = mem'.table
  OBVIOUS
<1>3. /\ mem.table[b] = None /\ tc = [mem.table EXCEPT ![b] = k]
      /\ U = H \cup {[do |-> "entry", block |-> b], [do |-> "grow", slot |-> k]} \cup P \cup Rest
      /\ H \subseteq {[do |-> "header"]}
  BY <1>2 DEF CowNew, GivesSlot, NewSteps
<1>4. geom \in Setups /\ mem.table \in [Blocks -> Slots \cup {None}]
      /\ MemInv(Work, mem, file.len, file.data, faults)
  BY BaseFacts, ImageFacts
<1>5. PICK Q : Q = H \cup {[do |-> "entry", block |-> b], [do |-> "grow", slot |-> k]}
  OBVIOUS
<1>6. \A t \in Q : t.do \in {"header", "entry", "grow"}
  BY <1>3, <1>5
<1>7. U = Q \cup P \cup Rest
  BY <1>3, <1>5
<1>8. /\ \A t \in P : t.do = "put"
      /\ \A s, w : (\E t \in P : t.do = "put" /\ t.sector = s /\ t.value = w)
                   <=> s \in SectorsOf(b) /\ w = Filled(s, c)
  <2>1. /\ \A t \in P : t.do = "put" /\ t.sector \in SectorsOf(b) /\ t.value = Filled(t.sector, c)
        /\ \A s \in SectorsOf(b) : \E t \in P : t.do = "put" /\ t.sector = s /\ t.value = Filled(s, c)
    <3>1. ASSUME NEW t \in P PROVE t.do = "put" /\ t.sector \in SectorsOf(b) /\ t.value = Filled(t.sector, c)
      <4>1. PICK s \in SectorsOf(b) : t = Put(s, Filled(s, c), TRUE)
        BY <1>2
      <4> QED
        BY <4>1 DEF Put
    <3>2. ASSUME NEW s \in SectorsOf(b) PROVE \E t \in P : t.do = "put" /\ t.sector = s /\ t.value = Filled(s, c)
      <4>1. PICK t \in P : t = Put(s, Filled(s, c), TRUE)
        BY <1>2
      <4> QED
        BY <4>1 DEF Put
    <3> QED
      BY <3>1, <3>2
  <2> QED
    BY ONLY <2>1
<1>9. \A s, w : Writes(U, s, w) <=> (s \in SectorsOf(b) /\ w = Filled(s, c)) \/ Writes(Rest, s, w)
  BY <1>6, <1>7, <1>8 DEF Writes
<1>10. \A s, w : Writes(Work, s, w) <=> (s \in DOMAIN c /\ c[s] = w) \/ Writes(Rest, s, w)
  BY DEF Writes
<1>11. ASSUME NEW s \in SectorsOf(b), NEW w PROVE ~Writes(Rest, s, w) \/ (s \in DOMAIN c /\ c[s] = w)
  <2> SUFFICES ASSUME Writes(Rest, s, w) PROVE s \in DOMAIN c /\ c[s] = w
    OBVIOUS
  <2>1. \A u \in Rest : u.do # "put"
    BY AfterCow
  <2>2. PICK u \in Rest : u.do = "cow" /\ s \in DOMAIN u.chunk /\ u.chunk[s] = w
    BY <2>1 DEF Writes
  <2>3. PICK r : r \in DOMAIN c
    OBVIOUS
  <2>4. BlockOf(s) = b /\ BlockOf(r) = b
    BY <1>4, <2>3, SectorFacts
  <2>5. u = Step
    BY <1>4, <2>2, <2>3, <2>4 DEF MemInv
  <2> QED
    BY <2>2, <2>5
<1>12. \A s : s \in SectorsOf(b) /\ s \in DOMAIN c => Filled(s, c) = c[s]
  BY DEF Filled
<1>13. \A s : s \in SectorsOf(b) /\ s \notin DOMAIN c => Filled(s, c) = Base(s)
  BY DEF Filled
<1>14. \A s \in DOMAIN c : s \in SectorsOf(b)
  <2>1. \A s \in DOMAIN c : s \in Sectors /\ BlockOf(s) = b
    BY ChunkFacts
  <2> QED
    BY <2>1 DEF SectorsOf
<1>15. \A s \in Sectors, w \in Values : Writes(U, s, w) => Writes(Work, s, w) \/ w = Base(s)
  BY <1>9, <1>10, <1>12, <1>13
<1>16. ASSUME NEW s \in Sectors, NEW x, Settles(Work, mem.table, file.data, s, x)
       PROVE  Settles(U, tc, file.data, s, x)
  <2>1. CASE s \in DOMAIN c
    <3>1. \A w : Writes(U, s, w) <=> Writes(Work, s, w)
      BY <1>9, <1>10, <1>12, <1>14, <2>1
    <3>2. c[s] \in Values
      BY <2>1, ChunkFacts
    <3>3. x = c[s]
      BY <1>10, <1>16, <2>1, <3>2 DEF Settles
    <3>4. Writes(Work, s, x)
      BY <1>10, <2>1, <3>3
    <3> QED
      BY <1>16, <3>1, <3>4 DEF Settles
  <2>2. CASE s \notin DOMAIN c /\ BlockOf(s) = b
    <3>1. s \in SectorsOf(b)
      BY <2>2 DEF SectorsOf
    <3>2. \A w : ~Writes(Rest, s, w)
      BY <1>11, <2>2, <3>1
    <3>3. \A w : ~Writes(Work, s, w)
      BY <1>10, <2>2, <3>2
    <3>4. x = Base(s)
      BY <1>3, <1>16, <2>2, <3>3 DEF Settles, At
    <3>5. \A w : Writes(U, s, w) <=> w = Base(s)
      BY <1>9, <1>13, <2>2, <3>1, <3>2
    <3> QED
      BY <3>4, <3>5 DEF Settles
  <2>3. CASE BlockOf(s) # b
    <3>1. s \notin SectorsOf(b) /\ s \notin DOMAIN c
      BY <1>14, <2>3 DEF SectorsOf
    <3>2. \A w : Writes(U, s, w) <=> Writes(Work, s, w)
      BY <1>9, <1>10, <3>1
    <3>3. BlockOf(s) \in Blocks
      BY <1>4, SectorFacts
    <3>4. tc[BlockOf(s)] = mem.table[BlockOf(s)]
      BY <1>3, <1>4, <2>3, <3>3
    <3>5. At(tc, file.data, s) = At(mem.table, file.data, s)
      BY <3>4 DEF At
    <3> QED
      BY <1>16, <3>2, <3>5 DEF Settles
  <2> QED
    BY <2>1, <2>2, <2>3
<1>17. SameCaching(Work, U)
  BY <1>6, <1>7, <1>8 DEF SameCaching, Caching
<1>18. /\ \A t \in Work : t.do = "drop" => t.blocks \subseteq Blocks
       /\ \A j : \A s \in InLine(j) : s \in Sectors
  BY DropBlocks
<1>19. DataInv(U, E, l, tc, file.data, v, un, n)
  BY <1>1, <1>15, <1>16, <1>17, <1>18, DataKeep
<1>20. /\ \A t : t.do \in {"drop", "sync", "clean", "dealloc", "flushed"} => (t \in U <=> t \in Work)
       /\ \A t \in U : t.do = "cow" => t \in Work
       /\ Has(Work, "cow")
  BY <1>6, <1>7, <1>8 DEF Has
<1>21. DropInv(U, E, tc, un)
  BY <1>1, <1>18, <1>20, DropKeep
<1> QED
  BY <1>2, <1>19, <1>21 DEF DataStep

LEMMA CowData ==
    ASSUME BaseInv, CowWrite, NEW E, NEW l, NEW v, NEW un, NEW n,
           DataStep(Work, E, l, mem.table, file.data, v, un, n)
    PROVE  DataStep(Range(todo'), E, l, mem'.table, file'.data, v, un, n)
<1>1. PICK b \in Blocks, c \in Chunks :
             /\ Step.do = "cow" /\ Step.chunk = c
             /\ DOMAIN c # {} /\ (\A s \in DOMAIN c : BlockOf(s) = b)
             /\ Work = {Step} \cup Rest
             /\ (\A u \in Rest : Before("cow", u.do)) /\ file' = file
             /\ CowOver(b, c) \/ \E k \in Slots : \E H : CowNew(b, c, k, H)
  BY CowEffect
<1>2. CASE CowOver(b, c)
  BY <1>1, <1>2, CowOverData
<1>3. CASE \E k \in Slots : \E H : CowNew(b, c, k, H)
  <2>1. PICK k \in Slots : \E H : CowNew(b, c, k, H)
    BY <1>3
  <2>2. PICK H : CowNew(b, c, k, H)
    BY <2>1
  <2> QED
    BY <1>1, <2>2, CowNewData
<1> QED
  BY <1>1, <1>2, <1>3

\* A block of the discard: its sectors are unsure until the discard returns.
LEMMA DeallocData ==
    ASSUME BaseInv, DeallocateBlock, NEW E, NEW l, NEW v, NEW un, NEW n,
           DataStep(Work, E, l, mem.table, file.data, v, un, n)
    PROVE  DataStep(Range(todo'), E, l, mem'.table, file'.data, v, un, n)
<1>1. DropInv(Work, E, mem.table, un) /\ DataInv(Work, E, l, mem.table, file.data, v, un, n)
  BY DEF DataStep
<1>2. PICK b \in Blocks :
             /\ Step.do = "dealloc" /\ Step.block = b /\ Work = {Step} \cup Rest
             /\ (\A u \in Rest : u.do \in {"dealloc", "trim", "drop"})
             /\ file' = file /\ mem'.table = [mem.table EXCEPT ![b] = None]
             /\ Range(todo') = (IF mem.table[b] = None THEN {} ELSE {ClearStep(b, mem.table[b])})
                               \cup Rest
  BY DeallocEffect
<1>3. PICK Q, U, tc : /\ Q = (IF mem.table[b] = None THEN {} ELSE {ClearStep(b, mem.table[b])})
                      /\ U = Range(todo') /\ tc = mem'.table
  OBVIOUS
<1>4. \A t \in Q : t.do = "clear"
  BY <1>3 DEF ClearStep
<1>5. U = Q \cup Rest /\ tc = [mem.table EXCEPT ![b] = None]
  BY <1>2, <1>3
<1>6. geom \in Setups /\ mem.table \in [Blocks -> Slots \cup {None}] /\ Plan(todo)
  BY BaseFacts, ImageFacts
<1>7. tc[b] = None /\ \A a \in Blocks : a # b => tc[a] = mem.table[a]
  BY <1>5, <1>6
<1>8. \A t \in U : t.do \in {"clear", "dealloc", "trim", "drop"}
  BY <1>2, <1>4, <1>5
<1>9. \A t \in Work : t.do \in {"dealloc", "trim", "drop"}
  BY <1>2
<1>10. PICK x \in Work : x.do = "drop" /\ b \in x.blocks
  BY <1>1, <1>2 DEF DropInv
<1>11. \A t : t.do = "drop" => (t \in U <=> t \in Work)
  BY <1>2, <1>4, <1>5
<1>12. /\ \A t \in Work : t.do = "drop" => t.blocks \subseteq Blocks
       /\ \A j : \A s \in InLine(j) : s \in Sectors
  BY DropBlocks
<1>13. DropInv(U, E, tc, un)
  <2>1. ASSUME NEW t \in U, t.do = "drop"
        PROVE  /\ \A e \in E : e.line \in t.lines /\ e.dirty =>
                     \E u \in U : u.do \in {"sync", "clean"} /\ u.line = e.line
               /\ \A a \in t.blocks : \/ \E u \in U : u.do = "dealloc" /\ u.block = a
                                      \/ tc[a] = None /\ \A u \in U : u.do \notin {"sync", "cow"}
               /\ \A a \in t.blocks : \A s \in SectorsOf(a) : s \in un /\ LineOf(s) \in t.lines
               /\ \A s \in t.sure : LineOf(s) \in t.lines
    <3>1. t \in Work
      BY <1>11, <2>1
    <3>2. \A e \in E : e.line \in t.lines => ~e.dirty
      BY <1>1, <1>9, <2>1, <3>1 DEF DropInv
    <3>3. /\ \A a \in t.blocks : \A s \in SectorsOf(a) : s \in un /\ LineOf(s) \in t.lines
          /\ \A s \in t.sure : LineOf(s) \in t.lines
      BY <1>1, <2>1, <3>1 DEF DropInv
    <3>4. ASSUME NEW a \in t.blocks
          PROVE  \/ \E u \in U : u.do = "dealloc" /\ u.block = a
                 \/ tc[a] = None /\ \A u \in U : u.do \notin {"sync", "cow"}
      <4>1. CASE a = b
        BY <1>7, <1>8, <4>1
      <4>2. CASE a # b
        <5>1. a \in Blocks
          BY <1>12, <2>1, <3>1
        <5>2. \/ \E u \in Work : u.do = "dealloc" /\ u.block = a
              \/ mem.table[a] = None
          BY <1>1, <2>1, <3>1 DEF DropInv
        <5>3. CASE \E u \in Work : u.do = "dealloc" /\ u.block = a
          BY <1>2, <1>5, <4>2, <5>3
        <5>4. CASE mem.table[a] = None
          BY <1>7, <1>8, <4>2, <5>1, <5>4
        <5> QED
          BY <5>2, <5>3, <5>4
      <4> QED
        BY <4>1, <4>2
    <3> QED
      BY <3>2, <3>3, <3>4
  <2>2. \A u \in U : u.do = "dealloc" => \E t \in U : t.do = "drop" /\ u.block \in t.blocks
    <3>1. \A u \in U : u.do = "dealloc" => u \in Work
      BY <1>2, <1>4, <1>5
    <3> QED
      BY <1>1, <1>11, <3>1 DEF DropInv
  <2>3. \A t \in U : t.do # "flushed"
    BY <1>8
  <2> QED
    BY <2>1, <2>2, <2>3 DEF DropInv
<1>14. \A s, w : ~Writes(U, s, w) /\ ~Writes(Work, s, w)
  BY <1>8, <1>9, WritesNone
<1>15. \A s \in Sectors : Kept(U, un, v, s, n) => Kept(Work, un, v, s, n) /\ BlockOf(s) # b
  <2> SUFFICES ASSUME NEW s \in Sectors, Kept(U, un, v, s, n)
               PROVE  Kept(Work, un, v, s, n) /\ BlockOf(s) # b
    OBVIOUS
  <2>1. Tracked(U, un, s) /\ (n = 0 \/ v[s] # Base(s))
    BY DEF Kept
  <2>2. \A t \in U : t.do # "written"
    BY <1>8
  <2>3. s \notin un \/ \E t \in Work : t.do = "drop" /\ s \in t.sure /\ BlockOf(s) \notin t.blocks
    BY <1>11, <2>1, <2>2 DEF Tracked
  <2>4. Kept(Work, un, v, s, n)
    BY <2>1, <2>3 DEF Kept, Tracked
  <2>5. ASSUME BlockOf(s) = b PROVE FALSE
    <3>1. s \in SectorsOf(b)
      BY <2>5 DEF SectorsOf
    <3>2. s \in un
      BY <1>1, <1>10, <3>1 DEF DropInv
    <3>3. PICK t \in Work : t.do = "drop" /\ b \notin t.blocks
      BY <2>3, <2>5, <3>2
    <3>4. ~Before("drop", "drop")
      BY DEF Before, Storing
    <3>5. t = x
      BY <1>6, <1>10, <3>3, <3>4, PlanApart DEF Work
    <3> QED
      BY <1>10, <3>3, <3>5
  <2> QED
    BY <2>4, <2>5
<1>16. ASSUME NEW s \in Sectors, Kept(U, un, v, s, n) PROVE Good(U, E, tc, file.data, s, v[s])
  <2>1. Kept(Work, un, v, s, n) /\ BlockOf(s) # b /\ BlockOf(s) \in Blocks
    BY <1>6, <1>15, <1>16, SectorFacts
  <2>2. Good(Work, E, mem.table, file.data, s, v[s])
    BY <1>1, <2>1 DEF DataInv
  <2>3. tc[BlockOf(s)] = mem.table[BlockOf(s)]
    BY <1>7, <2>1
  <2>4. At(tc, file.data, s) = At(mem.table, file.data, s)
    BY <2>3 DEF At
  <2>5. Settles(Work, mem.table, file.data, s, v[s]) => Settles(U, tc, file.data, s, v[s])
    BY <1>14, <2>4 DEF Settles
  <2> QED
    BY <2>2, <2>5 DEF Good
<1>17. DataInv(U, E, l, tc, file.data, v, un, n)
  <2>1. ~Has(U, "evicted")
    BY <1>8 DEF Has
  <2> QED
    BY <1>8, <1>14, <1>16, <2>1 DEF DataInv
<1> QED
  BY <1>2, <1>3, <1>13, <1>17 DEF DataStep

LEMMA DiskData ==
    ASSUME BaseInv, DiskStep, NEW E, NEW l, NEW v, NEW un, NEW n,
           DataStep(Work, E, l, mem.table, file.data, v, un, n)
    PROVE  DataStep(Range(todo'), E, l, mem'.table, file'.data, v, un, n)
<1>1. CASE WriteHeader \/ WriteEntry \/ Grow \/ ClearEntry \/ Trim \/ Truncate
  BY <1>1, QuietData
<1>2. CASE PutSector
  BY <1>2, PutData
<1>3. CASE CowWrite
  BY <1>3, CowData
<1>4. CASE DeallocateBlock
  BY <1>4, DeallocData
<1> QED
  BY <1>1, <1>2, <1>3, <1>4 DEF DiskStep

-----------------------------------------------------------------------------
(* What the cache does to the sectors *)

\* Good when nothing is being written to the disk.
Right(E, tb, d, s, x) ==
    /\ \A e \in E : e.line = LineOf(s) => e.data[s] = x
    /\ (\A e \in E : e.line = LineOf(s) => ~e.dirty) => At(tb, d, s) = x

Silent(T) == \A t \in T : t.do \notin {"put", "cow"}

LEMMA SettlesSilent ==
    ASSUME NEW T, Silent(T)
    PROVE  \A tb, d, s, x : Settles(T, tb, d, s, x) <=> At(tb, d, s) = x
<1>1. \A s, w : ~Writes(T, s, w)
  BY WritesNone DEF Silent
<1> QED
  BY <1>1 DEF Settles

LEMMA GoodSilent ==
    ASSUME NEW T, Silent(T)
    PROVE  \A E, tb, d, s, x : Good(T, E, tb, d, s, x) <=> Right(E, tb, d, s, x)
  BY SettlesSilent DEF Good, Right

\* The invariant when nothing is being written to the disk.
LEMMA DataSilent ==
    ASSUME NEW U, NEW F, NEW l, NEW tb, NEW d, NEW v, NEW un, NEW n, Silent(U),
           \A t \in U : t.do \notin {"evicted", "clean"},
           \A s \in Sectors : Kept(U, un, v, s, n) => Right(F, tb, d, s, v[s]),
           \A t \in U : t.do = "chunk" => \A s \in DOMAIN t.data : t.data[s] = v[s],
           \A t \in U : t.do = "insert" => \A s \in InLine(t.entry.line) :
              t.entry.dirty \/ Kept(U, un, v, s, n) => t.entry.data[s] = v[s]
    PROVE  DataInv(U, F, l, tb, d, v, un, n)
<1>1. \A s, w : ~Writes(U, s, w)
  BY WritesNone DEF Silent
<1>2. ~Has(U, "evicted")
  BY DEF Has
<1>3. \A s \in Sectors : Kept(U, un, v, s, n) => Good(U, F, tb, d, s, v[s])
  BY GoodSilent
<1> QED
  BY <1>1, <1>2, <1>3 DEF DataInv

\* No discard and no flush is going on.
LEMMA DropNone ==
    ASSUME NEW U, NEW F, NEW tb, NEW un, \A t \in U : t.do \notin {"drop", "dealloc", "flushed"}
    PROVE  DropInv(U, F, tb, un)
  BY DEF DropInv

\* What a write-back writes.
LEMMA CowStepsWrite ==
    ASSUME geom \in Setups, NEW e \in Lined
    PROVE  \A s, w : Writes(CowSteps(e), s, w) <=> s \in InLine(e.line) /\ e.data[s] = w
<1>1. DOMAIN e.data = InLine(e.line)
  BY LinedFacts
<1>2. \A t \in CowSteps(e) : t.do = "cow"
  BY CowStepsFacts
<1>3. ASSUME NEW s, NEW w, Writes(CowSteps(e), s, w) PROVE s \in InLine(e.line) /\ e.data[s] = w
  <2>1. PICK t \in CowSteps(e) : s \in DOMAIN t.chunk /\ t.chunk[s] = w
    BY <1>2, <1>3 DEF Writes
  <2>2. PICK b \in BlocksIn(e.data) : t = CowStep(e.data, b)
    BY DEF CowSteps
  <2>3. t.chunk = Part(e.data, b)
    BY <2>2 DEF CowStep
  <2>4. s \in DOMAIN e.data /\ e.data[s] = w
    BY <2>1, <2>3 DEF Part
  <2> QED
    BY <1>1, <2>4
<1>4. ASSUME NEW s, NEW w, s \in InLine(e.line), e.data[s] = w PROVE Writes(CowSteps(e), s, w)
  <2>1. PICK b \in BlocksIn(e.data) : b = BlockOf(s)
    BY <1>1, <1>4 DEF BlocksIn
  <2>2. PICK t \in CowSteps(e) : t = CowStep(e.data, b)
    BY DEF CowSteps
  <2>3. t.do = "cow" /\ t.chunk = Part(e.data, b)
    BY <2>2 DEF CowStep
  <2>4. s \in DOMAIN t.chunk /\ t.chunk[s] = w
    BY <1>1, <1>4, <2>1, <2>3 DEF Part
  <2> QED
    BY <2>3, <2>4 DEF Writes
<1> QED
  BY <1>3, <1>4

LEMMA LoadData ==
    ASSUME BaseInv, LoadLine, NEW l, NEW v, NEW un, NEW n,
           DataInv(Work, Held, l, mem.table, file.data, v, un, n)
    PROVE  \A x : DataStep(Range(todo'), Range(cache'), x, mem.table, file.data, v, un, n)
<1>1. PICK k \in Lines :
             /\ Step.do = "load" /\ Work = {Step}
             /\ \/ \E e \in Held : e.line = k /\ cache' = Promoted(e) /\ Range(todo') = {}
                \/ /\ \A e \in Held : e.line # k
                   /\ cache' = cache /\ Range(todo') = {EvictStep, InsertStep(LoadEntry(k))}
  BY LoadEffect
<1>2. PICK U, F : U = Range(todo') /\ F = Range(cache')
  OBVIOUS
<1>3. F = Held
  <2>1. CASE \E e \in Held : e.line = k /\ cache' = Promoted(e)
    <3>1. PICK e \in Held : cache' = Promoted(e)
      BY <2>1
    <3>2. CacheOK(cache) /\ e \in Lined /\ \A x \in Held : x.line = e.line => x = e
      BY BaseFacts, HeldFacts DEF Held
    <3>3. Range(Promoted(e)) = {e} \cup {x \in Held : x.line # e.line}
      BY <3>2, PromotedFacts
    <3> QED
      BY <1>2, <3>1, <3>2, <3>3
  <2>2. CASE cache' = cache
    BY <1>2, <2>2 DEF Held
  <2> QED
    BY <1>1, <2>1, <2>2
<1>4. \A t \in U : t = EvictStep \/ (t = InsertStep(LoadEntry(k)) /\ \A e \in Held : e.line # k)
  BY <1>1, <1>2
<1>5. EvictStep.do = "evict" /\ InsertStep(LoadEntry(k)).do = "insert"
      /\ InsertStep(LoadEntry(k)).entry = LoadEntry(k)
  BY DEF EvictStep, InsertStep
<1>6. \A t \in U : t.do \in {"evict", "insert"}
  BY <1>4, <1>5
<1>7. Silent(U) /\ Silent(Work)
  BY <1>1, <1>6 DEF Silent
<1>8. \A s : Kept(U, un, v, s, n) => Kept(Work, un, v, s, n)
  BY <1>6 DEF Kept, Tracked
<1>9. \A s \in Sectors : Kept(U, un, v, s, n) => Right(Held, mem.table, file.data, s, v[s])
  BY <1>7, <1>8, GoodSilent DEF DataInv
<1>10. ASSUME NEW t \in U, t.do = "insert", NEW s \in InLine(t.entry.line),
              t.entry.dirty \/ Kept(U, un, v, s, n)
       PROVE  t.entry.data[s] = v[s]
  <2>1. t.entry = LoadEntry(k) /\ \A e \in Held : e.line # k
    BY <1>4, <1>5, <1>10
  <2>2. t.entry.line = k /\ t.entry.dirty = FALSE /\ t.entry.data[s] = At(mem.table, file.data, s)
    BY <1>10, <2>1, LoadEntryFacts
  <2>3. s \in Sectors /\ LineOf(s) = k
    BY <1>10, <2>2, BaseFacts, SectorFacts
  <2>4. Right(Held, mem.table, file.data, s, v[s])
    BY <1>9, <1>10, <2>2, <2>3
  <2> QED
    BY <2>1, <2>2, <2>3, <2>4 DEF Right
<1>11. \A x : DataInv(U, Held, x, mem.table, file.data, v, un, n)
  BY <1>6, <1>7, <1>9, <1>10, DataSilent
<1>12. DropInv(U, Held, mem.table, un)
  BY <1>6, DropNone
<1> QED
  BY <1>2, <1>3, <1>11, <1>12 DEF DataStep

\* Writing does not change which sectors are tracked as long as the same
\* sectors are coming.
LEMMA KeptComing ==
    ASSUME NEW T, NEW U, NEW s, NEW un, NEW v, NEW n,
           \A t : t.do \in {"drop", "written"} => (t \in U <=> t \in T),
           Coming(T, s) => Coming(U, s)
    PROVE  Kept(U, un, v, s, n) => Kept(T, un, v, s, n)
  BY DEF Kept, Tracked

\* x is entry e with the data of f written over it.
Merges(x, e, f) ==
    /\ x.line = e.line /\ x.dirty = TRUE
    /\ \A s \in InLine(e.line) : x.data[s] = IF s \in DOMAIN f THEN f[s] ELSE e.data[s]

\* The chunk reaches an entry that is held.
LEMMA ChunkHitData ==
    ASSUME BaseInv, NEW l, NEW v, NEW un, NEW n, NEW k \in Lines, NEW f \in Chunks,
           DataInv(Work, Held, l, mem.table, file.data, v, un, n),
           Step.do = "chunk", Step.line = k, Step.data = f, DOMAIN f \subseteq InLine(k),
           Work = {Step} \cup Rest, \A u \in Rest : u.do \in {"chunk", "written"},
           NEW e \in Held, NEW x \in Lined, e.line = k, Merges(x, e, f), NEW z
    PROVE  DataStep(Rest, Range(Promoted(x)), z, mem.table, file.data, v, un, n)
<1>1. Silent(Rest) /\ Silent(Work) /\ \A t \in Rest : t.do \notin {"evicted", "clean", "insert", "drop", "dealloc", "flushed"}
  BY DEF Silent
<1>2. geom \in Setups /\ CacheOK(cache)
  BY BaseFacts
<1>7. /\ x.line = k /\ x.dirty = TRUE
      /\ \A s \in InLine(k) : x.data[s] = IF s \in DOMAIN f THEN f[s] ELSE e.data[s]
  BY DEF Merges
<1>8. Range(Promoted(x)) = {x} \cup {y \in Held : y.line # x.line}
  BY <1>2, <1>7, PromotedFacts
<1>9. PICK F : F = Range(Promoted(x)) /\ \A y : y \in F <=> y = x \/ (y \in Held /\ y.line # x.line)
  BY <1>8
<1>3. ASSUME NEW s \in Sectors, Kept(Rest, un, v, s, n) PROVE Right(F, mem.table, file.data, s, v[s])
  <2>1. CASE s \in DOMAIN f
    <3>1. s \in InLine(k) /\ LineOf(s) = k
      BY <1>2, <2>1, SectorFacts
    <3>2. f[s] = v[s]
      BY <2>1 DEF DataInv
    <3>3. x.data[s] = v[s]
      BY <1>7, <2>1, <3>1, <3>2
    <3>4. \A y \in F : y.line = LineOf(s) => y = x
      BY <1>7, <1>9, <3>1
    <3>5. x \in F /\ x.line = LineOf(s) /\ x.dirty
      BY <1>7, <1>9, <3>1
    <3> QED
      BY <3>3, <3>4, <3>5 DEF Right
  <2>2. CASE s \notin DOMAIN f
    <3>1. Coming(Work, s) => Coming(Rest, s)
      BY <2>2 DEF Coming
    <3>2. \A t : t.do \in {"drop", "written"} => (t \in Rest <=> t \in Work)
      OBVIOUS
    <3>3. Kept(Work, un, v, s, n)
      BY <1>3, <3>1, <3>2, KeptComing
    <3>4. Right(Held, mem.table, file.data, s, v[s])
      BY <1>1, <3>3, GoodSilent DEF DataInv
    <3>5. CASE LineOf(s) = k
      <4>1. s \in InLine(k)
        BY <1>2, <3>5, SectorFacts
      <4>2. e.data[s] = v[s]
        BY <3>4, <3>5 DEF Right
      <4>3. x.data[s] = v[s]
        BY <1>7, <2>2, <4>1, <4>2
      <4>4. \A y \in F : y.line = LineOf(s) => y = x
        BY <1>7, <1>9, <3>5
      <4>5. x \in F /\ x.line = LineOf(s) /\ x.dirty
        BY <1>7, <1>9, <3>5
      <4> QED
        BY <4>3, <4>4, <4>5 DEF Right
    <3>6. CASE LineOf(s) # k
      <4>1. \A y : y.line = LineOf(s) => (y \in F <=> y \in Held)
        BY <1>7, <1>9, <3>6
      <4> QED
        BY <3>4, <4>1 DEF Right
    <3> QED
      BY <3>5, <3>6
  <2> QED
    BY <2>1, <2>2
<1>4. \A t \in Rest : t.do = "chunk" => \A s \in DOMAIN t.data : t.data[s] = v[s]
  BY DEF DataInv
<1>5. DataInv(Rest, F, z, mem.table, file.data, v, un, n)
  BY <1>1, <1>3, <1>4, DataSilent
<1>6. DropInv(Rest, F, mem.table, un)
  BY <1>1, DropNone
<1> QED
  BY <1>5, <1>6, <1>9 DEF DataStep

\* The chunk needs an entry first: x, the chunk itself or the line as stored.
LEMMA ChunkMissData ==
    ASSUME BaseInv, NEW l, NEW v, NEW un, NEW n, NEW k \in Lines, NEW f \in Chunks,
           DataInv(Work, Held, l, mem.table, file.data, v, un, n),
           Step.do = "chunk", Step.line = k, Step.data = f, DOMAIN f \subseteq InLine(k),
           Work = {Step} \cup Rest, \A u \in Rest : u.do \in {"chunk", "written"},
           \A e \in Held : e.line # k,
           NEW x \in Lined, x.line = k, NEW U,
           \/ x.dirty = TRUE /\ x.data = f /\ DOMAIN f = InLine(k) /\ U = {EvictStep, InsertStep(x)} \cup Rest
           \/ x = LoadEntry(k) /\ U = {EvictStep, InsertStep(x), Step} \cup Rest
    PROVE  \A y : DataStep(U, Held, y, mem.table, file.data, v, un, n)
<1>0. InsertStep(x).do = "insert" /\ InsertStep(x).entry = x
  BY DEF InsertStep
<1>1. PICK i : i = InsertStep(x) /\ i.do = "insert" /\ i.entry = x
  BY <1>0
<1>2. EvictStep.do = "evict"
  BY DEF EvictStep
<1>3. \A t \in U : t.do \in {"evict", "insert", "chunk", "written"}
  BY <1>1, <1>2
<1>4. Silent(U) /\ Silent(Work) /\ \A t \in U : t.do \notin {"evicted", "clean", "drop", "dealloc", "flushed"}
  BY <1>3 DEF Silent
<1>5. geom \in Setups
  BY BaseFacts
<1>6. i \in U /\ \A t \in U : t.do = "insert" => t = i
  BY <1>1, <1>2
<1>7. \A s : Coming(Work, s) => Coming(U, s)
  <2>1. CASE x.dirty = TRUE /\ x.data = f /\ U = {EvictStep, InsertStep(x)} \cup Rest
    BY <1>1, <1>6, <2>1 DEF Coming
  <2>2. CASE U = {EvictStep, InsertStep(x), Step} \cup Rest
    BY <2>2 DEF Coming
  <2> QED
    BY <2>1, <2>2
<1>8. \A t : t.do \in {"drop", "written"} => (t \in U <=> t \in Work)
  BY <1>1, <1>2
<1>9. \A s : Kept(U, un, v, s, n) => Kept(Work, un, v, s, n)
  BY <1>7, <1>8, KeptComing
<1>10. \A s \in Sectors : Kept(U, un, v, s, n) => Right(Held, mem.table, file.data, s, v[s])
  BY <1>4, <1>9, GoodSilent DEF DataInv
<1>11. \A t \in U : t.do = "chunk" => \A s \in DOMAIN t.data : t.data[s] = v[s]
  <2>1. \A t \in U : t.do = "chunk" => t \in Work
    BY <1>1, <1>2
  <2> QED
    BY <2>1 DEF DataInv
<1>12. ASSUME NEW t \in U, t.do = "insert", NEW s \in InLine(t.entry.line),
              t.entry.dirty \/ Kept(U, un, v, s, n)
       PROVE  t.entry.data[s] = v[s]
  <2>1. t.entry = x /\ s \in Sectors /\ LineOf(s) = k /\ s \in InLine(k)
    BY <1>1, <1>5, <1>6, <1>12, SectorFacts
  <2>2. CASE x.data = f /\ DOMAIN f = InLine(k)
    BY <2>1, <2>2 DEF DataInv
  <2>3. CASE x = LoadEntry(k)
    <3>1. x.dirty = FALSE /\ x.data[s] = At(mem.table, file.data, s)
      <4>1. LoadEntry(k).dirty = FALSE /\ LoadEntry(k).data[s] = At(mem.table, file.data, s)
        BY <2>1, LoadEntryFacts
      <4> QED
        BY <2>3, <4>1
    <3>2. Right(Held, mem.table, file.data, s, v[s])
      BY <1>10, <1>12, <2>1, <3>1
    <3> QED
      BY <2>1, <3>1, <3>2 DEF Right
  <2> QED
    BY <2>2, <2>3
<1>13. \A y : DataInv(U, Held, y, mem.table, file.data, v, un, n)
  BY <1>4, <1>10, <1>11, <1>12, DataSilent
<1>14. DropInv(U, Held, mem.table, un)
  BY <1>4, DropNone
<1> QED
  BY <1>13, <1>14 DEF DataStep

LEMMA ChunkData ==
    ASSUME BaseInv, WriteChunk, NEW l, NEW v, NEW un, NEW n,
           DataInv(Work, Held, l, mem.table, file.data, v, un, n)
    PROVE  \A x : DataStep(Range(todo'), Range(cache'), x, mem.table, file.data, v, un, n)
<1>1. PICK k \in Lines, f \in Chunks :
             /\ Step.do = "chunk" /\ Step.line = k /\ Step.data = f /\ DOMAIN f \subseteq InLine(k)
             /\ Work = {Step} \cup Rest /\ (\A u \in Rest : u.do \in {"chunk", "written"})
             /\ \/ \E e \in Held, x \in Lined :
                      /\ e.line = k /\ x.line = k /\ x.dirty = TRUE
                      /\ \A s \in InLine(k) : x.data[s] = IF s \in DOMAIN f THEN f[s] ELSE e.data[s]
                      /\ cache' = Promoted(x) /\ Range(todo') = Rest
                \/ \E x \in Lined :
                      /\ \A e \in Held : e.line # k
                      /\ x.line = k /\ x.dirty = TRUE /\ x.data = f /\ DOMAIN f = InLine(k)
                      /\ cache' = cache /\ Range(todo') = {EvictStep, InsertStep(x)} \cup Rest
                \/ /\ \A e \in Held : e.line # k
                   /\ cache' = cache
                   /\ Range(todo') = {EvictStep, InsertStep(LoadEntry(k)), Step} \cup Rest
  BY ChunkEffect
<1>2. CASE \E e \in Held, x \in Lined :
                      /\ e.line = k /\ x.line = k /\ x.dirty = TRUE
                      /\ \A s \in InLine(k) : x.data[s] = IF s \in DOMAIN f THEN f[s] ELSE e.data[s]
                      /\ cache' = Promoted(x) /\ Range(todo') = Rest
  <2>1. PICK e \in Held, x \in Lined :
                      /\ e.line = k /\ x.line = k /\ x.dirty = TRUE
                      /\ \A s \in InLine(k) : x.data[s] = IF s \in DOMAIN f THEN f[s] ELSE e.data[s]
                      /\ cache' = Promoted(x) /\ Range(todo') = Rest
    BY <1>2
  <2>2. Merges(x, e, f) /\ e.line = k
    BY <2>1 DEF Merges
  <2>3. ASSUME NEW y PROVE DataStep(Rest, Range(Promoted(x)), y, mem.table, file.data, v, un, n)
    BY <1>1, <2>2, ChunkHitData
  <2> QED
    BY <2>1, <2>3
<1>3. CASE \E x \in Lined :
                      /\ \A e \in Held : e.line # k
                      /\ x.line = k /\ x.dirty = TRUE /\ x.data = f /\ DOMAIN f = InLine(k)
                      /\ cache' = cache /\ Range(todo') = {EvictStep, InsertStep(x)} \cup Rest
  <2>1. PICK x \in Lined :
                      /\ \A e \in Held : e.line # k
                      /\ x.line = k /\ x.dirty = TRUE /\ x.data = f /\ DOMAIN f = InLine(k)
                      /\ cache' = cache /\ Range(todo') = {EvictStep, InsertStep(x)} \cup Rest
    BY <1>3
  <2>2. PICK U : U = Range(todo') /\ U = {EvictStep, InsertStep(x)} \cup Rest
    BY <2>1
  <2>3. \A y : DataStep(U, Held, y, mem.table, file.data, v, un, n)
    BY <1>1, <2>1, <2>2, ChunkMissData
  <2>4. Range(cache') = Held
    BY <2>1 DEF Held
  <2> QED
    BY <2>2, <2>3, <2>4
<1>4. CASE /\ \A e \in Held : e.line # k
           /\ cache' = cache
           /\ Range(todo') = {EvictStep, InsertStep(LoadEntry(k)), Step} \cup Rest
  <2>1. PICK x \in Lined : x = LoadEntry(k) /\ x.line = k
    BY LoadEntryFacts
  <2>2. PICK U : U = Range(todo') /\ U = {EvictStep, InsertStep(x), Step} \cup Rest
    BY <1>4, <2>1
  <2>3. \A y : DataStep(U, Held, y, mem.table, file.data, v, un, n)
    BY <1>1, <1>4, <2>1, <2>2, ChunkMissData
  <2>4. Range(cache') = Held
    BY <1>4 DEF Held
  <2> QED
    BY <2>2, <2>3, <2>4
<1> QED
  BY <1>1, <1>2, <1>3, <1>4

\* A write-back begins: its steps are added to ones that write nothing, and
\* the entry it is of stays dirty until they are done.
LEMMA WriteBackData ==
    ASSUME BaseInv, NEW e \in Held, e.dirty, NEW V, Silent(V), Silent(Work),
           NEW l, NEW v, NEW un, NEW n, NEW z,
           DataInv(Work, Held, l, mem.table, file.data, v, un, n),
           \A t \in V : t.do \notin {"evicted", "clean"} =>
               (t \in Work \/ t.do \notin {"chunk", "insert", "drop", "written"}),
           \A t \in Work : t.do \in {"chunk", "insert", "drop", "written"} => t \in V,
           Has(V, "evicted") => z = e,
           \A t \in V : t.do = "clean" => t.line = e.line
    PROVE  DataInv(CowSteps(e) \cup V, Held, z, mem.table, file.data, v, un, n)
<1>1. PICK U : U = CowSteps(e) \cup V
  OBVIOUS
<1>2. /\ geom \in Setups /\ CacheOK(cache) /\ e \in Lined
      /\ \A x \in Held : x.line = e.line => x = e
  BY BaseFacts, HeldFacts DEF Held
<1>3. \A t \in CowSteps(e) : t.do = "cow"
  BY <1>2, CowStepsFacts
<1>4. \A s, w : Writes(U, s, w) <=> s \in InLine(e.line) /\ e.data[s] = w
  <2>1. \A s, w : Writes(CowSteps(e), s, w) <=> s \in InLine(e.line) /\ e.data[s] = w
    BY <1>2, CowStepsWrite
  <2>2. \A s, w : ~Writes(V, s, w)
    BY WritesNone DEF Silent
  <2>3. \A s, w : Writes(U, s, w) <=> Writes(CowSteps(e), s, w) \/ Writes(V, s, w)
    BY <1>1 DEF Writes
  <2> QED
    BY <2>1, <2>2, <2>3
<1>5. \A t : t.do \in {"chunk", "insert", "drop", "written"} => (t \in U <=> t \in Work)
  BY <1>1, <1>3
<1>6. \A s : Coming(U, s) <=> Coming(Work, s)
  BY <1>5 DEF Coming
<1>7. \A s : Kept(U, un, v, s, n) <=> Kept(Work, un, v, s, n)
  BY <1>5, <1>6 DEF Kept, Tracked
<1>8. \A s \in InLine(e.line) : s \in Sectors /\ LineOf(s) = e.line
  BY <1>2, SectorFacts
<1>9. \A s \in InLine(e.line) : Settles(U, mem.table, file.data, s, e.data[s])
  BY <1>4 DEF Settles
<1>10. ASSUME NEW s \in Sectors, Kept(U, un, v, s, n)
       PROVE  Good(U, Held, mem.table, file.data, s, v[s])
  <2>1. Right(Held, mem.table, file.data, s, v[s])
    BY <1>7, <1>10, GoodSilent DEF DataInv
  <2>2. ASSUME \A x \in Held : x.line = LineOf(s) => ~x.dirty
        PROVE  Settles(U, mem.table, file.data, s, v[s])
    <3>1. s \notin InLine(e.line)
      BY <1>8, <2>2
    <3>2. At(mem.table, file.data, s) = v[s]
      BY <2>1, <2>2 DEF Right
    <3> QED
      BY <1>4, <3>1, <3>2 DEF Settles
  <2> QED
    BY <2>1, <2>2 DEF Good, Right
<1>11. Has(U, "evicted") => z.dirty /\ \A s \in InLine(z.line) : Settles(U, mem.table, file.data, s, z.data[s])
  <2>1. Has(U, "evicted") => Has(V, "evicted")
    BY <1>1, <1>3 DEF Has
  <2> QED
    BY <1>9, <2>1
<1>12. \A t \in U : t.do = "clean" => \A x \in Held : x.line = t.line =>
          \A s \in InLine(x.line) : Settles(U, mem.table, file.data, s, x.data[s])
  <2>1. \A t \in U : t.do = "clean" => t.line = e.line
    BY <1>1, <1>3
  <2> QED
    BY <1>2, <1>9, <2>1
<1>13. \A s \in Sectors, w \in Values : Writes(U, s, w) /\ w # Base(s) =>
          \E x \in Held : x.line = LineOf(s) /\ x.dirty
  BY <1>4, <1>8
<1>14. \A t \in U : t.do = "chunk" => \A s \in DOMAIN t.data : t.data[s] = v[s]
  BY <1>5 DEF DataInv
<1>15. \A t \in U : t.do = "insert" => \A s \in InLine(t.entry.line) :
          t.entry.dirty \/ Kept(U, un, v, s, n) => t.entry.data[s] = v[s]
  BY <1>5, <1>7 DEF DataInv
<1>16. DataInv(U, Held, z, mem.table, file.data, v, un, n)
  BY <1>10, <1>11, <1>12, <1>13, <1>14, <1>15 DEF DataInv
<1> QED
  BY <1>1, <1>16

\* The entry that goes was not modified, or what it has is on the disk.
LEMMA LeaveData ==
    ASSUME BaseInv, NEW e \in Held, NEW U, Silent(U), Silent(Work),
           NEW l, NEW v, NEW un, NEW n, NEW z,
           DataInv(Work, Held, l, mem.table, file.data, v, un, n),
           ~e.dirty \/ \A s \in InLine(e.line) : At(mem.table, file.data, s) = e.data[s],
           \A t \in U : t.do \notin {"evicted", "clean"},
           \A t : t.do \in {"chunk", "insert", "drop", "written"} => (t \in U <=> t \in Work)
    PROVE  DataInv(U, Held \ {e}, z, mem.table, file.data, v, un, n)
<1>1. PICK F : F = Held \ {e}
  OBVIOUS
<1>2. /\ geom \in Setups /\ CacheOK(cache) /\ e \in Lined
      /\ \A x \in Held : x.line = e.line => x = e
  BY BaseFacts, HeldFacts DEF Held
<1>3. \A s : Coming(U, s) <=> Coming(Work, s)
  BY DEF Coming
<1>4. \A s : Kept(U, un, v, s, n) <=> Kept(Work, un, v, s, n)
  BY <1>3 DEF Kept, Tracked
<1>5. ASSUME NEW s \in Sectors, Kept(U, un, v, s, n) PROVE Right(F, mem.table, file.data, s, v[s])
  <2>1. Right(Held, mem.table, file.data, s, v[s])
    BY <1>4, <1>5, GoodSilent DEF DataInv
  <2>2. CASE LineOf(s) = e.line
    <3>1. s \in InLine(e.line)
      BY <1>2, <2>2, SectorFacts
    <3>2. \A x \in Held : x.line = LineOf(s) => x = e
      BY <1>2, <2>2
    <3>3. At(mem.table, file.data, s) = v[s]
      BY <2>1, <2>2, <3>1, <3>2 DEF Right
    <3>4. \A x \in F : x.line # LineOf(s)
      BY <1>1, <3>2
    <3> QED
      BY <3>3, <3>4 DEF Right
  <2>3. CASE LineOf(s) # e.line
    <3>1. \A x : x.line = LineOf(s) => (x \in F <=> x \in Held)
      BY <1>1, <2>3
    <3> QED
      BY <2>1, <3>1 DEF Right
  <2> QED
    BY <2>2, <2>3
<1>6. \A t \in U : t.do = "chunk" => \A s \in DOMAIN t.data : t.data[s] = v[s]
  BY DEF DataInv
<1>7. \A t \in U : t.do = "insert" => \A s \in InLine(t.entry.line) :
          t.entry.dirty \/ Kept(U, un, v, s, n) => t.entry.data[s] = v[s]
  BY <1>4 DEF DataInv
<1>8. DataInv(U, F, z, mem.table, file.data, v, un, n)
  BY <1>5, <1>6, <1>7, DataSilent
<1> QED
  BY <1>1, <1>8

LEMMA EvictData ==
    ASSUME BaseInv, Evict, NEW v, NEW un, NEW n,
           DataInv(Work, Held, Last(cache), mem.table, file.data, v, un, n)
    PROVE  DataStep(Range(todo'), Range(cache'), Last(cache'), mem.table, file.data, v, un, n)
<1>1. /\ Work = {EvictStep} \cup Rest
      /\ (\A u \in Rest : u.do \in {"insert", "chunk", "written"})
      /\ \/ Len(cache) < geom.lines /\ cache' = cache /\ Range(todo') = Rest
         \/ /\ Len(cache) >= geom.lines /\ cache # <<>> /\ ~Last(cache).dirty
            /\ cache' = Front(cache) /\ Range(todo') = Work
         \/ /\ Len(cache) >= geom.lines /\ cache # <<>> /\ Last(cache).dirty
            /\ cache' = cache
            /\ Range(todo') = CowSteps(Last(cache)) \cup {EvictedStep} \cup Work
  BY EvictEffect
<1>2. EvictStep.do = "evict" /\ EvictedStep.do = "evicted"
  BY DEF EvictStep, EvictedStep
<1>3. \A t \in Work : t.do \in {"evict", "insert", "chunk", "written"}
  BY <1>1, <1>2
<1>4. Silent(Work) /\ Silent(Rest)
  BY <1>1, <1>3 DEF Silent
<1>5. CASE cache' = cache /\ Range(todo') = Rest
  <2>1. Range(cache') = Held
    BY <1>5 DEF Held
  <2>2. SameCaching(Work, Rest)
    BY <1>1, <1>2 DEF SameCaching, Caching
  <2>3. \A s \in Sectors : \A x : Settles(Work, mem.table, file.data, s, x) => Settles(Rest, mem.table, file.data, s, x)
    BY <1>4, SettlesSilent
  <2>4. \A s, w : ~Writes(Rest, s, w)
    BY <1>4, WritesNone DEF Silent
  <2>5. DataInv(Rest, Held, Last(cache), mem.table, file.data, v, un, n)
    BY <2>2, <2>3, <2>4, DropBlocks, DataKeep
  <2>6. DropInv(Rest, Held, mem.table, un)
    BY <1>1, DropNone
  <2> QED
    BY <1>5, <2>1, <2>5, <2>6 DEF DataStep
<1>6. CASE cache # <<>> /\ ~Last(cache).dirty /\ cache' = Front(cache) /\ Range(todo') = Work
  <2>1. PICK e \in Held : e = Last(cache) /\ Range(Front(cache)) = Held \ {e}
    BY <1>6, BaseFacts, FrontFacts
  <2>2. ASSUME NEW z PROVE DataInv(Work, Held \ {e}, z, mem.table, file.data, v, un, n)
    <3>1. ~e.dirty /\ \A t \in Work : t.do \notin {"evicted", "clean"}
      BY <1>3, <1>6, <2>1
    <3> QED
      BY <1>4, <3>1, LeaveData
  <2>3. DropInv(Work, Held \ {e}, mem.table, un)
    BY <1>3, DropNone
  <2> QED
    BY <1>6, <2>1, <2>2, <2>3 DEF DataStep
<1>7. CASE /\ cache # <<>> /\ Last(cache).dirty
           /\ cache' = cache
           /\ Range(todo') = CowSteps(Last(cache)) \cup {EvictedStep} \cup Work
  <2>1. PICK e \in Held : e = Last(cache)
    BY <1>7, BaseFacts, FrontFacts
  <2>2. PICK V : V = {EvictedStep} \cup Work
    OBVIOUS
  <2>3. \A t \in V : t.do \in {"evicted", "evict", "insert", "chunk", "written"} /\ (t.do # "evicted" => t \in Work)
    BY <1>2, <1>3, <2>2
  <2>4. Silent(V)
    BY <2>3 DEF Silent
  <2>5. \A t \in Work : t \in V
    BY <2>2
  <2>6. DataInv(CowSteps(e) \cup V, Held, e, mem.table, file.data, v, un, n)
    BY <1>4, <1>7, <2>1, <2>3, <2>4, <2>5, WriteBackData
  <2>7. PICK U : U = CowSteps(e) \cup V
    OBVIOUS
  <2>8. U = Range(todo') /\ Range(cache') = Held /\ Last(cache') = e
    BY <1>7, <2>1, <2>2, <2>7 DEF Held
  <2>9. \A t \in U : t.do \notin {"drop", "dealloc", "flushed"}
    <3>1. \A t \in CowSteps(e) : t.do = "cow"
      BY BaseFacts, HeldFacts, CowStepsFacts DEF Held
    <3> QED
      BY <2>3, <2>7, <3>1
  <2>10. DropInv(U, Held, mem.table, un)
    BY <2>9, DropNone
  <2> QED
    BY <2>6, <2>7, <2>8, <2>10 DEF DataStep
<1> QED
  BY <1>1, <1>5, <1>6, <1>7

LEMMA EvictedData ==
    ASSUME BaseInv, Evicted, NEW v, NEW un, NEW n, NEW z,
           DataInv(Work, Held, Last(cache), mem.table, file.data, v, un, n)
    PROVE  DataStep(Range(todo'), Range(cache'), z, mem.table, file.data, v, un, n)
<1>1. /\ Step.do = "evicted" /\ Work = {Step} \cup Rest
      /\ (\A u \in Rest : u.do \in {"evict", "insert", "chunk", "written"})
      /\ cache # <<>> /\ cache' = Front(cache) /\ Range(todo') = Rest
  BY EvictedEffect
<1>2. PICK e \in Held : e = Last(cache) /\ Range(Front(cache)) = Held \ {e}
  BY <1>1, BaseFacts, FrontFacts
<1>3. Silent(Work) /\ Silent(Rest) /\ Has(Work, "evicted")
  BY <1>1 DEF Silent, Has
<1>4. \A s \in InLine(e.line) : At(mem.table, file.data, s) = e.data[s]
  <2>1. \A s \in InLine(e.line) : Settles(Work, mem.table, file.data, s, e.data[s])
    BY <1>2, <1>3 DEF DataInv
  <2> QED
    BY <1>3, <2>1, SettlesSilent
<1>5. /\ \A t \in Rest : t.do \notin {"evicted", "clean", "drop", "dealloc", "flushed"}
      /\ \A t : t.do \in {"chunk", "insert", "drop", "written"} => (t \in Rest <=> t \in Work)
  BY <1>1
<1>6. DataInv(Rest, Held \ {e}, z, mem.table, file.data, v, un, n)
  BY <1>3, <1>4, <1>5, LeaveData
<1>7. DropInv(Rest, Held \ {e}, mem.table, un)
  BY <1>5, DropNone
<1> QED
  BY <1>1, <1>2, <1>6, <1>7 DEF DataStep

LEMMA InsertData ==
    ASSUME BaseInv, InsertEntry, NEW l, NEW v, NEW un, NEW n, NEW z,
           DataInv(Work, Held, l, mem.table, file.data, v, un, n)
    PROVE  DataStep(Range(todo'), Range(cache'), z, mem.table, file.data, v, un, n)
<1>1. PICK e \in Lined :
             /\ Step.do = "insert" /\ Step.entry = e
             /\ Work = {Step} \cup Rest /\ Range(todo') = Rest
             /\ (\A u \in Rest : u.do \in {"chunk", "written"})
             /\ (\A x \in Held : x.line # e.line)
             /\ cache' = <<e>> \o cache
  BY InsertEffect
<1>2. geom \in Setups /\ CacheOK(cache) /\ DOMAIN e.data = InLine(e.line)
  BY BaseFacts, LinedFacts
<1>3. PICK F : F = {e} \cup Held /\ F = Range(cache')
  BY <1>1, <1>2, ConsFacts DEF Held
<1>4. Silent(Work) /\ Silent(Rest)
  BY <1>1 DEF Silent
<1>5. /\ \A t \in Rest : t.do \notin {"evicted", "clean", "drop", "dealloc", "flushed", "insert"}
      /\ \A t : t.do \in {"drop", "written"} => (t \in Rest <=> t \in Work)
  BY <1>1
<1>6. ASSUME NEW s \in Sectors, Kept(Rest, un, v, s, n) PROVE Right(F, mem.table, file.data, s, v[s])
  <2>1. CASE LineOf(s) = e.line
    <3>1. s \in InLine(e.line)
      BY <1>2, <2>1, SectorFacts
    <3>2. \A x \in F : x.line = LineOf(s) => x = e
      BY <1>1, <1>3, <2>1
    <3>3. CASE e.dirty
      <4>1. e.data[s] = v[s]
        BY <1>1, <3>1, <3>3 DEF DataInv
      <4> QED
        BY <1>3, <2>1, <3>2, <3>3, <4>1 DEF Right
    <3>4. CASE ~e.dirty
      <4>1. Coming(Work, s) => Coming(Rest, s)
        BY <1>1, <3>4 DEF Coming
      <4>2. Kept(Work, un, v, s, n)
        BY <1>5, <1>6, <4>1, KeptComing
      <4>3. e.data[s] = v[s]
        BY <1>1, <3>1, <4>2 DEF DataInv
      <4>4. Right(Held, mem.table, file.data, s, v[s])
        BY <1>4, <4>2, GoodSilent DEF DataInv
      <4>5. At(mem.table, file.data, s) = v[s]
        BY <1>1, <2>1, <4>4 DEF Right
      <4> QED
        BY <3>2, <4>3, <4>5 DEF Right
    <3> QED
      BY <3>3, <3>4
  <2>2. CASE LineOf(s) # e.line
    <3>1. s \notin InLine(e.line)
      BY <1>2, <2>2, SectorFacts
    <3>2. Coming(Work, s) => Coming(Rest, s)
      BY <1>1, <1>2, <3>1 DEF Coming
    <3>3. Kept(Work, un, v, s, n)
      BY <1>5, <1>6, <3>2, KeptComing
    <3>4. Right(Held, mem.table, file.data, s, v[s])
      BY <1>4, <3>3, GoodSilent DEF DataInv
    <3>5. \A x : x.line = LineOf(s) => (x \in F <=> x \in Held)
      BY <1>3, <2>2
    <3> QED
      BY <3>4, <3>5 DEF Right
  <2> QED
    BY <2>1, <2>2
<1>7. \A t \in Rest : t.do = "chunk" => \A s \in DOMAIN t.data : t.data[s] = v[s]
  BY <1>1 DEF DataInv
<1>8. DataInv(Rest, F, z, mem.table, file.data, v, un, n)
  BY <1>4, <1>5, <1>6, <1>7, DataSilent
<1>9. DropInv(Rest, F, mem.table, un)
  BY <1>5, DropNone
<1> QED
  BY <1>1, <1>3, <1>8, <1>9 DEF DataStep

\* An entry that is only moved to the front.
LEMMA PromotedSelf ==
    ASSUME CacheOK(cache), NEW e \in Held
    PROVE  /\ Range(Promoted(e)) = Held /\ e \in Lined
           /\ \A x \in Held : x.line = e.line => x = e
<1>1. e \in Lined /\ \A x \in Held : x.line = e.line => x = e
  BY HeldFacts DEF Held
<1>2. Range(Promoted(e)) = {e} \cup {x \in Held : x.line # e.line}
  BY <1>1, PromotedFacts
<1> QED
  BY <1>1, <1>2

LEMMA SyncData ==
    ASSUME BaseInv, SyncLine, NEW l, NEW v, NEW un, NEW n, NEW z,
           DataStep(Work, Held, l, mem.table, file.data, v, un, n)
    PROVE  DataStep(Range(todo'), Range(cache'), z, mem.table, file.data, v, un, n)
<1>1. PICK e \in Held :
             /\ Step.do = "sync" /\ Step.line = e.line
             /\ Work = {Step} \cup Rest /\ (\A u \in Rest : u.do \in SyncRest)
             /\ cache' = Promoted(e)
             /\ Range(todo') = (IF e.dirty THEN CowSteps(e) \cup {CleanStep(e.line)} ELSE {}) \cup Rest
  BY SyncEffect
<1>2. CacheOK(cache) /\ geom \in Setups
  BY BaseFacts
<1>3. Range(Promoted(e)) = Held /\ e \in Lined /\ \A x \in Held : x.line = e.line => x = e
  BY <1>2, PromotedSelf
<1>4. CleanStep(e.line).do = "clean" /\ CleanStep(e.line).line = e.line
  BY DEF CleanStep
<1>5. \A t \in CowSteps(e) : t.do = "cow"
  BY <1>2, <1>3, CowStepsFacts
<1>6. PICK U : U = Range(todo')
  OBVIOUS
<1>7. /\ \A t \in Rest : t \in U
      /\ \A t \in U : t.do \notin {"cow", "clean"} => t \in Rest
      /\ e.dirty => \E u \in U : u.do = "clean" /\ u.line = e.line
  BY <1>1, <1>4, <1>5, <1>6
<1>8. Silent(Work) /\ Silent(Rest)
  BY <1>1 DEF Silent, SyncRest
<1>9. DataInv(Work, Held, l, mem.table, file.data, v, un, n)
  BY DEF DataStep
<1>10. DataInv(U, Held, z, mem.table, file.data, v, un, n)
  <2>1. CASE e.dirty
    <3>1. PICK V : V = {CleanStep(e.line)} \cup Rest
      OBVIOUS
    <3>2. \A t \in V : (t.do = "clean" /\ t.line = e.line) \/ t \in Rest
      BY <1>4, <3>1
    <3>3. /\ Silent(V)
          /\ \A t \in V : t.do \notin {"evicted", "clean"} =>
               (t \in Work \/ t.do \notin {"chunk", "insert", "drop", "written"})
          /\ \A t \in Work : t.do \in {"chunk", "insert", "drop", "written"} => t \in V
          /\ ~Has(V, "evicted")
          /\ \A t \in V : t.do = "clean" => t.line = e.line
      BY <1>1, <3>1, <3>2 DEF Silent, Has, SyncRest
    <3>4. DataInv(CowSteps(e) \cup V, Held, z, mem.table, file.data, v, un, n)
      BY <1>8, <1>9, <2>1, <3>3, WriteBackData
    <3>5. U = CowSteps(e) \cup V
      BY <1>1, <1>6, <2>1, <3>1
    <3> QED
      BY <3>4, <3>5
  <2>2. CASE ~e.dirty
    <3>1. U = Rest
      BY <1>1, <1>6, <2>2
    <3>2. SameCaching(Work, Rest)
      BY <1>1 DEF SameCaching, Caching
    <3>3. \A s \in Sectors : \A x : Settles(Work, mem.table, file.data, s, x) => Settles(Rest, mem.table, file.data, s, x)
      BY <1>8, SettlesSilent
    <3>4. \A s, w : ~Writes(Rest, s, w)
      BY <1>8, WritesNone DEF Silent
    <3>5. DataInv(Rest, Held, l, mem.table, file.data, v, un, n)
      BY <1>9, <3>2, <3>3, <3>4, DropBlocks, DataKeep
    <3>6. ~Has(Rest, "evicted")
      BY <1>1 DEF Has, SyncRest
    <3>7. DataInv(Rest, Held, z, mem.table, file.data, v, un, n)
      BY <3>5, <3>6 DEF DataInv
    <3> QED
      BY <3>1, <3>7
  <2> QED
    BY <2>1, <2>2
<1>11. DropInv(U, Held, mem.table, un)
  <2>1. DropInv(Work, Held, mem.table, un)
    BY DEF DataStep
  <2>2. ASSUME NEW x \in Held, x.dirty, NEW u \in Work, u.do \in {"sync", "clean"}, u.line = x.line
        PROVE  \E t \in U : t.do \in {"sync", "clean"} /\ t.line = x.line
    BY <1>1, <1>3, <1>7, <2>2
  <2>3. ASSUME NEW t \in U, t.do = "drop"
        PROVE /\ \A x \in Held : x.line \in t.lines /\ x.dirty =>
                    \E u \in U : u.do \in {"sync", "clean"} /\ u.line = x.line
              /\ \A b \in t.blocks : \E u \in U : u.do = "dealloc" /\ u.block = b
              /\ \A b \in t.blocks : \A s \in SectorsOf(b) : s \in un /\ LineOf(s) \in t.lines
              /\ \A s \in t.sure : LineOf(s) \in t.lines
    <3>1. t \in Work /\ t \in Rest
      BY <1>1, <1>7, <2>3
    <3>2. \A x \in Held : x.line \in t.lines /\ x.dirty =>
                    \E u \in Work : u.do \in {"sync", "clean"} /\ u.line = x.line
      BY <2>1, <2>3, <3>1 DEF DropInv
    <3>3. \A b \in t.blocks : \E u \in Work : u.do = "dealloc" /\ u.block = b
      BY <1>1, <2>1, <2>3, <3>1 DEF DropInv
    <3>4. \A u \in Work : u.do = "dealloc" => u \in U
      BY <1>1, <1>7
    <3>5. /\ \A b \in t.blocks : \A s \in SectorsOf(b) : s \in un /\ LineOf(s) \in t.lines
          /\ \A s \in t.sure : LineOf(s) \in t.lines
      BY <2>1, <2>3, <3>1 DEF DropInv
    <3> QED
      BY <2>2, <3>2, <3>3, <3>4, <3>5
  <2>4. ASSUME NEW u \in U, u.do = "dealloc" PROVE \E t \in U : t.do = "drop" /\ u.block \in t.blocks
    <3>1. u \in Work
      BY <1>1, <1>7, <2>4
    <3>2. PICK t \in Work : t.do = "drop" /\ u.block \in t.blocks
      BY <2>1, <2>4, <3>1 DEF DropInv
    <3> QED
      BY <1>1, <1>7, <3>2
  <2>5. ASSUME NEW t \in U, t.do = "flushed", NEW x \in Held, x.dirty
        PROVE  \E u \in U : u.do \in {"sync", "clean"} /\ u.line = x.line
    <3>1. t \in Work
      BY <1>1, <1>7, <2>5
    <3>2. \E u \in Work : u.do \in {"sync", "clean"} /\ u.line = x.line
      BY <2>1, <2>5, <3>1 DEF DropInv
    <3> QED
      BY <2>2, <2>5, <3>2
  <2> QED
    BY <2>3, <2>4, <2>5 DEF DropInv
<1> QED
  BY <1>1, <1>3, <1>6, <1>10, <1>11 DEF DataStep

LEMMA CleanData ==
    ASSUME BaseInv, CleanLine, NEW l, NEW v, NEW un, NEW n, NEW z,
           DataStep(Work, Held, l, mem.table, file.data, v, un, n)
    PROVE  DataStep(Range(todo'), Range(cache'), z, mem.table, file.data, v, un, n)
<1>1. PICK e \in Held :
             /\ Step.do = "clean" /\ Step.line = e.line /\ e \in Lined
             /\ Work = {Step} \cup Rest /\ (\A u \in Rest : u.do \in SyncRest)
             /\ cache' = Promoted(Cleaned(e)) /\ Range(todo') = Rest
  BY CleanEffect
<1>2. /\ CacheOK(cache) /\ geom \in Setups /\ \A x \in Held : x.line = e.line => x = e
  BY BaseFacts, PromotedSelf
<1>3. PICK c : c = Cleaned(e)
  OBVIOUS
<1>4. c \in Lined /\ c.line = e.line /\ c.data = e.data /\ c.dirty = FALSE
  BY <1>1, <1>3, CleanedFacts
<1>5. PICK F : F = Range(cache')
  OBVIOUS
<1>6. F = {c} \cup {x \in Held : x.line # e.line}
  BY <1>1, <1>2, <1>3, <1>4, <1>5, PromotedFacts
<1>7. Silent(Work) /\ Silent(Rest)
  BY <1>1 DEF Silent, SyncRest
<1>8. DataInv(Work, Held, l, mem.table, file.data, v, un, n) /\ DropInv(Work, Held, mem.table, un)
  BY DEF DataStep
<1>9. \A s \in InLine(e.line) : At(mem.table, file.data, s) = e.data[s]
  <2>1. \A s \in InLine(e.line) : Settles(Work, mem.table, file.data, s, e.data[s])
    BY <1>1, <1>8 DEF DataInv
  <2> QED
    BY <1>7, <2>1, SettlesSilent
<1>10. DataInv(Rest, F, z, mem.table, file.data, v, un, n)
  <2>2. \A t \in Rest : t.do \notin {"evicted", "clean", "chunk", "insert"}
    BY <1>1 DEF SyncRest
  <2>3. \A s : Kept(Rest, un, v, s, n) => Kept(Work, un, v, s, n)
    <3>1. \A t : t.do \in {"drop", "written"} => (t \in Rest <=> t \in Work)
      BY <1>1
    <3>2. \A s : Coming(Work, s) => Coming(Rest, s)
      BY <1>1 DEF Coming
    <3> QED
      BY <3>1, <3>2, KeptComing
  <2>4. ASSUME NEW s \in Sectors, Kept(Rest, un, v, s, n) PROVE Right(F, mem.table, file.data, s, v[s])
    <3>1. Right(Held, mem.table, file.data, s, v[s])
      BY <1>7, <1>8, <2>3, <2>4, GoodSilent DEF DataInv
    <3>2. CASE LineOf(s) = e.line
      <4>1. s \in InLine(e.line)
        BY <1>2, <3>2, SectorFacts
      <4>2. e.data[s] = v[s]
        BY <3>1, <3>2 DEF Right
      <4>3. \A x \in F : x.line = LineOf(s) => x.data[s] = v[s]
        BY <1>4, <1>6, <3>2, <4>2
      <4> QED
        BY <1>9, <4>1, <4>2, <4>3 DEF Right
    <3>3. CASE LineOf(s) # e.line
      <4>1. \A x : x.line = LineOf(s) => (x \in F <=> x \in Held)
        BY <1>4, <1>6, <3>3
      <4> QED
        BY <3>1, <4>1 DEF Right
    <3> QED
      BY <3>2, <3>3
  <2> QED
    BY <1>7, <2>2, <2>4, DataSilent
<1>11. DropInv(Rest, F, mem.table, un)
  <2>1. \A x \in F : x.dirty => x \in Held /\ x.line # e.line
    BY <1>4, <1>6
  <2>2. ASSUME NEW x \in F, x.dirty, NEW u \in Work, u.do \in {"sync", "clean"}, u.line = x.line
        PROVE  \E t \in Rest : t.do \in {"sync", "clean"} /\ t.line = x.line
    BY <1>1, <2>1, <2>2
  <2>3. ASSUME NEW t \in Rest, t.do = "drop"
        PROVE /\ \A x \in F : x.line \in t.lines /\ x.dirty =>
                    \E u \in Rest : u.do \in {"sync", "clean"} /\ u.line = x.line
              /\ \A b \in t.blocks : \/ \E u \in Rest : u.do = "dealloc" /\ u.block = b
                                     \/ mem.table[b] = None /\ \A u \in Rest : u.do \notin {"sync", "cow"}
              /\ \A b \in t.blocks : \A s \in SectorsOf(b) : s \in un /\ LineOf(s) \in t.lines
              /\ \A s \in t.sure : LineOf(s) \in t.lines
    <3>1. t \in Work /\ \A u \in Rest : u \in Work
      BY <1>1
    <3>2. \A x \in Held : x.line \in t.lines /\ x.dirty =>
                    \E u \in Work : u.do \in {"sync", "clean"} /\ u.line = x.line
      BY <1>8, <2>3, <3>1 DEF DropInv
    <3>3. \A b \in t.blocks : \/ \E u \in Work : u.do = "dealloc" /\ u.block = b
                              \/ mem.table[b] = None /\ \A u \in Work : u.do \notin {"sync", "cow"}
      BY <1>8, <2>3, <3>1 DEF DropInv
    <3>4. \A u \in Work : u.do = "dealloc" => u \in Rest
      BY <1>1
    <3>5. /\ \A b \in t.blocks : \A s \in SectorsOf(b) : s \in un /\ LineOf(s) \in t.lines
          /\ \A s \in t.sure : LineOf(s) \in t.lines
      BY <1>8, <2>3, <3>1 DEF DropInv
    <3> QED
      BY <2>1, <2>2, <3>1, <3>2, <3>3, <3>4, <3>5
  <2>4. ASSUME NEW u \in Rest, u.do = "dealloc" PROVE \E t \in Rest : t.do = "drop" /\ u.block \in t.blocks
    BY <1>1, <1>8, <2>4 DEF DropInv
  <2>5. ASSUME NEW t \in Rest, t.do = "flushed", NEW x \in F, x.dirty
        PROVE  \E u \in Rest : u.do \in {"sync", "clean"} /\ u.line = x.line
    <3>1. t \in Work /\ x \in Held
      BY <1>1, <2>1, <2>5
    <3>2. \E u \in Work : u.do \in {"sync", "clean"} /\ u.line = x.line
      BY <1>8, <2>5, <3>1 DEF DropInv
    <3> QED
      BY <2>2, <2>5, <3>2
  <2> QED
    BY <2>3, <2>4, <2>5 DEF DropInv
<1> QED
  BY <1>1, <1>5, <1>10, <1>11 DEF DataStep

-----------------------------------------------------------------------------
(* A call returns, or begins *)

\* The last step of a call leaves nothing to do.
LEMMA ReturnData ==
    ASSUME NEW T, Silent(T), NEW E, NEW F, NEW l, NEW tb, NEW d, NEW v, NEW w, NEW un, NEW up, NEW n, NEW z,
           DataInv(T, E, l, tb, d, v, un, n),
           \A s \in Sectors : Kept({}, up, w, s, n) =>
              \/ Right(F, tb, d, s, w[s])
              \/ F = E /\ w[s] = v[s] /\ Kept(T, un, v, s, n)
    PROVE  DataStep({}, F, z, tb, d, w, up, n)
<1>1. \A s \in Sectors : Kept(T, un, v, s, n) => Right(E, tb, d, s, v[s])
  BY GoodSilent DEF DataInv
<1>2. \A s \in Sectors : Kept({}, up, w, s, n) => Right(F, tb, d, s, w[s])
  BY <1>1
<1>3. Silent({})
  BY DEF Silent
<1>4. DataInv({}, F, z, tb, d, w, up, n)
  BY <1>2, <1>3, DataSilent
<1>5. DropInv({}, F, tb, up)
  BY DropNone
<1> QED
  BY <1>4, <1>5 DEF DataStep

LEMMA FlushedData ==
    ASSUME BaseInv, FlushReturns, NEW l, NEW n, NEW z,
           DataStep(Work, Held, l, mem.table, file.data, vol, unsure, n)
    PROVE  DataStep(Range(todo'), Range(cache'), z, mem.table, file.data, vol', unsure', n)
<1>1. Step.do = "flushed" /\ Work = {Step} /\ Range(todo') = {}
  BY LastEffect DEF FlushReturns
<1>2. Silent(Work) /\ DataInv(Work, Held, l, mem.table, file.data, vol, unsure, n)
  BY <1>1 DEF Silent, DataStep
<1>3. \A s \in Sectors : Kept({}, unsure, vol, s, n) => Kept(Work, unsure, vol, s, n)
  BY DEF Kept, Tracked
<1>4. DataStep({}, Held, z, mem.table, file.data, vol, unsure, n)
  BY <1>2, <1>3, ReturnData
<1>5. Range(cache') = Held /\ vol' = vol /\ unsure' = unsure
  BY DEF FlushReturns, Held
<1> QED
  BY <1>1, <1>4, <1>5

LEMMA WrittenData ==
    ASSUME BaseInv, WriteReturns, NEW l, NEW n, NEW z,
           DataStep(Work, Held, l, mem.table, file.data, vol, unsure, n)
    PROVE  DataStep(Range(todo'), Range(cache'), z, mem.table, file.data, vol', unsure', n)
<1>1. Step.do = "written" /\ Work = {Step} /\ Range(todo') = {}
  BY LastEffect DEF WriteReturns
<1>2. Silent(Work) /\ DataInv(Work, Held, l, mem.table, file.data, vol, unsure, n)
  BY <1>1 DEF Silent, DataStep
<1>3. PICK up : up = unsure \ Step.sure
  OBVIOUS
<1>4. \A s : ~Coming(Work, s)
  BY <1>1 DEF Coming
<1>5. \A s \in Sectors : Kept({}, up, vol, s, n) => Kept(Work, unsure, vol, s, n)
  BY <1>1, <1>3, <1>4 DEF Kept, Tracked
<1>6. DataStep({}, Held, z, mem.table, file.data, vol, up, n)
  BY <1>2, <1>5, ReturnData
<1>7. Range(cache') = Held /\ vol' = vol /\ unsure' = up
  BY <1>3 DEF WriteReturns, Held
<1> QED
  BY <1>1, <1>6, <1>7

\* The lines that a discard drops are written back or hold discarded data.
LEMMA DropData ==
    ASSUME BaseInv, DropLines, NEW l, NEW n, NEW z,
           DataStep(Work, Held, l, mem.table, file.data, vol, unsure, n)
    PROVE  DataStep(Range(todo'), Range(cache'), z, mem.table, file.data, vol', unsure', n)
<1>1. Step.do = "drop" /\ Work = {Step} /\ Range(todo') = {}
  BY LastEffect DEF DropLines
<1>2. /\ Silent(Work) /\ DataInv(Work, Held, l, mem.table, file.data, vol, unsure, n)
      /\ DropInv(Work, Held, mem.table, unsure)
  BY <1>1 DEF Silent, DataStep
<1>3. PICK up, w, F : up = unsure \ Step.sure /\ w = vol' /\ F = Range(cache')
  OBVIOUS
<1>4. \A x : x \in F <=> x \in Held /\ x.line \notin Step.lines
  BY <1>3, BaseFacts, DroppedFacts DEF DropLines
<1>5. \A s \in Sectors : w[s] = IF BlockOf(s) \in Step.blocks THEN Base(s) ELSE vol[s]
  BY <1>3 DEF DropLines
<1>6. /\ \A x \in Held : x.line \in Step.lines => ~x.dirty
      /\ \A b \in Step.blocks : mem.table[b] = None
      /\ \A b \in Step.blocks : \A s \in SectorsOf(b) : LineOf(s) \in Step.lines
      /\ \A s \in Step.sure : LineOf(s) \in Step.lines
  BY <1>1, <1>2 DEF DropInv
<1>7. ASSUME NEW s \in Sectors, Kept({}, up, w, s, n) PROVE Right(F, mem.table, file.data, s, w[s])
  <2>1. CASE BlockOf(s) \in Step.blocks
    <3>1. s \in SectorsOf(BlockOf(s))
      BY BaseFacts, SectorFacts
    <3>2. LineOf(s) \in Step.lines /\ At(mem.table, file.data, s) = Base(s)
      BY <1>6, <2>1, <3>1 DEF At
    <3>3. \A x \in F : x.line # LineOf(s)
      BY <1>4, <3>2
    <3> QED
      BY <1>5, <2>1, <3>2, <3>3 DEF Right
  <2>2. CASE BlockOf(s) \notin Step.blocks
    <3>1. w[s] = vol[s]
      BY <1>5, <2>2
    <3>2. Kept(Work, unsure, vol, s, n)
      BY <1>1, <1>3, <1>7, <2>2, <3>1 DEF Kept, Tracked
    <3>3. Right(Held, mem.table, file.data, s, vol[s])
      BY <1>2, <3>2, GoodSilent DEF DataInv
    <3>4. CASE LineOf(s) \in Step.lines
      <4>1. At(mem.table, file.data, s) = vol[s]
        BY <1>6, <3>3, <3>4 DEF Right
      <4>2. \A x \in F : x.line # LineOf(s)
        BY <1>4, <3>4
      <4> QED
        BY <3>1, <4>1, <4>2 DEF Right
    <3>5. CASE LineOf(s) \notin Step.lines
      <4>1. \A x : x.line = LineOf(s) => (x \in F <=> x \in Held)
        BY <1>4, <3>5
      <4> QED
        BY <3>1, <3>3, <4>1 DEF Right
    <3> QED
      BY <3>4, <3>5
  <2> QED
    BY <2>1, <2>2
<1>8. DataStep({}, F, z, mem.table, file.data, w, up, n)
  BY <1>2, <1>7, ReturnData
<1>9. unsure' = up
  BY <1>3 DEF DropLines
<1> QED
  BY <1>1, <1>3, <1>8, <1>9

\* A call begins: the steps write nothing yet.
LEMMA BeginData ==
    ASSUME BaseInv, Work = {}, NEW l, NEW n, NEW z,
           DataStep(Work, Held, l, mem.table, file.data, vol, unsure, n),
           NEW U, NEW w, NEW up, \A t \in U : t.do \notin {"put", "cow", "evicted", "clean", "insert"},
           \A s \in Sectors : Kept(U, up, w, s, n) => s \notin unsure /\ w[s] = vol[s],
           \A t \in U : t.do = "chunk" => \A s \in DOMAIN t.data : t.data[s] = w[s],
           DropInv(U, Held, mem.table, up)
    PROVE  DataStep(U, Held, z, mem.table, file.data, w, up, n)
<1>1. Silent(Work) /\ Silent(U) /\ DataInv(Work, Held, l, mem.table, file.data, vol, unsure, n)
  BY DEF Silent, DataStep
<1>2. \A s \in Sectors : Kept(U, up, w, s, n) => Kept(Work, unsure, vol, s, n)
  BY DEF Kept, Tracked
<1>3. \A s \in Sectors : Kept(U, up, w, s, n) => Right(Held, mem.table, file.data, s, w[s])
  BY <1>1, <1>2, GoodSilent DEF DataInv
<1>4. DataInv(U, Held, z, mem.table, file.data, w, up, n)
  BY <1>1, <1>3, DataSilent
<1> QED
  BY <1>4 DEF DataStep

LEMMA ReadData ==
    ASSUME BaseInv, NEW r \in Sectors, ReadAt(r), NEW l, NEW n, NEW z,
           DataStep(Work, Held, l, mem.table, file.data, vol, unsure, n)
    PROVE  DataStep(Range(todo'), Held, z, mem.table, file.data, vol', unsure', n)
<1>1. Work = {} /\ Range(todo') = {LoadStep(LineOf(r))} /\ vol' = vol /\ unsure' = unsure
  BY ReadEffect, IdleFacts DEF ReadAt, history
<1>2. PICK U : U = Range(todo')
  OBVIOUS
<1>3. \A t \in U : t.do = "load"
  BY <1>1, <1>2 DEF LoadStep
<1>4. \A s \in Sectors : Kept(U, unsure, vol, s, n) => s \notin unsure
  BY <1>3 DEF Kept, Tracked
<1>5. DropInv(U, Held, mem.table, unsure)
  BY <1>3, DropNone
<1>6. DataStep(U, Held, z, mem.table, file.data, vol, unsure, n)
  BY <1>1, <1>3, <1>4, <1>5, BeginData
<1> QED
  BY <1>1, <1>2, <1>6

LEMMA WriteCallData ==
    ASSUME BaseInv, NEW first \in Sectors, NEW last \in Sectors, NEW v \in 1 .. MaxVersion,
           WriteAt(first, last, v), NEW l, NEW n, NEW z,
           DataStep(Work, Held, l, mem.table, file.data, vol, unsure, n)
    PROVE  DataStep(Range(todo'), Held, z, mem.table, file.data, vol', unsure', n)
<1>1. PICK f : f = WriteData(first, last, v)
  OBVIOUS
<1>2. /\ Range(todo') = {ChunkStep(f, k) : k \in LinesIn(f)} \cup {WrittenStep(first .. last)}
      /\ unsure' = unsure \cup (first .. last)
      /\ \A s \in Sectors : vol'[s] = IF s \in first .. last THEN <<s, v>> ELSE vol[s]
  BY <1>1, WriteEffect
<1>3. PICK U, w, up : U = Range(todo') /\ w = vol' /\ up = unsure'
  OBVIOUS
<1>4. /\ \A k : ChunkStep(f, k).do = "chunk"
      /\ \A k : ChunkStep(f, k).data = [s \in {t \in DOMAIN f : LineOf(t) = k} |-> f[s]]
      /\ WrittenStep(first .. last).do = "written" /\ WrittenStep(first .. last).sure = first .. last
  BY DEF ChunkStep, WrittenStep
<1>5. Work = {}
  BY IdleFacts DEF WriteAt
<1>6. DOMAIN f = first .. last /\ first .. last \in SUBSET Sectors /\ \A s \in first .. last : f[s] = <<s, v>>
  BY <1>1, BaseFacts, WriteDataFacts
<1>7. \A t \in U : t = WrittenStep(first .. last) \/ \E k : t = ChunkStep(f, k)
  BY <1>2, <1>3
<1>8. \A t \in U : t.do \in {"chunk", "written"} /\ (t.do = "written" => t.sure = first .. last)
  BY <1>4, <1>7
<1>9. ASSUME NEW t \in U, t.do = "chunk", NEW s \in DOMAIN t.data PROVE t.data[s] = w[s]
  <2>1. PICK k : t = ChunkStep(f, k)
    BY <1>4, <1>7, <1>9
  <2>2. t.data = [r \in {x \in DOMAIN f : LineOf(x) = k} |-> f[r]]
    BY <1>4, <2>1
  <2>3. s \in first .. last /\ t.data[s] = f[s]
    BY <1>6, <1>9, <2>2
  <2> QED
    BY <1>2, <1>3, <1>6, <2>3
<1>10. ASSUME NEW s \in first .. last PROVE Coming(U, s)
  <2>1. LineOf(s) \in LinesIn(f)
    BY <1>6 DEF LinesIn
  <2>2. PICK t : t = ChunkStep(f, LineOf(s))
    OBVIOUS
  <2>3. t \in U
    BY <1>2, <1>3, <2>1, <2>2
  <2>4. t.do = "chunk" /\ t.data = [r \in {x \in DOMAIN f : LineOf(x) = LineOf(s)} |-> f[r]]
    BY <1>4, <2>2
  <2>5. s \in DOMAIN t.data
    BY <1>6, <2>4
  <2> QED
    BY <2>3, <2>4, <2>5 DEF Coming
<1>11. ASSUME NEW s \in Sectors, Kept(U, up, w, s, n) PROVE s \notin unsure /\ w[s] = vol[s]
  <2>1. s \notin up
    BY <1>8, <1>10, <1>11 DEF Kept, Tracked
  <2> QED
    BY <1>2, <1>3, <2>1
<1>12. DropInv(U, Held, mem.table, up)
  BY <1>8, DropNone
<1>13. DataStep(U, Held, z, mem.table, file.data, w, up, n)
  BY <1>5, <1>8, <1>9, <1>11, <1>12, BeginData
<1> QED
  BY <1>3, <1>13

LEMMA FlushCallData ==
    ASSUME BaseInv, Flush, NEW l, NEW n, NEW z,
           DataStep(Work, Held, l, mem.table, file.data, vol, unsure, n)
    PROVE  DataStep(Range(todo'), Held, z, mem.table, file.data, vol', unsure', n)
<1>1. /\ Work = {} /\ Range(todo') = SyncsOf(Lines) \cup {FlushedStep}
      /\ vol' = vol /\ unsure' = unsure
  BY FlushEffect, IdleFacts DEF Flush, history
<1>2. PICK U : U = Range(todo')
  OBVIOUS
<1>3. /\ \A k : SyncStep(k).do = "sync" /\ SyncStep(k).line = k
      /\ FlushedStep.do = "flushed"
  BY DEF SyncStep, FlushedStep
<1>4. \A t \in U : t.do \in {"sync", "flushed"}
  BY <1>1, <1>2, <1>3 DEF SyncsOf
<1>5. ASSUME NEW e \in Held PROVE \E u \in U : u.do \in {"sync", "clean"} /\ u.line = e.line
  <2>1. e.line \in Lines
    BY BaseFacts, HeldFacts, LinedFacts DEF Held
  <2>2. SyncStep(e.line) \in U
    BY <1>1, <1>2, <2>1 DEF SyncsOf
  <2> QED
    BY <1>3, <2>2
<1>6. DropInv(U, Held, mem.table, unsure)
  BY <1>4, <1>5 DEF DropInv
<1>7. \A s \in Sectors : Kept(U, unsure, vol, s, n) => s \notin unsure
  BY <1>4 DEF Kept, Tracked
<1>8. DataStep(U, Held, z, mem.table, file.data, vol, unsure, n)
  BY <1>1, <1>4, <1>6, <1>7, BeginData
<1> QED
  BY <1>1, <1>2, <1>8

\* The blocks that a discard covers lie within its range.
LEMMA CoveredFacts ==
    ASSUME geom \in Setups, NEW first \in Sectors, NEW last \in Sectors,
           NEW b \in Covered(first, last), NEW s \in SectorsOf(b)
    PROVE  s \in first .. last
<1>1. s \in Sectors /\ s \in Nat /\ BlockOf(s) = b /\ b \in Nat /\ first \in Nat /\ last \in Nat
  BY SectorFacts DEF Covered
<1>2. PICK g \in Nat \ {0} : g = geom.block
  BY GeomType
<1>3. s \div g = b
  BY <1>1, <1>2 DEF BlockOf
<1>4. s = g * b + (s % g) /\ s % g \in 0 .. g - 1 /\ g * b \in Nat
  <2>1. /\ g * (s \div g) \in Nat /\ s % g \in 0 .. g - 1 /\ s % g = s - g * (s \div g)
    BY <1>1, DivMod
  <2>2. PICK r \in 0 .. g - 1 : r = s % g
    BY <2>1
  <2>3. PICK m \in Nat : m = g * b
    BY <1>3, <2>1
  <2>4. r = s - m
    BY <1>3, <2>1, <2>2, <2>3
  <2>5. s = m + r
    BY <1>1, <2>4
  <2> QED
    BY <2>2, <2>3, <2>5
<1>5. End(b) = b * g /\ End(b + 1) = b * g + g
  BY <1>1, <1>2 DEF End
<1>6. first <= End(b) /\ End(b + 1) - 1 <= last
  BY DEF Covered
<1>7. PICK m \in Nat, r \in 0 .. g - 1 : m = g * b /\ r = s % g
  BY <1>4
<1>8. g * b = b * g
  BY <1>1
<1>9. s = m + r /\ first <= m /\ m + g - 1 <= last
  BY <1>4, <1>5, <1>6, <1>7, <1>8
<1> QED
  BY ONLY <1>1, <1>9, m \in Nat, g \in Nat \ {0}, r \in 0 .. g - 1

LEMMA DiscardCallData ==
    ASSUME BaseInv, NEW first \in Sectors, NEW last \in Sectors, DiscardRange(first, last),
           NEW l, NEW n, NEW z,
           DataStep(Work, Held, l, mem.table, file.data, vol, unsure, n)
    PROVE  DataStep(Range(todo'), Held, z, mem.table, file.data, vol', unsure', n)
<1>1. PICK K \in SUBSET Lines, B \in SUBSET Blocks : \E D : Discards(first, last, K, B, D)
  BY DiscardEffect
<1>2. PICK D : Discards(first, last, K, B, D)
  BY <1>1
<1>3. PICK S : S = (first .. last) \ unsure
  OBVIOUS
<1>4. PICK U, up : U = Range(todo') /\ up = unsure'
  OBVIOUS
<1>5. /\ K = {LineOf(s) : s \in first .. last} /\ B = Covered(first, last)
      /\ \A b \in B : DeallocStep(b) \in D
      /\ \A t \in D : t = [do |-> "trim"] \/ \E b \in B : t = DeallocStep(b)
      /\ U = SyncsOf(K) \cup D \cup {DropStep(K, B, S)}
      /\ vol' = vol /\ up = unsure \cup (first .. last)
  BY <1>2, <1>3, <1>4 DEF Discards
<1>6. /\ \A k : SyncStep(k).do = "sync" /\ SyncStep(k).line = k
      /\ \A b : DeallocStep(b).do = "dealloc" /\ DeallocStep(b).block = b
      /\ DropStep(K, B, S).do = "drop" /\ DropStep(K, B, S).lines = K
      /\ DropStep(K, B, S).blocks = B /\ DropStep(K, B, S).sure = S
      /\ [do |-> "trim"].do = "trim"
  BY DEF SyncStep, DeallocStep, DropStep
<1>7. \A t \in SyncsOf(K) : t.do = "sync"
  BY <1>6 DEF SyncsOf
<1>8. \A t \in D : t.do \in {"trim", "dealloc"} /\ (t.do = "dealloc" => t.block \in B)
  BY <1>5, <1>6
<1>9. \A t \in U : /\ t.do \in {"sync", "trim", "dealloc", "drop"}
                   /\ t.do = "drop" => t.lines = K /\ t.blocks = B /\ t.sure = S
                   /\ t.do = "dealloc" => t.block \in B
  BY <1>5, <1>6, <1>7, <1>8
<1>10. Work = {}
  BY IdleFacts DEF DiscardRange
<1>11. \A s \in Sectors : Kept(U, up, vol, s, n) => s \notin unsure
  BY <1>3, <1>5, <1>9 DEF Kept, Tracked
<1>12. ASSUME NEW b \in B, NEW s \in SectorsOf(b) PROVE s \in up /\ LineOf(s) \in K
  <2>1. s \in first .. last
    BY <1>5, BaseFacts, CoveredFacts
  <2> QED
    BY <1>5, <2>1
<1>13. \A s \in S : LineOf(s) \in K
  BY <1>3, <1>5
<1>14. ASSUME NEW e \in Held, e.line \in K PROVE \E u \in U : u.do \in {"sync", "clean"} /\ u.line = e.line
  <2>1. SyncStep(e.line) \in U
    BY <1>5, <1>14 DEF SyncsOf
  <2> QED
    BY <1>6, <2>1
<1>15. \A b \in B : \E u \in U : u.do = "dealloc" /\ u.block = b
  BY <1>5, <1>6
<1>16. \E t \in U : t.do = "drop" /\ t.blocks = B
  BY <1>5, <1>6
<1>17. DropInv(U, Held, mem.table, up)
  BY <1>9, <1>12, <1>13, <1>14, <1>15, <1>16 DEF DropInv
<1>18. DataStep(U, Held, z, mem.table, file.data, vol, up, n)
  BY <1>9, <1>10, <1>11, <1>17, BeginData
<1> QED
  BY <1>4, <1>5, <1>18

-----------------------------------------------------------------------------
(* Failures, and the whole *)

\* A call that failed halfway leaves the data that is not the base's where it
\* was: in a modified entry or on the disk.
LEMMA FailData ==
    ASSUME BaseInv, Fail, NEW l, NEW n, NEW m, m # 0, NEW z,
           DataInv(Work, Held, l, mem.table, file.data, vol, unsure, n)
    PROVE  DataStep(Range(todo'), Range(cache'), z, mem.table, file.data, vol, unsure, m)
<1>1. /\ Range(todo') = {}
      /\ Has(Work, "evicted") => Last(cache) \in Held /\ cache' = Promoted(Last(cache))
      /\ ~Has(Work, "evicted") => cache' = cache
  BY FailEffect
<1>2. Range(cache') = Held
  <2>1. CASE Has(Work, "evicted")
    BY <1>1, <2>1, BaseFacts, PromotedSelf
  <2>2. CASE ~Has(Work, "evicted")
    BY <1>1, <2>2 DEF Held
  <2> QED
    BY <2>1, <2>2
<1>3. ASSUME NEW s \in Sectors, Kept({}, unsure, vol, s, m)
      PROVE  Right(Held, mem.table, file.data, s, vol[s])
  <2>1. s \notin unsure /\ vol[s] # Base(s)
    BY <1>3 DEF Kept, Tracked
  <2>2. Kept(Work, unsure, vol, s, n)
    BY <2>1 DEF Kept, Tracked
  <2>3. Good(Work, Held, mem.table, file.data, s, vol[s])
    BY <2>2 DEF DataInv
  <2>4. vol[s] \in Values
    BY BaseFacts
  <2>5. Writes(Work, s, vol[s]) => \E e \in Held : e.line = LineOf(s) /\ e.dirty
    BY <2>1, <2>4 DEF DataInv
  <2> QED
    BY <2>3, <2>5 DEF Good, Right, Settles
<1>4. Silent({})
  BY DEF Silent
<1>5. DataInv({}, Held, z, mem.table, file.data, vol, unsure, m)
  BY <1>3, <1>4, DataSilent
<1>6. DropInv({}, Held, mem.table, unsure)
  BY DropNone
<1> QED
  BY <1>1, <1>2, <1>5, <1>6 DEF DataStep

LEMMA ReopenData ==
    ASSUME BaseInv, Reopen, NEW n, NEW z
    PROVE  DataStep(Range(todo'), Range(cache'), z, mem'.table, file'.data, vol', unsure', n)
<1>1. /\ geom \in Setups /\ file' = file /\ todo' = <<>> /\ cache' = <<>> /\ mem' = Loaded(file) /\ Opens(file)
      /\ unsure' = {} /\ file \in Images
      /\ \A s \in Sectors : vol'[s] = At(file.table, file.data, s)
  BY ReopenEffect, BaseFacts
<1>2. PICK e : e = <<>> /\ Range(e) = {}
  BY EmptyFacts
<1>3. PICK m : m = Loaded(file) /\ m.table = file.table
  BY <1>1, OpenFacts
<1>4. PICK w : w = vol'
  OBVIOUS
<1>5. \A s \in Sectors : Right({}, file.table, file.data, s, w[s])
  BY <1>1, <1>4 DEF Right
<1>6. Silent({})
  BY DEF Silent
<1>7. DataInv({}, {}, z, file.table, file.data, w, {}, n)
  BY <1>5, <1>6, DataSilent
<1>8. DropInv({}, {}, file.table, {})
  BY DropNone
<1> QED
  BY <1>1, <1>2, <1>3, <1>4, <1>7, <1>8 DEF DataStep

LEMMA InitData == Init => DropOK /\ DataOK
<1> SUFFICES ASSUME Init
             PROVE  /\ DropInv(Work, Held, mem.table, unsure)
                    /\ DataInv(Work, Held, Last(cache), mem.table, file.data, vol, unsure, Lost(faults))
  BY DEF DropOK, DataOK
<1>1. geom \in Setups /\ mem = Loaded(NewImage) /\ todo = <<>> /\ cache = <<>>
      /\ vol = [s \in Sectors |-> Base(s)]
  BY DEF Init
<1>2. PICK e : e = <<>> /\ Range(e) = {}
  BY EmptyFacts
<1>3. Work = {} /\ Held = {}
  BY <1>1, <1>2 DEF Work, Held
<1>4. \A b \in Blocks : mem.table[b] = None
  BY <1>1, NewFacts
<1>5. \A s \in Sectors : BlockOf(s) \in Blocks
  BY <1>1, SectorFacts
<1>6. \A s \in Sectors : At(mem.table, file.data, s) = vol[s]
  BY <1>1, <1>4, <1>5 DEF At
<1>7. \A s \in Sectors : Right({}, mem.table, file.data, s, vol[s])
  BY <1>6 DEF Right
<1>8. Silent({})
  BY DEF Silent
<1>9. DataInv({}, {}, Last(cache), mem.table, file.data, vol, unsure, Lost(faults))
  BY <1>7, <1>8, DataSilent
<1>10. DropInv({}, {}, mem.table, unsure)
  BY DropNone
<1> QED
  BY <1>3, <1>9, <1>10

LEMMA CacheData ==
    ASSUME BaseInv, CacheStep, NEW n,
           DataStep(Work, Held, Last(cache), mem.table, file.data, vol, unsure, n)
    PROVE  DataStep(Range(todo'), Range(cache'), Last(cache'), mem.table, file.data, vol', unsure', n)
<1>1. DataInv(Work, Held, Last(cache), mem.table, file.data, vol, unsure, n)
  BY DEF DataStep
<1>2. CASE LoadLine \/ WriteChunk \/ Evict \/ Evicted \/ InsertEntry \/ SyncLine \/ CleanLine
  <2>1. vol' = vol /\ unsure' = unsure
    BY <1>2 DEF LoadLine, WriteChunk, Evict, Evicted, InsertEntry, SyncLine, CleanLine, CacheOnly, history
  <2>2. DataStep(Range(todo'), Range(cache'), Last(cache'), mem.table, file.data, vol, unsure, n)
    BY <1>1, <1>2, LoadData, ChunkData, EvictData, EvictedData, InsertData, SyncData, CleanData
  <2> QED
    BY <2>1, <2>2
<1>3. CASE FlushReturns
  BY <1>3, FlushedData
<1>4. CASE DropLines
  BY <1>4, DropData
<1>5. CASE WriteReturns
  BY <1>5, WrittenData
<1> QED
  BY <1>2, <1>3, <1>4, <1>5 DEF CacheStep

LEMMA CallData ==
    ASSUME BaseInv, Calling, NEW n,
           DataStep(Work, Held, Last(cache), mem.table, file.data, vol, unsure, n)
    PROVE  DataStep(Range(todo'), Range(cache'), Last(cache'), mem.table, file.data, vol', unsure', n)
<1>1. cache' = cache
  BY CallKinds
<1>2. Range(cache') = Held
  BY <1>1 DEF Held
<1>3. DataStep(Range(todo'), Held, Last(cache), mem.table, file.data, vol', unsure', n)
  BY ReadData, WriteCallData, FlushCallData, DiscardCallData DEF Calling
<1> QED
  BY <1>1, <1>2, <1>3

LEMMA DataNext == BaseInv /\ DropOK /\ DataOK /\ [Next]_vars => DropOK' /\ DataOK'
<1> SUFFICES ASSUME BaseInv, DropOK, DataOK, [Next]_vars PROVE DropOK' /\ DataOK'
  OBVIOUS
<1> DEFINE Now == DataStep(Work, Held, Last(cache), mem.table, file.data, vol, unsure, Lost(faults))
           After == DataStep(Range(todo'), Range(cache'), Last(cache'), mem'.table, file'.data, vol', unsure',
                             Lost(faults'))
<1>1. ASSUME geom' = geom, status' = "open" => After PROVE DropOK' /\ DataOK'
  BY <1>1, SameDrop, SameData DEF DropOK, DataOK, DataStep
<1>2. status = "open" => Now
  BY DEF DropOK, DataOK, DataStep
<1>3. CASE DiskStep /\ UNCHANGED geom /\ KeepCache
  <2>1. /\ geom' = geom /\ status' = status /\ faults' = faults /\ cache' = cache /\ vol' = vol /\ unsure' = unsure
    BY <1>3 DEF KeepCache, history
  <2>2. Now => DataStep(Range(todo'), Held, Last(cache), mem'.table, file'.data, vol, unsure, Lost(faults))
    BY <1>3, DiskData
  <2>3. Range(cache') = Held
    BY <2>1 DEF Held
  <2>4. Now => After
    BY <2>1, <2>2, <2>3
  <2> QED
    BY <1>1, <1>2, <2>1, <2>4
<1>4. CASE CacheStep
  <2>1. geom' = geom /\ status' = status /\ faults' = faults /\ mem' = mem /\ file' = file
    BY <1>4, CacheKinds DEF KeepDisk
  <2>2. Now => DataStep(Range(todo'), Range(cache'), Last(cache'), mem.table, file.data, vol', unsure', Lost(faults))
    BY <1>4, CacheData
  <2>3. Now => After
    BY <2>1, <2>2
  <2> QED
    BY <1>1, <1>2, <2>1, <2>3
<1>5. CASE Calling
  <2>1. geom' = geom /\ status' = status /\ faults' = faults /\ mem' = mem /\ file' = file
    BY <1>5, CallKinds DEF KeepDisk
  <2>2. Now => DataStep(Range(todo'), Range(cache'), Last(cache'), mem.table, file.data, vol', unsure', Lost(faults))
    BY <1>5, CallData
  <2>3. Now => After
    BY <2>1, <2>2
  <2> QED
    BY <1>1, <1>2, <2>1, <2>3
<1>6. CASE Fail
  <2>1. /\ geom' = geom /\ mem' = mem /\ file' = file /\ status = "open" /\ vol' = vol /\ unsure' = unsure
        /\ geom.fault = "error" /\ faults \in Nat /\ faults' = faults + 1
    BY <1>6, FailEffect DEF KeepDisk
  <2>3. Lost(faults') # 0
    BY <2>1 DEF Lost
  <2>4. PICK m : m = Lost(faults') /\ m # 0
    BY <2>3
  <2>5. DataInv(Work, Held, Last(cache), mem.table, file.data, vol, unsure, Lost(faults))
    BY <2>1 DEF DataOK
  <2>6. \A z : DataStep(Range(todo'), Range(cache'), z, mem.table, file.data, vol, unsure, m)
    BY <1>6, <2>4, <2>5, FailData
  <2>7. After
    BY <2>1, <2>4, <2>6
  <2> QED
    BY <1>1, <2>1, <2>7
<1>7. CASE Crash
  <2>1. status' = "crashed"
    BY <1>7 DEF Crash
  <2> QED
    BY <2>1 DEF DropOK, DataOK
<1>8. CASE Reopen
  <2>1. geom' = geom
    BY <1>8, ReopenEffect
  <2>2. After
    BY <1>8, ReopenData
  <2> QED
    BY <1>1, <2>1, <2>2
<1>9. CASE UNCHANGED vars
  <2>1. /\ geom' = geom /\ file' = file /\ mem' = mem /\ todo' = todo /\ status' = status /\ faults' = faults
        /\ cache' = cache /\ vol' = vol /\ unsure' = unsure
    BY <1>9 DEF vars, history
  <2>2. Range(todo') = Work /\ Range(cache') = Held
    BY <2>1 DEF Work, Held
  <2>3. Now => After
    BY <2>1, <2>2
  <2> QED
    BY <1>1, <1>2, <2>1, <2>3
<1> QED
  BY <1>3, <1>4, <1>5, <1>6, <1>7, <1>8, <1>9 DEF Next, Calling

DiskInv == BaseInv /\ SlotsOK /\ DropOK /\ DataOK

LEMMA DiskInvariant == Spec => []DiskInv
<1>1. DiskInv /\ [Next]_vars => DiskInv'
  BY BaseInvNext, SlotsNext, DataNext DEF DiskInv
<1>2. Init => DiskInv
  BY InitBase, InitSlots, InitData DEF DiskInv
<1> QED
  BY <1>1, <1>2, PTL DEF Spec

\* Between calls the invariant says what a read returns.
LEMMA DataVisible == DiskInv => ReadsSeeWrites
<1> SUFFICES ASSUME DiskInv, Idle, NEW s \in Sectors, s \notin unsure, ~Failed \/ vol[s] # Base(s)
             PROVE  Visible(s) = vol[s]
  BY DEF ReadsSeeWrites
<1>0. BaseInv /\ DataOK /\ CacheOK(cache)
  BY BaseFacts DEF DiskInv
<1>1. PICK e : e = <<>> /\ Range(e) = {}
  BY EmptyFacts
<1>2. Work = {} /\ status = "open"
  BY <1>1 DEF Work, Idle
<1>3. ~Failed => Lost(faults) = 0
  BY <1>0, BaseFacts DEF Failed, Lost
<1>4. Kept({}, unsure, vol, s, Lost(faults))
  BY <1>3 DEF Kept, Tracked
<1>5. Good({}, Held, mem.table, file.data, s, vol[s])
  BY <1>0, <1>2, <1>4 DEF DataOK, DataInv
<1>6. Silent({})
  BY DEF Silent
<1>7. Right(Held, mem.table, file.data, s, vol[s])
  BY <1>5, <1>6, GoodSilent
<1>8. CASE Cached(LineOf(s))
  <2>1. Entry(LineOf(s)) \in Held /\ Entry(LineOf(s)).line = LineOf(s)
    BY <1>0, <1>8, CachedFacts
  <2> QED
    BY <1>7, <1>8, <2>1 DEF Right, Visible
<1>9. CASE ~Cached(LineOf(s))
  <2>1. \A x \in Held : x.line # LineOf(s)
    BY <1>0, <1>9, CachedFacts
  <2>2. At(mem.table, file.data, s) = vol[s]
    BY <1>7, <2>1 DEF Right
  <2> QED
    BY <1>0, <1>9, <2>2, StoredFacts DEF Visible
<1> QED
  BY <1>8, <1>9

\* A read returns what was last written to a sector, or the base after a
\* discard, whichever of the cache, the overlay and the base holds it: through
\* evictions, write-backs, slots that are freed and given out again, crashes
\* and open.  Backend calls that fail do not lose what the guest was told is
\* written (BlockCachedDisk and AeroCowDisk: read_at, write_at, discard_range).
THEOREM DiskReadsSeeWrites == Spec => []ReadsSeeWrites
  BY DiskInvariant, DataVisible, PTL

-----------------------------------------------------------------------------
(* What a crash leaves *)

CrashOK == Sound => CrashInv(Work, Held, mem, file, vol, stable, unsure)

LEMMA SameCrash ==
    ASSUME geom' = geom,
           CrashInv(Range(todo'), Range(cache'), mem', file', vol', stable', unsure')
    PROVE  CrashInv(Work, Held, mem, file, vol, stable, unsure)'
  BY SameGeom, SameSectors DEF CrashInv, Work, Held

\* A step of the disk that stores no data.
LEMMA CrashQuiet ==
    ASSUME NEW T, NEW U, NEW E, NEW m, NEW mm, NEW f, NEW g, NEW v, NEW st, NEW un,
           CrashInv(T, E, m, f, v, st, un),
           \A t \in U : t.do \in {"insert", "cow", "clear", "entry"} => t \in T,
           \A t : t.do \in {"put", "drop", "written"} => (t \in U <=> t \in T),
           \A s \in Sectors : At(mm.table, g.data, s) = At(m.table, f.data, s),
           g.data = f.data \/ \A t \in U : t.do # "clear"
    PROVE  CrashInv(U, E, mm, g, v, st, un)
<1>1. /\ \A s \in Sectors : v[s] \in st[s]
      /\ \A e \in E : \A s \in InLine(e.line) : e.data[s] \in st[s]
  BY DEF CrashInv
<1>2. \A t \in U : t.do = "insert" => \A s \in InLine(t.entry.line) : t.entry.data[s] \in st[s]
  BY DEF CrashInv
<1>3. \A s \in Sectors, w \in Values : Writes(U, s, w) => w \in st[s]
  <2>1. \A s, w : Writes(U, s, w) => Writes(T, s, w)
    BY DEF Writes
  <2> QED
    BY <2>1 DEF CrashInv
<1>4. \A s \in Sectors : \/ \E t \in U : t.do = "put" /\ t.sector = s /\ t.new
                         \/ At(mm.table, g.data, s) \in st[s]
  BY DEF CrashInv
<1>5. \A t \in U : t.do = "clear" => \A s \in SectorsOf(t.block) : g.data[Place(t.slot, s)] \in st[s]
  BY DEF CrashInv
<1>6. \A t \in U : t.do = "clear" => \E u \in U : u.do = "drop" /\ t.block \in u.blocks
  BY DEF CrashInv
<1>7. \A t \in U : t.do = "drop" => \A b \in t.blocks : \A s \in SectorsOf(b) : Base(s) \in st[s]
  BY DEF CrashInv
<1>8. \A t \in U : t.do = "entry" =>
          \E u \in U : u.do = "put" /\ u.new /\ BlockOf(u.sector) = t.block
  BY DEF CrashInv
<1>9. \A s \in un : \E t \in U : t.do \in {"written", "drop"} /\ s \in t.sure
  BY DEF CrashInv
<1> QED
  BY <1>1, <1>2, <1>3, <1>4, <1>5, <1>6, <1>7, <1>8, <1>9 DEF CrashInv

LEMMA QuietCrash ==
    ASSUME BaseInv, WriteHeader \/ WriteEntry \/ Grow \/ ClearEntry \/ Trim \/ Truncate,
           NEW E, NEW v, NEW st, NEW un, CrashInv(Work, E, mem, file, v, st, un)
    PROVE  CrashInv(Range(todo'), E, mem', file', v, st, un)
<1>1. PICK U, m, g : U = Range(todo') /\ m = mem' /\ g = file'
  OBVIOUS
<1>2. CASE WriteHeader
  <2>1. Step.do = "header" /\ Work = {Step} \cup Rest /\ U = Rest /\ m = mem /\ g.data = file.data
    BY <1>1, <1>2, HeaderEffect
  <2>2. CrashInv(U, E, m, g, v, st, un)
    BY <2>1, CrashQuiet
  <2> QED
    BY <1>1, <2>2
<1>3. CASE WriteEntry
  <2>1. Step.do = "entry" /\ Work = {Step} \cup Rest /\ U = Rest /\ m = mem /\ g.data = file.data
    BY <1>1, <1>3, EntryEffect
  <2>2. CrashInv(U, E, m, g, v, st, un)
    BY <2>1, CrashQuiet
  <2> QED
    BY <1>1, <2>2
<1>4. CASE Grow
  <2>1. Step.do = "grow" /\ Work = {Step} \cup Rest /\ U = Rest /\ m = mem /\ g.data = file.data
    BY <1>1, <1>4, GrowEffect
  <2>2. CrashInv(U, E, m, g, v, st, un)
    BY <2>1, CrashQuiet
  <2> QED
    BY <1>1, <2>2
<1>5. CASE ClearEntry
  <2>1. Step.do = "clear" /\ Work = {Step} \cup Rest /\ U = Rest /\ m.table = mem.table /\ g.data = file.data
    BY <1>1, <1>5, ClearEffect
  <2>2. CrashInv(U, E, m, g, v, st, un)
    BY <2>1, CrashQuiet
  <2> QED
    BY <1>1, <2>2
<1>6. CASE Trim
  <2>1. PICK k \in 0 .. MaxSlots :
             /\ Step.do = "trim" /\ Work = {Step} \cup Rest /\ g = file /\ m.table = mem.table
             /\ U = (IF k = mem.allocated THEN {} ELSE {[do |-> "header"], [do |-> "truncate"]}) \cup Rest
    BY <1>1, <1>6, TrimEffect
  <2>2. \A t \in U : t \in Rest \/ t.do \in {"header", "truncate"}
    BY <2>1
  <2>3. \A t \in Rest : t \in U /\ t \in Work
    BY <2>1
  <2>4. CrashInv(U, E, m, g, v, st, un)
    BY <2>1, <2>2, <2>3, CrashQuiet
  <2> QED
    BY <1>1, <2>4
<1>7. CASE Truncate
  <2>1. /\ Step.do = "truncate" /\ Work = {Step} \cup Rest /\ U = Rest /\ m = mem
        /\ \A u \in Rest : u.do = "drop"
    BY <1>1, <1>7, TruncateEffect
  <2>2. \A s \in Sectors : At(m.table, g.data, s) = At(mem.table, file.data, s)
    BY <1>1, <1>7, <2>1, TruncateAt
  <2>3. CrashInv(U, E, m, g, v, st, un)
    BY <2>1, <2>2, CrashQuiet
  <2> QED
    BY <1>1, <2>3
<1> QED
  BY <1>2, <1>3, <1>4, <1>5, <1>6, <1>7

LEMMA PutCrash ==
    ASSUME BaseInv, PutSector, NEW E, NEW v, NEW st, NEW un, CrashInv(Work, E, mem, file, v, st, un)
    PROVE  CrashInv(Range(todo'), E, mem', file', v, st, un)
<1>1. PICK s \in Sectors, x \in Values, k \in Slots :
             /\ Step \in Steps /\ Step.do = "put" /\ Step.sector = s /\ Step.value = x
             /\ Work = {Step} \cup Rest /\ Range(todo') = Rest /\ mem' = mem
             /\ mem.table[BlockOf(s)] = k
             /\ file'.data = [file.data EXCEPT ![Place(k, s)] = x] /\ Place(k, s) \in Places
  BY PutEffect
<1>2. PICK g : g = file'
  OBVIOUS
<1>3. file.data \in [Places -> Values] /\ None \notin Slots /\ geom \in Setups
  BY BaseFacts, ImageFacts
<1>4. \A u \in Rest : Before("put", u.do)
  BY AtStep DEF PutSector
<1>5. \A u \in Rest : u.do \notin {"clear", "entry"}
  BY <1>4 DEF Before, Storing
<1>6. /\ \A r \in Sectors : v[r] \in st[r]
      /\ \A e \in E : \A r \in InLine(e.line) : e.data[r] \in st[r]
      /\ \A t \in Rest : t.do = "insert" => \A r \in InLine(t.entry.line) : t.entry.data[r] \in st[r]
      /\ \A t \in Rest : t.do = "drop" => \A b \in t.blocks : \A r \in SectorsOf(b) : Base(r) \in st[r]
  BY <1>1 DEF CrashInv
<1>7. \A r \in Sectors, w \in Values : Writes(Rest, r, w) => w \in st[r]
  <2>1. \A r, w : Writes(Rest, r, w) => Writes(Work, r, w)
    BY <1>1 DEF Writes
  <2> QED
    BY <2>1 DEF CrashInv
<1>8. x \in st[s]
  <2>1. Writes(Work, s, x)
    BY <1>1 DEF Writes
  <2> QED
    BY <2>1 DEF CrashInv
<1>9. ASSUME NEW r \in Sectors
      PROVE  \/ \E t \in Rest : t.do = "put" /\ t.sector = r /\ t.new
             \/ At(mem.table, g.data, r) \in st[r]
  <2>1. CASE r = s
    <3>1. g.data[Place(k, s)] = x /\ k # None
      BY <1>1, <1>2, <1>3
    <3>2. At(mem.table, g.data, r) = x
      BY <1>1, <2>1, <3>1 DEF At
    <3> QED
      BY <1>8, <2>1, <3>2
  <2>2. CASE r # s
    <3>1. At(mem.table, g.data, r) = At(mem.table, file.data, r)
      <4>1. CASE mem.table[BlockOf(r)] = None
        BY <4>1 DEF At
      <4>2. CASE mem.table[BlockOf(r)] # None
        <5>1. Place(mem.table[BlockOf(r)], r) # Place(k, s) /\ mem.table[BlockOf(r)] \in Slots
          BY <1>1, <1>3, <2>2, <4>2, PlaceApart, SectorFacts, BaseFacts, ImageFacts
        <5>2. Place(mem.table[BlockOf(r)], r) \in Places
          BY <1>3, <5>1, PlaceFacts
        <5>3. g.data[Place(mem.table[BlockOf(r)], r)] = file.data[Place(mem.table[BlockOf(r)], r)]
          BY <1>1, <1>2, <1>3, <5>1, <5>2
        <5> QED
          BY <5>3 DEF At
      <4> QED
        BY <4>1, <4>2
    <3>2. \/ \E t \in Work : t.do = "put" /\ t.sector = r /\ t.new
          \/ At(mem.table, file.data, r) \in st[r]
      BY DEF CrashInv
    <3> QED
      BY <1>1, <2>2, <3>1, <3>2
  <2> QED
    BY <2>1, <2>2
<1>10. \A r \in un : \E t \in Rest : t.do \in {"written", "drop"} /\ r \in t.sure
  BY <1>1 DEF CrashInv
<1>11. CrashInv(Rest, E, mem, g, v, st, un)
  BY <1>5, <1>6, <1>7, <1>9, <1>10 DEF CrashInv
<1> QED
  BY <1>1, <1>2, <1>11

LEMMA CowOverCrash ==
    ASSUME BaseInv, NEW b \in Blocks, NEW c \in Chunks,
           Step.do = "cow", Step.chunk = c, Work = {Step} \cup Rest, CowOver(b, c), file' = file,
           \A u \in Rest : Before("cow", u.do),
           NEW E, NEW v, NEW st, NEW un, CrashInv(Work, E, mem, file, v, st, un)
    PROVE  CrashInv(Range(todo'), E, mem', file', v, st, un)
<1>1. PICK U : U = Range(todo')
  OBVIOUS
<1>2. U = {Put(s, c[s], FALSE) : s \in DOMAIN c} \cup Rest /\ mem' = mem
  BY <1>1 DEF CowOver
<1>4. \A t \in U : t \in Rest \/ \E s \in DOMAIN c : t.do = "put" /\ t.sector = s /\ t.value = c[s]
  <2> SUFFICES ASSUME NEW t \in U, t \notin Rest
               PROVE  \E s \in DOMAIN c : t.do = "put" /\ t.sector = s /\ t.value = c[s]
    OBVIOUS
  <2>1. PICK s \in DOMAIN c : t = Put(s, c[s], FALSE)
    BY <1>2
  <2> QED
    BY <2>1 DEF Put
<1>5. \A t \in Work : t.do \notin {"put", "clear", "entry", "header", "grow"}
  BY AfterCow
<1>6. \A t \in Rest : t \in U /\ t \in Work
  BY <1>2
<1>7. \A t \in U : t.do \notin {"clear", "entry"} /\ (t.do # "put" => t \in Work)
  BY <1>4, <1>5, <1>6
<1>8. \A s \in Sectors, w \in Values : Writes(U, s, w) => w \in st[s]
  <2>1. \A s, w : Writes(U, s, w) => Writes(Work, s, w)
    <3> SUFFICES ASSUME NEW s, NEW w, Writes(U, s, w) PROVE Writes(Work, s, w)
      OBVIOUS
    <3>1. PICK t \in U : \/ t.do = "put" /\ t.sector = s /\ t.value = w
                         \/ t.do = "cow" /\ s \in DOMAIN t.chunk /\ t.chunk[s] = w
      BY DEF Writes
    <3>2. CASE t \in Rest
      BY <1>6, <3>1, <3>2 DEF Writes
    <3>3. CASE t \notin Rest
      <4>1. s \in DOMAIN c /\ w = c[s]
        BY <1>4, <3>1, <3>3
      <4> QED
        BY <4>1 DEF Writes
    <3> QED
      BY <3>2, <3>3
  <2> QED
    BY <2>1 DEF CrashInv
<1>9. \A s \in Sectors : At(mem.table, file.data, s) \in st[s]
  BY <1>5 DEF CrashInv
<1>10. /\ \A s \in Sectors : v[s] \in st[s]
       /\ \A e \in E : \A s \in InLine(e.line) : e.data[s] \in st[s]
       /\ \A t \in U : t.do = "insert" => \A s \in InLine(t.entry.line) : t.entry.data[s] \in st[s]
       /\ \A t \in U : t.do = "drop" => \A d \in t.blocks : \A s \in SectorsOf(d) : Base(s) \in st[s]
  BY <1>7 DEF CrashInv
<1>11. \A s \in un : \E t \in U : t.do \in {"written", "drop"} /\ s \in t.sure
  BY <1>6 DEF CrashInv
<1>12. CrashInv(U, E, mem, file, v, st, un)
  BY <1>7, <1>8, <1>9, <1>10, <1>11 DEF CrashInv
<1> QED
  BY <1>1, <1>2, <1>12

\* A block that gets a slot is filled before it counts.
LEMMA CowNewCrash ==
    ASSUME BaseInv, NEW b \in Blocks, NEW c \in Chunks,
           Step.do = "cow", Step.chunk = c, Work = {Step} \cup Rest,
           \A s \in DOMAIN c : BlockOf(s) = b,
           \A u \in Rest : Before("cow", u.do), file' = file,
           NEW k \in Slots, NEW H, CowNew(b, c, k, H),
           NEW E, NEW v, NEW st, NEW un, CrashInv(Work, E, mem, file, v, st, un)
    PROVE  CrashInv(Range(todo'), E, mem', file', v, st, un)
<1>1. PICK U, m : U = Range(todo') /\ m = mem'
  OBVIOUS
<1>2. /\ U = NewSteps(b, k, H, c) \cup Rest /\ mem.table[b] = None
      /\ m.table = [mem.table EXCEPT ![b] = k] /\ H \subseteq {[do |-> "header"]}
  BY <1>1 DEF CowNew, GivesSlot
<1>3. geom \in Setups /\ mem.table \in [Blocks -> Slots \cup {None}]
  BY BaseFacts, ImageFacts
<1>5. \A t \in U : \/ t \in Rest
                   \/ t.do \in {"header", "grow"}
                   \/ t.do = "entry" /\ t.block = b
                   \/ \E s \in SectorsOf(b) : t.do = "put" /\ t.sector = s /\ t.value = Filled(s, c)
  <2> SUFFICES ASSUME NEW t \in U, t \notin Rest
               PROVE  \/ t.do \in {"header", "grow"}
                      \/ t.do = "entry" /\ t.block = b
                      \/ \E s \in SectorsOf(b) : t.do = "put" /\ t.sector = s /\ t.value = Filled(s, c)
    OBVIOUS
  <2>1. CASE \E s \in SectorsOf(b) : t = Put(s, Filled(s, c), TRUE)
    <3>1. PICK s \in SectorsOf(b) : t = Put(s, Filled(s, c), TRUE)
      BY <2>1
    <3> QED
      BY <3>1 DEF Put
  <2>2. CASE t \in {[do |-> "header"], [do |-> "entry", block |-> b], [do |-> "grow", slot |-> k]}
    BY <2>2
  <2> QED
    BY <1>2, <2>1, <2>2 DEF NewSteps
<1>6. \A s \in SectorsOf(b) : \E t \in U : t.do = "put" /\ t.sector = s /\ t.new
  <2> SUFFICES ASSUME NEW s \in SectorsOf(b) PROVE \E t \in U : t.do = "put" /\ t.sector = s /\ t.new
    OBVIOUS
  <2>1. PICK t \in U : t = Put(s, Filled(s, c), TRUE)
    BY <1>2 DEF NewSteps
  <2>2. t.do = "put" /\ t.sector = s /\ t.new = TRUE
    BY <2>1 DEF Put
  <2> QED
    BY Zenon, <2>2
<1>7. \A t \in Work : t.do \notin {"put", "clear", "entry", "header", "grow"}
  BY AfterCow
<1>8. \A t \in Rest : t \in U /\ t \in Work
  BY <1>2
<1>9. \A t \in U : t.do # "clear" /\ (t.do \in {"insert", "drop", "written", "cow"} => t \in Work)
  BY <1>5, <1>7, <1>8
<1>10. \A s \in Sectors : At(mem.table, file.data, s) \in st[s]
  BY <1>7 DEF CrashInv
<1>11. \A s \in Sectors, w \in Values : Writes(U, s, w) => w \in st[s]
  <2> SUFFICES ASSUME NEW s \in Sectors, NEW w \in Values, Writes(U, s, w) PROVE w \in st[s]
    OBVIOUS
  <2>1. PICK t \in U : \/ t.do = "put" /\ t.sector = s /\ t.value = w
                       \/ t.do = "cow" /\ s \in DOMAIN t.chunk /\ t.chunk[s] = w
    BY DEF Writes
  <2>2. CASE t \in Rest
    <3>1. Writes(Work, s, w)
      BY <1>8, <2>1, <2>2 DEF Writes
    <3> QED
      BY <3>1 DEF CrashInv
  <2>3. CASE t \notin Rest
    <3>1. s \in SectorsOf(b) /\ w = Filled(s, c)
      BY <1>5, <2>1, <2>3
    <3>2. CASE s \in DOMAIN c
      <4>1. Writes(Work, s, w)
        BY <3>1, <3>2 DEF Writes, Filled
      <4> QED
        BY <4>1 DEF CrashInv
    <3>3. CASE s \notin DOMAIN c
      <4>1. At(mem.table, file.data, s) = w
        BY <1>2, <1>3, <3>1, <3>3, SectorFacts DEF At, Filled
      <4> QED
        BY <1>10, <4>1
    <3> QED
      BY <3>2, <3>3
  <2> QED
    BY <2>2, <2>3
<1>12. ASSUME NEW s \in Sectors
       PROVE  \/ \E t \in U : t.do = "put" /\ t.sector = s /\ t.new
              \/ At(m.table, file.data, s) \in st[s]
  <2>1. CASE BlockOf(s) = b
    <3>1. s \in SectorsOf(b)
      BY <1>3, <2>1, SectorFacts
    <3> QED
      BY <1>6, <3>1
  <2>2. CASE BlockOf(s) # b
    <3>1. m.table[BlockOf(s)] = mem.table[BlockOf(s)]
      BY <1>2, <1>3, <2>2, SectorFacts
    <3>2. At(m.table, file.data, s) = At(mem.table, file.data, s)
      BY <3>1 DEF At
    <3> QED
      BY <1>10, <3>2
  <2> QED
    BY <2>1, <2>2
<1>13. \A t \in U : t.do = "entry" =>
          \E u \in U : u.do = "put" /\ u.new /\ BlockOf(u.sector) = t.block
  <2>1. PICK s \in SectorsOf(b) : BlockOf(s) = b
    BY <1>3, SectorFacts
  <2>2. \A t \in U : t.do = "entry" => t.block = b
    BY <1>5, <1>7, <1>8
  <2> QED
    BY <1>6, <2>1, <2>2
<1>14. /\ \A s \in Sectors : v[s] \in st[s]
       /\ \A e \in E : \A s \in InLine(e.line) : e.data[s] \in st[s]
       /\ \A t \in U : t.do = "insert" => \A s \in InLine(t.entry.line) : t.entry.data[s] \in st[s]
       /\ \A t \in U : t.do = "drop" => \A d \in t.blocks : \A s \in SectorsOf(d) : Base(s) \in st[s]
  BY <1>9 DEF CrashInv
<1>15. \A s \in un : \E t \in U : t.do \in {"written", "drop"} /\ s \in t.sure
  BY <1>8 DEF CrashInv
<1>16. CrashInv(U, E, m, file, v, st, un)
  BY <1>9, <1>11, <1>12, <1>13, <1>14, <1>15 DEF CrashInv
<1> QED
  BY <1>1, <1>16

LEMMA CowCrash ==
    ASSUME BaseInv, CowWrite, NEW E, NEW v, NEW st, NEW un, CrashInv(Work, E, mem, file, v, st, un)
    PROVE  CrashInv(Range(todo'), E, mem', file', v, st, un)
<1>1. PICK b \in Blocks, c \in Chunks :
             /\ Step.do = "cow" /\ Step.chunk = c
             /\ (\A s \in DOMAIN c : BlockOf(s) = b)
             /\ Work = {Step} \cup Rest
             /\ (\A u \in Rest : Before("cow", u.do)) /\ file' = file
             /\ CowOver(b, c) \/ \E k \in Slots : \E H : CowNew(b, c, k, H)
  BY CowEffect
<1>2. CASE CowOver(b, c)
  BY <1>1, <1>2, CowOverCrash
<1>3. CASE \E k \in Slots : \E H : CowNew(b, c, k, H)
  <2>1. PICK k \in Slots : \E H : CowNew(b, c, k, H)
    BY <1>3
  <2>2. PICK H : CowNew(b, c, k, H)
    BY <2>1
  <2> QED
    BY <1>1, <2>2, CowNewCrash
<1> QED
  BY <1>1, <1>2, <1>3

\* A block that loses its slot is the base's again, as the discard may leave it.
LEMMA DeallocCrash ==
    ASSUME BaseInv, DeallocateBlock, NEW E, NEW v, NEW st, NEW un, NEW tb,
           CrashInv(Work, E, mem, file, v, st, un), DropInv(Work, E, tb, un)
    PROVE  CrashInv(Range(todo'), E, mem', file', v, st, un)
<1>1. PICK b \in Blocks :
             /\ Step.do = "dealloc" /\ Step.block = b
             /\ Work = {Step} \cup Rest
             /\ (\A u \in Rest : u.do \in {"dealloc", "trim", "drop"})
             /\ file' = file /\ mem'.table = [mem.table EXCEPT ![b] = None]
             /\ Range(todo') = (IF mem.table[b] = None THEN {} ELSE {ClearStep(b, mem.table[b])})
                               \cup Rest
  BY DeallocEffect
<1>2. PICK U, m : U = Range(todo') /\ m = mem'
  OBVIOUS
<1>3. geom \in Setups /\ mem.table \in [Blocks -> Slots \cup {None}]
  BY BaseFacts, ImageFacts
<1>4. /\ ClearStep(b, mem.table[b]).do = "clear" /\ ClearStep(b, mem.table[b]).block = b
      /\ ClearStep(b, mem.table[b]).slot = mem.table[b]
  BY DEF ClearStep
<1>5. /\ \A t \in U : t \in Rest \/ (t.do = "clear" /\ t.block = b /\ t.slot = mem.table[b] /\ t.slot # None)
      /\ \A t \in Rest : t \in U /\ t \in Work
  BY <1>1, <1>2, <1>4
<1>6. PICK u \in Rest : u.do = "drop" /\ b \in u.blocks
  BY <1>1 DEF DropInv
<1>7. \A s \in SectorsOf(b) : Base(s) \in st[s]
  BY <1>5, <1>6 DEF CrashInv
<1>8. \A s \in Sectors : At(mem.table, file.data, s) \in st[s]
  BY <1>1 DEF CrashInv
<1>9. \A t \in U : t.do \notin {"put", "cow", "entry", "insert"}
  BY <1>1, <1>5
<1>10. \A s, w : ~Writes(U, s, w)
  BY <1>9, WritesNone
<1>11. ASSUME NEW s \in Sectors PROVE At(m.table, file.data, s) \in st[s]
  <2>1. CASE BlockOf(s) = b
    <3>1. s \in SectorsOf(b) /\ m.table[BlockOf(s)] = None
      BY <1>1, <1>2, <1>3, <2>1, SectorFacts
    <3> QED
      BY <1>7, <3>1 DEF At
  <2>2. CASE BlockOf(s) # b
    <3>1. m.table[BlockOf(s)] = mem.table[BlockOf(s)]
      BY <1>1, <1>2, <1>3, <2>2, SectorFacts
    <3>2. At(m.table, file.data, s) = At(mem.table, file.data, s)
      BY <3>1 DEF At
    <3> QED
      BY <1>8, <3>2
  <2> QED
    BY <2>1, <2>2
<1>12. ASSUME NEW t \in U, t.do = "clear", NEW s \in SectorsOf(t.block)
       PROVE  file.data[Place(t.slot, s)] \in st[s]
  <2>1. t.block = b /\ t.slot = mem.table[b] /\ t.slot # None
    BY <1>1, <1>5, <1>12
  <2>2. s \in Sectors /\ BlockOf(s) = b
    BY <1>3, <1>12, <2>1, SectorFacts
  <2>3. At(mem.table, file.data, s) = file.data[Place(t.slot, s)]
    BY <2>1, <2>2 DEF At
  <2> QED
    BY <1>8, <2>2, <2>3
<1>13. \A t \in U : t.do = "clear" => \E x \in U : x.do = "drop" /\ t.block \in x.blocks
  <2>1. \A t \in U : t.do = "clear" => t.block = b
    BY <1>1, <1>5
  <2> QED
    BY <1>5, <1>6, <2>1
<1>14. /\ \A s \in Sectors : v[s] \in st[s]
       /\ \A e \in E : \A s \in InLine(e.line) : e.data[s] \in st[s]
       /\ \A t \in U : t.do = "drop" => \A d \in t.blocks : \A s \in SectorsOf(d) : Base(s) \in st[s]
  BY <1>5 DEF CrashInv
<1>15. \A s \in un : \E t \in U : t.do \in {"written", "drop"} /\ s \in t.sure
  BY <1>1, <1>5 DEF CrashInv
<1>16. CrashInv(U, E, m, file, v, st, un)
  BY <1>9, <1>10, <1>11, <1>12, <1>13, <1>14, <1>15 DEF CrashInv
<1> QED
  BY <1>1, <1>2, <1>16

LEMMA DiskCrash ==
    ASSUME BaseInv, DiskStep, NEW E, NEW v, NEW st, NEW un, NEW tb,
           CrashInv(Work, E, mem, file, v, st, un), DropInv(Work, E, tb, un)
    PROVE  CrashInv(Range(todo'), E, mem', file', v, st, un)
  BY QuietCrash, PutCrash, CowCrash, DeallocCrash DEF DiskStep

\* A step of the cache: what it holds and what it is to write were each the
\* sector's since the last flush.
LEMMA CrashMove ==
    ASSUME NEW T, NEW U, NEW E, NEW F, NEW v, NEW st, NEW un,
           CrashInv(T, E, mem, file, v, st, un),
           \A t \in T : t.do # "put", \A t \in U : t.do \notin {"put", "clear", "entry"},
           \A e \in F : \A s \in InLine(e.line) : e.data[s] \in st[s],
           \A t \in U : t.do = "insert" => \A s \in InLine(t.entry.line) : t.entry.data[s] \in st[s],
           \A s \in Sectors, w \in Values : Writes(U, s, w) => w \in st[s],
           \A t : t.do \in {"drop", "written"} => (t \in U <=> t \in T)
    PROVE  CrashInv(U, F, mem, file, v, st, un)
<1>1. \A s \in Sectors : v[s] \in st[s] /\ At(mem.table, file.data, s) \in st[s]
  BY DEF CrashInv
<1>2. \A t \in U : t.do = "drop" => \A b \in t.blocks : \A s \in SectorsOf(b) : Base(s) \in st[s]
  BY DEF CrashInv
<1>3. \A s \in un : \E t \in U : t.do \in {"written", "drop"} /\ s \in t.sure
  BY DEF CrashInv
<1> QED
  BY <1>1, <1>2, <1>3 DEF CrashInv

LEMMA LoadCrash ==
    ASSUME BaseInv, LoadLine, NEW v, NEW st, NEW un, CrashInv(Work, Held, mem, file, v, st, un)
    PROVE  CrashInv(Range(todo'), Range(cache'), mem, file, v, st, un)
<1>1. PICK k \in Lines :
             /\ Step.do = "load" /\ Work = {Step}
             /\ \/ \E e \in Held : e.line = k /\ cache' = Promoted(e) /\ Range(todo') = {}
                \/ /\ cache' = cache /\ Range(todo') = {EvictStep, InsertStep(LoadEntry(k))}
  BY LoadEffect
<1>2. PICK U, F : U = Range(todo') /\ F = Range(cache')
  OBVIOUS
<1>3. F = Held
  BY <1>1, <1>2, BaseFacts, PromotedSelf DEF Held
<1>4. EvictStep.do = "evict" /\ InsertStep(LoadEntry(k)).do = "insert"
      /\ InsertStep(LoadEntry(k)).entry = LoadEntry(k)
  BY DEF EvictStep, InsertStep
<1>5. \A t \in U : t.do \in {"evict", "insert"} /\ (t.do = "insert" => t.entry = LoadEntry(k))
  BY <1>1, <1>2, <1>4
<1>6. \A s \in InLine(k) : LoadEntry(k).data[s] \in st[s]
  <2>1. \A s \in Sectors : At(mem.table, file.data, s) \in st[s]
    BY <1>1 DEF CrashInv
  <2>2. \A s \in InLine(k) : s \in Sectors
    BY BaseFacts, SectorFacts
  <2> QED
    BY <2>1, <2>2, LoadEntryFacts
<1>7. \A t \in U : t.do = "insert" => \A s \in InLine(t.entry.line) : t.entry.data[s] \in st[s]
  BY <1>5, <1>6, LoadEntryFacts
<1>8. \A s, w : ~Writes(U, s, w)
  BY <1>5, WritesNone
<1>9. \A e \in Held : \A s \in InLine(e.line) : e.data[s] \in st[s]
  BY DEF CrashInv
<1>10. CrashInv(U, Held, mem, file, v, st, un)
  BY <1>1, <1>5, <1>7, <1>8, <1>9, CrashMove
<1> QED
  BY <1>2, <1>3, <1>10

LEMMA ChunkCrash ==
    ASSUME BaseInv, WriteChunk, NEW v, NEW st, NEW un, CrashInv(Work, Held, mem, file, v, st, un),
           \A t \in Work : t.do = "chunk" => \A s \in DOMAIN t.data : t.data[s] = v[s]
    PROVE  CrashInv(Range(todo'), Range(cache'), mem, file, v, st, un)
<1>1. PICK k \in Lines, f \in Chunks :
             /\ Step.do = "chunk" /\ Step.line = k /\ Step.data = f
             /\ DOMAIN f \subseteq InLine(k)
             /\ Work = {Step} \cup Rest
             /\ (\A u \in Rest : u.do \in {"chunk", "written"})
             /\ \/ \E e \in Held, x \in Lined :
                      /\ e.line = k /\ x.line = k /\ x.dirty = TRUE
                      /\ \A s \in InLine(k) : x.data[s] = IF s \in DOMAIN f THEN f[s] ELSE e.data[s]
                      /\ cache' = Promoted(x) /\ Range(todo') = Rest
                \/ \E x \in Lined :
                      /\ \A e \in Held : e.line # k
                      /\ x.line = k /\ x.dirty = TRUE /\ x.data = f /\ DOMAIN f = InLine(k)
                      /\ cache' = cache /\ Range(todo') = {EvictStep, InsertStep(x)} \cup Rest
                \/ /\ \A e \in Held : e.line # k
                   /\ cache' = cache
                   /\ Range(todo') = {EvictStep, InsertStep(LoadEntry(k)), Step} \cup Rest
  BY ChunkEffect
<1>2. PICK U, F : U = Range(todo') /\ F = Range(cache')
  OBVIOUS
<1>3. geom \in Setups /\ CacheOK(cache) /\ \A s \in InLine(k) : s \in Sectors
  BY BaseFacts, SectorFacts
<1>4. /\ \A s \in Sectors : v[s] \in st[s] /\ At(mem.table, file.data, s) \in st[s]
      /\ \A e \in Held : \A s \in InLine(e.line) : e.data[s] \in st[s]
  BY <1>1 DEF CrashInv
<1>5. \A s \in DOMAIN f : f[s] \in st[s]
  BY <1>1, <1>3, <1>4
<1>6. /\ EvictStep.do = "evict"
      /\ \A x : InsertStep(x).do = "insert" /\ InsertStep(x).entry = x
  BY DEF EvictStep, InsertStep
<1>7. CASE \E e \in Held, x \in Lined :
                      /\ e.line = k /\ x.line = k /\ x.dirty = TRUE
                      /\ \A s \in InLine(k) : x.data[s] = IF s \in DOMAIN f THEN f[s] ELSE e.data[s]
                      /\ cache' = Promoted(x) /\ Range(todo') = Rest
  <2>1. PICK e \in Held, x \in Lined :
                      /\ e.line = k /\ x.line = k /\ x.dirty = TRUE
                      /\ \A s \in InLine(k) : x.data[s] = IF s \in DOMAIN f THEN f[s] ELSE e.data[s]
                      /\ cache' = Promoted(x) /\ Range(todo') = Rest
    BY <1>7
  <2>2. \A s \in InLine(x.line) : x.data[s] \in st[s]
    BY <1>4, <1>5, <2>1
  <2>3. F = {x} \cup {y \in Held : y.line # k}
    BY <1>2, <1>3, <2>1, PromotedFacts
  <2>4. \A y \in F : \A s \in InLine(y.line) : y.data[s] \in st[s]
    BY <1>4, <2>2, <2>3
  <2>5. U = Rest /\ \A t \in U : t.do \in {"chunk", "written"}
    BY <1>1, <1>2, <2>1
  <2>6. \A s, w : ~Writes(U, s, w)
    BY <2>5, WritesNone
  <2>7. CrashInv(U, F, mem, file, v, st, un)
    BY <1>1, <2>4, <2>5, <2>6, CrashMove
  <2> QED
    BY <1>2, <2>7
<1>8. ASSUME NEW x \in Lined, x.line = k, \A s \in InLine(k) : x.data[s] \in st[s],
             cache' = cache, \A t \in U : t \in Work \/ t = EvictStep \/ t = InsertStep(x),
             \A t \in Work : t.do \in {"written"} => t \in U
      PROVE  CrashInv(Range(todo'), Range(cache'), mem, file, v, st, un)
  <2>1. F = Held
    BY <1>2, <1>8 DEF Held
  <2>2. \A t \in U : t.do \in {"chunk", "written", "evict", "insert"} /\ (t.do = "insert" => t.entry = x)
    BY <1>1, <1>6, <1>8
  <2>3. \A s, w : ~Writes(U, s, w)
    BY <2>2, WritesNone
  <2>4. /\ \A t : t.do \in {"drop", "written"} => (t \in U <=> t \in Work)
        /\ \A t \in Work : t.do # "put"
    BY <1>1, <1>6, <1>8
  <2>5. CrashInv(U, Held, mem, file, v, st, un)
    BY <1>4, <1>8, <2>2, <2>3, <2>4, CrashMove
  <2> QED
    BY <1>2, <2>1, <2>5
<1>9. CASE \E x \in Lined :
                      /\ \A e \in Held : e.line # k
                      /\ x.line = k /\ x.dirty = TRUE /\ x.data = f /\ DOMAIN f = InLine(k)
                      /\ cache' = cache /\ Range(todo') = {EvictStep, InsertStep(x)} \cup Rest
  <2>1. PICK x \in Lined :
                      /\ x.line = k /\ x.data = f /\ DOMAIN f = InLine(k)
                      /\ cache' = cache /\ U = {EvictStep, InsertStep(x)} \cup Rest
    BY <1>2, <1>9
  <2>2. /\ \A s \in InLine(k) : x.data[s] \in st[s]
        /\ \A t \in U : t \in Work \/ t = EvictStep \/ t = InsertStep(x)
        /\ \A t \in Work : t.do \in {"written"} => t \in U
    BY <1>1, <1>5, <2>1
  <2> QED
    BY <1>8, <2>1, <2>2
<1>10. CASE /\ cache' = cache
            /\ Range(todo') = {EvictStep, InsertStep(LoadEntry(k)), Step} \cup Rest
  <2>1. PICK x \in Lined : x = LoadEntry(k) /\ x.line = k /\ \A s \in InLine(k) : x.data[s] = At(mem.table, file.data, s)
    BY LoadEntryFacts
  <2>2. U = {EvictStep, InsertStep(x), Step} \cup Rest
    BY <1>2, <1>10, <2>1
  <2>3. /\ \A s \in InLine(k) : x.data[s] \in st[s]
        /\ \A t \in U : t \in Work \/ t = EvictStep \/ t = InsertStep(x)
        /\ \A t \in Work : t.do \in {"written"} => t \in U
    BY <1>1, <1>3, <1>4, <2>1, <2>2
  <2> QED
    BY <1>8, <1>10, <2>1, <2>3
<1> QED
  BY <1>1, <1>7, <1>9, <1>10

\* The steps of a write-back hold what the entry holds.
LEMMA CowStepsCrash ==
    ASSUME BaseInv, NEW e \in Held, NEW st, \A s \in InLine(e.line) : e.data[s] \in st[s],
           NEW U, NEW V, U = CowSteps(e) \cup V, Silent(V)
    PROVE  /\ \A s \in Sectors, w \in Values : Writes(U, s, w) => w \in st[s]
           /\ \A t \in U : t.do = "cow" \/ t \in V
<1>1. geom \in Setups /\ e \in Lined
  BY BaseFacts, HeldFacts DEF Held
<1>2. \A s, w : Writes(CowSteps(e), s, w) <=> s \in InLine(e.line) /\ e.data[s] = w
  BY <1>1, CowStepsWrite
<1>3. \A s, w : ~Writes(V, s, w)
  BY WritesNone DEF Silent
<1>4. \A s, w : Writes(U, s, w) <=> Writes(CowSteps(e), s, w) \/ Writes(V, s, w)
  BY DEF Writes
<1>5. \A s \in Sectors, w \in Values : Writes(U, s, w) => w \in st[s]
  BY <1>2, <1>3, <1>4
<1>6. \A t \in CowSteps(e) : t.do = "cow"
  BY <1>1, CowStepsFacts
<1> QED
  BY <1>5, <1>6

LEMMA EvictCrash ==
    ASSUME BaseInv, Evict, NEW v, NEW st, NEW un, CrashInv(Work, Held, mem, file, v, st, un)
    PROVE  CrashInv(Range(todo'), Range(cache'), mem, file, v, st, un)
<1>1. /\ Work = {EvictStep} \cup Rest
      /\ (\A u \in Rest : u.do \in {"insert", "chunk", "written"})
      /\ \/ Len(cache) < geom.lines /\ cache' = cache /\ Range(todo') = Rest
         \/ /\ Len(cache) >= geom.lines /\ cache # <<>> /\ ~Last(cache).dirty
            /\ cache' = Front(cache) /\ Range(todo') = Work
         \/ /\ Len(cache) >= geom.lines /\ cache # <<>> /\ Last(cache).dirty
            /\ cache' = cache
            /\ Range(todo') = CowSteps(Last(cache)) \cup {EvictedStep} \cup Work
  BY EvictEffect
<1>2. EvictStep.do = "evict" /\ EvictedStep.do = "evicted"
  BY DEF EvictStep, EvictedStep
<1>3. \A t \in Work : t.do \in {"evict", "insert", "chunk", "written"}
  BY <1>1, <1>2
<1>4. PICK U, F : U = Range(todo') /\ F = Range(cache')
  OBVIOUS
<1>5. \A e \in Held : \A s \in InLine(e.line) : e.data[s] \in st[s]
  BY DEF CrashInv
<1>6. F \subseteq Held
  BY <1>1, <1>4, BaseFacts, FrontFacts DEF Held
<1>7. \A t \in Work : t.do = "insert" => \A s \in InLine(t.entry.line) : t.entry.data[s] \in st[s]
  BY DEF CrashInv
<1>8. CASE U = Rest \/ U = Work
  <2>1. /\ \A t \in U : t \in Work
        /\ \A t : t.do \in {"drop", "written"} => (t \in U <=> t \in Work)
    BY <1>1, <1>2, <1>8
  <2>2. \A s, w : ~Writes(U, s, w)
    BY <1>3, <2>1, WritesNone
  <2>3. CrashInv(U, F, mem, file, v, st, un)
    BY <1>3, <1>5, <1>6, <1>7, <2>1, <2>2, CrashMove
  <2> QED
    BY <1>4, <2>3
<1>9. CASE cache # <<>> /\ U = CowSteps(Last(cache)) \cup {EvictedStep} \cup Work
  <2>1. PICK e \in Held : e = Last(cache)
    BY <1>9, BaseFacts, FrontFacts
  <2>2. PICK V : V = {EvictedStep} \cup Work
    OBVIOUS
  <2>3. /\ \A t \in V : t.do = "evicted" \/ t \in Work
        /\ \A t \in Work : t \in V
    BY <1>2, <2>2
  <2>4. Silent(V) /\ U = CowSteps(e) \cup V
    BY <1>3, <1>9, <2>1, <2>2, <2>3 DEF Silent
  <2>5. /\ \A s \in Sectors, w \in Values : Writes(U, s, w) => w \in st[s]
        /\ \A t \in U : t.do = "cow" \/ t \in V
    BY <1>5, <2>4, CowStepsCrash
  <2>6. \A t \in V : t \in U
    BY <2>4
  <2>7. CrashInv(U, F, mem, file, v, st, un)
    BY <1>3, <1>5, <1>6, <1>7, <2>3, <2>5, <2>6, CrashMove
  <2> QED
    BY <1>4, <2>7
<1> QED
  BY <1>1, <1>4, <1>8, <1>9

LEMMA EvictedCrash ==
    ASSUME BaseInv, Evicted, NEW v, NEW st, NEW un, CrashInv(Work, Held, mem, file, v, st, un)
    PROVE  CrashInv(Range(todo'), Range(cache'), mem, file, v, st, un)
<1>1. /\ Step.do = "evicted" /\ Work = {Step} \cup Rest
      /\ (\A u \in Rest : u.do \in {"evict", "insert", "chunk", "written"})
      /\ cache # <<>> /\ cache' = Front(cache) /\ Range(todo') = Rest
  BY EvictedEffect
<1>2. PICK F : F = Range(cache')
  OBVIOUS
<1>3. F \subseteq Held
  BY <1>1, <1>2, BaseFacts, FrontFacts
<1>4. /\ \A e \in Held : \A s \in InLine(e.line) : e.data[s] \in st[s]
      /\ \A t \in Work : t.do = "insert" => \A s \in InLine(t.entry.line) : t.entry.data[s] \in st[s]
  BY DEF CrashInv
<1>5. \A s, w : ~Writes(Rest, s, w)
  BY <1>1, WritesNone
<1>6. CrashInv(Rest, F, mem, file, v, st, un)
  BY <1>1, <1>3, <1>4, <1>5, CrashMove
<1> QED
  BY <1>1, <1>2, <1>6

LEMMA InsertCrash ==
    ASSUME BaseInv, InsertEntry, NEW v, NEW st, NEW un, CrashInv(Work, Held, mem, file, v, st, un)
    PROVE  CrashInv(Range(todo'), Range(cache'), mem, file, v, st, un)
<1>1. PICK e \in Lined :
             /\ Step.do = "insert" /\ Step.entry = e
             /\ Work = {Step} \cup Rest /\ Range(todo') = Rest
             /\ (\A u \in Rest : u.do \in {"chunk", "written"})
             /\ (\A x \in Held : x.line # e.line)
             /\ cache' = <<e>> \o cache
  BY InsertEffect
<1>2. CacheOK(cache)
  BY BaseFacts
<1>3. PICK F : F = {e} \cup Held /\ F = Range(cache')
  BY <1>1, <1>2, ConsFacts DEF Held
<1>4. /\ \A x \in Held : \A s \in InLine(x.line) : x.data[s] \in st[s]
      /\ \A s \in InLine(e.line) : e.data[s] \in st[s]
  BY <1>1 DEF CrashInv
<1>5. \A x \in F : \A s \in InLine(x.line) : x.data[s] \in st[s]
  BY <1>3, <1>4
<1>6. \A s, w : ~Writes(Rest, s, w)
  BY <1>1, WritesNone
<1>7. CrashInv(Rest, F, mem, file, v, st, un)
  BY <1>1, <1>5, <1>6, CrashMove
<1> QED
  BY <1>1, <1>3, <1>7

LEMMA SyncCrash ==
    ASSUME BaseInv, SyncLine, NEW v, NEW st, NEW un, CrashInv(Work, Held, mem, file, v, st, un)
    PROVE  CrashInv(Range(todo'), Range(cache'), mem, file, v, st, un)
<1>1. PICK e \in Held :
             /\ Step.do = "sync" /\ Step.line = e.line
             /\ Work = {Step} \cup Rest /\ (\A u \in Rest : u.do \in SyncRest)
             /\ cache' = Promoted(e)
             /\ Range(todo') = (IF e.dirty THEN CowSteps(e) \cup {CleanStep(e.line)} ELSE {}) \cup Rest
  BY SyncEffect
<1>2. PICK U, F : U = Range(todo') /\ F = Range(cache')
  OBVIOUS
<1>3. F = Held
  BY <1>1, <1>2, BaseFacts, PromotedSelf
<1>4. \A x \in Held : \A s \in InLine(x.line) : x.data[s] \in st[s]
  BY DEF CrashInv
<1>5. CleanStep(e.line).do = "clean"
  BY DEF CleanStep
<1>6. CASE e.dirty
  <2>1. PICK V : V = {CleanStep(e.line)} \cup Rest
    OBVIOUS
  <2>2. /\ \A t \in V : t.do = "clean" \/ t \in Rest
        /\ \A t \in Rest : t \in V
    BY <1>5, <2>1
  <2>3. Silent(V)
    BY <1>1, <2>2 DEF Silent, SyncRest
  <2>4. U = CowSteps(e) \cup V
    BY <1>1, <1>2, <1>6, <2>1
  <2>5. /\ \A s \in Sectors, w \in Values : Writes(U, s, w) => w \in st[s]
        /\ \A t \in U : t.do = "cow" \/ t \in V
    BY <1>4, <2>3, <2>4, CowStepsCrash
  <2>6. \A t \in V : t \in U
    BY <2>4
  <2>7. CrashInv(U, Held, mem, file, v, st, un)
    BY <1>1, <1>4, <2>2, <2>5, <2>6, CrashMove DEF SyncRest
  <2> QED
    BY <1>2, <1>3, <2>7
<1>7. CASE ~e.dirty
  <2>1. U = Rest
    BY <1>1, <1>2, <1>7
  <2>2. \A t \in Rest : t.do \in {"sync", "flushed", "dealloc", "trim", "drop"}
    BY <1>1 DEF SyncRest
  <2>3. \A s, w : ~Writes(Rest, s, w)
    BY <2>2, WritesNone
  <2>4. CrashInv(Rest, Held, mem, file, v, st, un)
    BY <1>1, <1>4, <2>2, <2>3, CrashMove
  <2> QED
    BY <1>2, <1>3, <2>1, <2>4
<1> QED
  BY <1>6, <1>7

LEMMA CleanCrash ==
    ASSUME BaseInv, CleanLine, NEW v, NEW st, NEW un, CrashInv(Work, Held, mem, file, v, st, un)
    PROVE  CrashInv(Range(todo'), Range(cache'), mem, file, v, st, un)
<1>1. PICK e \in Held :
             /\ Step.do = "clean" /\ e \in Lined
             /\ Work = {Step} \cup Rest /\ (\A u \in Rest : u.do \in SyncRest)
             /\ cache' = Promoted(Cleaned(e)) /\ Range(todo') = Rest
  BY CleanEffect
<1>2. PICK c : c = Cleaned(e) /\ c \in Lined /\ c.line = e.line /\ c.data = e.data
  BY <1>1, CleanedFacts
<1>3. PICK F : F = Range(cache')
  OBVIOUS
<1>4. F = {c} \cup {x \in Held : x.line # e.line}
  BY <1>1, <1>2, <1>3, BaseFacts, PromotedFacts
<1>5. \A x \in Held : \A s \in InLine(x.line) : x.data[s] \in st[s]
  BY DEF CrashInv
<1>6. \A x \in F : \A s \in InLine(x.line) : x.data[s] \in st[s]
  BY <1>2, <1>4, <1>5
<1>7. \A t \in Rest : t.do \in {"sync", "flushed", "dealloc", "trim", "drop"}
  BY <1>1 DEF SyncRest
<1>8. \A s, w : ~Writes(Rest, s, w)
  BY <1>7, WritesNone
<1>9. CrashInv(Rest, F, mem, file, v, st, un)
  BY <1>1, <1>6, <1>7, <1>8, CrashMove
<1> QED
  BY <1>1, <1>3, <1>9

\* At rest the invariant says three things.
LEMMA CrashRest ==
    ASSUME NEW F, NEW m, NEW f, NEW v, NEW st,
           \A s \in Sectors : v[s] \in st[s],
           \A e \in F : \A s \in InLine(e.line) : e.data[s] \in st[s],
           \A s \in Sectors : At(m.table, f.data, s) \in st[s]
    PROVE  CrashInv({}, F, m, f, v, st, {})
  BY DEF CrashInv, Writes

\* Once a flush has returned, cache, overlay and base have what was written.
LEMMA FlushedCrash ==
    ASSUME BaseInv, FlushReturns, CrashInv(Work, Held, mem, file, vol, stable, unsure), NEW l,
           DataStep(Work, Held, l, mem.table, file.data, vol, unsure, 0)
    PROVE  CrashInv(Range(todo'), Range(cache'), mem, file, vol', stable', unsure')
<1>1. Step.do = "flushed" /\ Work = {Step} /\ Range(todo') = {}
  BY LastEffect DEF FlushReturns
<1>2. unsure = {}
  BY <1>1 DEF CrashInv
<1>3. \A e \in Held : ~e.dirty
  BY <1>1 DEF DataStep, DropInv
<1>4. Silent(Work)
  BY <1>1 DEF Silent
<1>5. \A s \in Sectors : Kept(Work, unsure, vol, s, 0)
  BY <1>2 DEF Kept, Tracked
<1>6. \A s \in Sectors : Right(Held, mem.table, file.data, s, vol[s])
  BY <1>4, <1>5, GoodSilent DEF DataStep, DataInv
<1>7. \A s \in Sectors : At(mem.table, file.data, s) = vol[s]
  BY <1>3, <1>6 DEF Right
<1>8. \A e \in Held : \A s \in InLine(e.line) : s \in Sectors /\ e.data[s] = vol[s]
  BY <1>6, BaseFacts, SectorFacts DEF Right
<1>9. PICK st : st = stable' /\ \A s \in Sectors : st[s] = {vol[s]}
  BY DEF FlushReturns
<1>10. CrashInv({}, Held, mem, file, vol, st, {})
  BY <1>7, <1>8, <1>9, CrashRest
<1>11. Range(cache') = Held /\ vol' = vol /\ unsure' = {}
  BY <1>2 DEF FlushReturns, Held
<1> QED
  BY <1>1, <1>9, <1>10, <1>11

LEMMA WrittenCrash ==
    ASSUME BaseInv, WriteReturns, CrashInv(Work, Held, mem, file, vol, stable, unsure)
    PROVE  CrashInv(Range(todo'), Range(cache'), mem, file, vol', stable', unsure')
<1>1. Step.do = "written" /\ Work = {Step} /\ Range(todo') = {}
  BY LastEffect DEF WriteReturns
<1>2. unsure \ Step.sure = {}
  BY <1>1 DEF CrashInv
<1>3. /\ \A s \in Sectors : vol[s] \in stable[s] /\ At(mem.table, file.data, s) \in stable[s]
      /\ \A e \in Held : \A s \in InLine(e.line) : e.data[s] \in stable[s]
  BY <1>1 DEF CrashInv
<1>4. CrashInv({}, Held, mem, file, vol, stable, {})
  BY <1>3, CrashRest
<1>5. Range(cache') = Held /\ vol' = vol /\ stable' = stable /\ unsure' = {}
  BY <1>2 DEF WriteReturns, Held
<1> QED
  BY <1>1, <1>4, <1>5

LEMMA DropCrash ==
    ASSUME BaseInv, DropLines, CrashInv(Work, Held, mem, file, vol, stable, unsure)
    PROVE  CrashInv(Range(todo'), Range(cache'), mem, file, vol', stable', unsure')
<1>1. Step.do = "drop" /\ Work = {Step} /\ Range(todo') = {}
  BY LastEffect DEF DropLines
<1>2. unsure \ Step.sure = {}
  BY <1>1 DEF CrashInv
<1>3. /\ \A s \in Sectors : vol[s] \in stable[s] /\ At(mem.table, file.data, s) \in stable[s]
      /\ \A e \in Held : \A s \in InLine(e.line) : e.data[s] \in stable[s]
      /\ \A b \in Step.blocks : \A s \in SectorsOf(b) : Base(s) \in stable[s]
  BY <1>1 DEF CrashInv
<1>4. PICK w, F : w = vol' /\ F = Range(cache')
  OBVIOUS
<1>5. \A x \in F : x \in Held
  BY <1>4, BaseFacts, DroppedFacts DEF DropLines
<1>6. \A s \in Sectors : w[s] = IF BlockOf(s) \in Step.blocks THEN Base(s) ELSE vol[s]
  BY <1>4 DEF DropLines
<1>7. \A s \in Sectors : s \in SectorsOf(BlockOf(s))
  BY BaseFacts, SectorFacts
<1>8. \A s \in Sectors : w[s] \in stable[s]
  BY <1>3, <1>6, <1>7
<1>9. CrashInv({}, F, mem, file, w, stable, {})
  BY <1>3, <1>5, <1>8, CrashRest
<1>10. stable' = stable /\ unsure' = {}
  BY <1>2 DEF DropLines
<1> QED
  BY <1>1, <1>4, <1>9, <1>10

\* A call that begins may leave a sector with more values, and with no fewer.
LEMMA BeginCrash ==
    ASSUME CrashInv({}, Held, mem, file, vol, stable, unsure), \A e \in Held : \A s \in InLine(e.line) : s \in Sectors,
           NEW U, NEW w, NEW st, NEW up,
           \A t \in U : t.do \notin {"put", "cow", "clear", "entry", "insert"},
           \A s \in Sectors : w[s] \in st[s],
           \A s \in Sectors : \A x \in stable[s] : x \in st[s],
           \A t \in U : t.do = "drop" => \A b \in t.blocks : \A s \in SectorsOf(b) : Base(s) \in st[s],
           \A s \in up : \E t \in U : t.do \in {"written", "drop"} /\ s \in t.sure
    PROVE  CrashInv(U, Held, mem, file, w, st, up)
<1>1. /\ \A s \in Sectors : At(mem.table, file.data, s) \in stable[s]
      /\ \A e \in Held : \A s \in InLine(e.line) : e.data[s] \in stable[s]
  BY DEF CrashInv
<1>2. /\ \A s \in Sectors : At(mem.table, file.data, s) \in st[s]
      /\ \A e \in Held : \A s \in InLine(e.line) : e.data[s] \in st[s]
  BY <1>1
<1>3. \A s, x : ~Writes(U, s, x)
  BY WritesNone
<1> QED
  BY <1>2, <1>3 DEF CrashInv

\* A write adds its data to what a crash may leave.
LEMMA WriteStable ==
    ASSUME BaseInv, NEW first \in Sectors, NEW last \in Sectors, NEW v \in 1 .. MaxVersion,
           WriteAt(first, last, v)
    PROVE  \A s \in Sectors : /\ \A x \in stable[s] : x \in stable'[s]
                              /\ s \in first .. last => <<s, v>> \in stable'[s]
<1>1. first .. last \in SUBSET Sectors /\ stable \in [Sectors -> SUBSET Values]
  BY BaseFacts, WriteDataFacts
<1>2. PICK f : f = [s \in first .. last |-> <<s, v>>]
  OBVIOUS
<1>3. PICK g : g = [s \in first .. last |-> stable[s] \cup {f[s]}]
  OBVIOUS
<1>4. PICK z : z = Over(g, stable)
  OBVIOUS
<1>5. stable' = z
  BY <1>2, <1>3, <1>4 DEF WriteAt
<1>6. z = [s \in Sectors |-> IF s \in first .. last THEN g[s] ELSE stable[s]]
  <2>1. DOMAIN g \cup DOMAIN stable = Sectors /\ DOMAIN g = first .. last
    BY <1>1, <1>3
  <2> QED
    BY <1>4, <2>1 DEF Over
<1>7. \A s \in first .. last : g[s] = stable[s] \cup {<<s, v>>}
  BY <1>2, <1>3
<1>8. \A s \in Sectors : /\ \A x \in stable[s] : x \in z[s]
                         /\ s \in first .. last => <<s, v>> \in z[s]
  BY ONLY <1>6, <1>7
<1> QED
  BY ONLY <1>5, <1>8

LEMMA CallCrash ==
    ASSUME BaseInv, Calling, CrashInv(Work, Held, mem, file, vol, stable, unsure)
    PROVE  CrashInv(Range(todo'), Range(cache'), mem, file, vol', stable', unsure')
<1>1. /\ Work = {} /\ cache' = cache
      /\ \A t \in Range(todo') : t.do \notin {"put", "cow", "clear", "entry", "insert"}
  BY CallKinds
<1>2. Range(cache') = Held
  BY <1>1 DEF Held
<1>3. PICK U, w, st, up : U = Range(todo') /\ w = vol' /\ st = stable' /\ up = unsure'
  OBVIOUS
<1>4. CrashInv({}, Held, mem, file, vol, stable, unsure) /\ unsure = {}
  BY <1>1 DEF CrashInv
<1>5. geom \in Setups /\ \A e \in Held : \A s \in InLine(e.line) : s \in Sectors
  BY BaseFacts, SectorFacts
<1>6. \A s \in Sectors : vol[s] \in stable[s]
  BY <1>4 DEF CrashInv
<1>7. ASSUME \A s \in Sectors : w[s] \in st[s],
             \A s \in Sectors : \A x \in stable[s] : x \in st[s],
             \A t \in U : t.do = "drop" => \A b \in t.blocks : \A s \in SectorsOf(b) : Base(s) \in st[s],
             \A s \in up : \E t \in U : t.do \in {"written", "drop"} /\ s \in t.sure
      PROVE  CrashInv(Range(todo'), Range(cache'), mem, file, vol', stable', unsure')
  <2>1. CrashInv(U, Held, mem, file, w, st, up)
    BY <1>1, <1>3, <1>4, <1>5, <1>7, BeginCrash
  <2> QED
    BY <1>2, <1>3, <2>1
<1>8. CASE (\E s \in Sectors : ReadAt(s)) \/ Flush
  <2>1. w = vol /\ st = stable /\ up = unsure
    BY <1>3, <1>8 DEF ReadAt, Flush, history
  <2>2. \A t \in U : t.do # "drop"
    <3>1. CASE \E s \in Sectors : ReadAt(s)
      <4>1. PICK s \in Sectors : ReadAt(s)
        BY <3>1
      <4>2. U = {LoadStep(LineOf(s))}
        BY <1>3, <4>1, ReadEffect
      <4> QED
        BY <4>2 DEF LoadStep
    <3>2. CASE Flush
      <4>1. U = SyncsOf(Lines) \cup {FlushedStep}
        BY <1>3, <3>2, FlushEffect
      <4> QED
        BY <4>1 DEF SyncsOf, SyncStep, FlushedStep
    <3> QED
      BY <1>8, <3>1, <3>2
  <2> QED
    BY <1>4, <1>6, <1>7, <2>1, <2>2
<1>9. CASE \E first, last \in Sectors, v \in 1..MaxVersion : first <= last /\ WriteAt(first, last, v)
  <2>1. PICK first \in Sectors, last \in Sectors, v \in 1..MaxVersion : WriteAt(first, last, v)
    BY <1>9
  <2>8. PICK f : f = WriteData(first, last, v)
    OBVIOUS
  <2>9. /\ Range(todo') = {ChunkStep(f, k) : k \in LinesIn(f)} \cup {WrittenStep(first .. last)}
        /\ unsure' = unsure \cup (first .. last)
        /\ \A s \in Sectors : vol'[s] = IF s \in first .. last THEN <<s, v>> ELSE vol[s]
    BY <2>1, <2>8, WriteEffect
  <2>10. \A s \in Sectors : /\ \A x \in stable[s] : x \in stable'[s]
                            /\ s \in first .. last => <<s, v>> \in stable'[s]
    BY <2>1, WriteStable
  <2>2. /\ U = {ChunkStep(f, k) : k \in LinesIn(f)} \cup {WrittenStep(first .. last)}
        /\ up = unsure \cup (first .. last)
        /\ \A s \in Sectors : w[s] = IF s \in first .. last THEN <<s, v>> ELSE vol[s]
        /\ \A s \in Sectors : /\ \A x \in stable[s] : x \in st[s]
                              /\ s \in first .. last => <<s, v>> \in st[s]
    BY <1>3, <2>9, <2>10
  <2>3. PICK t \in U : t = WrittenStep(first .. last)
    BY <2>2
  <2>4. t.do = "written" /\ t.sure = first .. last
    BY <2>3 DEF WrittenStep
  <2>5. \A x \in U : x.do # "drop"
    BY <2>2, <2>3, <2>4, ChunkStepDo
  <2>6. \A s \in up : \E x \in U : x.do \in {"written", "drop"} /\ s \in x.sure
    BY <1>4, <2>2, <2>4
  <2>7. \A s \in Sectors : w[s] \in st[s] /\ \A x \in stable[s] : x \in st[s]
    BY <1>6, <2>2
  <2> QED
    BY <1>7, <2>5, <2>6, <2>7
<1>10. CASE \E first, last \in Sectors : first <= last /\ DiscardRange(first, last)
  <2>1. PICK first \in Sectors, last \in Sectors : DiscardRange(first, last)
    BY <1>10
  <2>2. PICK K \in SUBSET Lines, B \in SUBSET Blocks : \E D : Discards(first, last, K, B, D)
    BY <2>1, DiscardEffect
  <2>3. PICK D : Discards(first, last, K, B, D)
    BY <2>2
  <2>4. PICK S : S = (first .. last) \ unsure
    OBVIOUS
  <2>5. /\ \A t \in D : t = [do |-> "trim"] \/ \E b \in B : t = DeallocStep(b)
        /\ U = SyncsOf(K) \cup D \cup {DropStep(K, B, S)}
        /\ w = vol /\ up = unsure \cup (first .. last)
        /\ \A s \in Sectors : st[s] = IF BlockOf(s) \in B THEN stable[s] \cup {Base(s)} ELSE stable[s]
    BY <1>3, <2>3, <2>4 DEF Discards
  <2>6. PICK t \in U : t = DropStep(K, B, S)
    BY <2>5
  <2>7. t.do = "drop" /\ t.sure = S /\ t.blocks = B
    BY <2>6 DEF DropStep
  <2>8. \A x \in U : x.do = "drop" => x = t
    <3>1. \A x \in SyncsOf(K) : x.do = "sync"
      BY DEF SyncsOf, SyncStep
    <3>2. \A x \in D : x.do \in {"trim", "dealloc"}
      BY <2>5 DEF DeallocStep
    <3> QED
      BY <2>5, <2>6, <3>1, <3>2
  <2>9. \A b \in B : \A s \in SectorsOf(b) : Base(s) \in st[s]
    BY <1>5, <2>5, SectorFacts
  <2>10. \A s \in up : \E x \in U : x.do \in {"written", "drop"} /\ s \in x.sure
    BY <1>4, <2>4, <2>5, <2>7
  <2>11. \A s \in Sectors : w[s] \in st[s] /\ \A x \in stable[s] : x \in st[s]
    BY <1>6, <2>5
  <2> QED
    BY <1>7, <2>7, <2>8, <2>9, <2>10, <2>11
<1> QED
  BY <1>8, <1>9, <1>10 DEF Calling

LEMMA ReopenCrash ==
    ASSUME BaseInv, Reopen
    PROVE  CrashInv(Range(todo'), Range(cache'), mem', file', vol', stable', unsure')
<1>1. /\ geom \in Setups /\ file' = file /\ todo' = <<>> /\ cache' = <<>> /\ mem' = Loaded(file) /\ Opens(file)
      /\ unsure' = {} /\ file \in Images
      /\ \A s \in Sectors : /\ vol'[s] = At(file.table, file.data, s)
                            /\ stable'[s] = {At(file.table, file.data, s)}
  BY ReopenEffect, BaseFacts
<1>2. PICK e : e = <<>> /\ Range(e) = {}
  BY EmptyFacts
<1>3. PICK m : m = Loaded(file) /\ m.table = file.table
  BY <1>1, OpenFacts
<1>4. PICK w, st : w = vol' /\ st = stable'
  OBVIOUS
<1>5. \A s \in Sectors : w[s] \in st[s] /\ At(m.table, file.data, s) \in st[s]
  BY <1>1, <1>3, <1>4
<1>6. CrashInv({}, {}, m, file, w, st, {})
  BY <1>5, CrashRest
<1> QED
  BY <1>1, <1>2, <1>3, <1>4, <1>6

LEMMA InitCrash == Init => CrashOK
<1> SUFFICES ASSUME Init PROVE CrashInv(Work, Held, mem, file, vol, stable, unsure)
  BY DEF CrashOK
<1>1. geom \in Setups /\ mem = Loaded(NewImage) /\ todo = <<>> /\ cache = <<>>
      /\ vol = [s \in Sectors |-> Base(s)] /\ stable = [s \in Sectors |-> {Base(s)}] /\ unsure = {}
  BY DEF Init
<1>2. PICK e : e = <<>> /\ Range(e) = {}
  BY EmptyFacts
<1>3. Work = {} /\ Held = {}
  BY <1>1, <1>2 DEF Work, Held
<1>4. \A b \in Blocks : mem.table[b] = None
  BY <1>1, NewFacts
<1>5. \A s \in Sectors : BlockOf(s) \in Blocks
  BY <1>1, SectorFacts
<1>6. \A s \in Sectors : vol[s] \in stable[s] /\ At(mem.table, file.data, s) \in stable[s]
  BY <1>1, <1>4, <1>5 DEF At
<1>7. CrashInv({}, {}, mem, file, vol, stable, {})
  BY <1>6, CrashRest
<1> QED
  BY <1>1, <1>3, <1>7

LEMMA CacheCrash ==
    ASSUME BaseInv, CacheStep, CrashInv(Work, Held, mem, file, vol, stable, unsure),
           DataStep(Work, Held, Last(cache), mem.table, file.data, vol, unsure, 0)
    PROVE  CrashInv(Range(todo'), Range(cache'), mem, file, vol', stable', unsure')
<1>1. CASE LoadLine \/ WriteChunk \/ Evict \/ Evicted \/ InsertEntry \/ SyncLine \/ CleanLine
  <2>1. vol' = vol /\ stable' = stable /\ unsure' = unsure
    BY <1>1 DEF LoadLine, WriteChunk, Evict, Evicted, InsertEntry, SyncLine, CleanLine, CacheOnly, history
  <2>2. \A t \in Work : t.do = "chunk" => \A s \in DOMAIN t.data : t.data[s] = vol[s]
    BY DEF DataStep, DataInv
  <2>3. CrashInv(Range(todo'), Range(cache'), mem, file, vol, stable, unsure)
    BY <1>1, <2>2, LoadCrash, ChunkCrash, EvictCrash, EvictedCrash, InsertCrash, SyncCrash, CleanCrash
  <2> QED
    BY <2>1, <2>3
<1>2. CASE FlushReturns
  BY <1>2, FlushedCrash
<1>3. CASE DropLines
  BY <1>3, DropCrash
<1>4. CASE WriteReturns
  BY <1>4, WrittenCrash
<1> QED
  BY <1>1, <1>2, <1>3, <1>4 DEF CacheStep

LEMMA CrashNext == BaseInv /\ DropOK /\ DataOK /\ CrashOK /\ [Next]_vars => CrashOK'
<1> SUFFICES ASSUME BaseInv, DropOK, DataOK, CrashOK, [Next]_vars PROVE CrashOK'
  OBVIOUS
<1> DEFINE Now == CrashInv(Work, Held, mem, file, vol, stable, unsure)
           After == CrashInv(Range(todo'), Range(cache'), mem', file', vol', stable', unsure')
<1>1. ASSUME geom' = geom, Sound' => After PROVE CrashOK'
  BY <1>1, SameCrash DEF CrashOK
<1>2. ASSUME geom' = geom, status' = status, faults' = faults PROVE Sound' => Sound
  BY <1>2 DEF Sound, Failed
<1>3. Sound => /\ Now /\ DropInv(Work, Held, mem.table, unsure)
               /\ DataStep(Work, Held, Last(cache), mem.table, file.data, vol, unsure, 0)
  <2> SUFFICES ASSUME Sound
               PROVE  /\ Now /\ DropInv(Work, Held, mem.table, unsure)
                      /\ DataStep(Work, Held, Last(cache), mem.table, file.data, vol, unsure, 0)
    OBVIOUS
  <2>1. Lost(faults) = 0
    BY BaseFacts DEF Sound, Failed, Lost
  <2>2. /\ DropInv(Work, Held, mem.table, unsure)
        /\ DataInv(Work, Held, Last(cache), mem.table, file.data, vol, unsure, 0)
    BY <2>1 DEF Sound, DropOK, DataOK
  <2> QED
    BY <2>2 DEF CrashOK, DataStep
<1>4. CASE DiskStep /\ UNCHANGED geom /\ KeepCache
  <2>1. /\ geom' = geom /\ status' = status /\ faults' = faults /\ cache' = cache
        /\ vol' = vol /\ stable' = stable /\ unsure' = unsure
    BY <1>4 DEF KeepCache, history
  <2>2. Sound => CrashInv(Range(todo'), Held, mem', file', vol, stable, unsure)
    BY <1>3, <1>4, DiskCrash
  <2>3. Range(cache') = Held
    BY <2>1 DEF Held
  <2>4. Sound => After
    BY <2>1, <2>2, <2>3
  <2> QED
    BY <1>1, <1>2, <2>1, <2>4
<1>5. CASE CacheStep
  <2>1. geom' = geom /\ status' = status /\ faults' = faults /\ mem' = mem /\ file' = file
    BY <1>5, CacheKinds DEF KeepDisk
  <2>2. Sound => CrashInv(Range(todo'), Range(cache'), mem, file, vol', stable', unsure')
    BY <1>3, <1>5, CacheCrash
  <2>3. Sound => After
    BY <2>1, <2>2
  <2> QED
    BY <1>1, <1>2, <2>1, <2>3
<1>6. CASE Calling
  <2>1. geom' = geom /\ status' = status /\ faults' = faults /\ mem' = mem /\ file' = file
    BY <1>6, CallKinds DEF KeepDisk
  <2>2. Sound => CrashInv(Range(todo'), Range(cache'), mem, file, vol', stable', unsure')
    BY <1>3, <1>6, CallCrash
  <2>3. Sound => After
    BY <2>1, <2>2
  <2> QED
    BY <1>1, <1>2, <2>1, <2>3
<1>7. CASE Fail
  <2>1. geom' = geom /\ geom.fault = "error" /\ faults \in Nat /\ faults' = faults + 1
    BY <1>7, FailEffect
  <2>2. Failed'
    BY <2>1 DEF Failed
  <2> QED
    BY <2>2 DEF CrashOK, Sound
<1>8. CASE Crash
  <2>1. status' = "crashed"
    BY <1>8 DEF Crash
  <2> QED
    BY <2>1 DEF CrashOK, Sound
<1>9. CASE Reopen
  <2>1. geom' = geom
    BY <1>9, ReopenEffect
  <2>2. After
    BY <1>9, ReopenCrash
  <2> QED
    BY <1>1, <2>1, <2>2
<1>10. CASE UNCHANGED vars
  <2>1. /\ geom' = geom /\ file' = file /\ mem' = mem /\ todo' = todo /\ status' = status /\ faults' = faults
        /\ cache' = cache /\ vol' = vol /\ stable' = stable /\ unsure' = unsure
    BY <1>10 DEF vars, history
  <2>2. Range(todo') = Work /\ Range(cache') = Held
    BY <2>1 DEF Work, Held
  <2>3. Now => After
    BY <2>1, <2>2
  <2> QED
    BY <1>1, <1>2, <1>3, <2>1, <2>3
<1> QED
  BY <1>4, <1>5, <1>6, <1>7, <1>8, <1>9, <1>10 DEF Next, Calling

LEMMA DiskCrashInvariant == Spec => [](DiskInv /\ CrashOK)
<1>1. DiskInv /\ CrashOK /\ [Next]_vars => CrashOK'
  BY CrashNext DEF DiskInv
<1> QED
  BY <1>1, InitCrash, DiskInvariant, PTL DEF Spec

\* The table on file is the one in memory, except for the entry of a block
\* that the call in progress is filling or letting go.
LEMMA CrashLeaves == DiskInv /\ CrashOK => CrashConfined
<1> SUFFICES ASSUME DiskInv, CrashOK, Sound, NEW s \in Sectors, BlockOf(s) \notin Filling
             PROVE  Stored(file.table, s) \in stable[s]
  BY DEF CrashConfined, Sound
<1>1. /\ geom \in Setups /\ Plan(todo) /\ SlotInv(Work, mem, file)
      /\ CrashInv(Work, Held, mem, file, vol, stable, unsure)
      /\ BlockOf(s) \in Blocks /\ s \in SectorsOf(BlockOf(s))
  BY BaseFacts, SectorFacts DEF DiskInv, SlotsOK, CrashOK
<1>2. \A t \in Work : t.do = "put" /\ t.new => BlockOf(t.sector) # BlockOf(s)
  <2> SUFFICES ASSUME NEW t \in Work, t.do = "put", t.new, BlockOf(t.sector) = BlockOf(s)
               PROVE  FALSE
    OBVIOUS
  <2>1. PICK i \in DOMAIN todo : todo[i] = t
    BY DEF Work, Range
  <2> QED
    BY <2>1 DEF Filling
<1>3. At(mem.table, file.data, s) \in stable[s]
  BY <1>1, <1>2 DEF CrashInv
<1>4. Stored(file.table, s) = At(file.table, file.data, s)
  BY DEF Stored, At
<1>5. CASE file.table[BlockOf(s)] = mem.table[BlockOf(s)]
  BY <1>3, <1>4, <1>5 DEF At
<1>6. ASSUME NEW t \in Work, t.do = "entry", t.block = BlockOf(s) PROVE FALSE
  BY <1>1, <1>2, <1>6 DEF CrashInv
<1>7. ASSUME NEW t \in Work, t.do = "clear", t.block = BlockOf(s)
      PROVE  Stored(file.table, s) \in stable[s]
  <2>1. t \in Steps /\ t.slot \in Slots
    BY <1>1, <1>7, StepKinds, RangeOf DEF Plan, Work
  <2>2. t.slot # None
    BY <2>1, DiskAssumption DEF Slots
  <2>3. file.table[BlockOf(s)] = t.slot /\ file.data[Place(t.slot, s)] \in stable[s]
    BY <1>1, <1>7 DEF SlotInv, CrashInv
  <2> QED
    BY <1>4, <2>2, <2>3 DEF At
<1> QED
  BY <1>1, <1>5, <1>6, <1>7 DEF SlotInv

\* A crash at any moment leaves each sector with its value of the last flush or
\* one it was given since, and with no other sector's data, unless its block is
\* just being allocated: in whatever order entries are evicted, slots are freed
\* and given out again, the table never points to a slot that holds another
\* block's data (flush, ensure_block_allocated, deallocate_block_inner).
THEOREM DiskCrashConfined == Spec => []CrashConfined
  BY DiskCrashInvariant, CrashLeaves, PTL
=============================================================================
