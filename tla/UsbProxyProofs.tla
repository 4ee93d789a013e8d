--------------------------- MODULE UsbProxyProofs ---------------------------
(***************************************************************************)
(* WebUSB passthrough end to end, for every number of endpoints, devices,  *)
(* transfers and queued actions: the types, the broker's queue, and, as    *)
(* long as the ids of transfers do not wrap around, that the guest is told *)
(* only what the USB device did for the very transfer it asked about.      *)
(***************************************************************************)
EXTENDS UsbProxy, FiniteSetTheorems, SequenceTheorems, TLAPS

-----------------------------------------------------------------------------
(* Sequences *)

\* The well-ordering of the naturals, as a fact about sets.
LEMMA LeastNat ==
    ASSUME NEW T \in SUBSET Nat, T # {}
    PROVE  \E x \in T : \A y \in T : x <= y
<1>1. PICK x \in T : \A y \in T : ~(<<y, x>> \in OpToRel(<, Nat))
  BY Zenon, NatLessThanWellFounded, WFMin
<1>2. \A y \in T : ~(y < x)
  BY <1>1 DEF OpToRel
<1> QED
  BY <1>2

\* A set of indexes of a sequence is finite.
LEMMA FiniteIndexes ==
    ASSUME NEW m \in Nat, NEW S \in SUBSET (1 .. m)
    PROVE  IsFiniteSet(S) /\ Cardinality(S) \in Nat
<1>1. IsFiniteSet(1 .. m)
  BY FS_Interval
<1>2. IsFiniteSet(S)
  BY <1>1, FS_Subset
<1> QED
  BY <1>2, FS_CardinalityType

\* The elements of a set of indexes that come no later than i.
UpTo(S, i) == {j \in S : j <= i}

\* Every rank from 1 to the size of a finite set of indexes is taken.
LEMMA RankExists ==
    ASSUME NEW m \in Nat, NEW S \in SUBSET (1 .. m), NEW n \in 1 .. Cardinality(S)
    PROVE  \E i \in S : Cardinality(UpTo(S, i)) = n
<1>0. \A j \in S : j \in Nat /\ 1 <= j /\ j <= m
  OBVIOUS
<1>1. IsFiniteSet(S) /\ Cardinality(S) \in Nat
  BY FiniteIndexes
<1>2. \A i \in 0 .. m : IsFiniteSet(UpTo(S, i)) /\ Cardinality(UpTo(S, i)) \in Nat
  BY <1>1, FS_Subset, FS_CardinalityType DEF UpTo
<1> DEFINE T == {i \in 0 .. m : Cardinality(UpTo(S, i)) >= n}
<1>3. m \in T
  <2>1. UpTo(S, m) = S
    BY <1>0 DEF UpTo
  <2> QED
    BY <1>1, <2>1
<1>4. PICK x \in T : \A y \in T : x <= y
  <2>1. T \in SUBSET Nat /\ T # {}
    BY <1>3
  <2> HIDE DEF T
  <2> QED
    BY <2>1, LeastNat
<1>5. x \in 1 .. m
  <2>0. \A j \in S : ~(j <= 0)
    BY <1>0
  <2>1. UpTo(S, 0) = {}
    BY <2>0 DEF UpTo
  <2>2. Cardinality(UpTo(S, 0)) = 0
    BY <2>1, FS_EmptySet
  <2>3. x # 0
    BY <2>2
  <2> QED
    BY <2>3
<1>6. Cardinality(UpTo(S, x - 1)) < n
  <2>1. x - 1 \in 0 .. m /\ x - 1 \notin T
    BY <1>4, <1>5
  <2> QED
    BY <1>2, <2>1
<1>7. x \in S
  <2> SUFFICES ASSUME x \notin S PROVE FALSE
    OBVIOUS
  <2>1. \A j \in S : j <= x <=> j <= x - 1
    BY <1>0, <1>5
  <2>2. UpTo(S, x) = UpTo(S, x - 1)
    BY <2>1 DEF UpTo
  <2> QED
    BY <1>2, <1>4, <1>5, <1>6, <2>2
<1>8. Cardinality(UpTo(S, x)) = Cardinality(UpTo(S, x - 1)) + 1
  <2>0. /\ \A j \in S : j <= x <=> (j <= x - 1 \/ j = x)
        /\ ~(x <= x - 1) /\ x <= x
    BY <1>0, <1>5
  <2>1. UpTo(S, x) = UpTo(S, x - 1) \cup {x} /\ x \notin UpTo(S, x - 1)
    BY <1>7, <2>0 DEF UpTo
  <2>2. x - 1 \in 0 .. m
    BY <1>5
  <2> QED
    BY <1>2, <2>1, <2>2, FS_AddElement
<1>9. x - 1 \in 0 .. m
  BY <1>5
<1> QED
  BY <1>2, <1>4, <1>6, <1>7, <1>8, <1>9

\* Picked(s, S) holds an element of s for each index of S.
LEMMA PickedFacts ==
    ASSUME NEW T, NEW s \in Seq(T), NEW S \in SUBSET DOMAIN s
    PROVE  /\ Picked(s, S) \in Seq(T)
           /\ Len(Picked(s, S)) = Cardinality(S) /\ Cardinality(S) \in Nat
           /\ \E f \in [1 .. Cardinality(S) -> S] :
                 /\ \A n \in 1 .. Cardinality(S) : Picked(s, S)[n] = s[f[n]]
                 /\ \A n, k \in 1 .. Cardinality(S) : f[n] = f[k] => n = k
<1>1. DOMAIN s = 1 .. Len(s) /\ Len(s) \in Nat
  OBVIOUS
<1>2. IsFiniteSet(S) /\ Cardinality(S) \in Nat
  BY <1>1, FiniteIndexes
<1> DEFINE At(n) == CHOOSE i \in S : Cardinality({j \in S : j <= i}) = n
           f == [n \in 1 .. Cardinality(S) |-> At(n)]
<1>3. \A n \in 1 .. Cardinality(S) : At(n) \in S /\ Cardinality(UpTo(S, At(n))) = n
  <2> SUFFICES ASSUME NEW n \in 1 .. Cardinality(S)
               PROVE  At(n) \in S /\ Cardinality(UpTo(S, At(n))) = n
    OBVIOUS
  <2>1. \E i \in S : Cardinality({j \in S : j <= i}) = n
    BY <1>1, RankExists DEF UpTo
  <2> QED
    BY <2>1 DEF UpTo
<1>4. Picked(s, S) = [n \in 1 .. Cardinality(S) |-> s[At(n)]]
  BY DEF Picked
<1> HIDE DEF At
<1>5. \A n \in 1 .. Cardinality(S) : s[At(n)] \in T
  BY <1>1, <1>3
<1>6. Picked(s, S) \in Seq(T) /\ Len(Picked(s, S)) = Cardinality(S)
  BY <1>2, <1>4, <1>5, IsASeq
<1>7. f \in [1 .. Cardinality(S) -> S]
  BY <1>3
<1>8. \A n \in 1 .. Cardinality(S) : Picked(s, S)[n] = s[f[n]]
  BY <1>4
<1>9. \A n, k \in 1 .. Cardinality(S) : f[n] = f[k] => n = k
  BY <1>3
<1> HIDE DEF f
<1> QED
  BY <1>2, <1>6, <1>7, <1>8, <1>9

\* Nothing appears twice in a sequence.
Once(s) == \A i, j \in DOMAIN s : s[i] = s[j] => i = j

\* What is picked from a sequence was there, and not more often.
LEMMA PickedOnce ==
    ASSUME NEW T, NEW s \in Seq(T), NEW S \in SUBSET DOMAIN s
    PROVE  /\ Range(Picked(s, S)) \subseteq {s[i] : i \in S}
           /\ Once(s) => Once(Picked(s, S))
<1>1. PICK f \in [1 .. Cardinality(S) -> S] :
           /\ \A n \in 1 .. Cardinality(S) : Picked(s, S)[n] = s[f[n]]
           /\ \A n, k \in 1 .. Cardinality(S) : f[n] = f[k] => n = k
  BY PickedFacts
<1>2. DOMAIN Picked(s, S) = 1 .. Cardinality(S)
  BY PickedFacts
<1> QED
  BY <1>1, <1>2 DEF Range, Once

\* The two parts of a sequence at n.
LEMMA FrontRest ==
    ASSUME NEW T, NEW s \in Seq(T), NEW n \in Nat
    PROVE  /\ Front(s, n) \in Seq(T) /\ Rest(s, n) \in Seq(T)
           /\ Least(n, Len(s)) \in 0 .. Len(s)
           /\ Len(Front(s, n)) = Least(n, Len(s))
           /\ Len(Rest(s, n)) = Len(s) - Least(n, Len(s))
           /\ \A i \in 1 .. Len(Front(s, n)) : Front(s, n)[i] = s[i]
           /\ \A i \in 1 .. Len(Rest(s, n)) : Rest(s, n)[i] = s[i + Least(n, Len(s))]
<1>1. Least(n, Len(s)) \in 0 .. Len(s)
  BY DEF Least
<1> DEFINE k == Least(n, Len(s))
<1>2. k \in 0 .. Len(s)
  BY <1>1
<1> HIDE DEF k
<1>3. /\ SubSeq(s, 1, k) \in Seq(T) /\ Len(SubSeq(s, 1, k)) = k
      /\ \A i \in 1 .. k : SubSeq(s, 1, k)[i] = s[i]
  <2>1. \A i \in 1 .. k : s[i] \in T
    BY <1>2
  <2> QED
    BY <1>2, <2>1, SubSeqProperties
<1>4. /\ SubSeq(s, k + 1, Len(s)) \in Seq(T) /\ Len(SubSeq(s, k + 1, Len(s))) = Len(s) - k
      /\ \A i \in 1 .. Len(s) - k : SubSeq(s, k + 1, Len(s))[i] = s[i + k]
  <2>1. k + 1 \in 1 .. Len(s) + 1 /\ Len(s) \in k .. Len(s)
    BY <1>2
  <2> QED
    BY <1>2, <2>1, SubSeqProperties
<1> QED
  BY <1>1, <1>3, <1>4 DEF Front, Rest, k

\* The two parts hold what the sequence held, each element in one of them.
LEMMA FrontRestOnce ==
    ASSUME NEW T, NEW s \in Seq(T), NEW n \in Nat
    PROVE  /\ Range(Front(s, n)) \subseteq Range(s) /\ Range(Rest(s, n)) \subseteq Range(s)
           /\ Once(s) => /\ Once(Front(s, n)) /\ Once(Rest(s, n))
                         /\ Range(Front(s, n)) \cap Range(Rest(s, n)) = {}
<1>1. /\ DOMAIN s = 1 .. Len(s) /\ Len(s) \in Nat
      /\ DOMAIN Front(s, n) = 1 .. Len(Front(s, n))
      /\ DOMAIN Rest(s, n) = 1 .. Len(Rest(s, n))
  BY FrontRest
<1>2. /\ \A i \in DOMAIN Front(s, n) : i \in DOMAIN s /\ Front(s, n)[i] = s[i]
      /\ \A i \in DOMAIN Rest(s, n) :
            i + Least(n, Len(s)) \in DOMAIN s /\ Rest(s, n)[i] = s[i + Least(n, Len(s))]
  <2>1. PICK k \in 0 .. Len(s) :
          /\ k = Least(n, Len(s))
          /\ Len(Front(s, n)) = k /\ Len(Rest(s, n)) = Len(s) - k
          /\ \A i \in 1 .. Len(Front(s, n)) : Front(s, n)[i] = s[i]
          /\ \A i \in 1 .. Len(Rest(s, n)) : Rest(s, n)[i] = s[i + k]
    BY FrontRest
  <2> QED
    BY <1>1, <2>1
<1>3. Range(Front(s, n)) \subseteq Range(s) /\ Range(Rest(s, n)) \subseteq Range(s)
  BY <1>2 DEF Range
<1>4. ASSUME Once(s)
      PROVE  Once(Front(s, n)) /\ Once(Rest(s, n))
  <2>1. Once(Front(s, n))
    BY <1>2, <1>4 DEF Once
  <2>2. ASSUME NEW i \in DOMAIN Rest(s, n), NEW j \in DOMAIN Rest(s, n),
               Rest(s, n)[i] = Rest(s, n)[j]
        PROVE  i = j
    <3>1. i + Least(n, Len(s)) = j + Least(n, Len(s))
      BY <1>2, <1>4, <2>2 DEF Once
    <3> QED
      BY <1>1, <3>1, FrontRest
  <2> QED
    BY <2>1, <2>2 DEF Once
<1>5. ASSUME Once(s), NEW i \in DOMAIN Front(s, n), NEW j \in DOMAIN Rest(s, n),
             Front(s, n)[i] = Rest(s, n)[j]
      PROVE  FALSE
  <2>1. i = j + Least(n, Len(s))
    BY <1>2, <1>5 DEF Once
  <2>2. i <= Least(n, Len(s)) /\ j >= 1
    BY <1>1, FrontRest
  <2> QED
    BY <1>1, <2>1, <2>2, FrontRest
<1> QED
  BY <1>3, <1>4, <1>5 DEF Range

-----------------------------------------------------------------------------
(* Transfer ids *)

LEMMA OneRound ==
    ASSUME NEW b \in Nat \ {0}, NEW x \in Nat, x < 2 * b
    PROVE  x % b = IF x < b THEN x ELSE x - b
<1>1. ASSUME NEW q \in Int, NEW r \in 0 .. b - 1
      PROVE  (b * q + r) % b = r
  OBVIOUS
<1>2. CASE x < b
  BY <1>1, <1>2
<1>3. CASE x >= b
  <2>1. x - b \in 0 .. b - 1 /\ x = b * 1 + (x - b)
    BY <1>3
  <2> QED
    BY <1>1, <1>3, <2>1
<1> QED
  BY <1>2, <1>3

LEMMA IdAfterType ==
    ASSUME NEW i \in 1 .. MaxId, NEW n \in Nat
    PROVE  IdAfter(i, n) \in 1 .. MaxId
<1>1. MaxId \in Nat /\ MaxId > 0
  BY UsbAssumption
<1>2. i - 1 + n \in Nat
  OBVIOUS
<1>3. (i - 1 + n) % MaxId \in 0 .. MaxId - 1
  BY <1>1, <1>2
<1> QED
  BY <1>1, <1>3 DEF IdAfter

\* The ids tried within one round of the counter differ.
LEMMA IdAfterDiffers ==
    ASSUME NEW i \in 1 .. MaxId, NEW m \in 0 .. MaxId - 1, NEW n \in 0 .. MaxId - 1,
           IdAfter(i, m) = IdAfter(i, n)
    PROVE  m = n
<1>1. MaxId \in Nat /\ MaxId > 0
  BY UsbAssumption
<1>2. /\ i - 1 + m \in Nat /\ i - 1 + n \in Nat
      /\ i - 1 + m < 2 * MaxId /\ i - 1 + n < 2 * MaxId
  BY <1>1
<1>3. ASSUME NEW x \in Nat, x < 2 * MaxId
      PROVE  x % MaxId = IF x < MaxId THEN x ELSE x - MaxId
  <2>1. MaxId \in Nat \ {0}
    BY <1>1
  <2> QED
    BY <1>3, <2>1, OneRound
<1>4. (i - 1 + m) % MaxId = (i - 1 + n) % MaxId
  <2>1. (i - 1 + m) % MaxId \in Nat /\ (i - 1 + n) % MaxId \in Nat
    BY <1>1, <1>2
  <2> QED
    BY <2>1 DEF IdAfter
<1> QED
  BY <1>1, <1>2, <1>3, <1>4

\* alloc_id finds an id that is not in flight, also across the wrap-around
\* from MaxId to 1: there are more ids than pipes.
LEMMA AllocIdFresh ==
    ASSUME next_id \in 1 .. MaxId, NEW used \in SUBSET (1 .. MaxId),
           IsFiniteSet(used), Cardinality(used) < MaxId
    PROVE  AllocId(used) \in (1 .. MaxId) \ used
<1>1. MaxId \in Nat /\ Cardinality(used) \in Nat
  BY FS_CardinalityType, UsbAssumption
<1> DEFINE c == Cardinality(used)
           T == {k \in 0 .. c : IdAfter(next_id, k) \notin used}
<1>2. T # {}
  <2> SUFFICES ASSUME T = {} PROVE FALSE
    OBVIOUS
  <2> DEFINE f == [k \in 0 .. c |-> IdAfter(next_id, k)]
  <2>1. \A k \in 0 .. c : f[k] \in used
    OBVIOUS
  <2>2. ASSUME NEW k \in 0 .. c, NEW j \in 0 .. c, f[k] = f[j]
        PROVE  k = j
    <3>1. k \in 0 .. MaxId - 1 /\ j \in 0 .. MaxId - 1
      BY <1>1
    <3>2. IdAfter(next_id, k) = IdAfter(next_id, j)
      BY <2>2
    <3> QED
      BY <3>1, <3>2, IdAfterDiffers
  <2>3. f \in [0 .. c -> used]
    BY <2>1
  <2>4. IsFiniteSet(0 .. c) /\ Cardinality(0 .. c) = c + 1
    BY <1>1, FS_Interval
  <2> HIDE DEF f
  <2>5. f \in Injection(0 .. c, used)
    BY <2>2, <2>3 DEF Injection, IsInjective
  <2>6. Cardinality(0 .. c) <= c
    BY <2>5, FS_Injection
  <2> QED
    BY <1>1, <2>4, <2>6
<1>3. PICK n \in T : \A k \in T : n <= k
  <2>1. T \in SUBSET Nat
    BY <1>1
  <2> HIDE DEF T
  <2> QED
    BY <1>2, <2>1, LeastNat
<1>4. \A j \in 0 .. (n - 1) : IdAfter(next_id, j) \in used
  <2> TAKE j \in 0 .. (n - 1)
  <2>1. j \in 0 .. c /\ ~(n <= j)
    BY <1>1
  <2>2. j \notin T
    BY <1>3, <2>1
  <2> QED
    BY <2>1, <2>2
<1>5. \E k \in 0 .. c : /\ IdAfter(next_id, k) \notin used
                        /\ \A j \in 0 .. (k - 1) : IdAfter(next_id, j) \in used
  BY <1>4
<1>6. PICK k \in 0 .. c : AllocId(used) = IdAfter(next_id, k) /\ IdAfter(next_id, k) \notin used
  BY <1>5 DEF AllocId
<1>7. IdAfter(next_id, k) \in 1 .. MaxId
  BY <1>1, <1>6, IdAfterType
<1> QED
  BY <1>6, <1>7

\* The ids in flight are few.
LEMMA InFlightIds ==
    ASSUME NEW fl \in [Pipes -> Action \cup {None}]
    PROVE  /\ IdsOf(fl) \in SUBSET (1 .. MaxId)
           /\ IsFiniteSet(IdsOf(fl)) /\ Cardinality(IdsOf(fl)) < MaxId
<1>1. IsFiniteSet(Pipes) /\ Cardinality(Pipes) \in Nat
  <2>1. IsFiniteSet(Endpoints \cup {Control})
    BY UsbAssumption, FS_AddElement
  <2>2. Pipes = Endpoints \cup {Control}
    BY DEF Pipes
  <2> QED
    BY <2>1, <2>2, FS_CardinalityType
<1> DEFINE S == {q \in Pipes : fl[q] # None}
<1>2. IsFiniteSet(S) /\ Cardinality(S) <= Cardinality(Pipes) /\ Cardinality(S) \in Nat
  <2>1. S \in SUBSET Pipes
    OBVIOUS
  <2> HIDE DEF S
  <2>2. IsFiniteSet(S)
    BY <1>1, <2>1, FS_Subset
  <2> QED
    BY <1>1, <2>1, <2>2, FS_Subset, FS_CardinalityType
<1> DEFINE g == [q \in S |-> fl[q].id]
<1>3. g \in Surjection(S, IdsOf(fl))
  <2>1. g \in [S -> IdsOf(fl)]
    BY DEF IdsOf
  <2>2. \A t \in IdsOf(fl) : \E q \in S : g[q] = t
    BY DEF IdsOf
  <2> HIDE DEF g, S
  <2> QED
    BY <2>1, <2>2 DEF Surjection
<1>4. IsFiniteSet(IdsOf(fl)) /\ Cardinality(IdsOf(fl)) <= Cardinality(S)
  <2> HIDE DEF g, S
  <2> QED
    BY <1>2, <1>3, FS_Surjection
<1>5. IdsOf(fl) \in SUBSET (1 .. MaxId)
  BY DEF IdsOf, Action
<1>6. Cardinality(IdsOf(fl)) \in Nat
  BY <1>4, FS_CardinalityType
<1> QED
  BY <1>1, <1>2, <1>4, <1>5, <1>6, UsbAssumption

-----------------------------------------------------------------------------
(* Types of the device model *)

LEMMA PipeOfType == ASSUME NEW t \in Targets PROVE PipeOf(t) \in Pipes
  BY DEF PipeOf, Targets, Pipes

LEMMA DropType ==
    ASSUME NEW acts \in Seq(Action), NEW ids
    PROVE  DropQueuedAction(acts, ids) \in Seq(Action)
  BY PickedFacts DEF DropQueuedAction

LEMMA OutcomeType ==
    ASSUME NEW t, NEW c \in Completion
    PROVE  Outcome(t, c) \in {"data", "ack", "stall", "timeout"}
<1>1. c.status \in Statuses /\ c.in \in BOOLEAN
  BY DEF Completion
<1> QED
  BY <1>1 DEF Outcome, Statuses

LEMMA QueueActionType ==
    ASSUME DeviceTypeOK, NEW t \in Targets, NEW fl \in [Pipes -> Action \cup {None}],
           NEW acts \in Seq(Action), completions' \subseteq Completion,
           QueueAction(t, fl, acts)
    PROVE  DeviceTypeOK'
<1> DEFINE id == AllocId(IdsOf(fl))
           a == [id |-> id, target |-> t, serial |-> serial + 1]
<1>1. id \in 1 .. MaxId
  BY InFlightIds, AllocIdFresh DEF DeviceTypeOK
<1>2. /\ serial < MaxTransfers
      /\ serial' = serial + 1
      /\ next_id' = IdAfter(id, 1)
      /\ actions' = Append(acts, a)
      /\ inflight' = [fl EXCEPT ![PipeOf(t)] = a]
      /\ answer' = [answer EXCEPT ![PipeOf(t)] = None]
  BY DEF QueueAction
<1> HIDE DEF id
<1>3. serial + 1 \in 1 .. MaxTransfers /\ serial + 1 \in 0 .. MaxTransfers
  BY <1>2, UsbAssumption DEF DeviceTypeOK
<1>4. a \in Action
  BY <1>1, <1>3 DEF Action
<1>5. PipeOf(t) \in Pipes
  BY PipeOfType
<1> HIDE DEF a
<1>6. next_id' \in 1 .. MaxId
  BY <1>1, <1>2, IdAfterType
<1>7. actions' \in Seq(Action) /\ serial' \in 0 .. MaxTransfers
  BY <1>2, <1>3, <1>4
<1>8. inflight' \in [Pipes -> Action \cup {None}]
  BY <1>2, <1>4, <1>5
<1>9. answer' \in [Pipes -> [serial : 1 .. MaxTransfers,
                             outcome : {"data", "ack", "stall", "timeout"}] \cup {None}]
  BY <1>2, <1>5 DEF DeviceTypeOK
<1> QED
  BY <1>6, <1>7, <1>8, <1>9 DEF DeviceTypeOK

LEMMA SetupType == ASSUME DeviceTypeOK, NEW t \in ControlRequests, Setup(t) PROVE DeviceTypeOK'
<1> DEFINE gone == {inflight[p].id : p \in {q \in {Control} : inflight[q] # None}}
<1>1. /\ completions' = Without(completions, gone)
      /\ QueueAction(t, [inflight EXCEPT ![Control] = None], DropQueuedAction(actions, gone))
  BY DEF Setup
<1> HIDE DEF gone
<1>2. t \in Targets /\ completions' \subseteq Completion
  BY <1>1 DEF Targets, Without, DeviceTypeOK
<1>3. [inflight EXCEPT ![Control] = None] \in [Pipes -> Action \cup {None}]
  BY DEF DeviceTypeOK
<1>4. DropQueuedAction(actions, gone) \in Seq(Action)
  BY DropType DEF DeviceTypeOK
<1> QED
  BY <1>1, <1>2, <1>3, <1>4, QueueActionType

LEMMA SubmitType == ASSUME DeviceTypeOK, NEW e \in Endpoints, SubmitEndpoint(e) PROVE DeviceTypeOK'
<1>1. QueueAction(e, inflight, actions) /\ completions' = completions
  BY DEF SubmitEndpoint
<1>2. e \in Targets /\ completions' \subseteq Completion
  BY <1>1 DEF Targets, DeviceTypeOK
<1> QED
  BY <1>1, <1>2, QueueActionType DEF DeviceTypeOK

LEMMA TakeResultType == ASSUME DeviceTypeOK, NEW p \in Pipes, TakeResult(p) PROVE DeviceTypeOK'
<1>1. PICK c \in completions :
         /\ answer' = [answer EXCEPT ![p] = [serial |-> inflight[p].serial,
                                             outcome |-> Outcome(inflight[p].target, c)]]
         /\ completions' = completions \ {c}
         /\ actions' = DropQueuedAction(actions, {c.id})
         /\ inflight' = [inflight EXCEPT ![p] = None]
  BY DEF TakeResult
<1>2. inflight[p] \in Action /\ c \in Completion
  BY DEF DeviceTypeOK, TakeResult
<1>3. [serial |-> inflight[p].serial, outcome |-> Outcome(inflight[p].target, c)]
        \in [serial : 1 .. MaxTransfers, outcome : {"data", "ack", "stall", "timeout"}]
  BY <1>2, OutcomeType DEF Action
<1>4. actions' \in Seq(Action)
  BY <1>1, DropType DEF DeviceTypeOK
<1>5. UNCHANGED <<next_id, serial>>
  BY DEF TakeResult
<1>6. answer' \in [Pipes -> [serial : 1 .. MaxTransfers,
                             outcome : {"data", "ack", "stall", "timeout"}] \cup {None}]
  BY <1>1, <1>3 DEF DeviceTypeOK
<1>7. inflight' \in [Pipes -> Action \cup {None}]
  BY <1>1 DEF DeviceTypeOK
<1> QED
  BY <1>1, <1>4, <1>5, <1>6, <1>7 DEF DeviceTypeOK

LEMMA PushType == ASSUME DeviceTypeOK, NEW c \in Completion, PushCompletion(c) PROVE DeviceTypeOK'
<1>1. actions' \in Seq(Action)
  BY DropType DEF DeviceTypeOK, PushCompletion
<1>2. completions' \subseteq Completion
  BY DEF DeviceTypeOK, PushCompletion, Without
<1> QED
  BY <1>1, <1>2 DEF DeviceTypeOK, PushCompletion

LEMMA ResetType == ASSUME DeviceTypeOK, ResetDevice PROVE DeviceTypeOK'
  BY EmptySeq DEF DeviceTypeOK, ResetDevice

\* drain_actions_limit takes actions from the front.
LEMMA DrainType ==
    ASSUME DeviceTypeOK, NEW n \in 0 .. Len(actions), DrainActions(n)
    PROVE  DeviceTypeOK'
<1>1. actions \in Seq(Action) /\ Len(actions) \in Nat
  BY DEF DeviceTypeOK
<1>2. n + 1 \in 1 .. Len(actions) + 1 /\ Len(actions) \in n .. Len(actions)
  BY <1>1
<1>3. SubSeq(actions, n + 1, Len(actions)) \in Seq(Action)
  BY <1>1, <1>2, SubSeqProperties
<1> QED
  BY <1>3 DEF DeviceTypeOK, DrainActions

-----------------------------------------------------------------------------
(* Types of the worker, the channels and the broker *)

LEMMA AnswersType ==
    ASSUME NEW its \in Seq(Item), NEW status \in Statuses
    PROVE  /\ Answers(its, status) \in Seq(Completion)
           /\ Len(Answers(its, status)) = Len(its)
           /\ \A i \in 1 .. Len(its) : Answers(its, status)[i] = Answer(its[i], status)
<1>1. DOMAIN its = 1 .. Len(its) /\ Len(its) \in Nat
  OBVIOUS
<1>2. \A i \in 1 .. Len(its) : Answer(its[i], status) \in Completion
  <2> TAKE i \in 1 .. Len(its)
  <2>1. its[i] \in Item
    OBVIOUS
  <2>2. its[i].action \in Action
    BY <2>1 DEF Item
  <2> QED
    BY <2>2 DEF Answer, Action, Completion
<1> QED
  BY <1>1, <1>2, IsASeq DEF Answers

LEMMA PostedType ==
    ASSUME NEW comps \in Seq(Completion)
    PROVE  /\ Posted(comps) \in Seq(ToWorker)
           /\ Len(Posted(comps)) = Len(comps)
           /\ \A i \in 1 .. Len(comps) :
                 Posted(comps)[i] = [type |-> "completion", completion |-> comps[i]]
<1>1. DOMAIN comps = 1 .. Len(comps) /\ Len(comps) \in Nat
  OBVIOUS
<1>2. \A i \in 1 .. Len(comps) : [type |-> "completion", completion |-> comps[i]] \in ToWorker
  BY DEF ToWorker
<1> QED
  BY <1>1, <1>2, IsASeq DEF Posted

\* The completion ring takes no more than it has room for.
LEMMA ViaRingFits ==
    ASSUME TypeOK, NEW its \in Seq(Item)
    PROVE  /\ ViaRing(its) \in SUBSET DOMAIN its
           /\ Len(completionRing) + Cardinality(ViaRing(its)) <= RingCap
<1>1. Len(its) \in Nat /\ DOMAIN its = 1 .. Len(its) /\ Len(completionRing) \in Nat
      /\ RingCap \in Nat /\ Len(completionRing) <= RingCap
  BY ProxyAssumption DEF TypeOK
<1>2. ViaRing(its) \in SUBSET (1 .. Len(its))
  BY <1>1 DEF ViaRing
<1>3. CASE ViaRing(its) = {}
  BY <1>1, <1>2, <1>3, FS_EmptySet
<1>4. CASE ViaRing(its) # {}
  <2>1. PICK m \in ViaRing(its) : \A i \in ViaRing(its) : i <= m
    <3> DEFINE T == {Len(its) - i : i \in ViaRing(its)}
    <3>1. T \in SUBSET Nat /\ T # {}
      BY <1>1, <1>2, <1>4
    <3>2. PICK x \in T : \A y \in T : x <= y
      <4> HIDE DEF T
      <4> QED
        BY <3>1, LeastNat
    <3>3. PICK m \in ViaRing(its) : x = Len(its) - m
      OBVIOUS
    <3>4. \A i \in ViaRing(its) : i <= m
      <4> TAKE i \in ViaRing(its)
      <4>1. i \in 1 .. Len(its) /\ m \in 1 .. Len(its) /\ x <= Len(its) - i
        BY <1>2, <3>2
      <4> QED
        BY <1>1, <3>3, <4>1
    <3> QED
      BY <3>4
  <2> DEFINE R == {j \in 1 .. m : its[j].ring}
  <2>2. Len(completionRing) + Cardinality(R) <= RingCap
    BY DEF ViaRing
  <2>3. ViaRing(its) \in SUBSET R
    <3>1. \A i \in ViaRing(its) : i \in 1 .. m /\ its[i].ring
      BY <1>2, <2>1 DEF ViaRing
    <3> QED
      BY <3>1
  <2>4. R \in SUBSET (1 .. Len(its))
    BY <1>1, <1>2
  <2> HIDE DEF R
  <2>5. IsFiniteSet(R) /\ Cardinality(R) \in Nat
    BY <1>1, <2>4, FiniteIndexes
  <2>6. Cardinality(ViaRing(its)) <= Cardinality(R)
    BY <2>3, <2>5, FS_Subset
  <2>7. Cardinality(ViaRing(its)) \in Nat
    BY <1>1, <1>2, FiniteIndexes
  <2> QED
    BY <1>1, <1>2, <2>2, <2>5, <2>6, <2>7
<1> QED
  BY <1>3, <1>4

\* What Reply sends, apart from the message that goes before it, are answers
\* to the items it was given.
LEMMA ReplyFacts ==
    ASSUME TypeOK, NEW before \in Seq(ToWorker), NEW its \in Seq(Item),
           NEW status \in Statuses, Reply(before, its, status)
    PROVE  /\ completionRing' \in Seq(Completion) /\ Len(completionRing') <= RingCap
           /\ toWorker' \in Seq(ToWorker)
           /\ \A i \in DOMAIN completionRing' :
                 \/ completionRing'[i] \in Range(completionRing)
                 \/ \E k \in DOMAIN its : completionRing'[i] = Answer(its[k], status)
           /\ \A i \in DOMAIN toWorker' :
                 \/ toWorker'[i] \in Range(toWorker) \cup Range(before)
                 \/ \E k \in DOMAIN its :
                       toWorker'[i] = [type |-> "completion",
                                       completion |-> Answer(its[k], status)]
<1> DEFINE ringed == Picked(its, ViaRing(its))
           posted == Picked(its, DOMAIN its \ ViaRing(its))
           out == Answers(ringed, status)
           msgs == Posted(Answers(posted, status))
<1>1. completionRing' = completionRing \o out /\ toWorker' = (toWorker \o before) \o msgs
  BY DEF Reply
<1>2. /\ completionRing \in Seq(Completion) /\ toWorker \in Seq(ToWorker)
      /\ Len(completionRing) \in Nat /\ RingCap \in Nat
  BY ProxyAssumption DEF TypeOK
<1>3. ViaRing(its) \in SUBSET DOMAIN its /\ DOMAIN its \ ViaRing(its) \in SUBSET DOMAIN its
  BY ViaRingFits
<1>4. /\ ringed \in Seq(Item) /\ Len(ringed) = Cardinality(ViaRing(its))
      /\ Cardinality(ViaRing(its)) \in Nat
      /\ \A n \in 1 .. Len(ringed) : \E k \in DOMAIN its : ringed[n] = its[k]
  <2>1. ringed \in Seq(Item) /\ Len(ringed) = Cardinality(ViaRing(its))
        /\ Cardinality(ViaRing(its)) \in Nat
    BY <1>3, PickedFacts
  <2>2. Range(ringed) \subseteq {its[i] : i \in ViaRing(its)}
    BY <1>3, PickedOnce
  <2> HIDE DEF ringed
  <2>3. ASSUME NEW n \in 1 .. Len(ringed)
        PROVE  \E k \in DOMAIN its : ringed[n] = its[k]
    <3>1. n \in DOMAIN ringed
      BY <2>1
    <3>2. ringed[n] \in {its[i] : i \in ViaRing(its)}
      BY <2>2, <3>1 DEF Range
    <3> QED
      BY <1>3, <3>2
  <2> QED
    BY <2>1, <2>3
<1>5. /\ posted \in Seq(Item)
      /\ \A n \in 1 .. Len(posted) : \E k \in DOMAIN its : posted[n] = its[k]
  <2>1. posted \in Seq(Item)
    BY <1>3, PickedFacts
  <2>2. Range(posted) \subseteq {its[i] : i \in DOMAIN its \ ViaRing(its)}
    BY <1>3, PickedOnce
  <2> HIDE DEF posted
  <2>3. ASSUME NEW n \in 1 .. Len(posted)
        PROVE  \E k \in DOMAIN its : posted[n] = its[k]
    <3>1. n \in DOMAIN posted
      BY <2>1
    <3>2. posted[n] \in {its[i] : i \in DOMAIN its \ ViaRing(its)}
      BY <2>2, <3>1 DEF Range
    <3> QED
      BY <1>3, <3>2
  <2> QED
    BY <2>1, <2>3
<1> HIDE DEF ringed, posted
<1>6. /\ out \in Seq(Completion) /\ Len(out) = Len(ringed)
      /\ \A n \in 1 .. Len(out) : \E k \in DOMAIN its : out[n] = Answer(its[k], status)
  BY <1>4, AnswersType
<1>7. /\ msgs \in Seq(ToWorker)
      /\ \A n \in 1 .. Len(msgs) : \E k \in DOMAIN its :
            msgs[n] = [type |-> "completion", completion |-> Answer(its[k], status)]
  <2>1. /\ Answers(posted, status) \in Seq(Completion)
        /\ Len(Answers(posted, status)) = Len(posted)
        /\ \A i \in 1 .. Len(posted) : Answers(posted, status)[i] = Answer(posted[i], status)
    BY <1>5, AnswersType
  <2>2. /\ msgs \in Seq(ToWorker) /\ Len(msgs) = Len(posted)
        /\ \A i \in 1 .. Len(posted) :
              msgs[i] = [type |-> "completion", completion |-> Answers(posted, status)[i]]
    BY <2>1, PostedType
  <2> HIDE DEF msgs
  <2>3. ASSUME NEW n \in 1 .. Len(posted)
        PROVE  \E k \in DOMAIN its :
                  msgs[n] = [type |-> "completion", completion |-> Answer(its[k], status)]
    <3>1. PICK k \in DOMAIN its : posted[n] = its[k]
      BY <1>5
    <3>2. msgs[n] = [type |-> "completion", completion |-> Answer(its[k], status)]
      BY <2>1, <2>2, <3>1
    <3> QED
      BY <3>2
  <2> QED
    BY <2>2, <2>3
<1> HIDE DEF out, msgs
<1>8. completionRing' \in Seq(Completion) /\ Len(completionRing') <= RingCap
  <2>1. Len(completionRing) + Len(out) <= RingCap
    BY <1>4, <1>6, ViaRingFits
  <2> QED
    BY <1>1, <1>2, <1>6, <2>1, ConcatProperties
<1>9. toWorker' \in Seq(ToWorker)
  BY <1>1, <1>2, <1>7, ConcatProperties
<1>10. Range(completionRing') = Range(completionRing) \cup Range(out)
  BY <1>1, <1>2, <1>6, RangeConcatenation
<1>11. Range(toWorker') = Range(toWorker) \cup Range(before) \cup Range(msgs)
  <2>1. toWorker \o before \in Seq(ToWorker)
    BY <1>2, ConcatProperties
  <2>2. Range(toWorker \o before) = Range(toWorker) \cup Range(before)
    BY <1>2, RangeConcatenation
  <2>3. Range((toWorker \o before) \o msgs) = Range(toWorker \o before) \cup Range(msgs)
    BY <1>7, <2>1, RangeConcatenation
  <2> QED
    BY <1>1, <2>2, <2>3
<1>12. DOMAIN out = 1 .. Len(out) /\ DOMAIN msgs = 1 .. Len(msgs)
  BY <1>6, <1>7
<1>13. ASSUME NEW i \in DOMAIN completionRing'
       PROVE  \/ completionRing'[i] \in Range(completionRing)
              \/ \E k \in DOMAIN its : completionRing'[i] = Answer(its[k], status)
  <2>1. completionRing'[i] \in Range(completionRing) \cup Range(out)
    BY <1>10, <1>13 DEF Range
  <2> QED
    BY <1>6, <1>12, <2>1 DEF Range
<1>14. ASSUME NEW i \in DOMAIN toWorker'
       PROVE  \/ toWorker'[i] \in Range(toWorker) \cup Range(before)
              \/ \E k \in DOMAIN its :
                    toWorker'[i] = [type |-> "completion",
                                    completion |-> Answer(its[k], status)]
  <2>1. toWorker'[i] \in Range(toWorker) \cup Range(before) \cup Range(msgs)
    BY <1>11, <1>14 DEF Range
  <2> QED
    BY <1>7, <1>12, <2>1 DEF Range
<1> QED
  BY <1>8, <1>9, <1>13, <1>14

\* The messages a poll posts for actions.
ActionMessages(s) == [i \in DOMAIN s |-> [type |-> "action", action |-> s[i]]]

LEMMA ActionMessagesType ==
    ASSUME NEW s \in Seq(Action)
    PROVE  /\ ActionMessages(s) \in Seq(ToBroker)
           /\ Len(ActionMessages(s)) = Len(s)
           /\ \A i \in 1 .. Len(s) :
                 ActionMessages(s)[i] = [type |-> "action", action |-> s[i]]
<1>1. DOMAIN s = 1 .. Len(s) /\ Len(s) \in Nat
  OBVIOUS
<1>2. \A i \in 1 .. Len(s) : [type |-> "action", action |-> s[i]] \in ToBroker
  BY DEF ToBroker
<1> QED
  BY <1>1, <1>2, IsASeq DEF ActionMessages

\* The parts of the drained actions D that go through the ring (X), through
\* the port (Y) and into the backlog (Z).
Split(D, X, Y, Z) ==
    /\ D \in Seq(Action) /\ X \in Seq(Action) /\ Y \in Seq(Action) /\ Z \in Seq(Action)
    /\ Range(X) \cup Range(Y) \cup Range(Z) \subseteq Range(D)
    /\ Once(D) => /\ Once(X) /\ Once(Y) /\ Once(Z)
                  /\ Range(X) \cap Range(Y) = {} /\ Range(X) \cap Range(Z) = {}
                  /\ Range(Y) \cap Range(Z) = {}

LEMMA SplitParts ==
    ASSUME NEW D \in Seq(Action), NEW m \in Nat, NEW n \in Nat
    PROVE  Split(D, Front(Front(D, m), n), Rest(Front(D, m), n), Rest(D, m))
<1>1. Front(D, m) \in Seq(Action) /\ Rest(D, m) \in Seq(Action)
  BY FrontRest
<1>2. Front(Front(D, m), n) \in Seq(Action) /\ Rest(Front(D, m), n) \in Seq(Action)
  BY <1>1, FrontRest
<1>3. /\ Range(Front(D, m)) \subseteq Range(D) /\ Range(Rest(D, m)) \subseteq Range(D)
      /\ Once(D) => /\ Once(Front(D, m)) /\ Once(Rest(D, m))
                    /\ Range(Front(D, m)) \cap Range(Rest(D, m)) = {}
  BY FrontRestOnce
<1> DEFINE B == Front(D, m)
<1>4. /\ Range(Front(B, n)) \subseteq Range(B) /\ Range(Rest(B, n)) \subseteq Range(B)
      /\ Once(B) => /\ Once(Front(B, n)) /\ Once(Rest(B, n))
                    /\ Range(Front(B, n)) \cap Range(Rest(B, n)) = {}
  BY <1>1, FrontRestOnce
<1>5. Once(D) => /\ Range(Front(B, n)) \cap Range(Rest(D, m)) = {}
                 /\ Range(Rest(B, n)) \cap Range(Rest(D, m)) = {}
  BY <1>3, <1>4
<1> QED
  BY <1>1, <1>2, <1>3, <1>4, <1>5 DEF Split

\* pollOnce: where the drained actions come from and where they go.
LEMMA PollFacts ==
    ASSUME TypeOK, Poll
    PROVE  \E D, X, Y, Z :
              /\ Split(D, X, Y, Z)
              /\ backlog' = Z /\ toBroker' = toBroker \o ActionMessages(Y)
              /\ actionRing' = IF rings THEN actionRing \o X ELSE actionRing
              /\ Len(actionRing) + Len(X) <= RingCap
              /\ \/ /\ D = backlog /\ actions' = actions
                 \/ /\ backlog = <<>> /\ Range(D) \subseteq Range(actions)
                    /\ actions' \in Seq(Action) /\ Range(actions') \subseteq Range(actions)
                    /\ Once(actions) => /\ Once(D) /\ Once(actions')
                                        /\ Range(D) \cap Range(actions') = {}
              /\ UNCHANGED <<next_id, completions, inflight, answer, serial>>
              /\ pending' \subseteq 1 .. MaxId
<1> DEFINE D == IF backlog = <<>> THEN Front(actions, DrainLimit) ELSE backlog
           B == Front(D, MaxActionsPerPoll)
           n == IF workerRings THEN Least(Len(B), RingCap - Len(actionRing)) ELSE 0
           Y == Rest(B, n)
           X == Front(B, n)
           Z == Rest(D, MaxActionsPerPoll)
<1>1. /\ IF backlog = <<>> THEN DrainActions(Len(D)) ELSE UNCHANGED deviceVars
      /\ backlog' = Z
      /\ pending' = {B[i].id : i \in DOMAIN B}
      /\ actionRing' = IF rings THEN actionRing \o X ELSE actionRing
      /\ toBroker' = toBroker \o ActionMessages(Y)
  BY DEF Poll, ActionMessages
<1>2. /\ backlog \in Seq(Action) /\ actions \in Seq(Action) /\ actionRing \in Seq(Action)
      /\ Len(actionRing) \in Nat /\ Len(actionRing) <= RingCap
      /\ DrainLimit \in Nat /\ MaxActionsPerPoll \in Nat /\ RingCap \in Nat
  BY ProxyAssumption DEF TypeOK, DeviceTypeOK
<1>3. D \in Seq(Action)
  BY <1>2, FrontRest
<1>4. /\ UNCHANGED <<next_id, completions, inflight, answer, serial>>
      /\ \/ /\ D = backlog /\ actions' = actions
         \/ /\ backlog = <<>> /\ Range(D) \subseteq Range(actions)
            /\ actions' \in Seq(Action) /\ Range(actions') \subseteq Range(actions)
            /\ Once(actions) => /\ Once(D) /\ Once(actions')
                                /\ Range(D) \cap Range(actions') = {}
  <2>1. CASE backlog # <<>>
    BY <1>1, <2>1 DEF deviceVars
  <2>2. CASE backlog = <<>>
    <3>1. D = Front(actions, DrainLimit)
      BY <2>2
    <3>2. Len(D) = Least(DrainLimit, Len(actions))
      BY <1>2, <3>1, FrontRest
    <3>3. actions' = Rest(actions, DrainLimit)
      <4>1. actions' = SubSeq(actions, Len(D) + 1, Len(actions))
        BY <1>1, <2>2 DEF DrainActions
      <4> QED
        BY <3>2, <4>1 DEF Rest
    <3>4. UNCHANGED <<next_id, completions, inflight, answer, serial>>
      BY <1>1, <2>2 DEF DrainActions
    <3> HIDE DEF D
    <3>5. /\ Range(D) \subseteq Range(actions)
          /\ Range(actions') \subseteq Range(actions)
          /\ Once(actions) => /\ Once(D) /\ Once(actions')
                              /\ Range(D) \cap Range(actions') = {}
      BY <1>2, <3>1, <3>3, FrontRestOnce
    <3>6. actions' \in Seq(Action)
      BY <1>2, <3>3, FrontRest
    <3> QED
      BY <2>2, <3>4, <3>5, <3>6
  <2> QED
    BY <2>1, <2>2
<1> HIDE DEF D
<1>6. B \in Seq(Action) /\ Len(B) \in Nat
  BY <1>2, <1>3, FrontRest
<1>7. n \in Nat /\ n <= RingCap - Len(actionRing)
  <2> HIDE DEF B
  <2> QED
    BY <1>2, <1>6 DEF Least
<1>8. Split(D, X, Y, Z)
  <2> HIDE DEF n
  <2> QED
    BY <1>2, <1>3, <1>7, SplitParts
<1>9. Len(actionRing) + Len(X) <= RingCap
  <2> HIDE DEF B, n
  <2>1. Len(X) = Least(n, Len(B))
    BY <1>6, <1>7, FrontRest
  <2>2. Len(X) \in Nat /\ Len(X) <= n
    BY <1>6, <1>7, <2>1 DEF Least
  <2> HIDE DEF X
  <2> QED
    BY <1>2, <1>7, <2>2
<1>10. pending' \subseteq 1 .. MaxId
  <2> HIDE DEF B
  <2>1. \A i \in DOMAIN B : B[i] \in Action
    BY <1>6
  <2>2. \A i \in DOMAIN B : B[i].id \in 1 .. MaxId
    BY <2>1 DEF Action
  <2> QED
    BY <1>1, <2>2
<1> HIDE DEF X, Y, Z
<1> QED
  BY <1>1, <1>4, <1>8, <1>9, <1>10

\* A message to the broker that is an action carries one.
LEMMA ArrivingAction ==
    ASSUME TypeOK, toBroker # <<>>, Head(toBroker).type = "action"
    PROVE  Head(toBroker).action \in Action
<1>1. Head(toBroker) \in ToBroker
  BY DEF TypeOK
<1> QED
  BY <1>1 DEF ToBroker

LEMMA TailType ==
    ASSUME NEW T, NEW s \in Seq(T), s # <<>>
    PROVE  /\ Head(s) \in T /\ Tail(s) \in Seq(T) /\ Len(Tail(s)) = Len(s) - 1
           /\ \A i \in 1 .. Len(Tail(s)) : Tail(s)[i] = s[i + 1]
           /\ Head(s) = s[1] /\ Len(s) \in Nat /\ Len(s) >= 1
  BY HeadTailProperties

LEMMA OneItem ==
    ASSUME NEW it \in Item
    PROVE  /\ <<it>> \in Seq(Item) /\ DOMAIN <<it>> = {1} /\ <<it>>[1] = it
  OBVIOUS

LEMMA StatusesType == "error" \in Statuses /\ Results \subseteq Statuses
  BY ProxyAssumption DEF Statuses

LEMMA AnsweredType ==
    ASSUME TypeOK, NEW its \in Seq(Item), NEW status \in Statuses
    PROVE  Answered(its, status) \in [1 .. MaxTransfers -> {"no", "yes"} \cup Statuses]
  BY DEF TypeOK, Answered

LEMMA EnqueueType ==
    ASSUME TypeOK, NEW it \in Item, Enqueue(it)
    PROVE  /\ queue' \in Seq(Item) /\ current' \in Item \cup {None}
           /\ ran' \in [1 .. MaxTransfers -> {"no", "yes"} \cup Statuses]
<1>1. it.action.serial \in 1 .. MaxTransfers
  BY DEF Item, Action
<1>2. /\ queue \in Seq(Item) /\ current \in Item \cup {None}
      /\ ran \in [1 .. MaxTransfers -> {"no", "yes"} \cup Statuses]
  BY DEF TypeOK
<1>3. CASE current = None
  BY <1>1, <1>2, <1>3 DEF Enqueue, Started
<1>4. CASE current # None
  BY <1>2, <1>4 DEF Enqueue
<1> QED
  BY <1>3, <1>4

\* The items a change of the selected device fails.
Failing == queue \o (IF current # None /\ ~current.deaf THEN <<current>> ELSE <<>>)

LEMMA FailingFacts ==
    ASSUME TypeOK
    PROVE  /\ Failing \in Seq(Item)
           /\ Range(Failing) = Range(queue) \cup
                (IF current # None /\ ~current.deaf THEN {current} ELSE {})
<1>1. queue \in Seq(Item) /\ current \in Item \cup {None}
  BY DEF TypeOK
<1>2. CASE current # None /\ ~current.deaf
  <2>1. <<current>> \in Seq(Item) /\ Range(<<current>>) = {current}
    BY <1>1, <1>2 DEF Range
  <2>2. Failing = queue \o <<current>>
    BY <1>2 DEF Failing
  <2>3. Range(Failing) = Range(queue) \cup {current}
    <3>1. PICK s \in Seq(Item) : s = <<current>> /\ Range(s) = {current}
      BY <2>1
    <3>2. Failing = queue \o s
      BY <2>2, <3>1
    <3>3. Range(queue \o s) = Range(queue) \cup Range(s)
      BY <1>1, RangeConcatenation
    <3> QED
      BY <3>1, <3>2, <3>3
  <2>4. Failing \in Seq(Item)
    BY <1>1, <2>1, <2>2, ConcatProperties
  <2> QED
    BY <1>2, <2>3, <2>4
<1>3. CASE ~(current # None /\ ~current.deaf)
  <2>1. Failing = queue
    BY <1>1, <1>3, ConcatEmptySeq DEF Failing
  <2> QED
    BY <1>1, <1>3, <2>1
<1> QED
  BY <1>2, <1>3

LEMMA SelectedType ==
    ASSUME NEW ok \in BOOLEAN
    PROVE  /\ Selected(ok) \in Seq(ToWorker)
           /\ Range(Selected(ok)) = {[type |-> "selected", ok |-> ok]}
<1>1. [type |-> "selected", ok |-> ok] \in ToWorker
  BY DEF ToWorker
<1> QED
  BY <1>1 DEF Selected, Range

LEMMA ResetSelectedType ==
    ASSUME TypeOK, NEW broadcast \in Seq(ToWorker), ResetSelectedDevice(broadcast),
           device' \in Devices \cup {None}, forgetting' \in BOOLEAN
    PROVE  TypeOK'
<1>1. /\ Reply(broadcast, Failing, "error")
      /\ ran' = Answered(Failing, "error")
      /\ queue' = <<>>
      /\ current' = IF current # None /\ ~current.deaf THEN None ELSE current
      /\ selections < MaxSelections /\ selections' = selections + 1
      /\ UNCHANGED <<deviceVars, workerVars, toBroker, actionRing, rings, saved>>
  BY DEF ResetSelectedDevice, Failing
<1>2. Failing \in Seq(Item)
  BY FailingFacts
<1> HIDE DEF Failing
<1>3. /\ completionRing' \in Seq(Completion) /\ Len(completionRing') <= RingCap
      /\ toWorker' \in Seq(ToWorker)
  BY <1>1, <1>2, StatusesType, ReplyFacts
<1>4. ran' \in [1 .. MaxTransfers -> {"no", "yes"} \cup Statuses]
  BY <1>1, <1>2, StatusesType, AnsweredType
<1>5. queue' \in Seq(Item) /\ current' \in Item \cup {None}
  BY <1>1 DEF TypeOK
<1>6. selections' \in 0 .. MaxSelections
  BY <1>1, ProxyAssumption DEF TypeOK
<1>7. DeviceTypeOK'
  BY <1>1 DEF TypeOK, DeviceTypeOK, deviceVars
<1> QED
  BY <1>1, <1>3, <1>4, <1>5, <1>6, <1>7 DEF TypeOK, workerVars

\* The device model, and the worker's lists, through a completion or a
\* cancellation.
LEMMA HandleCompletionType ==
    ASSUME TypeOK, NEW c \in Completion, HandleCompletion(c)
    PROVE  DeviceTypeOK' /\ pending' \subseteq 1 .. MaxId
<1>1. DeviceTypeOK /\ pending \subseteq 1 .. MaxId
  BY DEF TypeOK
<1>2. pending' \subseteq 1 .. MaxId
  BY <1>1 DEF HandleCompletion
<1>3. CASE c.id \in pending
  BY <1>1, <1>2, <1>3, PushType DEF HandleCompletion
<1>4. CASE c.id \notin pending
  BY <1>1, <1>2, <1>4 DEF HandleCompletion, deviceVars, DeviceTypeOK
<1> QED
  BY <1>3, <1>4

LEMMA CancelAllType ==
    ASSUME TypeOK, CancelAll
    PROVE  DeviceTypeOK' /\ pending' \subseteq 1 .. MaxId /\ backlog' \in Seq(Action)
<1>1. DeviceTypeOK
  BY DEF TypeOK
<1> QED
  BY <1>1, ResetType DEF CancelAll

LEMMA SameDeviceType == ASSUME DeviceTypeOK, UNCHANGED deviceVars PROVE DeviceTypeOK'
  BY DEF DeviceTypeOK, deviceVars

LEMMA UsbTypeInit == Init => TypeOK
<1> SUFFICES ASSUME Init PROVE TypeOK
  OBVIOUS
<1>1. DeviceTypeOK
  <2>1. MaxId \in Nat /\ MaxId > 0 /\ MaxTransfers \in Nat
    <3>1. IsFiniteSet(Pipes)
      <4>1. Pipes = Endpoints \cup {Control}
        BY DEF Pipes
      <4> QED
        BY <4>1, UsbAssumption, FS_AddElement
    <3>2. Cardinality(Pipes) \in Nat
      BY <3>1, FS_CardinalityType
    <3> QED
      BY <3>2, UsbAssumption
  <2> QED
    BY <2>1, EmptySeq DEF Init, DeviceInit, DeviceTypeOK
<1>2. Len(<<>>) = 0 /\ RingCap \in Nat /\ MaxSelections \in Nat /\ MaxTransfers \in Nat /\ MaxId \in Nat
  BY ProxyAssumption, UsbAssumption
<1>3. ran \in [1 .. MaxTransfers -> {"no", "yes"} \cup Statuses]
  BY DEF Init
<1>4. /\ <<>> \in Seq(Action) /\ <<>> \in Seq(ToBroker) /\ <<>> \in Seq(ToWorker)
      /\ <<>> \in Seq(Completion) /\ <<>> \in Seq(Item)
  BY EmptySeq
<1>5. 0 <= RingCap /\ 0 \in 0 .. MaxSelections /\ 0 \in 0 .. MaxId
  BY <1>2
<1>6. /\ blocked = TRUE /\ pending = {} /\ backlog = <<>> /\ workerRings = TRUE
      /\ toBroker = <<>> /\ toWorker = <<>> /\ actionRing = <<>> /\ completionRing = <<>>
      /\ rings = TRUE /\ device = None /\ queue = <<>> /\ current = None
      /\ forgetting = FALSE /\ selections = 0 /\ saved = 0
  BY DEF Init
<1> QED
  BY <1>1, <1>2, <1>3, <1>4, <1>5, <1>6 DEF TypeOK

LEMMA UsbTypeStep == TypeOK /\ [Next]_vars => TypeOK'
<1> SUFFICES ASSUME TypeOK, [Next]_vars
             PROVE  TypeOK'
  OBVIOUS
<1>0. DeviceTypeOK
  BY DEF TypeOK
<1>1. ASSUME DeviceTypeOK', UNCHANGED <<workerVars, channelVars, brokerVars, saved>>
      PROVE  TypeOK'
  BY <1>1 DEF TypeOK, workerVars, channelVars, brokerVars
<1>2. ASSUME NEW t \in ControlRequests, GuestSetup(t)
      PROVE  TypeOK'
  BY <1>0, <1>1, <1>2, SetupType DEF GuestSetup
<1>3. ASSUME NEW e \in Endpoints, GuestSubmit(e)
      PROVE  TypeOK'
  BY <1>0, <1>1, <1>3, SubmitType DEF GuestSubmit
<1>4. ASSUME NEW p \in Pipes, GuestPoll(p)
      PROVE  TypeOK'
  BY <1>0, <1>1, <1>4, TakeResultType DEF GuestPoll
<1>5. CASE GuestBusReset
  BY <1>0, <1>1, <1>5, ResetType DEF GuestBusReset
<1>6. CASE Poll
  <2>1. PICK D, X, Y, Z :
          /\ Split(D, X, Y, Z)
          /\ backlog' = Z /\ toBroker' = toBroker \o ActionMessages(Y)
          /\ actionRing' = IF rings THEN actionRing \o X ELSE actionRing
          /\ Len(actionRing) + Len(X) <= RingCap
          /\ actions' = actions \/ actions' \in Seq(Action)
          /\ UNCHANGED <<next_id, completions, inflight, answer, serial>>
          /\ pending' \subseteq 1 .. MaxId
    BY <1>6, PollFacts
  <2>2. DeviceTypeOK'
    BY <2>1 DEF DeviceTypeOK, TypeOK
  <2>3. X \in Seq(Action) /\ Y \in Seq(Action) /\ Z \in Seq(Action)
    BY <2>1 DEF Split
  <2>4. actionRing' \in Seq(Action) /\ Len(actionRing') <= RingCap
    <3>1. actionRing \in Seq(Action) /\ Len(actionRing) <= RingCap
      BY DEF TypeOK
    <3>2. actionRing \o X \in Seq(Action) /\ Len(actionRing \o X) <= RingCap
      BY <2>1, <2>3, <3>1, ConcatProperties
    <3> QED
      BY <2>1, <3>1, <3>2
  <2>5. toBroker' \in Seq(ToBroker)
    <3>1. ActionMessages(Y) \in Seq(ToBroker) /\ toBroker \in Seq(ToBroker)
      BY <2>3, ActionMessagesType DEF TypeOK
    <3> QED
      BY <2>1, <3>1, ConcatProperties
  <2>6. UNCHANGED <<blocked, workerRings, toWorker, completionRing, rings, brokerVars, saved>>
    BY <1>6 DEF Poll
  <2> QED
    BY <2>1, <2>2, <2>3, <2>4, <2>5, <2>6 DEF TypeOK, brokerVars
<1>7. CASE ReceiveCompletion
  <2>1. /\ toWorker \in Seq(ToWorker) /\ toWorker # <<>> /\ Head(toWorker).type = "completion"
        /\ HandleCompletion(Head(toWorker).completion) /\ toWorker' = Tail(toWorker)
    BY <1>7 DEF ReceiveCompletion, TypeOK
  <2>2. Head(toWorker) \in ToWorker /\ Tail(toWorker) \in Seq(ToWorker)
    BY <2>1, TailType
  <2>3. Head(toWorker).completion \in Completion
    BY <2>1, <2>2 DEF ToWorker
  <2>4. DeviceTypeOK' /\ pending' \subseteq 1 .. MaxId
    BY <2>1, <2>3, HandleCompletionType
  <2> QED
    BY <1>7, <2>1, <2>2, <2>4 DEF ReceiveCompletion, TypeOK, brokerVars
<1>8. CASE PopCompletion
  <2>1. /\ completionRing \in Seq(Completion) /\ completionRing # <<>>
        /\ HandleCompletion(Head(completionRing)) /\ completionRing' = Tail(completionRing)
        /\ Len(completionRing) <= RingCap /\ RingCap \in Nat
    BY <1>8, ProxyAssumption DEF PopCompletion, TypeOK
  <2>2. Head(completionRing) \in Completion
    BY <2>1, TailType
  <2>3. DeviceTypeOK' /\ pending' \subseteq 1 .. MaxId
    BY <2>1, <2>2, HandleCompletionType
  <2>4. completionRing' \in Seq(Completion) /\ Len(completionRing') <= RingCap
    BY <2>1, TailType
  <2> QED
    BY <1>8, <2>3, <2>4 DEF PopCompletion, TypeOK, brokerVars
<1>9. CASE ReceiveSelected
  <2>1. /\ toWorker \in Seq(ToWorker) /\ toWorker # <<>> /\ Head(toWorker).type = "selected"
        /\ toWorker' = Tail(toWorker) /\ blocked' = ~Head(toWorker).ok
    BY <1>9 DEF ReceiveSelected, TypeOK
  <2>2. Tail(toWorker) \in Seq(ToWorker)
    BY <2>1, TailType
  <2>3. DeviceTypeOK' /\ pending' \subseteq 1 .. MaxId /\ backlog' \in Seq(Action)
    BY <1>0, <1>9, CancelAllType, SameDeviceType DEF ReceiveSelected, TypeOK
  <2>4. blocked' \in BOOLEAN
    BY <2>1
  <2> QED
    BY <1>9, <2>1, <2>2, <2>3, <2>4 DEF ReceiveSelected, TypeOK, brokerVars
<1>10. CASE ReceiveRingDetach
  <2>1. /\ toWorker \in Seq(ToWorker) /\ toWorker # <<>> /\ toWorker' = Tail(toWorker)
    BY <1>10 DEF ReceiveRingDetach, TypeOK
  <2>2. Tail(toWorker) \in Seq(ToWorker)
    BY <2>1, TailType
  <2>3. DeviceTypeOK' /\ pending' \subseteq 1 .. MaxId /\ backlog' \in Seq(Action)
    BY <1>0, <1>10, CancelAllType, SameDeviceType DEF ReceiveRingDetach, TypeOK
  <2> QED
    BY <1>10, <2>1, <2>2, <2>3 DEF ReceiveRingDetach, TypeOK, brokerVars
<1>11. CASE WorkerRingFails
  <2>1. DeviceTypeOK' /\ pending' \subseteq 1 .. MaxId /\ backlog' \in Seq(Action)
    BY <1>11, CancelAllType DEF WorkerRingFails
  <2>2. toBroker' \in Seq(ToBroker)
    <3>1. [type |-> "ringDetach"] \in ToBroker /\ toBroker \in Seq(ToBroker)
      BY DEF ToBroker, TypeOK
    <3> QED
      BY <1>11, <3>1 DEF WorkerRingFails
  <2> QED
    BY <1>11, <2>1, <2>2 DEF WorkerRingFails, TypeOK, brokerVars
<1>12. CASE BrokerReceiveAction
  <2> DEFINE it == [action |-> Head(toBroker).action, ring |-> FALSE, deaf |-> FALSE]
  <2>1. /\ toBroker \in Seq(ToBroker) /\ toBroker # <<>> /\ toBroker' = Tail(toBroker)
        /\ Head(toBroker).type = "action"
    BY <1>12 DEF BrokerReceiveAction, TypeOK
  <2>2. it \in Item /\ Tail(toBroker) \in Seq(ToBroker)
    BY <2>1, ArrivingAction, TailType DEF Item
  <2>3. /\ IF device # None /\ HasQueueCapacity
           THEN Enqueue(it) /\ UNCHANGED <<toWorker, completionRing>>
           ELSE /\ Reply(<<>>, <<it>>, "error") /\ ran' = Answered(<<it>>, "error")
                /\ UNCHANGED <<queue, current>>
        /\ UNCHANGED <<deviceVars, workerVars, actionRing, rings, device, forgetting,
                       selections, saved>>
    BY <1>12 DEF BrokerReceiveAction
  <2> HIDE DEF it
  <2>4. DeviceTypeOK'
    BY <1>0, <2>3, SameDeviceType
  <2>5. CASE device # None /\ HasQueueCapacity
    BY <2>1, <2>2, <2>3, <2>4, <2>5, EnqueueType DEF TypeOK, workerVars
  <2>6. CASE ~(device # None /\ HasQueueCapacity)
    <3>1. <<it>> \in Seq(Item) /\ <<>> \in Seq(ToWorker) /\ "error" \in Statuses
      BY <2>2, OneItem, EmptySeq, StatusesType
    <3>2. /\ completionRing' \in Seq(Completion) /\ Len(completionRing') <= RingCap
          /\ toWorker' \in Seq(ToWorker)
      BY <2>3, <2>6, <3>1, ReplyFacts
    <3>3. ran' \in [1 .. MaxTransfers -> {"no", "yes"} \cup Statuses]
      BY <2>3, <2>6, <3>1, AnsweredType
    <3> QED
      BY <2>1, <2>2, <2>3, <2>4, <2>6, <3>2, <3>3 DEF TypeOK, workerVars
  <2> QED
    BY <2>5, <2>6
<1>13. CASE DrainActionRing
  <2> DEFINE it == [action |-> Head(actionRing), ring |-> TRUE, deaf |-> FALSE]
  <2>1. /\ actionRing \in Seq(Action) /\ actionRing # <<>> /\ actionRing' = Tail(actionRing)
        /\ Len(actionRing) <= RingCap /\ RingCap \in Nat
    BY <1>13, ProxyAssumption DEF DrainActionRing, TypeOK
  <2>2. it \in Item /\ Tail(actionRing) \in Seq(Action) /\ Len(Tail(actionRing)) <= RingCap
    BY <2>1, TailType DEF Item
  <2>3. /\ IF device = None
           THEN /\ Reply(<<>>, <<it>>, "error") /\ ran' = Answered(<<it>>, "error")
                /\ UNCHANGED <<queue, current>>
           ELSE HasQueueCapacity /\ Enqueue(it) /\ UNCHANGED <<toWorker, completionRing>>
        /\ UNCHANGED <<deviceVars, workerVars, toBroker, rings, device, forgetting,
                       selections, saved>>
    BY <1>13 DEF DrainActionRing
  <2> HIDE DEF it
  <2>4. DeviceTypeOK'
    BY <1>0, <2>3, SameDeviceType
  <2>5. CASE device # None
    BY <2>1, <2>2, <2>3, <2>4, <2>5, EnqueueType DEF TypeOK, workerVars
  <2>6. CASE device = None
    <3>1. <<it>> \in Seq(Item) /\ <<>> \in Seq(ToWorker) /\ "error" \in Statuses
      BY <2>2, OneItem, EmptySeq, StatusesType
    <3>2. /\ completionRing' \in Seq(Completion) /\ Len(completionRing') <= RingCap
          /\ toWorker' \in Seq(ToWorker)
      BY <2>3, <2>6, <3>1, ReplyFacts
    <3>3. ran' \in [1 .. MaxTransfers -> {"no", "yes"} \cup Statuses]
      BY <2>3, <2>6, <3>1, AnsweredType
    <3> QED
      BY <2>1, <2>2, <2>3, <2>4, <2>6, <3>2, <3>3 DEF TypeOK, workerVars
  <2> QED
    BY <2>5, <2>6
<1>14. CASE BackendDone
  <2>1. PICK status \in Results :
          /\ Reply(<<>>, <<current>>, status)
          /\ current' = IF queue = <<>> THEN None ELSE Head(queue)
          /\ queue' = Rest(queue, 1)
          /\ ran' = [s \in DOMAIN ran |->
                       IF queue # <<>> /\ s = Head(queue).action.serial
                       THEN "yes" ELSE Answered(<<current>>, status)[s]]
    BY <1>14 DEF BackendDone
  <2>2. /\ current \in Item /\ queue \in Seq(Item) /\ status \in Statuses
        /\ DOMAIN ran = 1 .. MaxTransfers
        /\ UNCHANGED <<deviceVars, workerVars, toBroker, actionRing, rings, device, forgetting,
                       selections, saved>>
    BY <1>14, StatusesType DEF BackendDone, TypeOK
  <2>3. <<current>> \in Seq(Item) /\ <<>> \in Seq(ToWorker)
    BY <2>2, OneItem, EmptySeq
  <2>4. /\ completionRing' \in Seq(Completion) /\ Len(completionRing') <= RingCap
        /\ toWorker' \in Seq(ToWorker)
    BY <2>1, <2>2, <2>3, ReplyFacts
  <2>5. Answered(<<current>>, status) \in [1 .. MaxTransfers -> {"no", "yes"} \cup Statuses]
    BY <2>2, <2>3, AnsweredType
  <2>6. ran' \in [1 .. MaxTransfers -> {"no", "yes"} \cup Statuses]
    BY <2>1, <2>2, <2>5
  <2>7. queue' \in Seq(Item) /\ current' \in Item \cup {None}
    BY <2>1, <2>2, FrontRest, TailType
  <2>8. DeviceTypeOK'
    BY <1>0, <2>2, SameDeviceType
  <2> QED
    BY <2>2, <2>4, <2>6, <2>7, <2>8 DEF TypeOK, workerVars
<1>15. ASSUME NEW d \in Devices, AdoptDevice(d)
       PROVE  TypeOK'
  BY <1>15, SelectedType, ResetSelectedType DEF AdoptDevice, TypeOK
<1>16. CASE HandleDisconnect
  BY <1>16, SelectedType, ResetSelectedType DEF HandleDisconnect, TypeOK
<1>17. CASE ForgetDevice
  <2>1. <<>> \in Seq(ToWorker)
    BY EmptySeq
  <2> QED
    BY <1>17, <2>1, ResetSelectedType DEF ForgetDevice
<1>18. CASE ForgetDone
  <2>1. DeviceTypeOK'
    BY <1>0, <1>18, SameDeviceType DEF ForgetDone
  <2>2. toWorker' \in Seq(ToWorker)
    <3>1. Selected(FALSE) \in Seq(ToWorker) /\ toWorker \in Seq(ToWorker)
      BY SelectedType DEF TypeOK
    <3> QED
      BY <1>18, <3>1, ConcatProperties DEF ForgetDone
  <2>3. current' \in Item \cup {None}
    <3>1. current \in Item => [current EXCEPT !.deaf = TRUE] \in Item
      BY DEF Item
    <3> QED
      BY <1>18, <3>1 DEF ForgetDone, TypeOK
  <2> QED
    BY <1>18, <2>1, <2>2, <2>3 DEF ForgetDone, TypeOK, workerVars
<1>19. ASSUME /\ rings' = FALSE /\ actionRing' = <<>> /\ completionRing' = <<>>
              /\ toWorker' = Append(toWorker, [type |-> "ringDetach"])
              /\ toBroker' \in Seq(ToBroker)
              /\ UNCHANGED <<deviceVars, workerVars, brokerVars, saved>>
       PROVE  TypeOK'
  <2>1. DeviceTypeOK'
    BY <1>0, <1>19, SameDeviceType
  <2>2. toWorker' \in Seq(ToWorker)
    <3>1. [type |-> "ringDetach"] \in ToWorker /\ toWorker \in Seq(ToWorker)
      BY DEF ToWorker, TypeOK
    <3> QED
      BY <1>19, <3>1
  <2>3. /\ actionRing' \in Seq(Action) /\ completionRing' \in Seq(Completion)
        /\ Len(actionRing') <= RingCap /\ Len(completionRing') <= RingCap
    BY <1>19, EmptySeq, ProxyAssumption
  <2> QED
    BY <1>19, <2>1, <2>2, <2>3 DEF TypeOK, workerVars, brokerVars
<1>20. CASE BrokerRingFails
  BY <1>19, <1>20 DEF BrokerRingFails, TypeOK
<1>21. CASE BrokerReceiveRingDetach
  <2>1. toBroker' \in Seq(ToBroker)
    BY <1>21, TailType DEF BrokerReceiveRingDetach, TypeOK
  <2> QED
    BY <1>19, <1>21, <2>1 DEF BrokerReceiveRingDetach
<1>22. CASE UNCHANGED vars
  <2>1. DeviceTypeOK'
    BY <1>0, <1>22, SameDeviceType DEF vars
  <2> QED
    BY <1>1, <1>22, <2>1 DEF vars
<1> QED
  BY <1>2, <1>3, <1>4, <1>5, <1>6, <1>7, <1>8, <1>9, <1>10, <1>11, <1>12, <1>13, <1>14, <1>15,
     <1>16, <1>17, <1>18, <1>20, <1>21, <1>22
     DEF Next, Guest, Worker, Broker

\* Ids, actions, completions, rings and lists keep their types, the rings their
\* capacity, for every number of endpoints, devices and transfers, also where
\* the ids wrap around.
THEOREM UsbTypeCorrect == Spec => []TypeOK
  BY UsbTypeInit, UsbTypeStep, PTL DEF Spec

-----------------------------------------------------------------------------
(* The broker's queue *)

LEMMA EnqueueServed ==
    ASSUME TypeOK, QueueServed, NEW it \in Item, Enqueue(it), HasQueueCapacity,
           device # None, device' = device
    PROVE  QueueServed'
<1>1. it # None
  BY NoneAssumption
<1>2. queue \in Seq(Item) /\ Len(queue) \in Nat /\ MaxPending \in Nat
  BY ProxyAssumption DEF TypeOK
<1>3. CASE current = None
  <2>1. queue = <<>> /\ queue' = queue /\ current' = it
    BY <1>3 DEF QueueServed, Enqueue
  <2> QED
    BY <1>1, <1>2, <1>3, <2>1, ProxyAssumption DEF QueueServed, HasQueueCapacity
<1>4. CASE current # None
  <2>1. queue' = Append(queue, it) /\ current' = current
    BY <1>4 DEF Enqueue
  <2>2. Len(queue') = Len(queue) + 1
    BY <1>2, <2>1
  <2> QED
    BY <1>2, <1>4, <2>1, <2>2 DEF QueueServed, HasQueueCapacity
<1> QED
  BY <1>3, <1>4

LEMMA QueueServedStep == TypeOK /\ QueueServed /\ [Next]_vars => QueueServed'
<1> SUFFICES ASSUME TypeOK, QueueServed, [Next]_vars
             PROVE  QueueServed'
  OBVIOUS
<1>0. /\ queue \in Seq(Item) /\ Len(queue) \in Nat /\ MaxPending \in Nat /\ MaxPending > 0
      /\ current \in Item \cup {None}
  BY ProxyAssumption DEF TypeOK
<1>1. ASSUME UNCHANGED <<queue, current, device>>
      PROVE  QueueServed'
  BY <1>1 DEF QueueServed
<1>2. CASE Guest
  BY <1>1, <1>2 DEF Guest, GuestSetup, GuestSubmit, GuestPoll, GuestBusReset, brokerVars
<1>3. CASE Worker
  BY <1>1, <1>3 DEF Worker, Poll, ReceiveCompletion, PopCompletion, ReceiveSelected,
                    ReceiveRingDetach, WorkerRingFails, brokerVars
<1>4. CASE BrokerReceiveAction
  <2> DEFINE it == [action |-> Head(toBroker).action, ring |-> FALSE, deaf |-> FALSE]
  <2>1. it \in Item
    BY <1>4, ArrivingAction DEF BrokerReceiveAction, Item
  <2>2. /\ \/ device # None /\ HasQueueCapacity /\ Enqueue(it)
           \/ UNCHANGED <<queue, current>>
        /\ device' = device
    BY <1>4 DEF BrokerReceiveAction
  <2> HIDE DEF it
  <2> QED
    BY <1>1, <2>1, <2>2, EnqueueServed
<1>5. CASE DrainActionRing
  <2> DEFINE it == [action |-> Head(actionRing), ring |-> TRUE, deaf |-> FALSE]
  <2>1. it \in Item
    BY <1>5, TailType DEF DrainActionRing, Item, TypeOK
  <2>2. /\ \/ device # None /\ HasQueueCapacity /\ Enqueue(it)
           \/ UNCHANGED <<queue, current>>
        /\ device' = device
    BY <1>5 DEF DrainActionRing
  <2> HIDE DEF it
  <2> QED
    BY <1>1, <2>1, <2>2, EnqueueServed
<1>6. CASE BackendDone
  <2>1. /\ current # None /\ device' = device /\ queue' = Rest(queue, 1)
        /\ current' = IF queue = <<>> THEN None ELSE Head(queue)
    BY <1>6 DEF BackendDone
  <2>2. CASE queue = <<>>
    <3>1. queue' = <<>>
      <4>1. Rest(queue, 1) \in Seq(Item) /\ Len(Rest(queue, 1)) = Len(queue) - Least(1, Len(queue))
        BY <1>0, FrontRest
      <4>2. Len(queue) = 0 /\ Least(1, 0) = 0
        BY <2>2 DEF Least
      <4>3. Len(Rest(queue, 1)) = 0
        BY <4>1, <4>2
      <4> QED
        BY <2>1, <4>1, <4>3
    <3> QED
      BY <1>0, <2>1, <2>2, <3>1 DEF QueueServed
  <2>3. CASE queue # <<>>
    <3>1. Head(queue) \in Item /\ Head(queue) # None /\ Len(queue) >= 1
      BY <1>0, <2>3, TailType, NoneAssumption
    <3>2. Len(queue') = Len(queue) - 1
      BY <1>0, <2>1, <3>1, FrontRest DEF Least
    <3> QED
      BY <1>0, <2>1, <2>3, <3>1, <3>2 DEF QueueServed
  <2> QED
    BY <2>2, <2>3
<1>7. ASSUME NEW broadcast, ResetSelectedDevice(broadcast)
      PROVE  QueueServed'
  <2>1. queue' = <<>> /\ Len(<<>>) = 0
    BY <1>7 DEF ResetSelectedDevice
  <2> QED
    BY <1>0, <2>1 DEF QueueServed
<1>8. ASSUME NEW d \in Devices, AdoptDevice(d)
      PROVE  QueueServed'
  BY <1>7, <1>8 DEF AdoptDevice
<1>9. CASE HandleDisconnect
  BY <1>7, <1>9 DEF HandleDisconnect
<1>10. CASE ForgetDevice
  BY <1>7, <1>10 DEF ForgetDevice
<1>11. CASE ForgetDone
  <2>1. UNCHANGED <<queue, device>> /\ (current' = None <=> current = None)
    <3>1. current \in Item => [current EXCEPT !.deaf = TRUE] \in Item
      BY DEF Item
    <3> QED
      BY <1>0, <1>11, <3>1, NoneAssumption DEF ForgetDone
  <2> QED
    BY <2>1 DEF QueueServed
<1>12. CASE BrokerRingFails \/ BrokerReceiveRingDetach
  BY <1>1, <1>12 DEF BrokerRingFails, BrokerReceiveRingDetach, brokerVars
<1>13. CASE UNCHANGED vars
  BY <1>1, <1>13 DEF vars, brokerVars
<1> QED
  BY <1>2, <1>3, <1>4, <1>5, <1>6, <1>8, <1>9, <1>10, <1>11, <1>12, <1>13 DEF Next, Broker

\* The broker never leaves work behind: for every MaxPending and every
\* interleaving of arrivals, answers and device changes, items are queued only
\* while one is being executed on a selected device, within the limit.
THEOREM BrokerServesQueue == Spec => []QueueServed
<1>1. Init => QueueServed
  <2> SUFFICES ASSUME Init PROVE QueueServed
    OBVIOUS
  <2>1. queue = <<>> /\ current = None /\ Len(<<>>) = 0
    BY DEF Init
  <2> QED
    BY <2>1, ProxyAssumption DEF QueueServed
<1> QED
  BY <1>1, QueueServedStep, UsbTypeCorrect, PTL DEF Spec

-----------------------------------------------------------------------------
(* Where actions and completions are *)

MsgActions(s) == {s[i].action : i \in {k \in DOMAIN s : s[k].type = "action"}}
ItemActions(s) == {s[i].action : i \in DOMAIN s}
MsgCompletions(s) == {s[i].completion : i \in {k \in DOMAIN s : s[k].type = "completion"}}

\* No action is sent twice, or queued twice.
OnceSent(s) == \A i, j \in DOMAIN s :
    s[i].type = "action" /\ s[j].type = "action" /\ s[i].action = s[j].action => i = j
OnceQueued(s) == \A i, j \in DOMAIN s : s[i].action = s[j].action => i = j

LEMMA TailOnce ==
    ASSUME NEW T, NEW s \in Seq(T), s # <<>>
    PROVE  /\ Head(s) \in Range(s) /\ Range(Tail(s)) \subseteq Range(s)
           /\ Once(s) => Once(Tail(s)) /\ Head(s) \notin Range(Tail(s))
<1>1. /\ DOMAIN s = 1 .. Len(s) /\ DOMAIN Tail(s) = 1 .. Len(Tail(s))
      /\ Len(Tail(s)) = Len(s) - 1 /\ Len(s) \in Nat /\ Len(s) >= 1 /\ Head(s) = s[1]
      /\ \A i \in 1 .. Len(Tail(s)) : Tail(s)[i] = s[i + 1]
  BY TailType
<1>2. \A i \in DOMAIN Tail(s) : i \in Nat /\ i >= 1 /\ i + 1 \in DOMAIN s /\ Tail(s)[i] = s[i + 1]
  BY <1>1
<1>3. 1 \in DOMAIN s
  BY <1>1
<1>4. Head(s) \in Range(s) /\ Range(Tail(s)) \subseteq Range(s)
  BY <1>1, <1>2, <1>3 DEF Range
<1>5. ASSUME Once(s), NEW i \in DOMAIN Tail(s), NEW j \in DOMAIN Tail(s), Tail(s)[i] = Tail(s)[j]
      PROVE  i = j
  <2>1. i + 1 = j + 1
    BY <1>2, <1>5 DEF Once
  <2> QED
    BY <1>2, <2>1
<1>6. ASSUME Once(s), NEW i \in DOMAIN Tail(s), Tail(s)[i] = Head(s)
      PROVE  FALSE
  <2>1. i + 1 = 1
    BY <1>1, <1>2, <1>3, <1>6 DEF Once
  <2> QED
    BY <1>2, <2>1
<1> QED
  BY <1>4, <1>5, <1>6 DEF Once, Range

\* The indexes of a concatenation.
LEMMA ConcatSplit ==
    ASSUME NEW T, NEW s \in Seq(T), NEW t \in Seq(T), NEW i \in DOMAIN (s \o t)
    PROVE  \/ i \in DOMAIN s /\ (s \o t)[i] = s[i]
           \/ i - Len(s) \in DOMAIN t /\ (s \o t)[i] = t[i - Len(s)] /\ i > Len(s)
<1>1. /\ Len(s) \in Nat /\ Len(t) \in Nat /\ DOMAIN s = 1 .. Len(s) /\ DOMAIN t = 1 .. Len(t)
      /\ Len(s \o t) = Len(s) + Len(t) /\ DOMAIN (s \o t) = 1 .. Len(s \o t)
      /\ \A k \in 1 .. Len(s) + Len(t) :
            (s \o t)[k] = IF k <= Len(s) THEN s[k] ELSE t[k - Len(s)]
  BY ConcatProperties
<1>2. i \in 1 .. Len(s) + Len(t)
  BY <1>1
<1>3. CASE i <= Len(s)
  BY <1>1, <1>2, <1>3
<1>4. CASE i > Len(s)
  BY <1>1, <1>2, <1>4
<1> QED
  BY <1>1, <1>2, <1>3, <1>4

LEMMA ConcatOnce ==
    ASSUME NEW T, NEW s \in Seq(T), NEW t \in Seq(T), Once(s), Once(t),
           Range(s) \cap Range(t) = {}
    PROVE  Once(s \o t)
<1> SUFFICES ASSUME NEW i \in DOMAIN (s \o t), NEW j \in DOMAIN (s \o t),
                    (s \o t)[i] = (s \o t)[j]
             PROVE  i = j
  BY DEF Once
<1>1. \/ i \in DOMAIN s /\ (s \o t)[i] = s[i]
      \/ i - Len(s) \in DOMAIN t /\ (s \o t)[i] = t[i - Len(s)]
  BY ConcatSplit
<1>2. \/ j \in DOMAIN s /\ (s \o t)[j] = s[j]
      \/ j - Len(s) \in DOMAIN t /\ (s \o t)[j] = t[j - Len(s)]
  BY ConcatSplit
<1>3. i \in Int /\ j \in Int /\ Len(s) \in Nat
  OBVIOUS
<1>4. CASE i \in DOMAIN s /\ (s \o t)[i] = s[i] /\ j \in DOMAIN s /\ (s \o t)[j] = s[j]
  BY <1>4 DEF Once
<1>5. CASE /\ i - Len(s) \in DOMAIN t /\ (s \o t)[i] = t[i - Len(s)]
           /\ j - Len(s) \in DOMAIN t /\ (s \o t)[j] = t[j - Len(s)]
  <2>1. i - Len(s) = j - Len(s)
    BY <1>5 DEF Once
  <2> QED
    BY <1>3, <2>1
<1>6. ASSUME NEW k \in DOMAIN s, NEW l \in DOMAIN t, s[k] = t[l]
      PROVE  FALSE
  BY <1>6 DEF Range
<1> QED
  BY <1>1, <1>2, <1>4, <1>5, <1>6

\* The actions posted to the broker, when one is received ...
LEMMA TailSent ==
    ASSUME NEW s \in Seq(ToBroker), s # <<>>
    PROVE  /\ MsgActions(Tail(s)) \subseteq MsgActions(s)
           /\ OnceSent(s) => OnceSent(Tail(s))
           /\ Head(s).type = "action" => Head(s).action \in MsgActions(s)
           /\ OnceSent(s) /\ Head(s).type = "action" => Head(s).action \notin MsgActions(Tail(s))
<1>1. /\ DOMAIN s = 1 .. Len(s) /\ DOMAIN Tail(s) = 1 .. Len(Tail(s))
      /\ Len(Tail(s)) = Len(s) - 1 /\ Len(s) \in Nat /\ Len(s) >= 1 /\ Head(s) = s[1]
      /\ \A i \in 1 .. Len(Tail(s)) : Tail(s)[i] = s[i + 1]
  BY TailType
<1>2. \A i \in DOMAIN Tail(s) : i \in Nat /\ i >= 1 /\ i + 1 \in DOMAIN s /\ Tail(s)[i] = s[i + 1]
  BY <1>1
<1>3. 1 \in DOMAIN s
  BY <1>1
<1>4. MsgActions(Tail(s)) \subseteq MsgActions(s)
  BY <1>2 DEF MsgActions
<1>5. Head(s).type = "action" => Head(s).action \in MsgActions(s)
  BY <1>1, <1>3 DEF MsgActions
<1>6. ASSUME OnceSent(s), NEW i \in DOMAIN Tail(s), NEW j \in DOMAIN Tail(s),
             Tail(s)[i].type = "action", Tail(s)[j].type = "action",
             Tail(s)[i].action = Tail(s)[j].action
      PROVE  i = j
  <2>1. i + 1 = j + 1
    BY <1>2, <1>6 DEF OnceSent
  <2> QED
    BY <1>2, <2>1
<1>7. ASSUME OnceSent(s), Head(s).type = "action", NEW i \in DOMAIN Tail(s),
             Tail(s)[i].type = "action", Tail(s)[i].action = Head(s).action
      PROVE  FALSE
  <2>1. i + 1 = 1
    BY <1>1, <1>2, <1>3, <1>7 DEF OnceSent
  <2> QED
    BY <1>2, <2>1
<1> QED
  BY <1>4, <1>5, <1>6, <1>7 DEF OnceSent, MsgActions

\* ... and when the worker posts more.
LEMMA MoreSent ==
    ASSUME NEW s \in Seq(ToBroker), NEW y \in Seq(Action)
    PROVE  /\ MsgActions(s \o ActionMessages(y)) \subseteq MsgActions(s) \cup Range(y)
           /\ OnceSent(s) /\ Once(y) /\ MsgActions(s) \cap Range(y) = {}
                => OnceSent(s \o ActionMessages(y))
<1> DEFINE t == ActionMessages(y)
           u == s \o t
<1>1. /\ t \in Seq(ToBroker) /\ DOMAIN t = DOMAIN y
      /\ \A i \in DOMAIN t : t[i].action = y[i]
  <2>1. /\ t \in Seq(ToBroker) /\ Len(t) = Len(y)
        /\ \A i \in 1 .. Len(y) : t[i] = [type |-> "action", action |-> y[i]]
    BY ActionMessagesType
  <2> HIDE DEF t
  <2>2. DOMAIN t = 1 .. Len(y) /\ DOMAIN y = 1 .. Len(y)
    BY <2>1
  <2> QED
    BY <2>1, <2>2
<1>2. \A i \in DOMAIN u : i \in Int
  OBVIOUS
<1> HIDE DEF t
<1>3. \A i \in DOMAIN u : \/ i \in DOMAIN s /\ u[i] = s[i]
                          \/ i - Len(s) \in DOMAIN y /\ u[i].action = y[i - Len(s)]
  BY <1>1, ConcatSplit
<1> HIDE DEF u
<1>4. MsgActions(u) \subseteq MsgActions(s) \cup Range(y)
  BY <1>3 DEF MsgActions, Range
<1>5. ASSUME OnceSent(s), Once(y), MsgActions(s) \cap Range(y) = {},
             NEW i \in DOMAIN u, NEW j \in DOMAIN u, u[i].type = "action", u[j].type = "action",
             u[i].action = u[j].action
      PROVE  i = j
  <2>1. CASE i \in DOMAIN s /\ u[i] = s[i] /\ j \in DOMAIN s /\ u[j] = s[j]
    BY <1>5, <2>1 DEF OnceSent
  <2>2. CASE /\ i - Len(s) \in DOMAIN y /\ u[i].action = y[i - Len(s)]
             /\ j - Len(s) \in DOMAIN y /\ u[j].action = y[j - Len(s)]
    <3>1. i - Len(s) = j - Len(s)
      BY <1>5, <2>2 DEF Once
    <3>2. i \in Int /\ j \in Int /\ Len(s) \in Nat
      BY <1>2
    <3> QED
      BY <3>1, <3>2
  <2>3. ASSUME NEW k \in DOMAIN s, s[k].type = "action", NEW l \in DOMAIN y, s[k].action = y[l]
        PROVE  FALSE
    BY <1>5, <2>3 DEF MsgActions, Range
  <2> QED
    BY <1>3, <1>5, <2>1, <2>2, <2>3
<1> QED
  BY <1>4, <1>5 DEF OnceSent, u, t

\* A ringDetach is not an action.
LEMMA DetachSent ==
    ASSUME NEW s \in Seq(ToBroker)
    PROVE  /\ MsgActions(Append(s, [type |-> "ringDetach"])) \subseteq MsgActions(s)
           /\ OnceSent(s) => OnceSent(Append(s, [type |-> "ringDetach"]))
<1> DEFINE m == [type |-> "ringDetach"]
           u == Append(s, m)
<1>1. m \in ToBroker /\ m.type # "action"
  BY DEF ToBroker
<1>2. \A i \in DOMAIN u : (i \in DOMAIN s /\ u[i] = s[i]) \/ u[i].type # "action"
  BY <1>1
<1> HIDE DEF u
<1> QED
  BY <1>2 DEF MsgActions, OnceSent, u

\* The items queued at the broker.
LEMMA MoreQueued ==
    ASSUME NEW s \in Seq(Item), NEW it \in Item
    PROVE  /\ ItemActions(Append(s, it)) \subseteq ItemActions(s) \cup {it.action}
           /\ OnceQueued(s) /\ it.action \notin ItemActions(s) => OnceQueued(Append(s, it))
<1> DEFINE u == Append(s, it)
<1>1. /\ Len(s) \in Nat /\ DOMAIN s = 1 .. Len(s)
      /\ DOMAIN u = 1 .. Len(s) + 1 /\ u[Len(s) + 1] = it /\ \A i \in 1 .. Len(s) : u[i] = s[i]
  OBVIOUS
<1> HIDE DEF u
<1>2. \A i \in DOMAIN u : (i \in DOMAIN s /\ u[i] = s[i]) \/ (i = Len(s) + 1 /\ u[i] = it)
  <2> TAKE i \in DOMAIN u
  <2>1. i \in 1 .. Len(s) \/ i = Len(s) + 1
    BY <1>1
  <2> QED
    BY <1>1, <2>1
<1> QED
  BY <1>2 DEF ItemActions, OnceQueued, u

LEMMA NextQueued ==
    ASSUME NEW s \in Seq(Item)
    PROVE  /\ ItemActions(Rest(s, 1)) \subseteq ItemActions(s)
           /\ OnceQueued(s) => OnceQueued(Rest(s, 1))
           /\ s # <<>> => Head(s) \in Item /\ Head(s).action \in ItemActions(s)
           /\ OnceQueued(s) /\ s # <<>> => Head(s).action \notin ItemActions(Rest(s, 1))
<1> DEFINE u == Rest(s, 1)
<1>1. Len(s) \in Nat /\ DOMAIN s = 1 .. Len(s)
  OBVIOUS
<1> DEFINE l == Least(1, Len(s))
<1>2. /\ l \in 0 .. Len(s) /\ u \in Seq(Item) /\ Len(u) = Len(s) - l
      /\ \A i \in 1 .. Len(u) : u[i] = s[i + l]
  BY FrontRest
<1>3. CASE s = <<>>
  <2>1. Len(s) = 0
    BY <1>3
  <2>2. Len(u) = 0
    <3>1. l = 0
      BY <1>2, <2>1
    <3> HIDE DEF u, l
    <3> QED
      BY <1>2, <2>1, <3>1
  <2> HIDE DEF u
  <2>3. DOMAIN u = {}
    BY <1>2, <2>2
  <2> QED
    BY <1>3, <2>3 DEF ItemActions, OnceQueued, u
<1>4. CASE s # <<>>
  <2>1. l = 1
    <3>1. Len(s) >= 1
      BY <1>4
    <3> QED
      BY <1>1, <3>1 DEF Least
  <2> HIDE DEF u, l
  <2>2. \A i \in DOMAIN u : i \in Nat /\ i >= 1 /\ i + 1 \in DOMAIN s /\ u[i] = s[i + 1]
    BY <1>1, <1>2, <2>1
  <2>3. Head(s) = s[1] /\ 1 \in DOMAIN s /\ Head(s) \in Item
    BY <1>4
  <2>4. ASSUME OnceQueued(s), NEW i \in DOMAIN u, NEW j \in DOMAIN u, u[i].action = u[j].action
        PROVE  i = j
    <3>1. i + 1 = j + 1
      BY <2>2, <2>4 DEF OnceQueued
    <3> QED
      BY <2>2, <3>1
  <2>5. ASSUME OnceQueued(s), NEW i \in DOMAIN u, u[i].action = Head(s).action
        PROVE  FALSE
    <3>1. i + 1 = 1
      BY <2>2, <2>3, <2>5 DEF OnceQueued
    <3> QED
      BY <2>2, <3>1
  <2> QED
    BY <2>2, <2>3, <2>4, <2>5 DEF ItemActions, OnceQueued, u
<1> QED
  BY <1>3, <1>4

\* The completions posted to the worker.
LEMMA MorePosted ==
    ASSUME NEW s \in Seq(ToWorker), NEW m \in ToWorker, m.type # "completion"
    PROVE  MsgCompletions(Append(s, m)) \subseteq MsgCompletions(s)
<1> DEFINE u == Append(s, m)
<1>1. \A i \in DOMAIN u : (i \in DOMAIN s /\ u[i] = s[i]) \/ u[i].type # "completion"
  OBVIOUS
<1> HIDE DEF u
<1> QED
  BY <1>1 DEF MsgCompletions, u

LEMMA FewerPosted ==
    ASSUME NEW s \in Seq(ToWorker), s # <<>>
    PROVE  /\ MsgCompletions(Tail(s)) \subseteq MsgCompletions(s)
           /\ Head(s).type = "completion" => Head(s).completion \in MsgCompletions(s)
<1>1. /\ DOMAIN s = 1 .. Len(s) /\ DOMAIN Tail(s) = 1 .. Len(Tail(s))
      /\ Len(Tail(s)) = Len(s) - 1 /\ Len(s) \in Nat /\ Len(s) >= 1 /\ Head(s) = s[1]
      /\ \A i \in 1 .. Len(Tail(s)) : Tail(s)[i] = s[i + 1]
  BY TailType
<1>2. \A i \in DOMAIN Tail(s) : i + 1 \in DOMAIN s /\ Tail(s)[i] = s[i + 1]
  BY <1>1
<1>3. 1 \in DOMAIN s
  BY <1>1
<1> QED
  BY <1>1, <1>2, <1>3 DEF MsgCompletions

-----------------------------------------------------------------------------
(* The ledger of actions and completions *)

\* K is the set of actions that are anywhere, of which W wait to be executed
\* and R are being executed; C is the set of completions on their way; n
\* transfers were started, and f says what became of each.  An id stands for
\* one transfer, what waits has not been executed, and a completion tells
\* what happened to the transfer whose id it carries.
Ledger(K, W, R, C, n, f) ==
    /\ W \cup R \subseteq K
    /\ \A a \in K : a.id = a.serial /\ a.serial \in 1 .. n
    /\ \A a, b \in K : a.serial = b.serial => a = b
    /\ \A a \in W : f[a.serial] = "no"
    /\ \A a \in R : f[a.serial] = "yes"
    /\ \A s \in 1 .. MaxTransfers : s > n => f[s] = "no"
    /\ \A c \in C :
          /\ c.id = c.serial /\ c.serial \in 1 .. n
          /\ c.status \in Statuses /\ f[c.serial] = c.status
          /\ \A a \in K : a.serial = c.serial => c.in = (a.target \in InTargets)

\* Actions and completions may get lost.
LEMMA LedgerLess ==
    ASSUME NEW K, NEW W, NEW R, NEW C, NEW n, NEW f, Ledger(K, W, R, C, n, f),
           NEW K2, NEW W2, NEW R2, NEW C2,
           K2 \subseteq K, W2 \subseteq W, R2 \subseteq R, C2 \subseteq C, W2 \cup R2 \subseteq K2
    PROVE  Ledger(K2, W2, R2, C2, n, f)
  BY DEF Ledger

\* A new transfer takes the next number.
LEMMA LedgerNew ==
    ASSUME NEW K, NEW W, NEW R, NEW C, NEW n \in Nat, NEW f, Ledger(K, W, R, C, n, f),
           NEW K2, NEW W2, NEW R2, NEW C2, NEW a,
           n < MaxTransfers, a.id = n + 1, a.serial = n + 1,
           K2 \subseteq K \cup {a}, W2 \subseteq W \cup {a}, R2 \subseteq R, C2 \subseteq C,
           W2 \cup R2 \subseteq K2
    PROVE  Ledger(K2, W2, R2, C2, n + 1, f)
<1>1. n + 1 \in 1 .. MaxTransfers /\ n + 1 > n
  BY UsbAssumption
<1>2. f[n + 1] = "no"
  BY <1>1 DEF Ledger
<1>3. \A b \in K : b.id = b.serial /\ b.serial \in 1 .. n + 1 /\ b.serial # n + 1
  BY DEF Ledger
<1>4. \A b \in K2 : b.id = b.serial /\ b.serial \in 1 .. n + 1
  BY <1>3
<1>5. \A b, d \in K2 : b.serial = d.serial => b = d
  BY <1>3 DEF Ledger
<1>6. \A b \in W2 : f[b.serial] = "no"
  BY <1>2 DEF Ledger
<1>7. \A s \in 1 .. MaxTransfers : s > n + 1 => f[s] = "no"
  BY DEF Ledger
<1>8. ASSUME NEW c \in C2
      PROVE  /\ c.id = c.serial /\ c.serial \in 1 .. n + 1
             /\ c.status \in Statuses /\ f[c.serial] = c.status
             /\ \A b \in K2 : b.serial = c.serial => c.in = (b.target \in InTargets)
  <2>1. c.serial \in 1 .. n /\ c.serial # n + 1
    BY DEF Ledger
  <2> QED
    BY <2>1 DEF Ledger
<1> QED
  BY <1>4, <1>5, <1>6, <1>7, <1>8 DEF Ledger

\* The completion of an action.
AnswerTo(a, status) ==
    [id |-> a.id, in |-> a.target \in InTargets, status |-> status, serial |-> a.serial]

\* The actions in F are answered.
LEMMA LedgerAnswer ==
    ASSUME NEW K, NEW W, NEW R, NEW C, NEW n \in 0 .. MaxTransfers, NEW f,
           Ledger(K, W, R, C, n, f),
           NEW K2, NEW W2, NEW R2, NEW C2, NEW F, NEW status \in Statuses, NEW g,
           F \subseteq W \cup R, W2 \subseteq W \ F, R2 \subseteq R \ F, K2 \subseteq K,
           W2 \cup R2 \subseteq K2,
           \A s \in 1 .. MaxTransfers :
              g[s] = IF \E a \in F : a.serial = s THEN status ELSE f[s],
           \A c \in C2 : c \in C \/ \E a \in F : c = AnswerTo(a, status)
    PROVE  Ledger(K2, W2, R2, C2, n, g)
<1>1. \A a \in K : a.id = a.serial /\ a.serial \in 1 .. MaxTransfers /\ a.serial \in 1 .. n
  BY UsbAssumption DEF Ledger
<1>2. F \subseteq K /\ W \subseteq K /\ R \subseteq K
  BY DEF Ledger
<1>3. \A a \in K \ F : g[a.serial] = f[a.serial]
  <2> TAKE a \in K \ F
  <2>1. ~\E b \in F : b.serial = a.serial
    BY <1>2 DEF Ledger
  <2> QED
    BY <1>1, <2>1
<1>4. \A a \in F : g[a.serial] = status
  BY <1>1, <1>2
<1>5. ASSUME NEW s \in 1 .. MaxTransfers, s > n
      PROVE  g[s] = "no"
  <2>1. f[s] = "no"
    BY <1>5 DEF Ledger
  <2>2. ~\E b \in F : b.serial = s
    <3> SUFFICES ASSUME NEW b \in F, b.serial = s PROVE FALSE
      OBVIOUS
    <3>1. s \in 1 .. n
      BY <1>1, <1>2
    <3> QED
      BY <1>5, <3>1
  <2> QED
    BY <2>1, <2>2
<1>6. ASSUME NEW c \in C
      PROVE  g[c.serial] = c.status
  <2>1. c.serial \in 1 .. MaxTransfers /\ f[c.serial] = c.status /\ c.status \in Statuses
    BY UsbAssumption DEF Ledger
  <2>2. ASSUME NEW b \in F, b.serial = c.serial
        PROVE  FALSE
    <3>1. f[b.serial] \in {"no", "yes"}
      BY DEF Ledger
    <3> QED
      BY <2>1, <2>2, <3>1 DEF Statuses
  <2> QED
    BY <2>1, <2>2
<1>7. ASSUME NEW c \in C2
      PROVE  /\ c.id = c.serial /\ c.serial \in 1 .. n
             /\ c.status \in Statuses /\ g[c.serial] = c.status
             /\ \A a \in K2 : a.serial = c.serial => c.in = (a.target \in InTargets)
  <2>1. CASE c \in C
    BY <1>6, <2>1 DEF Ledger
  <2>2. ASSUME NEW a \in F, c = AnswerTo(a, status)
        PROVE  /\ c.id = c.serial /\ c.serial \in 1 .. n
               /\ c.status \in Statuses /\ g[c.serial] = c.status
               /\ \A b \in K2 : b.serial = c.serial => c.in = (b.target \in InTargets)
    <3>1. /\ c.id = a.id /\ c.serial = a.serial /\ c.status = status
          /\ c.in = (a.target \in InTargets)
      BY <2>2 DEF AnswerTo
    <3>2. \A b \in K2 : b.serial = a.serial => b = a
      BY <1>2 DEF Ledger
    <3> QED
      BY <1>1, <1>2, <1>4, <3>1, <3>2
  <2> QED
    BY <2>1, <2>2
<1>8. \A a \in W2 : g[a.serial] = "no"
  BY <1>2, <1>3 DEF Ledger
<1>9. \A a \in R2 : g[a.serial] = "yes"
  BY <1>2, <1>3 DEF Ledger
<1>10. /\ \A a \in K2 : a.id = a.serial /\ a.serial \in 1 .. n
       /\ \A a, b \in K2 : a.serial = b.serial => a = b
  BY DEF Ledger
<1> QED
  BY <1>5, <1>7, <1>8, <1>9, <1>10 DEF Ledger

\* The broker starts to execute an action.
LEMMA LedgerStart ==
    ASSUME NEW K, NEW W, NEW R, NEW C, NEW n \in 0 .. MaxTransfers, NEW f,
           Ledger(K, W, R, C, n, f), R = {},
           NEW K2, NEW W2, NEW R2, NEW C2, NEW a \in W, NEW g,
           W2 \subseteq W \ {a}, R2 \subseteq {a}, K2 \subseteq K, C2 \subseteq C,
           W2 \cup R2 \subseteq K2,
           \A s \in 1 .. MaxTransfers : g[s] = IF s = a.serial THEN "yes" ELSE f[s]
    PROVE  Ledger(K2, W2, R2, C2, n, g)
<1>1. \A b \in K : b.serial \in 1 .. MaxTransfers /\ b.serial \in 1 .. n
  BY UsbAssumption DEF Ledger
<1>2. W \subseteq K /\ f[a.serial] = "no"
  BY DEF Ledger
<1>3. \A b \in K \ {a} : g[b.serial] = f[b.serial]
  BY <1>1, <1>2 DEF Ledger
<1>4. g[a.serial] = "yes"
  BY <1>1, <1>2
<1>5. \A s \in 1 .. MaxTransfers : s > n => g[s] = "no"
  <2> TAKE s \in 1 .. MaxTransfers
  <2>1. s > n => s # a.serial
    BY <1>1, <1>2
  <2> QED
    BY <2>1 DEF Ledger
<1>6. ASSUME NEW c \in C
      PROVE  g[c.serial] = c.status
  <2>1. c.serial \in 1 .. MaxTransfers /\ f[c.serial] = c.status /\ c.status \in Statuses
    BY UsbAssumption DEF Ledger
  <2>2. c.serial # a.serial
    BY <1>2, <2>1 DEF Statuses
  <2> QED
    BY <2>1, <2>2
<1>7. \A b \in W2 : g[b.serial] = "no"
  BY <1>2, <1>3 DEF Ledger
<1>8. \A b \in R2 : g[b.serial] = "yes"
  BY <1>4
<1>9. /\ \A b \in K2 : b.id = b.serial /\ b.serial \in 1 .. n
      /\ \A b, d \in K2 : b.serial = d.serial => b = d
  BY DEF Ledger
<1>10. ASSUME NEW c \in C2
       PROVE  /\ c.id = c.serial /\ c.serial \in 1 .. n
              /\ c.status \in Statuses /\ g[c.serial] = c.status
              /\ \A b \in K2 : b.serial = c.serial => c.in = (b.target \in InTargets)
  BY <1>6 DEF Ledger
<1> QED
  BY <1>5, <1>7, <1>8, <1>9, <1>10 DEF Ledger

-----------------------------------------------------------------------------
(* The inductive invariant *)

\* Fewer transfers are started than there are ids: 2^32 - 1 of them in the
\* code.  Past that a completion of a transfer that was given up could answer
\* a later one with the same id.
IdsLast == MaxTransfers <= MaxId

Waiting == Range(actions) \cup Range(backlog) \cup MsgActions(toBroker)
             \cup Range(actionRing) \cup ItemActions(queue)
Running == IF current = None THEN {} ELSE {current.action}
InFlight == {inflight[p] : p \in {q \in Pipes : inflight[q] # None}}
Known == Waiting \cup Running \cup InFlight
Completed == completions \cup Range(completionRing) \cup MsgCompletions(toWorker)

\* Five sets of actions that share none.
Apart(A, B, P, G, Q) ==
    /\ A \cap B = {} /\ A \cap P = {} /\ A \cap G = {} /\ A \cap Q = {}
    /\ B \cap P = {} /\ B \cap G = {} /\ B \cap Q = {}
    /\ P \cap G = {} /\ P \cap Q = {} /\ G \cap Q = {}

\* An action that waits is in one place, once.
PlacesApart ==
    /\ Apart(Range(actions), Range(backlog), MsgActions(toBroker), Range(actionRing),
             ItemActions(queue))
    /\ Once(actions) /\ Once(backlog) /\ OnceSent(toBroker) /\ Once(actionRing)
    /\ OnceQueued(queue)

Books == PlacesApart /\ Ledger(Known, Waiting, Running, Completed, serial, ran)

\* Each pipe has its own transfer in flight; what the device has queued, or has
\* a result for, is in flight.
DeviceOwns ==
    /\ \A p \in Pipes : inflight[p] # None => PipeOf(inflight[p].target) = p
    /\ \A a \in Range(actions) : inflight[PipeOf(a.target)] = a
    /\ \A c \in completions : c.id \in IdsOf(inflight)

\* The next id is the next serial number.
Numbered == serial < MaxTransfers => next_id = serial + 1

UsbInv == IdsLast /\ TypeOK /\ Books /\ DeviceOwns /\ Numbered /\ SuccessMeansExecuted

LEMMA PlaceTypes ==
    ASSUME TypeOK
    PROVE  /\ actions \in Seq(Action) /\ backlog \in Seq(Action) /\ actionRing \in Seq(Action)
           /\ toBroker \in Seq(ToBroker) /\ toWorker \in Seq(ToWorker) /\ queue \in Seq(Item)
           /\ completionRing \in Seq(Completion) /\ completions \subseteq Completion
           /\ current \in Item \cup {None} /\ inflight \in [Pipes -> Action \cup {None}]
           /\ serial \in 0 .. MaxTransfers /\ serial \in Nat
           /\ DOMAIN ran = 1 .. MaxTransfers
  BY UsbAssumption DEF TypeOK, DeviceTypeOK

\* Steps that only lose or forget.
LEMMA LossyBooks ==
    ASSUME Books, UNCHANGED <<serial, ran>>,
           Range(actions') \subseteq Range(actions), Once(actions'),
           Range(backlog') \subseteq Range(backlog), Once(backlog'),
           MsgActions(toBroker') \subseteq MsgActions(toBroker), OnceSent(toBroker'),
           Range(actionRing') \subseteq Range(actionRing), Once(actionRing'),
           ItemActions(queue') \subseteq ItemActions(queue), OnceQueued(queue'),
           Running' \subseteq Running, InFlight' \subseteq InFlight, Completed' \subseteq Completed
    PROVE  Books'
<1>1. PlacesApart'
  BY DEF Books, PlacesApart, Apart
<1>2. Waiting' \subseteq Waiting /\ Known' \subseteq Known /\ Waiting' \cup Running' \subseteq Known'
  BY DEF Waiting, Known
<1>3. Ledger(Known', Waiting', Running', Completed', serial, ran)
  BY <1>2, LedgerLess DEF Books
<1> QED
  BY <1>1, <1>3 DEF Books, Ledger

LEMMA EmptyOnce == Range(<<>>) = {} /\ Once(<<>>) /\ MsgActions(<<>>) = {} /\ ItemActions(<<>>) = {}
                   /\ OnceQueued(<<>>) /\ MsgCompletions(<<>>) = {}
<1>1. DOMAIN <<>> = {}
  OBVIOUS
<1> QED
  BY <1>1 DEF Range, Once, MsgActions, ItemActions, OnceQueued, MsgCompletions

\* Dropping actions from the device's queue.
LEMMA DropFacts ==
    ASSUME NEW acts \in Seq(Action), NEW ids
    PROVE  /\ DropQueuedAction(acts, ids) \in Seq(Action)
           /\ Range(DropQueuedAction(acts, ids)) \subseteq Range(acts)
           /\ Once(acts) => Once(DropQueuedAction(acts, ids))
           /\ \A a \in Range(DropQueuedAction(acts, ids)) : a.id \notin ids
<1> DEFINE S == {i \in DOMAIN acts : acts[i].id \notin ids}
<1>1. S \in SUBSET DOMAIN acts /\ DropQueuedAction(acts, ids) = Picked(acts, S)
  BY DEF DropQueuedAction
<1>2. \A a \in {acts[i] : i \in S} : a \in Range(acts) /\ a.id \notin ids
  BY DEF Range
<1> HIDE DEF S
<1> QED
  BY <1>1, <1>2, PickedOnce, PickedFacts

\* A new transfer: with fewer transfers than ids, its id is its number.
LEMMA NewTransfer ==
    ASSUME UsbInv, NEW t \in Targets, NEW fl \in [Pipes -> Action \cup {None}],
           \A p \in Pipes : fl[p] # None => fl[p] = inflight[p],
           NEW acts, QueueAction(t, fl, acts)
    PROVE  \E a \in Action :
              /\ a.id = serial + 1 /\ a.serial = serial + 1 /\ a.target = t
              /\ serial < MaxTransfers /\ serial' = serial + 1
              /\ actions' = Append(acts, a)
              /\ inflight' = [fl EXCEPT ![PipeOf(t)] = a]
              /\ answer' = [answer EXCEPT ![PipeOf(t)] = None]
              /\ Numbered'
<1> DEFINE id == AllocId(IdsOf(fl))
           a == [id |-> id, target |-> t, serial |-> serial + 1]
<1>1. /\ serial < MaxTransfers
      /\ serial' = serial + 1
      /\ next_id' = IdAfter(id, 1)
      /\ actions' = Append(acts, a)
      /\ inflight' = [fl EXCEPT ![PipeOf(t)] = a]
      /\ answer' = [answer EXCEPT ![PipeOf(t)] = None]
  BY DEF QueueAction
<1>2. /\ serial \in Nat /\ MaxTransfers \in Nat /\ MaxId \in Nat /\ MaxTransfers <= MaxId
      /\ next_id = serial + 1 /\ next_id \in 1 .. MaxId
  BY <1>1, UsbAssumption DEF UsbInv, IdsLast, Numbered, TypeOK, DeviceTypeOK
<1>3. IdsOf(fl) \subseteq 1 .. serial
  <2> SUFFICES ASSUME NEW p \in Pipes, fl[p] # None
               PROVE  fl[p].id \in 1 .. serial
    BY DEF IdsOf
  <2>1. fl[p] \in Known
    BY DEF Known, InFlight
  <2> QED
    BY <2>1 DEF UsbInv, Books, Ledger
<1>4. ASSUME NEW i \in 1 .. MaxId
      PROVE  IdAfter(i, 0) = i
  <2>1. PICK x \in Nat : x = i - 1 /\ x < MaxId
    BY <1>2
  <2>2. MaxId \in Nat \ {0} /\ x < 2 * MaxId /\ i - 1 + 0 = x
    BY <1>2, <2>1
  <2>3. x % MaxId = x
    BY <2>1, <2>2, OneRound
  <2> QED
    BY <2>1, <2>2, <2>3 DEF IdAfter
<1>5. id = serial + 1
  <2> DEFINE used == IdsOf(fl)
  <2>1. IdAfter(next_id, 0) = serial + 1 /\ serial + 1 \notin used
    BY <1>2, <1>3, <1>4
  <2>2. IsFiniteSet(used) /\ Cardinality(used) \in Nat
    BY InFlightIds, FS_CardinalityType
  <2> HIDE DEF used
  <2> DEFINE Good(k) == /\ IdAfter(next_id, k) \notin used
                        /\ \A j \in 0 .. (k - 1) : IdAfter(next_id, j) \in used
  <2>3. 0 \in 0 .. Cardinality(used) /\ Good(0)
    BY <2>1, <2>2
  <2>4. \A k \in 0 .. Cardinality(used) : Good(k) => k = 0
    <3> SUFFICES ASSUME NEW k \in 0 .. Cardinality(used), Good(k), k # 0
                 PROVE  FALSE
      OBVIOUS
    <3>1. 0 \in 0 .. (k - 1)
      BY <2>2
    <3> QED
      BY <2>1, <3>1
  <2>5. AllocId(used) = IdAfter(next_id, CHOOSE k \in 0 .. Cardinality(used) : Good(k))
    BY DEF AllocId
  <2>6. (CHOOSE k \in 0 .. Cardinality(used) : Good(k)) = 0
    <3> HIDE DEF Good
    <3> QED
      BY <2>3, <2>4
  <2> QED
    BY <2>1, <2>5, <2>6 DEF used
<1>6. a \in Action
  <2>1. serial + 1 \in 1 .. MaxTransfers /\ serial + 1 \in 1 .. MaxId
    BY <1>1, <1>2
  <2> QED
    BY <1>5, <2>1 DEF Action
<1>7. Numbered'
  <2> SUFFICES ASSUME serial' < MaxTransfers
               PROVE  next_id' = serial' + 1
    BY DEF Numbered
  <2>1. (id - 1 + 1) \in 0 .. MaxId - 1 /\ MaxId \in Nat \ {0} /\ id - 1 + 1 = serial + 1
    BY <1>1, <1>2, <1>5
  <2>2. (id - 1 + 1) % MaxId = serial + 1
    BY <2>1, OneRound
  <2>3. next_id' = (serial + 1) + 1
    BY <1>1, <2>2 DEF IdAfter
  <2> QED
    BY <1>1, <2>3
<1>8. a.id = serial + 1 /\ a.serial = serial + 1 /\ a.target = t
  BY <1>5
<1> HIDE DEF a
<1> QED
  BY <1>1, <1>6, <1>7, <1>8

-----------------------------------------------------------------------------
(* The books through every step *)

\* A transfer is started: acts and fl are what is left of the device's queue
\* and of the transfers in flight.
LEMMA NewTransferBooks ==
    ASSUME UsbInv, NEW t \in Targets, NEW fl \in [Pipes -> Action \cup {None}],
           \A p \in Pipes : fl[p] # None => fl[p] = inflight[p],
           NEW acts \in Seq(Action), Range(acts) \subseteq Range(actions), Once(acts),
           QueueAction(t, fl, acts), completions' \subseteq completions,
           UNCHANGED <<backlog, toBroker, toWorker, actionRing, completionRing, queue,
                       current, ran>>
    PROVE  Books'
<1>1. PICK a \in Action :
         /\ a.id = serial + 1 /\ a.serial = serial + 1
         /\ serial < MaxTransfers /\ serial' = serial + 1
         /\ actions' = Append(acts, a)
         /\ inflight' = [fl EXCEPT ![PipeOf(t)] = a]
  BY NewTransfer
<1>2. PlacesApart /\ Ledger(Known, Waiting, Running, Completed, serial, ran) /\ TypeOK
  BY DEF UsbInv, Books
<1>3. serial \in Nat
  BY <1>2, PlaceTypes
<1>4. a \notin Known
  BY <1>1, <1>2, <1>3 DEF Ledger
<1>5. Range(actions') \subseteq Range(actions) \cup {a} /\ Once(actions')
  <2>1. \A i \in DOMAIN actions' : \/ i \in DOMAIN acts /\ actions'[i] = acts[i]
                                   \/ i = Len(acts) + 1 /\ actions'[i] = a
    <3>1. /\ Len(acts) \in Nat /\ DOMAIN acts = 1 .. Len(acts) /\ Len(actions') = Len(acts) + 1
          /\ DOMAIN actions' = 1 .. Len(acts) + 1
          /\ \A i \in 1 .. Len(acts) : actions'[i] = acts[i]
          /\ actions'[Len(acts) + 1] = a
      BY <1>1
    <3> TAKE i \in DOMAIN actions'
    <3>2. i \in 1 .. Len(acts) \/ i = Len(acts) + 1
      BY <3>1
    <3> QED
      BY <3>1, <3>2
  <2>2. a \notin Range(acts)
    BY <1>4 DEF Known, Waiting
  <2>3. \A i \in DOMAIN acts : acts[i] # a /\ acts[i] \in Range(actions)
    BY <2>2 DEF Range
  <2>4. Range(actions') \subseteq Range(actions) \cup {a}
    <3>1. \A i \in DOMAIN actions' : actions'[i] \in Range(actions) \cup {a}
      BY <2>1, <2>3
    <3> QED
      BY <3>1 DEF Range
  <2>5. ASSUME NEW i \in DOMAIN actions', NEW j \in DOMAIN actions', actions'[i] = actions'[j]
        PROVE  i = j
    BY <2>1, <2>3, <2>5 DEF Once
  <2> QED
    BY <2>4, <2>5 DEF Once
<1>6. PlacesApart'
  BY <1>2, <1>4, <1>5 DEF PlacesApart, Apart, Known, Waiting
<1>7. InFlight' \subseteq InFlight \cup {a}
  BY <1>1 DEF InFlight
<1>8. /\ Waiting' \subseteq Waiting \cup {a} /\ Running' \subseteq Running
      /\ Completed' \subseteq Completed
  BY <1>5 DEF Waiting, Running, Completed
<1>9. Known' \subseteq Known \cup {a} /\ Waiting' \cup Running' \subseteq Known'
  BY <1>7, <1>8 DEF Known
<1>10. Ledger(Known', Waiting', Running', Completed', serial + 1, ran)
  BY <1>1, <1>2, <1>3, <1>8, <1>9, LedgerNew
<1> QED
  BY <1>1, <1>6, <1>10 DEF Books, Ledger

LEMMA SetupBooks ==
    ASSUME UsbInv, NEW t \in ControlRequests, GuestSetup(t)
    PROVE  Books'
<1> DEFINE gone == {inflight[p].id : p \in {q \in {Control} : inflight[q] # None}}
           fl == [inflight EXCEPT ![Control] = None]
           acts == DropQueuedAction(actions, gone)
<1>1. /\ completions' = Without(completions, gone) /\ QueueAction(t, fl, acts)
      /\ UNCHANGED <<backlog, toBroker, toWorker, actionRing, completionRing, queue,
                     current, ran>>
  BY DEF GuestSetup, Setup, workerVars, channelVars, brokerVars
<1>2. TypeOK /\ Once(actions)
  BY DEF UsbInv, Books, PlacesApart
<1>3. /\ fl \in [Pipes -> Action \cup {None}]
      /\ \A p \in Pipes : fl[p] # None => fl[p] = inflight[p]
  BY <1>2, PlaceTypes
<1>4. acts \in Seq(Action) /\ Range(acts) \subseteq Range(actions) /\ Once(acts)
  BY <1>2, PlaceTypes, DropFacts
<1>5. completions' \subseteq completions /\ t \in Targets
  BY <1>1 DEF Without, Targets
<1> HIDE DEF fl, acts
<1> QED
  BY <1>1, <1>3, <1>4, <1>5, NewTransferBooks

LEMMA SubmitBooks ==
    ASSUME UsbInv, NEW e \in Endpoints, GuestSubmit(e)
    PROVE  Books'
<1>1. /\ completions' = completions /\ QueueAction(e, inflight, actions)
      /\ UNCHANGED <<backlog, toBroker, toWorker, actionRing, completionRing, queue,
                     current, ran>>
  BY DEF GuestSubmit, SubmitEndpoint, workerVars, channelVars, brokerVars
<1>2. TypeOK /\ Once(actions) /\ e \in Targets
  BY DEF UsbInv, Books, PlacesApart, Targets
<1> QED
  BY <1>1, <1>2, PlaceTypes, NewTransferBooks

\* The device model alone loses or forgets.
LEMMA DeviceBooks ==
    ASSUME UsbInv, NEW acts, actions' = acts, Range(acts) \subseteq Range(actions), Once(acts),
           InFlight' \subseteq InFlight, completions' \subseteq Completed,
           UNCHANGED <<serial, ran, toBroker, actionRing, queue, current>>,
           Range(backlog') \subseteq Range(backlog), Once(backlog'),
           Range(completionRing') \subseteq Range(completionRing),
           MsgCompletions(toWorker') \subseteq MsgCompletions(toWorker)
    PROVE  Books'
<1>1. Books
  BY DEF UsbInv
<1>2. Running' \subseteq Running /\ Completed' \subseteq Completed
  BY DEF Running, Completed
<1>3. /\ OnceSent(toBroker) /\ Once(actionRing) /\ OnceQueued(queue)
  BY <1>1 DEF Books, PlacesApart
<1> QED
  BY <1>1, <1>2, <1>3, LossyBooks

LEMMA InFlightForgets ==
    ASSUME UsbInv, NEW p \in Pipes, inflight' = [inflight EXCEPT ![p] = None]
    PROVE  InFlight' \subseteq InFlight
<1>1. inflight \in [Pipes -> Action \cup {None}]
  BY PlaceTypes DEF UsbInv
<1> QED
  BY <1>1 DEF InFlight

LEMMA TakeBooks ==
    ASSUME UsbInv, NEW p \in Pipes, GuestPoll(p)
    PROVE  Books'
<1>1. PICK c \in completions :
        /\ completions' = completions \ {c}
        /\ actions' = DropQueuedAction(actions, {c.id})
        /\ inflight' = [inflight EXCEPT ![p] = None]
  BY DEF GuestPoll, TakeResult
<1>2. UNCHANGED <<serial, ran, toBroker, actionRing, queue, current, backlog, completionRing,
                  toWorker>>
  BY DEF GuestPoll, TakeResult, workerVars, channelVars, brokerVars
<1>3. actions \in Seq(Action) /\ Once(actions) /\ Once(backlog)
  BY PlaceTypes DEF UsbInv, Books, PlacesApart
<1>4. /\ Range(DropQueuedAction(actions, {c.id})) \subseteq Range(actions)
      /\ Once(DropQueuedAction(actions, {c.id}))
  BY <1>3, DropFacts
<1>5. InFlight' \subseteq InFlight /\ completions' \subseteq Completed
  BY <1>1, InFlightForgets DEF Completed
<1> QED
  BY <1>1, <1>2, <1>3, <1>4, <1>5, DeviceBooks

\* A reset forgets everything.
LEMMA ResetBooks ==
    ASSUME UsbInv, ResetDevice, Range(backlog') \subseteq Range(backlog), Once(backlog'),
           UNCHANGED <<ran, toBroker, actionRing, queue, current, completionRing>>,
           MsgCompletions(toWorker') \subseteq MsgCompletions(toWorker)
    PROVE  Books'
<1>1. /\ actions' = <<>> /\ completions' = {} /\ inflight' = [p \in Pipes |-> None]
      /\ serial' = serial
  BY DEF ResetDevice
<1>2. InFlight' = {}
  BY <1>1 DEF InFlight
<1> QED
  BY <1>1, <1>2, EmptyOnce, DeviceBooks

LEMMA HandleBooks ==
    ASSUME UsbInv, NEW c \in Completed, HandleCompletion(c),
           UNCHANGED <<ran, toBroker, actionRing, queue, current, backlog>>,
           Range(completionRing') \subseteq Range(completionRing),
           MsgCompletions(toWorker') \subseteq MsgCompletions(toWorker)
    PROVE  Books'
<1>1. actions \in Seq(Action) /\ Once(actions) /\ Once(backlog)
  BY PlaceTypes DEF UsbInv, Books, PlacesApart
<1>2. /\ Range(DropQueuedAction(actions, {c.id})) \subseteq Range(actions)
      /\ Once(DropQueuedAction(actions, {c.id}))
  BY <1>1, DropFacts
<1>3. CASE c.id \in pending /\ c.id \in IdsOf(inflight)
  <2>1. /\ actions' = DropQueuedAction(actions, {c.id})
        /\ completions' = Without(completions, {c.id}) \cup {c}
        /\ UNCHANGED <<inflight, serial>>
    BY <1>3 DEF HandleCompletion, PushCompletion
  <2>2. InFlight' \subseteq InFlight /\ completions' \subseteq Completed
    BY <2>1 DEF InFlight, Completed, Without
  <2> QED
    BY <1>1, <1>2, <2>1, <2>2, DeviceBooks
<1>4. CASE ~(c.id \in pending /\ c.id \in IdsOf(inflight))
  <2>1. UNCHANGED <<actions, completions, inflight, serial>>
    BY <1>4 DEF HandleCompletion, PushCompletion, deviceVars
  <2>2. InFlight' \subseteq InFlight /\ completions' \subseteq Completed
    BY <2>1 DEF InFlight, Completed
  <2> QED
    BY <1>1, <2>1, <2>2, DeviceBooks
<1> QED
  BY <1>3, <1>4

LEMMA PollBooks == ASSUME UsbInv, Poll PROVE Books'
<1>1. PICK D, X, Y, Z :
        /\ Split(D, X, Y, Z)
        /\ backlog' = Z /\ toBroker' = toBroker \o ActionMessages(Y)
        /\ actionRing' = IF rings THEN actionRing \o X ELSE actionRing
        /\ \/ /\ D = backlog /\ actions' = actions
           \/ /\ backlog = <<>> /\ Range(D) \subseteq Range(actions)
              /\ Range(actions') \subseteq Range(actions)
              /\ Once(actions) => /\ Once(D) /\ Once(actions')
                                  /\ Range(D) \cap Range(actions') = {}
        /\ UNCHANGED <<completions, inflight, serial>>
  BY PollFacts DEF UsbInv
<1>2. UNCHANGED <<toWorker, completionRing, queue, current, ran>>
  BY DEF Poll, brokerVars
<1>3. PlacesApart /\ Ledger(Known, Waiting, Running, Completed, serial, ran) /\ TypeOK
  BY DEF UsbInv, Books
<1>4. /\ toBroker \in Seq(ToBroker) /\ actionRing \in Seq(Action)
      /\ X \in Seq(Action) /\ Y \in Seq(Action)
  BY <1>1, <1>3, PlaceTypes DEF Split
<1> DEFINE S == Range(actions) \cup Range(backlog)
<1>5. /\ Once(D) /\ Once(actions') /\ Range(D) \subseteq S /\ Range(actions') \subseteq Range(actions)
      /\ Range(D) \cap Range(actions') = {}
  <2>1. CASE D = backlog /\ actions' = actions
    BY <1>3, <2>1 DEF PlacesApart, Apart
  <2>2. CASE D # backlog \/ actions' # actions
    BY <1>1, <1>3, <2>2 DEF PlacesApart
  <2> QED
    BY <2>1, <2>2
<1>6. /\ Once(X) /\ Once(Y) /\ Once(Z)
      /\ Range(X) \subseteq Range(D) /\ Range(Y) \subseteq Range(D) /\ Range(Z) \subseteq Range(D)
      /\ Range(X) \cap Range(Y) = {} /\ Range(X) \cap Range(Z) = {} /\ Range(Y) \cap Range(Z) = {}
  BY <1>1, <1>5 DEF Split
<1>7. /\ S \cap MsgActions(toBroker) = {} /\ S \cap Range(actionRing) = {}
      /\ S \cap ItemActions(queue) = {}
      /\ MsgActions(toBroker) \cap Range(actionRing) = {}
      /\ MsgActions(toBroker) \cap ItemActions(queue) = {}
      /\ Range(actionRing) \cap ItemActions(queue) = {}
      /\ OnceSent(toBroker) /\ Once(actionRing) /\ OnceQueued(queue)
  BY <1>3 DEF PlacesApart, Apart
<1>8. Range(actions') \subseteq S
  BY <1>5
<1>9. MsgActions(toBroker') \subseteq MsgActions(toBroker) \cup Range(Y) /\ OnceSent(toBroker')
  <2>1. MsgActions(toBroker) \cap Range(Y) = {}
    BY <1>5, <1>6, <1>7
  <2> QED
    BY <1>1, <1>4, <1>6, <1>7, <2>1, MoreSent
<1>10. Range(actionRing') \subseteq Range(actionRing) \cup Range(X) /\ Once(actionRing')
  <2>1. Range(actionRing) \cap Range(X) = {}
    BY <1>5, <1>6, <1>7
  <2>2. Range(actionRing \o X) = Range(actionRing) \cup Range(X) /\ Once(actionRing \o X)
    BY <1>4, <1>6, <1>7, <2>1, ConcatOnce, RangeConcatenation
  <2> QED
    BY <1>1, <1>7, <2>2
<1>11. Range(X) \subseteq S /\ Range(Y) \subseteq S /\ Range(Z) \subseteq S
       /\ Range(X) \cap Range(actions') = {} /\ Range(Y) \cap Range(actions') = {}
       /\ Range(Z) \cap Range(actions') = {}
  BY <1>5, <1>6
<1>12. S \subseteq Waiting /\ Range(actionRing) \subseteq Waiting
       /\ MsgActions(toBroker) \subseteq Waiting /\ ItemActions(queue) \subseteq Waiting
  BY DEF Waiting
<1>13. backlog' = Z /\ queue' = queue
  BY <1>1, <1>2
<1> HIDE DEF S
<1>14. PlacesApart'
  <2>1. Apart(Range(actions'), Range(Z), MsgActions(toBroker'), Range(actionRing'), ItemActions(queue))
    BY <1>6, <1>7, <1>8, <1>9, <1>10, <1>11 DEF Apart
  <2> QED
    BY <1>5, <1>6, <1>7, <1>9, <1>10, <1>13, <2>1 DEF PlacesApart
<1>15. Waiting' \subseteq Waiting
  <2>1. Range(actions') \cup Range(Z) \cup MsgActions(toBroker') \cup Range(actionRing')
           \cup ItemActions(queue) \subseteq Waiting
    BY <1>8, <1>9, <1>10, <1>11, <1>12
  <2>2. Waiting' = Range(actions') \cup Range(Z) \cup MsgActions(toBroker') \cup Range(actionRing')
                      \cup ItemActions(queue)
    BY <1>13 DEF Waiting
  <2> QED
    BY <2>1, <2>2
<1>16. Running' = Running /\ InFlight' = InFlight /\ Completed' = Completed
  BY <1>1, <1>2 DEF Running, InFlight, Completed
<1>17. Known' \subseteq Known /\ Waiting' \cup Running' \subseteq Known'
  BY <1>15, <1>16 DEF Known
<1>18. Ledger(Known', Waiting', Running', Completed', serial, ran)
  BY <1>3, <1>15, <1>16, <1>17, LedgerLess
<1> QED
  BY <1>1, <1>2, <1>14, <1>18 DEF Books, Ledger

\* What the broker sends: what was on its way, and answers.
LEMMA ReplyCompleted ==
    ASSUME TypeOK, NEW before \in Seq(ToWorker), NEW its \in Seq(Item), NEW status \in Statuses,
           Reply(before, its, status), \A m \in Range(before) : m.type # "completion",
           completions' = completions
    PROVE  \A c \in Completed' : c \in Completed \/ \E a \in ItemActions(its) : c = AnswerTo(a, status)
<1>1. /\ \A i \in DOMAIN completionRing' :
            \/ completionRing'[i] \in Range(completionRing)
            \/ \E k \in DOMAIN its : completionRing'[i] = Answer(its[k], status)
      /\ \A i \in DOMAIN toWorker' :
            \/ toWorker'[i] \in Range(toWorker) \cup Range(before)
            \/ \E k \in DOMAIN its :
                  toWorker'[i] = [type |-> "completion", completion |-> Answer(its[k], status)]
  BY ReplyFacts
<1>2. \A k \in DOMAIN its : Answer(its[k], status) = AnswerTo(its[k].action, status)
                            /\ its[k].action \in ItemActions(its)
  BY DEF Answer, AnswerTo, ItemActions
<1>3. ASSUME NEW i \in DOMAIN completionRing'
      PROVE  \/ completionRing'[i] \in Completed
             \/ \E a \in ItemActions(its) : completionRing'[i] = AnswerTo(a, status)
  BY <1>1, <1>2 DEF Completed
<1>4. ASSUME NEW i \in DOMAIN toWorker', toWorker'[i].type = "completion"
      PROVE  \/ toWorker'[i].completion \in Completed
             \/ \E a \in ItemActions(its) : toWorker'[i].completion = AnswerTo(a, status)
  <2>1. CASE toWorker'[i] \in Range(toWorker)
    BY <1>4, <2>1 DEF Completed, MsgCompletions, Range
  <2>2. CASE \E k \in DOMAIN its :
                toWorker'[i] = [type |-> "completion", completion |-> Answer(its[k], status)]
    BY <1>2, <2>2
  <2> QED
    BY <1>1, <1>4, <2>1, <2>2
<1> QED
  BY <1>3, <1>4 DEF Completed, Range, MsgCompletions

\* ran after the items its were answered.
LEMMA AnsweredFacts ==
    ASSUME TypeOK, NEW its \in Seq(Item), NEW status
    PROVE  \A s \in 1 .. MaxTransfers :
              Answered(its, status)[s] =
                IF \E a \in ItemActions(its) : a.serial = s THEN status ELSE ran[s]
<1>1. DOMAIN ran = 1 .. MaxTransfers
  BY PlaceTypes
<1> QED
  BY <1>1 DEF Answered, ItemActions

LEMMA OneItemActions == ASSUME NEW it \in Item PROVE ItemActions(<<it>>) = {it.action}
  BY OneItem DEF ItemActions

\* The same two facts about the state before and after a step.
LEMMA StartedLedger ==
    ASSUME Ledger(Known, Waiting, Running, Completed, serial, ran), Running = {},
           serial \in 0 .. MaxTransfers, NEW a \in Waiting,
           Waiting' \subseteq Waiting \ {a}, Running' \subseteq {a}, Known' \subseteq Known,
           Completed' \subseteq Completed, Waiting' \cup Running' \subseteq Known',
           \A s \in 1 .. MaxTransfers : ran'[s] = IF s = a.serial THEN "yes" ELSE ran[s]
    PROVE  Ledger(Known', Waiting', Running', Completed', serial, ran')
<1>1. PICK K, W, R, C, n, f, K2, W2, R2, C2, g :
        /\ K = Known /\ W = Waiting /\ R = Running /\ C = Completed /\ n = serial /\ f = ran
        /\ K2 = Known' /\ W2 = Waiting' /\ R2 = Running' /\ C2 = Completed' /\ g = ran'
  OBVIOUS
<1>2. /\ Ledger(K, W, R, C, n, f) /\ R = {} /\ n \in 0 .. MaxTransfers /\ a \in W
      /\ W2 \subseteq W \ {a} /\ R2 \subseteq {a} /\ K2 \subseteq K /\ C2 \subseteq C
      /\ W2 \cup R2 \subseteq K2
  BY <1>1
<1>3. \A s \in 1 .. MaxTransfers : g[s] = IF s = a.serial THEN "yes" ELSE f[s]
  BY <1>1
<1>4. Ledger(K2, W2, R2, C2, n, g)
  BY ONLY <1>2, <1>3, LedgerStart
<1> QED
  BY <1>1, <1>4

\* A step answers the actions in F, and no others.
AnswersOnly(F, status) ==
    /\ F \subseteq Waiting \cup Running
    /\ Waiting' \subseteq Waiting \ F /\ Running' \subseteq Running \ F
    /\ \A s \in 1 .. MaxTransfers :
          ran'[s] = IF \E a \in F : a.serial = s THEN status ELSE ran[s]
    /\ \A c \in Completed' : c \in Completed \/ \E a \in F : c = AnswerTo(a, status)

LEMMA AnsweredLedger ==
    ASSUME Ledger(Known, Waiting, Running, Completed, serial, ran),
           serial \in 0 .. MaxTransfers, NEW F, NEW status \in Statuses,
           AnswersOnly(F, status), Known' \subseteq Known, Waiting' \cup Running' \subseteq Known'
    PROVE  Ledger(Known', Waiting', Running', Completed', serial, ran')
<1>1. PICK K, W, R, C, n, f, K2, W2, R2, C2, g :
        /\ K = Known /\ W = Waiting /\ R = Running /\ C = Completed /\ n = serial /\ f = ran
        /\ K2 = Known' /\ W2 = Waiting' /\ R2 = Running' /\ C2 = Completed' /\ g = ran'
  OBVIOUS
<1>2. /\ Ledger(K, W, R, C, n, f) /\ n \in 0 .. MaxTransfers /\ F \subseteq W \cup R
      /\ W2 \subseteq W \ F /\ R2 \subseteq R \ F /\ K2 \subseteq K /\ W2 \cup R2 \subseteq K2
  BY <1>1 DEF AnswersOnly
<1>3. \A s \in 1 .. MaxTransfers : g[s] = IF \E a \in F : a.serial = s THEN status ELSE f[s]
  BY <1>1 DEF AnswersOnly
<1>4. \A c \in C2 : c \in C \/ \E a \in F : c = AnswerTo(a, status)
  BY <1>1 DEF AnswersOnly
<1>5. Ledger(K2, W2, R2, C2, n, g)
  BY ONLY status \in Statuses, <1>2, <1>3, <1>4, LedgerAnswer
<1> QED
  BY <1>1, <1>5

\* What a step does to ran: an answer stays, and only what waits is started.
AnswersStay == \A s \in 1 .. MaxTransfers : ran[s] \in Statuses => ran'[s] = ran[s]
StartsWaiting == current' # None /\ (current = None \/ current'.action # current.action)
                    => ran[current'.action.serial] = "no"
RunsOnce == AnswersStay /\ StartsWaiting

LEMMA StartedStays ==
    ASSUME Ledger(Known, Waiting, Running, Completed, serial, ran), NEW a \in Waiting,
           \A s \in 1 .. MaxTransfers : ran'[s] = IF s = a.serial THEN "yes" ELSE ran[s]
    PROVE  AnswersStay
  BY DEF AnswersStay, Ledger, Statuses

LEMMA AnsweredStays ==
    ASSUME Ledger(Known, Waiting, Running, Completed, serial, ran), NEW F, NEW status,
           AnswersOnly(F, status)
    PROVE  AnswersStay
<1>1. \A a \in F : ran[a.serial] \notin Statuses
  BY DEF AnswersOnly, Ledger, Statuses
<1> QED
  BY <1>1 DEF AnswersOnly, AnswersStay

\* An action arrives at the broker and is started, queued or refused.
LEMMA ArrivalBooks ==
    ASSUME UsbInv, NEW it \in Item, it.action \in Waiting,
           it.action \notin Range(actions), it.action \notin Range(backlog),
           it.action \notin ItemActions(queue), it.action \notin MsgActions(toBroker'),
           it.action \notin Range(actionRing'),
           MsgActions(toBroker') \subseteq MsgActions(toBroker), OnceSent(toBroker'),
           Range(actionRing') \subseteq Range(actionRing), Once(actionRing'),
           UNCHANGED <<actions, backlog, completions, inflight, serial>>,
           \/ Enqueue(it) /\ UNCHANGED <<toWorker, completionRing>>
           \/ /\ Reply(<<>>, <<it>>, "error") /\ ran' = Answered(<<it>>, "error")
              /\ UNCHANGED <<queue, current>>
    PROVE  Books' /\ RunsOnce
<1> DEFINE a == it.action
<1>1. PlacesApart /\ Ledger(Known, Waiting, Running, Completed, serial, ran) /\ TypeOK
  BY DEF UsbInv, Books
<1>2. /\ queue \in Seq(Item) /\ serial \in 0 .. MaxTransfers /\ DOMAIN ran = 1 .. MaxTransfers
  BY <1>1, PlaceTypes
<1>3. InFlight' = InFlight
  BY DEF InFlight
<1>4. CASE Enqueue(it) /\ UNCHANGED <<toWorker, completionRing>> /\ current = None
  <2>1. current' = it /\ ran' = Started(it) /\ queue' = queue
    BY <1>4 DEF Enqueue
  <2>2. Running = {} /\ Running' \subseteq {a}
    BY <1>4, <2>1 DEF Running
  <2>3. Waiting' \subseteq Waiting \ {a}
    BY <2>1 DEF Waiting
  <2>4. Known' \subseteq Known /\ Waiting' \cup Running' \subseteq Known'
    BY <1>3, <2>2, <2>3 DEF Known
  <2>5. Completed' \subseteq Completed
    BY <1>4 DEF Completed
  <2>6. \A s \in 1 .. MaxTransfers : ran'[s] = IF s = a.serial THEN "yes" ELSE ran[s]
    BY <1>2, <2>1 DEF Started
  <2>7. PlacesApart'
    BY <1>1, <2>1 DEF PlacesApart, Apart
  <2> HIDE DEF a
  <2>8. a \in Waiting
    BY DEF a
  <2>9. Ledger(Known', Waiting', Running', Completed', serial, ran')
    BY <1>1, <1>2, <2>2, <2>3, <2>4, <2>5, <2>6, <2>8, StartedLedger
  <2>10. AnswersStay
    BY <1>1, <2>6, <2>8, StartedStays
  <2>11. StartsWaiting
    <3>1. current'.action \in Waiting
      BY <2>1
    <3> QED
      BY <1>1, <3>1 DEF StartsWaiting, Ledger
  <2> QED
    BY <2>7, <2>9, <2>10, <2>11 DEF Books, Ledger, RunsOnce
<1>5. CASE Enqueue(it) /\ UNCHANGED <<toWorker, completionRing>> /\ current # None
  <2>1. queue' = Append(queue, it) /\ UNCHANGED <<current, ran>>
    BY <1>5 DEF Enqueue
  <2>2. ItemActions(queue') \subseteq ItemActions(queue) \cup {a} /\ OnceQueued(queue')
    BY <1>1, <1>2, <2>1, MoreQueued DEF PlacesApart
  <2>3. Waiting' \subseteq Waiting /\ Running' = Running /\ Completed' = Completed
    BY <1>5, <2>1, <2>2 DEF Waiting, Running, Completed
  <2>4. Known' \subseteq Known /\ Waiting' \cup Running' \subseteq Known'
    BY <1>3, <2>3 DEF Known
  <2>5. PlacesApart'
    BY <1>1, <2>2 DEF PlacesApart, Apart
  <2>6. Ledger(Known', Waiting', Running', Completed', serial, ran)
    BY <1>1, <2>3, <2>4, LedgerLess
  <2>7. RunsOnce
    BY <2>1 DEF RunsOnce, AnswersStay, StartsWaiting
  <2> QED
    BY <2>1, <2>5, <2>6, <2>7 DEF Books, Ledger
<1>6. CASE /\ Reply(<<>>, <<it>>, "error") /\ ran' = Answered(<<it>>, "error")
           /\ UNCHANGED <<queue, current>>
  <2>1. /\ <<it>> \in Seq(Item) /\ <<>> \in Seq(ToWorker) /\ "error" \in Statuses
        /\ ItemActions(<<it>>) = {a} /\ Range(<<>>) = {}
    BY OneItem, OneItemActions, EmptySeq, StatusesType, EmptyOnce
  <2>a. PICK its \in Seq(Item), none \in Seq(ToWorker) : its = <<it>> /\ none = <<>>
    BY <2>1
  <2>b. ItemActions(its) = {a} /\ Reply(none, its, "error") /\ \A m \in Range(none) : m.type # "completion"
    BY <1>6, <2>1, <2>a
  <2>c. ran' = Answered(its, "error")
    BY <1>6, <2>a
  <2>2. \A c \in Completed' : c \in Completed \/ \E b \in {a} : c = AnswerTo(b, "error")
    <3>1. \A c \in Completed' : c \in Completed \/ \E b \in ItemActions(its) : c = AnswerTo(b, "error")
      BY <1>1, <2>1, <2>b, ReplyCompleted
    <3> QED
      BY <2>b, <3>1
  <2>3. \A s \in 1 .. MaxTransfers :
           ran'[s] = IF \E b \in {a} : b.serial = s THEN "error" ELSE ran[s]
    <3>1. \A s \in 1 .. MaxTransfers : Answered(its, "error")[s] =
                IF \E b \in ItemActions(its) : b.serial = s THEN "error" ELSE ran[s]
      BY <1>1, AnsweredFacts
    <3> QED
      BY <2>b, <2>c, <3>1
  <2>4. Waiting' \subseteq Waiting \ {a}
    BY <1>6 DEF Waiting
  <2>5. a \notin Running
    BY <1>1 DEF Ledger
  <2>6. Running' = Running
    BY <1>6 DEF Running
  <2>7. Known' \subseteq Known /\ Waiting' \cup Running' \subseteq Known'
    BY <1>3, <2>4, <2>6 DEF Known
  <2>8. PlacesApart'
    BY <1>1, <1>6 DEF PlacesApart, Apart
  <2>e. PICK F : F = {a}
    OBVIOUS
  <2>9. F \subseteq Waiting \cup Running /\ Waiting' \subseteq Waiting \ F /\ Running' \subseteq Running \ F
    BY <2>4, <2>5, <2>6, <2>e
  <2>d. PICK status \in Statuses : status = "error"
    BY <2>1
  <2>10. AnswersOnly(F, status)
    BY <2>2, <2>3, <2>9, <2>d, <2>e DEF AnswersOnly
  <2> HIDE DEF a
  <2>11. Ledger(Known', Waiting', Running', Completed', serial, ran')
    BY <1>1, <1>2, <2>7, <2>10, AnsweredLedger
  <2>12. AnswersStay
    BY <1>1, <2>10, AnsweredStays
  <2>13. StartsWaiting
    BY <1>6 DEF StartsWaiting
  <2> QED
    BY <2>8, <2>11, <2>12, <2>13 DEF Books, Ledger, RunsOnce
<1> QED
  BY <1>4, <1>5, <1>6

LEMMA ReceiveActionBooks == ASSUME UsbInv, BrokerReceiveAction PROVE Books' /\ RunsOnce
<1> DEFINE it == [action |-> Head(toBroker).action, ring |-> FALSE, deaf |-> FALSE]
<1>1. /\ toBroker # <<>> /\ Head(toBroker).type = "action" /\ toBroker' = Tail(toBroker)
      /\ \/ Enqueue(it) /\ UNCHANGED <<toWorker, completionRing>>
         \/ /\ Reply(<<>>, <<it>>, "error") /\ ran' = Answered(<<it>>, "error")
            /\ UNCHANGED <<queue, current>>
      /\ UNCHANGED <<actions, backlog, completions, inflight, serial, actionRing>>
  BY DEF BrokerReceiveAction, deviceVars, workerVars
<1>2. TypeOK /\ PlacesApart
  BY DEF UsbInv, Books
<1>3. it \in Item /\ it.action = Head(toBroker).action
  BY <1>1, <1>2, ArrivingAction DEF Item
<1> HIDE DEF it
<1>4. /\ MsgActions(toBroker') \subseteq MsgActions(toBroker) /\ OnceSent(toBroker')
      /\ it.action \in MsgActions(toBroker) /\ it.action \notin MsgActions(toBroker')
  BY <1>1, <1>2, <1>3, PlaceTypes, TailSent DEF PlacesApart
<1>5. /\ it.action \in Waiting
      /\ it.action \notin Range(actions) /\ it.action \notin Range(backlog)
      /\ it.action \notin ItemActions(queue) /\ it.action \notin Range(actionRing')
  BY <1>1, <1>2, <1>4 DEF Waiting, PlacesApart, Apart
<1>6. Range(actionRing') \subseteq Range(actionRing) /\ Once(actionRing')
  BY <1>1, <1>2 DEF PlacesApart
<1> QED
  BY <1>1, <1>3, <1>4, <1>5, <1>6, ArrivalBooks

LEMMA DrainRingBooks == ASSUME UsbInv, DrainActionRing PROVE Books' /\ RunsOnce
<1> DEFINE it == [action |-> Head(actionRing), ring |-> TRUE, deaf |-> FALSE]
<1>1. /\ actionRing # <<>> /\ actionRing' = Tail(actionRing)
      /\ \/ Enqueue(it) /\ UNCHANGED <<toWorker, completionRing>>
         \/ /\ Reply(<<>>, <<it>>, "error") /\ ran' = Answered(<<it>>, "error")
            /\ UNCHANGED <<queue, current>>
      /\ UNCHANGED <<actions, backlog, completions, inflight, serial, toBroker>>
  BY DEF DrainActionRing, deviceVars, workerVars
<1>2. TypeOK /\ PlacesApart
  BY DEF UsbInv, Books
<1>3. it \in Item /\ it.action = Head(actionRing)
  BY <1>1, <1>2, PlaceTypes, TailType DEF Item
<1> HIDE DEF it
<1>4. /\ Range(actionRing') \subseteq Range(actionRing) /\ Once(actionRing')
      /\ it.action \in Range(actionRing) /\ it.action \notin Range(actionRing')
  BY <1>1, <1>2, <1>3, PlaceTypes, TailOnce DEF PlacesApart
<1>5. /\ it.action \in Waiting
      /\ it.action \notin Range(actions) /\ it.action \notin Range(backlog)
      /\ it.action \notin ItemActions(queue) /\ it.action \notin MsgActions(toBroker')
  BY <1>1, <1>2, <1>4 DEF Waiting, PlacesApart, Apart
<1>6. MsgActions(toBroker') \subseteq MsgActions(toBroker) /\ OnceSent(toBroker')
  BY <1>1, <1>2 DEF PlacesApart
<1> QED
  BY <1>1, <1>3, <1>4, <1>5, <1>6, ArrivalBooks

-----------------------------------------------------------------------------
(* The broker answers what it has executed *)

\* a is answered and the broker starts to execute b.
LEMMA LedgerNext ==
    ASSUME NEW K, NEW W, NEW R, NEW C, NEW n \in 0 .. MaxTransfers, NEW f,
           Ledger(K, W, R, C, n, f),
           NEW K2, NEW W2, NEW R2, NEW C2, NEW a, NEW b \in W, NEW status \in Statuses, NEW g,
           R = {a}, W2 \subseteq W \ {b}, R2 \subseteq {b}, K2 \subseteq K, W2 \cup R2 \subseteq K2,
           \A s \in 1 .. MaxTransfers :
              g[s] = IF s = b.serial THEN "yes" ELSE IF s = a.serial THEN status ELSE f[s],
           \A c \in C2 : c \in C \/ c = AnswerTo(a, status)
    PROVE  Ledger(K2, W2, R2, C2, n, g)
<1>1. PICK F, E : F = {a} /\ E = {}
  OBVIOUS
<1>2. PICK h : h = [s \in 1 .. MaxTransfers |-> IF s = a.serial THEN status ELSE f[s]]
  OBVIOUS
<1>3. \A s \in 1 .. MaxTransfers : h[s] = IF \E d \in F : d.serial = s THEN status ELSE f[s]
  BY <1>1, <1>2
<1>4. \A c \in C2 : c \in C \/ \E d \in F : c = AnswerTo(d, status)
  BY <1>1
<1>5. a \notin W
  BY DEF Ledger
<1>6. /\ F \subseteq W \cup R /\ W \subseteq W \ F /\ E \subseteq R \ F /\ K \subseteq K
      /\ W \cup E \subseteq K
  BY <1>1, <1>5 DEF Ledger
<1>7. Ledger(K, W, E, C2, n, h)
  BY ONLY Ledger(K, W, R, C, n, f), n \in 0 .. MaxTransfers, status \in Statuses,
          <1>3, <1>4, <1>6, LedgerAnswer
<1>8. \A s \in 1 .. MaxTransfers : g[s] = IF s = b.serial THEN "yes" ELSE h[s]
  BY <1>2
<1>9. C2 \subseteq C2 /\ E = {} /\ W2 \subseteq W \ {b} /\ R2 \subseteq {b}
      /\ K2 \subseteq K /\ W2 \cup R2 \subseteq K2
  BY <1>1
<1> QED
  BY ONLY b \in W, n \in 0 .. MaxTransfers, <1>7, <1>8, <1>9, LedgerStart

\* A step answers a, and starts to execute b.
ServesNext(a, b, status) ==
    /\ Running = {a} /\ b \in Waiting
    /\ Waiting' \subseteq Waiting \ {b} /\ Running' \subseteq {b}
    /\ \A s \in 1 .. MaxTransfers :
          ran'[s] = IF s = b.serial THEN "yes" ELSE IF s = a.serial THEN status ELSE ran[s]
    /\ \A c \in Completed' : c \in Completed \/ c = AnswerTo(a, status)

LEMMA NextLedger ==
    ASSUME Ledger(Known, Waiting, Running, Completed, serial, ran),
           serial \in 0 .. MaxTransfers, NEW a, NEW b, NEW status \in Statuses,
           ServesNext(a, b, status), Known' \subseteq Known, Waiting' \cup Running' \subseteq Known'
    PROVE  Ledger(Known', Waiting', Running', Completed', serial, ran')
<1>1. PICK K, W, R, C, n, f, K2, W2, R2, C2, g :
        /\ K = Known /\ W = Waiting /\ R = Running /\ C = Completed /\ n = serial /\ f = ran
        /\ K2 = Known' /\ W2 = Waiting' /\ R2 = Running' /\ C2 = Completed' /\ g = ran'
  OBVIOUS
<1>2. /\ Ledger(K, W, R, C, n, f) /\ n \in 0 .. MaxTransfers /\ R = {a} /\ b \in W
      /\ W2 \subseteq W \ {b} /\ R2 \subseteq {b} /\ K2 \subseteq K /\ W2 \cup R2 \subseteq K2
  BY <1>1 DEF ServesNext
<1>3. \A s \in 1 .. MaxTransfers :
         g[s] = IF s = b.serial THEN "yes" ELSE IF s = a.serial THEN status ELSE f[s]
  BY <1>1 DEF ServesNext
<1>4. \A c \in C2 : c \in C \/ c = AnswerTo(a, status)
  BY <1>1 DEF ServesNext
<1>5. Ledger(K2, W2, R2, C2, n, g)
  BY ONLY status \in Statuses, <1>2, <1>3, <1>4, LedgerNext
<1> QED
  BY <1>1, <1>5

LEMMA NextStays ==
    ASSUME Ledger(Known, Waiting, Running, Completed, serial, ran), NEW a, NEW b, NEW status,
           ServesNext(a, b, status)
    PROVE  AnswersStay
<1>1. ran[a.serial] \notin Statuses /\ ran[b.serial] \notin Statuses
  BY DEF ServesNext, Ledger, Statuses
<1> QED
  BY <1>1 DEF ServesNext, AnswersStay

LEMMA BackendBooks == ASSUME UsbInv, BackendDone PROVE Books' /\ RunsOnce
<1>1. PICK status \in Results :
        /\ Reply(<<>>, <<current>>, status)
        /\ current' = IF queue = <<>> THEN None ELSE Head(queue)
        /\ queue' = Rest(queue, 1)
        /\ ran' = [s \in DOMAIN ran |->
                    IF queue # <<>> /\ s = Head(queue).action.serial
                    THEN "yes" ELSE Answered(<<current>>, status)[s]]
  BY DEF BackendDone
<1>2. /\ current # None
      /\ UNCHANGED <<actions, backlog, toBroker, actionRing, completions, inflight, serial>>
  BY DEF BackendDone, deviceVars, workerVars
<1>3. PlacesApart /\ Ledger(Known, Waiting, Running, Completed, serial, ran) /\ TypeOK
  BY DEF UsbInv, Books
<1>4. /\ queue \in Seq(Item) /\ serial \in 0 .. MaxTransfers /\ DOMAIN ran = 1 .. MaxTransfers
      /\ current \in Item /\ status \in Statuses
  BY <1>2, <1>3, PlaceTypes, StatusesType
<1>5. PICK a : a = current.action
  OBVIOUS
<1>6. PICK its \in Seq(Item), none \in Seq(ToWorker) : its = <<current>> /\ none = <<>>
  BY <1>4, OneItem, EmptySeq
<1>7. /\ ItemActions(its) = {a} /\ Reply(none, its, status)
      /\ \A m \in Range(none) : m.type # "completion"
  BY <1>1, <1>4, <1>5, <1>6, OneItemActions, EmptyOnce
<1>8. \A c \in Completed' : c \in Completed \/ c = AnswerTo(a, status)
  <2>1. \A c \in Completed' : c \in Completed \/ \E b \in ItemActions(its) : c = AnswerTo(b, status)
    BY <1>2, <1>3, <1>4, <1>7, ReplyCompleted
  <2> QED
    BY <1>7, <2>1
<1>9. \A s \in 1 .. MaxTransfers :
         Answered(<<current>>, status)[s] = IF s = a.serial THEN status ELSE ran[s]
  <2>1. \A s \in 1 .. MaxTransfers : Answered(its, status)[s] =
              IF \E b \in ItemActions(its) : b.serial = s THEN status ELSE ran[s]
    BY <1>3, AnsweredFacts
  <2>2. \A s \in 1 .. MaxTransfers : Answered(its, status)[s] = IF s = a.serial THEN status ELSE ran[s]
    BY <1>7, <2>1
  <2> QED
    BY <1>6, <2>2
<1>10. /\ ItemActions(queue') \subseteq ItemActions(queue) /\ OnceQueued(queue')
       /\ queue # <<>> => /\ Head(queue) \in Item /\ Head(queue).action \in ItemActions(queue)
                          /\ Head(queue).action \notin ItemActions(queue')
  BY <1>1, <1>3, <1>4, NextQueued DEF PlacesApart
<1>11. PlacesApart'
  BY <1>2, <1>3, <1>10 DEF PlacesApart, Apart
<1>12. InFlight' = InFlight /\ Running = {a}
  BY <1>2, <1>5 DEF InFlight, Running
<1>13. CASE queue = <<>>
  <2>1. Running' = {} /\ Waiting' \subseteq Waiting
    BY <1>1, <1>2, <1>10, <1>13 DEF Running, Waiting
  <2>2. PICK F : F = {a}
    OBVIOUS
  <2>3. a \notin Waiting
    BY <1>3, <1>12 DEF Ledger
  <2>4. \A s \in 1 .. MaxTransfers :
           ran'[s] = IF \E b \in F : b.serial = s THEN status ELSE ran[s]
    BY <1>1, <1>4, <1>9, <1>13, <2>2
  <2>5. AnswersOnly(F, status)
    BY <1>8, <1>12, <2>1, <2>2, <2>3, <2>4 DEF AnswersOnly
  <2>6. Known' \subseteq Known /\ Waiting' \cup Running' \subseteq Known'
    BY <1>12, <2>1 DEF Known
  <2>7. Ledger(Known', Waiting', Running', Completed', serial, ran')
    BY <1>3, <1>4, <2>5, <2>6, AnsweredLedger
  <2>8. AnswersStay
    BY <1>3, <2>5, AnsweredStays
  <2>9. StartsWaiting
    BY <1>1, <1>13 DEF StartsWaiting
  <2> QED
    BY <1>2, <1>11, <2>7, <2>8, <2>9 DEF Books, Ledger, RunsOnce
<1>14. CASE queue # <<>>
  <2>1. PICK b : b = Head(queue).action
    OBVIOUS
  <2>2. /\ b \in ItemActions(queue) /\ b \notin ItemActions(queue') /\ current' = Head(queue)
        /\ Head(queue) # None
    BY <1>1, <1>10, <1>14, <2>1, NoneAssumption
  <2>3. Running' = {b}
    BY <2>1, <2>2 DEF Running
  <2>4. Waiting' \subseteq Waiting \ {b} /\ b \in Waiting
    BY <1>2, <1>3, <1>10, <2>2 DEF Waiting, PlacesApart, Apart
  <2>5. \A s \in 1 .. MaxTransfers :
           ran'[s] = IF s = b.serial THEN "yes" ELSE IF s = a.serial THEN status ELSE ran[s]
    BY <1>1, <1>4, <1>9, <1>14, <2>1
  <2>6. ServesNext(a, b, status)
    BY <1>8, <1>12, <2>3, <2>4, <2>5 DEF ServesNext
  <2>7. Known' \subseteq Known /\ Waiting' \cup Running' \subseteq Known'
    BY <1>12, <2>3, <2>4 DEF Known
  <2>8. Ledger(Known', Waiting', Running', Completed', serial, ran')
    BY <1>3, <1>4, <2>6, <2>7, NextLedger
  <2>9. AnswersStay
    BY <1>3, <2>6, NextStays
  <2>10. StartsWaiting
    <3>1. current'.action \in Waiting
      BY <2>1, <2>2, <2>4
    <3> QED
      BY <1>3, <3>1 DEF StartsWaiting, Ledger
  <2> QED
    BY <1>2, <1>11, <2>8, <2>9, <2>10 DEF Books, Ledger, RunsOnce
<1> QED
  BY <1>13, <1>14

\* resetSelectedDevice fails what it fails: nothing of it is left.
LEMMA ResetSelectedBooks ==
    ASSUME UsbInv, NEW broadcast \in Seq(ToWorker), ResetSelectedDevice(broadcast),
           \A m \in Range(broadcast) : m.type # "completion"
    PROVE  Books' /\ RunsOnce
<1>1. /\ Reply(broadcast, Failing, "error")
      /\ ran' = Answered(Failing, "error")
      /\ queue' = <<>>
      /\ current' = IF current # None /\ ~current.deaf THEN None ELSE current
      /\ UNCHANGED <<actions, backlog, toBroker, actionRing, completions, inflight, serial>>
  BY DEF ResetSelectedDevice, Failing, deviceVars, workerVars
<1>2. PlacesApart /\ Ledger(Known, Waiting, Running, Completed, serial, ran) /\ TypeOK
  BY DEF UsbInv, Books
<1>3. /\ queue \in Seq(Item) /\ serial \in 0 .. MaxTransfers /\ DOMAIN ran = 1 .. MaxTransfers
      /\ current \in Item \cup {None}
  BY <1>2, PlaceTypes
<1>4. PICK its \in Seq(Item) :
        /\ its = Failing
        /\ Range(its) = Range(queue) \cup
             (IF current # None /\ ~current.deaf THEN {current} ELSE {})
  BY <1>2, FailingFacts
<1>5. PICK status \in Statuses : status = "error"
  BY StatusesType
<1>6. Reply(broadcast, its, status) /\ ran' = Answered(its, status)
  BY <1>1, <1>4, <1>5
<1>7. PICK F : F = ItemActions(its)
  OBVIOUS
<1>8. /\ \A c \in Completed' : c \in Completed \/ \E b \in F : c = AnswerTo(b, status)
      /\ \A s \in 1 .. MaxTransfers :
            ran'[s] = IF \E b \in F : b.serial = s THEN status ELSE ran[s]
  <2>1. \A c \in Completed' : c \in Completed \/ \E b \in ItemActions(its) : c = AnswerTo(b, status)
    BY <1>1, <1>2, <1>6, ReplyCompleted
  <2>2. \A s \in 1 .. MaxTransfers : Answered(its, status)[s] =
              IF \E b \in ItemActions(its) : b.serial = s THEN status ELSE ran[s]
    BY <1>2, AnsweredFacts
  <2> QED
    BY <1>6, <1>7, <2>1, <2>2
<1>9. F = ItemActions(queue) \cup (IF current # None /\ ~current.deaf THEN {current.action} ELSE {})
  <2>1. F = {it.action : it \in Range(its)} /\ ItemActions(queue) = {it.action : it \in Range(queue)}
    BY <1>7 DEF ItemActions, Range
  <2> QED
    BY <1>4, <2>1
<1>10. Waiting \cap Running = {}
  BY <1>2 DEF Ledger
<1>11. ItemActions(queue') = {} /\ OnceQueued(queue')
  BY <1>1, EmptyOnce
<1>12. /\ F \subseteq Waiting \cup Running
       /\ Waiting' \subseteq Waiting /\ Waiting' \cap ItemActions(queue) = {}
  BY <1>1, <1>2, <1>9, <1>11 DEF Waiting, Running, PlacesApart, Apart
<1>13. Running' \subseteq Running \ F
  <2>1. CASE current # None /\ ~current.deaf
    BY <1>1, <2>1 DEF Running
  <2>2. CASE ~(current # None /\ ~current.deaf)
    <3>1. current' = current /\ F = ItemActions(queue)
      BY <1>1, <1>9, <2>2
    <3> QED
      BY <1>10, <3>1 DEF Running, Waiting
  <2> QED
    BY <2>1, <2>2
<1>14. Waiting' \subseteq Waiting \ F
  <2>1. F \subseteq ItemActions(queue) \cup Running
    BY <1>9 DEF Running
  <2> QED
    BY <1>10, <1>12, <2>1
<1>15. AnswersOnly(F, status)
  BY <1>8, <1>12, <1>13, <1>14 DEF AnswersOnly
<1>16. InFlight' = InFlight
  BY <1>1 DEF InFlight
<1>17. Known' \subseteq Known /\ Waiting' \cup Running' \subseteq Known'
  BY <1>12, <1>13, <1>16 DEF Known
<1>18. Ledger(Known', Waiting', Running', Completed', serial, ran')
  BY <1>2, <1>3, <1>15, <1>17, AnsweredLedger
<1>19. PlacesApart'
  BY <1>1, <1>2, <1>11 DEF PlacesApart, Apart
<1>20. AnswersStay
  BY <1>2, <1>15, AnsweredStays
<1>21. StartsWaiting
  BY <1>1 DEF StartsWaiting
<1> QED
  BY <1>1, <1>18, <1>19, <1>20, <1>21 DEF Books, Ledger, RunsOnce

\* A message that is no completion.
LEMMA SelectedPosted ==
    ASSUME TypeOK, NEW ok \in BOOLEAN
    PROVE  MsgCompletions(toWorker \o Selected(ok)) \subseteq MsgCompletions(toWorker)
<1>1. PICK m \in ToWorker : m = [type |-> "selected", ok |-> ok]
  BY DEF ToWorker
<1>2. m.type # "completion" /\ toWorker \in Seq(ToWorker)
  BY <1>1, PlaceTypes
<1>3. toWorker \o Selected(ok) = Append(toWorker, m)
  BY <1>1, <1>2 DEF Selected
<1> QED
  BY <1>2, <1>3, MorePosted

LEMMA SelectedBroadcast ==
    ASSUME NEW ok \in BOOLEAN
    PROVE  Selected(ok) \in Seq(ToWorker) /\ \A m \in Range(Selected(ok)) : m.type # "completion"
  BY SelectedType

LEMMA DetachPosted ==
    ASSUME TypeOK
    PROVE  MsgCompletions(Append(toWorker, [type |-> "ringDetach"])) \subseteq MsgCompletions(toWorker)
<1>1. PICK m \in ToWorker : m = [type |-> "ringDetach"]
  BY DEF ToWorker
<1>2. m.type # "completion" /\ toWorker \in Seq(ToWorker)
  BY <1>1, PlaceTypes
<1> QED
  BY <1>1, <1>2, MorePosted

LEMMA ReceiveCompletionBooks == ASSUME UsbInv, ReceiveCompletion PROVE Books'
<1>1. /\ toWorker # <<>> /\ Head(toWorker).type = "completion" /\ toWorker' = Tail(toWorker)
      /\ HandleCompletion(Head(toWorker).completion)
      /\ UNCHANGED <<ran, toBroker, actionRing, queue, current, backlog, completionRing>>
  BY DEF ReceiveCompletion, brokerVars
<1>2. /\ MsgCompletions(toWorker') \subseteq MsgCompletions(toWorker)
      /\ Head(toWorker).completion \in MsgCompletions(toWorker)
  BY <1>1, PlaceTypes, FewerPosted DEF UsbInv
<1>3. PICK c \in Completed : c = Head(toWorker).completion
  BY <1>2 DEF Completed
<1>4. HandleCompletion(c) /\ Range(completionRing') \subseteq Range(completionRing)
  BY <1>1, <1>3
<1> QED
  BY <1>1, <1>2, <1>4, HandleBooks

LEMMA PopCompletionBooks == ASSUME UsbInv, PopCompletion PROVE Books'
<1>1. /\ completionRing # <<>> /\ completionRing' = Tail(completionRing)
      /\ HandleCompletion(Head(completionRing))
      /\ UNCHANGED <<ran, toBroker, actionRing, queue, current, backlog, toWorker>>
  BY DEF PopCompletion, brokerVars
<1>2. /\ Range(completionRing') \subseteq Range(completionRing)
      /\ Head(completionRing) \in Range(completionRing)
  BY <1>1, PlaceTypes, TailOnce DEF UsbInv
<1>3. PICK c \in Completed : c = Head(completionRing)
  BY <1>2 DEF Completed
<1>4. HandleCompletion(c) /\ MsgCompletions(toWorker') \subseteq MsgCompletions(toWorker)
  BY <1>1, <1>3
<1> QED
  BY <1>1, <1>2, <1>4, HandleBooks

\* CancelAll, or nothing.
LEMMA CancelBooks ==
    ASSUME UsbInv, CancelAll \/ UNCHANGED <<backlog, deviceVars>>,
           UNCHANGED <<ran, toBroker, actionRing, queue, current, completionRing>>,
           MsgCompletions(toWorker') \subseteq MsgCompletions(toWorker)
    PROVE  Books'
<1>1. CASE CancelAll
  <2>1. ResetDevice /\ Range(backlog') \subseteq Range(backlog) /\ Once(backlog')
    BY <1>1, EmptyOnce DEF CancelAll
  <2> QED
    BY <2>1, ResetBooks
<1>2. CASE UNCHANGED <<backlog, deviceVars>>
  <2>1. Once(actions) /\ Once(backlog)
    BY DEF UsbInv, Books, PlacesApart
  <2>2. InFlight' \subseteq InFlight /\ completions' \subseteq Completed
    BY <1>2 DEF InFlight, Completed, deviceVars
  <2>3. UNCHANGED <<actions, backlog, serial>>
    BY <1>2 DEF deviceVars
  <2> QED
    BY <2>1, <2>2, <2>3, DeviceBooks
<1> QED
  BY <1>1, <1>2

LEMMA ReceiveSelectedBooks == ASSUME UsbInv, ReceiveSelected PROVE Books'
<1>1. /\ toWorker # <<>> /\ toWorker' = Tail(toWorker)
      /\ CancelAll \/ UNCHANGED <<backlog, deviceVars>>
      /\ UNCHANGED <<ran, toBroker, actionRing, queue, current, completionRing>>
  BY DEF ReceiveSelected, brokerVars
<1>2. MsgCompletions(toWorker') \subseteq MsgCompletions(toWorker)
  BY <1>1, PlaceTypes, FewerPosted DEF UsbInv
<1> QED
  BY <1>1, <1>2, CancelBooks

LEMMA ReceiveDetachBooks == ASSUME UsbInv, ReceiveRingDetach PROVE Books'
<1>1. /\ toWorker # <<>> /\ toWorker' = Tail(toWorker)
      /\ CancelAll \/ UNCHANGED <<backlog, deviceVars>>
      /\ UNCHANGED <<ran, toBroker, actionRing, queue, current, completionRing>>
  BY DEF ReceiveRingDetach, brokerVars
<1>2. MsgCompletions(toWorker') \subseteq MsgCompletions(toWorker)
  BY <1>1, PlaceTypes, FewerPosted DEF UsbInv
<1> QED
  BY <1>1, <1>2, CancelBooks

LEMMA WorkerRingFailsBooks == ASSUME UsbInv, WorkerRingFails PROVE Books'
<1>1. /\ backlog' = <<>> /\ actions' = <<>> /\ completions' = {}
      /\ inflight' = [p \in Pipes |-> None]
      /\ toBroker' = Append(toBroker, [type |-> "ringDetach"])
      /\ UNCHANGED <<serial, ran, actionRing, queue, current, completionRing, toWorker>>
  BY DEF WorkerRingFails, CancelAll, ResetDevice, brokerVars
<1>2. Books /\ Once(actionRing) /\ OnceQueued(queue) /\ OnceSent(toBroker)
      /\ toBroker \in Seq(ToBroker)
  BY PlaceTypes DEF UsbInv, Books, PlacesApart
<1>3. MsgActions(toBroker') \subseteq MsgActions(toBroker) /\ OnceSent(toBroker')
  BY <1>1, <1>2, DetachSent
<1>4. InFlight' \subseteq InFlight
  BY <1>1 DEF InFlight
<1>5. Running' \subseteq Running /\ Completed' \subseteq Completed
  BY <1>1 DEF Running, Completed
<1>6. /\ Range(actions') \subseteq Range(actions) /\ Once(actions')
      /\ Range(backlog') \subseteq Range(backlog) /\ Once(backlog')
  BY <1>1, EmptyOnce
<1> QED
  BY <1>1, <1>2, <1>3, <1>4, <1>5, <1>6, LossyBooks

LEMMA ForgetDoneBooks == ASSUME UsbInv, ForgetDone PROVE Books'
<1>1. /\ current' = IF current = None THEN None ELSE [current EXCEPT !.deaf = TRUE]
      /\ toWorker' = toWorker \o Selected(FALSE)
      /\ UNCHANGED <<actions, backlog, toBroker, actionRing, queue, ran, serial, completions,
                     inflight, completionRing>>
  BY DEF ForgetDone, deviceVars, workerVars
<1>2. Books /\ PlacesApart /\ TypeOK
  BY DEF UsbInv, Books
<1>3. Running' \subseteq Running
  <2>1. current \in Item \cup {None}
    BY <1>2, PlaceTypes
  <2>2. CASE current = None
    BY <1>1, <2>2 DEF Running
  <2>3. CASE current # None
    BY <1>1, <2>1, <2>3 DEF Running, Item
  <2> QED
    BY <2>2, <2>3
<1>4. Completed' \subseteq Completed /\ InFlight' \subseteq InFlight
  BY <1>1, <1>2, SelectedPosted DEF Completed, InFlight
<1>5. /\ Once(actions) /\ Once(backlog) /\ OnceSent(toBroker) /\ Once(actionRing)
      /\ OnceQueued(queue)
  BY <1>2 DEF PlacesApart
<1> QED
  BY <1>1, <1>2, <1>3, <1>4, <1>5, LossyBooks

\* The broker gives the rings up.
LEMMA BrokerDetachBooks ==
    ASSUME UsbInv, actionRing' = <<>>, completionRing' = <<>>,
           toWorker' = Append(toWorker, [type |-> "ringDetach"]),
           MsgActions(toBroker') \subseteq MsgActions(toBroker), OnceSent(toBroker'),
           UNCHANGED <<actions, backlog, queue, ran, serial, completions, inflight, current>>
    PROVE  Books'
<1>1. Books /\ PlacesApart /\ TypeOK
  BY DEF UsbInv, Books
<1>2. Range(actionRing') = {} /\ Once(actionRing') /\ Range(completionRing') = {}
  BY EmptyOnce
<1>3. MsgCompletions(toWorker') \subseteq MsgCompletions(toWorker)
  BY <1>1, DetachPosted
<1>4. Running' \subseteq Running /\ Completed' \subseteq Completed /\ InFlight' \subseteq InFlight
  BY <1>2, <1>3 DEF Running, Completed, InFlight
<1>5. Once(actions) /\ Once(backlog) /\ OnceQueued(queue)
  BY <1>1 DEF PlacesApart
<1> QED
  BY <1>1, <1>2, <1>4, <1>5, LossyBooks

LEMMA BooksStep == UsbInv /\ [Next]_vars => Books'
<1> SUFFICES ASSUME UsbInv, [Next]_vars PROVE Books'
  OBVIOUS
<1>1. TypeOK
  BY DEF UsbInv
<1>2. CASE Guest
  <2>1. ASSUME NEW t \in ControlRequests, GuestSetup(t) PROVE Books'
    BY <2>1, SetupBooks
  <2>2. ASSUME NEW e \in Endpoints, GuestSubmit(e) PROVE Books'
    BY <2>2, SubmitBooks
  <2>3. ASSUME NEW p \in Pipes, GuestPoll(p) PROVE Books'
    BY <2>3, TakeBooks
  <2>4. ASSUME GuestBusReset PROVE Books'
    <3>1. /\ ResetDevice
          /\ UNCHANGED <<ran, toBroker, actionRing, queue, current, completionRing, toWorker, backlog>>
      BY <2>4 DEF GuestBusReset, workerVars, channelVars, brokerVars
    <3>2. Range(backlog') \subseteq Range(backlog) /\ Once(backlog')
          /\ MsgCompletions(toWorker') \subseteq MsgCompletions(toWorker)
      BY <3>1 DEF UsbInv, Books, PlacesApart
    <3> QED
      BY <3>1, <3>2, ResetBooks
  <2> QED
    BY <1>2, <2>1, <2>2, <2>3, <2>4 DEF Guest
<1>3. CASE Worker
  BY <1>3, PollBooks, ReceiveCompletionBooks, PopCompletionBooks, ReceiveSelectedBooks,
     ReceiveDetachBooks, WorkerRingFailsBooks DEF Worker
<1>4. CASE Broker
  <2>1. ASSUME NEW d \in Devices, AdoptDevice(d) PROVE Books'
    <3>1. Selected(TRUE) \in Seq(ToWorker) /\ \A m \in Range(Selected(TRUE)) : m.type # "completion"
      BY SelectedBroadcast
    <3> QED
      BY <2>1, <3>1, ResetSelectedBooks DEF AdoptDevice
  <2>2. ASSUME HandleDisconnect PROVE Books'
    <3>1. Selected(FALSE) \in Seq(ToWorker) /\ \A m \in Range(Selected(FALSE)) : m.type # "completion"
      BY SelectedBroadcast
    <3> QED
      BY <2>2, <3>1, ResetSelectedBooks DEF HandleDisconnect
  <2>3. ASSUME ForgetDevice PROVE Books'
    <3>1. PICK b \in Seq(ToWorker) : b = <<>> /\ \A m \in Range(b) : m.type # "completion"
      BY EmptySeq, EmptyOnce
    <3> QED
      BY <2>3, <3>1, ResetSelectedBooks DEF ForgetDevice
  <2>4. ASSUME BrokerRingFails PROVE Books'
    <3>1. /\ actionRing' = <<>> /\ completionRing' = <<>>
          /\ toWorker' = Append(toWorker, [type |-> "ringDetach"])
          /\ UNCHANGED <<actions, backlog, queue, ran, serial, completions, inflight, current, toBroker>>
      BY <2>4 DEF BrokerRingFails, deviceVars, workerVars, brokerVars
    <3>2. MsgActions(toBroker') \subseteq MsgActions(toBroker) /\ OnceSent(toBroker')
      BY <3>1 DEF UsbInv, Books, PlacesApart
    <3> QED
      BY <3>1, <3>2, BrokerDetachBooks
  <2>5. ASSUME BrokerReceiveRingDetach PROVE Books'
    <3>1. /\ actionRing' = <<>> /\ completionRing' = <<>> /\ toBroker # <<>>
          /\ toWorker' = Append(toWorker, [type |-> "ringDetach"]) /\ toBroker' = Tail(toBroker)
          /\ UNCHANGED <<actions, backlog, queue, ran, serial, completions, inflight, current>>
      BY <2>5 DEF BrokerReceiveRingDetach, deviceVars, workerVars, brokerVars
    <3>2. MsgActions(toBroker') \subseteq MsgActions(toBroker) /\ OnceSent(toBroker')
      BY <1>1, <3>1, PlaceTypes, TailSent DEF UsbInv, Books, PlacesApart
    <3> QED
      BY <3>1, <3>2, BrokerDetachBooks
  <2> QED
    BY <1>4, <2>1, <2>2, <2>3, <2>4, <2>5, ReceiveActionBooks, DrainRingBooks, BackendBooks,
       ForgetDoneBooks DEF Broker
<1>5. CASE UNCHANGED vars
  <2>1. UNCHANGED <<ran, toBroker, actionRing, queue, current, completionRing, toWorker, backlog, deviceVars>>
    BY <1>5 DEF vars, workerVars, channelVars, brokerVars
  <2>2. MsgCompletions(toWorker') \subseteq MsgCompletions(toWorker)
    BY <2>1
  <2> QED
    BY <2>1, <2>2, CancelBooks
<1> QED
  BY <1>2, <1>3, <1>4, <1>5 DEF Next

-----------------------------------------------------------------------------
(* Each action is executed and answered once *)

LEMMA SameRuns == ASSUME UNCHANGED <<ran, current>> PROVE RunsOnce
  BY DEF RunsOnce, AnswersStay, StartsWaiting

LEMMA RunsOnceStep == UsbInv /\ [Next]_vars => RunsOnce
<1> SUFFICES ASSUME UsbInv, [Next]_vars PROVE RunsOnce
  OBVIOUS
<1>1. CASE Guest
  <2>1. UNCHANGED <<ran, current>>
    BY <1>1 DEF Guest, GuestSetup, GuestSubmit, GuestPoll, GuestBusReset, brokerVars
  <2> QED
    BY <2>1, SameRuns
<1>2. CASE Worker
  <2>1. UNCHANGED <<ran, current>>
    BY <1>2 DEF Worker, Poll, ReceiveCompletion, PopCompletion, ReceiveSelected,
                ReceiveRingDetach, WorkerRingFails, brokerVars
  <2> QED
    BY <2>1, SameRuns
<1>3. CASE Broker
  <2>1. ASSUME NEW d \in Devices, AdoptDevice(d) PROVE RunsOnce
    <3>1. Selected(TRUE) \in Seq(ToWorker) /\ \A m \in Range(Selected(TRUE)) : m.type # "completion"
      BY SelectedBroadcast
    <3> QED
      BY <2>1, <3>1, ResetSelectedBooks DEF AdoptDevice
  <2>2. ASSUME HandleDisconnect PROVE RunsOnce
    <3>1. Selected(FALSE) \in Seq(ToWorker) /\ \A m \in Range(Selected(FALSE)) : m.type # "completion"
      BY SelectedBroadcast
    <3> QED
      BY <2>2, <3>1, ResetSelectedBooks DEF HandleDisconnect
  <2>3. ASSUME ForgetDevice PROVE RunsOnce
    <3>1. PICK b \in Seq(ToWorker) : b = <<>> /\ \A m \in Range(b) : m.type # "completion"
      BY EmptySeq, EmptyOnce
    <3> QED
      BY <2>3, <3>1, ResetSelectedBooks DEF ForgetDevice
  <2>4. ASSUME BrokerRingFails \/ BrokerReceiveRingDetach PROVE RunsOnce
    <3>1. UNCHANGED <<ran, current>>
      BY <2>4 DEF BrokerRingFails, BrokerReceiveRingDetach, brokerVars
    <3> QED
      BY <3>1, SameRuns
  <2>5. ASSUME ForgetDone PROVE RunsOnce
    <3>1. /\ current' = IF current = None THEN None ELSE [current EXCEPT !.deaf = TRUE]
          /\ ran' = ran
      BY <2>5 DEF ForgetDone
    <3>2. current \in Item \cup {None}
      BY PlaceTypes DEF UsbInv
    <3>3. current # None => current'.action = current.action
      BY <3>1, <3>2 DEF Item
    <3>4. current = None => current' = None
      BY <3>1
    <3> QED
      BY <3>1, <3>3, <3>4 DEF RunsOnce, AnswersStay, StartsWaiting
  <2> QED
    BY <1>3, <2>1, <2>2, <2>3, <2>4, <2>5, ReceiveActionBooks, DrainRingBooks, BackendBooks
       DEF Broker
<1>4. CASE UNCHANGED vars
  <2>1. UNCHANGED <<ran, current>>
    BY <1>4 DEF vars, brokerVars
  <2> QED
    BY <2>1, SameRuns
<1> QED
  BY <1>1, <1>2, <1>3, <1>4 DEF Next

-----------------------------------------------------------------------------
(* The device owns what it waits for *)

\* Transfers stay in flight while actions are drained and results arrive.
LEMMA OwnsLess ==
    ASSUME DeviceOwns, inflight' = inflight, Range(actions') \subseteq Range(actions),
           \A c \in completions' : c.id \in IdsOf(inflight)
    PROVE  DeviceOwns'
  BY DEF DeviceOwns

LEMMA OwnsNothing ==
    ASSUME ResetDevice
    PROVE  DeviceOwns'
<1>1. Range(actions') = {} /\ completions' = {} /\ \A p \in Pipes : inflight'[p] = None
  BY EmptyOnce DEF ResetDevice
<1> QED
  BY <1>1 DEF DeviceOwns

\* A new transfer: what is left of the queue and of the results belongs to
\* other pipes.
LEMMA NewTransferOwns ==
    ASSUME UsbInv, NEW t \in Targets, NEW fl \in [Pipes -> Action \cup {None}],
           \A p \in Pipes : fl[p] # None => fl[p] = inflight[p], fl[PipeOf(t)] = None,
           PipeOf(t) \in Pipes,
           NEW acts \in Seq(Action), QueueAction(t, fl, acts),
           \A a \in Range(acts) : fl[PipeOf(a.target)] = a,
           \A c \in completions' : c.id \in IdsOf(fl)
    PROVE  DeviceOwns' /\ Numbered'
<1>1. PICK a \in Action :
         /\ a.target = t
         /\ actions' = Append(acts, a)
         /\ inflight' = [fl EXCEPT ![PipeOf(t)] = a]
         /\ Numbered'
  BY NewTransfer
<1>2. \A p \in Pipes : inflight'[p] = IF p = PipeOf(t) THEN a ELSE fl[p]
  BY <1>1
<1>3. \A p \in Pipes : fl[p] # None => PipeOf(fl[p].target) = p
  BY DEF UsbInv, DeviceOwns
<1>4. a # None /\ \A b \in Action : b # None
  BY NoneAssumption
<1>5. \A p \in Pipes : inflight'[p] # None => PipeOf(inflight'[p].target) = p
  BY <1>1, <1>2, <1>3
<1>6. ASSUME NEW b \in Range(actions')
      PROVE  inflight'[PipeOf(b.target)] = b
  <2>1. b = a \/ b \in Range(acts)
    BY <1>1, <1>6 DEF Range
  <2>2. CASE b = a
    BY <1>1, <1>2, <2>2
  <2>3. CASE b \in Range(acts)
    <3>1. b \in Action
      BY <2>3 DEF Range
    <3>2. PipeOf(b.target) \in Pipes
      BY <3>1 DEF Action, Targets, PipeOf, Pipes
    <3>3. fl[PipeOf(b.target)] = b /\ b # None
      BY <1>4, <2>3, <3>1
    <3> QED
      BY <1>2, <3>2, <3>3
  <2> QED
    BY <2>1, <2>2, <2>3
<1>7. ASSUME NEW c \in completions'
      PROVE  c.id \in IdsOf(inflight')
  <2>1. PICK q \in Pipes : fl[q] # None /\ c.id = fl[q].id
    BY <1>7 DEF IdsOf
  <2>2. inflight'[q] = fl[q]
    BY <1>2, <2>1
  <2> QED
    BY <2>1, <2>2 DEF IdsOf
<1> QED
  BY <1>1, <1>5, <1>6, <1>7 DEF DeviceOwns, IdsOf

LEMMA SetupOwns ==
    ASSUME UsbInv, NEW t \in ControlRequests, GuestSetup(t)
    PROVE  DeviceOwns' /\ Numbered'
<1> DEFINE gone == {inflight[p].id : p \in {q \in {Control} : inflight[q] # None}}
           fl == [inflight EXCEPT ![Control] = None]
           acts == DropQueuedAction(actions, gone)
<1>1. completions' = Without(completions, gone) /\ QueueAction(t, fl, acts)
  BY DEF GuestSetup, Setup
<1>2. TypeOK /\ DeviceOwns /\ inflight \in [Pipes -> Action \cup {None}] /\ actions \in Seq(Action)
  BY PlaceTypes DEF UsbInv
<1>3. /\ fl \in [Pipes -> Action \cup {None}] /\ Control \in Pipes
      /\ \A p \in Pipes : fl[p] # None => fl[p] = inflight[p]
      /\ \A p \in Pipes : p # Control => fl[p] = inflight[p]
      /\ fl[Control] = None
  BY <1>2 DEF Pipes
<1>4. /\ acts \in Seq(Action) /\ Range(acts) \subseteq Range(actions)
      /\ \A a \in Range(acts) : a.id \notin gone
  BY <1>2, DropFacts
<1>5. t \in Targets /\ PipeOf(t) = Control
  BY DEF Targets, PipeOf
<1>6. inflight[Control] # None => inflight[Control].id \in gone
  OBVIOUS
<1> HIDE DEF fl, acts, gone
<1>7. ASSUME NEW a \in Range(acts)
      PROVE  fl[PipeOf(a.target)] = a
  <2>a. a \in Range(actions)
    BY <1>4
  <2>b. a \in Action
    BY <1>2, <2>a DEF Range
  <2>1. a \in Action /\ a # None /\ inflight[PipeOf(a.target)] = a
    BY <1>2, <2>a, <2>b, NoneAssumption DEF DeviceOwns
  <2>2. PipeOf(a.target) \in Pipes
    BY <2>1 DEF Action, Targets, PipeOf, Pipes
  <2>3. PipeOf(a.target) # Control
    BY <1>4, <1>6, <2>1
  <2> QED
    BY <1>3, <2>1, <2>2, <2>3
<1>8. ASSUME NEW c \in completions'
      PROVE  c.id \in IdsOf(fl)
  <2>1. c \in completions /\ c.id \notin gone
    BY <1>1 DEF Without
  <2>2. PICK q \in Pipes : inflight[q] # None /\ c.id = inflight[q].id
    BY <1>2, <2>1 DEF DeviceOwns, IdsOf
  <2>3. q # Control
    BY <1>6, <2>1, <2>2
  <2>4. fl[q] = inflight[q]
    BY <1>3, <2>3
  <2> QED
    BY <2>2, <2>4 DEF IdsOf
<1> QED
  BY <1>1, <1>3, <1>4, <1>5, <1>7, <1>8, NewTransferOwns

LEMMA SubmitOwns ==
    ASSUME UsbInv, NEW e \in Endpoints, GuestSubmit(e)
    PROVE  DeviceOwns' /\ Numbered'
<1>1. completions' = completions /\ QueueAction(e, inflight, actions) /\ inflight[e] = None
  BY DEF GuestSubmit, SubmitEndpoint
<1>2. DeviceOwns /\ inflight \in [Pipes -> Action \cup {None}] /\ actions \in Seq(Action)
  BY PlaceTypes DEF UsbInv
<1>3. e \in Targets /\ PipeOf(e) = e /\ e \in Pipes
  BY UsbAssumption DEF Targets, PipeOf, Pipes
<1>4. /\ \A a \in Range(actions) : inflight[PipeOf(a.target)] = a
      /\ \A c \in completions' : c.id \in IdsOf(inflight)
  BY <1>1, <1>2 DEF DeviceOwns
<1>5. inflight[PipeOf(e)] = None /\ PipeOf(e) \in Pipes
  BY <1>1, <1>3
<1> QED
  BY <1>1, <1>2, <1>3, <1>4, <1>5, NewTransferOwns

\* A transfer has one result.
LEMMA OneResult ==
    ASSUME UsbInv, NEW p \in Pipes, inflight[p] # None, NEW c \in completions,
           c.id = inflight[p].id
    PROVE  /\ c.serial = inflight[p].serial /\ c.in = (inflight[p].target \in InTargets)
           /\ c.status \in Statuses /\ ran[inflight[p].serial] = c.status
           /\ \A d \in completions : d.id = c.id => d = c
<1>1. Ledger(Known, Waiting, Running, Completed, serial, ran) /\ completions \subseteq Completion
  BY PlaceTypes DEF UsbInv, Books
<1>2. PICK a \in Known : a = inflight[p]
  BY DEF Known, InFlight
<1>3. a.id = a.serial /\ c.id = a.id
  BY <1>1, <1>2 DEF Ledger
<1>4. ASSUME NEW d \in completions, d.id = c.id
      PROVE  /\ d.serial = a.serial /\ d.in = (a.target \in InTargets)
             /\ d.status \in Statuses /\ d.status = ran[a.serial]
  <2>1. d \in Completed
    BY DEF Completed
  <2>2. d.id = d.serial /\ d.status \in Statuses /\ ran[d.serial] = d.status
        /\ (a.serial = d.serial => d.in = (a.target \in InTargets))
    BY <1>1, <2>1 DEF Ledger
  <2>3. d.serial = a.serial
    BY <1>3, <1>4, <2>2
  <2> QED
    BY <2>2, <2>3
<1>5. ASSUME NEW d \in completions, d.id = c.id
      PROVE  d = c
  <2>1. d \in Completion /\ c \in Completion
    BY <1>1
  <2>2. d.serial = c.serial /\ d.status = c.status
    BY <1>4, <1>5
  <2>3. d.in = c.in
    BY <1>4, <1>5
  <2> QED
    BY <1>5, <2>1, <2>2, <2>3 DEF Completion
<1> QED
  BY <1>2, <1>4, <1>5

LEMMA TakeOwns ==
    ASSUME UsbInv, NEW p \in Pipes, GuestPoll(p)
    PROVE  DeviceOwns' /\ Numbered'
<1>1. PICK c \in completions :
        /\ c.id = inflight[p].id
        /\ completions' = completions \ {c}
        /\ actions' = DropQueuedAction(actions, {c.id})
        /\ inflight' = [inflight EXCEPT ![p] = None]
  BY DEF GuestPoll, TakeResult
<1>2. inflight[p] # None /\ UNCHANGED <<next_id, serial>>
  BY DEF GuestPoll, TakeResult
<1>3. DeviceOwns /\ inflight \in [Pipes -> Action \cup {None}] /\ actions \in Seq(Action)
  BY PlaceTypes DEF UsbInv
<1>4. Range(actions') \subseteq Range(actions) /\ \A a \in Range(actions') : a.id # c.id
  BY <1>1, <1>3, DropFacts
<1>5. \A q \in Pipes : inflight'[q] = IF q = p THEN None ELSE inflight[q]
  BY <1>1, <1>3
<1>6. ASSUME NEW a \in Range(actions')
      PROVE  inflight'[PipeOf(a.target)] = a
  <2>a. a \in Range(actions)
    BY <1>4
  <2>1. a \in Action /\ inflight[PipeOf(a.target)] = a
    BY <1>3, <2>a DEF DeviceOwns, Range
  <2>2. PipeOf(a.target) \in Pipes
    BY <2>1 DEF Action, Targets, PipeOf, Pipes
  <2>3. PipeOf(a.target) # p
    BY <1>1, <1>4, <2>1
  <2> QED
    BY <1>5, <2>1, <2>2, <2>3
<1>7. ASSUME NEW d \in completions'
      PROVE  d.id \in IdsOf(inflight')
  <2>1. d \in completions /\ d # c
    BY <1>1
  <2>2. d.id # c.id
    BY <1>1, <1>2, <2>1, OneResult
  <2>3. PICK q \in Pipes : inflight[q] # None /\ d.id = inflight[q].id
    BY <1>3, <2>1 DEF DeviceOwns, IdsOf
  <2>4. inflight'[q] = inflight[q]
    BY <1>1, <1>5, <2>2, <2>3
  <2> QED
    BY <2>3, <2>4 DEF IdsOf
<1>8. \A q \in Pipes : inflight'[q] # None => PipeOf(inflight'[q].target) = q
  BY <1>3, <1>5 DEF DeviceOwns
<1>9. Numbered'
  BY <1>2 DEF UsbInv, Numbered
<1> QED
  BY <1>6, <1>7, <1>8, <1>9 DEF DeviceOwns, IdsOf

LEMMA HandleOwns ==
    ASSUME UsbInv, NEW c, HandleCompletion(c)
    PROVE  DeviceOwns'
<1>1. DeviceOwns /\ actions \in Seq(Action)
  BY PlaceTypes DEF UsbInv
<1>2. CASE c.id \in pending /\ c.id \in IdsOf(inflight)
  <2>1. /\ actions' = DropQueuedAction(actions, {c.id})
        /\ completions' = Without(completions, {c.id}) \cup {c}
        /\ inflight' = inflight
    BY <1>2 DEF HandleCompletion, PushCompletion
  <2>2. Range(actions') \subseteq Range(actions)
    BY <1>1, <2>1, DropFacts
  <2>3. \A d \in completions' : d.id \in IdsOf(inflight)
    BY <1>1, <1>2, <2>1 DEF DeviceOwns, Without
  <2> QED
    BY <1>1, <2>1, <2>2, <2>3, OwnsLess
<1>3. CASE ~(c.id \in pending /\ c.id \in IdsOf(inflight))
  <2>1. UNCHANGED <<actions, completions, inflight>>
    BY <1>3 DEF HandleCompletion, PushCompletion, deviceVars
  <2>2. \A d \in completions' : d.id \in IdsOf(inflight)
    BY <1>1, <2>1 DEF DeviceOwns
  <2> QED
    BY <1>1, <2>1, <2>2, OwnsLess
<1> QED
  BY <1>2, <1>3

LEMMA SameOwns ==
    ASSUME UsbInv, UNCHANGED deviceVars
    PROVE  DeviceOwns'
<1>1. DeviceOwns /\ UNCHANGED <<actions, completions, inflight>>
  BY DEF UsbInv, deviceVars
<1>2. \A d \in completions' : d.id \in IdsOf(inflight)
  BY <1>1 DEF DeviceOwns
<1> QED
  BY <1>1, <1>2, OwnsLess

LEMMA OwnsStep == UsbInv /\ [Next]_vars => DeviceOwns' /\ Numbered'
<1> SUFFICES ASSUME UsbInv, [Next]_vars PROVE DeviceOwns' /\ Numbered'
  OBVIOUS
<1>1. ASSUME UNCHANGED <<next_id, serial>> PROVE Numbered'
  BY <1>1 DEF UsbInv, Numbered
<1>2. ASSUME UNCHANGED deviceVars PROVE DeviceOwns' /\ Numbered'
  BY <1>1, <1>2, SameOwns DEF deviceVars
<1>3. ASSUME ResetDevice PROVE DeviceOwns' /\ Numbered'
  BY <1>1, <1>3, OwnsNothing DEF ResetDevice
<1>4. ASSUME NEW c, HandleCompletion(c) PROVE DeviceOwns' /\ Numbered'
  <2>1. UNCHANGED <<next_id, serial>>
    BY <1>4 DEF HandleCompletion, PushCompletion, deviceVars
  <2> QED
    BY <1>1, <1>4, <2>1, HandleOwns
<1>5. CASE Guest
  BY <1>3, <1>5, SetupOwns, SubmitOwns, TakeOwns DEF Guest, GuestBusReset
<1>6. CASE Worker
  <2>1. CASE Poll
    <3>1. Range(actions') \subseteq Range(actions) /\ UNCHANGED <<next_id, completions, inflight, serial>>
      <4>1. PICK D : /\ \/ D = backlog /\ actions' = actions
                        \/ Range(actions') \subseteq Range(actions)
                     /\ UNCHANGED <<next_id, completions, inflight, serial>>
        BY <2>1, PollFacts DEF UsbInv
      <4> QED
        BY <4>1
    <3>2. DeviceOwns /\ \A c \in completions' : c.id \in IdsOf(inflight)
      BY <3>1 DEF UsbInv, DeviceOwns
    <3> QED
      BY <1>1, <3>1, <3>2, OwnsLess
  <2>2. CASE ReceiveCompletion \/ PopCompletion
    BY <1>4, <2>2 DEF ReceiveCompletion, PopCompletion
  <2>3. CASE ReceiveSelected \/ ReceiveRingDetach \/ WorkerRingFails
    <3>1. ResetDevice \/ UNCHANGED deviceVars
      BY <2>3 DEF ReceiveSelected, ReceiveRingDetach, WorkerRingFails, CancelAll
    <3> QED
      BY <1>2, <1>3, <3>1
  <2> QED
    BY <1>6, <2>1, <2>2, <2>3 DEF Worker
<1>7. CASE Broker
  <2>1. UNCHANGED deviceVars
    BY <1>7 DEF Broker, BrokerReceiveAction, DrainActionRing, BackendDone, AdoptDevice,
                HandleDisconnect, ForgetDevice, ForgetDone, BrokerRingFails,
                BrokerReceiveRingDetach, ResetSelectedDevice
  <2> QED
    BY <1>2, <2>1
<1>8. CASE UNCHANGED vars
  BY <1>2, <1>8 DEF vars
<1> QED
  BY <1>5, <1>6, <1>7, <1>8 DEF Next

-----------------------------------------------------------------------------
(* Success means executed *)

\* Old answers stay true, because what was answered keeps its answer.
LEMMA AnswerStaysTrue ==
    ASSUME UsbInv, AnswersStay, NEW p \in Pipes, answer'[p] = answer[p] \/ answer'[p] = None
    PROVE  answer'[p] # None =>
             /\ answer'[p].outcome = "ack" => ran'[answer'[p].serial] = "ok"
             /\ answer'[p].outcome = "data" => ran'[answer'[p].serial] \in {"ok", "short"}
<1> SUFFICES ASSUME answer'[p] # None
             PROVE  /\ answer'[p].outcome = "ack" => ran'[answer'[p].serial] = "ok"
                    /\ answer'[p].outcome = "data" => ran'[answer'[p].serial] \in {"ok", "short"}
  OBVIOUS
<1>1. PICK w : w = answer[p] /\ w = answer'[p] /\ w # None
  OBVIOUS
<1>2. w.serial \in 1 .. MaxTransfers
  BY <1>1 DEF UsbInv, TypeOK, DeviceTypeOK
<1>3. /\ w.outcome = "ack" => ran[w.serial] = "ok"
      /\ w.outcome = "data" => ran[w.serial] \in {"ok", "short"}
  BY <1>1 DEF UsbInv, SuccessMeansExecuted
<1>4. "ok" \in Statuses /\ "short" \in Statuses
  BY DEF Statuses
<1>5. ran[w.serial] \in Statuses => ran'[w.serial] = ran[w.serial]
  BY <1>2 DEF AnswersStay
<1>6. /\ w.outcome = "ack" => ran'[w.serial] = "ok"
      /\ w.outcome = "data" => ran'[w.serial] \in {"ok", "short"}
  BY <1>3, <1>4, <1>5
<1> QED
  BY <1>1, <1>6

\* What the guest is told of a result.
LEMMA OutcomeFacts ==
    ASSUME NEW t, NEW c, c.status \in Statuses, c.in = (t \in InTargets)
    PROVE  /\ Outcome(t, c) = "ack" => c.status = "ok"
           /\ Outcome(t, c) = "data" => c.status \in {"ok", "short"}
<1>1. CASE c.status = "stall"
  BY <1>1 DEF Outcome
<1>2. CASE c.status = "error"
  BY <1>2 DEF Outcome
<1>3. CASE c.status = "ok"
  BY <1>3
<1>4. CASE c.status = "short"
  <2>1. CASE t \in InTargets
    <3>1. c.in
      BY <2>1
    <3>2. Outcome(t, c) = "data"
      BY <1>4, <2>1, <3>1 DEF Outcome
    <3> QED
      BY <1>4, <3>2
  <2>2. CASE t \notin InTargets
    <3>1. ~c.in
      BY <2>2
    <3>2. Outcome(t, c) = "timeout"
      BY <1>4, <2>2, <3>1 DEF Outcome
    <3> QED
      BY <3>2
  <2> QED
    BY <2>1, <2>2
<1> QED
  BY <1>1, <1>2, <1>3, <1>4 DEF Statuses

LEMMA TakeTellsTruth ==
    ASSUME UsbInv, AnswersStay, NEW p \in Pipes, GuestPoll(p)
    PROVE  SuccessMeansExecuted'
<1>1. PICK c \in completions :
        /\ c.id = inflight[p].id
        /\ answer' = [answer EXCEPT ![p] =
                       [serial |-> inflight[p].serial, outcome |-> Outcome(inflight[p].target, c)]]
  BY DEF GuestPoll, TakeResult
<1>2. inflight[p] # None /\ ran' = ran
  BY DEF GuestPoll, TakeResult, brokerVars
<1>3. answer \in [Pipes -> [serial : 1..MaxTransfers,
                           outcome : {"data", "ack", "stall", "timeout"}] \cup {None}]
  BY DEF UsbInv, TypeOK, DeviceTypeOK
<1>4. \A q \in Pipes : q # p => answer'[q] = answer[q]
  BY <1>1, <1>3
<1>5. /\ answer'[p].serial = inflight[p].serial
      /\ answer'[p].outcome = Outcome(inflight[p].target, c)
  BY <1>1, <1>3
<1>6. /\ c.in = (inflight[p].target \in InTargets)
      /\ c.status \in Statuses /\ ran[inflight[p].serial] = c.status
  BY <1>1, <1>2, OneResult
<1>7. /\ Outcome(inflight[p].target, c) = "ack" => c.status = "ok"
      /\ Outcome(inflight[p].target, c) = "data" => c.status \in {"ok", "short"}
  BY <1>6, OutcomeFacts
<1>8. /\ answer'[p].outcome = "ack" => ran'[answer'[p].serial] = "ok"
      /\ answer'[p].outcome = "data" => ran'[answer'[p].serial] \in {"ok", "short"}
  BY <1>2, <1>5, <1>6, <1>7
<1>9. ASSUME NEW q \in Pipes, q # p
      PROVE  answer'[q] # None =>
             /\ answer'[q].outcome = "ack" => ran'[answer'[q].serial] = "ok"
             /\ answer'[q].outcome = "data" => ran'[answer'[q].serial] \in {"ok", "short"}
  BY <1>4, <1>9, AnswerStaysTrue
<1> QED
  BY <1>8, <1>9 DEF SuccessMeansExecuted

LEMMA SuccessStep == UsbInv /\ [Next]_vars => SuccessMeansExecuted'
<1> SUFFICES ASSUME UsbInv, [Next]_vars PROVE SuccessMeansExecuted'
  OBVIOUS
<1>1. AnswersStay
  BY RunsOnceStep DEF RunsOnce
<1>2. answer \in [Pipes -> [serial : 1..MaxTransfers,
                           outcome : {"data", "ack", "stall", "timeout"}] \cup {None}]
  BY DEF UsbInv, TypeOK, DeviceTypeOK
<1>3. ASSUME \A p \in Pipes : answer'[p] = answer[p] \/ answer'[p] = None
      PROVE  SuccessMeansExecuted'
  BY <1>1, <1>3, AnswerStaysTrue DEF SuccessMeansExecuted
<1>4. ASSUME answer' = answer PROVE SuccessMeansExecuted'
  BY <1>3, <1>4
<1>5. ASSUME NEW p, answer' = [answer EXCEPT ![p] = None] PROVE SuccessMeansExecuted'
  BY <1>2, <1>3, <1>5
<1>6. CASE Guest
  <2>1. ASSUME NEW t, \/ t \in ControlRequests /\ GuestSetup(t)
                      \/ t \in Endpoints /\ GuestSubmit(t)
        PROVE  SuccessMeansExecuted'
    <3>1. answer' = [answer EXCEPT ![PipeOf(t)] = None]
      BY <2>1 DEF GuestSetup, GuestSubmit, Setup, SubmitEndpoint, QueueAction
    <3> QED
      BY <1>5, <3>1
  <2>2. ASSUME GuestBusReset PROVE SuccessMeansExecuted'
    BY <1>4, <2>2 DEF GuestBusReset, ResetDevice
  <2> QED
    BY <1>1, <1>6, <2>1, <2>2, TakeTellsTruth DEF Guest
<1>7. CASE Worker
  <2>1. answer' = answer
    BY <1>7 DEF Worker, Poll, DrainActions, ReceiveCompletion, PopCompletion, HandleCompletion,
                PushCompletion, ReceiveSelected, ReceiveRingDetach, WorkerRingFails, CancelAll,
                ResetDevice, deviceVars
  <2> QED
    BY <1>4, <2>1
<1>8. CASE Broker
  <2>1. UNCHANGED deviceVars
    BY <1>8 DEF Broker, BrokerReceiveAction, DrainActionRing, BackendDone, AdoptDevice,
                HandleDisconnect, ForgetDevice, ForgetDone, BrokerRingFails,
                BrokerReceiveRingDetach, ResetSelectedDevice
  <2> QED
    BY <1>4, <2>1 DEF deviceVars
<1>9. CASE UNCHANGED vars
  BY <1>4, <1>9 DEF vars, deviceVars
<1> QED
  BY <1>6, <1>7, <1>8, <1>9 DEF Next

-----------------------------------------------------------------------------
(* The theorems *)

LEMMA UsbInvInit == IdsLast /\ Init => UsbInv
<1> SUFFICES ASSUME IdsLast, Init PROVE UsbInv
  OBVIOUS
<1>1. TypeOK
  BY UsbTypeInit
<1>2. /\ actions = <<>> /\ backlog = <<>> /\ toBroker = <<>> /\ actionRing = <<>> /\ queue = <<>>
      /\ toWorker = <<>> /\ completionRing = <<>> /\ completions = {} /\ current = None
      /\ serial = 0 /\ next_id = 1 /\ ran = [s \in 1 .. MaxTransfers |-> "no"]
      /\ \A p \in Pipes : inflight[p] = None /\ answer[p] = None
  BY DEF Init, DeviceInit
<1>3. /\ Range(actions) = {} /\ Range(backlog) = {} /\ MsgActions(toBroker) = {}
      /\ Range(actionRing) = {} /\ ItemActions(queue) = {} /\ Range(completionRing) = {}
      /\ MsgCompletions(toWorker) = {}
      /\ Once(actions) /\ Once(backlog) /\ Once(actionRing) /\ OnceQueued(queue)
  BY <1>2, EmptyOnce
<1>4. OnceSent(toBroker)
  BY <1>2 DEF OnceSent
<1>5. PlacesApart
  BY <1>3, <1>4 DEF PlacesApart, Apart
<1>6. Known = {} /\ Waiting = {} /\ Running = {} /\ Completed = {}
  BY <1>2, <1>3 DEF Known, Waiting, Running, Completed, InFlight
<1>7. Ledger(Known, Waiting, Running, Completed, serial, ran)
  BY <1>2, <1>6 DEF Ledger
<1>8. DeviceOwns /\ Numbered /\ SuccessMeansExecuted
  BY <1>2, <1>3 DEF DeviceOwns, Numbered, SuccessMeansExecuted
<1> QED
  BY <1>1, <1>5, <1>7, <1>8 DEF UsbInv, Books

\* The inductive invariant: an action is in one place of the pipeline, and
\* what the broker did with it agrees with that place and with every
\* completion that carries its id.
THEOREM UsbInvariant == IdsLast /\ Spec => []UsbInv
<1>1. IdsLast /\ Init => UsbInv
  BY UsbInvInit
<1>2. UsbInv /\ [Next]_vars => UsbInv'
  <2> SUFFICES ASSUME UsbInv, [Next]_vars PROVE UsbInv'
    OBVIOUS
  <2>1. TypeOK' /\ Books' /\ DeviceOwns' /\ Numbered' /\ SuccessMeansExecuted'
    BY UsbTypeStep, BooksStep, OwnsStep, SuccessStep DEF UsbInv
  <2>2. IdsLast'
    BY DEF UsbInv, IdsLast
  <2> QED
    BY <2>1, <2>2 DEF UsbInv
<1> QED
  BY <1>1, <1>2, PTL DEF Spec

LEMMA SnapshotLoadableFromInv == ASSUME UsbInv PROVE SnapshotLoadable
<1>1. /\ Ledger(Known, Waiting, Running, Completed, serial, ran) /\ DeviceOwns
      /\ actions \in Seq(Action)
  BY PlaceTypes DEF UsbInv, Books
<1>2. ASSUME NEW p \in Pipes, NEW q \in Pipes, inflight[p] # None, inflight[q] # None,
             inflight[p].id = inflight[q].id
      PROVE  p = q
  <2>1. inflight[p] \in Known /\ inflight[q] \in Known
    BY <1>2 DEF Known, InFlight
  <2>2. inflight[p] = inflight[q]
    BY <1>1, <1>2, <2>1 DEF Ledger
  <2> QED
    BY <1>1, <1>2, <2>2 DEF DeviceOwns
<1>3. \A i \in DOMAIN actions : inflight[PipeOf(actions[i].target)] = actions[i]
  BY <1>1 DEF DeviceOwns, Range
<1>4. ASSUME NEW c \in completions
      PROVE  /\ \A i \in DOMAIN actions : actions[i].id # c.id
             /\ \E p \in Pipes :
                   /\ inflight[p] # None /\ inflight[p].id = c.id
                   /\ c.status \in {"ok", "short"} => c.in = (inflight[p].target \in InTargets)
  <2>1. PICK p \in Pipes : inflight[p] # None /\ inflight[p].id = c.id
    BY <1>1 DEF DeviceOwns, IdsOf
  <2>2. c.in = (inflight[p].target \in InTargets)
    BY <2>1, OneResult
  <2>3. ASSUME NEW i \in DOMAIN actions, actions[i].id = c.id
        PROVE  FALSE
    <3>1. actions[i] \in Waiting /\ c \in Completed
      BY DEF Waiting, Completed, Range
    <3>2. /\ actions[i].serial = actions[i].id /\ ran[actions[i].serial] = "no"
          /\ c.serial = c.id /\ ran[c.serial] \in Statuses
      BY <1>1, <3>1 DEF Ledger
    <3> QED
      BY <2>3, <3>2 DEF Statuses
  <2> QED
    BY <2>1, <2>2, <2>3
<1> QED
  BY <1>2, <1>3, <1>4 DEF SnapshotLoadable

\* Every state of the device passes the validation of snapshot_load, whatever
\* the worker and the broker do: the ids in flight differ, a queued action is
\* the one its pipe has in flight, and a completion waits for a transfer that
\* is in flight, has its direction and is no longer queued.
THEOREM SnapshotAlwaysLoadable == IdsLast /\ Spec => []SnapshotLoadable
<1>1. UsbInv => SnapshotLoadable
  BY SnapshotLoadableFromInv
<1> QED
  BY <1>1, UsbInvariant, PTL

\* The completion that ends a transfer is its own: push_completion matches by
\* id, and no completion of an abandoned transfer has the id of a later one.
THEOREM CompletionIsOwn == IdsLast /\ Spec => []OwnCompletion
<1>1. UsbInv => OwnCompletion
  BY OneResult DEF OwnCompletion
<1> QED
  BY <1>1, UsbInvariant, PTL

\* The guest is told of success only when the USB device executed that very
\* transfer with success, through every change of device, reset, lost ring and
\* abandoned request.
THEOREM SuccessIsTrue == IdsLast /\ Spec => []SuccessMeansExecuted
<1>1. UsbInv => SuccessMeansExecuted
  BY DEF UsbInv
<1> QED
  BY <1>1, UsbInvariant, PTL

\* The broker starts only actions that were never started or answered, and an
\* answer is final: what resetSelectedDevice fails does not run on the next
\* device.
THEOREM RunsAtMostOnce == IdsLast /\ Spec => ExecutedOnce
<1>1. UsbInv /\ [Next]_vars =>
        [/\ \A s \in 1..MaxTransfers : ran[s] \in Statuses => ran'[s] = ran[s]
         /\ current' # None /\ (current = None \/ current'.action # current.action)
              => ran[current'.action.serial] = "no"]_vars
  BY RunsOnceStep DEF RunsOnce, AnswersStay, StartsWaiting
<1> QED
  BY <1>1, UsbInvariant, PTL DEF Spec, ExecutedOnce
=============================================================================
