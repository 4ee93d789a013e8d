--------------------------- MODULE IpcRingProofs ---------------------------
(***************************************************************************)
(* TLAPS proofs about IpcRing: its types, for every set of producers,      *)
(* capacity, cursor width and set of payload lengths; and what the ring    *)
(* does with its records, for every capacity that divides the cursor       *)
(* range: the records lie one behind the other in an unbounded word stream *)
(* of which the data region is a window, so that no two writers and no     *)
(* writer and reader meet, and the consumer reads back exactly what was    *)
(* written.                                                                *)
(***************************************************************************)
EXTENDS IpcRing, SequenceTheorems, WellFoundedInduction, TLAPS


\* Index arithmetic: an index is inside the data region.
LEMMA IdxType == \A c \in Cursor : Idx(c) \in 0 .. Cap - 1
  BY CapAssumption DEF Idx, Cursor

\* The words left after an index are at least one and at most the capacity.
LEMMA RemainingType == \A c \in Cursor : Remaining(c) \in 1 .. Cap
  BY IdxType, CapAssumption DEF Remaining

\* record_size_checked yields at least the length word.
LEMMA BodyWordsType == \A n \in Nat : BodyWords(n) \in Nat
  BY DEF BodyWords

LEMMA RecordWordsType ==
    \A n \in Nat : RecordWords(n) \in Nat \ {0} /\ RecordWords(n) = 1 + BodyWords(n)
  BY BodyWordsType DEF RecordWords

LEMMA ReserveType ==
    \A c \in Cursor, n \in Nat :
       /\ Padding(c, n) \in 0 .. Cap
       /\ Reserve(c, n) \in Nat \ {0}
       /\ Reserve(c, n) = Padding(c, n) + RecordWords(n)
  BY RemainingType, RecordWordsType, CapAssumption DEF Padding, Reserve

\* wrapping_add and wrapping_sub stay in the cursor range.
LEMMA AddType == \A a \in Cursor, n \in 0 .. Cap : Add(a, n) \in Cursor
  BY CapAssumption, ModAssumption DEF Add, Cursor

LEMMA SubType == \A a, b \in Cursor : Sub(a, b) \in Cursor
  BY ModAssumption, CapAssumption DEF Sub, Cursor

-----------------------------------------------------------------------------
(* Type correctness.  That the cursors stay in range needs one fact more:  *)
(* a producer that reserves, or has reserved, asked for at most Cap words. *)

Reserving == {"cas", "marker", "length", "body", "await", "commit"}

ReserveFits ==
    \A p \in Producers :
        pc[p] \in Reserving => Reserve(ltail[p], msg[p].len) <= Cap

TypeInv == TypeOK /\ ReserveFits

LEMMA HeaderReadsType ==
    ASSUME NEW w \in Word, NEW h \in HeaderReads(w), h # WRAP_MARKER
    PROVE  h.val \in Nat
<1>1. BogusLen \in Nat
  BY CapAssumption DEF BogusLen
<1>2. CASE w.tag \in {"len", "wrap"}
  <2>1. h = w
    BY <1>2 DEF HeaderReads
  <2>2. w.tag = "len" => w.val \in Nat
    BY DEF Word
  <2>3. w.tag = "wrap" => w = WRAP_MARKER
    BY DEF Word, WRAP_MARKER
  <2> QED
    BY <1>2, <2>1, <2>2, <2>3
<1>3. CASE w.tag \notin {"len", "wrap"}
  <2>1. PICK n \in PayloadLens \cup {BogusLen} : h = LenWord(n)
    BY <1>3 DEF HeaderReads
  <2> QED
    BY <1>1, <2>1, LenAssumption DEF LenWord
<1> QED
  BY <1>2, <1>3

LEMMA PayloadType ==
    ASSUME NEW p \in Producers, NEW n \in Nat, NEW len \in Nat
    PROVE  PayloadOK(Payload(p, n, len))
<1>1. \A i \in 1 .. BodyWords(len) : BodyWord(<<p, n, i>>) \in Word
  BY BodyWordsType DEF BodyWord, Word
<1> QED
  BY <1>1, BodyWordsType DEF Payload, PayloadOK

LEMMA NoPayloadType ==
    ASSUME NEW p \in Producers
    PROVE  PayloadOK(NoPayload(p))
<1>1. BodyWords(0) = 0
  BY DEF BodyWords
<1> QED
  BY <1>1 DEF NoPayload, PayloadOK

LEMMA TypeInvInit == Init => TypeInv
<1> SUFFICES ASSUME Init PROVE TypeInv
  OBVIOUS
<1>1. 0 \in Cursor /\ head \in Cursor
  BY CapAssumption, ModAssumption, StartAssumption DEF Init, Cursor
<1>2. data \in [0 .. Cap - 1 -> Word]
  BY DEF Init, Stale, Word
<1>3. \A p \in Producers : PayloadOK(msg[p])
  BY NoPayloadType DEF Init
<1>4. cout.len \in Nat
  BY DEF Init, NoOut
<1>5. pushes \in [Producers -> 0 .. MaxPushes] /\ pc \in [Producers -> PcLabels]
  BY PushAssumption DEF Init, PcLabels
<1> QED
  BY <1>1, <1>2, <1>3, <1>4, <1>5 DEF Init, TypeInv, TypeOK, ReserveFits, Reserving

\* TypeInv is inductive.
LEMMA TypeInvNext == TypeInv /\ [Next]_vars => TypeInv'
<1> SUFFICES ASSUME TypeInv, [Next]_vars PROVE TypeInv'
  OBVIOUS
<1> USE DEF TypeInv
<1>z. 0 \in Cursor /\ Cursor \subseteq Nat
  BY CapAssumption, ModAssumption DEF Cursor
<1>t. /\ tail_reserve \in Cursor
      /\ \A q \in Producers : lhead[q] \in Cursor /\ ltail[q] \in Cursor
  BY DEF TypeOK
<1>m. \A q \in Producers :
         msg[q].len \in Nat /\ msg[q].words \in [1 .. BodyWords(msg[q].len) -> Word]
  BY DEF TypeOK, PayloadOK
<1>1. ASSUME NEW p \in Producers, NEW len \in PayloadLens, StartPush(p, len)
      PROVE  TypeInv'
  <2>1. len \in Nat
    BY LenAssumption
  <2>2. pushes[p] \in Nat /\ pushes' \in [Producers -> 0 .. MaxPushes]
    BY <1>1, PushAssumption DEF StartPush, TypeOK
  <2>3. /\ DOMAIN msg' = Producers
        /\ \A q \in Producers : PayloadOK(msg'[q])
    <3>1. PayloadOK(Payload(p, pushes[p], len))
      BY <2>1, <2>2, PayloadType
    <3> QED
      BY <1>1, <3>1 DEF StartPush, TypeOK
  <2>4. pc' \in [Producers -> PcLabels]
    BY <1>1 DEF StartPush, TypeOK, PcLabels
  <2>5. ReserveFits'
    BY <1>1 DEF StartPush, TypeOK, ReserveFits, Reserving
  <2> QED
    BY <1>1, <2>2, <2>3, <2>4, <2>5
    DEF StartPush, TypeOK, shared, consVars
<1>2. ASSUME NEW p \in Producers, LoadHead(p)
      PROVE  TypeInv'
  BY <1>2 DEF LoadHead, TypeOK, ReserveFits, Reserving, PcLabels, shared, consVars
<1>3. ASSUME NEW p \in Producers, LoadTail(p)
      PROVE  TypeInv'
  <2> DEFINE used == Sub(tail_reserve, lhead[p])
             next == AfterLoads(used, tail_reserve, msg[p].len)
  <2>1. next \in {"idle", "load_head", "cas"}
    BY DEF AfterLoads
  <2>2. next = "cas" => Reserve(tail_reserve, msg[p].len) <= Cap
    <3>1. used \in Nat
      BY <1>z, <1>t, SubType
    <3>2. Reserve(tail_reserve, msg[p].len) \in Nat
      BY <1>m, <1>t, ReserveType
    <3> QED
      BY <3>1, <3>2, CapAssumption DEF AfterLoads
  <2>3. CASE next = "idle"
    <3>1. /\ lhead' = [lhead EXCEPT ![p] = 0]
          /\ ltail' = [ltail EXCEPT ![p] = 0]
          /\ msg' = [msg EXCEPT ![p] = NoPayload(p)]
          /\ pc' = [pc EXCEPT ![p] = "idle"]
      BY <1>3, <2>3 DEF LoadTail, ReturnPush
    <3>2. /\ DOMAIN msg' = Producers
          /\ \A q \in Producers : PayloadOK(msg'[q])
      BY <3>1, NoPayloadType DEF TypeOK
    <3>3. ReserveFits'
      BY <3>1 DEF TypeOK, ReserveFits, Reserving
    <3> QED
      BY <1>3, <1>z, <3>1, <3>2, <3>3
      DEF LoadTail, TypeOK, PcLabels, shared, consVars
  <2>4. CASE next # "idle"
    <3>1. /\ ltail' = [ltail EXCEPT ![p] = tail_reserve]
          /\ lhead' = lhead /\ msg' = msg
          /\ pc' = [pc EXCEPT ![p] = next]
      BY <1>3, <2>4 DEF LoadTail
    <3>2. ReserveFits'
      BY <2>1, <2>2, <3>1 DEF TypeOK, ReserveFits, Reserving
    <3> QED
      BY <1>3, <2>1, <3>1, <3>2 DEF LoadTail, TypeOK, PcLabels, shared, consVars
  <2> QED
    BY <2>3, <2>4
<1>4. ASSUME NEW p \in Producers, Cas(p)
      PROVE  TypeInv'
  <2>1. /\ Reserve(ltail[p], msg[p].len) \in 0 .. Cap
        /\ ltail[p] \in Cursor
    <3>1. Reserve(ltail[p], msg[p].len) <= Cap
      BY <1>4 DEF Cas, ReserveFits, Reserving
    <3>2. Reserve(ltail[p], msg[p].len) \in Nat
      BY <1>m, <1>t, ReserveType
    <3> QED
      BY <1>t, <3>1, <3>2, CapAssumption
  <2>2. tail_reserve' \in Cursor
    BY <1>4, <2>1, AddType DEF Cas, TypeOK
  <2>3. /\ pc' \in [Producers -> PcLabels]
        /\ lhead' \in [Producers -> Cursor]
    BY <1>4, <1>z DEF Cas, TypeOK, PcLabels
  <2>4. ReserveFits'
    BY <1>4 DEF Cas, TypeOK, ReserveFits, Reserving
  <2> QED
    BY <1>4, <2>2, <2>3, <2>4 DEF Cas, TypeOK, consVars
<1>5. ASSUME NEW p \in Producers, WriteMarker(p)
      PROVE  TypeInv'
  <2>1. Idx(ltail[p]) \in 0 .. Cap - 1 /\ WRAP_MARKER \in Word
    BY IdxType DEF TypeOK, WRAP_MARKER, Word
  <2>2. data' \in [0 .. Cap - 1 -> Word]
    BY <1>5, <2>1 DEF WriteMarker, TypeOK
  <2> QED
    BY <1>5, <2>2 DEF WriteMarker, TypeOK, ReserveFits, Reserving, PcLabels, consVars
<1>6. ASSUME NEW p \in Producers, WriteLength(p)
      PROVE  TypeInv'
  <2>1. LenWord(msg[p].len) \in Word
    BY <1>m DEF LenWord, Word
  <2>2. data' \in [0 .. Cap - 1 -> Word]
    BY <1>6, <2>1 DEF WriteLength, TypeOK
  <2> QED
    BY <1>6, <2>2 DEF WriteLength, TypeOK, ReserveFits, Reserving, PcLabels, consVars
<1>7. ASSUME NEW p \in Producers, WriteBody(p)
      PROVE  TypeInv'
  <2>1. StartIdx(p) \in Nat
    <3>1. Padding(ltail[p], msg[p].len) \in 0 .. Cap /\ ltail[p] \in Cursor
      BY <1>m, <1>t, ReserveType
    <3>2. Add(ltail[p], Padding(ltail[p], msg[p].len)) \in Cursor
      BY <3>1, AddType
    <3> QED
      BY <3>2, IdxType DEF StartIdx
  <2>2. BodyWords(msg[p].len) \in Nat
    BY <1>m, BodyWordsType
  <2>3. \A i \in StartIdx(p) + 1 .. StartIdx(p) + BodyWords(msg[p].len) :
           msg[p].words[i - StartIdx(p)] \in Word
    BY <1>m, <2>1, <2>2
  <2>4. data' \in [0 .. Cap - 1 -> Word]
    BY <1>7, <2>3 DEF WriteBody, TypeOK
  <2> QED
    BY <1>7, <2>4 DEF WriteBody, TypeOK, ReserveFits, Reserving, PcLabels, consVars
<1>8. ASSUME NEW p \in Producers, AwaitCommit(p)
      PROVE  TypeInv'
  BY <1>8 DEF AwaitCommit, TypeOK, ReserveFits, Reserving, PcLabels, shared, consVars
<1>9. ASSUME NEW p \in Producers, StoreCommit(p)
      PROVE  TypeInv'
  <2>1. /\ Reserve(ltail[p], msg[p].len) \in 0 .. Cap
        /\ ltail[p] \in Cursor
    <3>1. Reserve(ltail[p], msg[p].len) <= Cap
      BY <1>9 DEF StoreCommit, ReserveFits, Reserving
    <3>2. Reserve(ltail[p], msg[p].len) \in Nat
      BY <1>m, <1>t, ReserveType
    <3> QED
      BY <1>t, <3>1, <3>2, CapAssumption
  <2>2. tail_commit' \in Cursor
    BY <1>9, <2>1, AddType DEF StoreCommit
  <2>3. /\ DOMAIN msg' = Producers
        /\ \A q \in Producers : PayloadOK(msg'[q])
    BY <1>9, NoPayloadType DEF StoreCommit, ReturnPush, TypeOK
  <2>4. ReserveFits'
    BY <1>9 DEF StoreCommit, ReturnPush, TypeOK, ReserveFits, Reserving
  <2> QED
    BY <1>9, <1>z, <2>2, <2>3, <2>4 DEF StoreCommit, ReturnPush, TypeOK, PcLabels, consVars
<1>10. ASSUME NEW max \in PopLimits, StartPop(max)
       PROVE  TypeInv'
  BY <1>10 DEF StartPop, TypeOK, ReserveFits, shared, prodVars
<1>11. CASE PopLoad
  BY <1>11 DEF PopLoad, TypeOK, ReserveFits, shared, prodVars
<1>12. CASE PopInspect
  <2>1. data[Idx(chead)] \in Word
    BY IdxType DEF TypeOK
  <2>2. PICK word \in HeaderReads(data[Idx(chead)]) :
           IF word = WRAP_MARKER
           THEN /\ cnext' = Add(chead, Remaining(chead))
                /\ cout' = [NoOut EXCEPT !.res = "skip"]
                /\ cpc' = "store"
           ELSE LET len == word.val IN
                IF Corrupt(len)
                THEN /\ cnext' = chead
                     /\ cout' = [NoOut EXCEPT !.res = "corrupt"]
                     /\ cpc' = "store"
                ELSE /\ cnext' = Add(chead, RecordWords(len))
                     /\ cout' = [res |-> IF len > cmax THEN "too_large" ELSE "ok",
                                 len |-> len, words |-> <<>>]
                     /\ cpc' = IF len > cmax THEN "store" ELSE "copy"
    BY <1>12 DEF PopInspect
  <2>3. word # WRAP_MARKER => word.val \in Nat
    BY <2>1, HeaderReadsType
  <2>4. Remaining(chead) \in 0 .. Cap /\ chead \in Cursor
    BY RemainingType DEF TypeOK
  <2>5. cnext' \in Cursor
    <3>1. CASE word = WRAP_MARKER
      BY <2>2, <2>4, <3>1, AddType
    <3>2. CASE word # WRAP_MARKER /\ Corrupt(word.val)
      BY <2>2, <2>4, <3>2
    <3>3. CASE word # WRAP_MARKER /\ ~Corrupt(word.val)
      <4>1. RecordWords(word.val) \in 0 .. Cap
        BY <2>3, <2>4, <3>3, RecordWordsType, CapAssumption DEF Corrupt
      <4> QED
        BY <2>2, <2>4, <3>3, <4>1, AddType
    <3> QED
      BY <3>1, <3>2, <3>3
  <2>6. cout'.len \in Nat /\ cpc' \in {"store", "copy"}
    BY <2>2, <2>3 DEF NoOut
  <2> QED
    BY <1>12, <2>5, <2>6 DEF PopInspect, TypeOK, ReserveFits, shared, prodVars
<1>13. CASE PopCopy
  <2>1. cout'.len = cout.len
    BY <1>13 DEF PopCopy
  <2> QED
    BY <1>13, <2>1 DEF PopCopy, TypeOK, ReserveFits, shared, prodVars
<1>14. CASE PopStore
  <2>1. cout'.len \in Nat
    BY <1>14 DEF PopStore, NoOut
  <2> QED
    BY <1>14, <1>z, <2>1 DEF PopStore, TypeOK, ReserveFits, prodVars
<1>15. CASE UNCHANGED vars
  BY <1>15 DEF vars, shared, prodVars, consVars, TypeOK, ReserveFits
<1> QED
  BY <1>1, <1>2, <1>3, <1>4, <1>5, <1>6, <1>7, <1>8, <1>9, <1>10, <1>11, <1>12,
     <1>13, <1>14, <1>15
  DEF Next, PushStep, PopStep

\* Every cursor, word and local of the ring has its type in every reachable
\* state, whatever the threads' interleaving: in particular a wrapping_add
\* never leaves the cursor range and every plain write hits a real word.
THEOREM TypeCorrect == Spec => []TypeOK
<1>1. Init => TypeInv
  BY TypeInvInit
<1>2. TypeInv /\ [Next]_vars => TypeInv'
  BY TypeInvNext
<1>3. TypeInv => TypeOK
  BY DEF TypeInv
<1> QED
  BY <1>1, <1>2, <1>3, PTL DEF Spec

-----------------------------------------------------------------------------
(* The word stream. *)

\* RingBuffer::new only asks for a multiple of RECORD_ALIGN; the capacities
\* the system creates rings with are powers of two, so they divide 2^32.
Divides == CursorMod % Cap = 0

-----------------------------------------------------------------------------
(* The invariant.  at[i] is the place in the stream where the i-th         *)
(* reservation begins, at[Len(log) + 1] the place behind the last one, hp  *)
(* the consumer's place, lp[p] the consumer's place when p last read head, *)
(* ix[p] the number of p's reservation.                                    *)

\* Payloads that a push may send.
Sent == {Payload(p, n, len) : p \in Producers, n \in 0 .. MaxPushes,
                              len \in PayloadLens}

\* Where the record of a reservation at a begins, and where the next
\* reservation does.
Begin(a, m) == a + Padding(a, m.len)
End(a, m) == a + Reserve(a, m.len)

\* Reservations follow each other without gap or overlap.
Layout(at) ==
    /\ log \in Seq(Sent)
    /\ \A i \in 1 .. Len(log) : RecordWords(log[i].len) <= Cap
    /\ at \in [1 .. Len(log) + 1 -> Nat]
    /\ \A i \in 1 .. Len(log) : at[i + 1] = End(at[i], log[i])
    /\ \A i, j \in 1 .. Len(log) + 1 : i <= j => at[i] <= at[j]

\* What a finished pop call returned.
Returned == [res : {"ok", "too_large"}, len : Nat, words : Seq(Word)]

\* The shared cursors are places in the stream, at most Cap words apart; the
\* consumer stands at the oldest unread reservation or behind its padding.
Cursors(at, hp) ==
    /\ taken \in Seq(Returned)
    /\ published \in Nat /\ Len(taken) <= published /\ published <= Len(log)
    /\ hp \in Nat
    /\ \/ hp = at[Len(taken) + 1]
       \/ /\ Len(taken) < published
          /\ hp = Begin(at[Len(taken) + 1], log[Len(taken) + 1])
    /\ at[Len(log) + 1] <= hp + Cap
    /\ head = hp % CursorMod
    /\ tail_commit = at[published + 1] % CursorMod
    /\ tail_reserve = at[Len(log) + 1] % CursorMod

\* A producer between its loads and its compare-exchange holds a head that is
\* old, but not a whole turn of the cursor old.
Loaders(at, hp, lp) ==
    /\ lp \in [Producers -> Nat]
    /\ \A p \in Producers : pc[p] # "idle" =>
          msg[p] \in Sent /\ msg[p].src = p /\ RecordWords(msg[p].len) <= Cap
    /\ \A p \in Producers : pc[p] \in {"load_tail", "cas"} =>
          /\ lhead[p] = lp[p] % CursorMod
          /\ lp[p] <= hp
          /\ at[Len(log) + 1] - lp[p] < CursorMod
    /\ \A p \in Producers : pc[p] = "cas" =>
          Reserve(ltail[p], msg[p].len) + Sub(ltail[p], lhead[p]) <= Cap

\* The unpublished reservations and the producers in flight are in step.
Owners(at, ix) ==
    /\ ix \in [Producers -> Nat]
    /\ \A p \in InFlight :
          /\ ix[p] \in published + 1 .. Len(log)
          /\ log[ix[p]] = msg[p]
          /\ ltail[p] = at[ix[p]] % CursorMod
          /\ pc[p] = "commit" => ix[p] = published + 1
    /\ \A i \in published + 1 .. Len(log) :
          log[i].src \in InFlight /\ ix[log[i].src] = i

\* The three parts of a reservation, as the data region holds them.
Marked(d, a, m) == Padding(a, m.len) > 0 => d[Idx(a)] = WRAP_MARKER
Headed(d, a, m) == d[Idx(Begin(a, m))] = LenWord(m.len)
Filled(d, a, m) ==
    \A j \in 1 .. BodyWords(m.len) : d[Idx(Begin(a, m)) + j] = m.words[j]

\* Published, unread reservations are complete; the others as far as their
\* producers are.
Written(at, hp, ix) ==
    /\ \A i \in Len(taken) + 1 .. published :
          /\ hp <= at[i] => Marked(data, at[i], log[i])
          /\ Headed(data, at[i], log[i])
          /\ Filled(data, at[i], log[i])
    /\ \A p \in InFlight :
          /\ pc[p] # "marker" => Marked(data, at[ix[p]], msg[p])
          /\ pc[p] \notin {"marker", "length"} => Headed(data, at[ix[p]], msg[p])
          /\ pc[p] \in {"await", "commit"} => Filled(data, at[ix[p]], msg[p])

\* The consumer has seen a published reservation that it has not passed.
Reading(at, hp) ==
    LET k == Len(taken) + 1 IN
    /\ cpc # "idle" => cmax \in PopLimits
    /\ cpc \in {"idle", "load", "inspect"} => cout = NoOut
    /\ cpc = "inspect" => /\ chead = head
                          /\ \E c \in k .. published : ctail = at[c + 1] % CursorMod
    /\ cpc \in {"copy", "store"} =>
          /\ k <= published
          /\ cout.res \in {"ok", "too_large", "skip"}
          /\ cout.res = "skip" =>
                /\ hp = at[k]
                /\ cnext = Begin(at[k], log[k]) % CursorMod
          /\ cout.res # "skip" =>
                /\ hp = Begin(at[k], log[k])
                /\ cnext = at[k + 1] % CursorMod
                /\ cout = [res |-> cout.res, len |-> log[k].len, words |-> cout.words]
          /\ cout.res = "too_large" => cout.words = <<>> /\ log[k].len > cmax
          /\ cpc = "copy" => cout.res = "ok" /\ chead = head
          /\ cpc = "store" /\ cout.res = "ok" => cout.words = log[k].words

Shape(at, hp, lp, ix) ==
    /\ Layout(at)
    /\ Cursors(at, hp)
    /\ Loaders(at, hp, lp)
    /\ Owners(at, ix)
    /\ Written(at, hp, ix)
    /\ Reading(at, hp)

RingInv == Divides /\ TypeInv /\ \E at, hp, lp, ix : Shape(at, hp, lp, ix)

-----------------------------------------------------------------------------
(* Arithmetic of places and cursors *)

\* Division with remainder, and its uniqueness.
LEMMA DivMod ==
    ASSUME NEW b \in Nat \ {0}, NEW c \in Nat
    PROVE  /\ (c % b) \in 0 .. b - 1
           /\ (c \div b) \in Nat
           /\ c = b * (c \div b) + (c % b)
  OBVIOUS

LEMMA ModUnique ==
    ASSUME NEW b \in Nat \ {0}, NEW q \in Int, NEW r \in 0 .. b - 1
    PROVE  (b * q + r) % b = r
  OBVIOUS

\* Adding at most the modulus to a place.
LEMMA ModAdd ==
    ASSUME NEW b \in Nat \ {0}, NEW c \in Nat, NEW n \in 0 .. b
    PROVE  (c + n) % b = IF (c % b) + n >= b THEN (c % b) + n - b ELSE (c % b) + n
<1> DEFINE q == c \div b
           r == c % b
<1>1. q \in Nat /\ r \in 0 .. b - 1 /\ c = b * q + r
  BY DivMod
<1> HIDE DEF q, r
<1>2. CASE r + n < b
  <2>1. c + n = b * q + (r + n) /\ r + n \in 0 .. b - 1
    BY <1>1, <1>2
  <2>2. (b * q + (r + n)) % b = r + n
    BY <1>1, <2>1, ModUnique
  <2> QED
    BY <1>1, <1>2, <2>1, <2>2 DEF r
<1>3. CASE r + n >= b
  <2>1. q + 1 \in Int /\ r + n - b \in 0 .. b - 1
    BY <1>1, <1>3
  <2>2. b * (q + 1) = b * q + b
    BY <1>1
  <2>3. c + n = b * (q + 1) + (r + n - b)
    BY <1>1, <2>2
  <2>4. (b * (q + 1) + (r + n - b)) % b = r + n - b
    BY <2>1, ModUnique
  <2> QED
    BY <1>1, <1>3, <2>3, <2>4 DEF r
<1> QED
  BY <1>1, <1>2, <1>3

\* Two places less than b apart have different remainders.
LEMMA ModDistinct ==
    ASSUME NEW b \in Nat \ {0}, NEW x \in Nat, NEW y \in Nat, x < y, y - x < b
    PROVE  x % b # y % b
<1>1. (x + (y - x)) % b = IF (x % b) + (y - x) >= b THEN (x % b) + (y - x) - b
                                                  ELSE (x % b) + (y - x)
  <2>1. y - x \in 0 .. b
    OBVIOUS
  <2> QED
    BY <2>1, ModAdd
<1>2. x + (y - x) = y /\ (x % b) \in 0 .. b - 1
  BY DivMod
<1> QED
  BY <1>1, <1>2

\* A remainder modulo a multiple of b has the same remainder modulo b.
LEMMA ModMod ==
    ASSUME NEW b \in Nat \ {0}, NEW m \in Nat \ {0}, m % b = 0, NEW c \in Nat
    PROVE  (c % m) % b = c % b
<1> DEFINE t == m \div b
           q == c \div m
           r == c % m
           u == r \div b
           v == r % b
<1>1. t \in Nat /\ m = b * t
  BY DivMod
<1>2. q \in Nat /\ r \in Nat /\ c = m * q + r
  BY DivMod
<1>3. u \in Nat /\ v \in 0 .. b - 1 /\ r = b * u + v
  BY <1>2, DivMod
<1> HIDE DEF t, q, r, u, v
<1>4. m * q = b * (t * q) /\ t * q \in Nat
  BY <1>1, <1>2
<1>5. b * (t * q + u) = b * (t * q) + b * u
  BY <1>3, <1>4
<1>6. c = b * (t * q + u) + v
  BY <1>2, <1>3, <1>4, <1>5
<1>7. (b * (t * q + u) + v) % b = v
  <2>1. t * q + u \in Int
    BY <1>3, <1>4
  <2> QED
    BY <1>3, <2>1, ModUnique
<1> QED
  BY <1>6, <1>7 DEF v, r

\* The code's wrapping cursor operations, on places of the stream.
LEMMA CursorOfPlace ==
    ASSUME Divides, NEW x \in Nat
    PROVE  /\ (x % CursorMod) \in Cursor
           /\ Idx(x % CursorMod) = Idx(x)
           /\ Remaining(x % CursorMod) = Remaining(x)
           /\ \A n \in Nat : /\ Padding(x % CursorMod, n) = Padding(x, n)
                            /\ Reserve(x % CursorMod, n) = Reserve(x, n)
<1>1. (x % CursorMod) \in Cursor
  BY CapAssumption, ModAssumption, DivMod DEF Cursor
<1>2. Idx(x % CursorMod) = Idx(x)
  <2>1. CursorMod \in Nat \ {0} /\ CursorMod % Cap = 0
    BY CapAssumption, ModAssumption DEF Divides
  <2> QED
    BY <2>1, CapAssumption, ModMod DEF Idx
<1> QED
  BY <1>1, <1>2 DEF Remaining, Padding, Reserve

LEMMA AddPlace ==
    ASSUME NEW x \in Nat, NEW n \in 0 .. Cap
    PROVE  Add(x % CursorMod, n) = (x + n) % CursorMod
<1>1. n \in 0 .. CursorMod /\ CursorMod \in Nat \ {0}
  BY CapAssumption, ModAssumption
<1> QED
  BY <1>1, ModAdd DEF Add

LEMMA SubPlace ==
    ASSUME NEW x \in Nat, NEW y \in Nat, x <= y, y - x < CursorMod
    PROVE  Sub(y % CursorMod, x % CursorMod) = y - x
<1>1. y - x \in 0 .. CursorMod /\ CursorMod \in Nat \ {0} /\ x + (y - x) = y
  BY CapAssumption, ModAssumption
<1>2. y % CursorMod = IF (x % CursorMod) + (y - x) >= CursorMod
                      THEN (x % CursorMod) + (y - x) - CursorMod
                      ELSE (x % CursorMod) + (y - x)
  <2>1. (x + (y - x)) % CursorMod = IF (x % CursorMod) + (y - x) >= CursorMod
                      THEN (x % CursorMod) + (y - x) - CursorMod
                      ELSE (x % CursorMod) + (y - x)
    BY <1>1, ModAdd
  <2> QED
    BY <1>1, <2>1
<1>3. (x % CursorMod) \in 0 .. CursorMod - 1
  BY <1>1, DivMod
<1> QED
  BY <1>1, <1>2, <1>3 DEF Sub

\* Places within one capacity of each other have cells of their own.
LEMMA OwnCells ==
    ASSUME NEW x \in Nat, NEW y \in Nat, x < y, y - x < Cap
    PROVE  Idx(x) # Idx(y)
  BY CapAssumption, ModDistinct DEF Idx

LEMMA IdxPlace == \A x \in Nat : Idx(x) \in 0 .. Cap - 1
  BY CapAssumption, DivMod DEF Idx

\* The geometry of one reservation: padding up to the end of the region or
\* none, then the record in one piece.
LEMMA Geometry ==
    ASSUME NEW a \in Nat, NEW n \in Nat, RecordWords(n) <= Cap
    PROVE  /\ Padding(a, n) \in 0 .. Cap
           /\ Reserve(a, n) = Padding(a, n) + 1 + BodyWords(n)
           /\ BodyWords(n) \in Nat /\ RecordWords(n) = 1 + BodyWords(n)
           /\ Padding(a, n) > 0 => Padding(a, n) = Remaining(a)
           /\ Padding(a, n) = 0 => RecordWords(n) <= Remaining(a)
           /\ a + Padding(a, n) \in Nat
           /\ Idx(a + Padding(a, n)) + BodyWords(n) < Cap
           /\ \A j \in 0 .. BodyWords(n) :
                 Idx(a + Padding(a, n)) + j = Idx(a + Padding(a, n) + j)
<1> DEFINE s == a + Padding(a, n)
<1>1. Idx(a) \in 0 .. Cap - 1 /\ Remaining(a) \in 1 .. Cap /\ Cap \in Nat \ {0}
  BY IdxPlace, CapAssumption DEF Remaining
<1>2. BodyWords(n) \in Nat /\ RecordWords(n) = 1 + BodyWords(n)
  BY RecordWordsType, BodyWordsType
<1>3. Padding(a, n) \in 0 .. Cap /\ s \in Nat
  BY <1>1, <1>2 DEF Padding
<1>4. Idx(s) + BodyWords(n) < Cap
  <2>1. CASE Remaining(a) < RecordWords(n)
    <3>1. s = a + Remaining(a)
      BY <2>1 DEF Padding
    <3>2. Idx(s) = 0
      <4>1. (a + Remaining(a)) % Cap =
              IF (a % Cap) + Remaining(a) >= Cap THEN (a % Cap) + Remaining(a) - Cap
                                               ELSE (a % Cap) + Remaining(a)
        <5>1. Remaining(a) \in 0 .. Cap
          BY <1>1
        <5> QED
          BY <1>1, <5>1, ModAdd
      <4> QED
        BY <1>1, <3>1, <4>1 DEF Idx, Remaining
    <3> QED
      BY <1>1, <1>2, <3>2
  <2>2. CASE ~(Remaining(a) < RecordWords(n))
    <3>1. s = a
      BY <2>2, <1>1 DEF Padding
    <3> QED
      BY <1>1, <1>2, <2>2, <3>1 DEF Remaining
  <2> QED
    BY <2>1, <2>2
<1>5. ASSUME NEW j \in 0 .. BodyWords(n)
      PROVE  Idx(s) + j = Idx(s + j)
  <2>1. j \in 0 .. Cap /\ Idx(s) + j < Cap /\ Idx(s) \in Nat
    BY <1>1, <1>2, <1>3, <1>4, IdxPlace
  <2> HIDE DEF s
  <2>2. (s + j) % Cap = IF (s % Cap) + j >= Cap THEN (s % Cap) + j - Cap
                                               ELSE (s % Cap) + j
    BY <1>1, <1>3, <2>1, ModAdd
  <2> QED
    BY <2>1, <2>2, <1>1 DEF Idx
<1> QED
  BY <1>1, <1>2, <1>3, <1>4, <1>5 DEF Padding, Reserve

-----------------------------------------------------------------------------
(* Consequences of the invariant *)

LEMMA SentType ==
    ASSUME NEW m \in Sent
    PROVE  /\ m.len \in Nat /\ m.len \in PayloadLens /\ m.src \in Producers
           /\ m.words \in [1 .. BodyWords(m.len) -> Word]
<1>1. PICK p \in Producers, n \in 0 .. MaxPushes, len \in PayloadLens :
         m = Payload(p, n, len)
  BY DEF Sent
<1>2. PayloadOK(m)
  BY <1>1, PayloadType, LenAssumption, PushAssumption
<1> QED
  BY <1>1, <1>2 DEF PayloadOK, Payload

LEMMA LayoutFacts ==
    ASSUME NEW at, Layout(at)
    PROVE  /\ Len(log) \in Nat
           /\ \A i \in 1 .. Len(log) + 1 : at[i] \in Nat
           /\ \A i \in 1 .. Len(log) :
                 /\ log[i] \in Sent /\ log[i].len \in Nat /\ log[i].src \in Producers
                 /\ log[i].words \in [1 .. BodyWords(log[i].len) -> Word]
                 /\ BodyWords(log[i].len) \in Nat
                 /\ Begin(at[i], log[i]) \in Nat
                 /\ at[i] <= Begin(at[i], log[i])
                 /\ at[i + 1] = Begin(at[i], log[i]) + 1 + BodyWords(log[i].len)
<1>1. /\ Len(log) \in Nat
      /\ \A i \in 1 .. Len(log) + 1 : at[i] \in Nat
      /\ \A i \in 1 .. Len(log) : log[i] \in Sent
  BY DEF Layout
<1>2. ASSUME NEW i \in 1 .. Len(log)
      PROVE  /\ log[i].len \in Nat /\ log[i].src \in Producers
             /\ log[i].words \in [1 .. BodyWords(log[i].len) -> Word]
             /\ BodyWords(log[i].len) \in Nat
             /\ Begin(at[i], log[i]) \in Nat
             /\ at[i] <= Begin(at[i], log[i])
             /\ at[i + 1] = Begin(at[i], log[i]) + 1 + BodyWords(log[i].len)
  <2>1. /\ log[i].len \in Nat /\ log[i].src \in Producers
        /\ log[i].words \in [1 .. BodyWords(log[i].len) -> Word]
    BY <1>1, SentType
  <2>2. at[i] \in Nat /\ RecordWords(log[i].len) <= Cap /\ at[i + 1] = End(at[i], log[i])
    BY <1>1 DEF Layout
  <2>3. /\ Padding(at[i], log[i].len) \in 0 .. Cap
        /\ Reserve(at[i], log[i].len) = Padding(at[i], log[i].len) + 1 + BodyWords(log[i].len)
        /\ BodyWords(log[i].len) \in Nat
    BY <2>1, <2>2, Geometry
  <2> QED
    BY <2>1, <2>2, <2>3 DEF Begin, End
<1> QED
  BY <1>1, <1>2

\* The stream from the consumer's place to the last reservation's end is at
\* most Cap words long.
LEMMA WindowFacts ==
    ASSUME NEW at, NEW hp, Layout(at), Cursors(at, hp)
    PROVE  /\ hp \in Nat /\ Len(taken) \in Nat /\ published \in Nat
           /\ Len(taken) <= published /\ published <= Len(log)
           /\ at[Len(taken) + 1] <= hp /\ hp <= at[published + 1]
           /\ \A i \in Len(taken) + 2 .. Len(log) + 1 : hp <= at[i]
           /\ \A i \in published + 1 .. Len(log) + 1 : hp <= at[i]
           /\ \A i \in Len(taken) + 1 .. Len(log) : hp <= Begin(at[i], log[i])
           /\ \A i \in 1 .. Len(log) + 1 : at[i] <= hp + Cap
<1> DEFINE k == Len(taken)
           n == Len(log)
<1>1. /\ hp \in Nat /\ k \in Nat /\ published \in Nat /\ n \in Nat
      /\ k <= published /\ published <= n
  BY LayoutFacts DEF Cursors
<1>2. /\ \A i \in 1 .. n + 1 : at[i] \in Nat
      /\ \A i \in 1 .. n : /\ Begin(at[i], log[i]) \in Nat
                           /\ at[i] <= Begin(at[i], log[i])
                           /\ Begin(at[i], log[i]) <= at[i + 1]
  BY LayoutFacts
<1>3. \A i, j \in 1 .. n + 1 : i <= j => at[i] <= at[j]
  BY DEF Layout
<1>4. \/ hp = at[k + 1]
      \/ k < published /\ hp = Begin(at[k + 1], log[k + 1])
  BY DEF Cursors
<1>5. at[n + 1] <= hp + Cap
  BY DEF Cursors
<1> HIDE DEF k, n
<1>6. at[k + 1] <= hp /\ (k < published => hp <= at[k + 2])
  <2>1. k + 1 \in 1 .. n + 1 /\ (k < published => k + 1 \in 1 .. n /\ k + 1 + 1 = k + 2)
    BY <1>1
  <2>2. k < published => at[k + 1] <= at[k + 2]
    BY <1>1, <1>3
  <2> QED
    BY <1>1, <1>2, <1>4, <2>1, <2>2
<1>7. \A i \in k + 2 .. n + 1 : hp <= at[i]
  <2> TAKE i \in k + 2 .. n + 1
  <2>1. CASE hp = at[k + 1]
    BY <1>1, <1>2, <1>3, <2>1
  <2>2. CASE k < published
    <3>1. at[k + 2] <= at[i] /\ at[k + 2] \in Nat /\ at[i] \in Nat
      BY <1>1, <1>2, <1>3
    <3> QED
      BY <1>1, <1>6, <2>2, <3>1
  <2> QED
    BY <1>4, <2>1, <2>2
<1>8. \A i \in published + 1 .. n + 1 : hp <= at[i]
  <2> TAKE i \in published + 1 .. n + 1
  <2>1. CASE i = k + 1
    BY <1>1, <1>2, <1>4, <2>1
  <2>2. CASE i # k + 1
    BY <1>1, <1>7, <2>2
  <2> QED
    BY <2>1, <2>2
<1>9. \A i \in k + 1 .. n : hp <= Begin(at[i], log[i])
  <2> TAKE i \in k + 1 .. n
  <2>1. CASE i = k + 1
    BY <1>1, <1>2, <1>4, <2>1
  <2>2. CASE i # k + 1
    <3>1. hp <= at[i] /\ at[i] \in Nat /\ i \in 1 .. n
      BY <1>1, <1>2, <1>7, <2>2
    <3> QED
      BY <1>1, <1>2, <3>1
  <2> QED
    BY <2>1, <2>2
<1>10. \A i \in 1 .. n + 1 : at[i] <= hp + Cap
  <2> TAKE i \in 1 .. n + 1
  <2>1. at[i] <= at[n + 1] /\ at[i] \in Nat /\ at[n + 1] \in Nat
    BY <1>1, <1>2, <1>3
  <2> QED
    BY <1>1, <1>5, <2>1, CapAssumption
<1> QED
  BY <1>1, <1>6, <1>7, <1>8, <1>9, <1>10 DEF k, n

\* The words at places outside w1 .. w2 - 1 keep their content.
OnlyTouches(d, e, w1, w2) ==
    \A c \in 0 .. Cap - 1 : (\A x \in w1 .. w2 - 1 : c # Idx(x)) => e[c] = d[c]

\* A write into one reservation leaves the words of the others alone.
LEMMA KeepRecord ==
    ASSUME NEW d, NEW e, NEW hp \in Nat, NEW w1 \in Nat, NEW w2 \in Nat,
           hp <= w1, w2 <= hp + Cap,
           OnlyTouches(d, e, w1, w2),
           NEW a \in Nat, NEW m, m.len \in Nat, RecordWords(m.len) <= Cap,
           hp <= Begin(a, m), End(a, m) <= hp + Cap,
           End(a, m) <= w1 \/ w2 <= a
    PROVE  /\ hp <= a /\ Marked(d, a, m) => Marked(e, a, m)
           /\ Headed(d, a, m) => Headed(e, a, m)
           /\ Filled(d, a, m) => Filled(e, a, m)
<1>g. /\ Padding(a, m.len) \in 0 .. Cap /\ BodyWords(m.len) \in Nat
      /\ End(a, m) = Begin(a, m) + 1 + BodyWords(m.len)
      /\ Begin(a, m) \in Nat /\ Begin(a, m) = a + Padding(a, m.len)
      /\ Idx(Begin(a, m)) + BodyWords(m.len) < Cap
      /\ \A j \in 0 .. BodyWords(m.len) : Idx(Begin(a, m)) + j = Idx(Begin(a, m) + j)
  <2>1. /\ Padding(a, m.len) \in 0 .. Cap /\ BodyWords(m.len) \in Nat
        /\ Reserve(a, m.len) = Padding(a, m.len) + 1 + BodyWords(m.len)
    BY Geometry
  <2>2. /\ a + Padding(a, m.len) \in Nat
        /\ Idx(a + Padding(a, m.len)) + BodyWords(m.len) < Cap
        /\ \A j \in 0 .. BodyWords(m.len) :
              Idx(a + Padding(a, m.len)) + j = Idx(a + Padding(a, m.len) + j)
    BY Geometry
  <2> QED
    BY <2>1, <2>2 DEF Begin, End
<1>1. ASSUME NEW x \in Nat, hp <= x, a <= x, x < End(a, m)
      PROVE  e[Idx(x)] = d[Idx(x)]
  <2>1. ASSUME NEW y \in w1 .. w2 - 1 PROVE Idx(x) # Idx(y)
    <3>1. y \in Nat /\ y < hp + Cap /\ hp <= y /\ x < hp + Cap
      BY <1>1, <1>g, CapAssumption
    <3>2. CASE x < y
      BY <1>1, <3>1, <3>2, OwnCells, CapAssumption
    <3>3. CASE y < x
      BY <1>1, <3>1, <3>3, OwnCells, CapAssumption
    <3>4. x # y
      BY <1>1, <1>g
    <3> QED
      BY <3>1, <3>2, <3>3, <3>4
  <2> QED
    BY <2>1, IdxPlace DEF OnlyTouches
<1>2. hp <= a /\ Marked(d, a, m) => Marked(e, a, m)
  BY <1>1, <1>g DEF Marked
<1>3. Headed(d, a, m) => Headed(e, a, m)
  BY <1>1, <1>g DEF Headed
<1>4. ASSUME Filled(d, a, m), NEW j \in 1 .. BodyWords(m.len)
      PROVE  e[Idx(Begin(a, m)) + j] = m.words[j]
  <2>1. Idx(Begin(a, m)) + j = Idx(Begin(a, m) + j)
    BY <1>g
  <2>2. /\ Begin(a, m) + j \in Nat /\ hp <= Begin(a, m) + j
        /\ a <= Begin(a, m) + j /\ Begin(a, m) + j < End(a, m)
    BY <1>g
  <2> QED
    BY <1>1, <1>4, <2>1, <2>2 DEF Filled
<1> QED
  BY <1>2, <1>3, <1>4 DEF Filled

-----------------------------------------------------------------------------
(* Producer steps that touch only the producer's locals *)

LEMMA StepStartPush ==
    ASSUME Divides, TypeInv, NEW at, NEW hp, NEW lp, NEW ix, Shape(at, hp, lp, ix),
           NEW p \in Producers, NEW len \in PayloadLens, StartPush(p, len)
    PROVE  Shape(at, hp, lp, ix)'
<1> USE DEF Shape, shared, consVars, history
<1>1. RecordWords(len) <= Cap => Payload(p, pushes[p], len) \in Sent
  BY DEF Sent, TypeInv, TypeOK
<1>2. Payload(p, pushes[p], len).src = p /\ Payload(p, pushes[p], len).len = len
  BY DEF Payload
<1>3. len \in Nat /\ RecordWords(len) \in Nat /\ Cap \in Nat
  BY LenAssumption, RecordWordsType, CapAssumption
<1>4. InFlight' = InFlight /\ p \notin InFlight
  BY DEF StartPush, InFlight, TypeInv, TypeOK
<1>5. \A q \in Producers : q # p => pc'[q] = pc[q] /\ msg'[q] = msg[q]
  BY DEF StartPush, TypeInv, TypeOK
<1>6. pc'[p] \in {"idle", "load_head"} /\
      (pc'[p] = "load_head" => RecordWords(len) <= Cap /\ msg'[p] = Payload(p, pushes[p], len))
  BY <1>3 DEF StartPush, TypeInv, TypeOK
<1>7. Layout(at)' /\ Cursors(at, hp)' /\ Reading(at, hp)'
  BY DEF StartPush, Layout, Cursors, Reading
<1>8. Loaders(at, hp, lp)'
  BY <1>1, <1>2, <1>3, <1>5, <1>6 DEF StartPush, Loaders
<1>9. Owners(at, ix)'
  BY <1>4, <1>5 DEF StartPush, Owners, InFlight
<1>10. Written(at, hp, ix)'
  BY <1>4, <1>5 DEF StartPush, Written, InFlight
<1> QED
  BY <1>7, <1>8, <1>9, <1>10

LEMMA StepLoadHead ==
    ASSUME Divides, TypeInv, NEW at, NEW hp, NEW lp, NEW ix, Shape(at, hp, lp, ix),
           NEW p \in Producers, LoadHead(p)
    PROVE  Shape(at, hp, [lp EXCEPT ![p] = hp], ix)'
<1> USE DEF Shape, shared, consVars, history
<1>1. InFlight' = InFlight /\ p \notin InFlight
  BY DEF LoadHead, InFlight, TypeInv, TypeOK
<1>2. \A q \in Producers : q # p => pc'[q] = pc[q] /\ lhead'[q] = lhead[q]
  BY DEF LoadHead, TypeInv, TypeOK
<1>3. pc'[p] = "load_tail" /\ lhead'[p] = head /\ pc[p] # "idle"
  BY DEF LoadHead, TypeInv, TypeOK
<1>4. hp \in Nat /\ at[Len(log) + 1] - hp < CursorMod
  <2>1. hp \in Nat /\ at[Len(log) + 1] \in Nat /\ at[Len(log) + 1] <= hp + Cap
    BY WindowFacts, LayoutFacts
  <2> QED
    BY <2>1, CapAssumption, ModAssumption
<1>5. Layout(at)' /\ Cursors(at, hp)' /\ Reading(at, hp)'
  BY DEF LoadHead, Layout, Cursors, Reading
<1>6. Loaders(at, hp, [lp EXCEPT ![p] = hp])'
  BY <1>2, <1>3, <1>4 DEF LoadHead, Loaders, Cursors
<1>7. Owners(at, ix)'
  BY <1>1, <1>2 DEF LoadHead, Owners, InFlight
<1>8. Written(at, hp, ix)'
  BY <1>1, <1>2 DEF LoadHead, Written, InFlight
<1> QED
  BY <1>5, <1>6, <1>7, <1>8

LEMMA StepLoadTail ==
    ASSUME Divides, TypeInv, NEW at, NEW hp, NEW lp, NEW ix, Shape(at, hp, lp, ix),
           NEW p \in Producers, LoadTail(p)
    PROVE  Shape(at, hp, lp, ix)'
<1> USE DEF Shape, shared, consVars, history
<1> DEFINE used == Sub(tail_reserve, lhead[p])
           next == AfterLoads(used, tail_reserve, msg[p].len)
<1>1. next \in {"idle", "load_head", "cas"} /\ pc' = [pc EXCEPT ![p] = next]
  BY DEF LoadTail, AfterLoads
<1>2. next # "idle" => ltail' = [ltail EXCEPT ![p] = tail_reserve] /\ lhead' = lhead /\ msg' = msg
  BY DEF LoadTail
<1>3. next = "cas" => Reserve(tail_reserve, msg[p].len) + used <= Cap
  <2>1. used \in Nat
    <3>1. lhead[p] \in Cursor /\ tail_reserve \in Cursor
      BY DEF TypeInv, TypeOK
    <3>2. used \in Cursor
      BY <3>1, SubType
    <3> QED
      BY <3>2 DEF Cursor
  <2>2. Reserve(tail_reserve, msg[p].len) \in Nat
    BY ReserveType DEF TypeInv, TypeOK, PayloadOK
  <2> QED
    BY <2>1, <2>2, CapAssumption DEF AfterLoads
<1> HIDE DEF next
<1>4. InFlight' = InFlight /\ p \notin InFlight
  BY <1>1 DEF LoadTail, InFlight, TypeInv, TypeOK
<1>5. \A q \in Producers : q # p => /\ pc'[q] = pc[q] /\ msg'[q] = msg[q]
                                   /\ lhead'[q] = lhead[q] /\ ltail'[q] = ltail[q]
  BY DEF LoadTail, ReturnPush, TypeInv, TypeOK
<1>6. Layout(at)' /\ Cursors(at, hp)' /\ Reading(at, hp)'
  BY DEF LoadTail, Layout, Cursors, Reading
<1>7. pc'[p] = next /\ pc[p] = "load_tail" /\ log' = log
  BY <1>1 DEF LoadTail, TypeInv, TypeOK
<1>8. next # "idle" => ltail'[p] = tail_reserve /\ lhead'[p] = lhead[p] /\ msg'[p] = msg[p]
  BY <1>2 DEF TypeInv, TypeOK
<1>9. Loaders(at, hp, lp)'
  BY <1>1, <1>3, <1>5, <1>7, <1>8 DEF Loaders
<1>10. Owners(at, ix)'
  BY <1>4, <1>5 DEF LoadTail, Owners, InFlight
<1>11. Written(at, hp, ix)'
  BY <1>4, <1>5 DEF LoadTail, Written, InFlight
<1> QED
  BY <1>6, <1>9, <1>10, <1>11

\* The spin ends exactly when every earlier reservation is published.
LEMMA StepAwaitCommit ==
    ASSUME Divides, TypeInv, NEW at, NEW hp, NEW lp, NEW ix, Shape(at, hp, lp, ix),
           NEW p \in Producers, AwaitCommit(p)
    PROVE  Shape(at, hp, lp, ix)'
<1> USE DEF Shape, shared, consVars, history
<1>1. InFlight' = InFlight /\ p \in InFlight
  BY DEF AwaitCommit, InFlight, TypeInv, TypeOK
<1>2. \A q \in Producers : q # p => pc'[q] = pc[q]
  BY DEF AwaitCommit, TypeInv, TypeOK
<1>3. pc'[p] = "commit" /\ pc[p] = "await"
  BY DEF AwaitCommit, TypeInv, TypeOK
<1>4. ix[p] = published + 1
  <2> DEFINE i == ix[p]
             c == published + 1
  <2>1. i \in c .. Len(log) /\ published \in Nat /\ Len(log) \in Nat
    BY <1>1, LayoutFacts, WindowFacts DEF Owners
  <2>2. at[i] % CursorMod = at[c] % CursorMod
    BY <1>1 DEF AwaitCommit, Owners, Cursors
  <2>3. /\ at[i] \in Nat /\ at[c] \in Nat /\ hp \in Nat
        /\ at[i] <= hp + Cap /\ hp <= at[c]
    BY <2>1, LayoutFacts, WindowFacts
  <2>4. i > c => at[c] < at[i]
    <3>1. c \in 1 .. Len(log)
      BY <2>1
    <3>2. at[c + 1] = Begin(at[c], log[c]) + 1 + BodyWords(log[c].len)
      BY <3>1, LayoutFacts
    <3>3. /\ at[c] <= Begin(at[c], log[c]) /\ Begin(at[c], log[c]) \in Nat
          /\ BodyWords(log[c].len) \in Nat
      BY <3>1, LayoutFacts
    <3>4. i > c => at[c + 1] <= at[i]
      BY <2>1 DEF Layout
    <3> QED
      BY <2>3, <3>2, <3>3, <3>4
  <2>5. i > c => FALSE
    <3>1. at[i] - at[c] < CursorMod /\ CursorMod \in Nat \ {0}
      BY <2>3, CapAssumption, ModAssumption
    <3> QED
      BY <2>2, <2>3, <2>4, <3>1, ModDistinct
  <2> QED
    BY <2>1, <2>5
<1>5. Layout(at)' /\ Cursors(at, hp)' /\ Reading(at, hp)'
  BY DEF AwaitCommit, Layout, Cursors, Reading
<1>6. Loaders(at, hp, lp)'
  BY <1>2, <1>3 DEF AwaitCommit, Loaders
<1>7. Owners(at, ix)'
  BY <1>1, <1>2, <1>3, <1>4 DEF AwaitCommit, Owners, InFlight
<1>8. Written(at, hp, ix)'
  BY <1>1, <1>2, <1>3 DEF AwaitCommit, Written, InFlight
<1> QED
  BY <1>5, <1>6, <1>7, <1>8

-----------------------------------------------------------------------------
(* The compare-exchange *)

LEMMA StepCasFails ==
    ASSUME Divides, TypeInv, NEW at, NEW hp, NEW lp, NEW ix, Shape(at, hp, lp, ix),
           NEW p \in Producers, Cas(p), tail_reserve # ltail[p]
    PROVE  Shape(at, hp, lp, ix)'
<1> USE DEF Shape, consVars
<1>1. InFlight' = InFlight /\ p \notin InFlight
  BY DEF Cas, InFlight, TypeInv, TypeOK
<1>2. \A q \in Producers : q # p => pc'[q] = pc[q]
  BY DEF Cas, TypeInv, TypeOK
<1>3. pc'[p] = "load_head" /\ pc[p] = "cas"
  BY DEF Cas, TypeInv, TypeOK
<1>4. UNCHANGED <<head, tail_reserve, tail_commit, data, ltail, lhead, msg, cpc, chead,
                  ctail, cmax, cnext, cout, log, published, taken>>
  BY DEF Cas
<1>5. Layout(at)' /\ Cursors(at, hp)' /\ Reading(at, hp)'
  BY <1>4 DEF Layout, Cursors, Reading
<1>6. Loaders(at, hp, lp)'
  BY <1>2, <1>3, <1>4 DEF Loaders
<1>7. Owners(at, ix)'
  BY <1>1, <1>2, <1>4 DEF Owners, InFlight
<1>8. Written(at, hp, ix)'
  BY <1>1, <1>2, <1>4 DEF Written, InFlight
<1> QED
  BY <1>5, <1>6, <1>7, <1>8

\* The head that the producer read, however old, leaves the room its
\* reservation needs behind the last one.
LEMMA CasFits ==
    ASSUME Divides, TypeInv, NEW at, NEW hp, NEW lp, NEW ix, Shape(at, hp, lp, ix),
           NEW p \in Producers, pc[p] = "cas", tail_reserve = ltail[p]
    PROVE  LET z == at[Len(log) + 1]
               r == Reserve(z, msg[p].len)
           IN  /\ z \in Nat /\ hp \in Nat /\ hp <= z
               /\ ltail[p] = z % CursorMod
               /\ Reserve(ltail[p], msg[p].len) = r
               /\ r \in Nat /\ RecordWords(msg[p].len) <= r /\ r > 0
               /\ RecordWords(msg[p].len) \in Nat
               /\ z + r <= hp + Cap
<1> USE DEF Shape
<1> DEFINE z == at[Len(log) + 1]
           m == msg[p]
           r == Reserve(z, m.len)
<1>1. z \in Nat /\ hp \in Nat /\ hp <= z
  <2>1. Len(log) \in Nat /\ published \in Nat /\ published <= Len(log)
    BY LayoutFacts, WindowFacts
  <2>2. /\ Len(log) + 1 \in 1 .. Len(log) + 1
        /\ Len(log) + 1 \in published + 1 .. Len(log) + 1
    BY <2>1
  <2> QED
    BY <2>2, LayoutFacts, WindowFacts
<1>2. m \in Sent /\ RecordWords(m.len) <= Cap /\ m.len \in Nat
  BY SentType DEF Loaders
<1>3. ltail[p] = z % CursorMod
  BY DEF Cursors
<1>4. Reserve(ltail[p], m.len) = r
  BY <1>1, <1>2, <1>3, CursorOfPlace
<1>5. /\ lhead[p] = lp[p] % CursorMod /\ lp[p] \in Nat /\ lp[p] <= hp
      /\ z - lp[p] < CursorMod
      /\ Reserve(ltail[p], m.len) + Sub(ltail[p], lhead[p]) <= Cap
  BY DEF Loaders
<1> HIDE DEF z, m
<1>6. r \in Nat /\ RecordWords(m.len) <= r /\ r > 0 /\ RecordWords(m.len) \in Nat
  <2>1. /\ Padding(z, m.len) \in 0 .. Cap /\ BodyWords(m.len) \in Nat
        /\ r = Padding(z, m.len) + 1 + BodyWords(m.len)
        /\ RecordWords(m.len) = 1 + BodyWords(m.len)
    BY <1>1, <1>2, Geometry
  <2> QED
    BY <2>1
<1> HIDE DEF r
<1>7. Sub(ltail[p], lhead[p]) = z - lp[p]
  <2>1. lp[p] <= z
    BY <1>1, <1>5
  <2> QED
    BY <1>1, <1>3, <1>5, <2>1, SubPlace
<1>8. z + r <= hp + Cap
  <2>1. r + (z - lp[p]) <= Cap /\ lp[p] <= hp /\ lp[p] \in Nat
    BY <1>4, <1>5, <1>7
  <2> QED
    BY <1>1, <1>6, <2>1, CapAssumption
<1> QED
  BY <1>1, <1>3, <1>4, <1>6, <1>8 DEF z, m, r

LEMMA StepCas ==
    ASSUME Divides, TypeInv, NEW at, NEW hp, NEW lp, NEW ix, Shape(at, hp, lp, ix),
           NEW p \in Producers, Cas(p), tail_reserve = ltail[p]
    PROVE  \E at2, ix2 : Shape(at2, hp, lp, ix2)'
<1> USE DEF Shape, consVars
<1>n. PICK n \in Nat : n = Len(log)
  BY LayoutFacts
<1>m. PICK m : m = msg[p]
  OBVIOUS
<1> DEFINE z == at[n + 1]
           r == Reserve(z, m.len)
           at2 == [i \in 1 .. n + 2 |-> IF i <= n + 1 THEN at[i] ELSE z + r]
           ix2 == [ix EXCEPT ![p] = n + 1]
<1>1. /\ n \in Nat /\ z \in Nat /\ hp \in Nat /\ published \in Nat /\ Len(taken) \in Nat
      /\ Len(taken) <= published /\ published <= n
      /\ CursorMod \in Nat \ {0} /\ Cap \in Nat \ {0}
  <2>1. z \in Nat
    BY <1>n, LayoutFacts
  <2> QED
    BY <1>n, <2>1, WindowFacts, CapAssumption, ModAssumption
<1>2. /\ m \in Sent /\ m.src = p /\ RecordWords(m.len) <= Cap
      /\ m.len \in Nat
  BY <1>m, SentType DEF Cas, Loaders
<1>3. /\ pc' = [pc EXCEPT ![p] = "marker"]
      /\ log' = Append(log, m)
      /\ tail_reserve' = Add(ltail[p], Reserve(ltail[p], m.len))
      /\ NoLap(Reserve(ltail[p], m.len))
      /\ lhead' = [lhead EXCEPT ![p] = 0]
      /\ pc[p] = "cas"
      /\ UNCHANGED <<head, tail_commit, data, ltail, msg, cpc, chead,
                     ctail, cmax, cnext, cout, published, taken>>
  BY <1>m DEF Cas
<1>4. /\ log \in Seq(Sent) /\ log' \in Seq(Sent) /\ Len(log') = n + 1
      /\ log'[n + 1] = m
      /\ \A i \in 1 .. n : log'[i] = log[i]
  BY <1>n, <1>2, <1>3 DEF Layout
<1>5. /\ ltail[p] = z % CursorMod
      /\ Reserve(ltail[p], m.len) = r
      /\ r \in Nat /\ r > 0
      /\ hp <= z /\ z + r <= hp + Cap
  BY <1>n, <1>m, <1>3, CasFits
<1>7. hp <= z
  BY <1>5
<1>8. z + r <= hp + Cap
  BY <1>5
<1>9. r \in 0 .. Cap
  BY <1>1, <1>5, <1>7, <1>8
<1>10. tail_reserve' = (z + r) % CursorMod
  BY <1>1, <1>3, <1>5, <1>9, AddPlace
<1>11. ASSUME NEW q \in Producers, q # p, pc[q] \in {"load_tail", "cas"}
       PROVE  z + r - lp[q] < CursorMod
  <2>1. /\ lhead[q] = lp[q] % CursorMod /\ lp[q] \in Nat /\ lp[q] <= hp
        /\ z - lp[q] < CursorMod /\ tail_reserve = z % CursorMod
    BY <1>n, <1>11 DEF Loaders, Cursors
  <2>2. Sub(tail_reserve, lhead[q]) = z - lp[q]
    BY <1>1, <1>7, <2>1, SubPlace
  <2>3. Sub(tail_reserve, lhead[q]) + r < CursorMod
    BY <1>3, <1>5, <1>11 DEF NoLap
  <2> QED
    BY <1>1, <1>5, <2>1, <2>2, <2>3
<1> HIDE DEF r
<1>12. /\ at2 \in [1 .. n + 2 -> Nat] /\ at2[n + 2] = z + r
       /\ \A i \in 1 .. n + 1 : at2[i] = at[i] /\ at[i] \in Nat
  <2>1. \A i \in 1 .. n + 1 : at[i] \in Nat
    BY <1>n, LayoutFacts
  <2> QED
    BY <1>1, <1>5, <2>1
<1>13. ix2 \in [Producers -> Nat] /\ ix2[p] = n + 1 /\ \A q \in Producers : q # p => ix2[q] = ix[q]
  BY <1>1 DEF Owners
<1> HIDE DEF at2, ix2, z
<1>14. /\ pc'[p] = "marker" /\ \A q \in Producers : q # p => pc'[q] = pc[q]
       /\ p \notin InFlight /\ p \in InFlight'
       /\ \A q \in Producers : q # p => (q \in InFlight' <=> q \in InFlight)
  BY <1>3 DEF InFlight, TypeInv, TypeOK
<1>15. Layout(at2)'
  <2>1. \A i \in 1 .. n + 1 : RecordWords(log'[i].len) <= Cap
    BY <1>n, <1>2, <1>4 DEF Layout
  <2>2. ASSUME NEW i \in 1 .. n + 1
        PROVE  at2[i + 1] = End(at2[i], log'[i])
    <3>1. CASE i = n + 1
      BY <1>1, <1>4, <1>12, <3>1 DEF End, r, z
    <3>2. CASE i \in 1 .. n
      <4>1. at[i + 1] = End(at[i], log[i])
        BY <1>n, <3>2 DEF Layout
      <4> QED
        BY <1>1, <1>4, <1>12, <3>2, <4>1 DEF End
    <3> QED
      BY <1>1, <3>1, <3>2
  <2>3. ASSUME NEW i \in 1 .. n + 2, NEW j \in 1 .. n + 2, i <= j
        PROVE  at2[i] <= at2[j]
    <3>1. \A a, b \in 1 .. n + 1 : a <= b => at[a] <= at[b]
      BY <1>n DEF Layout
    <3>2. CASE j <= n + 1
      BY <1>1, <1>12, <2>3, <3>1, <3>2
    <3>3. CASE j = n + 2 /\ i <= n + 1
      <4>1. at[i] <= z /\ at2[i] = at[i]
        BY <1>1, <1>12, <3>1, <3>3 DEF z
      <4> QED
        <5>1. z \in Nat /\ r \in Nat /\ at[i] \in Nat /\ at2[j] = z + r
          BY <1>1, <1>5, <1>12, <3>3
        <5> QED
          BY <4>1, <5>1
    <3>4. CASE j = n + 2 /\ i = n + 2
      BY <1>12, <1>1, <1>5, <3>4
    <3> QED
      BY <1>1, <2>3, <3>2, <3>3, <3>4
  <2>4. Len(log') + 1 = n + 2
    BY <1>1, <1>4
  <2>5. \A i \in 1 .. Len(log') : RecordWords(log'[i].len) <= Cap
    BY <1>4, <2>1
  <2>6. at2 \in [1 .. Len(log') + 1 -> Nat]
    BY <1>12, <2>4
  <2>7. \A i \in 1 .. Len(log') : at2[i + 1] = End(at2[i], log'[i])
    BY <1>4, <2>2
  <2>8. \A i, j \in 1 .. Len(log') + 1 : i <= j => at2[i] <= at2[j]
    BY <2>3, <2>4
  <2> QED
    BY <1>4, <2>5, <2>6, <2>7, <2>8 DEF Layout
<1>16. Cursors(at2, hp)'
  <2>1. Len(taken) + 1 \in 1 .. n + 1 /\ published + 1 \in 1 .. n + 1
    BY <1>1
  <2>2. Len(taken) < published => Len(taken) + 1 \in 1 .. n
    BY <1>1
  <2>3. /\ at2[Len(taken) + 1] = at[Len(taken) + 1]
        /\ at2[published + 1] = at[published + 1]
        /\ Len(taken) < published => log'[Len(taken) + 1] = log[Len(taken) + 1]
    BY <1>4, <1>12, <2>1, <2>2
  <2>4. /\ taken' = taken /\ published' = published /\ head' = head
        /\ tail_commit' = tail_commit
    BY <1>3
  <2>5. at2[Len(log') + 1] = z + r
    <3>1. Len(log') + 1 = n + 2
      BY <1>1, <1>4
    <3> QED
      BY <1>12, <3>1
  <2>6. /\ taken \in Seq(Returned)
        /\ head = hp % CursorMod
        /\ tail_commit = at[published + 1] % CursorMod
        /\ \/ hp = at[Len(taken) + 1]
           \/ /\ Len(taken) < published
              /\ hp = Begin(at[Len(taken) + 1], log[Len(taken) + 1])
    BY DEF Cursors
  <2>7. published <= Len(log')
    BY <1>1, <1>4
  <2>8. \/ hp = at2[Len(taken) + 1]
        \/ /\ Len(taken) < published
           /\ hp = Begin(at2[Len(taken) + 1], log'[Len(taken) + 1])
    BY <2>3, <2>6
  <2>9. at2[Len(log') + 1] <= hp + Cap
    BY <1>8, <2>5
  <2>10. /\ head' = hp % CursorMod
         /\ tail_commit' = at2[published + 1] % CursorMod
         /\ tail_reserve' = at2[Len(log') + 1] % CursorMod
    BY <1>10, <2>3, <2>4, <2>5, <2>6
  <2> QED
    BY <1>1, <2>4, <2>6, <2>7, <2>8, <2>9, <2>10 DEF Cursors
<1>17. Loaders(at2, hp, lp)'
  <2>1. \A q \in Producers : q # p => lhead'[q] = lhead[q]
    BY <1>3 DEF TypeInv, TypeOK
  <2> QED
    <3>1. \A q \in Producers : pc'[q] # "idle" =>
             msg'[q] \in Sent /\ msg'[q].src = q /\ RecordWords(msg'[q].len) <= Cap
      BY <1>m, <1>2, <1>3, <1>14 DEF Loaders
    <3>2. ASSUME NEW q \in Producers, pc'[q] \in {"load_tail", "cas"}
          PROVE  /\ lhead'[q] = lp[q] % CursorMod
                 /\ lp[q] <= hp
                 /\ at2[n + 2] - lp[q] < CursorMod
                 /\ pc'[q] = "cas" => Reserve(ltail'[q], msg'[q].len) + Sub(ltail'[q], lhead'[q]) <= Cap
      <4>1. q # p /\ pc[q] = pc'[q]
        BY <1>14, <3>2
      <4> QED
        <5>1. lhead[q] = lp[q] % CursorMod /\ lp[q] <= hp
          BY <3>2, <4>1 DEF Loaders
        <5>2. pc[q] = "cas" => Reserve(ltail[q], msg[q].len) + Sub(ltail[q], lhead[q]) <= Cap
          BY DEF Loaders
        <5>3. z + r - lp[q] < CursorMod
          BY <1>11, <3>2, <4>1
        <5>4. at2[n + 2] - lp[q] < CursorMod
          <6>1. lp[q] \in Nat
            BY DEF Loaders
          <6>2. z \in Nat /\ r \in Nat /\ CursorMod \in Nat
            BY <1>1, <1>5
          <6>3. at2[n + 2] = z + r
            BY <1>12
          <6> QED
            BY <5>3, <6>1, <6>2, <6>3
        <5>5. lhead'[q] = lhead[q] /\ ltail'[q] = ltail[q] /\ msg'[q] = msg[q]
          BY <1>3, <2>1, <4>1
        <5> QED
          BY <4>1, <5>1, <5>2, <5>4, <5>5
    <3>3. Len(log') + 1 = n + 2
      BY <1>1, <1>4
    <3> QED
      BY <3>1, <3>2, <3>3 DEF Loaders
<1>18. Owners(at2, ix2)'
  <2>1. ASSUME NEW q \in InFlight'
        PROVE  /\ ix2[q] \in published + 1 .. n + 1
               /\ log'[ix2[q]] = msg[q]
               /\ ltail[q] = at2[ix2[q]] % CursorMod
               /\ pc'[q] = "commit" => ix2[q] = published + 1
    <3>1. CASE q = p
      <4>1. n + 1 \in published + 1 .. n + 1 /\ at2[n + 1] = z
        BY <1>1, <1>12 DEF z
      <4> QED
        BY <1>m, <1>4, <1>5, <1>13, <1>14, <3>1, <4>1
    <3>2. CASE q # p
      <4>1. q \in InFlight /\ q \in Producers
        BY <1>14, <3>2 DEF InFlight
      <4>2. /\ ix[q] \in published + 1 .. n /\ log[ix[q]] = msg[q]
            /\ ltail[q] = at[ix[q]] % CursorMod
            /\ pc[q] = "commit" => ix[q] = published + 1
        BY <1>n, <4>1 DEF Owners
      <4>3. ix[q] \in published + 1 .. n + 1 /\ ix[q] \in 1 .. n /\ ix[q] \in 1 .. n + 1
        BY <1>1, <4>2
      <4> QED
        BY <1>4, <1>12, <1>13, <1>14, <3>2, <4>1, <4>2, <4>3
    <3> QED
      BY <3>1, <3>2
  <2>2. ASSUME NEW i \in published + 1 .. n + 1
        PROVE  log'[i].src \in InFlight' /\ ix2[log'[i].src] = i
    <3>1. CASE i = n + 1
      BY <1>2, <1>4, <1>13, <1>14, <3>1
    <3>2. CASE i # n + 1
      <4>1. i \in published + 1 .. n /\ i \in 1 .. n
        BY <1>1, <3>2
      <4>2. log[i].src \in InFlight /\ ix[log[i].src] = i
        BY <1>n, <4>1 DEF Owners
      <4>3. log[i].src # p /\ log[i].src \in Producers
        BY <1>14, <4>2 DEF InFlight
      <4> QED
        BY <1>4, <1>13, <1>14, <4>1, <4>2, <4>3
    <3> QED
      BY <3>1, <3>2
  <2> QED
    BY <1>m, <1>3, <1>4, <1>13, <2>1, <2>2 DEF Owners
<1>19. Written(at2, hp, ix2)'
  <2>1. ASSUME NEW i \in Len(taken) + 1 .. published
        PROVE  /\ hp <= at2[i] => Marked(data, at2[i], log'[i])
               /\ Headed(data, at2[i], log'[i])
               /\ Filled(data, at2[i], log'[i])
    <3>1. i \in 1 .. n
      BY <1>1
    <3>2. at2[i] = at[i] /\ log'[i] = log[i]
      BY <1>1, <1>4, <1>12, <3>1
    <3> QED
      BY <2>1, <3>2 DEF Written
  <2>2. ASSUME NEW q \in InFlight'
        PROVE  /\ pc'[q] # "marker" => Marked(data, at2[ix2[q]], msg[q])
               /\ pc'[q] \notin {"marker", "length"} => Headed(data, at2[ix2[q]], msg[q])
               /\ pc'[q] \in {"await", "commit"} => Filled(data, at2[ix2[q]], msg[q])
    <3>1. CASE q = p
      BY <1>14, <3>1
    <3>2. CASE q # p
      <4>1. q \in InFlight /\ q \in Producers
        BY <1>14, <3>2 DEF InFlight
      <4>2. ix[q] \in 1 .. n
        BY <1>n, <1>1, <4>1 DEF Owners
      <4> QED
        BY <1>1, <1>12, <1>13, <1>14, <3>2, <4>1, <4>2 DEF Written
    <3> QED
      BY <3>1, <3>2
  <2> QED
    BY <1>3, <2>1, <2>2 DEF Written
<1>20. Reading(at2, hp)'
  <2> DEFINE k == Len(taken) + 1
  <2>1. k \in Nat /\ k >= 1
    BY <1>1
  <2>2. k <= published => /\ k \in 1 .. n /\ log'[k] = log[k]
                          /\ at2[k] = at[k] /\ at2[k + 1] = at[k + 1]
    <3>1. k <= published => k \in 1 .. n /\ k \in 1 .. n + 1 /\ k + 1 \in 1 .. n + 1
      BY <1>1
    <3> HIDE DEF k
    <3> QED
      BY <3>1, <1>4, <1>12
  <2>3. \A c \in k .. published : at2[c + 1] = at[c + 1]
    BY <1>1, <1>12
  <2> QED
    BY <1>3, <2>1, <2>2, <2>3 DEF Reading
<1> WITNESS at2, ix2
<1> QED
  BY <1>15, <1>16, <1>17, <1>18, <1>19, <1>20

-----------------------------------------------------------------------------
(* The plain writes *)

\* What the code computes from a reservation's cursor, in places.
LEMMA OwnReservation ==
    ASSUME Divides, TypeInv, NEW at, NEW hp, NEW lp, NEW ix, Shape(at, hp, lp, ix),
           NEW p \in InFlight
    PROVE  LET a == at[ix[p]]
               m == msg[p]
           IN  /\ p \in Producers /\ ix[p] \in 1 .. Len(log) /\ log[ix[p]] = m
               /\ m \in Sent /\ m.len \in Nat /\ RecordWords(m.len) <= Cap
               /\ m.words \in [1 .. BodyWords(m.len) -> Word]
               /\ a \in Nat /\ hp \in Nat /\ hp <= a
               /\ at[ix[p] + 1] = End(a, m) /\ End(a, m) \in Nat
               /\ End(a, m) <= hp + Cap /\ End(a, m) <= a + Cap
               /\ BodyWords(m.len) \in Nat
               /\ Begin(a, m) \in Nat /\ a <= Begin(a, m)
               /\ End(a, m) = Begin(a, m) + 1 + BodyWords(m.len)
               /\ Padding(a, m.len) \in Nat /\ Begin(a, m) = a + Padding(a, m.len)
               /\ Padding(ltail[p], m.len) = Padding(a, m.len)
               /\ Idx(ltail[p]) = Idx(a)
               /\ StartIdx(p) = Idx(Begin(a, m)) /\ StartIdx(p) \in Nat
               /\ StartIdx(p) + BodyWords(m.len) < Cap
               /\ \A j \in 0 .. BodyWords(m.len) : StartIdx(p) + j = Idx(Begin(a, m) + j)
               /\ Add(ltail[p], Reserve(ltail[p], m.len)) = End(a, m) % CursorMod
<1> USE DEF Shape
<1> DEFINE a == at[ix[p]]
           m == msg[p]
<1>1. /\ p \in Producers /\ pc[p] \in Reserving /\ pc[p] # "idle"
      /\ ix[p] \in published + 1 .. Len(log) /\ log[ix[p]] = m
      /\ ltail[p] = a % CursorMod
  BY DEF InFlight, Owners, Reserving
<1>2. ix[p] \in 1 .. Len(log) /\ ix[p] \in published + 1 .. Len(log) + 1
      /\ ix[p] \in 1 .. Len(log) + 1 /\ ix[p] + 1 \in 1 .. Len(log) + 1
  <2>1. published \in Nat /\ Len(log) \in Nat
    BY LayoutFacts, WindowFacts
  <2> QED
    BY <1>1, <2>1
<1>3. m \in Sent /\ RecordWords(m.len) <= Cap
  BY <1>1 DEF Loaders
<1>4. m.len \in Nat /\ m.words \in [1 .. BodyWords(m.len) -> Word]
  BY <1>3, SentType
<1>5. a \in Nat /\ hp \in Nat /\ hp <= a /\ at[ix[p] + 1] <= hp + Cap
  BY <1>2, LayoutFacts, WindowFacts
<1>6. at[ix[p] + 1] = End(a, m)
  BY <1>1, <1>2 DEF Layout
<1> HIDE DEF a, m
<1>7. /\ Padding(a, m.len) \in 0 .. Cap
      /\ Reserve(a, m.len) = Padding(a, m.len) + 1 + BodyWords(m.len)
      /\ BodyWords(m.len) \in Nat
      /\ Idx(a + Padding(a, m.len)) + BodyWords(m.len) < Cap
      /\ \A j \in 0 .. BodyWords(m.len) :
            Idx(a + Padding(a, m.len)) + j = Idx(a + Padding(a, m.len) + j)
  BY <1>3, <1>4, <1>5, Geometry
<1>8. /\ Padding(ltail[p], m.len) = Padding(a, m.len)
      /\ Reserve(ltail[p], m.len) = Reserve(a, m.len)
      /\ Idx(ltail[p]) = Idx(a)
  BY <1>1, <1>4, <1>5, CursorOfPlace
<1>9. Reserve(a, m.len) <= Cap
  BY <1>1, <1>8 DEF TypeInv, ReserveFits, m
<1>10. Begin(a, m) = a + Padding(a, m.len) /\ End(a, m) = a + Reserve(a, m.len)
  BY DEF Begin, End
<1>11. Add(ltail[p], Padding(a, m.len)) = Begin(a, m) % CursorMod
  BY <1>1, <1>5, <1>7, <1>10, AddPlace
<1>12. StartIdx(p) = Idx(Begin(a, m))
  <2>1. Begin(a, m) \in Nat
    BY <1>5, <1>7, <1>10
  <2>2. Idx(Begin(a, m) % CursorMod) = Idx(Begin(a, m))
    BY <2>1, CursorOfPlace
  <2> QED
    BY <1>8, <1>11, <2>2 DEF StartIdx, m
<1>13. Add(ltail[p], Reserve(ltail[p], m.len)) = End(a, m) % CursorMod
  <2>1. Reserve(a, m.len) \in 0 .. Cap
    BY <1>7, <1>9, CapAssumption
  <2> QED
    BY <1>1, <1>5, <1>8, <1>10, <2>1, AddPlace
<1>14. StartIdx(p) \in Nat /\ StartIdx(p) + BodyWords(m.len) < Cap
       /\ \A j \in 0 .. BodyWords(m.len) : StartIdx(p) + j = Idx(Begin(a, m) + j)
  <2>1. Begin(a, m) \in Nat
    BY <1>5, <1>7, <1>10
  <2> QED
    BY <2>1, <1>7, <1>10, <1>12, IdxPlace
<1>15. /\ Begin(a, m) \in Nat /\ a <= Begin(a, m) /\ End(a, m) \in Nat
       /\ End(a, m) = Begin(a, m) + 1 + BodyWords(m.len)
       /\ End(a, m) <= a + Cap /\ Padding(a, m.len) \in Nat
  BY <1>5, <1>7, <1>9, <1>10, CapAssumption
<1> QED
  BY <1>1, <1>2, <1>3, <1>4, <1>5, <1>6, <1>7, <1>8, <1>10, <1>12, <1>13, <1>14,
     <1>15 DEF a, m

\* A write inside p's reservation that advances p keeps the invariant.
LEMMA StepWrite ==
    ASSUME Divides, TypeInv, NEW at, NEW hp, NEW lp, NEW ix, Shape(at, hp, lp, ix),
           NEW p \in InFlight, NEW next \in {"length", "body", "await"},
           pc' = [pc EXCEPT ![p] = next],
           UNCHANGED <<head, tail_reserve, tail_commit, lhead, ltail, msg, consVars, history>>,
           OnlyTouches(data, data', at[ix[p]], at[ix[p] + 1]),
           pc[p] \in {"marker", "length", "body"},
           Marked(data', at[ix[p]], msg[p]),
           next # "length" => Headed(data', at[ix[p]], msg[p]),
           next = "await" => Filled(data', at[ix[p]], msg[p])
    PROVE  Shape(at, hp, lp, ix)'
<1> USE DEF Shape, consVars, history
<1>1. /\ InFlight' = InFlight /\ pc'[p] = next
      /\ \A q \in Producers : q # p => pc'[q] = pc[q]
      /\ InFlight \subseteq Producers
  BY DEF InFlight, TypeInv, TypeOK
<1>2. Layout(at)' /\ Cursors(at, hp)' /\ Reading(at, hp)'
  BY DEF Layout, Cursors, Reading
<1>3. Loaders(at, hp, lp)'
  BY <1>1 DEF Loaders, InFlight
<1>4. Owners(at, ix)'
  BY <1>1 DEF Owners, InFlight
<1>5. /\ at[ix[p]] \in Nat /\ at[ix[p] + 1] \in Nat /\ hp \in Nat
      /\ hp <= at[ix[p]] /\ at[ix[p] + 1] <= hp + Cap
      /\ ix[p] \in published + 1 .. Len(log) /\ Len(log) \in Nat
      /\ log[ix[p]] = msg[p]
  <2>1. ix[p] \in published + 1 .. Len(log) /\ Len(log) \in Nat
    BY LayoutFacts DEF Owners
  <2>2. /\ at[ix[p]] \in Nat /\ at[ix[p] + 1] \in Nat /\ hp \in Nat
        /\ hp <= at[ix[p]] /\ at[ix[p] + 1] <= hp + Cap /\ log[ix[p]] = msg[p]
    BY OwnReservation
  <2> QED
    BY <2>1, <2>2
<1>6. ASSUME NEW i \in Len(taken) + 1 .. Len(log), i # ix[p]
      PROVE  /\ hp <= at[i] /\ Marked(data, at[i], log[i]) => Marked(data', at[i], log[i])
             /\ Headed(data, at[i], log[i]) => Headed(data', at[i], log[i])
             /\ Filled(data, at[i], log[i]) => Filled(data', at[i], log[i])
  <2>1. /\ i \in 1 .. Len(log) /\ i \in 1 .. Len(log) + 1 /\ i + 1 \in 1 .. Len(log) + 1
        /\ ix[p] \in 1 .. Len(log) + 1 /\ ix[p] + 1 \in 1 .. Len(log) + 1
    BY <1>5, WindowFacts
  <2>2. /\ at[i] \in Nat /\ log[i].len \in Nat /\ hp <= Begin(at[i], log[i])
        /\ RecordWords(log[i].len) <= Cap
        /\ at[i + 1] = End(at[i], log[i]) /\ at[i + 1] <= hp + Cap
    BY <2>1, LayoutFacts, WindowFacts DEF Layout
  <2>3. at[i + 1] <= at[ix[p]] \/ at[ix[p] + 1] <= at[i]
    <3>1. i + 1 <= ix[p] \/ ix[p] + 1 <= i
      BY <1>5, <1>6, <2>1
    <3> QED
      BY <2>1, <3>1 DEF Layout
  <2>4. /\ End(at[i], log[i]) <= hp + Cap
        /\ End(at[i], log[i]) <= at[ix[p]] \/ at[ix[p] + 1] <= at[i]
    BY <2>2, <2>3
  <2> DEFINE w1 == at[ix[p]]
             w2 == at[ix[p] + 1]
             a == at[i]
             m == log[i]
  <2>5. /\ OnlyTouches(data, data', w1, w2)
        /\ w1 \in Nat /\ w2 \in Nat /\ a \in Nat /\ m.len \in Nat /\ hp \in Nat
        /\ hp <= w1 /\ w2 <= hp + Cap /\ RecordWords(m.len) <= Cap
        /\ hp <= Begin(a, m) /\ End(a, m) <= hp + Cap
        /\ End(a, m) <= w1 \/ w2 <= a
    BY <1>5, <2>2, <2>4
  <2> HIDE DEF w1, w2, a, m
  <2>6. /\ hp <= a /\ Marked(data, a, m) => Marked(data', a, m)
        /\ Headed(data, a, m) => Headed(data', a, m)
        /\ Filled(data, a, m) => Filled(data', a, m)
    BY <2>5, KeepRecord
  <2> QED
    BY <2>6 DEF a, m
<1>7. Written(at, hp, ix)'
  <2>1. ASSUME NEW i \in Len(taken) + 1 .. published
        PROVE  /\ hp <= at[i] => Marked(data', at[i], log[i])
               /\ Headed(data', at[i], log[i])
               /\ Filled(data', at[i], log[i])
    <3>1. i \in Len(taken) + 1 .. Len(log) /\ i # ix[p]
      BY <1>5, WindowFacts
    <3> QED
      BY <1>6, <3>1 DEF Written
  <2>2. ASSUME NEW q \in InFlight
        PROVE  /\ pc'[q] # "marker" => Marked(data', at[ix[q]], msg[q])
               /\ pc'[q] \notin {"marker", "length"} => Headed(data', at[ix[q]], msg[q])
               /\ pc'[q] \in {"await", "commit"} => Filled(data', at[ix[q]], msg[q])
    <3>1. CASE q = p
      BY <1>1, <3>1
    <3>2. CASE q # p
      <4>1. /\ ix[q] \in published + 1 .. Len(log) /\ log[ix[q]] = msg[q] /\ q \in Producers
            /\ msg[q].src = q /\ msg[p].src = p
        BY <1>1 DEF Owners, Loaders, InFlight
      <4>2. ix[q] # ix[p] /\ ix[q] \in Len(taken) + 1 .. Len(log)
        BY <1>5, <3>2, <4>1, WindowFacts
      <4>3. hp <= at[ix[q]]
        BY <1>5, <4>1, WindowFacts
      <4> QED
        BY <1>1, <1>6, <3>2, <4>1, <4>2, <4>3 DEF Written
    <3> QED
      BY <3>1, <3>2
  <2> QED
    BY <1>1, <2>1, <2>2 DEF Written
<1> QED
  BY <1>2, <1>3, <1>4, <1>7

LEMMA StepWriteMarker ==
    ASSUME Divides, TypeInv, NEW at, NEW hp, NEW lp, NEW ix, Shape(at, hp, lp, ix),
           NEW p \in Producers, WriteMarker(p)
    PROVE  Shape(at, hp, lp, ix)'
<1> DEFINE a == at[ix[p]]
           m == msg[p]
<1>1. p \in InFlight /\ pc[p] = "marker" /\ data \in [0 .. Cap - 1 -> Word]
  BY DEF WriteMarker, InFlight, TypeInv, TypeOK
<1>2. /\ a \in Nat /\ at[ix[p] + 1] = End(a, m) /\ Padding(ltail[p], m.len) = Padding(a, m.len)
      /\ Idx(ltail[p]) = Idx(a) /\ End(a, m) = Begin(a, m) + 1 + BodyWords(m.len)
      /\ a <= Begin(a, m) /\ BodyWords(m.len) \in Nat /\ Begin(a, m) \in Nat
  BY <1>1, OwnReservation
<1>3. data' = IF Padding(a, m.len) > 0 THEN [data EXCEPT ![Idx(a)] = WRAP_MARKER] ELSE data
  BY <1>2 DEF WriteMarker
<1>4. a \in a .. at[ix[p] + 1] - 1 /\ Idx(a) \in 0 .. Cap - 1
  BY <1>2, IdxPlace
<1> HIDE DEF a
<1>5. OnlyTouches(data, data', a, at[ix[p] + 1])
  BY <1>1, <1>3, <1>4 DEF OnlyTouches
<1>6. Marked(data', a, m)
  BY <1>1, <1>3, <1>4 DEF Marked
<1>7. /\ pc' = [pc EXCEPT ![p] = "length"]
      /\ UNCHANGED <<head, tail_reserve, tail_commit, lhead, ltail, msg, consVars, history>>
  BY DEF WriteMarker
<1> QED
  BY <1>1, <1>5, <1>6, <1>7, StepWrite DEF a

LEMMA StepWriteLength ==
    ASSUME Divides, TypeInv, NEW at, NEW hp, NEW lp, NEW ix, Shape(at, hp, lp, ix),
           NEW p \in Producers, WriteLength(p)
    PROVE  Shape(at, hp, lp, ix)'
<1> DEFINE a == at[ix[p]]
           m == msg[p]
           s == Begin(a, m)
<1>1. p \in InFlight /\ pc[p] = "length" /\ data \in [0 .. Cap - 1 -> Word]
  BY DEF WriteLength, InFlight, TypeInv, TypeOK
<1>2. /\ a \in Nat /\ at[ix[p] + 1] = s + 1 + BodyWords(m.len)
      /\ a <= s /\ s + 1 + BodyWords(m.len) <= a + Cap /\ BodyWords(m.len) \in Nat
      /\ s \in Nat /\ s = a + Padding(a, m.len) /\ StartIdx(p) = Idx(s)
      /\ Padding(a, m.len) \in Nat
  BY <1>1, OwnReservation
<1>3. data' = [data EXCEPT ![Idx(s)] = LenWord(m.len)]
  BY <1>2 DEF WriteLength
<1>4. s \in a .. at[ix[p] + 1] - 1 /\ Idx(s) \in 0 .. Cap - 1 /\ Idx(a) \in 0 .. Cap - 1
  BY <1>2, IdxPlace
<1>5. Padding(a, m.len) > 0 => Idx(a) # Idx(s)
  <2>1. Padding(a, m.len) > 0 => a < s /\ s - a < Cap
    BY <1>2, CapAssumption
  <2> QED
    BY <1>2, <2>1, OwnCells
<1>6. Marked(data, a, m)
  BY <1>1 DEF Shape, Written
<1>7. /\ pc' = [pc EXCEPT ![p] = "body"]
      /\ UNCHANGED <<head, tail_reserve, tail_commit, lhead, ltail, msg, consVars, history>>
  BY DEF WriteLength
<1> HIDE DEF a, s
<1>8. OnlyTouches(data, data', a, at[ix[p] + 1])
  BY <1>1, <1>3, <1>4 DEF OnlyTouches
<1>9. Marked(data', a, m)
  BY <1>1, <1>3, <1>4, <1>5, <1>6 DEF Marked
<1>10. Headed(data', a, m)
  BY <1>1, <1>3, <1>4 DEF Headed, s
<1> QED
  BY <1>1, <1>7, <1>8, <1>9, <1>10, StepWrite DEF a

LEMMA StepWriteBody ==
    ASSUME Divides, TypeInv, NEW at, NEW hp, NEW lp, NEW ix, Shape(at, hp, lp, ix),
           NEW p \in Producers, WriteBody(p)
    PROVE  Shape(at, hp, lp, ix)'
<1> DEFINE a == at[ix[p]]
           m == msg[p]
           s == Begin(a, m)
           b == BodyWords(m.len)
<1>1. p \in InFlight /\ pc[p] = "body" /\ data \in [0 .. Cap - 1 -> Word]
  BY DEF WriteBody, InFlight, TypeInv, TypeOK
<1>2. /\ a \in Nat /\ at[ix[p] + 1] = s + 1 + b
      /\ a <= s /\ s + 1 + b <= a + Cap /\ b \in Nat
      /\ s \in Nat /\ s = a + Padding(a, m.len) /\ StartIdx(p) = Idx(s)
      /\ Padding(a, m.len) \in Nat /\ Idx(s) \in Nat /\ Idx(s) + b < Cap
      /\ \A j \in 0 .. b : Idx(s) + j = Idx(s + j)
  BY <1>1, OwnReservation
<1>3. data' = [i \in 0 .. Cap - 1 |-> IF i \in Idx(s) + 1 .. Idx(s) + b
                                      THEN m.words[i - Idx(s)] ELSE data[i]]
  BY <1>2 DEF WriteBody
<1>4. Marked(data, a, m) /\ Headed(data, a, m)
  BY <1>1 DEF Shape, Written
<1>5. /\ pc' = [pc EXCEPT ![p] = "await"]
      /\ UNCHANGED <<head, tail_reserve, tail_commit, lhead, ltail, msg, consVars, history>>
  BY DEF WriteBody
<1>6. Idx(s) \in 0 .. Cap - 1 /\ Idx(a) \in 0 .. Cap - 1
  BY <1>2, IdxPlace
<1> HIDE DEF a, s, b
<1>7. ASSUME NEW c \in 0 .. Cap - 1, \A x \in a .. at[ix[p] + 1] - 1 : c # Idx(x)
      PROVE  data'[c] = data[c]
  <2>1. ASSUME c \in Idx(s) + 1 .. Idx(s) + b PROVE FALSE
    <3>1. c - Idx(s) \in 0 .. b
      BY <1>2, <2>1
    <3>2. Idx(s + (c - Idx(s))) = c
      BY <1>2, <3>1
    <3>3. s + (c - Idx(s)) \in a .. at[ix[p] + 1] - 1
      BY <1>2, <3>1
    <3> QED
      BY <1>7, <3>2, <3>3
  <2> QED
    BY <1>3, <2>1
<1>8. Marked(data', a, m)
  <2>1. ASSUME Padding(a, m.len) > 0 PROVE Idx(a) \notin Idx(s) + 1 .. Idx(s) + b
    <3> SUFFICES ASSUME Idx(a) \in Idx(s) + 1 .. Idx(s) + b PROVE FALSE
      OBVIOUS
    <3>1. Idx(a) - Idx(s) \in 0 .. b
      BY <1>2
    <3>2. Idx(s + (Idx(a) - Idx(s))) = Idx(a)
      BY <1>2, <1>6, <3>1
    <3>3. /\ s + (Idx(a) - Idx(s)) \in Nat /\ a < s + (Idx(a) - Idx(s))
          /\ s + (Idx(a) - Idx(s)) - a < Cap
      BY <1>2, <2>1, <3>1, CapAssumption
    <3> QED
      BY <1>2, <3>2, <3>3, OwnCells
  <2> QED
    BY <1>3, <1>4, <1>6, <2>1 DEF Marked
<1>9. Headed(data', a, m)
  <2>1. Idx(s) \notin Idx(s) + 1 .. Idx(s) + b
    BY <1>2
  <2> QED
    BY <1>3, <1>4, <1>6, <2>1 DEF Headed, s
<1>10. Filled(data', a, m)
  <2>1. ASSUME NEW j \in 1 .. b PROVE data'[Idx(s) + j] = m.words[j]
    <3>1. Idx(s) + j \in Idx(s) + 1 .. Idx(s) + b /\ Idx(s) + j \in 0 .. Cap - 1
      BY <1>2, CapAssumption
    <3>2. (Idx(s) + j) - Idx(s) = j
      BY <1>2
    <3>3. data'[Idx(s) + j] = m.words[(Idx(s) + j) - Idx(s)]
      BY <1>3, <3>1
    <3> QED
      BY <3>2, <3>3
  <2> QED
    BY <2>1 DEF Filled, s, b
<1> QED
  BY <1>1, <1>5, <1>7, <1>8, <1>9, <1>10, StepWrite DEF a, OnlyTouches

-----------------------------------------------------------------------------
(* The store that publishes *)

LEMMA StepStoreCommit ==
    ASSUME Divides, TypeInv, NEW at, NEW hp, NEW lp, NEW ix, Shape(at, hp, lp, ix),
           NEW p \in Producers, StoreCommit(p)
    PROVE  Shape(at, hp, lp, ix)'
<1> USE DEF Shape, consVars
<1>1. p \in InFlight /\ pc[p] = "commit" /\ pc'[p] = "idle"
  BY DEF StoreCommit, InFlight, TypeInv, TypeOK
<1>2. \A q \in Producers : q # p => /\ pc'[q] = pc[q] /\ msg'[q] = msg[q]
                                   /\ lhead'[q] = lhead[q] /\ ltail'[q] = ltail[q]
  BY DEF StoreCommit, ReturnPush, TypeInv, TypeOK
<1>3. InFlight' = InFlight \ {p} /\ InFlight \subseteq Producers
  BY <1>1, <1>2 DEF InFlight
<1>4. /\ published' = published + 1
      /\ tail_commit' = Add(ltail[p], Reserve(ltail[p], msg[p].len))
      /\ UNCHANGED <<head, tail_reserve, data, log, taken, cpc, chead, ctail, cmax,
                     cnext, cout>>
  BY DEF StoreCommit
<1>5. /\ ix[p] = published + 1 /\ log[published + 1] = msg[p] /\ published \in Nat
      /\ Len(log) \in Nat /\ Len(taken) \in Nat /\ Len(taken) <= published
      /\ published + 1 <= Len(log)
  <2>1. /\ published \in Nat /\ Len(log) \in Nat /\ Len(taken) \in Nat
        /\ Len(taken) <= published
    BY LayoutFacts, WindowFacts
  <2>2. /\ ix[p] = published + 1 /\ log[ix[p]] = msg[p]
        /\ ix[p] \in published + 1 .. Len(log)
    BY <1>1 DEF Owners
  <2> QED
    BY <2>1, <2>2
<1>6. tail_commit' = at[published + 2] % CursorMod
  <2>1. /\ at[ix[p] + 1] = End(at[ix[p]], msg[p])
        /\ Add(ltail[p], Reserve(ltail[p], msg[p].len)) = End(at[ix[p]], msg[p]) % CursorMod
    BY <1>1, OwnReservation
  <2>2. ix[p] + 1 = published + 2
    BY <1>5
  <2> QED
    BY <1>4, <2>1, <2>2
<1>7. Layout(at)'
  BY <1>4 DEF Layout
<1>8. Cursors(at, hp)'
  <2>1. (published + 1) + 1 = published + 2
    BY <1>5
  <2> QED
    BY <1>4, <1>5, <1>6, <2>1 DEF Cursors
<1>9. Loaders(at, hp, lp)'
  BY <1>1, <1>2, <1>4 DEF Loaders
<1>10. ASSUME NEW q \in InFlight, q # p
       PROVE  ix[q] \in published + 2 .. Len(log) /\ pc[q] # "commit"
  <2>1. /\ ix[q] \in published + 1 .. Len(log) /\ log[ix[q]] = msg[q]
        /\ msg[q].src = q /\ msg[p].src = p
        /\ pc[q] = "commit" => ix[q] = published + 1
    BY <1>1, <1>3, <1>10 DEF Owners, Loaders, InFlight
  <2>2. ix[q] # published + 1
    BY <1>5, <1>10, <2>1
  <2> QED
    BY <1>5, <2>1, <2>2
<1>11. Owners(at, ix)'
  <2>1. ASSUME NEW i \in published + 2 .. Len(log)
        PROVE  log[i].src \in InFlight \ {p} /\ ix[log[i].src] = i
    <3>1. i \in published + 1 .. Len(log) /\ i # published + 1
      BY <1>5
    <3> QED
      BY <1>5, <3>1 DEF Owners
  <2>2. ASSUME NEW q \in InFlight'
        PROVE  /\ ix[q] \in published' + 1 .. Len(log)
               /\ log[ix[q]] = msg'[q]
               /\ ltail'[q] = at[ix[q]] % CursorMod
               /\ pc'[q] = "commit" => ix[q] = published' + 1
    <3>1. q \in InFlight /\ q # p /\ q \in Producers
      BY <1>3
    <3>2. published' + 1 = published + 2
      BY <1>4, <1>5
    <3> QED
      BY <1>2, <1>10, <3>1, <3>2 DEF Owners
  <2>3. published' + 1 = published + 2
    BY <1>4, <1>5
  <2> QED
    BY <1>3, <1>4, <2>1, <2>2, <2>3 DEF Owners
<1>12. Written(at, hp, ix)'
  <2>1. ASSUME NEW i \in Len(taken) + 1 .. published + 1
        PROVE  /\ hp <= at[i] => Marked(data, at[i], log[i])
               /\ Headed(data, at[i], log[i])
               /\ Filled(data, at[i], log[i])
    <3>1. CASE i = published + 1
      BY <1>1, <1>5, <3>1 DEF Written
    <3>2. CASE i # published + 1
      <4>1. i \in Len(taken) + 1 .. published
        BY <1>5, <3>2
      <4> QED
        BY <4>1 DEF Written
    <3> QED
      BY <3>1, <3>2
  <2>2. ASSUME NEW q \in InFlight'
        PROVE  /\ pc'[q] # "marker" => Marked(data, at[ix[q]], msg'[q])
               /\ pc'[q] \notin {"marker", "length"} => Headed(data, at[ix[q]], msg'[q])
               /\ pc'[q] \in {"await", "commit"} => Filled(data, at[ix[q]], msg'[q])
    <3>1. q \in InFlight /\ q # p /\ q \in Producers
      BY <1>3
    <3> QED
      BY <1>2, <3>1 DEF Written
  <2> QED
    BY <1>4, <2>1, <2>2 DEF Written
<1>13. Reading(at, hp)'
  <2>1. /\ \A c \in Len(taken) + 1 .. published : c \in Len(taken) + 1 .. published + 1
        /\ Len(taken) + 1 <= published => Len(taken) + 1 <= published + 1
    BY <1>5
  <2> QED
    BY <1>4, <2>1 DEF Reading
<1> QED
  BY <1>7, <1>8, <1>9, <1>11, <1>12, <1>13

-----------------------------------------------------------------------------
(* The consumer *)

LEMMA StepStartPop ==
    ASSUME Divides, TypeInv, NEW at, NEW hp, NEW lp, NEW ix, Shape(at, hp, lp, ix),
           NEW max \in PopLimits, StartPop(max)
    PROVE  Shape(at, hp, lp, ix)'
  BY DEF Shape, StartPop, shared, prodVars, history, Layout, Cursors, Loaders, Owners,
         Written, Reading, InFlight, NoLap

\* head differs from tail_commit only when a published reservation is unread.
LEMMA StepPopLoad ==
    ASSUME Divides, TypeInv, NEW at, NEW hp, NEW lp, NEW ix, Shape(at, hp, lp, ix),
           PopLoad
    PROVE  Shape(at, hp, lp, ix)'
<1> USE DEF Shape, shared, prodVars, history
<1>1. Layout(at)' /\ Cursors(at, hp)' /\ Loaders(at, hp, lp)' /\ Owners(at, ix)'
      /\ Written(at, hp, ix)'
  BY DEF PopLoad, Layout, Cursors, Loaders, Owners, Written, InFlight
<1>2. ASSUME head # tail_commit
      PROVE  published \in Len(taken) + 1 .. published
  <2>1. Len(taken) \in Nat /\ published \in Nat /\ Len(taken) <= published
    BY WindowFacts
  <2>2. Len(taken) # published
    BY <1>2 DEF Cursors
  <2> QED
    BY <2>1, <2>2
<1>3. Reading(at, hp)'
  <2>1. CASE head = tail_commit
    BY <2>1 DEF PopLoad, Reading
  <2>2. CASE head # tail_commit
    <3>1. tail_commit = at[published + 1] % CursorMod
      BY DEF Cursors
    <3>2. \E c \in Len(taken) + 1 .. published : tail_commit = at[c + 1] % CursorMod
      BY <1>2, <2>2, <3>1
    <3> QED
      BY <2>2, <3>2 DEF PopLoad, Reading
  <2> QED
    BY <2>1, <2>2
<1> QED
  BY <1>1, <1>3

\* What the consumer finds at its place: a marker, or the length of the oldest
\* unread record, which passes both checks.
LEMMA Found ==
    ASSUME Divides, TypeInv, NEW at, NEW hp, NEW lp, NEW ix, Shape(at, hp, lp, ix),
           cpc = "inspect"
    PROVE  LET k == Len(taken) + 1
               word == data[Idx(chead)]
           IN  /\ k \in 1 .. Len(log) /\ k <= published
               /\ \/ /\ word = WRAP_MARKER
                     /\ hp = at[k]
                     /\ Add(chead, Remaining(chead)) = Begin(at[k], log[k]) % CursorMod
                  \/ /\ word = LenWord(log[k].len)
                     /\ hp = Begin(at[k], log[k])
                     /\ ~Corrupt(log[k].len)
                     /\ Add(chead, RecordWords(log[k].len)) = at[k + 1] % CursorMod
<1> USE DEF Shape
<1> DEFINE k == Len(taken) + 1
           a == at[k]
           m == log[k]
<1>1. PICK c \in k .. published : ctail = at[c + 1] % CursorMod
  BY DEF Reading
<1>2. /\ Len(taken) \in Nat /\ published \in Nat /\ Len(log) \in Nat /\ published <= Len(log)
      /\ hp \in Nat
  BY LayoutFacts, WindowFacts
<1>3. /\ k \in 1 .. Len(log) /\ k \in Len(taken) + 1 .. published /\ k <= published
      /\ k + 1 \in 1 .. Len(log) + 1 /\ c + 1 \in 1 .. Len(log) + 1 /\ k + 1 <= c + 1
      /\ k + 1 \in Len(taken) + 2 .. Len(log) + 1
  BY <1>1, <1>2
<1>4. /\ a \in Nat /\ m.len \in Nat /\ RecordWords(m.len) <= Cap
      /\ Begin(a, m) \in Nat /\ a <= Begin(a, m)
      /\ at[k + 1] = Begin(a, m) + 1 + BodyWords(m.len) /\ BodyWords(m.len) \in Nat
  <2>1. RecordWords(m.len) <= Cap
    BY <1>3 DEF Layout
  <2> QED
    BY <1>3, <2>1, LayoutFacts
<1>5. chead = hp % CursorMod /\ Idx(chead) = Idx(hp) /\ Remaining(chead) = Remaining(hp)
  <2>1. chead = hp % CursorMod
    BY DEF Reading, Cursors
  <2> QED
    BY <1>2, <2>1, CursorOfPlace
<1>6. hp = a \/ hp = Begin(a, m)
  BY DEF Cursors
<1>7. /\ hp <= a => Marked(data, a, m)
      /\ Headed(data, a, m)
  BY <1>3 DEF Written
<1>8. at[k + 1] <= at[c + 1] /\ at[c + 1] \in Nat /\ at[c + 1] <= hp + Cap
  <2>1. at[c + 1] \in Nat /\ at[c + 1] <= hp + Cap
    BY <1>3, LayoutFacts, WindowFacts
  <2> QED
    BY <1>3, <2>1 DEF Layout
<1>9. hp <= at[k + 1]
  BY <1>3, WindowFacts
<1> HIDE DEF k, a, m
<1>10. /\ Padding(a, m.len) \in 0 .. Cap
       /\ Padding(a, m.len) > 0 => Padding(a, m.len) = Remaining(a)
       /\ RecordWords(m.len) = 1 + BodyWords(m.len)
       /\ Idx(a + Padding(a, m.len)) + BodyWords(m.len) < Cap
       /\ Begin(a, m) = a + Padding(a, m.len)
  BY <1>4, Geometry DEF Begin
<1>11. CASE hp = a /\ Padding(a, m.len) > 0
  <2>1. data[Idx(chead)] = WRAP_MARKER
    BY <1>5, <1>7, <1>11, <1>4 DEF Marked
  <2>2. Add(chead, Remaining(chead)) = Begin(a, m) % CursorMod
    <3>1. Remaining(chead) = Padding(a, m.len)
      BY <1>5, <1>10, <1>11
    <3> QED
      BY <1>2, <1>5, <1>10, <1>11, <3>1, AddPlace
  <2> QED
    BY <1>3, <1>11, <2>1, <2>2 DEF k, a, m
<1>12. CASE hp = Begin(a, m)
  <2>1. data[Idx(chead)] = LenWord(m.len)
    BY <1>5, <1>7, <1>12 DEF Headed
  <2>2. Add(chead, RecordWords(m.len)) = at[k + 1] % CursorMod
    <3>1. RecordWords(m.len) \in 0 .. Cap /\ hp + RecordWords(m.len) = at[k + 1]
      <4>1. RecordWords(m.len) = 1 + BodyWords(m.len)
        BY <1>10
      <4>2. hp + RecordWords(m.len) = at[k + 1]
        BY <1>2, <1>4, <1>12, <4>1
      <4> QED
        BY <1>4, <4>1, <4>2, CapAssumption
    <3> QED
      BY <1>2, <1>5, <3>1, AddPlace
  <2>3. RecordWords(m.len) <= Remaining(chead)
    BY <1>4, <1>5, <1>10, <1>12, IdxPlace, CapAssumption DEF Remaining
  <2>4. Sub(ctail, chead) >= RecordWords(m.len)
    <3>1. hp <= at[c + 1] /\ at[c + 1] - hp < CursorMod
      <4>1. PICK x \in Nat, y \in Nat : x = at[k + 1] /\ y = at[c + 1]
        BY <1>4, <1>8
      <4>2. hp <= x /\ x <= y /\ y <= hp + Cap
        BY <1>8, <1>9, <4>1
      <4>3. hp <= y /\ y - hp < CursorMod
        BY <1>2, <4>2, CapAssumption, ModAssumption
      <4> QED
        BY <4>1, <4>3
    <3>2. Sub(ctail, chead) = at[c + 1] - hp
      BY <1>1, <1>2, <1>5, <1>8, <3>1, SubPlace
    <3>3. at[k + 1] = hp + RecordWords(m.len) /\ RecordWords(m.len) \in Nat
      BY <1>4, <1>10, <1>12
    <3> QED
      BY <1>2, <1>8, <3>2, <3>3
  <2>5. ~Corrupt(m.len)
    <3>1. RecordWords(m.len) \in Nat /\ Remaining(chead) \in Int /\ Sub(ctail, chead) \in Int
      <4>1. ctail \in Cursor /\ chead \in Cursor
        BY DEF TypeInv, TypeOK
      <4>2. Sub(ctail, chead) \in Cursor /\ Remaining(chead) \in 1 .. Cap
        BY <4>1, SubType, RemainingType
      <4> QED
        BY <1>4, <1>10, <4>2 DEF Cursor
    <3> QED
      BY <2>3, <2>4, <3>1 DEF Corrupt
  <2> QED
    BY <1>3, <1>12, <2>1, <2>2, <2>5 DEF k, a, m
<1>13. hp = a /\ ~(Padding(a, m.len) > 0) => hp = Begin(a, m)
  BY <1>4, <1>10
<1> QED
  BY <1>6, <1>11, <1>12, <1>13

LEMMA StepPopInspect ==
    ASSUME Divides, TypeInv, NEW at, NEW hp, NEW lp, NEW ix, Shape(at, hp, lp, ix),
           PopInspect
    PROVE  Shape(at, hp, lp, ix)'
<1> USE DEF Shape, shared, prodVars, history
<1> DEFINE k == Len(taken) + 1
           read == data[Idx(chead)]
<1>1. Layout(at)' /\ Cursors(at, hp)' /\ Loaders(at, hp, lp)' /\ Owners(at, ix)'
      /\ Written(at, hp, ix)'
  BY DEF PopInspect, Layout, Cursors, Loaders, Owners, Written, InFlight
<1>2. /\ cpc = "inspect" /\ chead = head /\ cmax \in PopLimits
      /\ UNCHANGED <<head, chead, ctail, cmax, log, published, taken>>
  BY DEF PopInspect, Reading
<1>3. PICK word \in HeaderReads(read) :
         IF word = WRAP_MARKER
         THEN /\ cnext' = Add(chead, Remaining(chead))
              /\ cout' = [NoOut EXCEPT !.res = "skip"]
              /\ cpc' = "store"
         ELSE LET len == word.val IN
              IF Corrupt(len)
              THEN /\ cnext' = chead
                   /\ cout' = [NoOut EXCEPT !.res = "corrupt"]
                   /\ cpc' = "store"
              ELSE /\ cnext' = Add(chead, RecordWords(len))
                   /\ cout' = [res |-> IF len > cmax THEN "too_large" ELSE "ok",
                               len |-> len, words |-> <<>>]
                   /\ cpc' = IF len > cmax THEN "store" ELSE "copy"
  BY DEF PopInspect
<1>4. k \in 1 .. Len(log) /\ k <= published
  BY <1>2, Found
<1>5. \/ /\ read = WRAP_MARKER
         /\ hp = at[k]
         /\ Add(chead, Remaining(chead)) = Begin(at[k], log[k]) % CursorMod
      \/ /\ read = LenWord(log[k].len)
         /\ hp = Begin(at[k], log[k])
         /\ ~Corrupt(log[k].len)
         /\ Add(chead, RecordWords(log[k].len)) = at[k + 1] % CursorMod
  BY <1>2, Found
<1>6. word = read
  BY <1>5 DEF HeaderReads, WRAP_MARKER, LenWord
<1>7. log[k].len \in Nat /\ cmax \in Nat
  BY <1>2, <1>4, LayoutFacts, LenAssumption
<1>8. Reading(at, hp)'
  <2>1. CASE /\ read = WRAP_MARKER
             /\ hp = at[k]
             /\ Add(chead, Remaining(chead)) = Begin(at[k], log[k]) % CursorMod
    <3>1. /\ cnext' = Begin(at[k], log[k]) % CursorMod
          /\ cout'.res = "skip" /\ cpc' = "store"
      BY <1>3, <1>6, <2>1 DEF NoOut
    <3> QED
      BY <1>2, <1>4, <2>1, <3>1 DEF Reading
  <2>2. CASE /\ read = LenWord(log[k].len)
             /\ hp = Begin(at[k], log[k])
             /\ ~Corrupt(log[k].len)
             /\ Add(chead, RecordWords(log[k].len)) = at[k + 1] % CursorMod
    <3>1. word # WRAP_MARKER /\ word.val = log[k].len
      BY <1>6, <2>2 DEF WRAP_MARKER, LenWord
    <3>2. /\ cnext' = at[k + 1] % CursorMod
          /\ cout' = [res |-> IF log[k].len > cmax THEN "too_large" ELSE "ok",
                      len |-> log[k].len, words |-> <<>>]
          /\ cpc' = IF log[k].len > cmax THEN "store" ELSE "copy"
      BY <1>3, <2>2, <3>1
    <3> QED
      BY <1>2, <1>4, <2>2, <3>2 DEF Reading
  <2> QED
    BY <1>5, <2>1, <2>2
<1> QED
  BY <1>1, <1>8

LEMMA StepPopCopy ==
    ASSUME Divides, TypeInv, NEW at, NEW hp, NEW lp, NEW ix, Shape(at, hp, lp, ix),
           PopCopy
    PROVE  Shape(at, hp, lp, ix)'
<1> USE DEF Shape, shared, prodVars, history
<1> DEFINE k == Len(taken) + 1
<1>1. Layout(at)' /\ Cursors(at, hp)' /\ Loaders(at, hp, lp)' /\ Owners(at, ix)'
      /\ Written(at, hp, ix)'
  BY DEF PopCopy, Layout, Cursors, Loaders, Owners, Written, InFlight
<1>2. /\ k <= published /\ cout.res = "ok" /\ chead = head /\ hp = Begin(at[k], log[k])
      /\ cnext = at[k + 1] % CursorMod /\ cmax \in PopLimits
      /\ cout = [res |-> cout.res, len |-> log[k].len, words |-> cout.words]
  BY DEF PopCopy, Reading
<1>3. k \in Len(taken) + 1 .. published /\ k \in 1 .. Len(log)
  <2>1. Len(taken) \in Nat /\ published \in Nat /\ Len(log) \in Nat /\ published <= Len(log)
    BY LayoutFacts, WindowFacts
  <2> QED
    BY <1>2, <2>1
<1>4. Idx(chead) = Idx(hp)
  <2>1. chead = hp % CursorMod /\ hp \in Nat
    BY <1>2 DEF Cursors
  <2> QED
    BY <2>1, CursorOfPlace
<1>5. Filled(data, at[k], log[k]) /\ log[k].words \in [1 .. BodyWords(log[k].len) -> Word]
  BY <1>3, LayoutFacts DEF Written
<1> HIDE DEF k
<1>6. cout' = [res |-> "ok", len |-> log[k].len, words |-> log[k].words]
  <2>1. [i \in 1 .. BodyWords(log[k].len) |-> data[Idx(chead) + i]] = log[k].words
    BY <1>2, <1>4, <1>5 DEF Filled
  <2>2. cout.len = log[k].len
    BY <1>2
  <2>3. cout' = [cout EXCEPT !.words = log[k].words]
    BY <2>1, <2>2 DEF PopCopy
  <2> QED
    BY <1>2, <2>3
<1>7. /\ cout'.res = "ok" /\ cout'.words = log[k].words
      /\ cout' = [res |-> cout'.res, len |-> log[k].len, words |-> cout'.words]
  BY <1>6
<1>c. /\ cpc' = "store"
      /\ UNCHANGED <<log, published, taken, head, chead, cmax, cnext>>
  BY DEF PopCopy
<1>8. Reading(at, hp)'
  BY <1>2, <1>7, <1>c DEF Reading, k
<1> QED
  BY <1>1, <1>8

\* head moves over the padding of the oldest unread reservation, or over its
\* record.
LEMMA StepPopStore ==
    ASSUME Divides, TypeInv, NEW at, NEW hp, NEW lp, NEW ix, Shape(at, hp, lp, ix),
           PopStore
    PROVE  \E hp2 : Shape(at, hp2, lp, ix)'
<1> USE DEF Shape, prodVars
<1> DEFINE k == Len(taken) + 1
<1>1. /\ k <= published /\ cout.res \in {"ok", "too_large", "skip"}
      /\ cout.res = "skip" => /\ hp = at[k]
                              /\ cnext = Begin(at[k], log[k]) % CursorMod
      /\ cout.res # "skip" =>
            /\ hp = Begin(at[k], log[k])
            /\ cnext = at[k + 1] % CursorMod
            /\ cout = [res |-> cout.res, len |-> log[k].len, words |-> cout.words]
      /\ cout.res = "too_large" => cout.words = <<>>
      /\ cout.res = "ok" => cout.words = log[k].words
      /\ cmax \in PopLimits
  BY DEF PopStore, Reading
<1>2. /\ Len(taken) \in Nat /\ published \in Nat /\ Len(log) \in Nat
      /\ Len(taken) <= published /\ published <= Len(log) /\ hp \in Nat
  BY LayoutFacts, WindowFacts
<1>3. k \in 1 .. Len(log) /\ k + 1 \in 1 .. Len(log) + 1
  BY <1>1, <1>2
<1>4. /\ at[k] \in Nat /\ Begin(at[k], log[k]) \in Nat /\ at[k] <= Begin(at[k], log[k])
      /\ at[k + 1] \in Nat /\ Begin(at[k], log[k]) <= at[k + 1]
      /\ log[k].len \in Nat /\ log[k].words \in [1 .. BodyWords(log[k].len) -> Word]
      /\ BodyWords(log[k].len) \in Nat
  BY <1>3, LayoutFacts
<1>5. /\ head' = cnext /\ cout' = NoOut
      /\ cpc' = IF cout.res = "skip" THEN "load" ELSE "idle"
      /\ taken' = IF cout.res \in {"ok", "too_large"} THEN Append(taken, cout) ELSE taken
      /\ cmax' = IF cout.res = "skip" THEN cmax ELSE 0
      /\ UNCHANGED <<tail_reserve, tail_commit, data, pc, lhead, ltail, msg, log, published>>
  BY DEF PopStore
<1>6. ASSUME NEW hp2 \in Nat, hp <= hp2 PROVE Loaders(at, hp2, lp)'
  <2>1. \A q \in Producers : lp[q] <= hp => lp[q] <= hp2
    BY <1>2, <1>6 DEF Loaders
  <2> QED
    BY <1>5, <2>1 DEF Loaders
<1>7. Layout(at)' /\ Owners(at, ix)' /\ InFlight' = InFlight
  BY <1>5 DEF Layout, Owners, InFlight
<1>8. at[Len(log) + 1] \in Nat /\ at[Len(log) + 1] <= hp + Cap
  <2>1. Len(log) + 1 \in 1 .. Len(log) + 1
    BY <1>2
  <2> QED
    BY <2>1, LayoutFacts DEF Cursors
<1>p. \A i \in k .. published : at[i] \in Nat
  <2>1. \A i \in k .. published : i \in 1 .. Len(log) + 1
    BY <1>2
  <2> QED
    BY <2>1, LayoutFacts
<1>9. CASE cout.res = "skip"
  <2>h. PICK hp2 : hp2 = Begin(at[k], log[k])
    OBVIOUS
  <2>1. hp2 \in Nat /\ hp <= hp2 /\ hp = at[k] /\ head' = hp2 % CursorMod
    BY <1>1, <1>4, <1>5, <1>9, <2>h
  <2>2. taken' = taken /\ cpc' = "load" /\ cmax' = cmax
    BY <1>5, <1>9
  <2>3. Cursors(at, hp2)'
    <3>1. at[Len(log) + 1] <= hp2 + Cap /\ Len(taken) < published
      BY <1>1, <1>2, <1>8, <2>1, CapAssumption
    <3> QED
      BY <1>5, <2>h, <2>1, <2>2, <3>1 DEF Cursors
  <2>4. Written(at, hp2, ix)'
    <3>1. \A i \in k .. published : hp2 <= at[i] => hp <= at[i]
      BY <1>2, <1>p, <2>1
    <3> QED
      BY <1>5, <1>7, <2>2, <3>1 DEF Written
  <2>5. Reading(at, hp2)'
    BY <1>1, <1>5, <2>2 DEF Reading
  <2> QED
    BY <1>6, <1>7, <2>1, <2>3, <2>4, <2>5
<1>10. CASE cout.res # "skip"
  <2>h. PICK hp2 : hp2 = at[k + 1]
    OBVIOUS
  <2>1. hp2 \in Nat /\ hp <= hp2 /\ head' = hp2 % CursorMod
    BY <1>1, <1>4, <1>5, <1>10, <2>h
  <2>2. cout \in Returned
    <3>1. cout.words \in Seq(Word)
      <4>1. log[k].words \in Seq(Word)
        BY <1>4
      <4>2. <<>> \in Seq(Word)
        OBVIOUS
      <4> QED
        BY <1>1, <1>10, <4>1, <4>2
    <3> QED
      BY <1>1, <1>4, <1>10, <3>1 DEF Returned
  <2>3. /\ taken' = Append(taken, cout) /\ taken \in Seq(Returned)
        /\ taken' \in Seq(Returned) /\ Len(taken') = k
    BY <1>1, <1>5, <1>10, <2>2 DEF Cursors
  <2>4. Cursors(at, hp2)'
    <3>1. at[Len(log) + 1] <= hp2 + Cap
      BY <1>2, <1>8, <2>1, CapAssumption
    <3>2. tail_commit = at[published + 1] % CursorMod /\ tail_reserve = at[Len(log) + 1] % CursorMod
      BY DEF Cursors
    <3> QED
      BY <1>1, <1>2, <1>5, <2>h, <2>1, <2>3, <3>1, <3>2 DEF Cursors
  <2>5. Written(at, hp2, ix)'
    <3>1. \A i \in k + 1 .. published : i \in k .. published
      BY <1>2
    <3>2. \A i \in k .. published : hp2 <= at[i] => hp <= at[i]
      BY <1>2, <1>p, <2>1
    <3> QED
      BY <1>5, <1>7, <2>3, <3>1, <3>2 DEF Written
  <2>6. Reading(at, hp2)'
    BY <1>5, <1>10 DEF Reading
  <2> QED
    BY <1>6, <1>7, <2>1, <2>4, <2>5, <2>6
<1> QED
  BY <1>9, <1>10

-----------------------------------------------------------------------------
(* The invariant is inductive *)

LEMMA RingInvInit == Divides /\ Init => RingInv
<1> SUFFICES ASSUME Divides, Init PROVE RingInv
  OBVIOUS
<1>1. head \in Cursor /\ head \in Nat /\ head = head % CursorMod
  BY StartAssumption, CapAssumption, ModAssumption DEF Init, Cursor
<1> DEFINE at == [i \in 1 .. 1 |-> head]
           no == [p \in Producers |-> 0]
<1>2. log \in Seq(Sent) /\ Len(log) = 0 /\ taken \in Seq(Returned) /\ Len(taken) = 0
  BY DEF Init
<1>3. Layout(at)
  BY <1>1, <1>2 DEF Layout
<1>4. Cursors(at, head)
  BY <1>1, <1>2, CapAssumption DEF Init, Cursors
<1>5. Loaders(at, head, no)
  BY DEF Init, Loaders
<1>6. Owners(at, no) /\ Written(at, head, no)
  BY <1>2 DEF Init, Owners, Written, InFlight
<1>7. Reading(at, head)
  BY DEF Init, Reading
<1> QED
  BY <1>3, <1>4, <1>5, <1>6, <1>7, TypeInvInit DEF RingInv, Shape

LEMMA RingInvNext == RingInv /\ [Next]_vars => RingInv'
<1> SUFFICES ASSUME RingInv, [Next]_vars PROVE RingInv'
  OBVIOUS
<1>1. Divides /\ TypeInv /\ TypeInv'
  BY TypeInvNext DEF RingInv
<1>2. PICK at, hp, lp, ix : Shape(at, hp, lp, ix)
  BY DEF RingInv
<1>d. Divides'
  BY <1>1 DEF Divides
<1>3. \E at2, hp2, lp2, ix2 : Shape(at2, hp2, lp2, ix2)'
  <2>1. ASSUME NEW p \in Producers, PushStep(p) PROVE \E at2, hp2, lp2, ix2 : Shape(at2, hp2, lp2, ix2)'
    <3>1. CASE LoadHead(p)
      BY <1>1, <1>2, <3>1, StepLoadHead
    <3>2. CASE LoadTail(p)
      BY <1>1, <1>2, <3>2, StepLoadTail
    <3>3. CASE Cas(p)
      BY <1>1, <1>2, <3>3, StepCas, StepCasFails
    <3>4. CASE WriteMarker(p)
      BY <1>1, <1>2, <3>4, StepWriteMarker
    <3>5. CASE WriteLength(p)
      BY <1>1, <1>2, <3>5, StepWriteLength
    <3>6. CASE WriteBody(p)
      BY <1>1, <1>2, <3>6, StepWriteBody
    <3>7. CASE AwaitCommit(p)
      BY <1>1, <1>2, <3>7, StepAwaitCommit
    <3>8. CASE StoreCommit(p)
      BY <1>1, <1>2, <3>8, StepStoreCommit
    <3> QED
      BY <2>1, <3>1, <3>2, <3>3, <3>4, <3>5, <3>6, <3>7, <3>8 DEF PushStep
  <2>2. ASSUME NEW p \in Producers, NEW len \in PayloadLens, StartPush(p, len)
        PROVE  \E at2, hp2, lp2, ix2 : Shape(at2, hp2, lp2, ix2)'
    BY <1>1, <1>2, <2>2, StepStartPush
  <2>3. ASSUME NEW max \in PopLimits, StartPop(max)
        PROVE  \E at2, hp2, lp2, ix2 : Shape(at2, hp2, lp2, ix2)'
    BY <1>1, <1>2, <2>3, StepStartPop
  <2>4. CASE PopLoad
    BY <1>1, <1>2, <2>4, StepPopLoad
  <2>5. CASE PopInspect
    BY <1>1, <1>2, <2>5, StepPopInspect
  <2>6. CASE PopCopy
    BY <1>1, <1>2, <2>6, StepPopCopy
  <2>7. CASE PopStore
    BY <1>1, <1>2, <2>7, StepPopStore
  <2>8. CASE UNCHANGED vars
    <3>1. Shape(at, hp, lp, ix)'
      BY <1>2, <2>8 DEF vars, shared, prodVars, consVars, history, Shape, Layout, Cursors,
         Loaders, Owners, Written, Reading, InFlight
    <3> QED
      BY <3>1
  <2> QED
    BY <2>1, <2>2, <2>3, <2>4, <2>5, <2>6, <2>7, <2>8 DEF Next, PopStep
<1> QED
  BY <1>1, <1>d, <1>3 DEF RingInv

-----------------------------------------------------------------------------
(* The theorems *)

LEMMA RingInvariant == Divides /\ Spec => []RingInv
<1>1. Divides /\ Init => RingInv
  BY RingInvInit
<1>2. RingInv /\ [Next]_vars => RingInv'
  BY RingInvNext
<1> QED
  BY <1>1, <1>2, PTL DEF Spec

LEMMA ContiguousFromInv == RingInv => RecordContiguous
<1> SUFFICES ASSUME RingInv, NEW p \in InFlight
             PROVE  StartIdx(p) + RecordWords(msg[p].len) <= Cap
  BY DEF RecordContiguous
<1>1. PICK at, hp, lp, ix : Shape(at, hp, lp, ix)
  BY DEF RingInv
<1>2. /\ StartIdx(p) \in Nat /\ StartIdx(p) + BodyWords(msg[p].len) < Cap
      /\ msg[p].len \in Nat /\ BodyWords(msg[p].len) \in Nat
  BY <1>1, OwnReservation DEF RingInv
<1>3. RecordWords(msg[p].len) = 1 + BodyWords(msg[p].len)
  BY <1>2, RecordWordsType
<1> QED
  BY <1>2, <1>3, CapAssumption

\* Every record is written in one piece: for all capacities that divide the
\* cursor range, no interleaving of pushes makes a plain write of a record run
\* past the end of the data region.
THEOREM RecordsContiguous == Divides /\ Spec => []RecordContiguous
  BY RingInvariant, ContiguousFromInv, PTL

\* The words p writes are words of its reservation.
LEMMA WriteCellsPlaces ==
    ASSUME Divides, TypeInv, NEW at, NEW hp, NEW lp, NEW ix, Shape(at, hp, lp, ix),
           NEW p \in InFlight, NEW c \in WriteCells(p)
    PROVE  \E x \in at[ix[p]] .. at[ix[p] + 1] - 1 : c = Idx(x)
<1> DEFINE a == at[ix[p]]
           m == msg[p]
           s == Begin(a, m)
           b == BodyWords(m.len)
<1>1. /\ a \in Nat /\ at[ix[p] + 1] = s + 1 + b /\ a <= s /\ b \in Nat /\ s \in Nat
      /\ StartIdx(p) \in Nat
      /\ \A j \in 0 .. b : StartIdx(p) + j = Idx(s + j)
      /\ Idx(ltail[p]) = Idx(a)
  BY OwnReservation
<1>2. CASE c \in StartIdx(p) .. StartIdx(p) + b
  <2> HIDE DEF s, b
  <2>1. c - StartIdx(p) \in 0 .. b
    BY <1>1, <1>2
  <2>2. Idx(s + (c - StartIdx(p))) = c
    BY <1>1, <1>2, <2>1
  <2>3. s + (c - StartIdx(p)) \in a .. at[ix[p] + 1] - 1
    BY <1>1, <2>1
  <2> QED
    BY <2>2, <2>3
<1>3. CASE c = Idx(ltail[p])
  <2>1. a \in a .. at[ix[p] + 1] - 1
    BY <1>1
  <2> QED
    BY <1>1, <1>3, <2>1
<1> QED
  BY <1>2, <1>3 DEF WriteCells

LEMMA NoRaceFromInv == RingInv => NoDataRace
<1> SUFFICES ASSUME RingInv PROVE NoDataRace
  OBVIOUS
<1>1. Divides /\ TypeInv
  BY DEF RingInv
<1>2. PICK at, hp, lp, ix : Shape(at, hp, lp, ix)
  BY DEF RingInv
<1>3. /\ Layout(at) /\ Cursors(at, hp) /\ Owners(at, ix) /\ Loaders(at, hp, lp)
  BY <1>2 DEF Shape
<1>4. hp \in Nat /\ Cap \in Nat /\ published \in Nat /\ Len(log) \in Nat
  BY <1>3, LayoutFacts, WindowFacts, CapAssumption
<1>5. ASSUME NEW p \in InFlight
      PROVE  /\ ix[p] \in published + 1 .. Len(log)
             /\ at[ix[p]] \in Nat /\ at[ix[p] + 1] \in Nat /\ hp <= at[ix[p]]
             /\ at[ix[p] + 1] <= hp + Cap
  <2>1. ix[p] \in published + 1 .. Len(log)
    BY <1>3 DEF Owners
  <2>2. /\ at[ix[p]] \in Nat /\ at[ix[p] + 1] \in Nat /\ hp <= at[ix[p]]
        /\ at[ix[p] + 1] <= hp + Cap
    BY <1>1, <1>2, OwnReservation
  <2> QED
    BY <2>1, <2>2
<1>6. ASSUME NEW x \in Nat, NEW y \in Nat, hp <= x, hp <= y, x < hp + Cap, y < hp + Cap,
             Idx(x) = Idx(y)
      PROVE  x = y
  <2>1. CASE x < y
    BY <1>4, <1>6, <2>1, OwnCells
  <2>2. CASE y < x
    BY <1>4, <1>6, <2>2, OwnCells
  <2> QED
    BY <2>1, <2>2
<1>7. ASSUME NEW p \in InFlight, NEW q \in InFlight, p # q,
             NEW c \in WriteCells(p), c \in WriteCells(q)
      PROVE  FALSE
  <2>1. PICK x \in at[ix[p]] .. at[ix[p] + 1] - 1 : c = Idx(x)
    BY <1>1, <1>2, WriteCellsPlaces
  <2>2. PICK y \in at[ix[q]] .. at[ix[q] + 1] - 1 : c = Idx(y)
    BY <1>1, <1>2, <1>7, WriteCellsPlaces
  <2>3. ix[p] # ix[q]
    BY <1>3, <1>7 DEF Owners, Loaders, InFlight
  <2>4. x = y
    <3>0. ASSUME NEW r \in InFlight, NEW z \in at[ix[r]] .. at[ix[r] + 1] - 1
          PROVE  z \in Nat /\ hp <= z /\ z < hp + Cap
      <4>1. PICK u \in Nat, v \in Nat : u = at[ix[r]] /\ v = at[ix[r] + 1]
        BY <1>5
      <4>2. hp <= u /\ v <= hp + Cap
        BY <1>5, <4>1
      <4>3. z \in u .. v - 1
        BY <4>1
      <4> QED
        BY <1>4, <4>2, <4>3
    <3>1. x \in Nat /\ hp <= x /\ x < hp + Cap
      BY <3>0
    <3>2. y \in Nat /\ hp <= y /\ y < hp + Cap
      BY <3>0
    <3> QED
      BY <1>6, <2>1, <2>2, <3>1, <3>2
  <2>5. at[ix[p] + 1] <= at[ix[q]] \/ at[ix[q] + 1] <= at[ix[p]]
    <3>1. ix[p] + 1 <= ix[q] \/ ix[q] + 1 <= ix[p]
      BY <1>4, <1>5, <2>3
    <3>2. /\ ix[p] \in 1 .. Len(log) + 1 /\ ix[p] + 1 \in 1 .. Len(log) + 1
          /\ ix[q] \in 1 .. Len(log) + 1 /\ ix[q] + 1 \in 1 .. Len(log) + 1
      <4>1. ix[p] \in published + 1 .. Len(log) /\ ix[q] \in published + 1 .. Len(log)
        BY <1>5
      <4> QED
        BY <1>4, <4>1
    <3> QED
      BY <1>3, <3>1, <3>2 DEF Layout
  <2> QED
    BY <1>5, <2>1, <2>2, <2>4, <2>5
<1>8. ASSUME NEW p \in InFlight, NEW c \in WriteCells(p), c \in UnreadCells
      PROVE  FALSE
  <2>1. PICK x \in at[ix[p]] .. at[ix[p] + 1] - 1 : c = Idx(x)
    BY <1>1, <1>2, WriteCellsPlaces
  <2>2. PICK i \in 0 .. Sub(tail_commit, head) - 1 : c = Idx(Add(head, i))
    BY <1>8 DEF UnreadCells
  <2>3. /\ at[published + 1] \in Nat /\ hp <= at[published + 1]
        /\ at[published + 1] <= hp + Cap
        /\ head = hp % CursorMod /\ tail_commit = at[published + 1] % CursorMod
    <3>1. published + 1 \in 1 .. Len(log) + 1
      BY <1>3, <1>4, WindowFacts
    <3>2. at[published + 1] \in Nat
      BY <1>3, <3>1, LayoutFacts
    <3>3. hp <= at[published + 1] /\ at[published + 1] <= hp + Cap
      BY <1>3, <3>1, WindowFacts
    <3> QED
      BY <1>3, <3>2, <3>3 DEF Cursors
  <2>4. Sub(tail_commit, head) = at[published + 1] - hp
    <3>1. at[published + 1] - hp < CursorMod
      <4>1. at[published + 1] \in Nat /\ at[published + 1] <= hp + Cap
        BY <2>3
      <4> QED
        BY <1>4, <4>1, ModAssumption
    <3> QED
      BY <1>4, <2>3, <3>1, SubPlace
  <2>5. i \in 0 .. Cap /\ hp + i < at[published + 1] /\ hp + i \in Nat
    BY <1>4, <2>2, <2>3, <2>4
  <2>6. c = Idx(hp + i)
    <3>1. Add(head, i) = (hp + i) % CursorMod
      BY <1>4, <2>3, <2>5, AddPlace
    <3> QED
      BY <1>1, <2>2, <2>5, <3>1, CursorOfPlace
  <2>7. at[published + 1] <= at[ix[p]]
    <3>1. published + 1 \in 1 .. Len(log) + 1 /\ ix[p] \in 1 .. Len(log) + 1 /\ published + 1 <= ix[p]
      BY <1>4, <1>5
    <3> QED
      BY <1>3, <3>1 DEF Layout
  <2>8. x = hp + i
    <3>1. x \in Nat /\ hp <= x /\ x < hp + Cap
      BY <1>4, <1>5, <2>1
    <3>2. hp <= hp + i /\ hp + i < hp + Cap
      BY <1>4, <2>3, <2>5
    <3> QED
      BY <1>6, <2>1, <2>5, <2>6, <3>1, <3>2
  <2> QED
    BY <1>4, <1>5, <2>1, <2>3, <2>5, <2>7, <2>8
<1> QED
  BY <1>7, <1>8 DEF NoDataRace

\* No data race on the data region: whatever the interleaving, the plain
\* writes of a producer between its compare-exchange and its commit touch no
\* word that another producer writes or that the consumer may be reading.
THEOREM WritersNeverMeet == Divides /\ Spec => []NoDataRace
  BY RingInvariant, NoRaceFromInv, PTL

LEMMA NotCorruptFromInv == RingInv => NeverCorrupt
<1> SUFFICES ASSUME RingInv PROVE NeverCorrupt
  OBVIOUS
<1>1. PICK at, hp, lp, ix : Shape(at, hp, lp, ix)
  BY DEF RingInv
<1>2. cpc \in {"idle", "load", "inspect", "copy", "store"}
  BY DEF RingInv, TypeInv, TypeOK
<1> QED
  BY <1>1, <1>2 DEF Shape, Reading, NeverCorrupt, NoOut

\* The two Corrupt returns of try_pop are dead code as long as the producers
\* are this module's: the consumer always finds a length that fits.
THEOREM PopNeverCorrupt == Divides /\ Spec => []NeverCorrupt
  BY RingInvariant, NotCorruptFromInv, PTL

LEMMA HeadStep ==
    ASSUME RingInv, [Next]_vars
    PROVE  [Sub(head', head) <= Sub(tail_commit, head)]_vars
<1>1. PICK at, hp, lp, ix : Shape(at, hp, lp, ix)
  BY DEF RingInv
<1>2. Layout(at) /\ Cursors(at, hp) /\ Reading(at, hp)
  BY <1>1 DEF Shape
<1>3. head \in Cursor /\ tail_commit \in Cursor /\ CursorMod \in Nat /\ Cap \in Nat
  BY CapAssumption, ModAssumption DEF RingInv, TypeInv, TypeOK
<1>4. CASE head' = head
  <2>1. Sub(head, head) = 0 /\ Sub(tail_commit, head) \in Cursor
    BY <1>3, SubType DEF Sub, Cursor
  <2> QED
    BY <1>3, <1>4, <2>1 DEF Cursor
<1>5. CASE PopStore
  <2> DEFINE k == Len(taken) + 1
  <2>1. /\ published \in Nat /\ Len(log) \in Nat /\ hp \in Nat /\ Len(taken) \in Nat
        /\ published <= Len(log) /\ k <= published
    BY <1>2, <1>5, LayoutFacts, WindowFacts DEF PopStore, Reading
  <2>2. /\ k \in 1 .. Len(log) /\ k + 1 \in 1 .. Len(log) + 1
        /\ published + 1 \in 1 .. Len(log) + 1 /\ k + 1 <= published + 1
    BY <2>1
  <2>3. /\ Begin(at[k], log[k]) \in Nat /\ Begin(at[k], log[k]) <= at[k + 1]
        /\ at[k] <= Begin(at[k], log[k]) /\ at[k] \in Nat
        /\ at[k + 1] \in Nat /\ at[published + 1] \in Nat
    BY <1>2, <2>2, LayoutFacts
  <2>4. at[k + 1] <= at[published + 1] /\ at[published + 1] <= hp + Cap
    <3>1. at[k + 1] <= at[published + 1]
      BY <1>2, <2>2 DEF Layout
    <3> QED
      BY <1>2, <2>2, <3>1, WindowFacts
  <2>5. PICK hp2 \in Nat : hp <= hp2 /\ hp2 <= at[k + 1] /\ head' = hp2 % CursorMod
    <3>1. CASE cout.res = "skip"
      <4>1. hp = at[k] /\ head' = Begin(at[k], log[k]) % CursorMod
        BY <1>2, <1>5, <3>1 DEF PopStore, Reading
      <4> QED
        BY <2>3, <4>1
    <3>2. CASE cout.res # "skip"
      <4>1. hp = Begin(at[k], log[k]) /\ head' = at[k + 1] % CursorMod
        BY <1>2, <1>5, <3>2 DEF PopStore, Reading
      <4> QED
        BY <2>3, <4>1
    <3> QED
      BY <3>1, <3>2
  <2>6. /\ head = hp % CursorMod /\ tail_commit = at[published + 1] % CursorMod
    BY <1>2 DEF Cursors
  <2>7. /\ hp2 - hp < CursorMod /\ at[published + 1] - hp < CursorMod
        /\ hp <= at[published + 1] /\ hp2 <= at[published + 1]
    <3>1. hp2 \in Nat /\ hp <= hp2 /\ hp2 <= at[k + 1]
      BY <2>5
    <3> HIDE DEF k
    <3> QED
      BY <1>3, <2>1, <2>3, <2>4, <3>1, ModAssumption
  <2>8. Sub(head', head) = hp2 - hp
    BY <2>1, <2>5, <2>6, <2>7, SubPlace
  <2>9. Sub(tail_commit, head) = at[published + 1] - hp
    BY <2>1, <2>3, <2>6, <2>7, SubPlace
  <2> QED
    BY <2>1, <2>3, <2>5, <2>7, <2>8, <2>9
<1>6. CASE Next /\ ~PopStore
  <2>1. head' = head
    BY <1>6 DEF Next, PushStep, PopStep, StartPush, LoadHead, LoadTail, Cas, WriteMarker,
       WriteLength, WriteBody, AwaitCommit, StoreCommit, StartPop, PopLoad, PopInspect,
       PopCopy, shared
  <2> QED
    BY <1>4, <2>1
<1>7. CASE UNCHANGED vars
  BY <1>7
<1> QED
  BY <1>5, <1>6, <1>7

\* The consumer never runs past what is published: every store of head, the
\* one after an unchecked wrap marker included, stays within tail_commit.
THEOREM HeadNeverPassesCommit == Divides /\ Spec => HeadStaysBehindCommit
<1>1. RingInv /\ [Next]_vars => [Sub(head', head) <= Sub(tail_commit, head)]_vars
  BY HeadStep
<1> QED
  BY <1>1, RingInvariant, PTL DEF Spec, HeadStaysBehindCommit

-----------------------------------------------------------------------------
(* The ring implements the bounded queue of IpcQueue *)

\* The well-ordering of the naturals, as a fact about sets: induction over
\* data below is the search for a smallest counterexample.
LEMMA NatMin ==
    ASSUME NEW T \in SUBSET Nat, T # {}
    PROVE  \E x \in T : \A y \in T : x <= y
<1>1. PICK x \in T : \A y \in T : ~(<<y, x>> \in OpToRel(<, Nat))
  BY Zenon, NatLessThanWellFounded, WFMin
<1>2. \A y \in T : ~(y < x)
  BY <1>1 DEF OpToRel
<1> QED
  BY <1>2

\* The partial sums behind Space exist.
LEMMA SpaceSums ==
    ASSUME NEW s, Len(s) \in Nat, \A i \in 1 .. Len(s) : s[i].len \in Nat
    PROVE  \E g \in [0 .. Len(s) -> Nat] :
              g[0] = 0 /\ \A i \in 1 .. Len(s) : g[i] = g[i - 1] + RecordWords(s[i].len)
<1> DEFINE Sums(n) == {g \in [0 .. n -> Nat] :
              g[0] = 0 /\ \A i \in 1 .. n : g[i] = g[i - 1] + RecordWords(s[i].len)}
           T == {n \in 0 .. Len(s) : Sums(n) = {}}
<1>1. ASSUME T # {} PROVE FALSE
  <2>1. PICK n \in T : \A y \in T : n <= y
    <3>1. T \in SUBSET Nat
      OBVIOUS
    <3> HIDE DEF T
    <3> QED
      BY <1>1, <3>1, NatMin
  <2>2. n \in 0 .. Len(s) /\ Sums(n) = {}
    BY <2>1
  <2>3. CASE n = 0
    <3>1. [i \in 0 .. 0 |-> 0] \in Sums(0)
      OBVIOUS
    <3> QED
      BY <2>2, <2>3, <3>1
  <2>4. CASE n # 0
    <3>1. n - 1 \in 0 .. Len(s) /\ n - 1 \notin T
      <4>1. n - 1 \in 0 .. Len(s) /\ ~(n <= n - 1)
        BY <2>2, <2>4
      <4> HIDE DEF T
      <4> QED
        BY <2>1, <4>1
    <3>2. PICK g : g \in Sums(n - 1)
      BY <3>1
    <3> DEFINE h == [i \in 0 .. n |-> IF i = n THEN g[n - 1] + RecordWords(s[n].len) ELSE g[i]]
    <3>3. RecordWords(s[n].len) \in Nat
      <4>1. n \in 1 .. Len(s)
        BY <2>2, <2>4
      <4>2. s[n].len \in Nat
        BY <4>1
      <4> QED
        BY <4>2, RecordWordsType
    <3>4. h \in [0 .. n -> Nat]
      BY <2>2, <2>4, <3>2, <3>3
    <3>5. h[0] = 0 /\ \A i \in 1 .. n : h[i] = h[i - 1] + RecordWords(s[i].len)
      <4>1. h[0] = 0
        BY <2>2, <2>4, <3>2
      <4>2. ASSUME NEW i \in 1 .. n PROVE h[i] = h[i - 1] + RecordWords(s[i].len)
        <5>1. h[i - 1] = g[i - 1]
          BY <2>2, <2>4
        <5>2. CASE i = n
          BY <2>2, <5>1, <5>2
        <5>3. CASE i # n
          <6>1. i \in 1 .. n - 1 /\ h[i] = g[i]
            BY <2>2, <5>3
          <6> QED
            BY <3>2, <5>1, <6>1
        <5> QED
          BY <5>2, <5>3
      <4> QED
        BY <4>1, <4>2
    <3>6. h \in Sums(n)
      BY <3>4, <3>5
    <3> QED
      BY <2>2, <3>6
  <2> QED
    BY <2>3, <2>4
<1>2. Sums(Len(s)) # {}
  BY <1>1
<1> QED
  BY <1>2

\* A sequence of payloads placed in the stream takes no more space than the
\* stretch of stream it lies in.
LEMMA SpaceBound ==
    ASSUME NEW s, Len(s) \in Nat, \A i \in 1 .. Len(s) : s[i].len \in Nat,
           NEW b \in [0 .. Len(s) -> Nat],
           \A i \in 1 .. Len(s) : b[i - 1] + RecordWords(s[i].len) <= b[i]
    PROVE  Queue!Space(s) \in Nat /\ b[0] + Queue!Space(s) <= b[Len(s)]
<1> DEFINE F(f) == [n \in 0 .. Len(s) |-> IF n = 0 THEN 0
                                         ELSE f[n - 1] + RecordWords(s[n].len)]
           u == CHOOSE f : f = F(f)
<1>1. Queue!Space(s) = u[Len(s)]
  BY DEF Queue!Space
<1>2. \E g : g = F(g)
  <2>1. PICK g \in [0 .. Len(s) -> Nat] :
           g[0] = 0 /\ \A i \in 1 .. Len(s) : g[i] = g[i - 1] + RecordWords(s[i].len)
    BY SpaceSums
  <2>2. ASSUME NEW n \in 0 .. Len(s) PROVE g[n] = F(g)[n]
    <3>1. CASE n = 0
      BY <2>1, <3>1
    <3>2. CASE n # 0
      <4>1. n \in 1 .. Len(s)
        BY <3>2
      <4> QED
        BY <2>1, <3>2, <4>1
    <3> QED
      BY <3>1, <3>2
  <2>3. g = F(g)
    BY <2>2
  <2> QED
    BY <2>3
<1>3. u = F(u)
  BY <1>2
<1> HIDE DEF u
<1>4. u[0] = 0 /\ \A n \in 1 .. Len(s) : u[n] = u[n - 1] + RecordWords(s[n].len)
  <2>1. \A n \in 0 .. Len(s) : u[n] = F(u)[n]
    BY <1>3
  <2> QED
    BY <2>1
<1> DEFINE T == {n \in 0 .. Len(s) : ~(u[n] \in Nat /\ b[0] + u[n] <= b[n])}
<1>5. ASSUME T # {} PROVE FALSE
  <2>1. PICK n \in T : \A y \in T : n <= y
    <3>1. T \in SUBSET Nat
      OBVIOUS
    <3> HIDE DEF T
    <3> QED
      BY <1>5, <3>1, NatMin
  <2>2. n # 0
    BY <1>4, <2>1
  <2>3. n - 1 \in 0 .. Len(s) /\ n - 1 \notin T /\ n \in 1 .. Len(s)
    BY <2>1, <2>2
  <2>4. u[n - 1] \in Nat /\ b[0] + u[n - 1] <= b[n - 1]
    BY <2>3
  <2>5. /\ RecordWords(s[n].len) \in Nat /\ u[n] = u[n - 1] + RecordWords(s[n].len)
        /\ b[n - 1] + RecordWords(s[n].len) <= b[n]
        /\ b[0] \in Nat /\ b[n - 1] \in Nat /\ b[n] \in Nat
    <3>1. s[n].len \in Nat /\ n \in 0 .. Len(s) /\ 0 \in 0 .. Len(s)
      BY <2>3
    <3>2. RecordWords(s[n].len) \in Nat
      BY <3>1, RecordWordsType
    <3> QED
      BY <1>4, <2>3, <3>1, <3>2
  <2>6. u[n] \in Nat /\ b[0] + u[n] <= b[n]
    BY <2>4, <2>5
  <2> QED
    BY <2>1, <2>6
<1>6. u[Len(s)] \in Nat /\ b[0] + u[Len(s)] <= b[Len(s)]
  <2>1. Len(s) \in 0 .. Len(s) /\ Len(s) \notin T
    BY <1>5
  <2> QED
    BY <2>1
<1> QED
  BY <1>1, <1>6

\* SubSeq and Append.
LEMMA SubSeqAppend ==
    ASSUME NEW S, NEW s \in Seq(S), NEW e \in S, NEW i \in 1 .. Len(s) + 1
    PROVE  /\ SubSeq(Append(s, e), i, Len(s) + 1) = Append(SubSeq(s, i, Len(s)), e)
           /\ \A j \in 0 .. Len(s) : SubSeq(Append(s, e), i, j) = SubSeq(s, i, j)
<1> DEFINE t == Append(s, e)
           n == Len(s)
<1>1. /\ n \in Nat /\ t \in Seq(S) /\ Len(t) = n + 1 /\ t[n + 1] = e
      /\ \A x \in 1 .. n : t[x] = s[x] /\ s[x] \in S
      /\ \A x \in 1 .. n + 1 : t[x] \in S
  <2>1. /\ n \in Nat /\ \A x \in 1 .. n : s[x] \in S
    BY LenProperties
  <2>2. /\ t \in Seq(S) /\ Len(t) = n + 1 /\ t[n + 1] = e
        /\ \A x \in 1 .. n : t[x] = s[x]
    BY AppendProperties
  <2>3. \A x \in 1 .. n + 1 : t[x] \in S
    BY <2>1, <2>2
  <2> QED
    BY <2>1, <2>2, <2>3
<1> HIDE DEF t, n
<1>2. SubSeq(t, i, n + 1) = Append(SubSeq(s, i, n), e)
  <2> DEFINE a == SubSeq(t, i, n + 1)
             b == SubSeq(s, i, n)
  <2>0. i \in Int /\ i >= 1 /\ i <= n + 1 /\ n \in Int /\ n + 1 \in Int
    BY <1>1 DEF n
  <2>1. /\ a \in Seq(S) /\ Len(a) = n + 1 - i + 1
        /\ \A x \in 1 .. n + 1 - i + 1 : a[x] = t[i + x - 1]
    <3>1. \A x \in i .. n + 1 : t[x] \in S
      BY <1>1, <2>0
    <3> QED
      BY <2>0, <3>1, SubSeqProperties
  <2>2. /\ b \in Seq(S) /\ Len(b) = n - i + 1
        /\ \A x \in 1 .. n - i + 1 : b[x] = s[i + x - 1]
    <3>1. \A x \in i .. n : s[x] \in S
      BY <1>1, <2>0
    <3>2. /\ b \in Seq(S) /\ Len(b) = IF i <= n THEN n - i + 1 ELSE 0
          /\ \A x \in 1 .. n - i + 1 : b[x] = s[i + x - 1]
      BY <2>0, <3>1, SubSeqProperties
    <3> QED
      BY <2>0, <3>2
  <2> DEFINE c == Append(b, e)
  <2>3. /\ c \in Seq(S) /\ Len(c) = Len(b) + 1 /\ c[Len(b) + 1] = e
        /\ \A x \in 1 .. Len(b) : c[x] = b[x]
    BY <2>2, AppendProperties
  <2> HIDE DEF a, b, c
  <2>4. Len(a) = Len(c) /\ Len(a) \in Nat /\ Len(a) = Len(b) + 1 /\ Len(b) \in Nat
    BY <2>0, <2>1, <2>2, <2>3
  <2>5. ASSUME NEW x \in 1 .. Len(a) PROVE a[x] = c[x]
    <3>1. a[x] = t[i + x - 1]
      BY <2>1
    <3>2. CASE x = Len(b) + 1
      <4>1. i + x - 1 = n + 1
        BY <2>0, <2>2, <3>2
      <4> QED
        BY <1>1, <2>3, <3>1, <3>2, <4>1
    <3>3. CASE x # Len(b) + 1
      <4>1. x \in 1 .. Len(b) /\ x \in 1 .. n - i + 1 /\ i + x - 1 \in 1 .. n
        BY <2>0, <2>2, <2>4, <3>3
      <4> QED
        BY <1>1, <2>2, <2>3, <3>1, <4>1
    <3> QED
      BY <3>2, <3>3
  <2>6. a = c
    BY <2>1, <2>3, <2>4, <2>5, SeqEqual
  <2> QED
    BY <2>6 DEF a, b, c
<1>3. ASSUME NEW j \in 0 .. n PROVE SubSeq(t, i, j) = SubSeq(s, i, j)
  <2> DEFINE a == SubSeq(t, i, j)
             b == SubSeq(s, i, j)
  <2>0. i \in Int /\ j \in Int /\ i >= 1 /\ j <= n /\ n \in Nat
    BY <1>1 DEF n
  <2>1. /\ a \in Seq(S) /\ Len(a) = IF i <= j THEN j - i + 1 ELSE 0
        /\ \A x \in 1 .. j - i + 1 : a[x] = t[i + x - 1]
    <3>1. \A x \in i .. j : t[x] \in S
      BY <1>1, <2>0
    <3> QED
      BY <2>0, <3>1, SubSeqProperties
  <2>2. /\ b \in Seq(S) /\ Len(b) = IF i <= j THEN j - i + 1 ELSE 0
        /\ \A x \in 1 .. j - i + 1 : b[x] = s[i + x - 1]
    <3>1. \A x \in i .. j : s[x] \in S
      BY <1>1, <2>0
    <3> QED
      BY <2>0, <3>1, SubSeqProperties
  <2> HIDE DEF a, b
  <2>3. ASSUME NEW x \in 1 .. Len(a) PROVE a[x] = b[x]
    <3>1. x \in 1 .. j - i + 1 /\ i + x - 1 \in 1 .. n
      BY <2>0, <2>1
    <3> QED
      BY <1>1, <2>1, <2>2, <3>1
  <2>4. a = b
    BY <2>1, <2>2, <2>3, SeqEqual
  <2> QED
    BY <2>4 DEF a, b
<1> QED
  BY <1>2, <1>3 DEF t, n

\* A reservation is an Accept: its producer has no other one pending, and the
\* records that the queue holds leave it room.
LEMMA CasAccepts ==
    ASSUME Divides, TypeInv, NEW at, NEW hp, NEW lp, NEW ix, Shape(at, hp, lp, ix),
           NEW p \in Producers, Cas(p), tail_reserve = ltail[p]
    PROVE  msg[p] \in Sent /\ Queue!Accept(msg[p])
<1> DEFINE n == Len(log)
           k == Len(taken)
           A == SubSeq(log, published + 1, n)
           Q == SubSeq(log, k + 1, published)
           m == msg[p]
<1>1. /\ Layout(at) /\ Cursors(at, hp) /\ Owners(at, ix) /\ Loaders(at, hp, lp)
      /\ pc[p] = "cas"
  BY DEF Shape, Cas
<1>2. m \in Sent /\ m.src = p
  BY <1>1 DEF Loaders
<1>3. /\ n \in Nat /\ k \in Nat /\ published \in Nat /\ k <= published /\ published <= n
      /\ log \in Seq(Sent) /\ hp \in Nat
      /\ \A i \in 1 .. n : log[i] \in Sent /\ log[i].len \in Nat
      /\ \A i \in 1 .. n + 1 : at[i] \in Nat
  BY <1>1, LayoutFacts, WindowFacts DEF Layout
<1>4. /\ Len(A) = n - published /\ \A i \in 1 .. n - published : A[i] = log[published + i]
  <2>1. \A i \in published + 1 .. n : log[i] \in Sent
    BY <1>3
  <2>2. /\ Len(A) = IF published + 1 <= n THEN n - (published + 1) + 1 ELSE 0
        /\ \A i \in 1 .. n - (published + 1) + 1 : A[i] = log[published + 1 + i - 1]
    BY <1>3, <2>1, SubSeqProperties
  <2>3. n - (published + 1) + 1 = n - published
    BY <1>3
  <2>4. \A i \in 1 .. n - published : published + 1 + i - 1 = published + i
    BY <1>3
  <2> HIDE DEF A, n
  <2> QED
    BY <1>3, <2>2, <2>3, <2>4
<1>5. /\ Len(Q) = published - k /\ \A i \in 1 .. published - k : Q[i] = log[k + i]
  <2>1. \A i \in k + 1 .. published : log[i] \in Sent
    BY <1>3
  <2>2. /\ Len(Q) = IF k + 1 <= published THEN published - (k + 1) + 1 ELSE 0
        /\ \A i \in 1 .. published - (k + 1) + 1 : Q[i] = log[k + 1 + i - 1]
    BY <1>3, <2>1, SubSeqProperties
  <2>3. published - (k + 1) + 1 = published - k
    BY <1>3
  <2>4. \A i \in 1 .. published - k : k + 1 + i - 1 = k + i
    BY <1>3
  <2> HIDE DEF Q, k
  <2> QED
    BY <1>3, <2>2, <2>3, <2>4
<1>6. ASSUME NEW i \in 1 .. Len(A) PROVE A[i].src # m.src
  <2>1. A[i] = log[published + i] /\ published + i \in published + 1 .. n
    BY <1>3, <1>4
  <2>2. log[published + i].src \in InFlight
    BY <1>1, <2>1 DEF Owners
  <2>3. p \notin InFlight
    BY <1>1 DEF InFlight
  <2> QED
    BY <1>2, <2>1, <2>2, <2>3
<1>7. \A i \in 1 .. n : at[i] + RecordWords(log[i].len) <= at[i + 1]
                        /\ Begin(at[i], log[i]) + RecordWords(log[i].len) <= at[i + 1]
  <2> TAKE i \in 1 .. n
  <2>1. /\ BodyWords(log[i].len) \in Nat /\ Begin(at[i], log[i]) \in Nat
        /\ at[i] <= Begin(at[i], log[i]) /\ at[i] \in Nat
        /\ at[i + 1] = Begin(at[i], log[i]) + 1 + BodyWords(log[i].len)
    <3>1. i \in 1 .. n + 1
      BY <1>3
    <3> QED
      BY <1>1, <1>3, <3>1, LayoutFacts
  <2>2. RecordWords(log[i].len) = 1 + BodyWords(log[i].len)
    BY <1>3, RecordWordsType
  <2> QED
    BY <2>1, <2>2
<1> HIDE DEF n, k, A, Q
<1>8. Queue!Space(A) \in Nat /\ at[published + 1] + Queue!Space(A) <= at[n + 1]
  <2> DEFINE b == [j \in 0 .. Len(A) |-> at[published + 1 + j]]
  <2>1. Len(A) \in Nat /\ \A i \in 1 .. Len(A) : A[i].len \in Nat
    <3>1. \A i \in 1 .. Len(A) : published + i \in 1 .. n
      BY <1>3, <1>4
    <3> QED
      BY <1>3, <1>4, <3>1
  <2>2. b \in [0 .. Len(A) -> Nat]
    <3>1. \A j \in 0 .. Len(A) : published + 1 + j \in 1 .. n + 1
      BY <1>3, <1>4
    <3> QED
      BY <1>3, <3>1
  <2>3. ASSUME NEW i \in 1 .. Len(A) PROVE b[i - 1] + RecordWords(A[i].len) <= b[i]
    <3>1. /\ published + i \in 1 .. n /\ A[i] = log[published + i]
          /\ i - 1 \in 0 .. Len(A) /\ i \in 0 .. Len(A)
          /\ published + 1 + (i - 1) = published + i /\ published + 1 + i = published + i + 1
      <4>1. Len(A) = n - published /\ i \in 1 .. n - published
        BY <1>4
      <4>2. A[i] = log[published + i]
        BY <1>4, <4>1
      <4>3. i \in Nat /\ 1 <= i /\ i <= n - published
        BY <1>3, <4>1
      <4>4. /\ published + i \in 1 .. n
            /\ published + 1 + (i - 1) = published + i /\ published + 1 + i = published + i + 1
        BY <1>3, <4>3
      <4>5. i - 1 \in 0 .. n - published /\ i \in 0 .. n - published
        BY <1>3, <4>3
      <4> QED
        BY <4>1, <4>2, <4>4, <4>5
    <3>2. b[i - 1] = at[published + i] /\ b[i] = at[published + i + 1]
      BY <3>1
    <3> QED
      BY <1>7, <3>1, <3>2
  <2>4. b[0] = at[published + 1] /\ b[Len(A)] = at[n + 1]
    <3>1. published + 1 + 0 = published + 1 /\ published + 1 + Len(A) = n + 1
          /\ 0 \in 0 .. Len(A) /\ Len(A) \in 0 .. Len(A)
      BY <1>3, <1>4
    <3> QED
      BY <3>1
  <2> HIDE DEF b
  <2> QED
    BY <2>1, <2>2, <2>3, <2>4, SpaceBound
<1>9. Queue!Space(Q) \in Nat /\ hp + Queue!Space(Q) <= at[published + 1]
  <2> DEFINE b == [j \in 0 .. Len(Q) |-> IF j = 0 THEN hp ELSE at[k + 1 + j]]
  <2>1. Len(Q) \in Nat /\ \A i \in 1 .. Len(Q) : Q[i].len \in Nat
    <3>1. \A i \in 1 .. Len(Q) : k + i \in 1 .. n
      BY <1>3, <1>5
    <3> QED
      BY <1>3, <1>5, <3>1
  <2>2. b \in [0 .. Len(Q) -> Nat]
    <3>1. \A j \in 0 .. Len(Q) : k + 1 + j \in 1 .. n + 1
      BY <1>3, <1>5
    <3> QED
      BY <1>3, <3>1
  <2>3. ASSUME NEW i \in 1 .. Len(Q) PROVE b[i - 1] + RecordWords(Q[i].len) <= b[i]
    <3>1. /\ k + i \in 1 .. n /\ Q[i] = log[k + i]
          /\ i - 1 \in 0 .. Len(Q) /\ i \in 0 .. Len(Q)
          /\ k + 1 + (i - 1) = k + i /\ k + 1 + i = k + i + 1
      <4>1. Len(Q) = published - k /\ i \in 1 .. published - k
        BY <1>5
      <4>2. Q[i] = log[k + i]
        BY <1>5, <4>1
      <4>3. i \in Nat /\ 1 <= i /\ i <= published - k
        BY <1>3, <4>1
      <4>4. k + i \in 1 .. n /\ k + 1 + (i - 1) = k + i /\ k + 1 + i = k + i + 1
        BY <1>3, <4>3
      <4>5. i - 1 \in 0 .. published - k /\ i \in 0 .. published - k
        BY <1>3, <4>3
      <4> QED
        BY <4>1, <4>2, <4>4, <4>5
    <3>2. b[i] = at[k + i + 1]
      BY <3>1
    <3>3. CASE i = 1
      <4>1. hp <= Begin(at[k + 1], log[k + 1])
        <5>1. k + 1 \in k + 1 .. n
          BY <1>3, <3>1, <3>3
        <5> QED
          BY <1>1, <5>1, WindowFacts DEF k, n
      <4>2. b[i - 1] = hp /\ Begin(at[k + 1], log[k + 1]) + RecordWords(Q[i].len) <= b[i]
        BY <1>7, <3>1, <3>2, <3>3
      <4>3. Begin(at[k + 1], log[k + 1]) \in Nat /\ RecordWords(Q[i].len) \in Nat /\ b[i] \in Nat
        <5>1. k + 1 \in 1 .. n /\ Q[i].len \in Nat
          BY <2>1, <3>1, <3>3
        <5>2. Begin(at[k + 1], log[k + 1]) \in Nat
          BY <1>1, <5>1, LayoutFacts DEF n
        <5> HIDE DEF b
        <5> QED
          BY <2>2, <3>1, <5>1, <5>2, RecordWordsType
      <4> HIDE DEF b
      <4> QED
        BY <1>3, <4>1, <4>2, <4>3
    <3>4. CASE i # 1
      <4>1. b[i - 1] = at[k + i]
        BY <3>1, <3>4
      <4> HIDE DEF b
      <4> QED
        BY <1>7, <3>1, <3>2, <4>1
    <3> QED
      BY <3>3, <3>4
  <2>4. b[0] = hp /\ b[Len(Q)] <= at[published + 1]
    <3>1. CASE Len(Q) = 0
      <4>1. b[Len(Q)] = hp
        BY <3>1
      <4>2. hp <= at[published + 1]
        BY <1>1, WindowFacts
      <4> QED
        BY <3>1, <4>1, <4>2
    <3>2. CASE Len(Q) # 0
      <4>1. /\ Len(Q) \in 0 .. Len(Q) /\ k + 1 + Len(Q) = published + 1
            /\ 0 \in 0 .. Len(Q) /\ published + 1 \in 1 .. n + 1
        BY <1>3, <1>5
      <4>2. b[0] = hp /\ b[Len(Q)] = at[published + 1]
        BY <3>2, <4>1
      <4>3. at[published + 1] \in Nat
        BY <1>3, <4>1
      <4> HIDE DEF b
      <4> QED
        BY <4>2, <4>3
    <3> QED
      BY <3>1, <3>2
  <2>5. Queue!Space(Q) \in Nat /\ b[0] + Queue!Space(Q) <= b[Len(Q)]
    <3> HIDE DEF b
    <3> QED
      BY <2>1, <2>2, <2>3, SpaceBound
  <2>6. b[Len(Q)] \in Nat /\ at[published + 1] \in Nat
    <3>1. published + 1 \in 1 .. n + 1 /\ Len(Q) \in 0 .. Len(Q)
      BY <1>3, <2>1
    <3> HIDE DEF b
    <3> QED
      BY <1>3, <2>2, <3>1
  <2> HIDE DEF b
  <2> QED
    BY <1>3, <2>4, <2>5, <2>6
<1>10. Queue!Space(Q) + Queue!Space(A) + RecordWords(m.len) <= Cap
  <2> DEFINE r == Reserve(at[n + 1], m.len)
  <2>1. /\ r \in Nat /\ RecordWords(m.len) <= r /\ at[n + 1] + r <= hp + Cap
        /\ RecordWords(m.len) \in Nat /\ at[n + 1] \in Nat
    BY <1>1, CasFits DEF n
  <2>2. at[published + 1] \in Nat
    BY <1>3
  <2> HIDE DEF r
  <2>3. Queue!Space(Q) \in Nat /\ Queue!Space(A) \in Nat
    BY <1>8, <1>9
  <2>4. hp \in Nat /\ Cap \in Nat
    BY <1>3, CapAssumption
  <2> QED
    BY <1>8, <1>9, <2>1, <2>2, <2>3, <2>4
<1>11. /\ log' = Append(log, m) /\ published' = published /\ taken' = taken
  BY DEF Cas
<1>12. SubSeq(log', published' + 1, Len(log')) = Append(A, m)
  <2>1. published + 1 \in 1 .. Len(log) + 1
    BY <1>3 DEF n
  <2>2. SubSeq(Append(log, m), published + 1, Len(log) + 1) = Append(SubSeq(log, published + 1, Len(log)), m)
    BY <1>2, <1>3, <2>1, SubSeqAppend
  <2>3. Len(log') = Len(log) + 1
    BY <1>2, <1>3, <1>11, AppendProperties
  <2> QED
    BY <1>11, <2>2, <2>3 DEF A, n
<1>13. SubSeq(log', Len(taken') + 1, published') = Q
  <2>1. k + 1 \in 1 .. Len(log) + 1 /\ published \in 0 .. Len(log)
    BY <1>3 DEF n
  <2>2. SubSeq(Append(log, m), k + 1, published) = SubSeq(log, k + 1, published)
    BY <1>2, <1>3, <2>1, SubSeqAppend
  <2> QED
    BY <1>11, <2>2 DEF Q, k
<1> QED
  BY <1>2, <1>6, <1>10, <1>11, <1>12, <1>13 DEF Queue!Accept, A, Q, n, k

LEMMA CommitPublishes ==
    ASSUME Divides, TypeInv, NEW at, NEW hp, NEW lp, NEW ix, Shape(at, hp, lp, ix),
           NEW p \in Producers, StoreCommit(p)
    PROVE  Queue!Publish
<1> DEFINE n == Len(log)
           k == Len(taken)
           A == SubSeq(log, published + 1, n)
           Q == SubSeq(log, k + 1, published)
           Q2 == SubSeq(log, k + 1, published + 1)
<1>1. /\ Layout(at) /\ Cursors(at, hp) /\ Owners(at, ix) /\ p \in InFlight
      /\ pc[p] = "commit"
  BY DEF Shape, StoreCommit, InFlight
<1>2. /\ n \in Nat /\ k \in Nat /\ published \in Nat /\ k <= published /\ published <= n
      /\ log \in Seq(Sent)
  BY <1>1, LayoutFacts, WindowFacts DEF Layout
<1>3. published + 1 \in 1 .. n /\ n \in published + 1 .. n
  <2>1. ix[p] \in published + 1 .. n
    BY <1>1 DEF Owners
  <2> QED
    BY <1>2, <2>1
<1>4. Head(A) = log[published + 1] /\ Tail(A) = SubSeq(log, published + 1 + 1, n)
  BY <1>2, <1>3, HeadTailOfSubSeq
<1>5. A # <<>>
  <2>1. \A i \in published + 1 .. n : log[i] \in Sent
    BY <1>2
  <2>2. Len(A) = IF published + 1 <= n THEN n - (published + 1) + 1 ELSE 0
    BY <1>2, <2>1, SubSeqProperties
  <2>3. Len(A) # 0
    BY <1>2, <1>3, <2>2
  <2> HIDE DEF A
  <2> QED
    BY <2>3
<1>6. Q2 = Append(Q, log[published + 1])
  <2>1. k + 1 \in 1 .. Len(log) /\ published + 1 \in k + 1 .. Len(log)
    BY <1>2, <1>3
  <2>2. Q2 = SubSeq(log, k + 1, (published + 1) - 1) \o <<log[published + 1]>>
    BY <1>2, <2>1, SubSeqRecursiveSecond
  <2>3. (published + 1) - 1 = published
    BY <1>2
  <2>4. Q \in Seq(Sent) /\ log[published + 1] \in Sent
    <3>1. \A i \in k + 1 .. published : log[i] \in Sent
      BY <1>2
    <3> QED
      BY <1>2, <1>3, <3>1, SubSeqProperties
  <2> QED
    BY <2>2, <2>3, <2>4, AppendIsConcat
<1>7. published' = published + 1 /\ log' = log /\ taken' = taken
  BY DEF StoreCommit
<1> HIDE DEF Q2, Q, A
<1>8. SubSeq(log', published' + 1, Len(log')) = Tail(A)
  BY <1>4, <1>7 DEF A
<1>9. SubSeq(log', Len(taken') + 1, published') = Append(Q, Head(A))
  BY <1>4, <1>6, <1>7 DEF Q2
<1> QED
  BY <1>5, <1>7, <1>8, <1>9 DEF Queue!Publish, A, Q

LEMMA StoreTakes ==
    ASSUME Divides, TypeInv, NEW at, NEW hp, NEW lp, NEW ix, Shape(at, hp, lp, ix),
           PopStore, cout.res # "skip"
    PROVE  Queue!Take
<1> DEFINE n == Len(log)
           k == Len(taken)
           A == SubSeq(log, published + 1, n)
           Q == SubSeq(log, k + 1, published)
<1>1. Layout(at) /\ Cursors(at, hp) /\ Reading(at, hp)
  BY DEF Shape
<1>2. /\ n \in Nat /\ k \in Nat /\ published \in Nat /\ k <= published /\ published <= n
      /\ log \in Seq(Sent)
  BY <1>1, LayoutFacts, WindowFacts DEF Layout
<1>3. /\ k + 1 <= published /\ cout.res \in {"ok", "too_large"}
      /\ cout = [res |-> cout.res, len |-> log[k + 1].len, words |-> cout.words]
      /\ cout.res = "too_large" => cout.words = <<>> /\ log[k + 1].len > cmax
      /\ cout.res = "ok" => cout.words = log[k + 1].words
      /\ cmax \in PopLimits
  BY <1>1 DEF PopStore, Reading
<1>4. k + 1 \in 1 .. n /\ published \in k + 1 .. n
  BY <1>2, <1>3
<1>5. Head(Q) = log[k + 1] /\ Tail(Q) = SubSeq(log, k + 1 + 1, published)
  BY <1>2, <1>4, HeadTailOfSubSeq
<1>6. Q # <<>>
  <2>1. \A i \in k + 1 .. published : log[i] \in Sent
    BY <1>2
  <2>2. Len(Q) = IF k + 1 <= published THEN published - (k + 1) + 1 ELSE 0
    BY <1>2, <2>1, SubSeqProperties
  <2>3. Len(Q) # 0
    BY <1>2, <1>3, <2>2
  <2> HIDE DEF Q
  <2> QED
    BY <2>3
<1>7. /\ published' = published /\ log' = log /\ taken' = Append(taken, cout)
  BY <1>3 DEF PopStore
<1>8. Len(taken') = k + 1
  <2>1. cout \in Returned
    <3>1. /\ log[k + 1].len \in Nat /\ log[k + 1].words \in [1 .. BodyWords(log[k + 1].len) -> Word]
          /\ BodyWords(log[k + 1].len) \in Nat
      BY <1>1, <1>4, LayoutFacts
    <3>2. log[k + 1].words \in Seq(Word) /\ <<>> \in Seq(Word)
      BY <3>1
    <3>3. cout.words \in Seq(Word)
      BY <1>3, <3>2
    <3> QED
      BY <1>3, <3>1, <3>3 DEF Returned
  <2>2. taken \in Seq(Returned)
    BY <1>1 DEF Cursors
  <2> QED
    BY <1>7, <2>1, <2>2, AppendProperties
<1> HIDE DEF A, Q
<1>9. SubSeq(log', published' + 1, Len(log')) = A
  BY <1>7 DEF A
<1>10. SubSeq(log', Len(taken') + 1, published') = Tail(Q)
  BY <1>5, <1>7, <1>8
<1>11. \/ taken' = Append(taken, [res |-> "ok", len |-> Head(Q).len, words |-> Head(Q).words])
       \/ /\ \E max \in PopLimits : Head(Q).len > max
          /\ taken' = Append(taken, [res |-> "too_large", len |-> Head(Q).len, words |-> <<>>])
  BY <1>3, <1>5, <1>7
<1> QED
  BY <1>6, <1>9, <1>10, <1>11 DEF Queue!Take, A, Q

LEMMA QueueStep == RingInv /\ [Next]_vars => [Queue!QNext]_(Queue!qvars)
<1> SUFFICES ASSUME RingInv, [Next]_vars PROVE [Queue!QNext]_(Queue!qvars)
  OBVIOUS
<1>1. Divides /\ TypeInv
  BY DEF RingInv
<1>2. PICK at, hp, lp, ix : Shape(at, hp, lp, ix)
  BY DEF RingInv
<1>3. ASSUME UNCHANGED history PROVE UNCHANGED Queue!qvars
  BY <1>3 DEF history, Queue!qvars
<1>4. ASSUME NEW p \in Producers, PushStep(p) PROVE [Queue!QNext]_(Queue!qvars)
  <2>1. CASE Cas(p) /\ tail_reserve = ltail[p]
    <3>1. msg[p] \in Sent /\ Queue!Accept(msg[p])
      BY <1>1, <1>2, <2>1, CasAccepts
    <3> QED
      BY <3>1 DEF Queue!QNext, Sent
  <2>2. CASE StoreCommit(p)
    <3>1. Queue!Publish
      BY <1>1, <1>2, <2>2, CommitPublishes
    <3> QED
      BY <3>1 DEF Queue!QNext
  <2>3. CASE ~StoreCommit(p) /\ ~(Cas(p) /\ tail_reserve = ltail[p])
    <3>1. UNCHANGED history
      BY <1>4, <2>3 DEF PushStep, LoadHead, LoadTail, Cas, WriteMarker, WriteLength, WriteBody,
         AwaitCommit, history
    <3> QED
      BY <1>3, <3>1
  <2> QED
    BY <2>1, <2>2, <2>3
<1>5. CASE PopStep
  <2>1. CASE PopStore /\ cout.res # "skip"
    <3>1. Queue!Take
      BY <1>1, <1>2, <2>1, StoreTakes
    <3> QED
      BY <3>1 DEF Queue!QNext
  <2>2. CASE ~(PopStore /\ cout.res # "skip")
    <3>1. UNCHANGED history
      BY <1>5, <2>2 DEF PopStep, PopLoad, PopInspect, PopCopy, PopStore, history
    <3> QED
      BY <1>3, <3>1
  <2> QED
    BY <2>1, <2>2
<1>6. ASSUME NEW p \in Producers, NEW len \in PayloadLens, StartPush(p, len)
      PROVE  UNCHANGED history
  BY <1>6 DEF StartPush
<1>7. ASSUME NEW max \in PopLimits, StartPop(max) PROVE UNCHANGED history
  BY <1>7 DEF StartPop
<1>8. UNCHANGED vars => UNCHANGED history
  BY DEF vars
<1> QED
  BY <1>3, <1>4, <1>5, <1>6, <1>7, <1>8 DEF Next

\* The ring is a bounded first-in first-out queue: payloads come out once,
\* unaltered and in the order of their reservations, and the records held
\* never exceed the capacity.
THEOREM RingImplementsQueue == Divides /\ Spec => ImplementsQueue
<1>1. Init => Queue!QInit
  <2> SUFFICES ASSUME Init PROVE Queue!QInit
    OBVIOUS
  <2>1. log = <<>> /\ published = 0 /\ taken = <<>> /\ Len(log) = 0 /\ Len(taken) = 0
    BY DEF Init
  <2>2. SubSeq(log, 1, 0) = <<>>
    BY SubSeqEmpty
  <2>3. 0 + 1 = 1
    OBVIOUS
  <2> QED
    BY <2>1, <2>2, <2>3 DEF Queue!QInit
<1>2. RingInv /\ [Next]_vars => [Queue!QNext]_(Queue!qvars)
  BY QueueStep
<1> QED
  BY <1>1, <1>2, RingInvariant, PTL DEF Spec, ImplementsQueue, Queue!QSpec

=============================================================================
