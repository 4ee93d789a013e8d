-------------------------- MODULE IrqMachineProofs --------------------------
(***************************************************************************)
(* The interrupt lines of IrqMachine, for every number of lines, CPUs and  *)
(* devices, every wiring, and every number of mode switches, resets and    *)
(* restores: a line is the wired OR of its devices, no level-triggered     *)
(* interrupt is lost, and a poll settles every line.                       *)
(***************************************************************************)
EXTENDS IrqMachine, FiniteSetTheorems, NaturalsInduction, WellFoundedInduction, TLAPS

-----------------------------------------------------------------------------
(* The invariant *)

Fabrics ==
    [mode : {"pic", "apic"}, generation : Nat,
     level : [Gsis -> BOOLEAN], baseline : [Gsis -> BOOLEAN], count : [Gsis -> 0 .. MaxCount],
     pin : [Gsis -> BOOLEAN], entry : [Gsis -> Entries],
     irr : [Cpus -> SUBSET Gsis], isr : [Cpus -> SUBSET Gsis],
     picImr : SUBSET Gsis, picIrr : SUBSET Gsis, picIsr : SUBSET Gsis, picLine : SUBSET Gsis]

Drivers == [out : BOOLEAN, gen : Nat, cache : BOOLEAN]

\* The interrupt of line g waits in some local APIC or is being served there.
Requested(p, g) == \E c \in Cpus : g \in p.irr[c] \/ g \in p.isr[c]

\* Remote-IRR stands for a request that was made and not yet ended, and the
\* level is what is counted.
Counted(p, g) ==
    /\ p.entry[g].trigger = "edge" => ~p.entry[g].remoteIrr
    /\ p.mode = "apic" => (p.entry[g].remoteIrr => Requested(p, g))
    /\ p.level[g] <=> (p.baseline[g] \/ p.count[g] > 0)

\* The I/O APIC has seen the level and acted upon it.
Seen(p, g) ==
    p.mode = "apic" =>
        /\ p.pin[g] <=> p.level[g]
        /\ p.entry[g].trigger = "level" /\ ~p.entry[g].masked /\ p.pin[g] => p.entry[g].remoteIrr

\* The entry of a line has the line's trigger mode, or was never written.
Programmed(p, g) ==
    \A s \in On(g) : \/ p.entry[g].trigger = wiring[s].trigger
                     \/ p.entry[g].trigger = "edge" /\ p.entry[g].masked

FabricOK(p) == p \in Fabrics /\ \A g \in Gsis : Counted(p, g) /\ Seen(p, g) /\ Programmed(p, g)

\* From p to q only requests and what the controllers know of the lines change.
Routed(p, q) ==
    /\ q.mode = p.mode /\ q.generation = p.generation
    /\ q.level = p.level /\ q.baseline = p.baseline /\ q.count = p.count /\ q.isr = p.isr
    /\ \A g \in Gsis : /\ q.entry[g].trigger = p.entry[g].trigger
                       /\ q.entry[g].masked = p.entry[g].masked

-----------------------------------------------------------------------------
(* The I/O APIC and the PIC *)

LEMMA DeliverEffect ==
    ASSUME NEW p \in Fabrics, NEW S \in SUBSET Gsis
    PROVE  /\ Deliver(p, S) \in Fabrics /\ Routed(p, Deliver(p, S)) /\ Deliver(p, S).pin = p.pin
           /\ \A g \in Gsis : Deliver(p, S).entry[g].remoteIrr <=>
                 p.entry[g].remoteIrr \/ (g \in S /\ p.entry[g].trigger = "level")
           /\ \A c \in Cpus, g \in Gsis : g \in Deliver(p, S).irr[c] <=>
                 g \in p.irr[c] \/ (g \in S /\ p.mode = "apic" /\ p.entry[g].dest = c)
<1> DEFINE en == [g \in Gsis |-> [p.entry[g] EXCEPT
                            !.remoteIrr = @ \/ (g \in S /\ p.entry[g].trigger = "level")]]
           ir == [c \in Cpus |-> p.irr[c] \cup {g \in S : p.mode = "apic" /\ p.entry[g].dest = c}]
<1>1. p.entry \in [Gsis -> Entries] /\ p.irr \in [Cpus -> SUBSET Gsis]
  BY DEF Fabrics
<1>2. /\ en \in [Gsis -> Entries]
      /\ \A g \in Gsis : /\ en[g].trigger = p.entry[g].trigger /\ en[g].masked = p.entry[g].masked
                         /\ en[g].remoteIrr <=> p.entry[g].remoteIrr \/ (g \in S /\ p.entry[g].trigger = "level")
  BY <1>1 DEF Entries
<1>3. ir \in [Cpus -> SUBSET Gsis]
      /\ \A c \in Cpus, g \in Gsis : g \in ir[c] <=>
            g \in p.irr[c] \/ (g \in S /\ p.mode = "apic" /\ p.entry[g].dest = c)
  BY <1>1
<1>4. Deliver(p, S) = [p EXCEPT !.entry = en, !.irr = ir]
  BY DEF Deliver
<1> HIDE DEF en, ir
<1>5. PICK q : q = [p EXCEPT !.entry = en, !.irr = ir]
  OBVIOUS
<1>6. /\ q \in Fabrics /\ q.entry = en /\ q.irr = ir /\ q.pin = p.pin
      /\ q.mode = p.mode /\ q.generation = p.generation
      /\ q.level = p.level /\ q.baseline = p.baseline /\ q.count = p.count /\ q.isr = p.isr
  BY <1>2, <1>3, <1>5 DEF Fabrics
<1>7. Routed(p, q)
  BY <1>2, <1>6 DEF Routed
<1> QED
  BY <1>2, <1>3, <1>4, <1>5, <1>6, <1>7

\* What changes of a fabric that delivers nothing keeps its requests.
LEMMA RequestedMore ==
    ASSUME NEW p, NEW q, q.isr = p.isr, NEW g \in Gsis,
           \A c \in Cpus : g \in p.irr[c] => g \in q.irr[c], Requested(p, g)
    PROVE  Requested(q, g)
  BY DEF Requested

LEMMA RoutedProgrammed ==
    ASSUME NEW p, NEW q, Routed(p, q), NEW g \in Gsis, Programmed(p, g)
    PROVE  Programmed(q, g)
  BY DEF Programmed, Routed

\* maybe_deliver_level and the rising edges of set_irq_level: a line that is
\* delivered has its request, and a level that is up is delivered.
LEMMA DeliverKeeps ==
    ASSUME NEW p \in Fabrics, NEW S \in SUBSET Gsis, NEW g \in Gsis, Counted(p, g)
    PROVE  /\ Counted(Deliver(p, S), g)
           /\ Seen(p, g) \/ (g \in S /\ (p.pin[g] <=> p.level[g])) => Seen(Deliver(p, S), g)
<1>1. PICK q : q = Deliver(p, S)
  OBVIOUS
<1>2. /\ q \in Fabrics /\ Routed(p, q) /\ q.pin = p.pin
      /\ q.entry[g].remoteIrr <=> p.entry[g].remoteIrr \/ (g \in S /\ p.entry[g].trigger = "level")
      /\ \A c \in Cpus : g \in q.irr[c] <=>
                 g \in p.irr[c] \/ (g \in S /\ p.mode = "apic" /\ p.entry[g].dest = c)
  BY <1>1, DeliverEffect
<1>3. p.entry[g].dest \in Cpus
  BY DEF Fabrics, Entries
<1>4. p.mode = "apic" /\ g \in S => Requested(q, g)
  BY <1>2, <1>3 DEF Requested
<1>5. Requested(p, g) => Requested(q, g)
  BY <1>2, RequestedMore DEF Routed
<1>6. Counted(q, g)
  BY <1>2, <1>4, <1>5 DEF Counted, Routed
<1>7. Seen(p, g) \/ (g \in S /\ (p.pin[g] <=> p.level[g])) => Seen(q, g)
  BY <1>2 DEF Seen, Routed
<1> QED
  BY <1>1, <1>6, <1>7

\* IoApic::set_irq_level: the lines of S are seen afterwards.
LEMMA SetIrqLevelKeeps ==
    ASSUME NEW p \in Fabrics, NEW S \in SUBSET Gsis,
           \A g \in Gsis : Counted(p, g) /\ (g \notin S => Seen(p, g))
    PROVE  /\ SetIrqLevel(p, S) \in Fabrics /\ Routed(p, SetIrqLevel(p, S))
           /\ \A g \in Gsis : Counted(SetIrqLevel(p, S), g) /\ Seen(SetIrqLevel(p, S), g)
<1> DEFINE pn == [g \in Gsis |-> IF g \in S THEN p.level[g] ELSE p.pin[g]]
<1>1. p.level \in [Gsis -> BOOLEAN] /\ p.pin \in [Gsis -> BOOLEAN]
  BY DEF Fabrics
<1>2. pn \in [Gsis -> BOOLEAN] /\ \A g \in Gsis : pn[g] = IF g \in S THEN p.level[g] ELSE p.pin[g]
  BY <1>1
<1> HIDE DEF pn
<1>3. PICK q : q = [p EXCEPT !.pin = pn]
  OBVIOUS
<1>4. /\ q \in Fabrics /\ q.pin = pn /\ q.entry = p.entry /\ q.irr = p.irr
      /\ q.mode = p.mode /\ q.generation = p.generation
      /\ q.level = p.level /\ q.baseline = p.baseline /\ q.count = p.count /\ q.isr = p.isr
  BY <1>2, <1>3 DEF Fabrics
<1>5. PICK D : D = {g \in S : LevelWaits(q, g) \/
                        (p.entry[g].trigger = "edge" /\ ~p.entry[g].masked /\ ~p.pin[g] /\ q.pin[g])}
  OBVIOUS
<1>6. SetIrqLevel(p, S) = Deliver(q, D)
  BY <1>3, <1>5 DEF SetIrqLevel, pn
<1>7. D \in SUBSET Gsis
  BY <1>5
<1>8. PICK r : r = Deliver(q, D)
  OBVIOUS
<1>9. r \in Fabrics /\ Routed(q, r)
  BY <1>4, <1>7, <1>8, DeliverEffect
<1>10. Routed(p, r)
  BY <1>4, <1>9 DEF Routed
<1>11. ASSUME NEW g \in Gsis PROVE Counted(r, g) /\ Seen(r, g)
  <2>1. Counted(q, g)
    BY <1>4 DEF Counted, Requested
  <2>2. Counted(r, g)
    BY <1>4, <1>7, <1>8, <2>1, DeliverKeeps
  <2>3. CASE g \notin S
    <3>1. q.pin[g] = p.pin[g]
      BY <1>2, <1>4, <2>3
    <3>2. Seen(q, g)
      BY <1>4, <2>3, <3>1 DEF Seen
    <3> QED
      BY <1>4, <1>7, <1>8, <2>1, <2>2, <3>2, DeliverKeeps
  <2>4. CASE g \in S /\ g \in D
    <3>1. q.pin[g] <=> q.level[g]
      BY <1>2, <1>4, <2>4
    <3> QED
      BY <1>4, <1>7, <1>8, <2>1, <2>2, <2>4, <3>1, DeliverKeeps
  <2>5. CASE g \in S /\ g \notin D
    <3>1. q.pin[g] <=> q.level[g]
      BY <1>2, <1>4, <2>5
    <3>2. ~LevelWaits(q, g)
      BY <1>5, <2>5
    <3>3. Seen(q, g)
      BY <3>1, <3>2 DEF Seen, LevelWaits
    <3> QED
      BY <1>4, <1>7, <1>8, <2>1, <2>2, <3>3, DeliverKeeps
  <2> QED
    BY <2>3, <2>4, <2>5
<1> QED
  BY <1>6, <1>8, <1>9, <1>10, <1>11

LEMMA PicSetLevelEffect ==
    ASSUME NEW p \in Fabrics, NEW S \in SUBSET Gsis
    PROVE  PicSetLevel(p, S) \in Fabrics /\ Routed(p, PicSetLevel(p, S))
<1>1. PICK L, I : /\ L = (p.picLine \ S) \cup {g \in S : p.level[g]}
                  /\ I = p.picIrr \cup ({g \in S : p.level[g]} \ p.picLine)
  OBVIOUS
<1>2. L \in SUBSET Gsis /\ I \in SUBSET Gsis
  BY <1>1 DEF Fabrics
<1>3. PICK q : q = [p EXCEPT !.picLine = L, !.picIrr = I]
  OBVIOUS
<1>4. /\ q \in Fabrics /\ q.entry = p.entry /\ q.mode = p.mode /\ q.generation = p.generation
      /\ q.level = p.level /\ q.baseline = p.baseline /\ q.count = p.count /\ q.isr = p.isr
  BY <1>2, <1>3 DEF Fabrics
<1>5. PicSetLevel(p, S) = q
  BY <1>1, <1>3 DEF PicSetLevel
<1> QED
  BY <1>4, <1>5 DEF Routed

\* Outside APIC mode nothing depends on what the I/O APIC has seen.
LEMMA RoutedPic ==
    ASSUME NEW p, NEW q, Routed(p, q), p.mode # "apic", NEW g \in Gsis,
           q.entry[g].remoteIrr => p.entry[g].remoteIrr, Counted(p, g)
    PROVE  Counted(q, g) /\ Seen(q, g)
  BY DEF Counted, Seen, Routed

\* drive_gsi_effective_level
LEMMA DriveKeeps ==
    ASSUME NEW p \in Fabrics, NEW S \in SUBSET Gsis,
           \A g \in Gsis : Counted(p, g) /\ Programmed(p, g) /\ (g \notin S => Seen(p, g))
    PROVE  FabricOK(Drive(p, S)) /\ Routed(p, Drive(p, S))
<1>1. PICK q : q = Drive(p, S)
  OBVIOUS
<1>2. p.mode \in {"pic", "apic"}
  BY DEF Fabrics
<1>3. CASE p.mode = "pic"
  <2>1. q = PicSetLevel(p, S)
    BY <1>1, <1>3 DEF Drive
  <2>2. q \in Fabrics /\ Routed(p, q)
    BY <2>1, PicSetLevelEffect
  <2>3. q.entry = p.entry
    BY <2>1 DEF PicSetLevel, Fabrics
  <2>4. \A g \in Gsis : Counted(q, g) /\ Seen(q, g)
    BY <1>3, <2>2, <2>3, RoutedPic
  <2> QED
    BY <1>1, <2>2, <2>4, RoutedProgrammed DEF FabricOK
<1>4. CASE p.mode = "apic"
  <2>1. q = SetIrqLevel(p, S)
    BY <1>1, <1>4 DEF Drive
  <2>2. /\ q \in Fabrics /\ Routed(p, q)
        /\ \A g \in Gsis : Counted(q, g) /\ Seen(q, g)
    BY <2>1, SetIrqLevelKeeps
  <2> QED
    BY <1>1, <2>2, RoutedProgrammed DEF FabricOK
<1> QED
  BY <1>2, <1>3, <1>4

-----------------------------------------------------------------------------
(* The router *)

\* The tail of update_gsi_assert_count.
LEMMA ApplyCountKeeps ==
    ASSUME NEW p, FabricOK(p), NEW S \in SUBSET Gsis, NEW count, \A g \in S : count[g] \in 0 .. MaxCount
    PROVE  LET q == ApplyCount(p, S, count)
           IN  /\ FabricOK(q)
               /\ q.mode = p.mode /\ q.generation = p.generation /\ q.baseline = p.baseline
               /\ \A g \in Gsis : q.count[g] = IF g \in S THEN count[g] ELSE p.count[g]
<1> DEFINE lv == [g \in Gsis |-> IF g \in S THEN p.baseline[g] \/ count[g] > 0 ELSE p.level[g]]
           ct == [g \in Gsis |-> IF g \in S THEN count[g] ELSE p.count[g]]
<1>1. /\ p \in Fabrics /\ p.level \in [Gsis -> BOOLEAN] /\ p.baseline \in [Gsis -> BOOLEAN]
      /\ p.count \in [Gsis -> 0 .. MaxCount]
      /\ \A g \in Gsis : Counted(p, g) /\ Seen(p, g) /\ Programmed(p, g)
  BY DEF FabricOK, Fabrics
<1>2. /\ lv \in [Gsis -> BOOLEAN]
      /\ \A g \in Gsis : g \notin S => lv[g] = p.level[g]
      /\ \A g \in S : lv[g] <=> (p.baseline[g] \/ count[g] > 0)
  BY <1>1
<1>3. /\ ct \in [Gsis -> 0 .. MaxCount]
      /\ \A g \in Gsis : ct[g] = IF g \in S THEN count[g] ELSE p.count[g]
  BY <1>1
<1>4. PICK D : D = {g \in S : lv[g] # p.level[g]}
  OBVIOUS
<1>5. ApplyCount(p, S, count) = Drive([p EXCEPT !.count = ct, !.level = lv], D)
  BY <1>4 DEF ApplyCount
<1> HIDE DEF lv, ct
<1>6. PICK q : q = [p EXCEPT !.count = ct, !.level = lv]
  OBVIOUS
<1>7. /\ q \in Fabrics /\ q.count = ct /\ q.level = lv /\ q.entry = p.entry /\ q.irr = p.irr /\ q.pin = p.pin
      /\ q.mode = p.mode /\ q.generation = p.generation /\ q.baseline = p.baseline /\ q.isr = p.isr
  BY <1>1, <1>2, <1>3, <1>6 DEF Fabrics
<1>8. D \in SUBSET Gsis
  BY <1>4
<1>9. ASSUME NEW g \in Gsis PROVE Counted(q, g) /\ Programmed(q, g) /\ (g \notin D => Seen(q, g))
  <2>1. Counted(p, g) /\ Seen(p, g) /\ Programmed(p, g)
    BY <1>1
  <2>2. q.level[g] <=> (q.baseline[g] \/ q.count[g] > 0)
    BY <1>2, <1>3, <1>7, <2>1 DEF Counted
  <2>3. Counted(q, g)
    BY <1>7, <2>1, <2>2 DEF Counted, Requested
  <2>4. Programmed(q, g)
    BY <1>7, <2>1 DEF Programmed
  <2>5. g \notin D => q.level[g] = p.level[g]
    BY <1>2, <1>4, <1>7
  <2>6. g \notin D => Seen(q, g)
    BY <1>7, <2>1, <2>5 DEF Seen
  <2> QED
    BY <2>3, <2>4, <2>6
<1>10. PICK r : r = Drive(q, D)
  OBVIOUS
<1>11. FabricOK(r) /\ Routed(q, r)
  BY <1>7, <1>8, <1>9, <1>10, DriveKeeps
<1>12. r.mode = p.mode /\ r.generation = p.generation /\ r.baseline = p.baseline /\ r.count = ct
  BY <1>7, <1>11 DEF Routed
<1> QED
  BY <1>3, <1>5, <1>6, <1>10, <1>11, <1>12

\* raise_irq: one assertion more, unless the count is at its limit.
LEMMA RaiseKeeps ==
    ASSUME NEW p, FabricOK(p), NEW S \in SUBSET Gsis
    PROVE  LET q == RaiseIrq(p, S)
           IN  /\ FabricOK(q)
               /\ q.mode = p.mode /\ q.generation = p.generation /\ q.baseline = p.baseline
               /\ \A g \in Gsis : g \notin S => q.count[g] = p.count[g]
               /\ \A g \in S : p.count[g] # MaxCount => q.count[g] = p.count[g] + 1
<1> DEFINE count == [g \in Gsis |-> IF p.count[g] = MaxCount THEN MaxCount ELSE p.count[g] + 1]
<1>1. p.count \in [Gsis -> 0 .. MaxCount] /\ MaxCount \in Nat
  BY FabricAssumption DEF FabricOK, Fabrics
<1>2. \A g \in S : count[g] \in 0 .. MaxCount /\ (p.count[g] # MaxCount => count[g] = p.count[g] + 1)
  BY <1>1
<1>3. RaiseIrq(p, S) = ApplyCount(p, S, count)
  BY DEF RaiseIrq
<1> HIDE DEF count
<1>4. PICK q : q = ApplyCount(p, S, count)
  OBVIOUS
<1>5. /\ FabricOK(q)
      /\ q.mode = p.mode /\ q.generation = p.generation /\ q.baseline = p.baseline
      /\ \A g \in Gsis : q.count[g] = IF g \in S THEN count[g] ELSE p.count[g]
  BY <1>2, <1>4, ApplyCountKeeps
<1> QED
  BY <1>2, <1>3, <1>4, <1>5

\* lower_irq: one assertion less, if there is one.
LEMMA LowerKeeps ==
    ASSUME NEW p, FabricOK(p), NEW S \in SUBSET Gsis
    PROVE  LET q == LowerIrq(p, S)
           IN  /\ FabricOK(q)
               /\ q.mode = p.mode /\ q.generation = p.generation /\ q.baseline = p.baseline
               /\ \A g \in Gsis : g \notin S => q.count[g] = p.count[g]
               /\ \A g \in S : /\ p.count[g] > 0 => q.count[g] = p.count[g] - 1
                               /\ p.count[g] = 0 => q.count[g] = 0
<1> DEFINE count == [g \in Gsis |-> p.count[g] - 1]
<1>1. p.count \in [Gsis -> 0 .. MaxCount] /\ MaxCount \in Nat
  BY FabricAssumption DEF FabricOK, Fabrics
<1>2. PICK D : D = {g \in S : p.count[g] > 0}
  OBVIOUS
<1>3. D \in SUBSET Gsis /\ \A g \in D : count[g] \in 0 .. MaxCount /\ count[g] = p.count[g] - 1
  BY <1>1, <1>2
<1>4. LowerIrq(p, S) = ApplyCount(p, D, count)
  BY <1>2 DEF LowerIrq
<1> HIDE DEF count
<1>5. PICK q : q = ApplyCount(p, D, count)
  OBVIOUS
<1>6. /\ FabricOK(q)
      /\ q.mode = p.mode /\ q.generation = p.generation /\ q.baseline = p.baseline
      /\ \A g \in Gsis : q.count[g] = IF g \in D THEN count[g] ELSE p.count[g]
  <2>1. \A g \in D : count[g] \in 0 .. MaxCount
    BY <1>3
  <2>2. D \in SUBSET Gsis
    BY <1>3
  <2>3. FabricOK(p)
    OBVIOUS
  <2> QED
    BY ONLY <1>5, <2>1, <2>2, <2>3, ApplyCountKeeps
<1>7. \A g \in S : (g \in D <=> p.count[g] > 0) /\ p.count[g] \in Nat
  BY <1>1, <1>2
<1>8. \A g \in D : g \in S
  BY <1>2
<1> QED
  BY <1>3, <1>4, <1>5, <1>6, <1>7, <1>8

LEMMA ClearRemoteEffect ==
    ASSUME NEW p \in Fabrics
    PROVE  LET q == ClearRemoteIrr(p)
           IN  /\ q \in Fabrics /\ Routed(p, q) /\ q.pin = p.pin /\ q.irr = p.irr
               /\ \A g \in Gsis : ~q.entry[g].remoteIrr
<1> DEFINE en == [g \in Gsis |-> [p.entry[g] EXCEPT !.remoteIrr = FALSE]]
<1>1. p.entry \in [Gsis -> Entries]
  BY DEF Fabrics
<1>2. /\ en \in [Gsis -> Entries]
      /\ \A g \in Gsis : en[g].trigger = p.entry[g].trigger /\ en[g].masked = p.entry[g].masked
                         /\ ~en[g].remoteIrr
  BY <1>1 DEF Entries
<1>3. ClearRemoteIrr(p) = [p EXCEPT !.entry = en]
  BY DEF ClearRemoteIrr
<1> HIDE DEF en
<1>4. PICK q : q = [p EXCEPT !.entry = en]
  OBVIOUS
<1>5. /\ q \in Fabrics /\ q.entry = en /\ q.irr = p.irr /\ q.pin = p.pin
      /\ q.mode = p.mode /\ q.generation = p.generation
      /\ q.level = p.level /\ q.baseline = p.baseline /\ q.count = p.count /\ q.isr = p.isr
  BY <1>2, <1>4 DEF Fabrics
<1> QED
  BY <1>2, <1>3, <1>4, <1>5 DEF Routed

\* set_mode: entering APIC mode, every asserted level is delivered.
LEMMA SetModeKeeps ==
    ASSUME NEW p, FabricOK(p), NEW mode \in {"pic", "apic"}
    PROVE  LET q == SetMode(p, mode)
           IN  FabricOK(q) /\ q.generation = p.generation /\ q.baseline = p.baseline /\ q.count = p.count
<1>1. p \in Fabrics /\ p.mode \in {"pic", "apic"} /\ \A g \in Gsis : Counted(p, g) /\ Seen(p, g) /\ Programmed(p, g)
  BY DEF FabricOK, Fabrics
<1>2. PICK q : q = [p EXCEPT !.mode = mode]
  OBVIOUS
<1>3. /\ q \in Fabrics /\ q.count = p.count /\ q.level = p.level /\ q.entry = p.entry /\ q.irr = p.irr /\ q.pin = p.pin
      /\ q.mode = mode /\ q.generation = p.generation /\ q.baseline = p.baseline /\ q.isr = p.isr
  BY <1>1, <1>2 DEF Fabrics
<1>4. CASE p.mode = "pic" /\ mode = "apic"
  <2>1. PICK c : c = ClearRemoteIrr(q)
    OBVIOUS
  <2>2. /\ c \in Fabrics /\ Routed(q, c) /\ c.pin = q.pin /\ c.irr = q.irr
        /\ \A g \in Gsis : ~c.entry[g].remoteIrr
    BY <1>3, <2>1, ClearRemoteEffect
  <2>3. \A g \in Gsis : Counted(c, g)
    BY <1>1, <1>3, <2>2 DEF Counted, Routed
  <2>4. PICK r : r = SetIrqLevel(c, Gsis)
    OBVIOUS
  <2>5. r \in Fabrics /\ Routed(c, r) /\ \A g \in Gsis : Counted(r, g) /\ Seen(r, g)
    BY <2>2, <2>3, <2>4, SetIrqLevelKeeps
  <2>6. \A g \in Gsis : Programmed(r, g)
    <3>1. \A g \in Gsis : Programmed(q, g)
      BY <1>1, <1>3 DEF Programmed
    <3>2. \A g \in Gsis : Programmed(c, g)
      BY <2>2, <3>1, RoutedProgrammed
    <3> QED
      BY <2>5, <3>2, RoutedProgrammed
  <2>7. SetMode(p, mode) = r
    BY <1>2, <1>4, <2>1, <2>4 DEF SetMode
  <2>8. r.generation = p.generation /\ r.baseline = p.baseline /\ r.count = p.count
    BY <1>3, <2>2, <2>5 DEF Routed
  <2> QED
    BY <2>5, <2>6, <2>7, <2>8 DEF FabricOK
<1>5. CASE ~(p.mode = "pic" /\ mode = "apic")
  <2>1. SetMode(p, mode) = q
    BY <1>2, <1>5 DEF SetMode
  <2>2. mode = "apic" => p.mode = "apic"
    BY <1>1, <1>5
  <2>3. \A g \in Gsis : Counted(q, g) /\ Seen(q, g) /\ Programmed(q, g)
    BY <1>1, <1>3, <2>2 DEF Counted, Seen, Programmed, Requested
  <2> QED
    BY <1>3, <2>1, <2>3 DEF FabricOK
<1> QED
  BY <1>4, <1>5

LEMMA SmallestNat ==
    ASSUME NEW T \in SUBSET Nat, T # {}
    PROVE  \E x \in T : \A y \in T : x <= y
<1>1. PICK x \in T : \A y \in T : ~(<<y, x>> \in OpToRel(<, Nat))
  BY Zenon, NatLessThanWellFounded, WFMin
<1>2. \A y \in T : ~(y < x)
  BY <1>1 DEF OpToRel
<1> QED
  BY <1>2

\* A set that contains a, and every successor up to b, contains a .. b.
LEMMA IntervalInduction ==
    ASSUME NEW a \in Nat, NEW b \in Nat, NEW S, a \in S,
           \A i \in a .. b - 1 : i \in S => i + 1 \in S
    PROVE  \A i \in a .. b : i \in S
<1> DEFINE T == {i \in a .. b : i \notin S}
<1> SUFFICES ASSUME T # {} PROVE FALSE
  OBVIOUS
<1>1. T \in SUBSET Nat
  OBVIOUS
<1>2. PICK x \in T : \A y \in T : x <= y
  <2> HIDE DEF T
  <2> QED
    BY <1>1, SmallestNat
<1>3. x \in a .. b /\ x \notin S /\ x # a
  BY <1>2
<1>4. x - 1 \in a .. b - 1 /\ x - 1 \notin T /\ (x - 1) + 1 = x
  <2>1. x - 1 \in a .. b - 1 /\ ~(x <= x - 1) /\ (x - 1) + 1 = x
    BY <1>3
  <2> HIDE DEF T
  <2> QED
    BY <1>2, <2>1
<1>5. x - 1 \in S
  BY <1>4
<1> QED
  BY <1>3, <1>4, <1>5

\* A set of numbers up to b has a largest member.
LEMMA LargestNat ==
    ASSUME NEW b \in Nat, NEW T \in SUBSET (0 .. b), T # {}
    PROVE  \E x \in T : \A y \in T : y <= x
<1> DEFINE U == {b - y : y \in T}
<1>1. U \in SUBSET Nat /\ U # {}
  <2>1. ASSUME NEW z \in U
        PROVE  z \in Nat
    <3>1. PICK y \in T : z = b - y
      OBVIOUS
    <3>2. y \in 0 .. b
      OBVIOUS
    <3> QED
      BY <3>1, <3>2
  <2> QED
    BY <2>1
<1>2. PICK u \in U : \A v \in U : u <= v
  <2> HIDE DEF U
  <2> QED
    BY <1>1, SmallestNat
<1>3. PICK x \in T : u = b - x
  BY <1>2
<1>4. \A y \in T : b - x <= b - y
  BY <1>2, <1>3
<1> QED
  BY <1>4

-----------------------------------------------------------------------------
(* The guest and the controllers *)

\* The lines are as they were: only the controllers changed.
SameLines(p, q) ==
    q.generation = p.generation /\ q.baseline = p.baseline /\ q.count = p.count

LEMMA RoutedSameLines ==
    ASSUME NEW p, NEW q, Routed(p, q)
    PROVE  SameLines(p, q)
  BY DEF Routed, SameLines

\* notify_eoi, when the interrupt of g is no longer in service.
LEMMA NotifyEoiKeeps ==
    ASSUME NEW p \in Fabrics, NEW g \in Gsis,
           \A h \in Gsis : Seen(p, h) /\ Programmed(p, h),
           \A h \in Gsis \ {g} : Counted(p, h),
           p.entry[g].trigger = "edge" => ~p.entry[g].remoteIrr,
           p.level[g] <=> (p.baseline[g] \/ p.count[g] > 0)
    PROVE  FabricOK(NotifyEoi(p, g)) /\ SameLines(p, NotifyEoi(p, g))
<1> DEFINE en == [p.entry EXCEPT ![g].remoteIrr = FALSE]
<1>1. p.entry \in [Gsis -> Entries]
  BY DEF Fabrics
<1>2. /\ en \in [Gsis -> Entries]
      /\ \A h \in Gsis : en[h].trigger = p.entry[h].trigger /\ en[h].masked = p.entry[h].masked
      /\ \A h \in Gsis \ {g} : en[h].remoteIrr = p.entry[h].remoteIrr
      /\ ~en[g].remoteIrr
  BY <1>1 DEF Entries
<1> HIDE DEF en
<1>3. PICK q : q = [p EXCEPT !.entry = en]
  OBVIOUS
<1>4. /\ q \in Fabrics /\ q.entry = en /\ q.irr = p.irr /\ q.pin = p.pin
      /\ q.mode = p.mode /\ q.generation = p.generation
      /\ q.level = p.level /\ q.baseline = p.baseline /\ q.count = p.count /\ q.isr = p.isr
  BY <1>2, <1>3 DEF Fabrics
<1>5. Routed(p, q)
  BY <1>2, <1>4 DEF Routed
<1>6. \A h \in Gsis : Counted(q, h)
  <2>1. Counted(q, g)
    BY <1>2, <1>4 DEF Counted
  <2>2. \A h \in Gsis \ {g} : Counted(q, h)
    BY <1>2, <1>4 DEF Counted, Requested
  <2> QED
    BY <2>1, <2>2
<1>7. \A h \in Gsis : Programmed(q, h)
  BY <1>5, RoutedProgrammed
<1>8. \A h \in Gsis \ {g} : Seen(q, h)
  BY <1>2, <1>4 DEF Seen
<1>9. CASE p.entry[g].trigger = "level" /\ p.entry[g].remoteIrr /\ p.pin[g] /\ ~p.entry[g].masked
  <2>1. PICK r : r = Deliver(q, {g})
    OBVIOUS
  <2>2. r = NotifyEoi(p, g)
    BY <1>3, <1>9, <2>1 DEF NotifyEoi, en
  <2>3. r \in Fabrics /\ Routed(q, r)
    BY <1>4, <2>1, DeliverEffect
  <2>4. \A h \in Gsis : Counted(r, h)
    BY <1>4, <1>6, <2>1, DeliverKeeps
  <2>5. Seen(q, g) \/ (q.pin[g] <=> q.level[g])
    BY <1>4 DEF Seen
  <2>6. \A h \in Gsis : Seen(r, h)
    <3>1. Seen(r, g)
      BY <1>4, <1>6, <2>1, <2>5, DeliverKeeps
    <3>2. \A h \in Gsis \ {g} : Seen(r, h)
      BY <1>4, <1>6, <1>8, <2>1, DeliverKeeps
    <3> QED
      BY <3>1, <3>2
  <2>7. \A h \in Gsis : Programmed(r, h)
    BY <1>7, <2>3, RoutedProgrammed
  <2>8. SameLines(p, r)
    BY <1>5, <2>3 DEF Routed, SameLines
  <2> QED
    BY <2>2, <2>3, <2>4, <2>6, <2>7, <2>8 DEF FabricOK
<1>10. CASE p.entry[g].trigger = "level" /\ p.entry[g].remoteIrr /\ ~(p.pin[g] /\ ~p.entry[g].masked)
  <2>1. q = NotifyEoi(p, g)
    BY <1>3, <1>10 DEF NotifyEoi, en
  <2>2. Seen(q, g)
    BY <1>2, <1>4, <1>10 DEF Seen
  <2>3. SameLines(p, q)
    BY <1>5, RoutedSameLines
  <2> QED
    BY <1>4, <1>6, <1>7, <1>8, <2>1, <2>2, <2>3 DEF FabricOK
<1>11. CASE ~(p.entry[g].trigger = "level" /\ p.entry[g].remoteIrr)
  <2>1. p = NotifyEoi(p, g)
    BY <1>11 DEF NotifyEoi
  <2>2. ~p.entry[g].remoteIrr
    BY <1>1, <1>11 DEF Entries
  <2>3. Counted(p, g)
    BY <2>2 DEF Counted
  <2>4. FabricOK(p)
    BY <2>3 DEF FabricOK
  <2> QED
    BY <2>1, <2>4 DEF SameLines
<1> QED
  BY <1>9, <1>10, <1>11

\* LocalApic::eoi.
LEMMA LapicEoiKeeps ==
    ASSUME NEW p, FabricOK(p), NEW c \in Cpus
    PROVE  FabricOK(LapicEoi(p, c)) /\ SameLines(p, LapicEoi(p, c))
<1>1. p \in Fabrics /\ p.isr \in [Cpus -> SUBSET Gsis]
  BY DEF FabricOK, Fabrics
<1>2. CASE p.isr[c] = {}
  BY <1>2 DEF LapicEoi, SameLines
<1>3. CASE p.isr[c] # {}
  <2>1. p.isr[c] \in SUBSET (0 .. 15)
    BY <1>1, FabricAssumption
  <2>2. PICK x \in p.isr[c] : \A y \in p.isr[c] : y <= x
    BY <1>3, <2>1, LargestNat
  <2>3. PICK g : g = Max(p.isr[c])
    OBVIOUS
  <2>4. g \in p.isr[c]
    <3>1. \A y \in p.isr[c] : x >= y
      BY <2>1, <2>2
    <3> QED
      BY <2>3, <3>1 DEF Max
  <2> DEFINE is == [p.isr EXCEPT ![c] = @ \ {g}]
  <2>5. /\ is \in [Cpus -> SUBSET Gsis]
        /\ \A d \in Cpus, h \in Gsis \ {g} : h \in p.isr[d] => h \in is[d]
    BY <1>1
  <2> HIDE DEF is
  <2>6. PICK q : q = [p EXCEPT !.isr = is]
    OBVIOUS
  <2>7. /\ q \in Fabrics /\ q.entry = p.entry /\ q.irr = p.irr /\ q.pin = p.pin
        /\ q.mode = p.mode /\ q.generation = p.generation
        /\ q.level = p.level /\ q.baseline = p.baseline /\ q.count = p.count /\ q.isr = is
    BY <1>1, <2>5, <2>6 DEF Fabrics
  <2>8. g \in Gsis
    BY <1>1, <2>4
  <2>9. \A h \in Gsis : Seen(q, h) /\ Programmed(q, h)
    BY <2>7 DEF FabricOK, Seen, Programmed
  <2>10. \A h \in Gsis \ {g} : Counted(q, h)
    BY <2>5, <2>7 DEF FabricOK, Counted, Requested
  <2>11. /\ q.entry[g].trigger = "edge" => ~q.entry[g].remoteIrr
         /\ q.level[g] <=> (q.baseline[g] \/ q.count[g] > 0)
    BY <2>7, <2>8 DEF FabricOK, Counted
  <2>12. PICK r : r = NotifyEoi(q, g)
    OBVIOUS
  <2>13. FabricOK(r) /\ SameLines(q, r)
    BY <2>7, <2>8, <2>9, <2>10, <2>11, <2>12, NotifyEoiKeeps
  <2>14. LapicEoi(p, c) = r
    BY <1>3, <2>3, <2>6, <2>12 DEF LapicEoi, is
  <2>15. SameLines(p, r)
    BY <2>7, <2>13 DEF SameLines
  <2> QED
    BY <2>13, <2>14, <2>15
<1> QED
  BY <1>2, <1>3

\* acknowledge: the request is in service.
LEMMA LapicAckKeeps ==
    ASSUME NEW p, FabricOK(p), NEW c \in Cpus, NEW g \in Gsis
    PROVE  FabricOK(LapicAck(p, c, g)) /\ SameLines(p, LapicAck(p, c, g))
<1> DEFINE ir == [p.irr EXCEPT ![c] = @ \ {g}]
           is == [p.isr EXCEPT ![c] = @ \cup {g}]
<1>1. p \in Fabrics /\ p.isr \in [Cpus -> SUBSET Gsis] /\ p.irr \in [Cpus -> SUBSET Gsis]
  BY DEF FabricOK, Fabrics
<1>2. /\ ir \in [Cpus -> SUBSET Gsis] /\ is \in [Cpus -> SUBSET Gsis]
      /\ \A d \in Cpus, h \in Gsis : h \in p.irr[d] \/ h \in p.isr[d] => h \in ir[d] \/ h \in is[d]
  BY <1>1
<1> HIDE DEF ir, is
<1>3. PICK q : q = [p EXCEPT !.irr = ir, !.isr = is]
  OBVIOUS
<1>4. /\ q \in Fabrics /\ q.entry = p.entry /\ q.irr = ir /\ q.pin = p.pin
      /\ q.mode = p.mode /\ q.generation = p.generation
      /\ q.level = p.level /\ q.baseline = p.baseline /\ q.count = p.count /\ q.isr = is
  BY <1>1, <1>2, <1>3 DEF Fabrics
<1>5. \A h \in Gsis : Requested(p, h) => Requested(q, h)
  BY <1>2, <1>4 DEF Requested
<1>6. \A h \in Gsis : Counted(q, h) /\ Seen(q, h) /\ Programmed(q, h)
  BY <1>4, <1>5 DEF FabricOK, Counted, Seen, Programmed
<1>7. LapicAck(p, c, g) = q
  BY <1>3 DEF LapicAck, ir, is
<1>8. SameLines(p, q)
  BY <1>4 DEF SameLines
<1> QED
  BY <1>4, <1>6, <1>7, <1>8 DEF FabricOK

\* What the guest does to the 8259 pair leaves the lines and the APICs alone.
LEMMA PicKeeps ==
    ASSUME NEW p, FabricOK(p), NEW q \in Fabrics,
           q.entry = p.entry, q.irr = p.irr, q.pin = p.pin, q.isr = p.isr,
           q.mode = p.mode, q.generation = p.generation,
           q.level = p.level, q.baseline = p.baseline, q.count = p.count
    PROVE  FabricOK(q) /\ SameLines(p, q)
<1>1. \A h \in Gsis : Counted(q, h) /\ Seen(q, h) /\ Programmed(q, h)
  BY DEF FabricOK, Counted, Seen, Programmed, Requested
<1> QED
  BY <1>1 DEF FabricOK, SameLines

LEMMA PicAckKeeps ==
    ASSUME NEW p, FabricOK(p), NEW g \in Gsis
    PROVE  FabricOK(PicAck(p, g)) /\ SameLines(p, PicAck(p, g))
<1>1. PICK q : q = PicAck(p, g)
  OBVIOUS
<1>2. p \in Fabrics
  BY DEF FabricOK
<1>3. q = [p EXCEPT !.picIrr = @ \ {g}, !.picIsr = @ \cup {g}]
  BY <1>1 DEF PicAck
<1>4. /\ q \in Fabrics /\ q.entry = p.entry /\ q.irr = p.irr /\ q.pin = p.pin /\ q.isr = p.isr
      /\ q.mode = p.mode /\ q.generation = p.generation
      /\ q.level = p.level /\ q.baseline = p.baseline /\ q.count = p.count
  BY <1>2, <1>3 DEF Fabrics
<1> QED
  BY <1>1, <1>4, PicKeeps

LEMMA PicEoiKeeps ==
    ASSUME NEW p, FabricOK(p), NEW g \in Gsis
    PROVE  FabricOK(PicEoi(p, g)) /\ SameLines(p, PicEoi(p, g))
<1>1. PICK q : q = PicEoi(p, g)
  OBVIOUS
<1>2. p \in Fabrics
  BY DEF FabricOK
<1>3. q = [p EXCEPT !.picIsr = @ \ {g}]
  BY <1>1 DEF PicEoi
<1>4. /\ q \in Fabrics /\ q.entry = p.entry /\ q.irr = p.irr /\ q.pin = p.pin /\ q.isr = p.isr
      /\ q.mode = p.mode /\ q.generation = p.generation
      /\ q.level = p.level /\ q.baseline = p.baseline /\ q.count = p.count
  BY <1>2, <1>3 DEF Fabrics
<1> QED
  BY <1>1, <1>4, PicKeeps

LEMMA PicInitKeeps ==
    ASSUME NEW p, FabricOK(p)
    PROVE  FabricOK(PicInit(p)) /\ SameLines(p, PicInit(p))
<1>1. PICK q : q = PicInit(p)
  OBVIOUS
<1>2. p \in Fabrics
  BY DEF FabricOK
<1>3. q = [p EXCEPT !.picIrr = {}, !.picIsr = {}, !.picLine = {}, !.picImr = {}]
  BY <1>1 DEF PicInit
<1>4. /\ q \in Fabrics /\ q.entry = p.entry /\ q.irr = p.irr /\ q.pin = p.pin /\ q.isr = p.isr
      /\ q.mode = p.mode /\ q.generation = p.generation
      /\ q.level = p.level /\ q.baseline = p.baseline /\ q.count = p.count
  BY <1>2, <1>3 DEF Fabrics
<1> QED
  BY <1>1, <1>4, PicKeeps

LEMMA PicWriteMaskKeeps ==
    ASSUME NEW p, FabricOK(p), NEW imr \in SUBSET Gsis
    PROVE  FabricOK(PicWriteMask(p, imr)) /\ SameLines(p, PicWriteMask(p, imr))
<1>1. PICK q : q = PicWriteMask(p, imr)
  OBVIOUS
<1>2. p \in Fabrics
  BY DEF FabricOK
<1>3. q = [p EXCEPT !.picImr = imr]
  BY <1>1 DEF PicWriteMask
<1>4. /\ q \in Fabrics /\ q.entry = p.entry /\ q.irr = p.irr /\ q.pin = p.pin /\ q.isr = p.isr
      /\ q.mode = p.mode /\ q.generation = p.generation
      /\ q.level = p.level /\ q.baseline = p.baseline /\ q.count = p.count
  BY <1>2, <1>3 DEF Fabrics
<1> QED
  BY <1>1, <1>4, PicKeeps

\* A write of a redirection entry with the trigger mode of the line.
LEMMA WriteEntryKeeps ==
    ASSUME NEW p, FabricOK(p), NEW g \in Gsis, NEW masked \in BOOLEAN,
           NEW trigger \in {"edge", "level"}, NEW dest \in Cpus,
           \A s \in On(g) : wiring[s].trigger = trigger, On(g) # {}
    PROVE  LET q == WriteEntry(p, g, masked, trigger, dest)
           IN  FabricOK(q) /\ SameLines(p, q)
<1> DEFINE en == [p.entry EXCEPT ![g] = [@ EXCEPT !.masked = masked, !.trigger = trigger, !.dest = dest]]
<1>1. /\ p \in Fabrics /\ p.entry \in [Gsis -> Entries]
      /\ \A h \in Gsis : Counted(p, h) /\ Seen(p, h) /\ Programmed(p, h)
  BY DEF FabricOK, Fabrics
<1>2. /\ en \in [Gsis -> Entries]
      /\ \A h \in Gsis \ {g} : en[h] = p.entry[h]
      /\ en[g].trigger = trigger /\ en[g].masked = masked /\ (en[g].remoteIrr = p.entry[g].remoteIrr)
  BY <1>1 DEF Entries
<1>3. p.entry[g].trigger = trigger \/ (p.entry[g].trigger = "edge" /\ p.entry[g].masked)
  BY <1>1 DEF Programmed
<1> HIDE DEF en
<1>4. PICK q : q = [p EXCEPT !.entry = en]
  OBVIOUS
<1>5. /\ q \in Fabrics /\ q.entry = en /\ q.irr = p.irr /\ q.pin = p.pin
      /\ q.mode = p.mode /\ q.generation = p.generation
      /\ q.level = p.level /\ q.baseline = p.baseline /\ q.count = p.count /\ q.isr = p.isr
  BY <1>1, <1>2, <1>4 DEF Fabrics
<1>6. \A h \in Gsis : Counted(q, h)
  <2>1. Counted(q, g)
    BY <1>1, <1>2, <1>3, <1>5 DEF Counted, Requested
  <2>2. \A h \in Gsis \ {g} : Counted(q, h)
    BY <1>1, <1>2, <1>5 DEF Counted, Requested
  <2> QED
    BY <2>1, <2>2
<1>7. \A h \in Gsis : Programmed(q, h)
  <2>1. Programmed(q, g)
    BY <1>2, <1>5 DEF Programmed
  <2>2. \A h \in Gsis \ {g} : Programmed(q, h)
    BY <1>1, <1>2, <1>5 DEF Programmed
  <2> QED
    BY <2>1, <2>2
<1>8. \A h \in Gsis \ {g} : Seen(q, h)
  BY <1>1, <1>2, <1>5 DEF Seen
<1>9. PICK d : d = IF p.entry[g].masked /\ ~masked THEN MaybeDeliverLevel(q, {g}) ELSE q
  OBVIOUS
<1>10. /\ d \in Fabrics /\ Routed(q, d)
       /\ \A h \in Gsis : Counted(d, h) /\ Seen(d, h)
  <2>1. CASE p.entry[g].masked /\ ~masked
    <3>1. PICK D : D = {h \in {g} : LevelWaits(q, h)}
      OBVIOUS
    <3>2. d = Deliver(q, D)
      BY <1>9, <2>1, <3>1 DEF MaybeDeliverLevel
    <3>3. D \in SUBSET Gsis
      BY <3>1
    <3>4. d \in Fabrics /\ Routed(q, d)
      BY <1>5, <3>2, <3>3, DeliverEffect
    <3>5. \A h \in Gsis : Counted(d, h)
      BY <1>5, <1>6, <3>2, <3>3, DeliverKeeps
    <3>6. \A h \in Gsis \ {g} : Seen(d, h)
      BY <1>5, <1>6, <1>8, <3>2, <3>3, DeliverKeeps
    <3>7. Seen(q, g) \/ (g \in D /\ (q.pin[g] <=> q.level[g]))
      <4>1. CASE LevelWaits(q, g)
        <5>1. Seen(p, g) /\ g \in D
          BY <1>1, <3>1, <4>1
        <5> QED
          BY <1>5, <5>1 DEF Seen
      <4>2. CASE ~LevelWaits(q, g)
        <5>1. Seen(p, g)
          BY <1>1
        <5> QED
          BY <1>5, <4>2, <5>1 DEF Seen, LevelWaits
      <4> QED
        BY <4>1, <4>2
    <3>8. Seen(d, g)
      BY <1>5, <1>6, <3>2, <3>3, <3>7, DeliverKeeps
    <3> QED
      BY <3>4, <3>5, <3>6, <3>8
  <2>2. CASE ~(p.entry[g].masked /\ ~masked)
    <3>1. d = q
      BY <1>9, <2>2
    <3>2. Seen(q, g)
      BY <1>1, <1>2, <1>3, <1>5, <2>2 DEF Seen
    <3>3. Routed(q, q)
      BY DEF Routed
    <3> QED
      BY <1>5, <1>6, <1>8, <3>1, <3>2, <3>3
  <2> QED
    BY <2>1, <2>2
<1>11. \A h \in Gsis : Programmed(d, h)
  BY <1>7, <1>10, RoutedProgrammed
<1>12. SameLines(p, d)
  BY <1>5, <1>10 DEF Routed, SameLines
<1>13. WriteEntry(p, g, masked, trigger, dest) = IF p.mode = "apic" THEN d ELSE ClearRemoteIrr(d)
  BY <1>4, <1>9 DEF WriteEntry, en
<1>14. CASE p.mode = "apic"
  BY <1>10, <1>11, <1>12, <1>13, <1>14 DEF FabricOK
<1>15. CASE p.mode # "apic"
  <2>1. PICK r : r = ClearRemoteIrr(d)
    OBVIOUS
  <2>2. r \in Fabrics /\ Routed(d, r) /\ \A h \in Gsis : ~r.entry[h].remoteIrr
    BY <1>10, <2>1, ClearRemoteEffect
  <2>3. d.mode # "apic"
    BY <1>5, <1>10, <1>15 DEF Routed
  <2>4. \A h \in Gsis : Counted(r, h) /\ Seen(r, h)
    BY <1>10, <2>2, <2>3, RoutedPic
  <2>5. \A h \in Gsis : Programmed(r, h)
    BY <1>11, <2>2, RoutedProgrammed
  <2>6. SameLines(p, r)
    BY <1>12, <2>2 DEF Routed, SameLines
  <2> QED
    BY <1>13, <1>15, <2>1, <2>2, <2>4, <2>5, <2>6 DEF FabricOK
<1> QED
  BY <1>14, <1>15

\* new_with_cpu_count and reset.
LEMMA ResetFabricOK ==
    ASSUME NEW generation \in Nat
    PROVE  /\ FabricOK(ResetFabric(generation))
           /\ ResetFabric(generation).generation = generation
           /\ \A g \in Gsis : /\ ~ResetFabric(generation).baseline[g]
                              /\ ResetFabric(generation).count[g] = 0
<1>1. PICK q : q = ResetFabric(generation)
  OBVIOUS
<1>2. ResetEntry \in Entries /\ ResetEntry.trigger = "edge" /\ ResetEntry.masked /\ ~ResetEntry.remoteIrr
  BY FabricAssumption DEF ResetEntry, Entries
<1>3. 0 \in 0 .. MaxCount
  BY FabricAssumption
<1>4. /\ q.mode = "pic" /\ q.generation = generation
      /\ \A g \in Gsis : ~q.level[g] /\ ~q.baseline[g] /\ q.count[g] = 0 /\ q.entry[g] = ResetEntry
  BY <1>1 DEF ResetFabric
<1>5. q \in Fabrics
  BY <1>1, <1>2, <1>3 DEF ResetFabric, Fabrics
<1>6. \A g \in Gsis : Counted(q, g) /\ Seen(q, g) /\ Programmed(q, g)
  BY <1>2, <1>4 DEF Counted, Seen, Programmed
<1> QED
  BY <1>1, <1>4, <1>5, <1>6 DEF FabricOK

\* load_state: the saved levels are the baseline, and nothing is counted.
LEMMA LoadFabricKeeps ==
    ASSUME NEW p, FabricOK(p), NEW old, FabricOK(old)
    PROVE  LET q == LoadFabric(p, old)
           IN  /\ FabricOK(q) /\ q.generation = p.generation + 1 /\ q.baseline = old.level
               /\ \A g \in Gsis : q.count[g] = 0
<1> DEFINE zero == [g \in Gsis |-> 0]
<1>1. /\ p.generation \in Nat /\ old \in Fabrics /\ old.level \in [Gsis -> BOOLEAN]
      /\ \A h \in Gsis : Counted(old, h) /\ Seen(old, h) /\ Programmed(old, h)
  BY DEF FabricOK, Fabrics
<1>2. zero \in [Gsis -> 0 .. MaxCount] /\ \A g \in Gsis : zero[g] = 0
  BY FabricAssumption
<1> HIDE DEF zero
<1>3. PICK gen : gen = p.generation + 1
  OBVIOUS
<1>4. gen \in Nat
  BY <1>1, <1>3
<1>5. PICK q : q = [old EXCEPT !.baseline = old.level, !.count = zero, !.generation = gen]
  OBVIOUS
<1>6. /\ q \in Fabrics /\ q.entry = old.entry /\ q.irr = old.irr /\ q.pin = old.pin /\ q.isr = old.isr
      /\ q.mode = old.mode /\ q.generation = gen
      /\ q.level = old.level /\ q.baseline = old.level /\ q.count = zero
  BY <1>1, <1>2, <1>5, <1>4 DEF Fabrics
<1>7. \A h \in Gsis : Counted(q, h)
  <2>1. \A h \in Gsis : q.level[h] <=> (q.baseline[h] \/ q.count[h] > 0)
    BY <1>2, <1>6
  <2> QED
    BY <1>1, <1>6, <2>1 DEF Counted, Requested
<1>8. \A h \in Gsis : Seen(q, h) /\ Programmed(q, h)
  BY <1>1, <1>6 DEF Seen, Programmed
<1>9. CASE old.mode = "apic"
  <2>1. PICK D : D = {g \in Gsis : LevelWaits(q, g)}
    OBVIOUS
  <2>2. PICK r : r = Deliver(q, D)
    OBVIOUS
  <2>3. LoadFabric(p, old) = r
    BY <1>5, <1>9, <1>3, <2>1, <2>2 DEF LoadFabric, MaybeDeliverLevel, zero
  <2>4. D \in SUBSET Gsis
    BY <2>1
  <2>5. r \in Fabrics /\ Routed(q, r)
    BY <1>6, <2>2, <2>4, DeliverEffect
  <2>6. \A h \in Gsis : Counted(r, h) /\ Seen(r, h)
    BY <1>6, <1>7, <1>8, <2>2, <2>4, DeliverKeeps
  <2>7. \A h \in Gsis : Programmed(r, h)
    BY <1>8, <2>5, RoutedProgrammed
  <2>8. r.generation = p.generation + 1 /\ r.count = zero /\ r.baseline = old.level
    BY <1>6, <1>3, <2>5 DEF Routed
  <2> QED
    BY <1>2, <2>3, <2>5, <2>6, <2>7, <2>8 DEF FabricOK
<1>10. CASE old.mode # "apic"
  <2>1. LoadFabric(p, old) = q
    BY <1>5, <1>10, <1>3 DEF LoadFabric, zero
  <2> QED
    BY <1>2, <1>6, <1>7, <1>8, <1>3, <2>1 DEF FabricOK
<1> QED
  BY <1>9, <1>10

\* finalize_restore: the baseline is gone, every level is counted.
LEMMA FinalizeRestoreKeeps ==
    ASSUME NEW p, FabricOK(p)
    PROVE  LET q == FinalizeRestore(p)
           IN  /\ FabricOK(q) /\ q.generation = p.generation
               /\ \A g \in Gsis : /\ ~q.baseline[g]
                                  /\ q.count[g] = IF g \in Unclaimed(p) THEN 1 ELSE p.count[g]
<1> DEFINE ct == [g \in Gsis |-> IF g \in Unclaimed(p) THEN 1 ELSE p.count[g]]
           bl == [g \in Gsis |-> FALSE]
           lv == [g \in Gsis |-> ct[g] > 0]
<1>1. /\ p \in Fabrics /\ p.level \in [Gsis -> BOOLEAN] /\ p.baseline \in [Gsis -> BOOLEAN]
      /\ p.count \in [Gsis -> 0 .. MaxCount]
      /\ \A h \in Gsis : Counted(p, h) /\ Seen(p, h) /\ Programmed(p, h)
  BY DEF FabricOK, Fabrics
<1>2. /\ ct \in [Gsis -> 0 .. MaxCount]
      /\ \A g \in Gsis : ct[g] = IF g \in Unclaimed(p) THEN 1 ELSE p.count[g]
  BY <1>1, FabricAssumption
<1>3. bl \in [Gsis -> BOOLEAN] /\ \A g \in Gsis : ~bl[g]
  OBVIOUS
<1> HIDE DEF ct
<1>4. lv \in [Gsis -> BOOLEAN] /\ \A g \in Gsis : lv[g] <=> ct[g] > 0
  <2>1. \A g \in Gsis : (ct[g] > 0) \in BOOLEAN
    BY <1>2
  <2>2. lv \in [Gsis -> BOOLEAN]
    BY <2>1
  <2>3. \A g \in Gsis : lv[g] <=> ct[g] > 0
    BY <2>1
  <2> QED
    BY <2>2, <2>3
<1>5. PICK q : q = [p EXCEPT !.count = ct, !.baseline = bl, !.level = lv]
  OBVIOUS
<1>6. PICK D : D = {g \in Gsis : p.level[g] # q.level[g]}
  OBVIOUS
<1>7. PICK r : r = Drive(q, D)
  OBVIOUS
<1> HIDE DEF bl, lv
<1>8. /\ q \in Fabrics /\ q.entry = p.entry /\ q.irr = p.irr /\ q.pin = p.pin /\ q.isr = p.isr
      /\ q.mode = p.mode /\ q.generation = p.generation
      /\ q.level = lv /\ q.baseline = bl /\ q.count = ct
  BY <1>1, <1>2, <1>3, <1>4, <1>5 DEF Fabrics
<1>9. FinalizeRestore(p) = r
  BY <1>5, <1>6, <1>7 DEF FinalizeRestore, ct, bl, lv
<1>10. \A h \in Gsis : Counted(q, h)
  <2>1. \A h \in Gsis : q.level[h] <=> (q.baseline[h] \/ q.count[h] > 0)
    BY <1>3, <1>4, <1>8
  <2> QED
    BY <1>1, <1>8, <2>1 DEF Counted, Requested
<1>11. \A h \in Gsis : Programmed(q, h)
  BY <1>1, <1>8 DEF Programmed
<1>12. \A h \in Gsis : h \notin D => Seen(q, h)
  BY <1>1, <1>6, <1>8 DEF Seen
<1>13. FabricOK(r) /\ Routed(q, r)
  <2>1. D \in SUBSET Gsis
    BY <1>6
  <2> QED
    BY <1>7, <1>8, <1>10, <1>11, <1>12, <2>1, DriveKeeps
<1>14. r.generation = p.generation /\ r.baseline = bl /\ r.count = ct
  BY <1>8, <1>13 DEF Routed
<1> QED
  BY <1>2, <1>3, <1>9, <1>13, <1>14

-----------------------------------------------------------------------------
(* Devices and the assertions they hold *)

Machines == [ints : Fabrics, drv : [Attached -> Drivers]]

\* No line remembers a generation that is still to come.
MachineOK(m) ==
    /\ m \in Machines /\ FabricOK(m.ints)
    /\ \A s \in Attached : m.drv[s].gen <= m.ints.generation

Kept(m, n) ==
    MachineOK(n) /\ n.ints.generation = m.ints.generation /\ n.ints.baseline = m.ints.baseline

\* X is the set of HPET timers whose flag is older than the fabric: it holds
\* nothing.
Active(m, X, s) ==
    /\ m.drv[s].out /\ s \notin X
    /\ Kind(s) \in {"ide", "rtc", "acpi"} => m.drv[s].gen = m.ints.generation

IntxOut(m, g) == \E s \in Of({"intx"}) \cap On(g) : m.drv[s].out

Holders(m, X, g) == {s \in On(g) \ Of({"intx"}) : Active(m, X, s)}

HeldBy(m, X, g) == (IF IntxOut(m, g) THEN 1 ELSE 0) + Cardinality(Holders(m, X, g))

Wired(m, X, A) ==
    \A g \in Gsis : On(g) \cap Of({"uart"}) = {} =>
        m.ints.count[g] = HeldBy(m, X, g) + (IF g \in A THEN 1 ELSE 0)

LEMMA WiringFacts ==
    ASSUME wiring \in Wirings
    PROVE  /\ Len(wiring) \in Nat /\ Attached = 1 .. Len(wiring) /\ Len(wiring) < MaxCount
           /\ IsFiniteSet(Attached) /\ Cardinality(Attached) = Len(wiring)
           /\ \A s \in Attached : /\ Gsi(s) \in Gsis /\ Kind(s) \in Kinds
                                  /\ wiring[s].trigger \in {"edge", "level"}
                                  /\ Kind(s) = "intx" => Gsi(s) \in PciGsis
           /\ \A s, t \in Attached : Gsi(s) = Gsi(t) => wiring[s].trigger = wiring[t].trigger
<1>1. wiring \in Seq(Devices)
  BY MachineAssumption
<1>2. Len(wiring) \in Nat /\ Attached = 1 .. Len(wiring)
  BY <1>1 DEF Attached
<1>3. Len(wiring) < MaxCount
  BY MachineAssumption
<1>4. IsFiniteSet(1 .. Len(wiring)) /\ Cardinality(1 .. Len(wiring)) = Len(wiring)
  BY <1>2, FS_Interval
<1>5. \A s \in Attached : wiring[s] \in Devices
  BY <1>1, <1>2
<1>6. \A s \in Attached : /\ Gsi(s) \in Gsis /\ Kind(s) \in Kinds
                          /\ wiring[s].trigger \in {"edge", "level"}
  BY <1>5 DEF Devices, Gsi, Kind
<1>7. \A s \in Attached : Kind(s) = "intx" => Gsi(s) \in PciGsis
  BY MachineAssumption DEF Gsi, Kind, Attached
<1>8. \A s, t \in Attached : Gsi(s) = Gsi(t) => wiring[s].trigger = wiring[t].trigger
  BY MachineAssumption DEF Gsi, Attached
<1> QED
  BY <1>2, <1>3, <1>4, <1>6, <1>7, <1>8

LEMMA HoldersFacts ==
    ASSUME wiring \in Wirings, NEW m, NEW X, NEW g
    PROVE  /\ IsFiniteSet(Holders(m, X, g)) /\ Cardinality(Holders(m, X, g)) \in Nat
           /\ HeldBy(m, X, g) \in Nat
<1>1. Holders(m, X, g) \subseteq Attached
  BY DEF Holders, On
<1>2. IsFiniteSet(Holders(m, X, g))
  BY <1>1, WiringFacts, FS_Subset
<1>3. Cardinality(Holders(m, X, g)) \in Nat
  BY <1>2, FS_CardinalityType
<1> QED
  BY <1>2, <1>3 DEF HeldBy

\* From m to n only source s changed.
Retuned(m, X, n, Y, s) ==
    /\ n.ints.generation = m.ints.generation
    /\ \A t \in Attached \ {s} : n.drv[t] = m.drv[t] /\ (t \in X <=> t \in Y)

LEMMA HeldElsewhere ==
    ASSUME NEW m, NEW X, NEW n, NEW Y, NEW s \in Attached, NEW g,
           Retuned(m, X, n, Y, s), g # Gsi(s)
    PROVE  HeldBy(n, Y, g) = HeldBy(m, X, g)
<1>1. \A t \in On(g) : t \in Attached \ {s}
  BY DEF On
<1>2. IntxOut(n, g) <=> IntxOut(m, g)
  BY <1>1 DEF IntxOut, Retuned
<1>3. \A t \in On(g) : Active(n, Y, t) <=> Active(m, X, t)
  BY <1>1 DEF Retuned, Active
<1>4. Holders(n, Y, g) = Holders(m, X, g)
  BY <1>3 DEF Holders
<1> QED
  BY <1>2, <1>4 DEF HeldBy

LEMMA HeldSame ==
    ASSUME NEW m, NEW X, NEW n, NEW Y, NEW s \in Attached, NEW g,
           Retuned(m, X, n, Y, s), g = Gsi(s),
           IF Kind(s) = "intx" THEN IntxOut(n, g) <=> IntxOut(m, g)
           ELSE Active(n, Y, s) <=> Active(m, X, s)
    PROVE  HeldBy(n, Y, g) = HeldBy(m, X, g)
<1>1. IntxOut(n, g) <=> IntxOut(m, g)
  BY DEF IntxOut, Retuned, Of, On
<1>2. \A t \in On(g) \ Of({"intx"}) : Active(n, Y, t) <=> Active(m, X, t)
  <2> SUFFICES ASSUME NEW t \in On(g) \ Of({"intx"})
               PROVE  Active(n, Y, t) <=> Active(m, X, t)
    OBVIOUS
  <2>1. t \in Attached /\ Kind(t) # "intx"
    BY DEF On, Of
  <2>2. CASE t = s
    BY <2>1, <2>2
  <2>3. CASE t # s
    BY <2>1, <2>3 DEF Retuned, Active
  <2> QED
    BY <2>2, <2>3
<1>3. Holders(n, Y, g) = Holders(m, X, g)
  BY <1>2 DEF Holders
<1> QED
  BY <1>1, <1>3 DEF HeldBy

\* s holds nothing in m and an assertion in n.
Gains(m, X, n, Y, s) ==
    IF Kind(s) = "intx" THEN ~IntxOut(m, Gsi(s)) /\ n.drv[s].out
    ELSE ~Active(m, X, s) /\ Active(n, Y, s)

LEMMA HeldMore ==
    ASSUME wiring \in Wirings, NEW m, NEW X, NEW n, NEW Y, NEW s \in Attached, NEW g,
           Retuned(m, X, n, Y, s), g = Gsi(s), Gains(m, X, n, Y, s)
    PROVE  HeldBy(n, Y, g) = HeldBy(m, X, g) + 1 /\ HeldBy(m, X, g) < Len(wiring)
<1>1. s \in On(g)
  BY DEF On
<1>2. PICK H : H = Holders(m, X, g)
  OBVIOUS
<1>3. IsFiniteSet(H) /\ Cardinality(H) \in Nat /\ H \subseteq Attached
  BY <1>2, HoldersFacts DEF Holders, On
<1>4. s \notin H
  BY <1>2 DEF Gains, Holders, Of
<1>5. \A t \in (On(g) \ Of({"intx"})) \ {s} : Active(n, Y, t) <=> Active(m, X, t)
  BY DEF On, Retuned, Active
<1>6. PICK R : R = Attached \ {s}
  OBVIOUS
<1>7. IsFiniteSet(R) /\ Cardinality(R) = Len(wiring) - 1 /\ H \subseteq R
  BY <1>3, <1>4, <1>6, WiringFacts, FS_RemoveElement
<1>8. Cardinality(H) <= Len(wiring) - 1
  BY <1>7, FS_Subset
<1>9. CASE Kind(s) = "intx"
  <2>1. s \in Of({"intx"})
    BY <1>9 DEF Of
  <2>2. IntxOut(n, g) /\ ~IntxOut(m, g)
    BY <1>1, <1>9, <2>1 DEF Gains, IntxOut
  <2>3. Holders(n, Y, g) = H
    BY <1>2, <1>5, <2>1 DEF Holders
  <2>4. HeldBy(m, X, g) = Cardinality(H) /\ HeldBy(n, Y, g) = Cardinality(H) + 1
    BY <1>2, <1>3, <2>2, <2>3 DEF HeldBy
  <2> QED
    BY <1>3, <1>8, <2>4, WiringFacts
<1>10. CASE Kind(s) # "intx"
  <2>1. s \notin Of({"intx"}) /\ Active(n, Y, s)
    BY <1>10 DEF Of, Gains
  <2>2. IntxOut(n, g) <=> IntxOut(m, g)
    BY <2>1 DEF IntxOut, Retuned, On
  <2>3. Holders(n, Y, g) = H \cup {s}
    BY <1>1, <1>2, <1>5, <2>1 DEF Holders
  <2>4. Cardinality(H \cup {s}) = Cardinality(H) + 1
    BY <1>3, <1>4, FS_AddElement
  <2>5. HeldBy(n, Y, g) = HeldBy(m, X, g) + 1
    BY <1>2, <1>3, <2>2, <2>3, <2>4 DEF HeldBy
  <2>6. CASE ~IntxOut(m, g)
    <3>1. HeldBy(m, X, g) = Cardinality(H)
      BY <1>2, <1>3, <2>6 DEF HeldBy
    <3> QED
      BY <1>3, <1>8, <2>5, <3>1, WiringFacts
  <2>7. CASE IntxOut(m, g)
    <3>1. PICK t \in Of({"intx"}) \cap On(g) : m.drv[t].out
      BY <2>7 DEF IntxOut
    <3>2. t \in R /\ t \notin H
      BY <1>2, <1>6, <2>1, <3>1 DEF Of, Holders
    <3>3. H \cup {t} \subseteq R /\ Cardinality(H \cup {t}) = Cardinality(H) + 1
      BY <1>3, <1>7, <3>2, FS_AddElement
    <3>4. Cardinality(H) + 1 <= Len(wiring) - 1
      BY <1>7, <3>3, FS_Subset
    <3>5. HeldBy(m, X, g) = 1 + Cardinality(H)
      BY <1>2, <2>7 DEF HeldBy
    <3> QED
      BY <1>3, <2>5, <3>4, <3>5, WiringFacts
  <2> QED
    BY <2>6, <2>7
<1> QED
  BY <1>9, <1>10

\* One raise_irq or lower_irq.
LEMMA PullKeeps ==
    ASSUME NEW m, MachineOK(m), NEW g \in Gsis, NEW level \in BOOLEAN
    PROVE  LET n == Pull(m, g, level)
           IN  /\ Kept(m, n) /\ n.drv = m.drv
               /\ \A h \in Gsis \ {g} : n.ints.count[h] = m.ints.count[h]
               /\ level /\ m.ints.count[g] # MaxCount => n.ints.count[g] = m.ints.count[g] + 1
               /\ ~level /\ m.ints.count[g] > 0 => n.ints.count[g] = m.ints.count[g] - 1
<1>1. PICK p : p = m.ints
  OBVIOUS
<1>2. FabricOK(p) /\ m \in Machines /\ \A s \in Attached : m.drv[s].gen <= p.generation
  BY <1>1 DEF MachineOK
<1>3. PICK q : q = IF level THEN RaiseIrq(p, {g}) ELSE LowerIrq(p, {g})
  OBVIOUS
<1>4. {g} \in SUBSET Gsis /\ g \in {g} /\ \A h \in Gsis \ {g} : h \notin {g}
  OBVIOUS
<1>5. /\ FabricOK(q) /\ q.generation = p.generation /\ q.baseline = p.baseline
      /\ \A h \in Gsis \ {g} : q.count[h] = p.count[h]
      /\ level /\ p.count[g] # MaxCount => q.count[g] = p.count[g] + 1
      /\ ~level /\ p.count[g] > 0 => q.count[g] = p.count[g] - 1
  <2>1. CASE level
    BY <1>2, <1>3, <1>4, <2>1, RaiseKeeps
  <2>2. CASE ~level
    BY <1>2, <1>3, <1>4, <2>2, LowerKeeps
  <2> QED
    BY <2>1, <2>2
<1>6. PICK n : n = [m EXCEPT !.ints = q]
  OBVIOUS
<1>7. q \in Fabrics
  BY <1>5 DEF FabricOK
<1>8. n \in Machines /\ n.ints = q /\ n.drv = m.drv
  BY <1>2, <1>6, <1>7 DEF Machines
<1>9. Pull(m, g, level) = n
  BY <1>1, <1>3, <1>6 DEF Pull
<1>10. Kept(m, n)
  BY <1>1, <1>2, <1>5, <1>8 DEF Kept, MachineOK
<1> QED
  BY <1>1, <1>5, <1>8, <1>9, <1>10

\* The machine m with d as the memory of source s.
Redriven(m, s, d) == [m EXCEPT !.drv = [@ EXCEPT ![s] = d]]

LEMMA RedrivenKeeps ==
    ASSUME NEW m, MachineOK(m), NEW s \in Attached, NEW d \in Drivers, d.gen <= m.ints.generation
    PROVE  LET k == Redriven(m, s, d)
           IN  /\ Kept(m, k) /\ k.ints = m.ints /\ k.drv[s] = d
               /\ \A t \in Attached \ {s} : k.drv[t] = m.drv[t]
<1>1. m \in Machines /\ m.drv \in [Attached -> Drivers]
  BY DEF MachineOK, Machines
<1>2. PICK v : v = [m.drv EXCEPT ![s] = d]
  OBVIOUS
<1>3. v \in [Attached -> Drivers] /\ v[s] = d /\ \A t \in Attached \ {s} : v[t] = m.drv[t]
  BY <1>1, <1>2
<1>4. PICK k : k = [m EXCEPT !.drv = v]
  OBVIOUS
<1>5. k \in Machines /\ k.ints = m.ints /\ k.drv = v
  BY <1>1, <1>3, <1>4 DEF Machines
<1>6. k = Redriven(m, s, d)
  BY <1>2, <1>4 DEF Redriven
<1>7. MachineOK(k)
  BY <1>3, <1>5 DEF MachineOK
<1> QED
  BY <1>3, <1>5, <1>6, <1>7 DEF Kept

LEMMA RedrivenRetuned ==
    ASSUME NEW m, MachineOK(m), NEW s \in Attached, NEW d \in Drivers, d.gen <= m.ints.generation,
           NEW X
    PROVE  Retuned(m, X, Redriven(m, s, d), X \ {s}, s)
<1>1. PICK k : k = Redriven(m, s, d)
  OBVIOUS
<1>2. k.ints = m.ints /\ \A t \in Attached \ {s} : k.drv[t] = m.drv[t]
  BY <1>1, RedrivenKeeps
<1> QED
  BY <1>1, <1>2 DEF Retuned

\* s remembers something new and its line is left alone: nothing was held
\* that is not held now.
LEMMA QuietStep ==
    ASSUME wiring \in Wirings, NEW m, MachineOK(m), NEW s \in Attached,
           NEW d \in Drivers, d.gen <= m.ints.generation, NEW X, NEW A, Wired(m, X, A),
           \/ Kind(s) = "uart"
           \/ Kind(s) = "intx" /\ (IntxOut(Redriven(m, s, d), Gsi(s)) <=> IntxOut(m, Gsi(s)))
           \/ Kind(s) # "intx" /\ (Active(Redriven(m, s, d), X \ {s}, s) <=> Active(m, X, s))
    PROVE  Wired(Redriven(m, s, d), X \ {s}, A)
<1>1. PICK k : k = Redriven(m, s, d)
  OBVIOUS
<1>2. PICK Y : Y = X \ {s}
  OBVIOUS
<1>3. k.ints = m.ints
  BY <1>1, RedrivenKeeps
<1>4. Retuned(m, X, k, Y, s)
  BY <1>1, <1>2, RedrivenRetuned
<1>5. ASSUME NEW g \in Gsis, On(g) \cap Of({"uart"}) = {}
      PROVE  k.ints.count[g] = HeldBy(k, Y, g) + (IF g \in A THEN 1 ELSE 0)
  <2>1. m.ints.count[g] = HeldBy(m, X, g) + (IF g \in A THEN 1 ELSE 0)
    BY <1>5 DEF Wired
  <2>2. HeldBy(k, Y, g) = HeldBy(m, X, g)
    <3>1. CASE g # Gsi(s)
      BY <1>4, <3>1, HeldElsewhere
    <3>2. CASE g = Gsi(s)
      <4>1. Kind(s) # "uart"
        BY <1>5, <3>2 DEF On, Of
      <4>2. IF Kind(s) = "intx" THEN IntxOut(k, g) <=> IntxOut(m, g)
            ELSE Active(k, Y, s) <=> Active(m, X, s)
        BY <1>1, <1>2, <3>2, <4>1
      <4> QED
        BY <1>4, <3>2, <4>2, HeldSame
    <3> QED
      BY <3>1, <3>2
  <2> QED
    BY <1>3, <2>1, <2>2
<1> QED
  BY <1>1, <1>2, <1>5 DEF Wired

\* s takes an assertion or gives one up, and tells the router.
LEMMA PullStep ==
    ASSUME wiring \in Wirings, NEW m, MachineOK(m), NEW s \in Attached,
           NEW d \in Drivers, d.gen <= m.ints.generation, NEW X, NEW A, Wired(m, X, A),
           NEW level \in BOOLEAN,
           \/ Kind(s) = "uart"
           \/ level /\ Gains(m, X, Redriven(m, s, d), X \ {s}, s)
           \/ ~level /\ Gains(Redriven(m, s, d), X \ {s}, m, X, s)
    PROVE  Wired(Pull(Redriven(m, s, d), Gsi(s), level), X \ {s}, A)
<1>1. PICK k : k = Redriven(m, s, d)
  OBVIOUS
<1>2. PICK Y : Y = X \ {s}
  OBVIOUS
<1>3. k.ints = m.ints /\ MachineOK(k)
  BY <1>1, RedrivenKeeps DEF Kept
<1>4. Retuned(m, X, k, Y, s) /\ Retuned(k, Y, m, X, s)
  <2>1. Retuned(m, X, k, Y, s)
    BY <1>1, <1>2, RedrivenRetuned
  <2> QED
    BY <2>1 DEF Retuned
<1>5. PICK n : n = Pull(k, Gsi(s), level)
  OBVIOUS
<1>6. Gsi(s) \in Gsis
  BY WiringFacts
<1>7. /\ Kept(k, n) /\ n.drv = k.drv
      /\ \A h \in Gsis \ {Gsi(s)} : n.ints.count[h] = k.ints.count[h]
      /\ level /\ k.ints.count[Gsi(s)] # MaxCount => n.ints.count[Gsi(s)] = k.ints.count[Gsi(s)] + 1
      /\ ~level /\ k.ints.count[Gsi(s)] > 0 => n.ints.count[Gsi(s)] = k.ints.count[Gsi(s)] - 1
  BY <1>3, <1>5, <1>6, PullKeeps
<1>8. \A g : HeldBy(n, Y, g) = HeldBy(k, Y, g)
  BY <1>7 DEF Kept, HeldBy, IntxOut, Holders, Active
<1>9. ASSUME NEW g \in Gsis, On(g) \cap Of({"uart"}) = {}
      PROVE  n.ints.count[g] = HeldBy(n, Y, g) + (IF g \in A THEN 1 ELSE 0)
  <2>1. m.ints.count[g] = HeldBy(m, X, g) + (IF g \in A THEN 1 ELSE 0)
    BY <1>9 DEF Wired
  <2>2. CASE g # Gsi(s)
    <3>1. HeldBy(k, Y, g) = HeldBy(m, X, g)
      BY <1>4, <2>2, HeldElsewhere
    <3> QED
      BY <1>3, <1>7, <1>8, <2>1, <2>2, <3>1
  <2>3. CASE g = Gsi(s)
    <3>1. Kind(s) # "uart"
      BY <1>9, <2>3 DEF On, Of
    <3>2. PICK a \in {0, 1} : a = IF g \in A THEN 1 ELSE 0
      OBVIOUS
    <3>3. HeldBy(m, X, g) \in Nat /\ HeldBy(k, Y, g) \in Nat
      BY HoldersFacts
    <3>4. Len(wiring) \in Nat /\ Len(wiring) < MaxCount /\ MaxCount \in Nat
      BY WiringFacts, FabricAssumption
    <3>5. CASE level
      <4>1. Gains(m, X, k, Y, s)
        BY <1>1, <1>2, <3>1, <3>5
      <4>2. HeldBy(k, Y, g) = HeldBy(m, X, g) + 1 /\ HeldBy(m, X, g) < Len(wiring)
        BY <1>4, <2>3, <4>1, HeldMore
      <4>3. m.ints.count[g] = HeldBy(m, X, g) + a
        BY <2>1, <3>2
      <4>4. m.ints.count[g] # MaxCount
        BY <3>2, <3>3, <3>4, <4>2, <4>3
      <4>5. n.ints.count[g] = m.ints.count[g] + 1
        BY <1>3, <1>7, <2>3, <3>5, <4>4
      <4>6. n.ints.count[g] = HeldBy(n, Y, g) + a
        BY <1>8, <3>2, <3>3, <4>2, <4>3, <4>5
      <4> QED
        BY <3>2, <4>6
    <3>6. CASE ~level
      <4>1. Gains(k, Y, m, X, s)
        BY <1>1, <1>2, <3>1, <3>6
      <4>2. HeldBy(m, X, g) = HeldBy(k, Y, g) + 1
        BY <1>4, <2>3, <4>1, HeldMore
      <4>3. m.ints.count[g] = HeldBy(m, X, g) + a
        BY <2>1, <3>2
      <4>4. m.ints.count[g] > 0
        BY <3>2, <3>3, <4>2, <4>3
      <4>5. n.ints.count[g] = m.ints.count[g] - 1
        BY <1>3, <1>7, <2>3, <3>6, <4>4
      <4>6. n.ints.count[g] = HeldBy(n, Y, g) + a
        BY <1>8, <3>2, <3>3, <4>2, <4>3, <4>5
      <4> QED
        BY <3>2, <4>6
    <3> QED
      BY <3>5, <3>6
  <2> QED
    BY <2>2, <2>3
<1> QED
  BY <1>1, <1>2, <1>5, <1>9 DEF Wired

LEMMA PulledKept ==
    ASSUME wiring \in Wirings, NEW m, MachineOK(m), NEW s \in Attached,
           NEW d \in Drivers, d.gen <= m.ints.generation, NEW level \in BOOLEAN
    PROVE  Kept(m, Pull(Redriven(m, s, d), Gsi(s), level))
<1>1. PICK k : k = Redriven(m, s, d)
  OBVIOUS
<1>2. Kept(m, k)
  BY <1>1, RedrivenKeeps
<1>3. Gsi(s) \in Gsis
  BY WiringFacts
<1>4. Kept(k, Pull(k, Gsi(s), level))
  BY <1>2, <1>3, PullKeeps DEF Kept
<1> QED
  BY <1>1, <1>2, <1>4 DEF Kept

\* What a step of source s keeps.
Steps(m, n, X, A, s) == Kept(m, n) /\ Wired(n, X \ {s}, A)

LEMMA LineSetSteps ==
    ASSUME wiring \in Wirings, NEW m, MachineOK(m), NEW s \in Attached, Kind(s) \in {"ide", "rtc", "acpi"},
           NEW X, NEW A, Wired(m, X, A), s \notin X, NEW level \in BOOLEAN
    PROVE  Steps(m, LineSet(m, s, level), X, A, s)
<1>1. m \in Machines /\ m.drv[s] \in Drivers /\ m.ints.generation \in Nat
  BY DEF MachineOK, Machines, Fabrics
<1>2. PICK d : d = [m.drv[s] EXCEPT !.gen = m.ints.generation, !.out = level]
  OBVIOUS
<1>3. d \in Drivers /\ d.gen = m.ints.generation /\ d.out = level
  BY <1>1, <1>2 DEF Drivers
<1>4. PICK k : k = Redriven(m, s, d)
  OBVIOUS
<1>5. k = [m EXCEPT !.drv[s].gen = m.ints.generation, !.drv[s].out = level]
  <2>1. m.drv \in [Attached -> Drivers]
    BY <1>1 DEF Machines
  <2>2. [m.drv EXCEPT ![s] = d] = [m.drv EXCEPT ![s].gen = m.ints.generation, ![s].out = level]
    BY <1>2, <2>1
  <2> QED
    BY <1>1, <1>4, <2>2 DEF Redriven, Machines
<1>6. PICK last \in BOOLEAN : last = (m.drv[s].gen = m.ints.generation /\ m.drv[s].out)
  OBVIOUS
<1>7. LineSet(m, s, level) = IF last = level THEN k ELSE Pull(k, Gsi(s), level)
  BY <1>5, <1>6 DEF LineSet
<1>8. k.ints = m.ints /\ k.drv[s] = d /\ Kept(m, k)
  BY <1>1, <1>3, <1>4, RedrivenKeeps
<1>9. (Active(k, X \ {s}, s) <=> level) /\ (Active(m, X, s) <=> last)
  BY <1>3, <1>6, <1>8 DEF Active
<1>10. d.gen <= m.ints.generation
  BY <1>1, <1>3
<1>11. CASE last = level
  <2>1. Wired(k, X \ {s}, A)
    BY <1>3, <1>4, <1>9, <1>10, <1>11, QuietStep
  <2> QED
    BY <1>7, <1>8, <1>11, <2>1 DEF Steps
<1>12. CASE last # level
  <2>1. \/ level /\ Gains(m, X, k, X \ {s}, s)
        \/ ~level /\ Gains(k, X \ {s}, m, X, s)
    BY <1>9, <1>12 DEF Gains
  <2>2. Wired(Pull(k, Gsi(s), level), X \ {s}, A)
    BY <1>3, <1>4, <1>10, <2>1, PullStep
  <2>3. Kept(m, Pull(k, Gsi(s), level))
    BY <1>3, <1>4, <1>10, PulledKept
  <2> QED
    BY <1>7, <1>12, <2>2, <2>3 DEF Steps
<1> QED
  BY <1>11, <1>12

LEMMA IntxSetSteps ==
    ASSUME wiring \in Wirings, NEW m, MachineOK(m), NEW s \in Attached, Kind(s) = "intx",
           NEW X, NEW A, Wired(m, X, A), NEW level \in BOOLEAN
    PROVE  Steps(m, IntxSet(m, s, level), X, A, s)
<1>1. m \in Machines /\ m.drv[s] \in Drivers /\ m.drv[s].gen <= m.ints.generation
  BY DEF MachineOK, Machines
<1>2. PICK d : d = [m.drv[s] EXCEPT !.out = level]
  OBVIOUS
<1>3. d \in Drivers /\ d.gen = m.drv[s].gen /\ d.out = level
  BY <1>1, <1>2 DEF Drivers
<1>4. PICK k : k = Redriven(m, s, d)
  OBVIOUS
<1>5. k = [m EXCEPT !.drv[s].out = level]
  BY <1>1, <1>2, <1>4 DEF Redriven, Machines
<1>6. PICK shared \in BOOLEAN : shared = (\E t \in (Of({"intx"}) \cap On(Gsi(s))) \ {s} : m.drv[t].out)
  OBVIOUS
<1>7. IntxSet(m, s, level) = IF m.drv[s].out = level \/ shared THEN k ELSE Pull(k, Gsi(s), level)
  BY <1>5, <1>6 DEF IntxSet
<1>8. d.gen <= m.ints.generation
  BY <1>1, <1>3
<1>9. k.ints = m.ints /\ k.drv[s] = d /\ Kept(m, k) /\ \A t \in Attached \ {s} : k.drv[t] = m.drv[t]
  BY <1>3, <1>4, <1>8, RedrivenKeeps
<1>10. s \in Of({"intx"}) \cap On(Gsi(s)) /\ Of({"intx"}) \cap On(Gsi(s)) \subseteq Attached
  BY DEF Of, On
<1>11. /\ IntxOut(m, Gsi(s)) <=> m.drv[s].out \/ shared
       /\ IntxOut(k, Gsi(s)) <=> level \/ shared
  <2>1. IntxOut(m, Gsi(s)) <=> m.drv[s].out \/ shared
    BY <1>6, <1>10 DEF IntxOut
  <2>2. shared <=> \E t \in (Of({"intx"}) \cap On(Gsi(s))) \ {s} : k.drv[t].out
    BY <1>6, <1>9, <1>10
  <2>3. IntxOut(k, Gsi(s)) <=> level \/ shared
    BY <1>3, <1>9, <1>10, <2>2 DEF IntxOut
  <2> QED
    BY <2>1, <2>3
<1>12. CASE m.drv[s].out = level \/ shared
  <2>1. Wired(k, X \ {s}, A)
    BY <1>3, <1>4, <1>8, <1>11, <1>12, QuietStep
  <2> QED
    BY <1>7, <1>9, <1>12, <2>1 DEF Steps
<1>13. CASE ~(m.drv[s].out = level \/ shared)
  <2>1. m.drv[s].out \in BOOLEAN
    BY <1>1 DEF Drivers
  <2>2. \/ level /\ Gains(m, X, k, X \ {s}, s)
        \/ ~level /\ Gains(k, X \ {s}, m, X, s)
    BY <1>3, <1>9, <1>11, <1>13, <2>1 DEF Gains
  <2>3. Wired(Pull(k, Gsi(s), level), X \ {s}, A)
    BY <1>3, <1>4, <1>8, <2>2, PullStep
  <2>4. Kept(m, Pull(k, Gsi(s), level))
    BY <1>3, <1>4, <1>8, PulledKept
  <2> QED
    BY <1>7, <1>13, <2>3, <2>4 DEF Steps
<1> QED
  BY <1>12, <1>13

LEMMA HpetSetSteps ==
    ASSUME wiring \in Wirings, NEW m, MachineOK(m), NEW s \in Attached, Kind(s) = "hpet",
           NEW X, NEW A, Wired(m, X, A), s \notin X, NEW level \in BOOLEAN
    PROVE  Steps(m, HpetSet(m, s, level), X, A, s)
<1>1. m \in Machines /\ m.drv[s] \in Drivers /\ m.drv[s].gen <= m.ints.generation
  BY DEF MachineOK, Machines
<1>2. PICK d : d = [m.drv[s] EXCEPT !.out = level]
  OBVIOUS
<1>3. d \in Drivers /\ d.gen = m.drv[s].gen /\ d.out = level /\ m.drv[s].out \in BOOLEAN
  BY <1>1, <1>2 DEF Drivers
<1>4. PICK k : k = Redriven(m, s, d)
  OBVIOUS
<1>5. k = [m EXCEPT !.drv[s].out = level]
  BY <1>1, <1>2, <1>4 DEF Redriven, Machines
<1>6. HpetSet(m, s, level) = IF m.drv[s].out = level THEN m ELSE Pull(k, Gsi(s), level)
  BY <1>5 DEF HpetSet
<1>7. d.gen <= m.ints.generation
  BY <1>1, <1>3
<1>8. CASE m.drv[s].out = level
  <2>1. X \ {s} = X
    OBVIOUS
  <2> QED
    BY <1>6, <1>8, <2>1 DEF Steps, Kept
<1>9. CASE m.drv[s].out # level
  <2>1. k.drv[s] = d
    BY <1>3, <1>4, <1>7, RedrivenKeeps
  <2>2. (Active(k, X \ {s}, s) <=> level) /\ (Active(m, X, s) <=> m.drv[s].out)
    BY <1>3, <2>1 DEF Active
  <2>3. \/ level /\ Gains(m, X, k, X \ {s}, s)
        \/ ~level /\ Gains(k, X \ {s}, m, X, s)
    BY <1>3, <1>9, <2>2 DEF Gains
  <2>4. Wired(Pull(k, Gsi(s), level), X \ {s}, A)
    BY <1>3, <1>4, <1>7, <2>3, PullStep
  <2>5. Kept(m, Pull(k, Gsi(s), level))
    BY <1>3, <1>4, <1>7, PulledKept
  <2> QED
    BY <1>6, <1>9, <2>4, <2>5 DEF Steps
<1> QED
  BY <1>8, <1>9

\* A step that only notes something, before another one.
LEMMA NoteThenStep ==
    ASSUME wiring \in Wirings, NEW m, MachineOK(m), NEW s \in Attached,
           NEW d \in Drivers, d.gen <= m.ints.generation, NEW X, NEW A, Wired(m, X, A),
           Kind(s) # "intx", Active(Redriven(m, s, d), X \ {s}, s) <=> Active(m, X, s)
    PROVE  LET k == Redriven(m, s, d)
           IN  /\ MachineOK(k) /\ Wired(k, X \ {s}, A) /\ s \notin X \ {s}
               /\ \A n : Steps(k, n, X \ {s}, A, s) => Steps(m, n, X, A, s)
<1>1. PICK k : k = Redriven(m, s, d)
  OBVIOUS
<1>2. Kept(m, k)
  BY <1>1, RedrivenKeeps
<1>3. Wired(k, X \ {s}, A)
  BY <1>1, QuietStep
<1>4. (X \ {s}) \ {s} = X \ {s}
  OBVIOUS
<1> QED
  BY <1>1, <1>2, <1>3, <1>4 DEF Steps, Kept

\* The RTC and ACPI PM: the cached level, then the line.
LEMMA CachedSteps ==
    ASSUME wiring \in Wirings, NEW m, MachineOK(m), NEW s \in Attached, Kind(s) \in {"rtc", "acpi"},
           NEW X, NEW A, Wired(m, X, A), s \notin X, NEW level \in BOOLEAN
    PROVE  /\ Steps(m, LineSet([m EXCEPT !.drv[s].cache = level], s, level), X, A, s)
           /\ Steps(m, CachedSet(m, s, level), X, A, s)
<1>1. m \in Machines /\ m.drv[s] \in Drivers /\ m.drv[s].gen <= m.ints.generation
  BY DEF MachineOK, Machines
<1>2. PICK d : d = [m.drv[s] EXCEPT !.cache = level]
  OBVIOUS
<1>3. d \in Drivers /\ d.gen = m.drv[s].gen /\ d.out = m.drv[s].out
  BY <1>1, <1>2 DEF Drivers
<1>4. PICK k : k = Redriven(m, s, d)
  OBVIOUS
<1>5. k = [m EXCEPT !.drv[s].cache = level]
  BY <1>1, <1>2, <1>4 DEF Redriven, Machines
<1>6. d.gen <= m.ints.generation
  BY <1>1, <1>3
<1>7. k.drv[s] = d /\ k.ints = m.ints
  BY <1>3, <1>4, <1>6, RedrivenKeeps
<1>8. Active(k, X \ {s}, s) <=> Active(m, X, s)
  BY <1>3, <1>7 DEF Active
<1>9. /\ MachineOK(k) /\ Wired(k, X \ {s}, A) /\ s \notin X \ {s}
      /\ \A n : Steps(k, n, X \ {s}, A, s) => Steps(m, n, X, A, s)
  BY <1>3, <1>4, <1>6, <1>8, NoteThenStep
<1>10. Steps(k, LineSet(k, s, level), X \ {s}, A, s)
  BY <1>9, LineSetSteps
<1>11. Steps(m, LineSet(k, s, level), X, A, s)
  BY <1>9, <1>10
<1>12. Steps(m, m, X, A, s)
  <2>1. X \ {s} = X
    OBVIOUS
  <2> QED
    BY <2>1 DEF Steps, Kept
<1>13. CachedSet(m, s, level) = m \/ CachedSet(m, s, level) = LineSet(k, s, level)
  BY <1>5 DEF CachedSet
<1> QED
  BY <1>5, <1>11, <1>12, <1>13

\* load_state of the HPET: the flag of before is forgotten.
LEMMA LoadHpetSteps ==
    ASSUME wiring \in Wirings, NEW m, MachineOK(m), NEW s \in Attached, Kind(s) = "hpet",
           NEW X, NEW A, Wired(m, X, A), s \in X, NEW level \in BOOLEAN
    PROVE  Steps(m, LoadHpet(m, s, level), X, A, s)
<1>1. m \in Machines /\ m.drv[s] \in Drivers /\ m.drv[s].gen <= m.ints.generation
  BY DEF MachineOK, Machines
<1>2. PICK d : d = [m.drv[s] EXCEPT !.out = FALSE]
  OBVIOUS
<1>3. d \in Drivers /\ d.gen = m.drv[s].gen /\ d.out = FALSE
  BY <1>1, <1>2 DEF Drivers
<1>4. PICK k : k = Redriven(m, s, d)
  OBVIOUS
<1>5. k = [m EXCEPT !.drv[s].out = FALSE]
  BY <1>1, <1>2, <1>4 DEF Redriven, Machines
<1>6. d.gen <= m.ints.generation
  BY <1>1, <1>3
<1>7. k.drv[s] = d
  BY <1>3, <1>4, <1>6, RedrivenKeeps
<1>8. Active(k, X \ {s}, s) <=> Active(m, X, s)
  BY <1>3, <1>7 DEF Active
<1>9. /\ MachineOK(k) /\ Wired(k, X \ {s}, A) /\ s \notin X \ {s}
      /\ \A n : Steps(k, n, X \ {s}, A, s) => Steps(m, n, X, A, s)
  BY <1>3, <1>4, <1>6, <1>8, NoteThenStep
<1>10. Steps(k, HpetSet(k, s, level), X \ {s}, A, s)
  BY <1>9, HpetSetSteps
<1> QED
  BY <1>5, <1>9, <1>10 DEF LoadHpet

LEMMA UartSteps ==
    ASSUME wiring \in Wirings, NEW m, MachineOK(m), NEW s \in Attached, Kind(s) = "uart",
           NEW X, NEW A, Wired(m, X, A), NEW level \in BOOLEAN
    PROVE  Steps(m, Pull(m, Gsi(s), level), X, A, s)
<1>1. m \in Machines /\ m.drv[s] \in Drivers /\ m.drv[s].gen <= m.ints.generation
  BY DEF MachineOK, Machines
<1>2. PICK d : d = m.drv[s]
  OBVIOUS
<1>3. Redriven(m, s, d) = m
  BY <1>1, <1>2 DEF Redriven, Machines
<1>4. PICK k : k = Redriven(m, s, d)
  OBVIOUS
<1>5. Wired(Pull(k, Gsi(s), level), X \ {s}, A)
  BY <1>1, <1>2, <1>4, PullStep
<1>6. Kept(m, Pull(k, Gsi(s), level))
  BY <1>1, <1>2, <1>4, PulledKept
<1> QED
  BY <1>3, <1>4, <1>5, <1>6 DEF Steps

LEMMA OneOfSteps ==
    ASSUME wiring \in Wirings, NEW m, MachineOK(m), NEW s \in Attached, NEW kind, NEW how,
           NEW X, NEW A, Wired(m, X, A), NEW level \in BOOLEAN,
           Kind(s) = kind, kind = "hpet" /\ how # "set" <=> s \in X
    PROVE  Steps(m, OneOf(kind, how, m, s, level), X, A, s)
<1>1. Kind(s) \in Kinds
  BY WiringFacts
<1>2. CASE how = "set"
  <2>1. s \notin X /\ OneOf(kind, how, m, s, level) = SetSource(m, s, level)
    BY <1>2 DEF OneOf
  <2>2. CASE Kind(s) = "intx"
    BY <2>1, <2>2, IntxSetSteps DEF SetSource
  <2>3. CASE Kind(s) = "ide"
    BY <2>1, <2>3, LineSetSteps DEF SetSource
  <2>4. CASE Kind(s) = "uart"
    BY <2>1, <2>4, UartSteps DEF SetSource
  <2>5. CASE Kind(s) = "hpet"
    BY <2>1, <2>5, HpetSetSteps DEF SetSource
  <2>6. CASE Kind(s) \in {"rtc", "acpi"}
    <3>1. SetSource(m, s, level) = CachedSet(m, s, level)
      BY <2>6 DEF SetSource
    <3> QED
      BY <2>1, <2>6, <3>1, CachedSteps
  <2> QED
    BY <1>1, <2>2, <2>3, <2>4, <2>5, <2>6 DEF Kinds
<1>3. CASE how # "set"
  <2>1. OneOf(kind, how, m, s, level) = LoadSource(m, s, level)
    BY <1>3 DEF OneOf
  <2>2. CASE Kind(s) = "rtc"
    <3>1. s \notin X /\ LoadSource(m, s, level) = LineSet([m EXCEPT !.drv[s].cache = level], s, level)
      BY <2>2 DEF LoadSource, LoadRtc
    <3> QED
      BY <2>1, <2>2, <3>1, CachedSteps
  <2>3. CASE Kind(s) = "acpi"
    <3>1. s \notin X /\ LoadSource(m, s, level) = CachedSet(m, s, level)
      BY <2>3 DEF LoadSource, LoadAcpi
    <3> QED
      BY <2>1, <2>3, <3>1, CachedSteps
  <2>4. CASE Kind(s) = "hpet"
    <3>1. s \in X /\ LoadSource(m, s, level) = LoadHpet(m, s, level)
      BY <1>3, <2>4 DEF LoadSource
    <3> QED
      BY <2>1, <2>4, <3>1, LoadHpetSteps
  <2>5. CASE Kind(s) \notin {"rtc", "acpi", "hpet"}
    <3>1. s \notin X /\ LoadSource(m, s, level) = m
      BY <2>5 DEF LoadSource
    <3>2. X \ {s} = X
      BY <3>1
    <3> QED
      BY <2>1, <3>1, <3>2 DEF Steps, Kept
  <2> QED
    BY <2>2, <2>3, <2>4, <2>5
<1> QED
  BY <1>2, <1>3

\* What a source remembers after it was set to a level, or loaded with one.
Noted(how, gen, s, d, level) ==
    IF Kind(s) \in {"intx", "hpet"} THEN [d EXCEPT !.out = level]
    ELSE IF Kind(s) = "ide" THEN [out |-> level, gen |-> gen, cache |-> d.cache]
    ELSE IF Kind(s) \in {"rtc", "acpi"} /\ (d.cache # level \/ (Kind(s) = "rtc" /\ how # "set"))
         THEN [out |-> level, gen |-> gen, cache |-> level]
    ELSE d

LEMMA PullDrv ==
    ASSUME NEW m, m \in Machines, NEW g, NEW level
    PROVE  Pull(m, g, level).drv = m.drv
  BY DEF Pull, Machines

LEMMA WithDriver ==
    ASSUME NEW m, m \in Machines, NEW s \in Attached, NEW d \in Drivers
    PROVE  LET k == Redriven(m, s, d)
           IN  /\ k \in Machines /\ k.drv = [m.drv EXCEPT ![s] = d] /\ k.ints = m.ints
               /\ k.drv[s] = d
<1>1. m.drv \in [Attached -> Drivers]
  BY DEF Machines
<1>2. PICK v : v = [m.drv EXCEPT ![s] = d]
  OBVIOUS
<1>3. v \in [Attached -> Drivers] /\ v[s] = d
  BY <1>1, <1>2
<1>4. PICK k : k = [m EXCEPT !.drv = v]
  OBVIOUS
<1>5. k \in Machines /\ k.drv = v /\ k.ints = m.ints
  BY <1>3, <1>4 DEF Machines
<1>6. k = Redriven(m, s, d)
  BY <1>2, <1>4 DEF Redriven
<1> QED
  BY <1>2, <1>3, <1>5, <1>6

LEMMA LineSetNotes ==
    ASSUME NEW m, m \in Machines, NEW s \in Attached, NEW level \in BOOLEAN
    PROVE  LineSet(m, s, level).drv =
               [m.drv EXCEPT ![s] = [out |-> level, gen |-> m.ints.generation, cache |-> m.drv[s].cache]]
<1>1. m.drv \in [Attached -> Drivers] /\ m.ints.generation \in Nat
  BY DEF Machines, Fabrics
<1>2. PICK d : d = [m.drv[s] EXCEPT !.gen = m.ints.generation, !.out = level]
  OBVIOUS
<1>3. d \in Drivers /\ d.out = level /\ d.gen = m.ints.generation /\ d.cache = m.drv[s].cache
  BY <1>1, <1>2 DEF Drivers
<1>8. d = [out |-> level, gen |-> m.ints.generation, cache |-> m.drv[s].cache]
  BY ONLY <1>3 DEF Drivers
<1>4. PICK k : k = Redriven(m, s, d)
  OBVIOUS
<1>5. k = [m EXCEPT !.drv[s].gen = m.ints.generation, !.drv[s].out = level]
  <2>1. [m.drv EXCEPT ![s] = d] = [m.drv EXCEPT ![s].gen = m.ints.generation, ![s].out = level]
    BY <1>1, <1>2
  <2> QED
    BY <1>4, <2>1 DEF Redriven, Machines
<1>6. k \in Machines /\ k.drv = [m.drv EXCEPT ![s] = d]
  BY <1>3, <1>4, WithDriver
<1>7. LineSet(m, s, level) = k \/ LineSet(m, s, level) = Pull(k, Gsi(s), level)
  BY <1>5 DEF LineSet
<1> QED
  BY <1>6, <1>7, <1>8, PullDrv

LEMMA OutNotes ==
    ASSUME NEW m, m \in Machines, NEW s \in Attached, NEW level \in BOOLEAN
    PROVE  LET e == [m.drv[s] EXCEPT !.out = level]
           IN  /\ IntxSet(m, s, level).drv = [m.drv EXCEPT ![s] = e]
               /\ HpetSet(m, s, level).drv = [m.drv EXCEPT ![s] = e]
               /\ LoadHpet(m, s, level).drv = [m.drv EXCEPT ![s] = e]
<1>1. m.drv \in [Attached -> Drivers] /\ m.drv[s] \in Drivers
  BY DEF Machines
<1>2. PICK e : e = [m.drv[s] EXCEPT !.out = level]
  OBVIOUS
<1>3. e \in Drivers
  BY <1>1, <1>2 DEF Drivers
<1>4. PICK k : k = Redriven(m, s, e)
  OBVIOUS
<1>5. k = [m EXCEPT !.drv[s].out = level]
  BY <1>1, <1>2, <1>4 DEF Redriven, Machines
<1>6. k \in Machines /\ k.drv = [m.drv EXCEPT ![s] = e]
  BY <1>3, <1>4, WithDriver
<1>7. IntxSet(m, s, level) = k \/ IntxSet(m, s, level) = Pull(k, Gsi(s), level)
  BY <1>5 DEF IntxSet
<1>8. HpetSet(m, s, level).drv = [m.drv EXCEPT ![s] = e]
  <2>1. CASE m.drv[s].out = level
    <3>1. e = m.drv[s]
      BY <1>1, <1>2, <2>1 DEF Drivers
    <3>2. [m.drv EXCEPT ![s] = e] = m.drv
      BY <1>1, <3>1
    <3> QED
      BY <2>1, <3>2 DEF HpetSet
  <2>2. CASE m.drv[s].out # level
    <3>1. HpetSet(m, s, level) = Pull(k, Gsi(s), level)
      BY <1>5, <2>2 DEF HpetSet
    <3> QED
      BY <1>6, <3>1, PullDrv
  <2> QED
    BY <2>1, <2>2
<1>9. LoadHpet(m, s, level).drv = [m.drv EXCEPT ![s] = e]
  <2>1. PICK d : d = [m.drv[s] EXCEPT !.out = FALSE]
    OBVIOUS
  <2>2. d \in Drivers /\ [d EXCEPT !.out = level] = e
    BY <1>1, <1>2, <2>1 DEF Drivers
  <2>3. PICK j : j = Redriven(m, s, d)
    OBVIOUS
  <2>4. j = [m EXCEPT !.drv[s].out = FALSE]
    BY <1>1, <2>1, <2>3 DEF Redriven, Machines
  <2>5. /\ j \in Machines /\ j.drv[s] = d
        /\ [j.drv EXCEPT ![s] = e] = [m.drv EXCEPT ![s] = e]
    <3>1. j \in Machines /\ j.drv[s] = d /\ j.drv = [m.drv EXCEPT ![s] = d]
      BY <2>2, <2>3, WithDriver
    <3> QED
      BY <1>1, <3>1
  <2>6. LoadHpet(m, s, level) = HpetSet(j, s, level)
    BY <2>4 DEF LoadHpet
  <2>7. CASE d.out = level
    <3>1. e = d
      BY <2>2, <2>7 DEF Drivers
    <3>2. HpetSet(j, s, level) = j
      BY <2>5, <2>7 DEF HpetSet
    <3>3. j.drv = [m.drv EXCEPT ![s] = d]
      BY <2>2, <2>3, WithDriver
    <3> QED
      BY <2>6, <3>1, <3>2, <3>3
  <2>8. CASE d.out # level
    <3>1. PICK l : l = Redriven(j, s, e)
      OBVIOUS
    <3>2. l = [j EXCEPT !.drv[s].out = level]
      <4>1. j.drv \in [Attached -> Drivers]
        BY <2>5 DEF Machines
      <4>2. [j.drv EXCEPT ![s] = e] = [j.drv EXCEPT ![s].out = level]
        BY <2>2, <2>5, <4>1
      <4> QED
        BY <2>5, <3>1, <4>2 DEF Redriven, Machines
    <3>3. l \in Machines /\ l.drv = [j.drv EXCEPT ![s] = e]
      BY <1>3, <2>5, <3>1, WithDriver
    <3>4. HpetSet(j, s, level) = Pull(l, Gsi(s), level)
      BY <2>5, <2>8, <3>2 DEF HpetSet
    <3>5. HpetSet(j, s, level).drv = l.drv
      BY <3>3, <3>4, PullDrv
    <3> QED
      BY <2>5, <2>6, <3>3, <3>5
  <2> QED
    BY <2>7, <2>8
<1> QED
  BY <1>2, <1>6, <1>7, <1>8, <1>9, PullDrv

LEMMA CachedNotes ==
    ASSUME NEW m, m \in Machines, NEW s \in Attached, NEW level \in BOOLEAN
    PROVE  LET e == [out |-> level, gen |-> m.ints.generation, cache |-> level]
           IN  /\ LoadRtc(m, s, level).drv = [m.drv EXCEPT ![s] = e]
               /\ CachedSet(m, s, level).drv =
                      IF m.drv[s].cache = level THEN m.drv ELSE [m.drv EXCEPT ![s] = e]
<1>1. m.drv \in [Attached -> Drivers] /\ m.drv[s] \in Drivers
  BY DEF Machines
<1>2. PICK e : e = [out |-> level, gen |-> m.ints.generation, cache |-> level]
  OBVIOUS
<1>3. PICK d : d = [m.drv[s] EXCEPT !.cache = level]
  OBVIOUS
<1>4. d \in Drivers /\ d.cache = level
  <2>1. d = [out |-> m.drv[s].out, gen |-> m.drv[s].gen, cache |-> level]
    BY <1>1, <1>3 DEF Drivers
  <2>2. d \in Drivers
    BY <1>1, <2>1 DEF Drivers
  <2>3. d.cache = level
    BY <2>1
  <2> QED
    BY <2>2, <2>3
<1>5. PICK k : k = Redriven(m, s, d)
  OBVIOUS
<1>6. k = [m EXCEPT !.drv[s].cache = level]
  BY <1>1, <1>3, <1>5 DEF Redriven, Machines
<1>7. /\ k \in Machines /\ k.ints = m.ints /\ k.drv[s] = d
      /\ [k.drv EXCEPT ![s] = e] = [m.drv EXCEPT ![s] = e]
  <2>1. /\ k \in Machines /\ k.ints = m.ints /\ k.drv[s] = d
        /\ k.drv = [m.drv EXCEPT ![s] = d]
    BY <1>4, <1>5, WithDriver
  <2> QED
    BY <1>1, <2>1
<1>8. LineSet(k, s, level).drv = [m.drv EXCEPT ![s] = e]
  <2>1. LineSet(k, s, level).drv =
            [k.drv EXCEPT ![s] = [out |-> level, gen |-> k.ints.generation, cache |-> k.drv[s].cache]]
    BY <1>7, LineSetNotes
  <2>2. [out |-> level, gen |-> k.ints.generation, cache |-> k.drv[s].cache] = e
    BY <1>2, <1>4, <1>7
  <2> QED
    BY <1>7, <2>1, <2>2
<1>9. LoadRtc(m, s, level) = LineSet(k, s, level)
  BY <1>6 DEF LoadRtc
<1>10. CachedSet(m, s, level) = IF m.drv[s].cache = level THEN m ELSE LineSet(k, s, level)
  BY <1>6 DEF CachedSet
<1> QED
  BY <1>2, <1>8, <1>9, <1>10

LEMMA OneOfNotes ==
    ASSUME wiring \in Wirings, NEW m, m \in Machines, NEW s \in Attached, NEW kind, NEW how,
           Kind(s) = kind, how # "set" => kind \in {"rtc", "acpi", "hpet"}, NEW level \in BOOLEAN
    PROVE  OneOf(kind, how, m, s, level).drv =
               [m.drv EXCEPT ![s] = Noted(how, m.ints.generation, s, m.drv[s], level)]
<1>1. m.drv \in [Attached -> Drivers] /\ [m.drv EXCEPT ![s] = m.drv[s]] = m.drv /\ Kind(s) \in Kinds
  BY WiringFacts DEF Machines
<1>2. PICK n : n = OneOf(kind, how, m, s, level)
  OBVIOUS
<1>3. n = IF how = "set" THEN SetSource(m, s, level) ELSE LoadSource(m, s, level)
  BY <1>2 DEF OneOf
<1>4. CASE Kind(s) \in {"intx", "hpet"}
  <2>1. n = IntxSet(m, s, level) \/ n = HpetSet(m, s, level) \/ n = LoadHpet(m, s, level)
    BY <1>3, <1>4 DEF SetSource, LoadSource
  <2>2. Noted(how, m.ints.generation, s, m.drv[s], level) = [m.drv[s] EXCEPT !.out = level]
    BY <1>4 DEF Noted
  <2> QED
    BY <1>2, <2>1, <2>2, OutNotes
<1>5. CASE Kind(s) = "ide"
  <2>1. n = LineSet(m, s, level)
    BY <1>3, <1>5 DEF SetSource
  <2>2. Noted(how, m.ints.generation, s, m.drv[s], level)
            = [out |-> level, gen |-> m.ints.generation, cache |-> m.drv[s].cache]
    BY <1>5 DEF Noted
  <2> QED
    <3>1. LineSet(m, s, level).drv =
              [m.drv EXCEPT ![s] = [out |-> level, gen |-> m.ints.generation, cache |-> m.drv[s].cache]]
      BY LineSetNotes
    <3> QED
      BY <1>2, <2>1, <2>2, <3>1
<1>6. CASE Kind(s) = "uart"
  <2>1. n = Pull(m, Gsi(s), level)
    BY <1>3, <1>6 DEF SetSource
  <2>2. Noted(how, m.ints.generation, s, m.drv[s], level) = m.drv[s]
    BY <1>6 DEF Noted
  <2> QED
    BY <1>1, <1>2, <2>1, <2>2, PullDrv
<1>7. CASE Kind(s) \in {"rtc", "acpi"}
  <2>1. PICK e : e = [out |-> level, gen |-> m.ints.generation, cache |-> level]
    OBVIOUS
  <2>2. CASE Kind(s) = "rtc" /\ how # "set"
    <3>1. n = LoadRtc(m, s, level)
      BY <1>3, <2>2 DEF LoadSource
    <3>2. Noted(how, m.ints.generation, s, m.drv[s], level) = e
      BY <2>1, <2>2 DEF Noted
    <3> QED
      BY <1>2, <2>1, <3>1, <3>2, CachedNotes
  <2>3. CASE ~(Kind(s) = "rtc" /\ how # "set")
    <3>1. n = CachedSet(m, s, level)
      BY <1>3, <1>7, <2>3 DEF SetSource, LoadSource, LoadAcpi
    <3>2. Noted(how, m.ints.generation, s, m.drv[s], level) = IF m.drv[s].cache = level THEN m.drv[s] ELSE e
      BY <1>7, <2>1, <2>3 DEF Noted
    <3>3. n.drv = IF m.drv[s].cache = level THEN m.drv ELSE [m.drv EXCEPT ![s] = e]
      BY <2>1, <3>1, CachedNotes
    <3> QED
      BY <1>1, <1>2, <3>2, <3>3
  <2> QED
    BY <2>2, <2>3
<1> QED
  BY <1>1, <1>4, <1>5, <1>6, <1>7 DEF Kinds

-----------------------------------------------------------------------------
(* One source after the other *)

\* u holds the machine before the first source and after each of the first n.
RunOf(u, kind, how, m, c, n) ==
    /\ DOMAIN u = 0 .. n /\ u = [i \in 0 .. n |-> u[i]]
    /\ u[0] = m
    /\ \A i \in 1 .. n : u[i] = OneOf(kind, how, u[i - 1], i, c[i])

LEMMA RunExists ==
    ASSUME NEW n \in Nat, NEW kind, NEW how, NEW m, NEW c
    PROVE  \E u : RunOf(u, kind, how, m, c, n)
<1> DEFINE S == {k \in 0 .. n : \E u : RunOf(u, kind, how, m, c, k)}
<1>1. 0 \in S
  <2>1. RunOf([i \in 0 .. 0 |-> m], kind, how, m, c, 0)
    BY DEF RunOf
  <2> QED
    BY <2>1
<1>2. ASSUME NEW k \in 0 .. n - 1, k \in S
      PROVE  k + 1 \in S
  <2>1. PICK u : RunOf(u, kind, how, m, c, k)
    BY <1>2
  <2>2. k \in Nat /\ k + 1 \in 0 .. n
    OBVIOUS
  <2> DEFINE v == [i \in 0 .. k + 1 |-> IF i = k + 1 THEN OneOf(kind, how, u[k], k + 1, c[k + 1]) ELSE u[i]]
  <2>3. /\ DOMAIN v = 0 .. k + 1 /\ v[k + 1] = OneOf(kind, how, u[k], k + 1, c[k + 1])
        /\ \A i \in 0 .. k : v[i] = u[i]
        /\ v = [i \in 0 .. k + 1 |-> v[i]]
    BY <2>2
  <2> HIDE DEF v
  <2>4. v[0] = m
    <3>1. 0 \in 0 .. k
      BY <2>2
    <3>2. u[0] = m
      BY <2>1 DEF RunOf
    <3> QED
      BY <2>3, <3>1, <3>2
  <2>5. ASSUME NEW i \in 1 .. k + 1
        PROVE  v[i] = OneOf(kind, how, v[i - 1], i, c[i])
    <3>1. CASE i = k + 1
      <4>1. i - 1 = k /\ k \in 0 .. k
        BY <2>2, <3>1
      <4> QED
        BY <2>3, <3>1, <4>1
    <3>2. CASE i # k + 1
      <4>1. i \in 1 .. k /\ i \in 0 .. k /\ i - 1 \in 0 .. k
        BY <2>2, <3>2
      <4>2. u[i] = OneOf(kind, how, u[i - 1], i, c[i])
        BY <2>1, <4>1 DEF RunOf
      <4> QED
        BY <2>3, <4>1, <4>2
    <3> QED
      BY <3>1, <3>2
  <2>6. RunOf(v, kind, how, m, c, k + 1)
    BY <2>3, <2>4, <2>5 DEF RunOf
  <2> QED
    BY <2>2, <2>6
<1>3. \A k \in 0 .. n : k \in S
  <2> HIDE DEF S
  <2> QED
    BY <1>1, <1>2, IntervalInduction
<1> QED
  BY <1>3

\* EachOf is the end of such a run.
LEMMA EachOfRuns ==
    ASSUME wiring \in Wirings, NEW kind, NEW how, NEW m, NEW c
    PROVE  \E u : /\ u[0] = m /\ EachOf(kind, how, m, c) = u[Len(wiring)]
                  /\ \A i \in 1 .. Len(wiring) : u[i] = OneOf(kind, how, u[i - 1], i, c[i])
<1> DEFINE n == Len(wiring)
           F(f) == [i \in 0 .. n |-> IF i = 0 THEN m ELSE OneOf(kind, how, f[i - 1], i, c[i])]
           u == CHOOSE f : f = F(f)
<1>1. n \in Nat
  BY WiringFacts
<1>2. EachOf(kind, how, m, c) = u[n]
  BY DEF EachOf
<1>3. PICK g : RunOf(g, kind, how, m, c, n)
  <2> HIDE DEF n
  <2> QED
    BY <1>1, RunExists
<1>4. ASSUME NEW i \in 0 .. n
      PROVE  g[i] = F(g)[i]
  <2>1. CASE i = 0
    BY <1>3, <2>1 DEF RunOf
  <2>2. CASE i # 0
    <3>1. i \in 1 .. n
      BY <1>1, <2>2
    <3> QED
      BY <1>3, <2>2, <3>1 DEF RunOf
  <2> QED
    BY <2>1, <2>2
<1>5. g = F(g)
  <2>1. g = [i \in 0 .. n |-> g[i]]
    BY <1>3 DEF RunOf
  <2> QED
    BY <1>4, <2>1
<1>6. u = F(u)
  BY <1>5
<1> HIDE DEF u
<1>7. \A i \in 0 .. n : u[i] = F(u)[i]
  BY <1>6
<1>8. u[0] = m
  <2>1. 0 \in 0 .. n
    BY <1>1
  <2> QED
    BY <1>7, <2>1
<1>9. ASSUME NEW i \in 1 .. n
      PROVE  u[i] = OneOf(kind, how, u[i - 1], i, c[i])
  <2>1. i \in 0 .. n /\ i # 0
    BY <1>1
  <2> QED
    BY <1>7, <2>1
<1> QED
  BY <1>2, <1>8, <1>9

\* The memories after a pass over the first i sources.
NotedUpTo(kind, how, m, c, i, n) ==
    \A t \in Attached : n.drv[t] = IF Kind(t) = kind /\ t <= i
                                   THEN Noted(how, m.ints.generation, t, m.drv[t], c[t])
                                   ELSE m.drv[t]

NotedBy(kind, how, m, c, n) ==
    \A t \in Attached : n.drv[t] = IF Kind(t) = kind
                                   THEN Noted(how, m.ints.generation, t, m.drv[t], c[t])
                                   ELSE m.drv[t]

\* A pass over the sources of one kind.
LEMMA EachOfSteps ==
    ASSUME wiring \in Wirings, NEW kind, NEW how, NEW m, MachineOK(m), NEW c \in [Attached -> BOOLEAN],
           NEW X, NEW A, Wired(m, X, A), how # "set" => kind \in {"rtc", "acpi", "hpet"},
           \A s \in Of({kind}) : kind = "hpet" /\ how # "set" <=> s \in X
    PROVE  /\ Kept(m, EachOf(kind, how, m, c))
           /\ Wired(EachOf(kind, how, m, c), X \ Of({kind}), A)
           /\ NotedBy(kind, how, m, c, EachOf(kind, how, m, c))
<1>1. PICK n : n = Len(wiring)
  OBVIOUS
<1>2. n \in Nat /\ Attached = 1 .. n
  BY <1>1, WiringFacts
<1>3. PICK u : /\ u[0] = m /\ EachOf(kind, how, m, c) = u[n]
               /\ \A i \in 1 .. n : u[i] = OneOf(kind, how, u[i - 1], i, c[i])
  BY <1>1, EachOfRuns
<1> DEFINE Y(i) == X \ {s \in Of({kind}) : s <= i}
           S == {i \in 0 .. n : /\ Kept(m, u[i]) /\ Wired(u[i], Y(i), A)
                                /\ NotedUpTo(kind, how, m, c, i, u[i])}
<1>4. 0 \in S
  <2>1. Y(0) = X
    BY <1>2 DEF Of
  <2>2. 0 \in 0 .. n /\ u[0] = m
    BY <1>2, <1>3
  <2>3. Kept(m, m) /\ Wired(m, X, A)
    BY DEF Kept
  <2>4. NotedUpTo(kind, how, m, c, 0, m)
    BY <1>2 DEF NotedUpTo
  <2>5. Kept(m, u[0]) /\ Wired(u[0], Y(0), A) /\ NotedUpTo(kind, how, m, c, 0, u[0])
    BY ONLY <2>1, <2>2, <2>3, <2>4
  <2> QED
    BY <2>2, <2>5
<1>5. ASSUME NEW i \in 0 .. n - 1, i \in S
      PROVE  i + 1 \in S
  <2>1. PICK s : s = i + 1
    OBVIOUS
  <2>2. s \in 1 .. n /\ s - 1 = i /\ s \in Attached /\ s \in 0 .. n /\ i \in Nat
    BY <1>2, <2>1
  <2>3. u[s] = OneOf(kind, how, u[i], s, c[s])
    BY <1>3, <2>2
  <2>4. Kept(m, u[i]) /\ Wired(u[i], Y(i), A) /\ MachineOK(u[i]) /\ NotedUpTo(kind, how, m, c, i, u[i])
    BY <1>5 DEF Kept
  <2>5. c[s] \in BOOLEAN
    BY <2>2
  <2>6. CASE Kind(s) = kind
    <3>1. s \in Of({kind})
      BY <2>2, <2>6 DEF Of
    <3>2. s \in Y(i) <=> s \in X
      BY <2>1, <2>2
    <3>3. kind = "hpet" /\ how # "set" <=> s \in Y(i)
      BY <3>1, <3>2
    <3>4. Y(i) \ {s} = Y(s)
      BY <1>2, <2>1, <2>2, <3>1 DEF Of
    <3>5. Steps(u[i], u[s], Y(i), A, s)
      <4> HIDE DEF Y
      <4> QED
        BY <2>2, <2>3, <2>4, <2>5, <2>6, <3>3, OneOfSteps
    <3>6. Kept(m, u[s]) /\ Wired(u[s], Y(s), A)
      <4> HIDE DEF Y
      <4> QED
        BY <2>4, <3>4, <3>5 DEF Steps, Kept
    <3>7. NotedUpTo(kind, how, m, c, s, u[s])
      <4>1. u[i].drv \in [Attached -> Drivers] /\ u[i] \in Machines
        BY <2>4 DEF MachineOK, Machines
      <4>2. PICK e : e = Noted(how, u[i].ints.generation, s, u[i].drv[s], c[s])
        OBVIOUS
      <4>3. u[s].drv = [u[i].drv EXCEPT ![s] = e]
        BY <2>2, <2>3, <2>5, <2>6, <4>1, <4>2, OneOfNotes
      <4>4. u[i].ints.generation = m.ints.generation
        BY <2>4 DEF Kept
      <4>5. u[i].drv[s] = m.drv[s]
        BY <2>1, <2>2, <2>4 DEF NotedUpTo
      <4>6. u[s].drv[s] = Noted(how, m.ints.generation, s, m.drv[s], c[s])
        BY <2>2, <4>1, <4>2, <4>3, <4>4, <4>5
      <4>7. \A t \in Attached \ {s} : u[s].drv[t] = u[i].drv[t] /\ (t <= s <=> t <= i)
        BY <1>2, <2>1, <2>2, <4>1, <4>3
      <4>8. s <= s
        BY <2>2
      <4> QED
        BY <2>4, <2>6, <4>6, <4>7, <4>8 DEF NotedUpTo
    <3> QED
      BY <2>1, <2>2, <3>6, <3>7
  <2>7. CASE Kind(s) # kind
    <3>1. u[s] = u[i]
      BY <2>3, <2>7 DEF OneOf
    <3>2. Y(s) = Y(i)
      BY <1>2, <2>1, <2>2, <2>7 DEF Of
    <3>3. \A t \in Attached : Kind(t) = kind => (t <= s <=> t <= i)
      BY <1>2, <2>1, <2>2, <2>7
    <3>4. NotedUpTo(kind, how, m, c, s, u[s])
      BY <2>4, <3>1, <3>3 DEF NotedUpTo
    <3> QED
      BY <2>1, <2>2, <2>4, <3>1, <3>2, <3>4
  <2> QED
    BY <2>6, <2>7
<1>6. \A i \in 0 .. n : i \in S
  <2> HIDE DEF S
  <2> QED
    BY <1>2, <1>4, <1>5, IntervalInduction
<1>7. n \in S
  <2>1. n \in 0 .. n
    BY <1>2
  <2> HIDE DEF S
  <2> QED
    BY <1>6, <2>1
<1>8. Y(n) = X \ Of({kind}) /\ \A t \in Attached : t <= n
  BY <1>2 DEF Of
<1>9. Kept(m, u[n]) /\ Wired(u[n], Y(n), A) /\ NotedUpTo(kind, how, m, c, n, u[n])
  BY <1>7
<1>10. NotedBy(kind, how, m, c, u[n])
  BY <1>8, <1>9 DEF NotedUpTo, NotedBy
<1> QED
  BY <1>3, <1>8, <1>9, <1>10

-----------------------------------------------------------------------------
(* The invariant of the machine *)

SavedOK(v) ==
    \/ v = None
    \/ /\ FabricOK(v.ints) /\ v.cond \in [Attached -> BOOLEAN] /\ v.intx \in [Attached -> BOOLEAN]
       /\ \A s \in Attached : v.intx[s] => Kind(s) = "intx"

\* Every reset and every restore begins a generation.
LinesOK(m, A, r) ==
    /\ MachineOK(m) /\ Wired(m, {}, A) /\ A \in SUBSET Gsis
    /\ m.ints.generation = r /\ \A g \in Gsis : ~m.ints.baseline[g]

IInv ==
    /\ wiring \in Wirings /\ cond \in [Attached -> BOOLEAN]
    /\ LinesOK(Now, adopted, resets + restores) /\ SavedOK(saved)
    /\ resets \in 0 .. MaxResets /\ restores \in 0 .. MaxRestores

\* The wiring never changes, so that the invariant is a matter of the values.
LEMMA InvPrimed ==
    ASSUME wiring' = wiring, wiring \in Wirings,
           NEW m, Becomes(m), NEW A, adopted' = A, NEW r, NEW q, LinesOK(m, A, r + q),
           NEW c, cond' = c, c \in [Attached -> BOOLEAN], NEW v, saved' = v, SavedOK(v),
           resets' = r, restores' = q, r \in 0 .. MaxResets, q \in 0 .. MaxRestores
    PROVE  IInv'
<1>1. Now' = m
  <2>1. m = [ints |-> m.ints, drv |-> m.drv]
    BY DEF LinesOK, MachineOK, Machines
  <2> QED
    BY <2>1 DEF Now, Becomes
<1>2. ints' = m.ints /\ drv' = m.drv
  BY DEF Becomes
<1>3. PICK p : p = m.ints
  OBVIOUS
<1>4. (MachineOK(Now))'
  <2>1. MachineOK(m)
    BY DEF LinesOK
  <2> QED
    BY <1>1, <2>1 DEF MachineOK, Machines, FabricOK, Counted, Seen, Programmed, Requested, On, Attached, Gsi
<1>5. Wired(Now, {}, adopted)'
  <2>1. Wired(m, {}, A)
    BY DEF LinesOK
  <2> QED
    BY <1>1, <2>1 DEF Wired, HeldBy, IntxOut, Holders, Active, On, Of, Attached, Gsi, Kind
<1>6. SavedOK(saved)'
  BY DEF SavedOK, FabricOK, Counted, Seen, Programmed, Requested, On, Attached, Gsi, Kind
<1>7. (LinesOK(Now, adopted, resets + restores))'
  BY <1>1, <1>4, <1>5 DEF LinesOK
<1> QED
  BY <1>6, <1>7 DEF IInv, Attached

LEMMA LinesStep ==
    ASSUME NEW m, NEW A, NEW r, LinesOK(m, A, r), NEW n, Kept(m, n), Wired(n, {}, A)
    PROVE  LinesOK(n, A, r)
  BY DEF LinesOK, Kept

\* What only changes the controllers.
LEMMA LinesControllers ==
    ASSUME NEW m, NEW A, NEW r, LinesOK(m, A, r), NEW p, FabricOK(p), SameLines(m.ints, p)
    PROVE  LinesOK([m EXCEPT !.ints = p], A, r)
<1>1. PICK n : n = [m EXCEPT !.ints = p]
  OBVIOUS
<1>2. m \in Machines /\ p \in Fabrics
  BY DEF LinesOK, MachineOK, FabricOK
<1>3. n \in Machines /\ n.ints = p /\ n.drv = m.drv
  BY <1>1, <1>2 DEF Machines
<1>4. MachineOK(n)
  BY <1>3 DEF LinesOK, MachineOK, SameLines
<1>5. \A g : HeldBy(n, {}, g) = HeldBy(m, {}, g)
  BY <1>3 DEF SameLines, HeldBy, IntxOut, Holders, Active
<1>6. Wired(n, {}, A)
  BY <1>3, <1>5 DEF LinesOK, Wired, SameLines
<1> QED
  BY <1>1, <1>3, <1>4, <1>6 DEF LinesOK, SameLines

\* sync_pci_intx_sources_to_interrupts.
LEMMA SyncSourcesLines ==
    ASSUME wiring \in Wirings, NEW m, MachineOK(m), NEW A, Wired(m, {}, A), NEW c \in [Attached -> BOOLEAN]
    PROVE  /\ Kept(m, SyncSources(m, c)) /\ Wired(SyncSources(m, c), {}, A)
           /\ \A t \in Attached : SyncSources(m, c).drv[t] =
                 IF Kind(t) \in {"intx", "ide", "uart"}
                 THEN Noted("set", m.ints.generation, t, m.drv[t], c[t]) ELSE m.drv[t]
<1>1. PICK a : a = EachOf("intx", "set", m, c)
  OBVIOUS
<1>2. PICK b : b = EachOf("ide", "set", a, c)
  OBVIOUS
<1>3. PICK d : d = EachOf("uart", "set", b, c)
  OBVIOUS
<1>4. \A S : {} \ S = {}
  OBVIOUS
<1>5. /\ Kept(m, a) /\ Wired(a, {}, A)
      /\ NotedBy("intx", "set", m, c, a)
  BY <1>1, <1>4, EachOfSteps
<1>6. /\ Kept(a, b) /\ Wired(b, {}, A)
      /\ NotedBy("ide", "set", a, c, b)
  <2>1. MachineOK(a)
    BY <1>5 DEF Kept
  <2> QED
    BY <1>2, <1>4, <1>5, <2>1, EachOfSteps
<1>7. /\ Kept(b, d) /\ Wired(d, {}, A)
      /\ NotedBy("uart", "set", b, c, d)
  <2>1. MachineOK(b)
    BY <1>6 DEF Kept
  <2> QED
    BY <1>3, <1>4, <1>6, <2>1, EachOfSteps
<1> QED
  <2>1. d = SyncSources(m, c)
    BY <1>1, <1>2, <1>3 DEF SyncSources
  <2>2. Kept(m, d) /\ a.ints.generation = m.ints.generation /\ b.ints.generation = m.ints.generation
    BY <1>5, <1>6, <1>7 DEF Kept
  <2>3. \A t \in Attached : d.drv[t] = IF Kind(t) \in {"intx", "ide", "uart"}
            THEN Noted("set", m.ints.generation, t, m.drv[t], c[t]) ELSE m.drv[t]
    BY <1>5, <1>6, <1>7, <2>2 DEF NotedBy
  <2> QED
    BY <1>7, <2>1, <2>2, <2>3

\* load_state of the RTC, ACPI PM and the HPET.
LEMMA LoadDevicesLines ==
    ASSUME wiring \in Wirings, NEW m, MachineOK(m), NEW A, Wired(m, Of({"hpet"}), A),
           NEW c \in [Attached -> BOOLEAN]
    PROVE  /\ Kept(m, LoadDevices(m, c)) /\ Wired(LoadDevices(m, c), {}, A)
           /\ \A t \in Attached : LoadDevices(m, c).drv[t] =
                 IF Kind(t) \in {"rtc", "acpi", "hpet"}
                 THEN Noted("load", m.ints.generation, t, m.drv[t], c[t]) ELSE m.drv[t]
<1>1. PICK a : a = EachOf("rtc", "load", m, c)
  OBVIOUS
<1>2. PICK b : b = EachOf("acpi", "load", a, c)
  OBVIOUS
<1>3. PICK d : d = EachOf("hpet", "load", b, c)
  OBVIOUS
<1>4. PICK X : X = Of({"hpet"})
  OBVIOUS
<1>5. /\ X \ Of({"rtc"}) = X /\ X \ Of({"acpi"}) = X /\ X \ Of({"hpet"}) = {}
      /\ \A s \in Of({"rtc"}) : s \notin X
      /\ \A s \in Of({"acpi"}) : s \notin X
      /\ \A s \in Of({"hpet"}) : s \in X
  BY <1>4 DEF Of
<1>6. /\ Kept(m, a) /\ Wired(a, X, A)
      /\ NotedBy("rtc", "load", m, c, a)
  BY <1>1, <1>4, <1>5, EachOfSteps
<1>7. /\ Kept(a, b) /\ Wired(b, X, A)
      /\ NotedBy("acpi", "load", a, c, b)
  <2>1. MachineOK(a)
    BY <1>6 DEF Kept
  <2> QED
    BY <1>2, <1>5, <1>6, <2>1, EachOfSteps
<1>8. /\ Kept(b, d) /\ Wired(d, {}, A)
      /\ NotedBy("hpet", "load", b, c, d)
  <2>1. MachineOK(b)
    BY <1>7 DEF Kept
  <2> QED
    BY <1>3, <1>5, <1>7, <2>1, EachOfSteps
<1> QED
  <2>1. d = LoadDevices(m, c)
    BY <1>1, <1>2, <1>3 DEF LoadDevices
  <2>2. Kept(m, d) /\ a.ints.generation = m.ints.generation /\ b.ints.generation = m.ints.generation
    BY <1>6, <1>7, <1>8 DEF Kept
  <2>3. \A t \in Attached : d.drv[t] = IF Kind(t) \in {"rtc", "acpi", "hpet"}
            THEN Noted("load", m.ints.generation, t, m.drv[t], c[t]) ELSE m.drv[t]
    BY <1>6, <1>7, <1>8, <2>2 DEF NotedBy
  <2> QED
    BY <1>8, <2>1, <2>2, <2>3

\* A fabric that counts nothing, and devices that hold nothing.
LEMMA FreshWired ==
    ASSUME wiring \in Wirings, NEW m, \A g \in Gsis : m.ints.count[g] = 0,
           \A s \in Attached : ~m.drv[s].out \/ (Kind(s) = "acpi" /\ m.drv[s].gen # m.ints.generation)
    PROVE  Wired(m, {}, {})
<1> SUFFICES ASSUME NEW g \in Gsis
             PROVE  m.ints.count[g] = HeldBy(m, {}, g) + (IF g \in {} THEN 1 ELSE 0)
  BY DEF Wired
<1>1. Holders(m, {}, g) = {}
  BY DEF Holders, On, Active
<1>2. ~IntxOut(m, g)
  BY DEF IntxOut, Of
<1>3. Cardinality(Holders(m, {}, g)) = 0
  BY <1>1, FS_EmptySet
<1>4. HeldBy(m, {}, g) = 0
  BY <1>2, <1>3 DEF HeldBy
<1> QED
  BY <1>4

\* sync_levels_to_sink after a load: one assertion for each saved INTx line.
LEMMA LoadRouterLines ==
    ASSUME wiring \in Wirings, SavedOK(saved), saved # None, NEW m, MachineOK(m),
           \A g \in Gsis : m.ints.count[g] = 0,
           \A s \in Attached : m.drv[s].gen # m.ints.generation
    PROVE  MachineOK(LoadRouter(m)) /\ LoadRouter(m).ints.generation = m.ints.generation
           /\ LoadRouter(m).ints.baseline = m.ints.baseline
           /\ Wired(LoadRouter(m), Of({"hpet"}), {})
<1>1. /\ saved.intx \in [Attached -> BOOLEAN]
      /\ \A s \in Attached : saved.intx[s] => Kind(s) = "intx"
  BY DEF SavedOK
<1>2. PICK L : L = {g \in PciGsis : \E s \in On(g) : saved.intx[s]}
  OBVIOUS
<1>3. L \in SUBSET Gsis /\ PciGsis \ L \in SUBSET Gsis /\ PciGsis \subseteq Gsis
  BY <1>2 DEF PciGsis
<1>4. PICK p : p = m.ints
  OBVIOUS
<1>5. PICK q : q = RaiseIrq(p, L)
  OBVIOUS
<1>6. PICK r : r = LowerIrq(q, PciGsis \ L)
  OBVIOUS
<1>7. FabricOK(p) /\ p.generation = m.ints.generation /\ \A g \in Gsis : p.count[g] = 0
  BY <1>4 DEF MachineOK
<1>8. MaxCount # 0
  BY FabricAssumption
<1>9. /\ FabricOK(q) /\ q.generation = p.generation /\ q.baseline = p.baseline
      /\ \A g \in Gsis : q.count[g] = IF g \in L THEN 1 ELSE 0
  <2>1. /\ FabricOK(q) /\ q.generation = p.generation /\ q.baseline = p.baseline
        /\ \A g \in Gsis : g \notin L => q.count[g] = p.count[g]
        /\ \A g \in L : p.count[g] # MaxCount => q.count[g] = p.count[g] + 1
    BY <1>3, <1>5, <1>7, RaiseKeeps
  <2>2. \A g \in L : q.count[g] = 0 + 1
    BY <1>3, <1>7, <1>8, <2>1
  <2> QED
    BY <1>7, <2>1, <2>2
<1>10. /\ FabricOK(r) /\ r.generation = p.generation /\ r.baseline = p.baseline
       /\ \A g \in Gsis : r.count[g] = IF g \in L THEN 1 ELSE 0
  <2>1. /\ FabricOK(r) /\ r.generation = q.generation /\ r.baseline = q.baseline
        /\ \A g \in Gsis : g \notin PciGsis \ L => r.count[g] = q.count[g]
        /\ \A g \in PciGsis \ L : q.count[g] = 0 => r.count[g] = 0
    BY <1>3, <1>6, <1>9, LowerKeeps
  <2> QED
    BY <1>3, <1>9, <2>1
<1>11. PICK v : v = [s \in Attached |-> IF Kind(s) = "intx" THEN [m.drv[s] EXCEPT !.out = saved.intx[s]]
                                        ELSE m.drv[s]]
  OBVIOUS
<1>12. m.drv \in [Attached -> Drivers]
  BY DEF MachineOK, Machines
<1>13. /\ v \in [Attached -> Drivers]
       /\ \A s \in Attached : v[s].gen = m.drv[s].gen
       /\ \A s \in Attached : Kind(s) = "intx" => v[s].out = saved.intx[s]
  BY <1>1, <1>11, <1>12 DEF Drivers
<1>14. PICK n : n = [ints |-> r, drv |-> v]
  OBVIOUS
<1>15. LoadRouter(m) = n
  BY <1>2, <1>4, <1>5, <1>6, <1>11, <1>14 DEF LoadRouter
<1>16. n.ints = r /\ n.drv = v
  BY <1>14
<1>17. MachineOK(n)
  <2>1. r \in Fabrics
    BY <1>10 DEF FabricOK
  <2>2. n \in Machines
    BY <1>13, <1>14, <2>1 DEF Machines
  <2> QED
    BY <1>7, <1>10, <1>13, <1>16, <2>2 DEF MachineOK
<1>18. PICK X : X = Of({"hpet"})
  OBVIOUS
<1>19. ASSUME NEW g \in Gsis, On(g) \cap Of({"uart"}) = {}
       PROVE  n.ints.count[g] = HeldBy(n, X, g) + (IF g \in {} THEN 1 ELSE 0)
  <2>1. Holders(n, X, g) = {}
    <3> SUFFICES ASSUME NEW s \in On(g) \ Of({"intx"}), Active(n, X, s) PROVE FALSE
      BY DEF Holders
    <3>1. s \in Attached /\ Kind(s) # "intx" /\ Kind(s) # "uart"
      BY <1>19 DEF On, Of
    <3>2. Kind(s) # "hpet"
      BY <1>18, <3>1 DEF Active, Of
    <3>3. Kind(s) \in {"ide", "rtc", "acpi"}
      BY <3>1, <3>2, WiringFacts DEF Kinds
    <3> QED
      BY <1>7, <1>10, <1>13, <1>16, <3>1, <3>3 DEF Active
  <2>2. Cardinality(Holders(n, X, g)) = 0
    BY <2>1, FS_EmptySet
  <2>3. IntxOut(n, g) <=> g \in L
    <3>1. ASSUME IntxOut(n, g) PROVE g \in L
      <4>1. PICK s \in Of({"intx"}) \cap On(g) : n.drv[s].out
        BY <3>1 DEF IntxOut
      <4>2. s \in Attached /\ Kind(s) = "intx" /\ Gsi(s) = g /\ s \in On(g)
        BY <4>1 DEF Of, On
      <4>3. saved.intx[s] /\ g \in PciGsis
        BY <1>13, <1>16, <4>1, <4>2, WiringFacts
      <4> QED
        BY <1>2, <4>2, <4>3
    <3>2. ASSUME g \in L PROVE IntxOut(n, g)
      <4>1. PICK s \in On(g) : saved.intx[s]
        BY <1>2, <3>2
      <4>2. s \in Attached
        BY DEF On
      <4>3. Kind(s) = "intx" /\ s \in Of({"intx"})
        BY <1>1, <4>1, <4>2 DEF Of
      <4>4. n.drv[s].out
        BY <1>13, <1>16, <4>1, <4>2, <4>3
      <4> QED
        BY <4>3, <4>4 DEF IntxOut
    <3> QED
      BY <3>1, <3>2
  <2>4. HeldBy(n, X, g) = IF g \in L THEN 1 ELSE 0
    BY <2>2, <2>3 DEF HeldBy
  <2> QED
    BY <1>10, <1>16, <2>4
<1>20. Wired(n, X, {})
  BY <1>19 DEF Wired
<1> QED
  BY <1>4, <1>7, <1>10, <1>15, <1>16, <1>17, <1>18, <1>20

-----------------------------------------------------------------------------
(* What the devices that drive their lines by themselves hold *)

\* Only ACPI PM may fail to claim, in load_state, the assertion it has; the
\* line then is left an anonymous one.
AtOnce(m, c, A, s) ==
    /\ Kind(s) = "hpet" => (m.drv[s].out <=> c[s])
    /\ Kind(s) \in {"rtc", "acpi"} =>
          /\ m.drv[s].cache <=> c[s]
          /\ (Active(m, {}, s) <=> c[s]) \/ (Kind(s) = "acpi" /\ Gsi(s) \in A)

SettledOK(m, c, A) == \A s \in Attached : AtOnce(m, c, A, s)

LEMMA SettledPrimed ==
    ASSUME wiring' = wiring, NEW m, m \in Machines, Becomes(m), NEW c, cond' = c, NEW A, adopted' = A,
           SettledOK(m, c, A)
    PROVE  SettledOK(Now, cond, adopted)'
<1>1. Now' = m
  <2>1. m = [ints |-> m.ints, drv |-> m.drv]
    BY DEF Machines
  <2> QED
    BY <2>1 DEF Now, Becomes
<1> QED
  BY <1>1 DEF SettledOK, AtOnce, Active, Attached, Gsi, Kind

LEMMA SettledSame ==
    ASSUME NEW m, NEW c, NEW A, SettledOK(m, c, A), NEW n, n.ints.generation = m.ints.generation,
           \A s \in Attached : Kind(s) \in {"hpet", "rtc", "acpi"} => n.drv[s] = m.drv[s]
    PROVE  SettledOK(n, c, A)
  BY DEF SettledOK, AtOnce, Active

\* The memory of such a device after it was set or loaded.
AfterNote(n, s, how, d, level) ==
    LET claims == d.cache # level \/ (Kind(s) = "rtc" /\ how # "set")
    IN  /\ Kind(s) = "hpet" => (n.drv[s].out <=> level)
        /\ Kind(s) \in {"rtc", "acpi"} => (n.drv[s].cache <=> level)
        /\ Kind(s) \in {"rtc", "acpi"} /\ claims => (Active(n, {}, s) <=> level)
        /\ Kind(s) \in {"rtc", "acpi"} /\ ~claims => n.drv[s] = d

LEMMA NotedSettles ==
    ASSUME NEW s \in Attached, Kind(s) \in {"hpet", "rtc", "acpi"}, NEW how, NEW d \in Drivers,
           NEW level \in BOOLEAN, NEW n, n.drv[s] = Noted(how, n.ints.generation, s, d, level)
    PROVE  AfterNote(n, s, how, d, level)
<1>1. CASE Kind(s) = "hpet"
  <2>1. n.drv[s] = [d EXCEPT !.out = level]
    BY <1>1 DEF Noted
  <2>2. n.drv[s].out = level
    BY <2>1 DEF Drivers
  <2> QED
    BY <1>1, <2>2 DEF AfterNote
<1>2. CASE Kind(s) \in {"rtc", "acpi"} /\ (d.cache # level \/ (Kind(s) = "rtc" /\ how # "set"))
  <2>1. n.drv[s] = [out |-> level, gen |-> n.ints.generation, cache |-> level]
    BY <1>2 DEF Noted
  <2>2. n.drv[s].out = level /\ n.drv[s].gen = n.ints.generation /\ n.drv[s].cache = level
    BY <2>1
  <2> QED
    BY <1>2, <2>2 DEF Active, AfterNote
<1>3. CASE Kind(s) \in {"rtc", "acpi"} /\ ~(d.cache # level \/ (Kind(s) = "rtc" /\ how # "set"))
  <2>1. n.drv[s] = d
    BY <1>3 DEF Noted
  <2> QED
    BY <1>3, <2>1 DEF AfterNote
<1> QED
  BY <1>1, <1>2, <1>3

\* No other device is on the line of the SCI.  The machine wires ISA interrupt 9
\* to the ACPI PM block alone and the PCI functions to GSIs 10 to 13; the guest
\* could route an HPET timer there, which this excludes.
SciAlone ==
    \A w \in Wirings : \A s, t \in DOMAIN w : w[s].kind = "acpi" /\ w[s].gsi = w[t].gsi => s = t

LEMMA AloneOnLine ==
    ASSUME SciAlone, wiring \in Wirings, NEW s \in Attached, Kind(s) = "acpi"
    PROVE  /\ On(Gsi(s)) = {s} /\ On(Gsi(s)) \cap Of({"uart"}) = {}
           /\ \A m : ~IntxOut(m, Gsi(s))
<1>1. On(Gsi(s)) = {s}
  BY DEF SciAlone, On, Attached, Kind, Gsi
<1>2. s \notin Of({"uart"}) /\ s \notin Of({"intx"})
  BY DEF Of
<1> QED
  BY <1>1, <1>2 DEF IntxOut

\* A snapshot holds the line up for an SCI that is pending.
SavedLevels(v) ==
    v # None => \A s \in Attached : Kind(s) = "acpi" /\ v.cond[s] => v.ints.level[Gsi(s)]

LEMMA NowFacts ==
    ASSUME IInv
    PROVE  /\ Now.ints = ints /\ Now.drv = drv /\ MachineOK(Now) /\ Wired(Now, {}, adopted)
           /\ FabricOK(ints) /\ wiring \in Wirings /\ LinesOK(Now, adopted, resets + restores)
           /\ cond \in [Attached -> BOOLEAN] /\ ints.generation = resets + restores
           /\ resets \in Nat /\ restores \in Nat /\ SavedOK(saved)
           /\ \A g \in Gsis : ~ints.baseline[g]
<1>1. Now.ints = ints /\ Now.drv = drv
  BY DEF Now
<1>2. LinesOK(Now, adopted, resets + restores) /\ MachineOK(Now) /\ Wired(Now, {}, adopted)
  BY DEF IInv, LinesOK
<1>3. FabricOK(ints)
  BY <1>1, <1>2 DEF MachineOK
<1>4. ints.generation = resets + restores /\ \A g \in Gsis : ~ints.baseline[g]
  BY <1>1, <1>2 DEF LinesOK
<1>5. resets \in Nat /\ restores \in Nat /\ wiring \in Wirings /\ cond \in [Attached -> BOOLEAN] /\ SavedOK(saved)
  BY DEF IInv
<1> QED
  BY <1>1, <1>2, <1>3, <1>4, <1>5

LEMMA HoldsUp ==
    ASSUME SciAlone, IInv, SettledOK(Now, cond, adopted), NEW s \in Attached, Kind(s) = "acpi", cond[s]
    PROVE  ints.level[Gsi(s)]
<1>1. PICK m : m = Now
  OBVIOUS
<1>2. PICK g : g = Gsi(s)
  OBVIOUS
<1>3. /\ wiring \in Wirings /\ m.ints = ints /\ FabricOK(ints) /\ Wired(m, {}, adopted)
      /\ AtOnce(m, cond, adopted, s) /\ g \in Gsis
  BY <1>1, <1>2, NowFacts, WiringFacts DEF SettledOK
<1>4. On(g) = {s} /\ On(g) \cap Of({"uart"}) = {} /\ ~IntxOut(m, g)
  BY <1>2, <1>3, AloneOnLine
<1>5. ints.count[g] = HeldBy(m, {}, g) + (IF g \in adopted THEN 1 ELSE 0)
  BY <1>3, <1>4 DEF Wired
<1>6. Active(m, {}, s) \/ g \in adopted
  BY <1>2, <1>3 DEF AtOnce
<1>7. Cardinality(Holders(m, {}, g)) \in Nat /\ HeldBy(m, {}, g) = Cardinality(Holders(m, {}, g))
  <2>1. Cardinality(Holders(m, {}, g)) \in Nat
    BY <1>3, HoldersFacts
  <2> QED
    BY <1>4, <2>1 DEF HeldBy
<1>8. ints.count[g] > 0
  <2>1. CASE g \in adopted
    BY <1>5, <1>7, <2>1
  <2>2. CASE Active(m, {}, s)
    <3>1. s \in Holders(m, {}, g)
      BY <1>4, <2>2 DEF Holders, Of
    <3>2. Cardinality(Holders(m, {}, g)) # 0
      BY <1>3, <3>1, HoldersFacts, FS_EmptySet
    <3> QED
      BY <1>5, <1>7, <3>2
  <2> QED
    BY <1>6, <2>1, <2>2
<1>9. Counted(ints, g)
  BY <1>3 DEF FabricOK
<1> QED
  BY <1>2, <1>8, <1>9 DEF Counted

\* After a poll every device holds its condition, and nothing else.
LEMMA PollSettles ==
    ASSUME IInv, SettledOK(Now, cond, adopted)
    PROVE  PollSettlesLine
<1>1. PICK m : m = Now
  OBVIOUS
<1>2. PICK A : A = adopted
  OBVIOUS
<1>3. PICK c : c = cond
  OBVIOUS
<1>4. /\ MachineOK(m) /\ Wired(m, {}, A) /\ wiring \in Wirings /\ c \in [Attached -> BOOLEAN]
      /\ m.ints = ints /\ SettledOK(m, c, A) /\ \A g \in Gsis : ~ints.baseline[g]
  BY <1>1, <1>2, <1>3, NowFacts
<1>5. PICK n : n = SyncSources(m, c)
  OBVIOUS
<1>6. /\ Kept(m, n) /\ Wired(n, {}, A)
      /\ \A t \in Attached : n.drv[t] =
            IF Kind(t) \in {"intx", "ide", "uart"}
            THEN Noted("set", m.ints.generation, t, m.drv[t], c[t]) ELSE m.drv[t]
  BY <1>4, <1>5, SyncSourcesLines
<1>7. /\ n.ints.generation = m.ints.generation /\ n.ints.baseline = ints.baseline /\ FabricOK(n.ints)
      /\ m.drv \in [Attached -> Drivers]
  BY <1>4, <1>6 DEF Kept, MachineOK, Machines
<1>8. ASSUME NEW s \in Attached, Kind(s) = "intx"
      PROVE  n.drv[s].out <=> c[s]
  <2>1. m.drv[s] \in Drivers /\ n.drv[s] = [m.drv[s] EXCEPT !.out = c[s]]
    BY <1>6, <1>7, <1>8 DEF Noted
  <2> QED
    BY <2>1 DEF Drivers
<1>9. ASSUME NEW s \in Attached, Kind(s) = "ide"
      PROVE  Active(n, {}, s) <=> c[s]
  <2>1. n.drv[s] = [out |-> c[s], gen |-> m.ints.generation, cache |-> m.drv[s].cache]
    BY <1>6, <1>9 DEF Noted
  <2>2. n.drv[s].out = c[s] /\ n.drv[s].gen = n.ints.generation
    BY <1>7, <2>1
  <2> QED
    BY <2>2 DEF Active
<1>10. ASSUME NEW s \in Attached, Kind(s) \in {"hpet", "rtc", "acpi"}, Gsi(s) \notin A
       PROVE  Active(n, {}, s) <=> c[s]
  <2>1. n.drv[s] = m.drv[s] /\ AtOnce(m, c, A, s)
    BY <1>4, <1>6, <1>10 DEF SettledOK
  <2>2. CASE Kind(s) = "hpet"
    BY <2>1, <2>2 DEF AtOnce, Active
  <2>3. CASE Kind(s) \in {"rtc", "acpi"}
    BY <1>7, <1>10, <2>1, <2>3 DEF AtOnce, Active
  <2> QED
    BY <1>10, <2>2, <2>3
<1>11. ASSUME NEW g \in Gsis \ A, On(g) \cap Of({"uart"}) = {}
       PROVE  n.ints.level[g] = (\E s \in On(g) : c[s])
  <2>1. n.ints.count[g] = HeldBy(n, {}, g) + 0
    BY <1>6, <1>11 DEF Wired
  <2>2. PICK k : k = Cardinality(Holders(n, {}, g))
    OBVIOUS
  <2>3. k \in Nat /\ (k = 0 <=> Holders(n, {}, g) = {})
    BY <1>4, <2>2, HoldersFacts, FS_EmptySet
  <2>4. n.ints.count[g] > 0 <=> IntxOut(n, g) \/ Holders(n, {}, g) # {}
    BY <2>1, <2>2, <2>3 DEF HeldBy
  <2>5. n.ints.level[g] \in BOOLEAN /\ (n.ints.level[g] <=> n.ints.count[g] > 0)
    BY <1>4, <1>7 DEF FabricOK, Fabrics, Counted
  <2>6. \A s \in On(g) : s \in Attached /\ Gsi(s) = g /\ Kind(s) \in Kinds /\ Kind(s) # "uart"
    BY <1>4, <1>11, WiringFacts DEF On, Of
  <2>7. ASSUME NEW s \in On(g), c[s] PROVE IntxOut(n, g) \/ Holders(n, {}, g) # {}
    <3>1. CASE Kind(s) = "intx"
      BY <1>8, <2>6, <2>7, <3>1 DEF IntxOut, Of
    <3>2. CASE Kind(s) # "intx"
      <4>1. Active(n, {}, s)
        BY <1>9, <1>10, <1>11, <2>6, <2>7, <3>2 DEF Kinds
      <4> QED
        BY <3>2, <4>1 DEF Holders, Of
    <3> QED
      BY <3>1, <3>2
  <2>8. ASSUME IntxOut(n, g) \/ Holders(n, {}, g) # {} PROVE \E s \in On(g) : c[s]
    <3>1. CASE IntxOut(n, g)
      BY <1>8, <2>6, <3>1 DEF IntxOut, Of
    <3>2. CASE Holders(n, {}, g) # {}
      <4>1. PICK s \in On(g) \ Of({"intx"}) : Active(n, {}, s)
        BY <3>2 DEF Holders
      <4>2. Kind(s) # "intx"
        BY <2>6, <4>1 DEF Of
      <4> QED
        BY <1>9, <1>10, <1>11, <2>6, <4>1, <4>2 DEF Kinds
    <3> QED
      BY <2>8, <3>1, <3>2
  <2>9. n.ints.level[g] <=> \E s \in On(g) : c[s]
    BY <2>4, <2>5, <2>7, <2>8
  <2> QED
    BY <2>5, <2>9
<1> QED
  BY <1>1, <1>2, <1>3, <1>5, <1>11 DEF PollSettlesLine

-----------------------------------------------------------------------------
(* The actions *)

\* A step that leaves the snapshot, the anonymous assertions and the
\* generations alone.
LEMMA PlainStep ==
    ASSUME IInv, UNCHANGED <<wiring, saved, adopted, resets, restores>>,
           NEW m, Becomes(m), LinesOK(m, adopted, resets + restores), cond' \in [Attached -> BOOLEAN]
    PROVE  IInv'
<1>1. PICK A : A = adopted
  OBVIOUS
<1>2. PICK r : r = resets
  OBVIOUS
<1>3. PICK q : q = restores
  OBVIOUS
<1>4. PICK c : c = cond'
  OBVIOUS
<1>5. PICK v : v = saved
  OBVIOUS
<1>6. /\ wiring \in Wirings /\ SavedOK(v) /\ r \in 0 .. MaxResets /\ q \in 0 .. MaxRestores
      /\ LinesOK(m, A, r + q)
  BY <1>1, <1>2, <1>3, <1>5 DEF IInv
<1>7. adopted' = A /\ resets' = r /\ restores' = q /\ saved' = v /\ wiring' = wiring
  BY <1>1, <1>2, <1>3, <1>5
<1> QED
  BY <1>4, <1>6, <1>7, InvPrimed

LEMMA SetConditionInv ==
    ASSUME IInv, NEW s \in Attached, NEW level \in BOOLEAN, SetCondition(s, level)
    PROVE  IInv'
<1>1. PICK m : m = Now
  OBVIOUS
<1>2. PICK A : A = adopted
  OBVIOUS
<1>3. MachineOK(m) /\ Wired(m, {}, A) /\ LinesOK(m, A, resets + restores) /\ wiring \in Wirings
  BY <1>1, <1>2, NowFacts
<1>4. PICK n : n = IF Kind(s) \in {"hpet", "rtc", "acpi"} THEN SetSource(m, s, level) ELSE m
  OBVIOUS
<1>5. LinesOK(n, A, resets + restores)
  <2>1. CASE n = m
    BY <1>3, <2>1
  <2>2. CASE n = SetSource(m, s, level)
    <3>1. n = OneOf(Kind(s), "set", m, s, level)
      BY <2>2 DEF OneOf
    <3>2. Kind(s) = "hpet" /\ "set" # "set" <=> s \in {}
      OBVIOUS
    <3>3. PICK kind : kind = Kind(s)
      OBVIOUS
    <3>4. Steps(m, OneOf(kind, "set", m, s, level), {}, A, s)
      BY <1>3, <3>2, <3>3, OneOfSteps
    <3>5. Kept(m, n) /\ Wired(n, {} \ {s}, A)
      BY <3>1, <3>3, <3>4 DEF Steps
    <3>6. {} \ {s} = {}
      OBVIOUS
    <3> QED
      BY <1>3, <3>5, <3>6, LinesStep
  <2> QED
    BY <1>4, <2>1, <2>2
<1>6. Becomes(n)
  BY <1>1, <1>4 DEF SetCondition
<1>7. cond' \in [Attached -> BOOLEAN]
  BY NowFacts DEF SetCondition
<1>8. UNCHANGED <<wiring, saved, adopted, resets, restores>>
  BY DEF SetCondition
<1> QED
  BY <1>2, <1>5, <1>6, <1>7, <1>8, PlainStep

LEMMA SyncNow ==
    ASSUME IInv
    PROVE  LinesOK(SyncSources(Now, cond), adopted, resets + restores)
<1>1. PICK m : m = Now
  OBVIOUS
<1>2. PICK A : A = adopted
  OBVIOUS
<1>3. PICK c : c = cond
  OBVIOUS
<1>4. /\ MachineOK(m) /\ Wired(m, {}, A) /\ LinesOK(m, A, resets + restores) /\ wiring \in Wirings
      /\ c \in [Attached -> BOOLEAN]
  BY <1>1, <1>2, <1>3, NowFacts
<1>5. Kept(m, SyncSources(m, c)) /\ Wired(SyncSources(m, c), {}, A)
  BY <1>4, SyncSourcesLines
<1>6. LinesOK(SyncSources(m, c), A, resets + restores)
  BY <1>4, <1>5, LinesStep
<1> QED
  BY <1>1, <1>2, <1>3, <1>6

LEMMA PollSourcesInv ==
    ASSUME IInv, PollSources
    PROVE  IInv'
<1>1. PICK n : n = SyncSources(Now, cond)
  OBVIOUS
<1>2. LinesOK(n, adopted, resets + restores)
  BY <1>1, SyncNow
<1>3. Becomes(n) /\ UNCHANGED <<wiring, cond, saved, adopted, resets, restores>>
  BY <1>1 DEF PollSources
<1>4. cond' \in [Attached -> BOOLEAN]
  BY <1>3, NowFacts
<1> QED
  BY <1>2, <1>3, <1>4, PlainStep

LEMMA AckKeeps ==
    ASSUME NEW p, FabricOK(p), NEW c \in Cpus, NEW g \in Pending(p, c)
    PROVE  FabricOK(Ack(p, c, g)) /\ SameLines(p, Ack(p, c, g))
<1>1. g \in Gsis
  <2>1. p.irr \in [Cpus -> SUBSET Gsis] /\ p.picIrr \in SUBSET Gsis
    BY DEF FabricOK, Fabrics
  <2> QED
    BY <2>1 DEF Pending, LapicPending, PicPending
<1>2. CASE p.mode = "apic"
  BY <1>1, <1>2, LapicAckKeeps DEF Ack
<1>3. CASE p.mode # "apic"
  BY <1>1, <1>3, PicAckKeeps DEF Ack
<1> QED
  BY <1>2, <1>3

LEMMA PollAndAckInv ==
    ASSUME IInv, NEW c \in Cpus, PollAndAck(c)
    PROVE  IInv'
<1>1. PICK m : m = IF c = 0 THEN SyncSources(Now, cond) ELSE Now
  OBVIOUS
<1>2. LinesOK(m, adopted, resets + restores)
  BY <1>1, SyncNow, NowFacts
<1>3. PICK g \in Pending(m.ints, c) : Becomes([m EXCEPT !.ints = Ack(@, c, g)])
  BY <1>1 DEF PollAndAck
<1>4. PICK p : p = Ack(m.ints, c, g)
  OBVIOUS
<1>5. FabricOK(m.ints)
  BY <1>2 DEF LinesOK, MachineOK
<1>6. FabricOK(p) /\ SameLines(m.ints, p)
  BY <1>3, <1>4, <1>5, AckKeeps
<1>7. PICK n : n = [m EXCEPT !.ints = p]
  OBVIOUS
<1>8. LinesOK(n, adopted, resets + restores)
  <2>1. PICK A : A = adopted
    OBVIOUS
  <2>2. PICK r : r = resets + restores
    OBVIOUS
  <2> QED
    BY <1>2, <1>6, <1>7, <2>1, <2>2, LinesControllers
<1>9. Becomes(n)
  BY <1>3, <1>4, <1>7
<1>10. UNCHANGED <<wiring, cond, saved, adopted, resets, restores>>
  BY DEF PollAndAck
<1>11. cond' \in [Attached -> BOOLEAN]
  BY <1>10, NowFacts
<1> QED
  BY <1>8, <1>9, <1>10, <1>11, PlainStep

LEMMA ControllersInv ==
    ASSUME IInv, NEW p, Controllers(p), FabricOK(p), SameLines(ints, p)
    PROVE  IInv'
<1>1. PICK m : m = Now
  OBVIOUS
<1>2. PICK A : A = adopted
  OBVIOUS
<1>3. PICK r : r = resets + restores
  OBVIOUS
<1>4. m.ints = ints /\ m.drv = drv /\ LinesOK(m, A, r)
  BY <1>1, <1>2, <1>3, NowFacts
<1>5. PICK n : n = [m EXCEPT !.ints = p]
  OBVIOUS
<1>6. LinesOK(n, A, r)
  BY <1>4, <1>5, LinesControllers
<1>7. n.ints = p /\ n.drv = drv
  BY <1>1, <1>5 DEF Now
<1>8. ints' = p /\ UNCHANGED <<wiring, cond, drv, saved, adopted, resets, restores>>
  BY DEF Controllers
<1>9. Becomes(n)
  BY <1>7, <1>8 DEF Becomes
<1>10. cond' \in [Attached -> BOOLEAN]
  BY <1>8, NowFacts
<1> QED
  BY <1>2, <1>3, <1>6, <1>8, <1>9, <1>10, PlainStep

\* Whatever the guest does to the controllers leaves the lines alone.
LEMMA GuestSteps ==
    ASSUME IInv, Guest
    PROVE  \E p : Controllers(p) /\ FabricOK(p) /\ SameLines(ints, p)
<1> DEFINE Goal == \E p : Controllers(p) /\ FabricOK(p) /\ SameLines(ints, p)
<1>1. FabricOK(ints) /\ wiring \in Wirings
  BY NowFacts
<1>2. ASSUME NEW c \in Cpus, GuestLapicEoi(c) PROVE Goal
  <2>1. Controllers(LapicEoi(ints, c))
    BY <1>2 DEF GuestLapicEoi
  <2> QED
    BY <1>1, <2>1, LapicEoiKeeps
<1>3. ASSUME NEW g \in Gsis, GuestPicEoi(g) PROVE Goal
  <2>1. Controllers(PicEoi(ints, g))
    BY <1>3 DEF GuestPicEoi
  <2> QED
    BY <1>1, <2>1, PicEoiKeeps
<1>4. ASSUME NEW s \in Attached, NEW masked \in BOOLEAN, NEW dest \in Cpus,
             GuestWritesEntry(s, masked, dest)
      PROVE  Goal
  <2>1. PICK trigger : trigger = wiring[s].trigger
    OBVIOUS
  <2>2. PICK g : g = Gsi(s)
    OBVIOUS
  <2>3. Controllers(WriteEntry(ints, g, masked, trigger, dest))
    BY <1>4, <2>1, <2>2 DEF GuestWritesEntry
  <2>4. g \in Gsis /\ trigger \in {"edge", "level"}
    BY <1>1, <2>1, <2>2, WiringFacts
  <2>5. (\A t \in On(g) : wiring[t].trigger = trigger) /\ On(g) # {}
    BY <1>1, <2>1, <2>2, WiringFacts DEF On
  <2>6. PICK p : p = WriteEntry(ints, g, masked, trigger, dest)
    OBVIOUS
  <2>7. FabricOK(p) /\ SameLines(ints, p)
    BY <1>1, <2>4, <2>5, <2>6, WriteEntryKeeps
  <2> QED
    BY <2>3, <2>6, <2>7
<1>5. ASSUME GuestUnmasksPic PROVE Goal
  <2>1. Controllers(PicWriteMask(ints, {})) /\ {} \in SUBSET Gsis
    BY <1>5 DEF GuestUnmasksPic
  <2> QED
    BY <1>1, <2>1, PicWriteMaskKeeps
<1>6. ASSUME GuestInitialisesPic PROVE Goal
  <2>1. Controllers(PicInit(ints))
    BY <1>6 DEF GuestInitialisesPic
  <2> QED
    BY <1>1, <2>1, PicInitKeeps
<1>7. ASSUME NEW mode \in {"pic", "apic"}, GuestWritesImcr(mode) PROVE Goal
  <2>1. Controllers(SetMode(ints, mode))
    BY <1>7 DEF GuestWritesImcr
  <2>2. FabricOK(SetMode(ints, mode))
    BY <1>1, SetModeKeeps
  <2>3. SameLines(ints, SetMode(ints, mode))
    BY <1>1, SetModeKeeps DEF SameLines
  <2> QED
    BY <1>1, <2>1, <2>2, <2>3
<1> QED
  BY <1>2, <1>3, <1>4, <1>5, <1>6, <1>7 DEF Guest

LEMMA GuestInv ==
    ASSUME IInv, Guest
    PROVE  IInv'
  BY GuestSteps, ControllersInv

\* Machine::reset: no device holds an assertion of the new generation.
LEMMA ResetMachineInv ==
    ASSUME IInv, ResetMachine
    PROVE  IInv' /\ SettledOK(Now, cond, adopted)'
<1>1. /\ FabricOK(ints) /\ wiring \in Wirings /\ ints.generation = resets + restores
      /\ resets \in Nat /\ restores \in Nat /\ SavedOK(saved)
      /\ drv \in [Attached -> Drivers] /\ \A s \in Attached : drv[s].gen <= ints.generation
  BY NowFacts DEF MachineOK, Machines
<1>2. PICK g : g = ints.generation + 1
  OBVIOUS
<1>3. g \in Nat /\ g = (resets + 1) + restores /\ \A s \in Attached : drv[s].gen < g
  <2>1. \A s \in Attached : drv[s].gen \in Nat
    BY <1>1 DEF Drivers
  <2> QED
    BY <1>1, <1>2, <2>1
<1>4. PICK p : p = ResetFabric(g)
  OBVIOUS
<1>5. FabricOK(p) /\ p.generation = g /\ \A h \in Gsis : ~p.baseline[h] /\ p.count[h] = 0
  BY <1>3, <1>4, ResetFabricOK
<1>6. PICK fresh : fresh = [out |-> FALSE, gen |-> g, cache |-> FALSE]
  OBVIOUS
<1>7. fresh \in Drivers /\ fresh.out = FALSE /\ fresh.gen = g
  BY <1>3, <1>6 DEF Drivers
<1>8. PICK v : v = [s \in Attached |-> IF Kind(s) = "acpi" THEN drv[s] ELSE fresh]
  OBVIOUS
<1>9. /\ v \in [Attached -> Drivers]
      /\ \A s \in Attached : v[s].gen <= g
      /\ \A s \in Attached : ~v[s].out \/ (Kind(s) = "acpi" /\ v[s].gen # g)
  <2>1. v \in [Attached -> Drivers] /\ \A s \in Attached : v[s] = IF Kind(s) = "acpi" THEN drv[s] ELSE fresh
    BY <1>1, <1>7, <1>8
  <2>2. \A s \in Attached : drv[s].gen \in Nat
    BY <1>1 DEF Drivers
  <2>3. \A s \in Attached : drv[s].gen <= g /\ drv[s].gen # g
    BY <1>3, <2>2
  <2> QED
    BY <1>3, <1>7, <2>1, <2>3
<1>10. PICK m : m = [ints |-> p, drv |-> v]
  OBVIOUS
<1>11. m.ints = p /\ m.drv = v
  BY <1>10
<1>12. MachineOK(m)
  <2>1. p \in Fabrics
    BY <1>5 DEF FabricOK
  <2>2. m \in Machines
    BY <1>9, <1>10, <2>1 DEF Machines
  <2> QED
    BY <1>5, <1>9, <1>11, <2>2 DEF MachineOK
<1>13. Wired(m, {}, {})
  BY <1>1, <1>5, <1>9, <1>11, FreshWired
<1>14. PICK c : c = [s \in Attached |-> FALSE]
  OBVIOUS
<1>15. c \in [Attached -> BOOLEAN]
  BY <1>14
<1>16. PICK n : n = EachOf("acpi", "set", m, c)
  OBVIOUS
<1>17. Kept(m, n) /\ Wired(n, {}, {}) /\ NotedBy("acpi", "set", m, c, n)
  <2>1. {} \ Of({"acpi"}) = {}
    OBVIOUS
  <2> QED
    BY <1>1, <1>12, <1>13, <1>15, <1>16, <2>1, EachOfSteps
<1>18. PICK r : r = resets + 1
  OBVIOUS
<1>19. PICK q : q = restores
  OBVIOUS
<1>20. LinesOK(n, {}, r + q)
  <2>1. n.ints.generation = r + q /\ n.ints.baseline = p.baseline
    BY <1>3, <1>5, <1>11, <1>17, <1>18, <1>19 DEF Kept
  <2>2. MachineOK(n) /\ {} \in SUBSET Gsis
    BY <1>17 DEF Kept
  <2> QED
    BY <1>5, <1>17, <2>1, <2>2 DEF LinesOK
<1>21. /\ Becomes(n) /\ cond' = c /\ adopted' = {} /\ resets < MaxResets /\ resets' = r
       /\ UNCHANGED <<wiring, saved, switches, restores>>
  <2>1. ResetFabric(ints.generation + 1) = p /\ p.generation = g
    BY <1>2, <1>4, <1>5
  <2> QED
    BY <1>6, <1>8, <1>10, <1>14, <1>16, <1>18, <2>1 DEF ResetMachine
<1>22. r \in 0 .. MaxResets /\ q \in 0 .. MaxRestores
  <2>1. MaxResets \in Nat
    BY MachineAssumption
  <2> QED
    BY <1>1, <1>18, <1>19, <1>21, <2>1 DEF IInv
<1>23. PICK o : o = saved
  OBVIOUS
<1>24. PICK A : A = {}
  OBVIOUS
<1>25. /\ SavedOK(o) /\ saved' = o /\ adopted' = A /\ LinesOK(n, A, r + q) /\ restores' = q
       /\ wiring' = wiring
  BY <1>1, <1>19, <1>20, <1>21, <1>23, <1>24
<1>26. IInv'
  BY <1>1, <1>15, <1>21, <1>22, <1>25, InvPrimed
<1>27. ASSUME NEW s \in Attached PROVE AtOnce(n, c, A, s)
  <2>1. ~c[s] /\ v[s] \in Drivers
    BY <1>9, <1>14
  <2>2. n.ints.generation = g /\ m.ints.generation = g
    BY <1>5, <1>11, <1>17 DEF Kept
  <2>3. CASE Kind(s) = "acpi"
    <3>1. n.drv[s] = Noted("set", n.ints.generation, s, v[s], c[s])
      BY <1>11, <1>17, <2>2, <2>3 DEF NotedBy
    <3>2. /\ n.drv[s].cache <=> c[s]
          /\ (Active(n, {}, s) <=> c[s]) \/ n.drv[s] = v[s]
      <4>1. c[s] \in BOOLEAN
        BY <1>15
      <4>2. AfterNote(n, s, "set", v[s], c[s])
        BY <2>1, <2>3, <3>1, <4>1, NotedSettles
      <4> QED
        BY <2>3, <4>2 DEF AfterNote
    <3>3. n.drv[s] = v[s] => ~Active(n, {}, s)
      BY <1>9, <2>2, <2>3 DEF Active
    <3> QED
      BY <2>1, <2>3, <3>2, <3>3 DEF AtOnce
  <2>4. CASE Kind(s) # "acpi"
    <3>1. n.drv[s] = fresh
      BY <1>8, <1>11, <1>17, <2>4 DEF NotedBy
    <3>2. ~n.drv[s].out /\ ~n.drv[s].cache
      BY <1>6, <3>1
    <3> QED
      BY <2>1, <2>4, <3>2 DEF AtOnce, Active
  <2> QED
    BY <2>3, <2>4
<1>28. n \in Machines
  BY <1>17 DEF Kept, MachineOK
<1>29. SettledOK(Now, cond, adopted)'
  BY <1>21, <1>25, <1>27, <1>28, SettledPrimed DEF SettledOK
<1> QED
  BY <1>26, <1>29

LEMMA SaveSnapshotInv ==
    ASSUME IInv, SaveSnapshot
    PROVE  IInv'
<1>1. PICK v : v = [ints |-> ints, cond |-> cond, intx |-> [s \in Attached |-> Kind(s) = "intx" /\ drv[s].out]]
  OBVIOUS
<1>2. /\ FabricOK(ints) /\ cond \in [Attached -> BOOLEAN] /\ wiring \in Wirings
      /\ LinesOK(Now, adopted, resets + restores)
  BY NowFacts
<1>3. v.ints = ints /\ v.cond = cond
      /\ v.intx \in [Attached -> BOOLEAN]
      /\ \A s \in Attached : v.intx[s] => Kind(s) = "intx"
  <2>1. PICK w : w = [s \in Attached |-> Kind(s) = "intx" /\ drv[s].out]
    OBVIOUS
  <2>2. w \in [Attached -> BOOLEAN] /\ \A s \in Attached : w[s] => Kind(s) = "intx"
    BY <2>1
  <2>3. v.ints = ints /\ v.cond = cond /\ v.intx = w
    BY <1>1, <2>1
  <2> QED
    BY <2>2, <2>3
<1>4. SavedOK(v)
  BY <1>2, <1>3 DEF SavedOK
<1>5. PICK m : m = Now
  OBVIOUS
<1>6. PICK A : A = adopted
  OBVIOUS
<1>7. PICK r : r = resets
  OBVIOUS
<1>8. PICK q : q = restores
  OBVIOUS
<1>9. PICK c : c = cond
  OBVIOUS
<1>10. saved' = v /\ UNCHANGED <<wiring, cond, drv, ints, adopted, resets, restores>>
  BY <1>1 DEF SaveSnapshot
<1>11. Becomes(m)
  BY <1>5, <1>10 DEF Becomes, Now
<1>12. adopted' = A /\ resets' = r /\ restores' = q /\ cond' = c /\ wiring' = wiring
  BY <1>6, <1>7, <1>8, <1>9, <1>10
<1>13. LinesOK(m, A, r + q) /\ c \in [Attached -> BOOLEAN] /\ r \in 0 .. MaxResets /\ q \in 0 .. MaxRestores
  BY <1>2, <1>5, <1>6, <1>7, <1>8, <1>9 DEF IInv
<1> QED
  BY <1>2, <1>4, <1>10, <1>11, <1>12, <1>13, InvPrimed

\* restore_device_states: each step counts what its devices hold, and what
\* nobody claims at the end is the anonymous assertion.
LEMMA RestoreSnapshotInv ==
    ASSUME IInv, RestoreSnapshot
    PROVE  /\ IInv'
           /\ SciAlone /\ SavedLevels(saved) => SettledOK(Now, cond, adopted)'
<1>1. /\ FabricOK(ints) /\ wiring \in Wirings /\ ints.generation = resets + restores
      /\ resets \in Nat /\ restores \in Nat /\ SavedOK(saved)
      /\ drv \in [Attached -> Drivers] /\ \A s \in Attached : drv[s].gen <= ints.generation
  BY NowFacts DEF MachineOK, Machines
<1>2. saved # None /\ FabricOK(saved.ints) /\ saved.cond \in [Attached -> BOOLEAN]
  BY <1>1 DEF RestoreSnapshot, SavedOK
<1>3. PICK c : c = saved.cond
  OBVIOUS
<1>4. PICK p : p = LoadFabric(ints, saved.ints)
  OBVIOUS
<1>5. /\ FabricOK(p) /\ p.generation = ints.generation + 1 /\ p.baseline = saved.ints.level
      /\ \A g \in Gsis : p.count[g] = 0
  <2>1. PICK a : a = ints
    OBVIOUS
  <2>2. PICK b : b = saved.ints
    OBVIOUS
  <2>3. FabricOK(a) /\ FabricOK(b) /\ p = LoadFabric(a, b)
    BY <1>1, <1>2, <1>4, <2>1, <2>2
  <2>4. /\ FabricOK(p) /\ p.generation = a.generation + 1 /\ p.baseline = b.level
        /\ \A g \in Gsis : p.count[g] = 0
    BY <2>3, LoadFabricKeeps
  <2> QED
    BY <2>1, <2>2, <2>4
<1>6. PICK m0 : m0 = [ints |-> p, drv |-> drv]
  OBVIOUS
<1>7. m0.ints = p /\ m0.drv = drv
  BY <1>6
<1>8. \A s \in Attached : m0.drv[s].gen <= p.generation /\ m0.drv[s].gen # p.generation
  <2>1. \A s \in Attached : drv[s].gen \in Nat
    BY <1>1 DEF Drivers
  <2> QED
    BY <1>1, <1>5, <1>7, <2>1
<1>9. MachineOK(m0)
  <2>1. p \in Fabrics
    BY <1>5 DEF FabricOK
  <2>2. m0 \in Machines
    BY <1>1, <1>6, <2>1 DEF Machines
  <2> QED
    BY <1>5, <1>7, <1>8, <2>2 DEF MachineOK
<1>10. PICK m1 : m1 = LoadRouter(m0)
  OBVIOUS
<1>11. /\ MachineOK(m1) /\ m1.ints.generation = p.generation /\ m1.ints.baseline = p.baseline
       /\ Wired(m1, Of({"hpet"}), {})
       /\ \A s \in Attached : Kind(s) # "intx" => m1.drv[s] = drv[s]
  <2>1. /\ \A g \in Gsis : m0.ints.count[g] = 0
        /\ \A s \in Attached : m0.drv[s].gen # m0.ints.generation
    BY <1>5, <1>7, <1>8
  <2>2. /\ MachineOK(m1) /\ m1.ints.generation = m0.ints.generation /\ m1.ints.baseline = m0.ints.baseline
        /\ Wired(m1, Of({"hpet"}), {})
    BY <1>1, <1>2, <1>9, <1>10, <2>1, LoadRouterLines
  <2>3. \A s \in Attached : Kind(s) # "intx" => m1.drv[s] = m0.drv[s]
    BY <1>10 DEF LoadRouter
  <2> QED
    BY <1>7, <2>2, <2>3
<1>12. PICK m2 : m2 = LoadDevices(m1, c)
  OBVIOUS
<1>13. /\ Kept(m1, m2) /\ Wired(m2, {}, {})
       /\ \A t \in Attached : m2.drv[t] =
             IF Kind(t) \in {"rtc", "acpi", "hpet"}
             THEN Noted("load", m1.ints.generation, t, m1.drv[t], c[t]) ELSE m1.drv[t]
  BY <1>1, <1>2, <1>3, <1>11, <1>12, LoadDevicesLines
<1>14. PICK m : m = SyncSources(m2, c)
  OBVIOUS
<1>15. /\ Kept(m2, m) /\ Wired(m, {}, {})
       /\ \A t \in Attached : m.drv[t] =
             IF Kind(t) \in {"intx", "ide", "uart"}
             THEN Noted("set", m2.ints.generation, t, m2.drv[t], c[t]) ELSE m2.drv[t]
  <2>1. MachineOK(m2) /\ c \in [Attached -> BOOLEAN]
    BY <1>2, <1>3, <1>13 DEF Kept
  <2> QED
    BY <1>1, <1>13, <1>14, <2>1, SyncSourcesLines
<1>16. MachineOK(m) /\ m.ints.generation = p.generation /\ m.ints.baseline = p.baseline
  BY <1>11, <1>13, <1>15 DEF Kept
<1>17. PICK f : f = FinalizeRestore(m.ints)
  OBVIOUS
<1>18. PICK A : A = Unclaimed(m.ints)
  OBVIOUS
<1>19. /\ FabricOK(f) /\ f.generation = m.ints.generation
       /\ \A g \in Gsis : ~f.baseline[g] /\ f.count[g] = IF g \in A THEN 1 ELSE m.ints.count[g]
  BY <1>16, <1>17, <1>18, FinalizeRestoreKeeps DEF MachineOK
<1>20. PICK n : n = [m EXCEPT !.ints = f]
  OBVIOUS
<1>21. n \in Machines /\ n.ints = f /\ n.drv = m.drv
  <2>1. f \in Fabrics /\ m \in Machines
    BY <1>16, <1>19 DEF FabricOK, MachineOK
  <2> QED
    BY <1>20, <2>1 DEF Machines
<1>22. MachineOK(n)
  BY <1>16, <1>19, <1>21 DEF MachineOK
<1>23. Wired(n, {}, A)
  <2>1. \A g : HeldBy(n, {}, g) = HeldBy(m, {}, g)
    BY <1>19, <1>21 DEF HeldBy, IntxOut, Holders, Active
  <2>2. ASSUME NEW g \in Gsis, On(g) \cap Of({"uart"}) = {}
        PROVE  n.ints.count[g] = HeldBy(n, {}, g) + (IF g \in A THEN 1 ELSE 0)
    <3>1. m.ints.count[g] = HeldBy(m, {}, g) + 0
      BY <1>15, <2>2 DEF Wired
    <3>2. HeldBy(m, {}, g) \in Nat
      BY <1>1, HoldersFacts
    <3>3. g \in A => m.ints.count[g] = 0
      BY <1>18 DEF Unclaimed
    <3> QED
      BY <1>19, <1>21, <2>1, <3>1, <3>2, <3>3
  <2> QED
    BY <2>2 DEF Wired
<1>24. PICK r : r = resets
  OBVIOUS
<1>25. PICK q : q = restores + 1
  OBVIOUS
<1>26. LinesOK(n, A, r + q)
  <2>1. n.ints.generation = r + q
    BY <1>1, <1>5, <1>16, <1>19, <1>21, <1>24, <1>25
  <2>2. A \in SUBSET Gsis
    BY <1>18 DEF Unclaimed
  <2> QED
    BY <1>19, <1>21, <1>22, <1>23, <2>1, <2>2 DEF LinesOK
<1>27. /\ Becomes(n) /\ adopted' = A /\ cond' = c /\ saved' = None /\ restores < MaxRestores
       /\ restores' = q /\ UNCHANGED <<wiring, switches, resets>>
  BY <1>3, <1>4, <1>6, <1>10, <1>12, <1>14, <1>17, <1>18, <1>20, <1>25 DEF RestoreSnapshot
<1>28. r \in 0 .. MaxResets /\ q \in 0 .. MaxRestores
  <2>1. MaxRestores \in Nat
    BY MachineAssumption
  <2> QED
    BY <1>1, <1>24, <1>25, <1>27, <2>1 DEF IInv
<1>29. PICK o : o = None
  OBVIOUS
<1>30. SavedOK(o) /\ saved' = o /\ resets' = r /\ wiring' = wiring /\ c \in [Attached -> BOOLEAN]
  BY <1>2, <1>3, <1>24, <1>27, <1>29 DEF SavedOK
<1>31. IInv'
  BY <1>1, <1>26, <1>27, <1>28, <1>30, InvPrimed
<1>32. ASSUME SciAlone, SavedLevels(saved), NEW s \in Attached
       PROVE  AtOnce(n, c, A, s)
  <2>1. CASE Kind(s) \notin {"hpet", "rtc", "acpi"}
    BY <2>1 DEF AtOnce
  <2>2. CASE Kind(s) \in {"hpet", "rtc", "acpi"}
    <3>1. drv[s] \in Drivers /\ c[s] \in BOOLEAN
      BY <1>1, <1>30
    <3>2. n.ints.generation = p.generation /\ m1.ints.generation = p.generation
      BY <1>11, <1>16, <1>19, <1>21
    <3>3. n.drv[s] = Noted("load", n.ints.generation, s, drv[s], c[s])
      BY <1>11, <1>13, <1>15, <1>21, <2>2, <3>2
    <3>4. /\ Kind(s) = "hpet" => (n.drv[s].out <=> c[s])
          /\ Kind(s) \in {"rtc", "acpi"} => (n.drv[s].cache <=> c[s])
          /\ Kind(s) = "rtc" => (Active(n, {}, s) <=> c[s])
          /\ Kind(s) = "acpi" => (Active(n, {}, s) <=> c[s]) \/ n.drv[s] = drv[s]
      <4>1. PICK d : d = drv[s]
        OBVIOUS
      <4>2. PICK level : level = c[s]
        OBVIOUS
      <4>3. PICK how : how = "load"
        OBVIOUS
      <4>4. /\ d \in Drivers /\ level \in BOOLEAN /\ how # "set"
            /\ n.drv[s] = Noted(how, n.ints.generation, s, d, level)
        BY <3>1, <3>3, <4>1, <4>2, <4>3
      <4>5. AfterNote(n, s, how, d, level)
        BY <2>2, <4>4, NotedSettles
      <4> QED
        BY <4>1, <4>2, <4>4, <4>5 DEF AfterNote
    <3>5. ASSUME Kind(s) = "acpi", n.drv[s] = drv[s], c[s] PROVE Gsi(s) \in A
      <4>1. PICK g : g = Gsi(s)
        OBVIOUS
      <4>2. g \in Gsis /\ On(g) = {s} /\ On(g) \cap Of({"uart"}) = {} /\ ~IntxOut(m, g)
        BY <1>1, <1>32, <3>5, <4>1, AloneOnLine, WiringFacts
      <4>3. m.ints.baseline[g]
        BY <1>2, <1>3, <1>5, <1>16, <1>32, <3>5, <4>1 DEF SavedLevels
      <4>4. ~Active(m, {}, s)
        BY <1>7, <1>8, <1>16, <1>21, <3>5 DEF Active
      <4>5. Holders(m, {}, g) = {}
        BY <4>2, <4>4 DEF Holders
      <4>6. Cardinality(Holders(m, {}, g)) = 0
        BY <4>5, FS_EmptySet
      <4>7. HeldBy(m, {}, g) = 0
        BY <4>2, <4>6 DEF HeldBy
      <4>8. m.ints.count[g] = 0
        BY <1>15, <4>2, <4>7 DEF Wired
      <4> QED
        BY <1>18, <4>1, <4>2, <4>3, <4>8 DEF Unclaimed
    <3>6. ASSUME Kind(s) = "acpi", n.drv[s] = drv[s] PROVE ~Active(n, {}, s)
      BY <1>7, <1>8, <3>2, <3>6 DEF Active
    <3> QED
      BY <2>2, <3>4, <3>5, <3>6 DEF AtOnce
  <2> QED
    BY <2>1, <2>2
<1>33. SciAlone /\ SavedLevels(saved) => SettledOK(Now, cond, adopted)'
  <2> SUFFICES ASSUME SciAlone, SavedLevels(saved) PROVE SettledOK(Now, cond, adopted)'
    OBVIOUS
  <2>1. SettledOK(n, c, A)
    BY <1>32 DEF SettledOK
  <2> QED
    BY <1>21, <1>27, <1>30, <2>1, SettledPrimed
<1> QED
  BY <1>31, <1>33

LEMMA IInvInit ==
    ASSUME Init
    PROVE  IInv
<1>1. wiring \in Wirings /\ cond \in [Attached -> BOOLEAN]
  BY DEF Init
<1>2. /\ FabricOK(ints) /\ ints.generation = 0
      /\ \A g \in Gsis : ~ints.baseline[g] /\ ints.count[g] = 0
  BY ResetFabricOK DEF Init
<1>3. PICK fresh : fresh = [out |-> FALSE, gen |-> 0, cache |-> FALSE]
  OBVIOUS
<1>4. fresh \in Drivers /\ fresh.out = FALSE /\ fresh.gen = 0
  BY <1>3 DEF Drivers
<1>5. drv = [s \in Attached |-> fresh]
  BY <1>3 DEF Init
<1>6. PICK m : m = Now
  OBVIOUS
<1>7. m.ints = ints /\ m.drv = drv
  BY <1>6 DEF Now
<1>8. m \in Machines
  BY <1>2, <1>4, <1>5, <1>6 DEF Now, Machines, FabricOK
<1>9. MachineOK(m)
  BY <1>2, <1>4, <1>5, <1>7, <1>8 DEF MachineOK
<1>10. Wired(m, {}, {})
  BY <1>1, <1>2, <1>4, <1>5, <1>7, FreshWired
<1>11. LinesOK(m, {}, 0)
  BY <1>2, <1>7, <1>9, <1>10 DEF LinesOK
<1>12. resets = 0 /\ restores = 0 /\ resets + restores = 0 /\ saved = None /\ adopted = {}
  BY DEF Init
<1>13. MaxResets \in Nat /\ MaxRestores \in Nat
  BY MachineAssumption
<1> QED
  BY <1>1, <1>6, <1>11, <1>12, <1>13 DEF IInv, SavedOK

LEMMA IInvNext ==
    ASSUME IInv, [Next]_vars
    PROVE  IInv'
<1>1. CASE UNCHANGED vars
  <2>1. PICK m : m = Now
    OBVIOUS
  <2>2. LinesOK(m, adopted, resets + restores) /\ cond \in [Attached -> BOOLEAN]
    BY <2>1, NowFacts
  <2>3. Becomes(m) /\ UNCHANGED <<wiring, cond, saved, adopted, resets, restores>>
    BY <1>1, <2>1 DEF vars, Becomes, Now
  <2> QED
    BY <2>2, <2>3, PlainStep
<1>2. ASSUME NEW s \in Attached, DeviceRaises(s) \/ GuestServices(s) PROVE IInv'
  BY <1>2, SetConditionInv DEF DeviceRaises, GuestServices
<1>3. CASE PollSources
  BY <1>3, PollSourcesInv
<1>4. ASSUME NEW c \in Cpus, PollAndAck(c) PROVE IInv'
  BY <1>4, PollAndAckInv
<1>5. CASE Guest
  BY <1>5, GuestInv
<1>6. CASE ResetMachine
  BY <1>6, ResetMachineInv
<1>7. CASE SaveSnapshot
  BY <1>7, SaveSnapshotInv
<1>8. CASE RestoreSnapshot
  BY <1>8, RestoreSnapshotInv
<1> QED
  BY <1>1, <1>2, <1>3, <1>4, <1>5, <1>6, <1>7, <1>8 DEF Next

\* The invariant holds of every state the machine reaches.
THEOREM IrqInvariant == Spec => []IInv
  BY IInvInit, IInvNext, PTL DEF Spec

\* The state of the fabric, the devices and the lines is well formed, and a
\* line's generation is never ahead of the resets and restores made
\* (InterruptRouter, PlatformIrqLine).
THEOREM IrqTypeCorrect == Spec => []TypeOK
<1>1. ASSUME IInv PROVE TypeOK
  <2>1. /\ ints \in Fabrics /\ drv \in [Attached -> Drivers] /\ adopted \in SUBSET Gsis
        /\ \A s \in Attached : drv[s].gen <= resets + restores
    BY <1>1, NowFacts DEF LinesOK, MachineOK, Machines
  <2>2. /\ resets \in 0 .. MaxResets /\ restores \in 0 .. MaxRestores
        /\ MaxResets \in Nat /\ MaxRestores \in Nat
    BY <1>1, MachineAssumption DEF IInv
  <2>3. FabricTypeOK(ints)
    BY <2>1 DEF FabricTypeOK, Fabrics
  <2>4. \A s \in Attached : drv[s].gen \in 0 .. (MaxResets + MaxRestores)
    <3>1. \A s \in Attached : drv[s].gen \in Nat
      BY <2>1 DEF Drivers
    <3> QED
      BY <2>1, <2>2, <3>1
  <2>5. drv \in [Attached -> [out : BOOLEAN, gen : 0 .. (MaxResets + MaxRestores), cache : BOOLEAN]]
    BY <2>1, <2>4 DEF Drivers
  <2> QED
    BY <1>1, <2>1, <2>3, <2>5 DEF TypeOK, IInv
<1> QED
  BY <1>1, IrqInvariant, PTL

\* In APIC mode an asserted level-triggered line that is unmasked has its
\* interrupt requested or in service, however masking, EOI, Remote-IRR, mode
\* switches, resets and restores interleave (IoApic, LocalApic, set_mode).
THEOREM IrqNotLost == Spec => []NoLostLevelInterrupt
<1>1. ASSUME IInv PROVE NoLostLevelInterrupt
  <2>1. \A g \in Gsis : Counted(ints, g) /\ Seen(ints, g)
    BY <1>1, NowFacts DEF FabricOK
  <2> QED
    BY <2>1 DEF NoLostLevelInterrupt, Counted, Seen, Requested
<1> QED
  BY <1>1, IrqInvariant, PTL

\* The assertion count of a line without COM1 is the number of assertions its
\* devices hold, one more when a restore left it an anonymous one, and the
\* line is the wired OR of them (update_gsi_assert_count, PlatformIrqLine,
\* sync_levels_to_sink, finalize_restore).
THEOREM IrqWiredOr == Spec => []LineIsWiredOr
<1>1. ASSUME IInv PROVE LineIsWiredOr
  <2> SUFFICES ASSUME NEW g \in Gsis, On(g) \cap Of({"uart"}) = {}
               PROVE  /\ ints.count[g] = Held(g) + (IF g \in adopted THEN 1 ELSE 0)
                      /\ ints.level[g] = (ints.count[g] > 0)
    BY DEF LineIsWiredOr
  <2>1. Now.ints = ints /\ Now.drv = drv /\ Wired(Now, {}, adopted) /\ FabricOK(ints) /\ ~ints.baseline[g]
    BY <1>1, NowFacts
  <2>2. \A s : Active(Now, {}, s) <=> Asserts(s)
    BY <2>1 DEF Active, Asserts
  <2>3. Holders(Now, {}, g) = {s \in On(g) \ Of({"intx"}) : Asserts(s)}
    BY <2>2 DEF Holders
  <2>4. IntxOut(Now, g) <=> \E s \in Of({"intx"}) \cap On(g) : drv[s].out
    BY <2>1 DEF IntxOut
  <2>5. HeldBy(Now, {}, g) = Held(g)
    BY <2>3, <2>4 DEF HeldBy, Held
  <2>6. ints.count[g] = Held(g) + (IF g \in adopted THEN 1 ELSE 0)
    BY <2>1, <2>5 DEF Wired
  <2>7. ints.level[g] = (ints.count[g] > 0)
    <3>1. Counted(ints, g) /\ ints.level[g] \in BOOLEAN
      BY <2>1 DEF FabricOK, Fabrics
    <3>2. ints.level[g] <=> ints.count[g] > 0
      BY <2>1, <3>1 DEF Counted
    <3>3. ints.count[g] \in Nat
      BY <2>1 DEF FabricOK, Fabrics
    <3> QED
      BY <3>1, <3>2, <3>3
  <2> QED
    BY <2>6, <2>7
<1> QED
  BY <1>1, IrqInvariant, PTL

-----------------------------------------------------------------------------
(* Every step keeps the devices' memories in step with their conditions *)

SInv == IInv /\ SettledOK(Now, cond, adopted) /\ SavedLevels(saved)

LEMMA SavedLevelsKept ==
    ASSUME SavedLevels(saved), saved' = saved, wiring' = wiring
    PROVE  SavedLevels(saved)'
  BY DEF SavedLevels, Attached, Kind, Gsi

\* A step that sets no such device, resets and restores nothing.
LEMMA SettledStep ==
    ASSUME SInv, IInv', NEW n, n \in Machines, Becomes(n), n.ints.generation = ints.generation,
           \A s \in Attached : Kind(s) \in {"hpet", "rtc", "acpi"} => n.drv[s] = drv[s],
           UNCHANGED <<wiring, cond, adopted>>
    PROVE  SettledOK(Now, cond, adopted)'
<1>1. PICK m : m = Now
  OBVIOUS
<1>2. PICK c : c = cond
  OBVIOUS
<1>3. PICK A : A = adopted
  OBVIOUS
<1>4. SettledOK(m, c, A) /\ m.ints = ints /\ m.drv = drv
  BY <1>1, <1>2, <1>3, NowFacts DEF SInv
<1>5. n.ints.generation = m.ints.generation
  BY <1>4
<1>6. \A s \in Attached : Kind(s) \in {"hpet", "rtc", "acpi"} => n.drv[s] = m.drv[s]
  BY <1>4
<1>7. SettledOK(n, c, A)
  BY <1>4, <1>5, <1>6, SettledSame
<1>8. cond' = c /\ adopted' = A /\ wiring' = wiring
  BY <1>2, <1>3
<1> QED
  BY <1>7, <1>8, SettledPrimed

LEMMA SetConditionSettles ==
    ASSUME SInv, NEW s \in Attached, NEW level \in BOOLEAN, SetCondition(s, level)
    PROVE  SettledOK(Now, cond, adopted)'
<1>1. PICK m : m = Now
  OBVIOUS
<1>2. PICK A : A = adopted
  OBVIOUS
<1>3. PICK b : b = cond
  OBVIOUS
<1>4. /\ MachineOK(m) /\ Wired(m, {}, A) /\ wiring \in Wirings /\ SettledOK(m, b, A)
      /\ b \in [Attached -> BOOLEAN] /\ m \in Machines /\ m.drv \in [Attached -> Drivers]
  BY <1>1, <1>2, <1>3, NowFacts DEF SInv, MachineOK, Machines
<1>5. PICK c : c = [b EXCEPT ![s] = level]
  OBVIOUS
<1>6. b[s] # level /\ c[s] = level /\ \A t \in Attached \ {s} : c[t] = b[t]
  BY <1>3, <1>4, <1>5 DEF SetCondition
<1>7. PICK n : n = IF Kind(s) \in {"hpet", "rtc", "acpi"} THEN SetSource(m, s, level) ELSE m
  OBVIOUS
<1>8. /\ Becomes(n) /\ cond' = c /\ adopted' = A /\ wiring' = wiring
  BY <1>1, <1>2, <1>3, <1>5, <1>7 DEF SetCondition
<1>9. CASE Kind(s) \notin {"hpet", "rtc", "acpi"}
  <2>1. n = m
    BY <1>7, <1>9
  <2>2. ASSUME NEW t \in Attached PROVE AtOnce(n, c, A, t)
    <3>1. CASE t = s
      BY <1>9, <3>1 DEF AtOnce
    <3>2. CASE t # s
      BY <1>4, <1>6, <2>1, <3>2 DEF SettledOK, AtOnce
    <3> QED
      BY <3>1, <3>2
  <2>3. SettledOK(n, c, A)
    BY <2>2 DEF SettledOK
  <2> QED
    BY <1>4, <1>8, <2>1, <2>3, SettledPrimed
<1>10. CASE Kind(s) \in {"hpet", "rtc", "acpi"}
  <2>1. PICK kind : kind = Kind(s)
    OBVIOUS
  <2>2. n = OneOf(kind, "set", m, s, level)
    BY <1>7, <1>10, <2>1 DEF OneOf
  <2>3. Steps(m, n, {}, A, s)
    <3>1. Kind(s) = "hpet" /\ "set" # "set" <=> s \in {}
      OBVIOUS
    <3> QED
      BY <1>4, <2>1, <2>2, <3>1, OneOfSteps
  <2>4. n \in Machines /\ n.ints.generation = m.ints.generation
    BY <2>3 DEF Steps, Kept, MachineOK
  <2>5. n.drv = [m.drv EXCEPT ![s] = Noted("set", m.ints.generation, s, m.drv[s], level)]
    BY <1>4, <2>1, <2>2, OneOfNotes
  <2>6. n.drv[s] = Noted("set", n.ints.generation, s, m.drv[s], level)
    BY <1>4, <2>4, <2>5
  <2>7. \A t \in Attached \ {s} : n.drv[t] = m.drv[t]
    BY <1>4, <2>5
  <2>8. PICK d : d = m.drv[s]
    OBVIOUS
  <2>9. d \in Drivers /\ AtOnce(m, b, A, s)
    BY <1>4, <2>8 DEF SettledOK
  <2>10. AfterNote(n, s, "set", d, level)
    BY <1>10, <2>6, <2>8, <2>9, NotedSettles
  <2>11. Kind(s) \in {"rtc", "acpi"} => d.cache # level
    BY <1>4, <1>6, <2>8, <2>9 DEF AtOnce, Drivers
  <2>12. AtOnce(n, c, A, s)
    BY <1>6, <2>10, <2>11 DEF AtOnce, AfterNote
  <2>13. ASSUME NEW t \in Attached, t # s PROVE AtOnce(n, c, A, t)
    BY <1>4, <1>6, <2>4, <2>7, <2>13 DEF SettledOK, AtOnce, Active
  <2>14. SettledOK(n, c, A)
    BY <2>12, <2>13 DEF SettledOK
  <2> QED
    BY <1>8, <2>4, <2>14, SettledPrimed
<1> QED
  BY <1>9, <1>10

LEMMA PolledNow ==
    ASSUME IInv
    PROVE  LET n == SyncSources(Now, cond)
           IN  /\ n \in Machines /\ n.ints.generation = ints.generation /\ FabricOK(n.ints)
               /\ \A s \in Attached : Kind(s) \in {"hpet", "rtc", "acpi"} => n.drv[s] = drv[s]
<1>1. PICK m : m = Now
  OBVIOUS
<1>2. PICK A : A = adopted
  OBVIOUS
<1>3. PICK c : c = cond
  OBVIOUS
<1>4. /\ MachineOK(m) /\ Wired(m, {}, A) /\ wiring \in Wirings /\ c \in [Attached -> BOOLEAN]
      /\ m.ints = ints /\ m.drv = drv
  BY <1>1, <1>2, <1>3, NowFacts
<1>5. PICK n : n = SyncSources(m, c)
  OBVIOUS
<1>6. /\ Kept(m, n)
      /\ \A t \in Attached : n.drv[t] =
            IF Kind(t) \in {"intx", "ide", "uart"}
            THEN Noted("set", m.ints.generation, t, m.drv[t], c[t]) ELSE m.drv[t]
  BY <1>4, <1>5, SyncSourcesLines
<1>7. n \in Machines /\ n.ints.generation = ints.generation /\ FabricOK(n.ints)
  BY <1>4, <1>6 DEF Kept, MachineOK
<1>8. \A s \in Attached : Kind(s) \in {"hpet", "rtc", "acpi"} => n.drv[s] = drv[s]
  BY <1>4, <1>6
<1> QED
  BY <1>1, <1>3, <1>5, <1>7, <1>8

LEMMA PollAndAckSettles ==
    ASSUME SInv, IInv', NEW c \in Cpus, PollAndAck(c)
    PROVE  SettledOK(Now, cond, adopted)'
<1>1. PICK m : m = IF c = 0 THEN SyncSources(Now, cond) ELSE Now
  OBVIOUS
<1>2. /\ m \in Machines /\ m.ints.generation = ints.generation /\ FabricOK(m.ints)
      /\ \A s \in Attached : Kind(s) \in {"hpet", "rtc", "acpi"} => m.drv[s] = drv[s]
  <2>1. CASE c = 0
    BY <1>1, <2>1, PolledNow DEF SInv
  <2>2. CASE c # 0
    BY <1>1, <2>2, NowFacts DEF SInv, MachineOK
  <2> QED
    BY <2>1, <2>2
<1>3. PICK g \in Pending(m.ints, c) : Becomes([m EXCEPT !.ints = Ack(@, c, g)])
  BY <1>1 DEF PollAndAck
<1>4. PICK p : p = Ack(m.ints, c, g)
  OBVIOUS
<1>5. FabricOK(p) /\ SameLines(m.ints, p)
  BY <1>2, <1>3, <1>4, AckKeeps
<1>6. PICK n : n = [m EXCEPT !.ints = p]
  OBVIOUS
<1>7. n \in Machines /\ n.ints = p /\ n.drv = m.drv
  BY <1>2, <1>5, <1>6 DEF Machines, FabricOK
<1>8. Becomes(n) /\ UNCHANGED <<wiring, cond, adopted>>
  <2>1. [m EXCEPT !.ints = Ack(@, c, g)] = n
    BY <1>2, <1>4, <1>6 DEF Machines
  <2> QED
    BY <1>3, <2>1 DEF PollAndAck
<1>9. n.ints.generation = ints.generation
  BY <1>2, <1>5, <1>7 DEF SameLines
<1>10. \A s \in Attached : Kind(s) \in {"hpet", "rtc", "acpi"} => n.drv[s] = drv[s]
  BY <1>2, <1>7
<1> QED
  BY <1>7, <1>8, <1>9, <1>10, SettledStep

\* The guest leaves the devices' memories alone.
LEMMA GuestSettles ==
    ASSUME SInv, IInv', Guest
    PROVE  SettledOK(Now, cond, adopted)' /\ UNCHANGED <<wiring, saved>>
<1>1. PICK p : Controllers(p) /\ FabricOK(p) /\ SameLines(ints, p)
  BY GuestSteps DEF SInv
<1>2. PICK n : n = [ints |-> p, drv |-> drv]
  OBVIOUS
<1>3. drv \in [Attached -> Drivers]
  BY NowFacts DEF SInv, MachineOK, Machines
<1>4. n \in Machines /\ n.ints = p /\ n.drv = drv
  BY <1>1, <1>2, <1>3 DEF Machines, FabricOK
<1>5. Becomes(n) /\ UNCHANGED <<wiring, cond, adopted, saved>>
  BY <1>1, <1>4 DEF Becomes, Controllers
<1>6. n.ints.generation = ints.generation
  BY <1>1, <1>4 DEF SameLines
<1>7. SettledOK(Now, cond, adopted)'
  BY <1>4, <1>5, <1>6, SettledStep
<1> QED
  BY <1>5, <1>7

LEMMA SaveSettles ==
    ASSUME SciAlone, SInv, IInv', SaveSnapshot
    PROVE  SettledOK(Now, cond, adopted)' /\ SavedLevels(saved)'
<1>1. PICK m : m = Now
  OBVIOUS
<1>2. m \in Machines /\ m.ints = ints /\ m.drv = drv
  BY <1>1, NowFacts DEF SInv, MachineOK
<1>3. Becomes(m) /\ UNCHANGED <<wiring, cond, adopted>>
  BY <1>2 DEF Becomes, SaveSnapshot
<1>4. SettledOK(Now, cond, adopted)'
  BY <1>2, <1>3, SettledStep
<1>5. PICK v : v = [ints |-> ints, cond |-> cond,
                    intx |-> [s \in Attached |-> Kind(s) = "intx" /\ drv[s].out]]
  OBVIOUS
<1>6. v.ints = ints /\ v.cond = cond
  BY <1>5
<1>7. saved' = v
  BY <1>5 DEF SaveSnapshot
<1>8. \A s \in Attached : Kind(s) = "acpi" /\ v.cond[s] => v.ints.level[Gsi(s)]
  BY <1>6, HoldsUp DEF SInv
<1> QED
  BY <1>3, <1>4, <1>7, <1>8 DEF SavedLevels, Attached, Kind, Gsi

LEMMA SInvInit ==
    ASSUME Init
    PROVE  SInv
<1>1. IInv
  BY IInvInit
<1>2. PICK fresh : fresh = [out |-> FALSE, gen |-> 0, cache |-> FALSE]
  OBVIOUS
<1>3. drv = [s \in Attached |-> fresh] /\ cond = [s \in Attached |-> FALSE] /\ saved = None
  BY <1>2 DEF Init
<1>4. PICK m : m = Now
  OBVIOUS
<1>5. \A s \in Attached : ~m.drv[s].out /\ ~m.drv[s].cache /\ ~cond[s]
  BY <1>2, <1>3, <1>4 DEF Now
<1>6. SettledOK(m, cond, adopted)
  BY <1>5 DEF SettledOK, AtOnce, Active
<1> QED
  BY <1>1, <1>3, <1>4, <1>6 DEF SInv, SavedLevels

LEMMA SInvNext ==
    ASSUME SciAlone, SInv, [Next]_vars
    PROVE  SInv'
<1>1. IInv /\ IInv'
  BY IInvNext DEF SInv
<1> SUFFICES SettledOK(Now, cond, adopted)' /\ SavedLevels(saved)'
  BY <1>1 DEF SInv
<1>2. CASE UNCHANGED vars
  <2>1. PICK m : m = Now
    OBVIOUS
  <2>2. m \in Machines /\ m.ints = ints /\ m.drv = drv
    BY <1>1, <2>1, NowFacts DEF MachineOK
  <2>3. Becomes(m) /\ UNCHANGED <<wiring, cond, adopted, saved>>
    BY <1>2, <2>2 DEF vars, Becomes
  <2>4. SettledOK(Now, cond, adopted)'
    BY <1>1, <2>2, <2>3, SettledStep
  <2> QED
    BY <2>3, <2>4, SavedLevelsKept DEF SInv
<1>3. ASSUME NEW s \in Attached, DeviceRaises(s) \/ GuestServices(s)
      PROVE  SettledOK(Now, cond, adopted)' /\ SavedLevels(saved)'
  <2>1. PICK level \in BOOLEAN : SetCondition(s, level)
    BY <1>3 DEF DeviceRaises, GuestServices
  <2>2. UNCHANGED <<wiring, saved>>
    BY <2>1 DEF SetCondition
  <2> QED
    BY <2>1, <2>2, SetConditionSettles, SavedLevelsKept DEF SInv
<1>4. CASE PollSources
  <2>1. PICK n : n = SyncSources(Now, cond)
    OBVIOUS
  <2>2. /\ n \in Machines /\ n.ints.generation = ints.generation
        /\ \A s \in Attached : Kind(s) \in {"hpet", "rtc", "acpi"} => n.drv[s] = drv[s]
    BY <1>1, <2>1, PolledNow
  <2>3. Becomes(n) /\ UNCHANGED <<wiring, cond, adopted, saved>>
    BY <1>4, <2>1 DEF PollSources
  <2>4. SettledOK(Now, cond, adopted)'
    BY <1>1, <2>2, <2>3, SettledStep
  <2> QED
    BY <2>3, <2>4, SavedLevelsKept DEF SInv
<1>5. ASSUME NEW c \in Cpus, PollAndAck(c)
      PROVE  SettledOK(Now, cond, adopted)' /\ SavedLevels(saved)'
  <2>1. UNCHANGED <<wiring, saved>>
    BY <1>5 DEF PollAndAck
  <2> QED
    BY <1>1, <1>5, <2>1, PollAndAckSettles, SavedLevelsKept DEF SInv
<1>6. CASE Guest
  BY <1>1, <1>6, GuestSettles, SavedLevelsKept DEF SInv
<1>7. CASE ResetMachine
  <2>1. UNCHANGED <<wiring, saved>>
    BY <1>7 DEF ResetMachine
  <2> QED
    BY <1>1, <1>7, <2>1, ResetMachineInv, SavedLevelsKept DEF SInv
<1>8. CASE SaveSnapshot
  BY <1>1, <1>8, SaveSettles
<1>9. CASE RestoreSnapshot
  <2>1. SettledOK(Now, cond, adopted)'
    BY <1>1, <1>9, RestoreSnapshotInv DEF SInv
  <2>2. saved' = None
    BY <1>9 DEF RestoreSnapshot
  <2> QED
    BY <2>1, <2>2 DEF SavedLevels
<1> QED
  BY <1>2, <1>3, <1>4, <1>5, <1>6, <1>7, <1>8, <1>9 DEF Next

\* When the SCI shares its line with no other device (no HPET timer is routed
\* to it), a poll leaves every line without COM1, and without an anonymous assertion a
\* restore left, at the OR of its devices' conditions, after any resets, saves
\* and restores (sync_pci_intx_sources_to_interrupts, load_state of the
\* devices, sync_levels_to_sink).
THEOREM IrqPollSettles ==
    ASSUME SciAlone
    PROVE  Spec => []PollSettlesLine
<1>1. Init => SInv
  BY SInvInit
<1>2. SInv /\ [Next]_vars => SInv'
  BY SInvNext
<1>3. SInv => PollSettlesLine
  BY PollSettles DEF SInv
<1> QED
  BY <1>1, <1>2, <1>3, PTL DEF Spec
=============================================================================
