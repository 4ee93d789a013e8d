-------------------------- MODULE PlatformInterrupts --------------------------
(***************************************************************************)
(* The interrupt fabric of the machine: the router with its ref-counted    *)
(* GSI lines (crates/platform/src/interrupts/router.rs), the I/O APIC, the *)
(* local APICs and the legacy 8259 pair (crates/aero-interrupts).          *)
(*                                                                         *)
(* The code runs on one thread and a handler makes many calls into the     *)
(* fabric, so its state is one record p and every entry point is an        *)
(* operator from p to p; IrqMachine has the actions.  A GSI is a natural   *)
(* number that is also the vector its redirection entry is programmed with *)
(* and, below 16, its PIC input; a larger number has the higher LAPIC      *)
(* priority class.  Pin polarity is left out: guests program the polarity  *)
(* the board is wired with, and a masked entry never looks at it.  The     *)
(* LAPICs stay software-enabled, and no INIT IPI is sent.                  *)
(***************************************************************************)
EXTENDS Naturals, FiniteSets, FiniteSetsExt

CONSTANTS Gsis,     \* the modelled global system interrupts
          Cpus,     \* the local APICs, APIC ids are 0 .. CpuCount - 1
          MaxCount  \* bound: the largest assertion count of a line

ASSUME FabricAssumption ==
    /\ Gsis \subseteq 1..15 /\ Cpus \subseteq Nat /\ 0 \in Cpus
    /\ MaxCount \in Nat \ {0}

\* A redirection entry after reset: edge-triggered and masked.
ResetEntry == [masked |-> TRUE, trigger |-> "edge", dest |-> 0, remoteIrr |-> FALSE]

Entries == [masked : BOOLEAN, trigger : {"edge", "level"}, dest : Cpus, remoteIrr : BOOLEAN]

\* new_with_cpu_count and reset: legacy PIC mode, all inputs masked, no line
\* asserted.
ResetFabric(generation) ==
    [mode |-> "pic", generation |-> generation,
     level |-> [g \in Gsis |-> FALSE],
     baseline |-> [g \in Gsis |-> FALSE],
     count |-> [g \in Gsis |-> 0],
     pin |-> [g \in Gsis |-> FALSE],
     entry |-> [g \in Gsis |-> ResetEntry],
     irr |-> [c \in Cpus |-> {}], isr |-> [c \in Cpus |-> {}],
     picImr |-> Gsis, picIrr |-> {}, picIsr |-> {}, picLine |-> {}]

FabricTypeOK(p) ==
    /\ p.mode \in {"pic", "apic"} /\ p.generation \in Nat
    /\ p.level \in [Gsis -> BOOLEAN] /\ p.baseline \in [Gsis -> BOOLEAN]
    /\ p.count \in [Gsis -> 0..MaxCount]
    /\ p.pin \in [Gsis -> BOOLEAN] /\ p.entry \in [Gsis -> Entries]
    /\ p.irr \in [Cpus -> SUBSET Gsis] /\ p.isr \in [Cpus -> SUBSET Gsis]
    /\ {p.picImr, p.picIrr, p.picIsr, p.picLine} \subseteq SUBSET Gsis

-----------------------------------------------------------------------------
(* The I/O APIC and the local APICs.  An operator with a set S of lines     *)
(* stands for one call per line: each touches its own line only, so that    *)
(* their order does not matter.                                             *)

\* deliver: Remote-IRR is set before RoutedLapicSink::inject_external_interrupt
\* drops the request unless the platform is in APIC mode.
Deliver(p, S) ==
    [p EXCEPT !.entry = [g \in Gsis |-> [p.entry[g] EXCEPT
                            !.remoteIrr = @ \/ (g \in S /\ p.entry[g].trigger = "level")]],
              !.irr = [c \in Cpus |-> p.irr[c] \cup
                            {g \in S : p.mode = "apic" /\ p.entry[g].dest = c}]]

LevelWaits(p, g) ==
    LET e == p.entry[g]
    IN  e.trigger = "level" /\ ~e.masked /\ ~e.remoteIrr /\ p.pin[g]

MaybeDeliverLevel(p, S) == Deliver(p, {g \in S : LevelWaits(p, g)})

\* IoApic::set_irq_level, with the level the router has for the line.
SetIrqLevel(p, S) ==
    LET q == [p EXCEPT !.pin = [g \in Gsis |-> IF g \in S THEN p.level[g] ELSE p.pin[g]]]
        Rises(g) == p.entry[g].trigger = "edge" /\ ~p.entry[g].masked /\ ~p.pin[g] /\ q.pin[g]
    IN  Deliver(q, {g \in S : LevelWaits(q, g) \/ Rises(g)})

\* Mutant: an EOI clears Remote-IRR and looks at the pin no more.
NotifyEoiOnlyClears(p, g) == [p EXCEPT !.entry[g].remoteIrr = FALSE]

\* notify_eoi: clears Remote-IRR of the level entry with this vector and
\* delivers again when the pin is still asserted.
NotifyEoi(p, g) ==
    LET e == p.entry[g]
        q == [p EXCEPT !.entry[g].remoteIrr = FALSE]
    IN  IF e.trigger = "level" /\ e.remoteIrr
        THEN IF p.pin[g] /\ ~e.masked THEN Deliver(q, {g}) ELSE q
        ELSE p

ClearRemoteIrr(p) ==
    [p EXCEPT !.entry = [g \in Gsis |-> [@[g] EXCEPT !.remoteIrr = FALSE]]]

\* A guest write of a redirection entry through ioapic_mmio_write; Remote-IRR
\* is read-only, and unmasking delivers a level that is already asserted.
WriteEntry(p, g, masked, trigger, dest) ==
    LET q == [p EXCEPT !.entry[g] = [@ EXCEPT !.masked = masked, !.trigger = trigger,
                                              !.dest = dest]]
        d == IF p.entry[g].masked /\ ~masked THEN MaybeDeliverLevel(q, {g}) ELSE q
    IN  IF p.mode = "apic" THEN d ELSE ClearRemoteIrr(d)

\* LapicState::get_pending_vector with TPR 0: the highest requested vector of
\* a higher class than everything in service.
LapicPending(p, c) ==
    {g \in p.irr[c] : (\A h \in p.isr[c] : g > h) /\ (\A h \in p.irr[c] : g >= h)}

LapicAck(p, c, g) ==
    [p EXCEPT !.irr[c] = @ \ {g}, !.isr[c] = @ \cup {g}]

\* LocalApic::eoi: the highest vector in service, then the I/O APIC is told.
LapicEoi(p, c) ==
    IF p.isr[c] = {} THEN p
    ELSE NotifyEoi([p EXCEPT !.isr[c] = @ \ {Max(@)}], Max(p.isr[c]))

-----------------------------------------------------------------------------
(* The 8259 pair, edge-triggered.  A request of the slave (inputs 8..15)   *)
(* goes through the master's cascade input, so no slave request interrupts *)
(* another one.                                                            *)

MasterInput(g) == IF g < 8 THEN g ELSE 2

PicSetLevel(p, S) ==
    LET high == {g \in S : p.level[g]}
    IN  [p EXCEPT !.picLine = (@ \ S) \cup high, !.picIrr = @ \cup (high \ p.picLine)]

\* get_pending_vector: unmasked, and the first in priority order.
PicPending(p) ==
    LET wanted == p.picIrr \ p.picImr
        Before(g, h) == \/ MasterInput(g) < MasterInput(h)
                        \/ MasterInput(g) = MasterInput(h) /\ g <= h
    IN  {g \in wanted : /\ \A h \in wanted : Before(g, h)
                        /\ \A h \in p.picIsr : MasterInput(g) < MasterInput(h)}

PicAck(p, g) == [p EXCEPT !.picIrr = @ \ {g}, !.picIsr = @ \cup {g}]

\* A specific EOI, to both chips for a slave request.
PicEoi(p, g) == [p EXCEPT !.picIsr = @ \ {g}]

\* ICW1: both chips are initialised again; requests, in-service bits, the
\* tracked line levels and the mask are cleared.
PicInit(p) == [p EXCEPT !.picIrr = {}, !.picIsr = {}, !.picLine = {}, !.picImr = {}]

PicWriteMask(p, imr) == [p EXCEPT !.picImr = imr]

-----------------------------------------------------------------------------
(* The router. *)

\* drive_gsi_effective_level: the level goes to the controller in use only.
Drive(p, S) == IF p.mode = "pic" THEN PicSetLevel(p, S) ELSE SetIrqLevel(p, S)

\* The tail of update_gsi_assert_count, for the lines of S.
ApplyCount(p, S, count) ==
    LET desired == [g \in Gsis |-> IF g \in S THEN p.baseline[g] \/ count[g] > 0 ELSE p.level[g]]
        q == [p EXCEPT !.count = [g \in Gsis |-> IF g \in S THEN count[g] ELSE p.count[g]],
                       !.level = desired]
    IN  Drive(q, {g \in S : desired[g] # p.level[g]})

\* raise_irq saturates (at u32::MAX in the code, at MaxCount here); lower_irq
\* ignores a deassertion nobody asserted.
RaiseIrq(p, S) ==
    ApplyCount(p, S, [g \in Gsis |-> IF p.count[g] = MaxCount THEN MaxCount ELSE p.count[g] + 1])
LowerIrq(p, S) ==
    ApplyCount(p, {g \in S : p.count[g] > 0}, [g \in Gsis |-> p.count[g] - 1])

\* set_mode.  Entering APIC mode drops Remote-IRR and copies the line levels
\* into the I/O APIC; entering PIC mode copies nothing.
SetMode(p, mode) ==
    LET q == [p EXCEPT !.mode = mode]
    IN  IF p.mode = "pic" /\ mode = "apic" THEN SetIrqLevel(ClearRemoteIrr(q), Gsis) ELSE q

\* load_state: the controllers as they were saved, the saved line levels as a
\* baseline, no assertion counted, and a new line generation.
LoadFabric(p, saved) ==
    LET q == [saved EXCEPT !.baseline = saved.level, !.count = [g \in Gsis |-> 0],
                           !.generation = p.generation + 1]
    IN  IF saved.mode = "apic" THEN MaybeDeliverLevel(q, Gsis) ELSE q

\* finalize_restore: a baseline level nobody claimed becomes one anonymous
\* assertion.
Unclaimed(p) == {g \in Gsis : p.baseline[g] /\ p.count[g] = 0}

FinalizeRestore(p) ==
    LET count == [g \in Gsis |-> IF g \in Unclaimed(p) THEN 1 ELSE p.count[g]]
        q == [p EXCEPT !.count = count, !.baseline = [g \in Gsis |-> FALSE],
                       !.level = [g \in Gsis |-> count[g] > 0]]
    IN  Drive(q, {g \in Gsis : p.level[g] # q.level[g]})
=============================================================================
