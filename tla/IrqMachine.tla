------------------------------ MODULE IrqMachine ------------------------------
(***************************************************************************)
(* The devices that drive interrupt lines, the machine's polling of them,  *)
(* the guest's interrupt handling, and reset, snapshot and restore of the  *)
(* whole, on top of the fabric of PlatformInterrupts.                      *)
(*                                                                         *)
(* A source s has a condition cond[s] (its interrupt status gated by its   *)
(* enables) and one of six ways of turning it into raise_irq / lower_irq:  *)
(*   "intx"  PCI INTx, polled, ref-counted per GSI by PciIntxRouter;       *)
(*   "ide"   polled, through a PlatformIrqLine that remembers its level;   *)
(*   "uart"  polled, straight into the router;                             *)
(*   "hpet"  at once, through the timer's irq_asserted flag;               *)
(*   "rtc"   at once, its own level cache in front of a PlatformIrqLine;   *)
(*   "acpi"  the same, except in load_state.                               *)
(* drv[s] is what that path remembers: out is source_level, irq_asserted   *)
(* or last_level, gen is last_generation, cache is irq_level or sci_level. *)
(***************************************************************************)
EXTENDS PlatformInterrupts, Sequences

CONSTANTS Wirings,      \* the wirings to explore: sequences of [kind, gsi, trigger],
                        \* each kind in the order the machine polls it
          MaxSwitches,  \* bound: writes to the IMCR
          MaxResets,    \* bound: machine resets
          MaxRestores,  \* bound: restores
          None

VARIABLES wiring,   \* constant during a run: the sources, numbered from 1
          cond,
          drv,
          ints,     \* the fabric
          saved,    \* the snapshot on disk
          adopted,  \* history: lines finalize_restore asserts anonymously
          switches, resets, restores

vars == <<wiring, cond, drv, ints, saved, adopted, switches, resets, restores>>

Kinds == {"intx", "ide", "uart", "hpet", "rtc", "acpi"}
PciGsis == Gsis \cap 10..13

Devices == [kind : Kinds, gsi : Gsis, trigger : {"edge", "level"}]

\* The trigger mode is the line's; u32 counts as many assertions as there are
\* devices.
ASSUME MachineAssumption ==
    /\ Wirings \subseteq Seq(Devices)
    /\ \A w \in Wirings :
          /\ \A s \in DOMAIN w : w[s].kind = "intx" => w[s].gsi \in PciGsis
          /\ \A s, t \in DOMAIN w : w[s].gsi = w[t].gsi => w[s].trigger = w[t].trigger
          /\ Len(w) < MaxCount
    /\ {MaxSwitches, MaxResets, MaxRestores} \subseteq Nat

Attached == DOMAIN wiring
Kind(s) == wiring[s].kind
Gsi(s) == wiring[s].gsi
Of(kinds) == {s \in Attached : Kind(s) \in kinds}
On(g) == {s \in Attached : Gsi(s) = g}

TypeOK ==
    /\ wiring \in Wirings
    /\ cond \in [Attached -> BOOLEAN]
    /\ drv \in [Attached -> [out : BOOLEAN, gen : 0..(MaxResets + MaxRestores), cache : BOOLEAN]]
    /\ FabricTypeOK(ints)
    /\ adopted \in SUBSET Gsis

-----------------------------------------------------------------------------
(* Driving a line.  m is [ints, drv]: one call may drive several lines.    *)

Pull(m, g, level) ==
    [m EXCEPT !.ints = IF level THEN RaiseIrq(@, {g}) ELSE LowerIrq(@, {g})]

\* Mutant: the line trusts its cached level after a reset or a restore.
LineSetKeepsCache(m, s, level) ==
    LET n == [m EXCEPT !.drv[s].gen = m.ints.generation, !.drv[s].out = level]
    IN  IF m.drv[s].out = level THEN n ELSE Pull(n, Gsi(s), level)

\* PlatformIrqLine::set_level
LineSet(m, s, level) ==
    LET gen == m.ints.generation
        last == m.drv[s].gen = gen /\ m.drv[s].out
        n == [m EXCEPT !.drv[s].gen = gen, !.drv[s].out = level]
    IN  IF last = level THEN n ELSE Pull(n, Gsi(s), level)

\* PciIntxRouter::set_intx_level: only the first assertion of a GSI and the
\* last deassertion reach the platform.
IntxSet(m, s, level) ==
    LET n == [m EXCEPT !.drv[s].out = level]
        shared == \E t \in (Of({"intx"}) \cap On(Gsi(s))) \ {s} : m.drv[t].out
    IN  IF m.drv[s].out = level \/ shared THEN n ELSE Pull(n, Gsi(s), level)

\* The HPET's match on (pending, irq_asserted).
HpetSet(m, s, level) ==
    IF m.drv[s].out = level THEN m
    ELSE Pull([m EXCEPT !.drv[s].out = level], Gsi(s), level)

\* update_irq_line and drive_sci_level
CachedSet(m, s, level) ==
    IF m.drv[s].cache = level THEN m ELSE LineSet([m EXCEPT !.drv[s].cache = level], s, level)

SetSource(m, s, level) ==
    CASE Kind(s) = "intx" -> IntxSet(m, s, level)
      [] Kind(s) = "ide" -> LineSet(m, s, level)
      [] Kind(s) = "uart" -> Pull(m, Gsi(s), level)
      [] Kind(s) = "hpet" -> HpetSet(m, s, level)
      [] OTHER -> CachedSet(m, s, level)

\* Mutant: irq_asserted survives load_state.
LoadHpetKeepsFlag(m, s, level) == HpetSet(m, s, level)

\* load_state of a device that drives its line by itself.
LoadRtc(m, s, level) == LineSet([m EXCEPT !.drv[s].cache = level], s, level)
LoadAcpi(m, s, level) == CachedSet(m, s, level)
LoadHpet(m, s, level) == HpetSet([m EXCEPT !.drv[s].out = FALSE], s, level)

LoadSource(m, s, level) ==
    CASE Kind(s) = "rtc" -> LoadRtc(m, s, level)
      [] Kind(s) = "acpi" -> LoadAcpi(m, s, level)
      [] Kind(s) = "hpet" -> LoadHpet(m, s, level)
      [] OTHER -> m

\* The sources of one kind, one after the other, each with its level in c.
OneOf(kind, how, m, s, level) ==
    IF Kind(s) # kind THEN m
    ELSE IF how = "set" THEN SetSource(m, s, level) ELSE LoadSource(m, s, level)

EachOf(kind, how, m, c) ==
    LET upto[i \in 0..Len(wiring)] ==
            IF i = 0 THEN m ELSE OneOf(kind, how, upto[i - 1], i, c[i])
    IN  upto[Len(wiring)]

\* sync_pci_intx_sources_to_interrupts: the PCI functions, IDE, COM1.
SyncSources(m, c) ==
    EachOf("uart", "set", EachOf("ide", "set", EachOf("intx", "set", m, c), c), c)

Now == [ints |-> ints, drv |-> drv]
Becomes(m) == ints' = m.ints /\ drv' = m.drv

Init ==
    /\ wiring \in Wirings
    /\ cond = [s \in Attached |-> FALSE]
    /\ drv = [s \in Attached |-> [out |-> FALSE, gen |-> 0, cache |-> FALSE]]
    /\ ints = ResetFabric(0)
    /\ saved = None
    /\ adopted = {}
    /\ switches = 0 /\ resets = 0 /\ restores = 0

-----------------------------------------------------------------------------
(* Devices and the run loop. *)

\* A condition begins (the device) or ends (the guest services the device).
SetCondition(s, level) ==
    /\ cond[s] # level
    /\ cond' = [cond EXCEPT ![s] = level]
    /\ Becomes(IF Kind(s) \in {"hpet", "rtc", "acpi"} THEN SetSource(Now, s, level) ELSE Now)
    /\ UNCHANGED <<wiring, saved, adopted, switches, resets, restores>>

DeviceRaises(s) == SetCondition(s, TRUE)
GuestServices(s) == SetCondition(s, FALSE)

\* get_pending_for_apic and acknowledge_for_apic, for a CPU that can take an
\* interrupt.
Pending(p, c) == IF p.mode = "apic" THEN LapicPending(p, c)
                 ELSE IF c = 0 THEN PicPending(p) ELSE {}
Ack(p, c, g) == IF p.mode = "apic" THEN LapicAck(p, c, g) ELSE PicAck(p, g)

\* A restore overwrites the whole fabric but its generation.  So, as a bound,
\* only devices, polls and resets run between a snapshot and its restore.
Running == saved = None

\* poll_platform_interrupt on the boot CPU polls all sources first and
\* poll_platform_interrupt_for_apic on the others does not; then an interrupt
\* is taken unless the CPU has them disabled.
PollSources ==
    /\ Becomes(SyncSources(Now, cond))
    /\ UNCHANGED <<wiring, cond, saved, adopted, switches, resets, restores>>

PollAndAck(c) ==
    LET m == IF c = 0 THEN SyncSources(Now, cond) ELSE Now
    IN  /\ Running
        /\ \E g \in Pending(m.ints, c) : Becomes([m EXCEPT !.ints = Ack(@, c, g)])
        /\ UNCHANGED <<wiring, cond, saved, adopted, switches, resets, restores>>

-----------------------------------------------------------------------------
(* The guest and the interrupt controllers. *)

Controllers(p) ==
    /\ Running
    /\ ints' = p
    /\ UNCHANGED <<wiring, cond, drv, saved, adopted, resets, restores>>

GuestLapicEoi(c) ==
    /\ ints.isr[c] # {}
    /\ Controllers(LapicEoi(ints, c)) /\ UNCHANGED switches

GuestPicEoi(g) ==
    /\ g \in ints.picIsr
    /\ Controllers(PicEoi(ints, g)) /\ UNCHANGED switches

\* The guest programs an entry with the trigger mode the firmware's tables
\* give for the line, and later only masks and unmasks it.
GuestWritesEntry(s, masked, dest) ==
    LET e == ints.entry[Gsi(s)]
        new == [masked |-> masked, trigger |-> wiring[s].trigger, dest |-> dest,
                remoteIrr |-> e.remoteIrr]
    IN  /\ new # e
        /\ e.dest # dest => e.masked
        /\ Controllers(WriteEntry(ints, Gsi(s), masked, new.trigger, dest))
        /\ UNCHANGED switches

GuestUnmasksPic ==
    /\ ints.picImr # {}
    /\ Controllers(PicWriteMask(ints, {})) /\ UNCHANGED switches

GuestInitialisesPic ==
    /\ ints # PicInit(ints)
    /\ Controllers(PicInit(ints)) /\ UNCHANGED switches

GuestWritesImcr(mode) ==
    /\ mode # ints.mode
    /\ switches < MaxSwitches /\ switches' = switches + 1
    /\ Controllers(SetMode(ints, mode))

-----------------------------------------------------------------------------
(* Reset, snapshot, restore. *)

\* Machine::reset: the fabric, the router, the HPET, RTC and IDE lines are
\* new; ACPI PM keeps its line and drives it low if it was high.
ResetMachine ==
    LET fabric == ResetFabric(ints.generation + 1)
        fresh == [out |-> FALSE, gen |-> fabric.generation, cache |-> FALSE]
        m == [ints |-> fabric,
              drv |-> [s \in Attached |-> IF Kind(s) = "acpi" THEN drv[s] ELSE fresh]]
    IN  /\ resets < MaxResets /\ resets' = resets + 1
        /\ Becomes(EachOf("acpi", "set", m, [s \in Attached |-> FALSE]))
        /\ cond' = [s \in Attached |-> FALSE]
        /\ adopted' = {}
        /\ UNCHANGED <<wiring, saved, switches, restores>>

\* The router saves its asserted sources, not its counts; the lines' own
\* memories are not saved.
SaveSnapshot ==
    /\ Running /\ restores < MaxRestores
    /\ saved' = [ints |-> ints, cond |-> cond,
                 intx |-> [s \in Attached |-> Kind(s) = "intx" /\ drv[s].out]]
    /\ UNCHANGED <<wiring, cond, drv, ints, adopted, switches, resets, restores>>

\* The order of restore_device_states: the fabric and the router, the router's
\* levels, RTC and ACPI PM, the HPET, a poll of everything, finalize_restore.
LoadRouter(m) ==
    LET Lines == {g \in PciGsis : \E s \in On(g) : saved.intx[s]}
        raised == RaiseIrq(m.ints, Lines)
    IN  [ints |-> LowerIrq(raised, PciGsis \ Lines),
         drv |-> [s \in Attached |-> IF Kind(s) = "intx" THEN [m.drv[s] EXCEPT !.out = saved.intx[s]]
                                     ELSE m.drv[s]]]

LoadDevices(m, c) ==
    EachOf("hpet", "load", EachOf("acpi", "load", EachOf("rtc", "load", m, c), c), c)

RestoreSnapshot ==
    /\ saved # None
    /\ restores < MaxRestores /\ restores' = restores + 1
    /\ LET loaded == LoadRouter([ints |-> LoadFabric(ints, saved.ints), drv |-> drv])
           m == SyncSources(LoadDevices(loaded, saved.cond), saved.cond)
       IN  /\ Becomes([m EXCEPT !.ints = FinalizeRestore(@)])
           /\ adopted' = Unclaimed(m.ints)
    /\ cond' = saved.cond
    /\ saved' = None
    /\ UNCHANGED <<wiring, switches, resets>>

-----------------------------------------------------------------------------
Guest ==
    \/ \E c \in Cpus : GuestLapicEoi(c)
    \/ \E g \in Gsis : GuestPicEoi(g)
    \/ \E s \in Attached, masked \in BOOLEAN, dest \in Cpus : GuestWritesEntry(s, masked, dest)
    \/ GuestUnmasksPic \/ GuestInitialisesPic
    \/ \E mode \in {"pic", "apic"} : GuestWritesImcr(mode)

Next ==
    \/ \E s \in Attached : DeviceRaises(s) \/ GuestServices(s)
    \/ PollSources
    \/ \E c \in Cpus : PollAndAck(c)
    \/ Guest
    \/ ResetMachine \/ SaveSnapshot \/ RestoreSnapshot

\* The run loop polls for ever.
Fairness == WF_vars(PollSources)

Spec == Init /\ [][Next]_vars /\ Fairness

-----------------------------------------------------------------------------
(* Properties. *)

\* What a PlatformIrqLine remembers counts in its own generation only.
Asserts(s) ==
    drv[s].out /\ (Kind(s) \in {"ide", "rtc", "acpi"} => drv[s].gen = ints.generation)

\* How many assertions of g the devices and the INTx router hold.
Held(g) ==
    (IF \E s \in Of({"intx"}) \cap On(g) : drv[s].out THEN 1 ELSE 0)
    + Cardinality({s \in On(g) \ Of({"intx"}) : Asserts(s)})

\* Safety: the count of a line is the number of assertions its devices hold,
\* one more when a restore left it an anonymous one, and the line is the
\* wired OR of them, across shared lines, resets and restores into a running
\* machine (update_gsi_assert_count, PlatformIrqLine, sync_levels_to_sink).
LineIsWiredOr ==
    \A g \in Gsis : On(g) \cap Of({"uart"}) = {} =>
        /\ ints.count[g] = Held(g) + (IF g \in adopted THEN 1 ELSE 0)
        /\ ints.level[g] = (ints.count[g] > 0)

\* Safety: in APIC mode an asserted level-triggered line that is unmasked has
\* its interrupt requested or in service somewhere, however masking, EOI,
\* Remote-IRR, mode switches and restores interleave.
NoLostLevelInterrupt ==
    \A g \in Gsis :
        /\ ints.mode = "apic" /\ ints.level[g]
        /\ ints.entry[g].trigger = "level" /\ ~ints.entry[g].masked
        => \E c \in Cpus : g \in ints.irr[c] \cup ints.isr[c]

\* Safety: whenever the run loop polls, it leaves every line asserted exactly
\* when some device on it wants an interrupt, unless a restore left the line
\* an anonymous assertion (sync_pci_intx_sources_to_interrupts, and the lines
\* the RTC, ACPI PM and the HPET drive by themselves).
PollSettlesLine ==
    \A g \in Gsis \ adopted : On(g) \cap Of({"uart"}) = {} =>
        SyncSources(Now, cond).ints.level[g] = (\E s \in On(g) : cond[s])

\* What the code says a line is: asserted while a device asserts it, until all
\* have deasserted.
LineFollowsDevices ==
    [][PollSources => \A g \in Gsis : ints'.level[g] = (\E s \in On(g) : cond[s])]_vars
=============================================================================
