---------------------------- MODULE MCIrqMachine ----------------------------
(* Instances of IrqMachine for TLC: which devices drive which lines. *)
EXTENDS IrqMachine

One(k, g, t) == <<[kind |-> k, gsi |-> g, trigger |-> t]>>
Two(k1, k2, g) == One(k1, g, "level") \o One(k2, g, "level")

ComPort == {One("uart", 9, "edge")}

\* HPET timer 2 shares GSI 10 with PCI INTA; the ISA devices have lines of
\* their own (RTC, SCI and IDE are told apart by kind, not by number).
Board == {Two("intx", "hpet", 10), Two("intx", "intx", 10),
          One("rtc", 9, "edge"), One("ide", 9, "edge"), One("acpi", 9, "level")}
         \cup ComPort
=============================================================================
