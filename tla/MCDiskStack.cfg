SPECIFICATION Spec
CONSTANTS
    NSectors = 3
    Setups <- Disks
    MaxVersion = 1
    MaxSlots = 4
    MaxFaults = 1
    None = None
INVARIANT TypeOK
INVARIANT ReadsSeeWrites
INVARIANT CrashConfined
INVARIANT ImageOpens
INVARIANT SlotsMirrored
CHECK_DEADLOCK FALSE
