SPECIFICATION Spec
CONSTANTS
    NSectors = 3
    Setups <- Failing
    MaxVersion = 1
    MaxSlots = 4
    MaxFaults = 1
    None = None
CHECK_DEADLOCK FALSE
INVARIANT OverlayHoldsBase
