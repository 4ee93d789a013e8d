SPECIFICATION Spec
CONSTANTS
    p1 = p1
    p2 = p2
    c = c
    Producers = {p1, p2}
    Contexts = {{}, {p1, p2}}
    Consumer = c
    Cap = 3
    Sizes = {1, 2}
    MaxPushes = 2
CHECK_DEADLOCK FALSE
INVARIANTS NoLostDataWakeup
PROPERTIES CommitReturnsOneSleeper RingDrains SpinningPushReturns
