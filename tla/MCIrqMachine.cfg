SPECIFICATION Spec
CONSTANTS
    Gsis = {9, 10}
    Cpus = {0}
    MaxCount = 3
    Wirings <- Board
    MaxSwitches = 2
    MaxResets = 1
    MaxRestores = 1
    None = None
INVARIANT LineIsWiredOr
INVARIANT NoLostLevelInterrupt
INVARIANT PollSettlesLine
