SPECIFICATION Spec
CONSTANTS
    p1 = p1
    p2 = p2
    c = c
    Producers = {p1, p2}
    Contexts = {{p1, p2}}
    Consumer = c
    Cap = 4
    Sizes = {1}
    MaxPushes = 1
CHECK_DEADLOCK FALSE
PROPERTY CommitReturns
