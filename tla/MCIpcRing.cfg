SPECIFICATION FairSpec
CONSTANTS
    p1 = p1
    p2 = p2
    Producers = {p1, p2}
    Cap = 5
    CursorMod = 10
    PayloadLens = {1, 5, 17}
    StartCursors = {0, 8}
    PopLimits = {4}
    MaxPushes = 2
    NoWord = NoWord
INVARIANTS
    TypeOK
    RecordContiguous
    NoDataRace
    NeverCorrupt
PROPERTIES
    HeadStaysBehindCommit
    ImplementsQueue
    EveryRecordDelivered
