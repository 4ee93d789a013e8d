SPECIFICATION Spec
CONSTANTS
    r1 = r1
    r2 = r2
    j1 = j1
    j2 = j2
    Rips = {r1, r2}
    Jobs = {j1, j2}
    NPages = 2
    FirstPage <- SamePage
    SnapSpan = 2
    Tracked = 2
    VerMod = 2
    MAX_SNAPSHOT_PAGES = 1
    hot_threshold = 1
    ProfileCapacity = 1
    MaxCount = 1
    max_blocks = 1
    max_bytes = 3
    Uncompilable = {r1}
    MaxWrites = 2
    MaxResets = 1
SYMMETRY Symmetry
INVARIANT TypeOK
INVARIANT ValidMeansFresh
INVARIANT CacheWithinLimits
INVARIANT ProfileConsistent
INVARIANT RequestsAccounted
