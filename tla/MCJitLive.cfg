SPECIFICATION LoopSpec
CONSTANTS
    r1 = r1
    r2 = r2
    j1 = j1
    j2 = j2
    Rips = {r1, r2}
    Jobs = {j1}
    NPages = 2
    FirstPage <- Firsts
    SnapSpan = 1
    Tracked = 2
    VerMod = 3
    MAX_SNAPSHOT_PAGES = 2
    hot_threshold = 2
    ProfileCapacity = 2
    MaxCount = 3
    max_blocks = 1
    max_bytes = 0
    Uncompilable = {r2}
    MaxWrites = 1
    MaxResets = 1
PROPERTY HotBlockCompiled
