SPECIFICATION FairSpec
CONSTANTS
    Writers = {w1, w2}
    Readers = {r1}
    NFields = 3
    BUSY_BIT = 2
    MAX_SPINS = 2
    Updates = {a, b}
    NoUpdate = NoUpdate
    MaxPublishes = 1
    Mortal = {w1}
INVARIANTS TypeOK SnapshotCurrent BusyBitLocks
PROPERTY CallsReturn
