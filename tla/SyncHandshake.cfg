SPECIFICATION MCSpec
CONSTANTS
    Fetchers = {f1, f2}
    Listings = {x1, x2}
    MissLimit = 2
    GuardMin = 2
    ChunkSize = 1
    AbandonedAfter = 1
    MaxRuns = 2
    MaxOverlapping = 4
    MaxOrphans = 0
    Skews <- Behind
    None = None
INVARIANTS
    EveryListingCountedOnce
PROPERTIES
    NothingLostWithoutBelief
    ExpiredParksWereNotSeen
CHECK_DEADLOCK FALSE
SYMMETRY Interchangeable
