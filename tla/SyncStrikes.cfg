SPECIFICATION MCSpec
CONSTANTS
    Fetchers = {f1, f2}
    Listings = {x1}
    MissLimit = 2
    GuardMin = 2
    ChunkSize = 1
    AbandonedAfter = 4
    MaxRuns = 4
    MaxOverlapping = 3
    MaxOrphans = 1
    Skews <- Agreeing
    None = None
INVARIANTS
    TypeOK
    StrikesAreEarned
PROPERTIES
    KeepsTwoStrikesApart
CHECK_DEADLOCK FALSE
SYMMETRY Interchangeable
