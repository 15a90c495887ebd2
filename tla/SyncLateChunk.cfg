SPECIFICATION MCSpec
CONSTANTS
    Fetchers = {f1}
    Listings = {x1}
    MissLimit = 2
    GuardMin = 2
    ChunkSize = 1
    AbandonedAfter = 9
    MaxRuns = 4
    MaxOverlapping = 4
    MaxOrphans = 1
    Skews <- Agreeing
    None = None
INVARIANTS
    FailedRunsSayWhy
CHECK_DEADLOCK FALSE
