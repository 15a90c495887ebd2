SPECIFICATION MCSpec
CONSTANTS
    Fetchers = {f1, f2}
    Listings = {x1}
    MissLimit = 2
    GuardMin = 2
    ChunkSize = 1
    AbandonedAfter = 9
    MaxRuns = 4
    MaxOverlapping = 4
    MaxOrphans = 0
    Skews <- Agreeing
    None = None
PROPERTIES
    SeenOffersStand
CHECK_DEADLOCK FALSE
