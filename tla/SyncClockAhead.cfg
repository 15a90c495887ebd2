SPECIFICATION MCSpec
CONSTANTS
    Fetchers = {f1}
    Listings = {x1}
    MissLimit = 2
    GuardMin = 2
    ChunkSize = 1
    AbandonedAfter = 9
    MaxRuns = 2
    MaxOverlapping = 2
    MaxOrphans = 0
    Skews <- Ahead
    None = None
PROPERTIES
    ExpiredParksWereNotSeen
CHECK_DEADLOCK FALSE
