SPECIFICATION ApiSpec
CONSTANTS
    None = None
    Requests = {r1, r2}
    Accounts = {ann}
    mail = mail
    Email <- OneAddress
    Configured = {boss}
    Apps = {app}
    MaxKeys = 6
    MaxTokens = 1
    MaxTurns = 4
    Members = {ann}
    Handles = {h}
    MaxAsked = 2
    IPs = {home, local}
    InProcess = local
    Routes = {"api", "mcp", "ingest"}
    Credentials = {ann}
    Unit = 2
    MaxBuckets = 3
    MaxClock = 2
    Chunks = {c1}
    Others = {"insert", "rename"}
    MaxAge = 2
    MaxTitles = 3
    MaxTime = 4
    Texts = {"", "x"}
    Services = {s1}
    Preset = {s1}
    MaxViews = 2
    MaxMoves = 2
    MaxPage = 2
    Titles = {t1}
    MaxPresses = 2
    MaxFaults = 1
    MaxLoads = 2
    Movies = {1, 2, 3, 4}
    Seeds = 2
    PerSeed = 2
    PerSeedPicks = 1
    PerMixPicks = 1
    MaxRecommended = 3
    Limit = 2
    Evidence = 2
    PageSize = 1
    CacheSize = 2
    Ttl = 2
    Writers = {w1}
    Readers = {q1}
    Tabs = {q1, q2}
    Midnight = 1
    MaxMinutes = 1
    MaxWrites = 2
    MaxAsks = 2
    CountTtl = 2
    SuggestTitles = 1
    Depth = 2
    MaxMoments = 3
INVARIANTS
    RemovedHoldNothing
    EndedConnectionsHoldNothing
    BucketsAsPromised
    GridAnswersFilters
    UnhurriedAddressMatches
    UnracedPressesAgree
    AnswersAddUp
PROPERTIES
    GivesOnePair
    DoneAsAsked
    NoTitleMissed
    PicksAreCurrent
CHECK_DEADLOCK FALSE
