SPECIFICATION PartsSpec
CONSTANTS
    x1 = x1
    x2 = x2
    x3 = x3
    x4 = x4
    x5 = x5
    x6 = x6
    x7 = x7
    Listings = {x1, x3, x4, x5, x6, x7}
    NameOf <- AllNames
    RefOf <- AllRefs
    OwnId <- AllIds
    HitOf <- AllHits
    Likeness <- AllLike
    HeldTitles <- OneHeld
    HeldAliases <- NoAliases
    Chunks <- Batches
    Admins = {a1}
    TmdbIds = {7, 8, 9}
    MaxTitles = 4
    MaxReviews = 3
    r1 = r1
    r2 = r2
    Readers = {r1, r2}
    DefaultInterval = 1
    Attempts = 2
    Reloads = 2
    SettleTime = 1
    RetryAfters = {0, 2}
    MaxTime = 3
    MaxSent = 5
    PageSize = 1
    MaxPages = 2
    MaxPage = 2
    MaxErrors = 2
    MaxMoves = 2
    MaxFailures = 2
    MaxLength = 3
    MaxStored = 8
    Words = {"", "fa", "fauda"}
    Short = {""}
    MaxTyped = 3
    MaxBlurs = 2
    Rows = {1, 2}
    PageLength = 2
    Tabs = {t1}
    MaxCalls = 2
    MaxOpened = 1
    Films = {1, 2, 3}
    MaxStreak = 3
    None = None
INVARIANTS
    AliasesHold
    HostsAreSpared
    ReadingsAreHonest
    NotesComeBack
    TypistIsAnswered
    ToldIsSo
PROPERTIES
    NothingDropped
    BindingsStick
CHECK_DEADLOCK FALSE
