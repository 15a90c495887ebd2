SPECIFICATION UpkeepSpec
CONSTANTS
    None = None
    Fetchers = {f1, f2}
    MaxTitles = 2
    Batch = 1
    Refresh = 1
    HotRefresh = 1
    Retry = 1
    RetryError = 1
    RetryMax = 2
    Narrowed = TRUE
    MaxFaults = 1
    MaxByHand = 1
    Pages = {1, 2, 3, 4, 5}
    Withdrawn = {5}
    Empty = {2}
    Barred = {3}
    BatchSize = 3
    SendEvery = 2
    Streak = 2
    MaxOutages = 1
    Titles = {film, other}
    Kind <- AllFilms
    Providers = {"tmdb", "imdb"}
    Ids = {i1}
    Requests = {r1, r2}
    MaxScore = 2
    MaxReports = 2
    Copies = {1, 2, 3}
    Users = {"ann", "bob"}
    MaxAdded = 1
PROPERTIES
    NoScoreSleptOn
    EveryTitleComesUp
    EveryPageRead
    EveryScoreSettles
    UnracedReportsCount
    MergesKeepEverything
CHECK_DEADLOCK FALSE
