SPECIFICATION Spec
CONSTANTS
    x1 = x1
    x2 = x2
    x3 = x3
    x4 = x4
    x5 = x5
    x6 = x6
    x7 = x7
    Listings = {x1, x2}
    NameOf <- TwoNames
    RefOf <- Nothing
    OwnId <- Nothing
    HitOf <- Nothing
    Likeness <- NearHeld
    HeldTitles <- OneHeld
    HeldAliases <- NoAliases
    Chunks <- Alone
    Admins = {a1, a2}
    TmdbIds = {7, 8, 9}
    MaxTitles = 2
    MaxReviews = 2
    None = None
PROPERTIES
    RuledOnce
CHECK_DEADLOCK FALSE
