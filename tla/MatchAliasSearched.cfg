SPECIFICATION Spec
CONSTANTS
    x1 = x1
    x2 = x2
    x3 = x3
    x4 = x4
    x5 = x5
    x6 = x6
    x7 = x7
    Listings = {x1}
    NameOf <- TwoNames
    RefOf <- Nothing
    OwnId <- Nothing
    HitOf <- AllHit7
    Likeness <- NearHeld
    HeldTitles <- HeldApart
    HeldAliases <- OneAlias
    Chunks <- Alone
    Admins = {a1}
    TmdbIds = {7, 8, 9}
    MaxTitles = 2
    MaxReviews = 2
    None = None
INVARIANTS
    AliasesHold
CHECK_DEADLOCK FALSE
