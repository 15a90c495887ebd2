SPECIFICATION Spec
CONSTANTS
    x1 = x1
    x2 = x2
    x3 = x3
    x4 = x4
    x5 = x5
    x6 = x6
    x7 = x7
    Listings = {x1, x2}
    NameOf <- OneName
    RefOf <- OwnRefs
    OwnId <- Nothing
    HitOf <- Nothing
    Likeness <- Strangers
    HeldTitles <- NothingHeld
    HeldAliases <- NoAliases
    Chunks <- Together
    Admins = {a1}
    TmdbIds = {7, 8, 9}
    MaxTitles = 2
    MaxReviews = 1
    None = None
PROPERTIES
    FiledIsBound
CHECK_DEADLOCK FALSE
