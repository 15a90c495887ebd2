SPECIFICATION Spec
CONSTANTS
    x1 = x1
    x2 = x2
    x3 = x3
    x4 = x4
    x5 = x5
    x6 = x6
    x7 = x7
    Listings = {x1, x2}
    NameOf <- TwoNames
    RefOf <- OwnRefs
    OwnId <- Nothing
    HitOf <- Nothing
    Likeness <- NearHeld
    HeldTitles <- OneHeld
    HeldAliases <- NoAliases
    Chunks <- Alone
    Admins = {a1}
    TmdbIds = {7, 8, 9}
    MaxTitles = 3
    MaxReviews = 3
    None = None
PROPERTIES
    BindingsStick
CHECK_DEADLOCK FALSE
