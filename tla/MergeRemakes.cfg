SPECIFICATION Spec
CONSTANTS
    Titles = {1, 2, 3}
    Names = {1, 2}
    Years = {1, 3}
    Ids = {1, 2, 3}
    Catalogs <- SomeCatalogs
    Hits <- SomeHits
    Records <- SomeRecords
    Sources = {"kan"}
    Providers = {"imdb"}
    Users = {"ann", "bob"}
    Offered <- SomeOffers
    Fetched <- SomeRatings
    Kept <- SomeLists
    MaxAdded = 1
    None = None
PROPERTIES
    RemakesStand
CHECK_DEADLOCK FALSE
