------------------------------- MODULE MCApi --------------------------------
(***************************************************************************)
(* What the API keeps for its callers, part by part: how members are let   *)
(* in (Access), how fast they may ask (RateLimit), what they keep          *)
(* (Shelves) and are picked (Picks), and the names a chunk of listings is  *)
(* matched against (FoldCache); what it answers the catalog's readers      *)
(* (Browse); and what its web client makes of the answers (Home, Toggles). *)
(* The parts share no state; a behaviour is one of one of them.            *)
(***************************************************************************)
EXTENDS Access, Sequences

CONSTANTS
    mail,
    Members, Handles, MaxAsked,
    IPs, InProcess, Routes, Credentials, Unit, MaxBuckets, MaxClock,
    Chunks, Others, MaxAge, MaxTitles, MaxTime,
    Texts, Services, Preset, MaxViews, MaxMoves, MaxPage,
    Titles, MaxPresses, MaxFaults, MaxLoads,
    Movies, Seeds, PerSeed, PerSeedPicks, PerMixPicks, MaxRecommended, Limit, Evidence, PageSize,
    CacheSize, Ttl, Writers, Readers, Tabs, Midnight, MaxMinutes, MaxWrites, MaxAsks,
    CountTtl, SuggestTitles, Depth, MaxMoments

VARIABLES
    part,
    items, film, listed, profiles, req, asked, stray,
    clock, held, recent, promised,
    now, titles, draft, writer, queued, fold, stamp, taken, chunk, since,
    hash, remembered, views, main, teardown, listeners, asks, moves, hurried,
    kept, store, painted, saved, me, saveToken, calls, had, off, raced, lost, told, presses, faults, loads,
    entries, remembers, writing, asking, view, given, minute, stamps, left, reads, syncs,
    offers, finished, tracked, own, moment, counts, walk, pages, carried, moved, truths

BurstOf ==
    [n \in {"member", "anonymous", "address", "writes", "sign_in", "assistant", "oauth"} |->
        CASE n = "address" -> 5 [] n = "member" -> 3 [] OTHER -> 2]

(* Everybody has signed in with one address, through several providers.    *)
OneAddress == [a \in Accounts |-> mail]
S == INSTANCE Shelves
L == INSTANCE RateLimit WITH PerTick <- [n \in DOMAIN BurstOf |-> 1], Burst <- BurstOf, MaxTime <- MaxClock
F == INSTANCE FoldCache

BarSays ==
    [type |-> {}, available |-> {}, sort |-> {"name"}, runtimeMax |-> {"90"},
     years |-> {}, scoreMin |-> {}]
PagesOf == [q \in Texts |-> IF q = "" THEN 3 ELSE 0]
LinksThere ==
    {[page |-> "home", params |-> <<>>], [page |-> "other", params |-> <<>>],
     [page |-> "home", params |-> [type |-> "series"]]}

H == INSTANCE Home WITH Values <- BarSays, Genres <- {}, Pages <- PagesOf, Links <- LinksThere
T == INSTANCE Toggles

(* A favourite that is like the others in one way each, and a stranger.    *)
Made(genres, directors, cast, year, score) ==
    [genres |-> genres, directors |-> directors, cast |-> cast, year |-> year, score |-> score,
     languages |-> {"he"}, kinds |-> {"movie"}]
Films ==
    <<Made({"drama"}, {"ann"}, {}, 2001, 80), Made({"war"}, {}, {"bob"}, 2010, 70),
      Made({"drama"}, {}, {}, None, None), Made({"drama", "war"}, {}, {"bob"}, 1999, 75)>>
Dices == [d \in 1 .. 2 |-> [t \in Movies |-> IF d = 1 THEN t * 20 ELSE 100 - t * 20]]

Rare == [drama |-> 70, war |-> 300]
Offers == <<Movies, Movies \ {3}>>

(* Picks, while the member writes ...                                      *)
P == INSTANCE Picks WITH
    Titles <- Movies, Film <- Films, Dice <- Dices, Rarity <- Rare, Catalogs <- Offers,
    Sayings <- {<<1, 8>>, <<4, 0>>}, Beginnings <- {<<10, 9>>}, Filters <- {Movies},
    kept <- remembers, asks <- reads

(* ... and while only time passes, read page by page, by two at once.      *)
Q == INSTANCE Picks WITH
    Titles <- Movies, Film <- Films, Dice <- Dices, Rarity <- Rare, Catalogs <- Offers,
    Sayings <- {}, Beginnings <- {<<10, 9>>}, Filters <- {Movies},
    kept <- remembers, asks <- reads,
    Writers <- {}, Readers <- Tabs, MaxMinutes <- 2, MaxWrites <- 0, MaxAsks <- 3

(* Two titles that are called alike; one that members added, of no known   *)
(* score, on two services, of which one rents and sells.                   *)
Cards ==
    <<[he |-> <<"hagod">>, en |-> <<"old", "godfather">>, overview |-> {},
       score |-> 70, year |-> None, votes |-> 5, length |-> 7],
      [he |-> <<>>, en |-> <<"god", "war">>, overview |-> {"godfather"},
       score |-> None, year |-> 1972, votes |-> 1, length |-> 6]>>
Asked(word, services, available, exclude, member) ==
    [word |-> word, services |-> services, available |-> available, through |-> {1, 2},
     exclude |-> exclude, member |-> member]

Questions ==
    {Asked("god", {"a"}, "any", None, None), Asked(None, {"a", "other"}, "current", "watched", "ann"),
     Asked(None, {"a", "other"}, "current", "watched", "bob")}
OneWayEach == [a |-> {"rent"}, b |-> {"stream"}]
SeveralWays == [a |-> {"rent", "buy"}, b |-> {"stream"}]
Starting == [god |-> {"god", "godfather"}, father |-> {"father"}]
Inside == [god |-> {"hagod"}, father |-> {"godfather"}]
Glued == [god |-> {"hagod"}, father |-> {}]
Swept ==
    {[title |-> t, service |-> "a", kind |-> "rent", first |-> 0, current |-> t = 1] : t \in {1, 2}}

(* Readers, while titles come and go ...                                   *)
B == INSTANCE Browse WITH
    Titles <- {1, 2}, Services <- {"a", "b"}, Members <- {"ann", "bob"}, Card <- Cards,
    Offerings <- OneWayEach, Added <- {2}, Words <- {"god", "father"},
    Starts <- Starting, Within <- Inside,
    Beginnings <- {{o \in Swept : o.current}}, Sorts <- {<<"relevance", None>>, <<"year", "asc">>},
    Ttl <- CountTtl, MaxTime <- MaxMoments, LastChange <- MaxMoments - 1, Delays <- {0},
    now <- moment, asks <- pages

(* ... and what is news, as syncs and rulings find titles.                 *)
N == INSTANCE Browse WITH
    Titles <- {1, 2}, Services <- {"a", "b"}, Members <- {"ann", "bob"}, Card <- Cards,
    Offerings <- SeveralWays, Added <- {2}, Words <- {"god", "father"},
    Starts <- Starting, Within <- Inside,
    Beginnings <- {{}, Swept}, Sorts <- {}, MaxAsks <- 0,
    Ttl <- CountTtl, MaxTime <- MaxMoments, LastChange <- MaxMoments, Delays <- 0 .. MaxMoments,
    now <- moment, asks <- pages

ASSUME ApiAssumption ==
    /\ AccessAssumption /\ S!ShelvesAssumption /\ L!RateLimitAssumption
    /\ F!FoldCacheAssumption /\ H!HomeAssumption /\ T!TogglesAssumption
    /\ P!PicksAssumption /\ Q!PicksAssumption /\ B!BrowseAssumption /\ N!BrowseAssumption

access == vars
shelves == <<items, film, listed, profiles, req, asked, stray>>
buckets == <<clock, held, recent, promised>>
folds == <<now, titles, draft, writer, queued, fold, stamp, taken, chunk, since>>
home == <<hash, remembered, views, main, teardown, listeners, asks, moves, hurried>>
toggles == <<kept, store, painted, saved, me, saveToken, calls, had, off, raced, lost, told, presses,
             faults, loads>>
picks == <<entries, remembers, writing, asking, view, given, minute, stamps, left, reads, syncs>>
browse == <<offers, finished, tracked, own, moment, counts, walk, pages, carried, moved,
            truths>>
api == <<part, access, shelves, buckets, folds, home, toggles, picks, browse>>

(* Where a part can begin in several ways, it does so when its turn comes. *)
ApiInit ==
    /\ part \in {"access", "shelves", "buckets", "folds", "home", "toggles", "picks", "pages",
                "browse", "news"}
    /\ Init /\ L!Init /\ F!Init /\ (IF part = "pages" THEN Q!Init ELSE P!Init)
    /\ S!Init /\ (part # "shelves" => film /\ listed /\ \A m \in Members : items[m] = None)
    /\ H!Init /\ (part # "home" => remembered = {} /\ hash.page = "other")
    /\ T!Init /\ (part # "toggles" => saved = {} /\ \A t \in Titles : kept[t] = {})
    /\ IF part = "browse" THEN B!Init ELSE N!Init /\ (part # "news" => offers = {})

ApiNext ==
    \/ /\ part = "access" /\ Next
       /\ UNCHANGED <<part, shelves, buckets, folds, home, toggles, picks, browse>>
    \/ /\ part = "shelves" /\ S!Next
       /\ UNCHANGED <<part, access, buckets, folds, home, toggles, picks, browse>>
    \/ /\ part = "buckets" /\ L!Next
       /\ UNCHANGED <<part, access, shelves, folds, home, toggles, picks, browse>>
    \/ /\ part = "folds" /\ F!Next
       /\ UNCHANGED <<part, access, shelves, buckets, home, toggles, picks, browse>>
    \/ /\ part = "home" /\ H!Next
       /\ UNCHANGED <<part, access, shelves, buckets, folds, toggles, picks, browse>>
    \/ /\ part = "toggles" /\ T!Next
       /\ UNCHANGED <<part, access, shelves, buckets, folds, home, picks, browse>>
    \/ /\ part = "picks" /\ P!Next
       /\ UNCHANGED <<part, access, shelves, buckets, folds, home, toggles, browse>>
    \/ /\ part = "pages" /\ Q!Next
       /\ UNCHANGED <<part, access, shelves, buckets, folds, home, toggles, browse>>
    \/ /\ part = "browse" /\ B!Next /\ UNCHANGED finished
       /\ UNCHANGED <<part, access, shelves, buckets, folds, home, toggles, picks>>
    \/ /\ part = "news" /\ N!Next /\ UNCHANGED own
       /\ UNCHANGED <<part, access, shelves, buckets, folds, home, toggles, picks>>

ApiSpec == ApiInit /\ [][ApiNext]_api

(* Every part keeps its types.                                             *)
ApiTypeOK ==
    TypeOK /\ S!TypeOK /\ L!TypeOK /\ F!TypeOK /\ H!TypeOK /\ T!TypeOK /\ P!TypeOK
    /\ B!TypeOK

(* A request nobody else was committed under does what it was asked.       *)
DoneAsAsked == S!DoneAsAsked

(* A caller has left what the calls let through have left of it.           *)
BucketsAsPromised == part = "buckets" => L!BucketsAsPromised

(* A fold that is handed over has every title, and no other.               *)
NoTitleMissed == F!NoTitleMissed

(* A grid shows answers to its own filters, each page once, in order.      *)
GridAnswersFilters == part = "home" => H!GridAnswersFilters

(* A viewer who waits for pages sees what the address says.                *)
UnhurriedAddressMatches == part = "home" => H!UnhurriedAddressMatches

(* What is pressed once at a time ends as the server has it.               *)
UnracedPressesAgree == part = "toggles" => T!UnracedPressesAgree

(* What is picked is of the member's lists as they are.                    *)
PicksAreCurrent == P!PicksAreCurrent

(* The pages of the picks are one list; and the catalog's readers are      *)
(* answered as they were told, and see all there is, and as news only what *)
(* was not there already.                                                  *)
AnswersAddUp ==
    /\ P!PagesAddUp
    /\ part = "browse" => B!ReadersAreAnswered
    /\ part = "news" => N!RowsAreReadRight
=============================================================================
