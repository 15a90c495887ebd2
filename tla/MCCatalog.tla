----------------------------- MODULE MCCatalog ------------------------------
(***************************************************************************)
(* From a service's pages to the catalog, part by part: when a host may be *)
(* asked again (Politeness), what of a storefront's listings and of a      *)
(* service's own pages is offered (Storefront, Scrapers) and what title    *)
(* each offer is for (Match); and, from the far end of the system, what    *)
(* becomes of a member's note (Notes), of what a viewer types (Suggest)    *)
(* and of the answers of a reviewer (Queue).  The parts share no state; a  *)
(* behaviour is one of one of them.                                        *)
(***************************************************************************)
EXTENDS MCMatch, Sequences

CONSTANTS
    r1, r2, Readers, DefaultInterval, Attempts, Reloads, SettleTime, RetryAfters, MaxTime, MaxSent,
    PageSize, MaxPages, MaxPage, MaxErrors, MaxMoves, MaxFailures,
    MaxLength, MaxStored,
    Words, Short, MaxTyped, MaxBlurs,
    Rows, PageLength, Tabs, MaxCalls, MaxOpened,
    Films, MaxStreak

VARIABLES
    part,
    now, overrides, nextAllowed, req, sent, spacing,
    listed, at, asking, todo, next, pages, reported, hits, seen, truncated, errors, streak,
    yielded, stirred, moves, failures,
    page, posted, stored, pc, kept,
    box, focused, timer, inFlight, list, searching, address, changed, blurs, typing, typed,
    rows, titled, tab, call, opened, told, raced,
    plugin, site, doing, doc, barred, found, due, offset, total, turned, cut, wrong, spell, owed,
    offered, shuffled

(* One host, whose rate a plugin may lower.                                *)
Host == "host"
H == INSTANCE Politeness WITH
        Hosts <- {Host}, Overrides <- [h \in {Host} |-> {2}], Backoff <- <<{1}, {2}>>

(* A store with three films of one year, one of which it does not sell any *)
(* more, a film of another, a film without a date, and a series.           *)
Shop == <<
    [query |-> 1, sells |-> {"rent"}],
    [query |-> 1, sells |-> {"rent", "buy"}],
    [query |-> 1, sells |-> {}],
    [query |-> 2, sells |-> {"buy"}],
    [query |-> None, sells |-> {"buy"}],
    [query |-> 3, sells |-> {"buy"}]>>
S == INSTANCE Storefront WITH
        Titles <- DOMAIN Shop, Listings <- <<"movie", "movie", "series">>,
        Kinds <- <<"movie", "series">>, Verified <- {"rent", "buy"},
        InListing <- [t \in DOMAIN Shop |-> Shop[t].query],
        Sells <- [t \in DOMAIN Shop |-> Shop[t].sells],
        MaxFaults <- MaxFailures, pc <- at, page <- next, faults <- failures

T == INSTANCE Notes WITH Pages <- {}, Plains <- {}, sent <- posted

(* What a browser may leave in the editor: every page of four nodes of a   *)
(* few elements, and of two nodes of all of them.                          *)
Leaves == {<<T!Text("x")>>, <<T!Text(" ")>>, <<T!Br>>}
Common == {<<"p", None>>, <<"div", "rtl">>, <<"b", None>>, <<"a", "https">>}
Rare == {<<"h1", "ltr">>, <<"p", "heavy">>, <<"i", None>>, <<"b", "normal">>, <<"strong", None>>,
         <<"a", "javascript">>, <<"script", None>>, <<"span", None>>}

RECURSIVE Forests(_, _)
Forests(elements, n) ==
    IF n = 0 THEN {<<>>}
    ELSE LET after == [k \in 0 .. n - 1 |-> Forests(elements, k)]
         IN  after[n - 1]
             \cup {leaf \o rest : leaf \in Leaves, rest \in after[n - 1]}
             \cup UNION {{<<T!Open(e[1], e[2])>> \o inner \o <<T!Close(e[1])>> \o rest :
                             e \in elements, inner \in after[k], rest \in after[n - 1 - k]} :
                            k \in 0 .. n - 1}

M == INSTANCE Notes WITH
        Pages <- Forests(Common, 4) \cup Forests(Common \cup Rare, 2),
        Plains <- UNION {[1 .. n -> {T!Text("x"), T!Text(" "), T!Text("\n")}] : n \in 0 .. 4},
        sent <- posted

B == INSTANCE Suggest WITH
        Links <- {[page |-> "home", q |-> ""], [page |-> "home", q |-> "fa"], [page |-> "other", q |-> ""]}

(* Two parks of one film that nobody holds; for the second the matcher had *)
(* a suggestion.                                                           *)
Q == INSTANCE Queue WITH
        SourceOf <- [r \in Rows |-> "mako"], Closeness <- [r \in Rows |-> r - 1], Numbered <- Rows

(* What a service may publish: a listing whose first film was sold twice,  *)
(* pages of films free, sold, unreadable or no offers, lobbies, screens.   *)
UpTo(elements, n) == UNION {[1 .. k -> elements] : k \in 0 .. n}
Shown(film, is, price, sold) == [film |-> film, is |-> is, price |-> price, sold |-> sold]
Entries == {Shown(1, "offer", 0, 1), Shown(2, "offer", 15, 1), Shown(2, "unusable", 15, 1),
            Shown(3, "other", 0, 1)}
Sales == {Shown(1, "offer", 15, 1), Shown(1, "offer", 20, 2), Shown(1, "other", 15, 3),
          Shown(2, "offer", 15, 1), Shown(2, "unusable", 15, 1)}
Programmes == {Shown(1, "offer", None, 1), Shown(2, "offer", None, 1), Shown(2, "unusable", None, 1)}
Screens == Programmes \cup {Shown(3, "other", None, 1)}
Published ==
    [p \in {"lev_vod", "cinematheque_vod", "mako", "freetv"} |->
        {<<d>> : d \in UpTo(CASE p = "lev_vod" -> Sales [] p = "cinematheque_vod" -> Entries
                               [] OTHER -> Programmes, 3)}]
    @@ [p \in {"kan", "reshet13"} |-> [1 .. 2 -> UpTo(IF p = "kan" THEN Programmes ELSE Screens, 2)]]
    @@ [p \in {"israel_film_archive", "disney_plus_il"} |->
           UpTo(UpTo(IF p = "israel_film_archive" THEN Entries ELSE Programmes, 2), 2)]

W == INSTANCE Scrapers WITH
        Sites <- Published, MaxErrors <- MaxStreak, pc <- doing, todo <- due, seen <- offset,
        truncated <- cut, errors <- wrong, streak <- spell, yielded <- offered, stirred <- shuffled

ASSUME CatalogAssumption ==
    /\ H!PolitenessAssumption /\ S!StorefrontAssumption /\ B!SuggestAssumption
    /\ Q!QueueAssumption /\ W!ScrapersAssumption

tables == <<db, committed, chunk, ruling>>
hosts == <<now, overrides, nextAllowed, req, sent, spacing>>
shop == <<listed, at, asking, todo, next, pages, reported, hits, seen, truncated, errors, streak,
          yielded, stirred, moves, failures>>
paper == <<page, posted, stored, pc, kept>>
search == <<box, focused, timer, inFlight, list, searching, address, changed, blurs, typing, typed>>
desk == <<rows, titled, tab, call, opened, told, raced>>
reader == <<plugin, site, doing, doc, barred, found, due, offset, total, turned, cut, wrong, spell,
            owed, offered, shuffled>>

PartsInit ==
    /\ part \in {"match", "hosts", "shop", "note", "search", "queue", "scrape"}
    /\ Init /\ H!Init /\ S!Init /\ Q!Init
    /\ W!Init /\ (part # "scrape" => plugin = "mako" /\ site = <<<<>>>>)
    /\ IF part = "note" THEN M!Init
       ELSE page = <<>> /\ posted = None /\ stored = None /\ pc = "editing" /\ kept = TRUE
    /\ B!Init /\ (part # "search" => address.page = "other")

PartsNext ==
    \/ part = "match" /\ Next /\ UNCHANGED <<part, hosts, shop, paper, search, desk, reader>>
    \/ part = "hosts" /\ H!Next /\ UNCHANGED <<part, tables, shop, paper, search, desk, reader>>
    \/ part = "shop" /\ S!Next /\ UNCHANGED <<part, tables, hosts, paper, search, desk, reader>>
    \/ part = "note" /\ M!Next /\ UNCHANGED <<part, tables, hosts, shop, search, desk, reader>>
    \/ part = "search" /\ B!Next /\ UNCHANGED <<part, tables, hosts, shop, paper, desk, reader>>
    \/ part = "queue" /\ Q!Next /\ UNCHANGED <<part, tables, hosts, shop, paper, search, reader>>
    \/ part = "scrape" /\ W!Next /\ UNCHANGED <<part, tables, hosts, shop, paper, search, desk>>

PartsSpec == PartsInit /\ [][PartsNext]_<<part, tables, hosts, shop, paper, search, desk, reader>>

(* Every part keeps its types.                                             *)
PartsTypeOK == TypeOK /\ H!TypeOK /\ S!TypeOK /\ M!TypeOK /\ B!TypeOK /\ Q!TypeOK /\ W!TypeOK

(* No host is asked more often than its rate, or sooner than it asked to   *)
(* be (http.py).                                                           *)
HostsAreSpared == H!HostsAreSpared

(* What a reading leaves out it has said, what it could not read it does   *)
(* not make up, and a refusal costs nothing (tmdb_providers.py, lev_vod.py *)
(* and the other plugins of sources/).                                     *)
ReadingsAreHonest ==
    /\ S!LeftOutIsSaid
    /\ W!LeftOutIsSaid /\ W!FreeMeansFree /\ W!NothingOfARefusal

(* Editor and server read a note alike (note.js, notes.py).                *)
NotesComeBack == M!NotesComeBack

(* Whoever types is caught up with (suggest.js, app.js).                   *)
TypistIsAnswered == B!TypistIsAnswered

(* What the review page says was ruled was ruled (review.js, reviews.py).  *)
ToldIsSo == Q!ToldIsSo
=============================================================================
