-------------------------------- MODULE Home --------------------------------
(***************************************************************************)
(* The catalog page of the web client: the hash router, the filters that   *)
(* live in the address, and a grid that is searched, filtered and scrolled *)
(* while earlier answers are still on their way.  The browser runs one     *)
(* callback at a time, so an action is what runs between two awaits.       *)
(* A page of titles is the question it answers: its filters and number.    *)
(***************************************************************************)
EXTENDS Naturals, Sequences, FiniteSets, TLC, FiniteSetsExt, SequencesExt

CONSTANTS
    Texts,      \* what may be typed in the search box, "" among them
    Services,   \* the tracked services with titles
    Preset,     \* the member's own services
    Values,     \* by filter: what else its control in the bar may say
    Genres,
    Pages,      \* by text: how many pages of titles answer it
    Links,      \* the addresses that links and the back button lead to
    MaxViews,   \* bound: pages visited
    MaxMoves,   \* bound: what the viewer does
    MaxPage,    \* bound: scrolling
    None

Default == [q |-> "", sources |-> {}, type |-> "", available |-> "current", sort |-> "",
            order |-> "", years |-> "", genres |-> {}, scoreMin |-> "", runtimeMax |-> ""]
Fields == DOMAIN Default

HomeAssumption ==
    /\ "" \in Texts /\ Pages \in [Texts -> Nat]
    /\ Preset \subseteq Services
    /\ DOMAIN Values \subseteq Fields
    /\ \A h \in Links : h.page \in {"home", "other"} /\ DOMAIN h.params \subseteq Fields
    /\ {MaxViews, MaxMoves, MaxPage} \subseteq Nat

VARIABLES
    hash,       \* the address: a page and the filters written in it
    remembered, \* localStorage: the services last chosen
    views,      \* every page rendered so far, in the order of the visits
    main,       \* the view whose nodes are in <main>
    teardown,   \* the view whose teardown the router holds
    listeners,  \* the views that hear the header's box, in order
    asks,       \* requests on their way
    moves, hurried   \* bounds and history: what the viewer did, and whether too soon

vars == <<hash, remembered, views, main, teardown, listeners, asks, moves, hurried>>

-----------------------------------------------------------------------------
(* The filters, the address and the bar.                                   *)

SlipDropsOrder(f) == [n \in {m \in Fields : f[m] # Default[m]} \ {"order"} |-> f[n]]

(* filtersToParams: only what differs from the default is written.         *)
Params(f) == [n \in {m \in Fields : f[m] # Default[m]} |-> f[n]]

(* paramsToFilters, and the remembered services where none are named.      *)
Parsed(params) ==
    [n \in Fields |-> IF n \in DOMAIN params THEN params[n]
                      ELSE IF n = "sources" THEN remembered ELSE Default[n]]

(* sortDirection's arrow: only disagreement is written down.               *)
Flipped(f) == IF f.order # "" THEN "" ELSE IF f.sort = "name" THEN "desc" ELSE "asc"

(* What one press in the bar changes: onChange's patches.                  *)
Patches(f) ==
    {[type |-> k] : k \in Values.type \ {"series"}}
    \cup {[type |-> k, runtimeMax |-> ""] : k \in Values.type \cap {"series"}}
    \cup {[available |-> a] : a \in Values.available}
    \cup {[sort |-> s, order |-> ""] : s \in Values.sort}
    \cup {[order |-> Flipped(f)] : s \in {f.sort} \ {""}}
    \cup {IF f.runtimeMax = m THEN [runtimeMax |-> ""]
          ELSE [runtimeMax |-> m, type |-> "movie"] : m \in Values.runtimeMax}
    \cup {[years |-> IF f.years = y THEN "" ELSE y] : y \in Values.years}
    \cup {[scoreMin |-> s] : s \in Values.scoreMin}
    \cup {[genres |-> SymDiff(f.genres, {g})] : g \in Genres}
    \cup {[sources |-> SymDiff(f.sources, {s})] : s \in Services}
    \cup {[sources |-> s] : s \in {Services, {}, IF f.sources = Preset THEN {} ELSE Preset}}

-----------------------------------------------------------------------------
Views == 1 .. MaxViews
Absent == [page |-> None, phase |-> "none"]
Fresh(h) ==
    [page |-> h.page, phase |-> "coming", filters |-> Parsed(h.params), next |-> 1,
     loaded |-> <<>>, loading |-> FALSE, done |-> FALSE, error |-> FALSE, token |-> 0]
Newest == CHOOSE i \in Views : views[i].phase # "none"
                               /\ \A j \in Views : j > i => views[j].phase = "none"

Init ==
    /\ remembered \in SUBSET Services
    /\ hash \in Links
    /\ views = [i \in Views |-> IF i = 1 THEN Fresh(hash) ELSE Absent]
    /\ main = None /\ teardown = None /\ listeners = <<>> /\ asks = {}
    /\ moves = 0 /\ hurried = FALSE

(* load, up to its request: v is the view with the new question in it.     *)
Asking(v) == [v EXCEPT !.loading = TRUE, !.error = FALSE, !.token = @ + 1]
Request(i, v, reset, first) ==
    [view |-> i, token |-> v.token + 1, filters |-> v.filters, page |-> v.next,
     reset |-> reset, first |-> first, step |-> "titles"]
Load(i, v, reset, first) ==
    /\ views' = [views EXCEPT ![i] = Asking(v)]
    /\ asks' = asks \cup {Request(i, v, reset, first)}

(* The router is still waiting for a page it has begun to render.          *)
Coming == (\E i \in Views : views[i].phase = "coming") \/ (\E a \in asks : a.first)

Moved(tooSoon) ==
    /\ moves < MaxMoves /\ moves' = moves + 1
    /\ hurried' = (hurried \/ tooSoon)

(* createRouter's render, up to its await: what was on screen is torn down *)
(* if its teardown has come by now.                                        *)
Go(h) ==
    /\ Newest < MaxViews /\ h # hash
    /\ hash' = h
    /\ views' = [views EXCEPT ![Newest + 1] = Fresh(h)]
    /\ listeners' = IF teardown = None THEN listeners ELSE Remove(listeners, teardown)
    /\ teardown' = None
    /\ main' = IF h.page = "other" THEN Newest + 1 ELSE main
    /\ Moved(Coming)
    /\ UNCHANGED <<remembered, asks>>

Follow == \E h \in Links : Go(h)

(* The genres are in: the catalog is mounted, listens, and searches.       *)
GenresCome(i) ==
    /\ views[i].phase = "coming" /\ views[i].page = "home"
    /\ main' = i
    /\ listeners' = Append(listeners, i)
    /\ Load(i, [views[i] EXCEPT !.phase = "up"], TRUE, TRUE)
    /\ UNCHANGED <<hash, remembered, teardown, moves, hurried>>

(* Any other page has what it asked for.                                   *)
OtherComes(i) ==
    /\ views[i].phase = "coming" /\ views[i].page = "other"
    /\ main' = i /\ teardown' = None
    /\ views' = [views EXCEPT ![i].phase = "up"]
    /\ UNCHANGED <<hash, remembered, listeners, asks, moves, hurried>>

SlipKeepsLoaded(v, patch) == [v EXCEPT !.filters = patch @@ @, !.next = 1, !.done = FALSE]

(* apply, before its load.                                                 *)
Patched(v, patch) ==
    [v EXCEPT !.filters = patch @@ @, !.next = 1, !.loaded = <<>>, !.done = FALSE]

(* apply, for the views that hear of the change, in order: the address is  *)
(* left as the last of them writes it.                                     *)
Apply(heard, patch) ==
    /\ views' = [i \in Views |-> IF i \in Range(heard) THEN Asking(Patched(views[i], patch))
                                                       ELSE views[i]]
    /\ asks' = asks \cup {Request(i, Patched(views[i], patch), TRUE, FALSE) : i \in Range(heard)}
    /\ hash' = [hash EXCEPT !.params = Params(Patched(views[Last(heard)], patch).filters)]
    /\ remembered' = IF "sources" \in DOMAIN patch THEN patch.sources ELSE remembered
    /\ UNCHANGED <<main, teardown, listeners>>

Shown(i) == main = i /\ views[i].phase = "up" /\ views[i].page = "home"

(* A press in the bar, or on the empty grid's one button.                  *)
Filter(i) ==
    /\ Shown(i)
    /\ \E patch \in Patches(views[i].filters) \cup
            {Default : none \in {v \in {views[i]} : v.loaded = <<>> /\ ~v.loading /\ ~v.error}} :
         Apply(<<i>>, patch)
    /\ Moved(i # Newest)

(* The header's box, once the typing pauses.                               *)
Type(q) ==
    /\ hash.page = "home"
    /\ LET heard == SelectSeq(listeners, LAMBDA i : views[i].filters.q # q) IN
         \/ heard # <<>> /\ Apply(heard, [q |-> q])
         \/ /\ heard = <<>>
            /\ hash' = [hash EXCEPT !.params = Params([q |-> q] @@ @ @@ Default)]
            /\ UNCHANGED <<remembered, views, main, teardown, listeners, asks>>
    /\ Moved(views[Newest].phase = "coming")

TypeElsewhere(q) ==
    /\ hash.page = "other"
    /\ Go([page |-> "home", params |-> Params([q |-> q] @@ Default)])

SlipLoadsAnyway(i, v) == Load(i, v, FALSE, FALSE)

(* load for the next page, which defers to a search under way.             *)
LoadNext(i, v) ==
    IF v.loading THEN views' = [views EXCEPT ![i] = v] /\ UNCHANGED asks
    ELSE Load(i, v, FALSE, FALSE)

(* The sentinel under the grid comes into sight.                           *)
Scroll(i) ==
    /\ Shown(i) /\ ~views[i].done /\ ~views[i].error
    /\ views[i].next < MaxPage
    /\ LoadNext(i, [views[i] EXCEPT !.next = @ + 1])
    /\ UNCHANGED <<hash, remembered, main, teardown, listeners, moves, hurried>>

(* The error's button.                                                     *)
Retry(i) ==
    /\ Shown(i) /\ views[i].error
    /\ Load(i, views[i], TRUE, FALSE)
    /\ Moved(FALSE)
    /\ UNCHANGED <<hash, remembered, main, teardown, listeners>>

-----------------------------------------------------------------------------
(* Answers.                                                                *)

(* load ends; the first of a view hands its teardown to the router.        *)
Ended(a) ==
    /\ asks' = asks \ {a}
    /\ teardown' = IF a.first THEN a.view ELSE teardown

SlipNeverStale(a) == FALSE
Stale(a) == a.token # views[a.view].token

(* The titles of one page: the grid takes them, and asks which of them the *)
(* member keeps before it counts as loaded.                                *)
Answer(a) ==
    /\ a.step = "titles"
    /\ IF Stale(a) THEN Ended(a) /\ UNCHANGED views
       ELSE LET v == views[a.view]
                got == IF a.page > Pages[a.filters.q] THEN <<>>
                       ELSE <<[filters |-> a.filters, page |-> a.page]>>
                all == (IF a.reset THEN <<>> ELSE v.loaded) \o got
            IN /\ views' = [views EXCEPT ![a.view].loaded = all,
                                         ![a.view].loading = (got # <<>>),
                                         ![a.view].done = (got = <<>> \/ Len(all) >= Pages[a.filters.q])]
               /\ \/ got = <<>> /\ Ended(a)
                  \/ /\ got # <<>>
                     /\ asks' = (asks \ {a}) \cup {[a EXCEPT !.step = "mine"]}
                     /\ UNCHANGED teardown
    /\ UNCHANGED <<hash, remembered, main, listeners, moves, hurried>>

(* loadMineFor is back, with or without an answer: it swallows its errors. *)
MineComes(a) ==
    /\ a.step = "mine"
    /\ Ended(a)
    /\ views' = IF Stale(a) THEN views ELSE [views EXCEPT ![a.view].loading = FALSE]
    /\ UNCHANGED <<hash, remembered, main, listeners, moves, hurried>>

(* The request for titles fails.                                           *)
Fail(a) ==
    /\ a.step = "titles"
    /\ Ended(a)
    /\ views' = IF Stale(a) THEN views
                ELSE [views EXCEPT ![a.view].error = TRUE, ![a.view].loading = FALSE]
    /\ UNCHANGED <<hash, remembered, main, listeners, moves, hurried>>

Next ==
    \/ Follow
    \/ \E q \in Texts : Type(q) \/ TypeElsewhere(q)
    \/ \E i \in Views : GenresCome(i) \/ OtherComes(i) \/ Filter(i) \/ Scroll(i) \/ Retry(i)
    \/ \E a \in asks : Answer(a) \/ MineComes(a) \/ Fail(a)

Spec == Init /\ [][Next]_vars

-----------------------------------------------------------------------------
(* What must hold.                                                         *)

ViewOK(v) ==
    \/ v = Absent
    \/ /\ v.page \in {"home", "other"} /\ v.phase \in {"coming", "up"}
       /\ DOMAIN v.filters = Fields
       /\ v.next \in 1 .. MaxPage
       /\ {v.loading, v.done, v.error} \subseteq BOOLEAN

TypeOK ==
    /\ \A i \in Views : ViewOK(views[i])
    /\ main \in Views \cup {None} /\ teardown \in Views \cup {None}
    /\ Range(listeners) \subseteq Views
    /\ remembered \subseteq Services
    /\ moves \in 0 .. MaxMoves /\ hurried \in BOOLEAN

(* Whatever overtook whatever, a grid holds pages of its own filters only, *)
(* none of them twice and none before an earlier one, and one that says it *)
(* is loading has an answer coming (home.js: apply, load and its token).   *)
GridAnswersFilters ==
    \A i \in Views : views[i].phase = "up" =>
        LET v == views[i] IN
        /\ \A n \in DOMAIN v.loaded : v.loaded[n].filters = v.filters
        /\ \A m, n \in DOMAIN v.loaded : m < n => v.loaded[m].page < v.loaded[n].page
        /\ v.loading => \E a \in asks : a.view = i /\ ~Stale(a)

(* With nothing on its way, the page on screen is the one the address      *)
(* names, filtered the way the address says: what a reload would show      *)
(* (home.js apply, router.js render and replaceSearch).                    *)
AddressMatchesGrid ==
    asks = {} /\ ~Coming =>
        /\ main = Newest /\ views[main].page = hash.page
        /\ hash.page = "home" => views[main].filters = Parsed(hash.params)

(* The same for a viewer who waits for one page before going to the next.  *)
UnhurriedAddressMatches == ~hurried => AddressMatchesGrid

(* A grid has every page up to its last (home.js, the observer and load).  *)
NoPageSkipped ==
    \A i \in Views : views[i].phase = "up" =>
        \A n \in DOMAIN views[i].loaded : views[i].loaded[n].page = n
=============================================================================
