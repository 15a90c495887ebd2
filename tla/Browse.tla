------------------------------- MODULE Browse -------------------------------
(***************************************************************************)
(* What the catalog answers its readers (routers/catalog.py, search.py):   *)
(* the grid, filtered, sorted and paged, with a total that is remembered   *)
(* for a while; suggestions; and what is new on every service; while       *)
(* syncs, the operator and the members change what is asked about.         *)
(*                                                                         *)
(* A name is the words it has without its article; what a search makes of  *)
(* a word is which words begin with it, and which have it further in.      *)
(* What else a filter may ask of a title (its kind, year, score, people,   *)
(* language ...) is the set of titles it lets through.                     *)
(***************************************************************************)
EXTENDS Integers, Sequences, FiniteSets, FiniteSetsExt, SequencesExt

CONSTANTS
    Titles,        \* title ids
    Services, Members,
    Offerings,     \* by service: the kinds of offer it makes
    Card,          \* by title: its names, its overview's words, score, year, votes, length
    Added,         \* those a member added by hand
    Words,         \* what is searched for
    Starts, Within, Glued,   \* by word: words that begin with it, have it later, or after a
                            \* letter that Hebrew writes in front
    Beginnings,    \* the offers that a service's first sweep may have found
    Questions,     \* the filters that are asked for
    Sorts,         \* the orders: a field and a direction, or None for its own
    PageSize, CacheSize, Ttl,
    SuggestTitles, Depth,   \* suggestions: how many, and how far is looked for them
    Delays,          \* how long before it sees an offer a sync may have begun
    MaxTime, LastChange, MaxAsks,   \* bounds
    None

Other == "other"            \* OTHER_SERVICES
Question ==
    [word : Words \cup {None}, services : SUBSET (Services \cup {Other}),
     available : {"current", "any", "gone"}, through : SUBSET Titles,
     exclude : {"watched", "listed", None}, member : Members \cup {None}]

Offer ==
    {o \in [title : Titles, service : Services, kind : UNION {Offerings[s] : s \in Services},
            first : Nat, current : BOOLEAN] : o.kind \in Offerings[o.service]}

(* One row of each kind of offer (availability's unique constraint).       *)
OneRowEach(os) ==
    \A o, p \in os : o.title = p.title /\ o.service = p.service /\ o.kind = p.kind => o = p

BrowseAssumption ==
    /\ None \notin Nat \cup {"watched", "listed"}
    /\ IsFiniteSet(Titles) /\ Titles \subseteq Nat /\ Added \subseteq Titles /\ DOMAIN Offerings = Services
    /\ \A t \in Titles :
          /\ {"he", "en", "overview", "score", "year", "votes", "length"} \subseteq DOMAIN Card[t]
          /\ {Card[t].score, Card[t].year} \subseteq Nat \cup {None}
    /\ \A q \in Questions : q \in Question /\ (q.exclude # None => q.member # None)
    /\ \A s \in Sorts : /\ s[1] \in {"relevance", "score", "year", "recently_added"}
                        /\ s[2] \in {"asc", "desc", None}
    /\ \A B \in Beginnings :
          B \subseteq Offer /\ OneRowEach(B) /\ \A o \in B : o.first = 0
    /\ {PageSize, CacheSize, Ttl, SuggestTitles, Depth} \subseteq Nat \ {0}
    /\ {MaxTime, LastChange, MaxAsks} \cup Delays \subseteq Nat /\ LastChange <= MaxTime

VARIABLES
    offers,      \* availability
    finished,    \* by service: when its syncs ended well
    tracked,     \* sources.active
    own,         \* by member and title: not there, "listed" or "watched"
    now,
    counts,      \* _counts, the one used longest ago first
    walk,        \* a reader of the grid, page after page
    asks,
    carried,     \* history: the offers a service had when its first sweep ended
    moved,       \* history: when anything changed last
    truths       \* history: every count there was within Ttl

db == <<offers, finished, tracked, own, carried, moved>>
vars == <<db, now, counts, walk, asks, truths>>


-----------------------------------------------------------------------------
(* Filters (_filtered_ids).                                                *)

On(t, K) == {o \in offers : o.title = t /\ (K = {} \/ o.service \in K)}

(* _availability_ids: left behind on a retired source is history, and gone *)
(* is gone from everything that is asked about.                            *)
Watchable(t, K) == \E o \in On(t, K) : o.current /\ o.service \in tracked
Available(t, K, available) ==
    CASE available = "current" -> Watchable(t, K)
      [] available = "gone" -> (\E o \in On(t, K) : ~o.current) /\ ~Watchable(t, K)
      [] available = "any" -> On(t, K) # {}

(* user_added_ids: any offer at all, a lapsed one included, ends it.       *)
UserAdded(t) == t \in Added /\ On(t, {}) = {}

(* _offered: what members added is only there for who asks for it, and has *)
(* nothing to have left.                                                   *)
Offered(t, q) ==
    LET K == q.services \ {Other} IN
    IF Other \notin q.services \/ q.available = "gone" THEN Available(t, K, q.available)
    ELSE UserAdded(t) \/ (K # {} /\ Available(t, K, q.available))

(* fts_query: the word that is still being typed grows at its end, and at  *)
(* its front by a letter Hebrew glues to it.                               *)
Reads(words, w) == \E v \in words : v \in Starts[w] \cup Glued[w]

(* name_match: only what a title is called.                                *)
Called(t) == ToSet(Card[t].he) \cup ToSet(Card[t].en)
Named(t, w) == Reads(Called(t), w)

(* apply_text_search: or what is told of it.                               *)
Found(t, w) == Reads(Called(t) \cup Card[t].overview, w)

(* _own_titles.                                                            *)
Own(t, q) ==
    \/ q.exclude = "listed" /\ own[q.member][t] # None
    \/ q.exclude = "watched" /\ own[q.member][t] = "watched"

Matching(q) ==
    {t \in q.through : /\ Offered(t, q) /\ ~Own(t, q)
                       /\ q.word # None => Found(t, q.word)}

-----------------------------------------------------------------------------
(* Order (_apply_sort, search.py).                                         *)

(* _tier: by the first word of a name that has the needle in it.           *)
Tier(name, w) ==
    LET has == {i \in DOMAIN name : name[i] \in Starts[w] \cup Within[w]} IN
    CASE name = <<>> -> 9
      [] name = <<w>> -> 0
      [] name # <<>> /\ has = {} -> 5
      [] OTHER ->
            LET i == Min(has) IN
            IF name[i] = w THEN (IF i = 1 THEN 1 ELSE 2)
            ELSE IF i = 1 /\ name[i] \in Starts[w] THEN 3 ELSE 4

(* match_tier: the better of its two names.                                *)
Rung(t, w) == Min({Tier(Card[t].he, w), Tier(Card[t].en, w)})

(* apply_relevance: how well it is named, then how well it is known.       *)
Relevance(t, w, best) ==
    LET key == <<Rung(t, w), -Card[t].votes, Card[t].length>>
    IN  (IF best THEN key ELSE <<-key[1], -key[2], -key[3]>>) \o <<t>>

(* NATURAL_ORDER.                                                          *)
Natural(field) == IF field = "relevance" THEN "asc" ELSE "desc"

(* What is sorted by: what the catalog does not know comes last.           *)
Value(t, field) ==
    CASE field = "score" -> Card[t].score
      [] field = "year" -> Card[t].year
      [] field = "recently_added" ->
            IF On(t, {}) = {} THEN None ELSE Max({o.first : o \in On(t, {})})

ByField(t, field, descending) ==
    LET v == Value(t, field)
    IN  <<IF v = None THEN 1 ELSE 0, IF v = None THEN 0 ELSE IF descending THEN -v ELSE v, t>>

(* _apply_sort: relevance to no search is what the score says.             *)
SortKey(t, q, sort) ==
    LET field == IF sort[1] = "relevance" /\ q.word = None THEN "score" ELSE sort[1]
        order == IF sort[2] = None THEN Natural(field) ELSE sort[2]
    IN  IF field = "relevance" THEN Relevance(t, q.word, order = "asc")
        ELSE ByField(t, field, order = "desc")

Below(a, b) == \E i \in DOMAIN a : a[i] < b[i] /\ \A j \in 1 .. i - 1 : a[j] = b[j]
Ordered(q, sort) ==
    SetToSortSeq(Matching(q), LAMBDA s, t : Below(SortKey(s, q, sort), SortKey(t, q, sort)))

Slice(list, page) ==
    SubSeq(list, (page - 1) * PageSize + 1, Min({page * PageSize, Len(list)}))

-----------------------------------------------------------------------------
(* Suggestions (_suggest_titles): ranked without the filters as far as     *)
(* Depth, and then narrowed to what they let through.                      *)
Suggested(w, q) ==
    LET ranked == SetToSortSeq({t \in Titles : Named(t, w)},
                               LAMBDA s, t : Below(Relevance(s, w, TRUE), Relevance(t, w, TRUE)))
        allowed == Matching([q EXCEPT !.word = None, !.exclude = None])
        kept == SelectSeq(SubSeq(ranked, 1, Min({Depth, Len(ranked)})), LAMBDA t : t \in allowed)
    IN  SubSeq(kept, 1, Min({SuggestTitles, Len(kept)}))

(* _arrivals: what has been offered since before a service's first sweep   *)
(* ended did not arrive.  What arrived is a title on a service.            *)
Since(s) == IF finished[s] = {} THEN None ELSE Min(finished[s])
Arrivals ==
    LET news == {o \in offers : /\ o.current /\ o.service \in tracked
                                /\ Since(o.service) # None => o.first > Since(o.service)}
    IN  {[title |-> o.title, service |-> o.service,
          at |-> Min({p.first : p \in {n \in news : n.title = o.title /\ n.service = o.service}})] :
            o \in news}

-----------------------------------------------------------------------------
Idle == [question |-> None, sort |-> None, page |-> 0, got |-> <<>>, told |-> None, calm |-> TRUE]

(* The owner is part of the question once their own are left out.          *)
Key(q) == IF q.exclude = None THEN [q EXCEPT !.member = None] ELSE q
Counts(q) == [question |-> q, count |-> Cardinality(Matching(q)), at |-> now]

(* The ways in which a service offers titles, lapsed ones too.             *)
Ways(s) == {<<o.title, o.kind>> : o \in {p \in offers : p.service = s}}

TypeOK ==
    /\ offers \subseteq Offer /\ OneRowEach(offers)
    /\ finished \in [Services -> SUBSET Nat] /\ tracked \subseteq Services
    /\ own \in [Members -> [Titles -> {"listed", "watched", None}]]
    /\ now \in 0 .. MaxTime
    /\ \A i \in DOMAIN counts : counts[i].expires \in Nat /\ counts[i].total \in Nat
    /\ walk.got \in Seq(Titles) /\ walk.calm \in BOOLEAN
    /\ asks \in 0 .. MaxAsks
    /\ \A s \in Services : carried[s] \subseteq Titles \X Offerings[s]

Init ==
    /\ offers \in Beginnings /\ tracked = Services
    /\ finished = [s \in Services |-> IF \E o \in offers : o.service = s THEN {0} ELSE {}]
    /\ own = [m \in Members |-> [t \in Titles |-> None]]
    /\ now = 0 /\ counts = <<>> /\ walk = Idle /\ asks = 0
    /\ carried = [s \in Services |-> Ways(s)]
    /\ moved = -Ttl
    /\ truths = {Counts(q) : q \in Questions}

Remembered ==
    truths' = {c \in truths : c.at > now' - Ttl} \cup {Counts(q) : q \in Questions}'

(* Every change takes time.                                                *)
Changes ==
    /\ now < LastChange /\ now' = now + 1 /\ moved' = now'
    /\ walk' = [walk EXCEPT !.calm = FALSE]
    /\ Remembered
    /\ UNCHANGED <<counts, asks>>

(* record_offer: a row that comes back is the row it was.                  *)
Recorded(mine, seen) == IF mine = {} THEN seen ELSE (CHOOSE o \in mine : TRUE).first

(* SlipNewAgain: it is dated like a new one.                               *)
SlipNewAgain(mine, seen) == seen

(* An offer is dated by when the sync that sees it began, which may be any *)
(* moment, as syncs overlap; or, where a sync has parked it, by the moment *)
(* at which it is ruled on.                                                *)
Sees(t, s, k) ==
    LET mine == {o \in offers : o.title = t /\ o.service = s /\ o.kind = k} IN
    /\ \A o \in mine : ~o.current
    /\ \E seen \in {now + 1 - age : age \in Delays} \cap Nat :
          offers' = (offers \ mine)
                    \cup {[title |-> t, service |-> s, kind |-> k, current |-> TRUE,
                           first |-> Recorded(mine, seen)]}
    /\ UNCHANGED <<finished, tracked, own, carried>> /\ Changes

(* It is offered no longer.                                                *)
Loses(o) ==
    /\ o.current /\ offers' = (offers \ {o}) \cup {[o EXCEPT !.current = FALSE]}
    /\ UNCHANGED <<finished, tracked, own, carried>> /\ Changes

(* A sync ends well.                                                       *)
Ends(s) ==
    /\ finished' = [finished EXCEPT ![s] = @ \cup {now + 1}]
    /\ carried' = IF finished[s] = {} THEN [carried EXCEPT ![s] = Ways(s)] ELSE carried
    /\ UNCHANGED <<offers, tracked, own>> /\ Changes

(* A service is no longer tracked, or is again.                            *)
Switches(s) ==
    /\ tracked' = SymDiff(tracked, {s})
    /\ UNCHANGED <<offers, finished, own, carried>> /\ Changes

Says(m, t) ==
    /\ \E v \in {"listed", "watched", None} \ {own[m][t]} : own' = [own EXCEPT ![m][t] = v]
    /\ UNCHANGED <<offers, finished, tracked, carried>> /\ Changes

Tick ==
    /\ now < MaxTime /\ now' = now + 1
    /\ UNCHANGED <<db, counts, walk, asks>> /\ Remembered

-----------------------------------------------------------------------------
(* list_titles.                                                            *)

(* _total_matching: an answer that is young enough, or a new one.          *)
HeldAt(k) == {i \in DOMAIN counts : counts[i].key = k}
At(k) == CHOOSE i \in HeldAt(k) : TRUE
Young(k) == HeldAt(k) # {} /\ counts[At(k)].expires > now
Total(q) == IF Young(Key(q)) THEN counts[At(Key(q))].total ELSE Cardinality(Matching(q))

(* Used, it is the last to be dropped.                                     *)
Kept(q) ==
    LET k == Key(q)
        entry == IF Young(k) THEN counts[At(k)]
                 ELSE [key |-> k, expires |-> now + Ttl, total |-> Cardinality(Matching(q))]
        all == Append(IF HeldAt(k) = {} THEN counts ELSE RemoveAt(counts, At(k)), entry)
    IN  IF Len(all) <= CacheSize THEN all ELSE SubSeq(all, Len(all) - CacheSize + 1, Len(all))

Page(q, sort, page, got, calm) ==
    /\ asks < MaxAsks /\ asks' = asks + 1
    /\ counts' = Kept(q)
    /\ walk' = [question |-> q, sort |-> sort, page |-> page, calm |-> calm,
                got |-> got \o Slice(Ordered(q, sort), page),
                told |-> [total |-> Total(q), at |-> now]]
    /\ UNCHANGED <<db, now, truths>>

(* A reader begins, or goes on to the next page.                           *)
Begins(q, sort) == Page(q, sort, 1, <<>>, moved <= now - Ttl)

Complete == walk.page * PageSize >= walk.told.total
GoesOn ==
    /\ walk.question # None /\ ~Complete
    /\ Page(walk.question, walk.sort, walk.page + 1, walk.got, walk.calm)

(* The server is started again, and remembers nothing.                     *)
Restarts ==
    /\ counts # <<>> /\ counts' = <<>> /\ UNCHANGED <<db, now, walk, asks, truths>>

Next ==
    \/ \E t \in Titles, s \in Services : \E k \in Offerings[s] : Sees(t, s, k)
    \/ \E o \in offers : Loses(o)
    \/ \E s \in Services : Ends(s) \/ Switches(s)
    \/ \E m \in Members, t \in Titles : Says(m, t)
    \/ \E q \in Questions, sort \in Sorts : Begins(q, sort)
    \/ Tick \/ GoesOn \/ Restarts

Spec == Init /\ [][Next]_vars

-----------------------------------------------------------------------------
(* A total is what this very question had for an answer, for this member,  *)
(* within the last minute (COUNT_TTL, "a page count that is briefly off";  *)
(* the key, "two members' unseen are two different counts").               *)
TotalsAreRecent ==
    walk.question # None /\ walk.told.at = now =>
        \E c \in truths : c.question = walk.question /\ c.count = walk.told.total

(* A reader of a catalog that has come to rest, who asks for pages for as  *)
(* long as the total says that there are more, has seen every title that   *)
(* matches, each once and in order.                                        *)
ReadersSeeAll ==
    walk.question # None /\ Complete /\ walk.calm => walk.got = Ordered(walk.question, walk.sort)

(* Whatever direction is asked for, no title whose year or score nobody    *)
(* knows comes before one whose is known (_apply_sort, "what the catalog   *)
(* does not know sorts last either way").                                  *)
UnknownLast ==
    walk.question # None /\ walk.calm /\ walk.sort[1] \in {"score", "year"} =>
        \A i, j \in DOMAIN walk.got :
            i < j /\ Value(walk.got[i], walk.sort[1]) = None => Value(walk.got[j], walk.sort[1]) = None

(* What is suggested is in the grid that the same word and filters show,   *)
(* in that order: "a suggestion is a preview of a result".                 *)
SuggestionsPreview ==
    \A q \in Questions, w \in Words :
        LET asked == [q EXCEPT !.word = w, !.exclude = None]
            shown == Ordered(asked, <<"relevance", None>>)
        IN  SelectSeq(shown, LAMBDA t : t \in ToSet(Suggested(w, q))) = Suggested(w, q)

(* What a service's books have is available, no longer available, or only  *)
(* on services that are not tracked: one of the three, whatever services   *)
(* are asked about (_availability_ids, "has moved, not gone").             *)
EveryTitleHasItsPlace ==
    \A K \in SUBSET Services, t \in Titles :
        LET left == Available(t, K, "gone")
            there == Available(t, K, "current")
        IN  /\ ~(left /\ there)
            /\ left => ~\E o \in On(t, K) : o.current /\ o.service \in tracked
            /\ Available(t, K, "any") =>
                  left \/ there \/ \A o \in On(t, K) : o.current /\ o.service \notin tracked

(* What is new on a service is an offer the service did not have when its  *)
(* first sweep ended, though that may have lapsed and come back, and many  *)
(* syncs have ended since (_arrivals: "those titles did not arrive; they   *)
(* were found").  What the sweep parked is no offer yet: once it is ruled  *)
(* on, it is news.                                                         *)
FoundIsNotNews ==
    \A a \in Arrivals : \A o \in On(a.title, {a.service}) :
        o.first = a.at => <<o.title, o.kind>> \notin carried[a.service]

ReadersAreAnswered == TotalsAreRecent /\ ReadersSeeAll /\ UnknownLast
RowsAreReadRight == SuggestionsPreview /\ EveryTitleHasItsPlace /\ FoundIsNotNews
=============================================================================
