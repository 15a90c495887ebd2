------------------------------- MODULE Match -------------------------------
(***************************************************************************)
(* Which title a listing is filed under, and who decides when the matcher  *)
(* will not: eifo_core/match.py (TitleMatcher), eifo_core/reviews.py and   *)
(* eifo_api/routers/reviews.py, for the listings of one source.            *)
(*                                                                         *)
(* A chunk of listings is matched in one transaction.  Sessions run with   *)
(* autoflush off, so what the chunk wrote is seen by its own queries only  *)
(* after a flush: offers wait in `written`, and every other write flushes. *)
(* From its first flush to its end the chunk holds SQLite's write lock.    *)
(* A name stands for what the comparison reads: names, kind and year.      *)
(***************************************************************************)
EXTENDS Naturals, FiniteSets, FiniteSetsExt

CONSTANTS
    Listings,     \* what the source lists
    NameOf,       \* [Listings -> names]
    RefOf,        \* the source's own id for a listing, None where it has none
    OwnId,        \* the TMDB id a listing carries, if any
    HitOf,        \* the TMDB record the fetcher's search settles on, if any
    Likeness,     \* [listing name, title name]: "same", "alike", "near", "other"
    HeldTitles,   \* titles in the catalog before the source's first sync
    HeldAliases,  \* and its TMDB aliases
    Chunks,       \* what is offered together: the listings, in the source's order
    Admins,       \* reviewers at work
    TmdbIds,
    MaxTitles,    \* bound: titles ever created
    MaxReviews,   \* bound: rows of the review queue
    None

TitleIds == 1 .. MaxTitles
ReviewIds == 1 .. MaxReviews
Rulings == {"attached", "created", "dismissed"}

VARIABLES
    db,         \* the tables, as the chunk's transaction reads them
    committed,  \* the tables, as everybody else does
    chunk,      \* the chunk being matched
    ruling      \* the review each reviewer's request has read

vars == <<db, committed, chunk, ruling>>

Refs == {RefOf[l] : l \in Listings} \ {None}
Names == {NameOf[l] : l \in Listings} \cup {HeldTitles[t].name : t \in DOMAIN HeldTitles}

Title == [name : Names, tmdb : TmdbIds \cup {None}]
Row == [ref : Refs \cup {None}]
Review == [of : Listings, closest : TitleIds, ruled : Rulings \cup {"open"},
           title : TitleIds \cup {None}, at : Nat]
Tables == [titles  : [TitleIds -> Title \cup {None}],
           offers  : [TitleIds -> Row \cup {None}],
           aliases : [TmdbIds -> TitleIds \cup {None}],
           reviews : [ReviewIds -> Review \cup {None}]]

ASSUME MatchAssumption ==
    /\ IsFiniteSet(Listings)
    /\ Chunks \subseteq SUBSET Listings /\ MaxTitles \in Nat /\ MaxReviews \in Nat
    /\ None \notin TmdbIds \cup TitleIds \cup Title \cup Row \cup Review
    /\ RefOf \in [Listings -> Refs \cup {None}]
    /\ OwnId \in [Listings -> TmdbIds \cup {None}]
    /\ HitOf \in [Listings -> TmdbIds \cup {None}]
    /\ Likeness \in [Names \X Names -> {"same", "alike", "near", "other"}]
    /\ DOMAIN HeldTitles \subseteq TitleIds /\ \A t \in DOMAIN HeldTitles : HeldTitles[t] \in Title
    /\ DOMAIN HeldAliases \subseteq TmdbIds
    /\ \A i \in DOMAIN HeldAliases :
          /\ HeldAliases[i] \in DOMAIN HeldTitles
          /\ \A t \in DOMAIN HeldTitles : HeldTitles[t].tmdb = i => t = HeldAliases[i]

Unwritten == [t \in TitleIds |-> None]

(* wrote: it holds the write lock.  asked: the fetcher has looked these    *)
(* up.  back: handed back, to be looked up.  took, placed: what it was     *)
(* given, and filed under a title.                                         *)
Chunk == [open : BOOLEAN, wrote : BOOLEAN, asked : BOOLEAN,
          todo : SUBSET Listings, back : SUBSET Listings,
          placed : SUBSET Listings, took : SUBSET Listings,
          written : [TitleIds -> Row \cup {None}]]

TypeOK ==
    /\ db \in Tables /\ committed \in Tables
    /\ chunk \in Chunk
    /\ ruling \in [Admins -> {None} \cup [id : ReviewIds, of : Listings]]

Between == [open |-> FALSE, wrote |-> FALSE, asked |-> FALSE, todo |-> {}, back |-> {},
            placed |-> {}, took |-> {}, written |-> Unwritten]

Init ==
    /\ db = [titles  |-> [t \in TitleIds |-> IF t \in DOMAIN HeldTitles THEN HeldTitles[t] ELSE None],
             offers  |-> [t \in TitleIds |-> None],
             aliases |-> [i \in TmdbIds |-> IF i \in DOMAIN HeldAliases THEN HeldAliases[i] ELSE None],
             reviews |-> [r \in ReviewIds |-> None]]
    /\ committed = db
    /\ chunk = Between
    /\ ruling = [a \in Admins |-> None]

-----------------------------------------------------------------------------
(* What the tables say.                                                    *)

Existing(d) == {t \in TitleIds : d.titles[t] # None}
Owners(d, id) == {t \in Existing(d) : d.titles[t].tmdb = id}
Fresh(d) == Min(TitleIds \ Existing(d))

(* _by_source_ref: the offers this source's own id is bound to.            *)
Bound(d, l) ==
    {t \in TitleIds : d.offers[t] # None /\ RefOf[l] # None /\ d.offers[t].ref = RefOf[l]}

SlipClaimsNothing(d, l, t) == FALSE

(* _claimed_by_another_listing: the source offers it under another id.     *)
Claimed(d, l, t) ==
    RefOf[l] # None /\ d.offers[t] # None /\ d.offers[t].ref \notin {None, RefOf[l]}

SlipAliasesUnread(d, l) == Owners(d, OwnId[l])

(* _by_external_id: the owner of the id, else the title it is an alias of. *)
Known(d, l) ==
    IF Owners(d, OwnId[l]) # {} THEN Owners(d, OwnId[l])
    ELSE {d.aliases[OwnId[l]]} \ {None}

(* _best_local_candidate: the titles the comparison likes best, if it      *)
(* likes any well enough.  Which comes first is the order of the table.    *)
Like(d, l, how) == {t \in Existing(d) : Likeness[NameOf[l], d.titles[t].name] = how}
Best(d, l) == IF Like(d, l, "same") # {} THEN Like(d, l, "same") ELSE Like(d, l, "alike")

(* _review_candidate: near enough to ask about, looking wider.             *)
NearMisses(d, l) == Like(d, l, "near")

Parks(d) == {r \in ReviewIds : d.reviews[r] # None}
OpenParks(d, name) ==
    {r \in Parks(d) : d.reviews[r].ruled = "open" /\ NameOf[d.reviews[r].of] = name}

Ruled(d, name) ==
    {r \in Parks(d) : d.reviews[r].ruled # "open" /\ NameOf[d.reviews[r].of] = name}

SlipOnlyAttached(d, l) ==
    {r \in Ruled(d, NameOf[l]) : d.reviews[r].ruled = "attached"}

(* _prior_decision: the latest ruling on this name.                        *)
Decided(d, l) ==
    {r \in Ruled(d, NameOf[l]) :
        \A s \in Ruled(d, NameOf[l]) : d.reviews[s].at <= d.reviews[r].at}

(* Writes.  A flush is what makes the waiting offers readable.             *)
Flush(d, written) ==
    [d EXCEPT !.offers = [t \in TitleIds |-> IF written[t] # None THEN written[t] ELSE d.offers[t]]]

Created(d, name, id) == [d EXCEPT !.titles[Fresh(d)] = [name |-> name, tmdb |-> id]]

(* _park_for_review: replaces the open parks of the same item.  A row id   *)
(* is one more than the highest in the table.                              *)
Parked(d, l, t) ==
    LET left == Parks(d) \ OpenParks(d, NameOf[l])
        id == Max(left \cup {0}) + 1
    IN  [d EXCEPT !.reviews = [r \in ReviewIds |->
            IF r = id THEN [of |-> l, closest |-> t, ruled |-> "open", title |-> None, at |-> 0]
            ELSE IF r \in left THEN d.reviews[r] ELSE None]]

SlipNameForId(l, row) == [ref |-> IF RefOf[l] # None THEN RefOf[l] ELSE NameOf[l]]

(* record_offer: a listing that carries an id writes it onto the offer.    *)
RowFor(l, row) ==
    [ref |-> IF RefOf[l] # None THEN RefOf[l] ELSE IF row # None THEN row.ref ELSE None]

-----------------------------------------------------------------------------
(* A chunk.                                                                *)

Opened(listings, asked) ==
    [Between EXCEPT !.open = TRUE, !.asked = asked, !.todo = listings, !.took = listings]

OfferChunk ==
    /\ ~chunk.open /\ chunk.back = {}
    /\ \E listings \in Chunks : chunk' = Opened(listings, FALSE)
    /\ UNCHANGED <<db, committed, ruling>>

OfferResolved ==
    /\ ~chunk.open /\ chunk.back # {}
    /\ chunk' = Opened(chunk.back, TRUE)
    /\ UNCHANGED <<db, committed, ruling>>

(* The listing is filed under t: its offer joins those waiting, in tables  *)
(* d of which `written` is not flushed yet.                                *)
Place(l, t, d, written) ==
    /\ db' = d
    /\ chunk' = [chunk EXCEPT !.todo = @ \ {l}, !.placed = @ \cup {l}, !.wrote = @ \/ d # db,
                   !.written = [written EXCEPT ![t] =
                       RowFor(l, IF written[t] # None THEN written[t] ELSE d.offers[t])]]

Park(l, t, d, written) ==
    /\ Max(Parks(Flush(d, written)) \cup {0}) < MaxReviews
    /\ db' = Parked(Flush(d, written), l, t)
    /\ chunk' = [chunk EXCEPT !.todo = @ \ {l}, !.wrote = TRUE, !.written = Unwritten]

(* Of two listings of a source on one title, one is wrong: a human says.   *)
Settle(l, t, d, written) ==
    IF Claimed(d, l, t) THEN Park(l, t, d, written) ELSE Place(l, t, d, written)

SettleNew(l, id) ==
    LET d == Flush(db, chunk.written) IN
    /\ Existing(d) # TitleIds
    /\ Settle(l, Fresh(d), Created(d, NameOf[l], id), Unwritten)

ByRef(l) == \E t \in Bound(db, l) : Place(l, t, db, chunk.written)

ByOwnId(l) ==
    /\ Bound(db, l) = {} /\ OwnId[l] # None
    /\ \E t \in Known(db, l) : Settle(l, t, db, chunk.written)

(* An id nothing owns: a second record of a title held without one, if the *)
(* names are the same to the letter, else a title of its own.              *)
ByNewId(l) ==
    /\ Bound(db, l) = {} /\ OwnId[l] # None /\ Known(db, l) = {}
    /\ \/ \E t \in Best(db, l) :
            /\ t \in Like(db, l, "same") /\ db.titles[t].tmdb = None
            /\ Settle(l, t, [Flush(db, chunk.written) EXCEPT !.aliases[OwnId[l]] = t], Unwritten)
       \/ /\ \E t \in Best(db, l) \cup {0} :
                \/ t = 0 /\ Best(db, l) = {}
                \/ t # 0 /\ ~(t \in Like(db, l, "same") /\ db.titles[t].tmdb = None)
          /\ SettleNew(l, OwnId[l])

SlipAsksAgain(l) == Bound(db, l) = {} /\ OwnId[l] = None

(* Nothing says which title this is without TMDB, and nobody has looked.   *)
MustAsk(l) == Bound(db, l) = {} /\ OwnId[l] = None /\ ~chunk.asked

Defer(l) ==
    /\ MustAsk(l)
    /\ chunk' = [chunk EXCEPT !.todo = @ \ {l}, !.back = @ \cup {l}]
    /\ UNCHANGED db

Asked(l) == Bound(db, l) = {} /\ OwnId[l] = None /\ ~MustAsk(l)

ByHit(l) ==
    /\ Asked(l) /\ HitOf[l] # None
    /\ \/ \E t \in Owners(db, HitOf[l]) : Settle(l, t, db, chunk.written)
       \/ /\ Owners(db, HitOf[l]) = {}
          /\ \/ \E t \in Best(db, l) :
                  /\ db.titles[t].tmdb = None
                  /\ Settle(l, t, [Flush(db, chunk.written) EXCEPT !.titles[t].tmdb = HitOf[l]],
                            Unwritten)
             \/ /\ \E t \in Best(db, l) \cup {0} :
                      IF t = 0 THEN Best(db, l) = {} ELSE db.titles[t].tmdb # None
                /\ SettleNew(l, HitOf[l])

ByName(l) ==
    /\ Asked(l) /\ HitOf[l] = None
    /\ \E t \in Best(db, l) : Settle(l, t, db, chunk.written)

Unmatched(l) == Asked(l) /\ HitOf[l] = None /\ Best(db, l) = {}

ByRuling(l) ==
    /\ Unmatched(l)
    /\ \E r \in Decided(db, l) :
        IF db.reviews[r].ruled = "dismissed"
        THEN chunk' = [chunk EXCEPT !.todo = @ \ {l}] /\ UNCHANGED db
        ELSE Place(l, db.reviews[r].title, db, chunk.written)

(* A near miss is for a human to decide; anything further is a new title.  *)
ByNobody(l) ==
    /\ Unmatched(l) /\ Decided(db, l) = {}
    /\ \/ \E t \in NearMisses(db, l) : Park(l, t, db, chunk.written)
       \/ NearMisses(db, l) = {} /\ SettleNew(l, None)

Match(l) ==
    /\ chunk.open
    /\ \/ ByRef(l) \/ ByOwnId(l) \/ ByNewId(l) \/ Defer(l)
       \/ ByHit(l) \/ ByName(l) \/ ByRuling(l) \/ ByNobody(l)
    /\ UNCHANGED <<committed, ruling>>

Commit ==
    /\ chunk.open /\ chunk.todo = {}
    /\ db' = Flush(db, chunk.written)
    /\ committed' = db'
    /\ chunk' = [Between EXCEPT !.back = chunk.back]
    /\ UNCHANGED ruling

(* The request fails, and leaves nothing.                                  *)
Rollback ==
    /\ chunk.open
    /\ db' = committed
    /\ chunk' = Between
    /\ UNCHANGED <<committed, ruling>>

-----------------------------------------------------------------------------
(* A reviewer.                                                             *)

(* _unresolved: the handler reads the row, and refuses one already ruled.  *)
OpenReview(a) ==
    /\ ruling[a] = None
    /\ \E r \in Parks(committed) :
        /\ committed.reviews[r].ruled = "open"
        /\ ruling' = [ruling EXCEPT ![a] = [id |-> r, of |-> committed.reviews[r].of]]
    /\ UNCHANGED <<db, committed, chunk>>

Answered(r, how, t) ==
    LET was == committed.reviews[r]
        last == Max({committed.reviews[s].at : s \in Parks(committed)})
    IN  [committed EXCEPT !.reviews[r] =
            [was EXCEPT !.ruled = how, !.at = last + 1,
                        !.title = IF how = "dismissed" THEN was.title ELSE t]]

(* attach, create, dismiss: the ruling, and the offer it implies, with no  *)
(* id on it - the park kept none.  It waits for the write lock.            *)
Rule(a) ==
    /\ ruling[a] # None
    /\ ~chunk.wrote
    /\ LET r == ruling[a].id
           l == ruling[a].of
       IN  \/ /\ committed.reviews[r] # None
              /\ \/ \E t \in Existing(committed) :
                      committed' = [Answered(r, "attached", t) EXCEPT
                          !.offers[t] = IF @ = None THEN [ref |-> None] ELSE @]
                 \/ /\ Existing(committed) # TitleIds
                    /\ OwnId[l] = None \/ Owners(committed, OwnId[l]) = {}
                    /\ committed' = [Created(Answered(r, "created", Fresh(committed)),
                                             NameOf[l], OwnId[l])
                          EXCEPT !.offers[Fresh(committed)] = [ref |-> None]]
                 \/ committed' = Answered(r, "dismissed", None)
              /\ db' = committed'
           \/ committed.reviews[r] = None /\ UNCHANGED <<db, committed>>
    /\ ruling' = [ruling EXCEPT ![a] = None]
    /\ UNCHANGED chunk

Next ==
    \/ OfferChunk \/ OfferResolved \/ Commit \/ Rollback
    \/ \E l \in chunk.todo : Match(l)
    \/ \E a \in Admins : OpenReview(a) \/ Rule(a)

Spec == Init /\ [][Next]_vars

-----------------------------------------------------------------------------
(* What must hold.                                                         *)

OpenNames(d) == {NameOf[d.reviews[r].of] : r \in {s \in Parks(d) : d.reviews[s].ruled = "open"}}

(* A ruling stands: an item somebody ruled on does not come back to the    *)
(* queue (match.py:583-585, reviews.py:147).                               *)
StaysRuled(names) ==
    \A n \in names : n \in OpenNames(committed)' \ OpenNames(committed) => Ruled(committed, n)' = {}
RulingsStand == [][StaysRuled(Names)]_vars

(* The same of listings that carry no id of the source's, which nothing    *)
(* else can claim a title from.                                            *)
UnclaimedRulingsStand == [][StaysRuled({NameOf[l] : l \in {k \in Listings : RefOf[k] = None}})]_vars

(* A listing is never quietly dropped: once its chunk is committed it is   *)
(* offered under a title, waits in the queue, goes back to be looked up -  *)
(* once - or somebody ruled it is no title (syncing.py:303-307).           *)
NothingDropped ==
    [][Commit => \A l \in chunk.took :
          \/ l \in chunk.placed
          \/ l \in chunk.back /\ ~chunk.asked
          \/ OpenParks(committed', NameOf[l]) # {}
          \/ \E r \in Ruled(committed', NameOf[l]) : committed'.reviews[r].ruled = "dismissed"]_vars

(* A ruling answers for the item it was made on: what decides a listing    *)
(* was said of that listing (match.py:583 "ruled on this exact item").     *)
RuledInPerson ==
    [][\A l \in chunk.todo : ByRuling(l) /\ l \notin chunk'.todo
          => \E r \in Ruled(db, NameOf[l]) : db.reviews[r].of = l]_vars

(* Once a listing is bound to a title it stays bound: no name, and nobody  *)
(* else's listing, takes the offer's id away (match.py:564-566,            *)
(* migration 0021).                                                        *)
BindingsStick ==
    [][\A t \in TitleIds :
          committed.offers[t] # None /\ committed.offers[t].ref # None
          => committed'.offers[t].ref = committed.offers[t].ref]_vars

(* Two listings of one source never share a title: when a chunk is         *)
(* committed, every listing it filed that carries an id is the one its     *)
(* title's offer names (match.py:571-575).                                 *)
FiledIsBound ==
    [][Commit => \A l \in chunk.placed : RefOf[l] # None =>
          \E t \in TitleIds : committed'.offers[t] # None /\ committed'.offers[t].ref = RefOf[l]]_vars

(* An id known for a second record of a title never becomes a title of its *)
(* own again: without that, merging undoes itself (match.py:722-724).      *)
AliasesHold ==
    \A i \in TmdbIds : committed.aliases[i] # None
        => Owners(committed, i) \subseteq {committed.aliases[i]}

(* A review is ruled on once: two people draining one queue do not answer  *)
(* the same row twice (routers/reviews.py:143-149, 178-184).               *)
RuledOnce ==
    [][\A r \in Parks(committed) : committed.reviews[r].ruled # "open"
          => committed'.reviews[r] = committed.reviews[r]]_vars
=============================================================================
