------------------------------- MODULE Picks --------------------------------
(***************************************************************************)
(* What is picked for a member: the row above the catalog (/me/for-you)    *)
(* and the list behind it (/me/recommendations), worked out from what they *)
(* rated (eifo_core/taste.py), and kept for a while under a fingerprint of *)
(* their lists (routers/catalog.py).  The member rates, lists and unlists  *)
(* titles meanwhile: such a request has its time of writing before it has  *)
(* the write lock, which another may get first.  A request that reads sees *)
(* with every query what has been committed by then.                       *)
(*                                                                         *)
(* Points are in hundredths; what is shared by titles is sets of whatever  *)
(* tells them apart, how rare a genre is and the day's dice are constants, *)
(* and the spread of a member's ratings is taken to be MIN_SPREAD.         *)
(***************************************************************************)
EXTENDS Integers, Sequences, FiniteSets, FiniteSetsExt, SequencesExt, Functions

CONSTANTS
    Titles,        \* title ids
    Sayings,       \* what may be written: a title, and its rating or Unrated
    Film,          \* by title: who made it, when, its genres, its score
    Rarity,        \* by genre, in hundredths
    Filters,       \* the sets of titles that filters let through
    Catalogs,      \* in turn, what the services offer after every sync
    Dice,          \* by day and title, in hundredths
    Seeds, PerSeed, PerSeedPicks, PerMixPicks, MaxRecommended, Limit, Evidence,
    PageSize, CacheSize, Ttl,
    Beginnings,    \* the lists a member may start with: what is said of a title
    Writers, Readers,
    Midnight,      \* when the day turns
    MaxMinutes, MaxWrites, MaxAsks,   \* bounds
    None

PicksAssumption ==
    /\ Titles \subseteq Nat /\ Sayings \subseteq Titles \X (0 .. 10)
    /\ \A t \in Titles :
          /\ DOMAIN Film[t] = {"genres", "directors", "cast", "year", "languages", "kinds", "score"}
          /\ Film[t].genres \subseteq DOMAIN Rarity
          /\ Film[t].score \in 0 .. 100 \cup {None} /\ Film[t].year \in Nat \cup {None}
    /\ \A g \in DOMAIN Rarity : Rarity[g] \in Nat
    /\ Filters \subseteq SUBSET Titles /\ Catalogs \in Seq(SUBSET Titles)
    /\ {Seeds, PerSeed, PerSeedPicks, PerMixPicks, MaxRecommended, Limit, Evidence, PageSize,
        CacheSize, Ttl} \subseteq Nat \ {0}

VARIABLES
    entries,    \* the member's rows: what is said of a title, and updated_at
    kept,       \* _for_you ("row") and _recommended ("list"), the oldest used first
    writing,    \* the member's requests that wait to write
    asking,     \* the requests for picks being served
    view,       \* the page of recommendations in the browser
    given,      \* the answer just given, and what it answers
    minute, stamps,
    left,       \* history: when a title was last offered
    asks,
    syncs       \* of the catalog, so far

vars == <<entries, kept, writing, asking, view, given, minute, stamps, left, asks, syncs>>

Unrated == 0                \* a title that is wanted
Listed(es) == {t \in Titles : es[t] # None}
Rated(es) == {t \in Listed(es) : es[t].says # Unrated}
Rating(es, t) == es[t].says
Total(S, f(_)) == MapThenSumSet(f, S)
Clamp(low, n, high) == Max({low, Min({n, high})})
First(seq, n) == SubSeq(seq, 1, Min({n, Len(seq)}))

(* S sorted by a tuple of numbers.                                         *)
Sorted(S, key(_)) ==
    SetToSortSeq(S, LAMBDA s, t :
        \E i \in DOMAIN key(s) : key(s)[i] < key(t)[i] /\ \A j \in 1 .. i - 1 : key(s)[j] = key(t)[j])
DayOf(m) == IF m < Midnight THEN 1 ELSE 2

-----------------------------------------------------------------------------
(* What titles share (taste.py).                                           *)

Rarities(G) == Total(G, LAMBDA g : Rarity[g])

(* _genre_term: shared over either, less where it is too common to tell.   *)
GenreTerm(s, t) ==
    LET shared == Rarities(Film[s].genres \cap Film[t].genres)
        union == Rarities(Film[s].genres \cup Film[t].genres)
    IN  IF union = 0 THEN 0 ELSE (4000 * shared * Min({300, shared})) \div (300 * union)

(* _era_term.                                                              *)
EraTerm(s, t) ==
    IF None \in {Film[s].year, Film[t].year} THEN 0
    ELSE LET gap == Max({Film[s].year, Film[t].year}) - Min({Film[s].year, Film[t].year})
         IN  (1000 * (30 - Min({30, gap}))) \div 30

Both(facet, s, t) == Film[s][facet] \cap Film[t][facet]

(* similar's score, for the seed s and the candidate t; 0 for none that    *)
(* shares a genre, a director or a lead.                                   *)
Alike == [s \in Titles |-> [t \in Titles |->
    IF s = t \/ Both("genres", s, t) \cup Both("directors", s, t) \cup Both("cast", s, t) = {}
    THEN 0
    ELSE GenreTerm(s, t)
         + (IF Both("directors", s, t) # {} THEN 2500 ELSE 0)
         + 600 * Min({3, Cardinality(Both("cast", s, t))})
         + EraTerm(s, t)
         + 500 * Cardinality(Both("languages", s, t))
         + 500 * Cardinality(Both("kinds", s, t))
         + (IF Film[t].score = None THEN 0 ELSE 15 * Film[t].score)]]

(* Whether they share a person, as director of one and lead of the other   *)
(* too (_people_of).                                                       *)
People(t) == Film[t].directors \cup Film[t].cast
Kin(s, t) == People(s) \cap People(t) # {}

Mix(t) == Film[t].genres \cup Film[t].kinds

-----------------------------------------------------------------------------
(* What a member is picked (taste.py).                                     *)

(* favourite_floor: LIKED, or one more where the mean rounds to more.      *)
FavouriteFloor(es) ==
    IF 2 * Total(Rated(es), LAMBDA t : Rating(es, t)) > 17 * Cardinality(Rated(es)) THEN 9 ELSE 8

Favourites(es) == {t \in Rated(es) : Rating(es, t) >= FavouriteFloor(es)}

(* The favourites that propose; one that is like nothing would not.        *)
SeedsOf(es, day) ==
    LET ranked == Sorted({t \in Favourites(es) : Film[t].genres \cup People(t) # {}},
                         LAMBDA t : <<-Rating(es, t), Dice[day][t], t>>)
    IN  First([i \in DOMAIN ranked |-> [title |-> ranked[i], rating |-> Rating(es, ranked[i])]], Seeds)

(* similar: the titles most like the seed, of those within.                *)
Similar(seed, within) ==
    LET quality(t) == IF Film[t].score = None THEN 0 ELSE Film[t].score
        ranked == Sorted({t \in within \ {seed} : Alike[seed][t] > 0},
                         LAMBDA t : <<-Alike[seed][t], -quality(t), t>>)
    IN  Range(First(ranked, PerSeed))

(* Of every candidate the best proposal, and all that agree on it.         *)
Proposed(best, seed, found) ==
    [t \in DOMAIN best \cup found |->
        LET score == ((Alike[seed.title][t] + 50) \div 100) * seed.rating
            held == IF t \in DOMAIN best THEN best[t]
                    ELSE [score |-> -1, agreeing |-> 0, seed |-> seed]
        IN  IF t \notin found THEN held
            ELSE [score    |-> Max({held.score, score}),
                  agreeing |-> held.agreeing + score,
                  seed     |-> IF score > held.score THEN seed ELSE held.seed]]

(* _facets; countries are left out.                                        *)
FacetOf(t) ==
    [directors |-> Film[t].directors, genres |-> Film[t].genres, cast |-> Film[t].cast,
     decades |-> IF Film[t].year = None THEN {} ELSE {Film[t].year \div 10},
     kinds |-> Film[t].kinds, languages |-> Film[t].languages]

(* profile: how far from the mean what has this key is rated, two ratings  *)
(* at the mean added; what is only wanted counts half, at the floor.       *)
Leaning(es, facet, key) ==
    LET counted == {s \in Listed(es) : key \in FacetOf(s)[facet]}
        rated == Cardinality(Rated(es))
        sum == Total(Rated(es), LAMBDA s : Rating(es, s))
        weight == Total(counted, LAMBDA s : IF s \in Rated(es) THEN 2 ELSE 1)
        total == Total(counted, LAMBDA s :
                     IF s \in Rated(es) THEN 2 * Rating(es, s) ELSE FavouriteFloor(es))
    IN  (100 * (rated * total - weight * sum)) \div (rated * (weight + 4))

(* Profile.lean.                                                           *)
FacetWeights == [directors |-> 10, genres |-> 10, cast |-> 5, decades |-> 5, kinds |-> 5,
                 languages |-> 3]
Lean(es, t) ==
    LET known(facet) == {k \in FacetOf(t)[facet] : \E s \in Listed(es) : k \in FacetOf(s)[facet]}
        value(facet) ==
            CASE facet = "genres" -> Total(known(facet), LAMBDA k : Rarity[k] * Leaning(es, facet, k))
                                     \div Max({1, Rarities(known(facet))})
              [] facet = "cast" -> Clamp(-200, Total(known(facet), LAMBDA k : Leaning(es, facet, k)), 200)
              [] OTHER -> Total(known(facet), LAMBDA k : Leaning(es, facet, k))
                          \div Max({1, Cardinality(known(facet))})
    IN  IF Rated(es) = {} THEN 0
        ELSE Total(DOMAIN FacetWeights, LAMBDA facet : FacetWeights[facet] * value(facet)) \div 10

(* quality_floor: under the median score of the favourites.                *)
QualityFloor(es) ==
    LET scored == {t \in Favourites(es) : Film[t].score # None}
        sorted == Sorted(scored, LAMBDA t : <<Film[t].score, t>>)
    IN  IF Cardinality(scored) < Evidence THEN None
        ELSE Clamp(55, Film[sorted[Len(sorted) \div 2 + 1]].score - 15, 75)

(* The candidates good enough, as picks with their points.                 *)
Scored(es, best, day) ==
    LET floor == QualityFloor(es)
        poor(t) == /\ floor # None /\ Film[t].score # None /\ Film[t].score < floor
                   /\ ~Kin(best[t].seed.title, t)
        points(t) == 10 * best[t].score
                     + Min({1500, 3 * (best[t].agreeing - best[t].score)})
                     + 20 * Lean(es, t)
                     + (IF floor = None \/ Film[t].score = None THEN 0 ELSE 30 * (Film[t].score - floor))
                     + 8 * Dice[day][t]
    IN  {[title |-> t, points |-> points(t), seed |-> best[t].seed] :
            t \in {c \in DOMAIN best : ~poor(c)}}

Likeness(s, t) ==
    IF Mix(s) \cup Mix(t) = {} THEN 0
    ELSE (800 * Cardinality(Mix(s) \cap Mix(t))) \div Cardinality(Mix(s) \cup Mix(t))

(* One more pick for the row (_varied): the best one left, less what it    *)
(* pays for its likeness to those that are in.                             *)
OneMore(row, picks) ==
    LET in == Range(row)
        open == {p \in picks \ in :
                     /\ Cardinality({q \in in : q.seed = p.seed}) < PerSeedPicks
                     /\ Cardinality({q \in in : Mix(q.title) = Mix(p.title)}) < PerMixPicks}
        worth(p) == p.points - Total(in, LAMBDA q : Likeness(p.title, q.title))
    IN  IF open = {} THEN row
        ELSE Append(row, Sorted(open, LAMBDA p : <<-worth(p), p.title>>)[1])

Varied(picks) == FoldLeft(LAMBDA row, i : OneMore(row, picks), <<>>, [i \in 1 .. Limit |-> i])

Picked(what, picks) ==
    IF what = "row" THEN Varied(picks)
    ELSE First(Sorted(picks, LAMBDA p : <<-p.points, p.title>>), MaxRecommended)

-----------------------------------------------------------------------------
(* The member's lists.                                                     *)

Offered == Catalogs[syncs + 1]
Latest(es) == Max({0} \cup {es[t].at : t \in Listed(es)})

Init ==
    /\ \E said \in Beginnings :
          entries = [t \in Titles |->
                        IF t \in DOMAIN said THEN [says |-> said[t], at |-> 1] ELSE None]
    /\ kept = [what \in {"row", "list"} |-> <<>>]
    /\ writing = [w \in Writers |-> None]
    /\ asking = [r \in Readers |-> None]
    /\ view = None /\ given = None
    /\ minute = 0 /\ stamps = 1
    /\ left = [t \in Titles |-> None]
    /\ asks = 0 /\ syncs = 0

(* upsert_my_item, as far as the flush: the entry is read, changed, and    *)
(* updated_at is set; the statement waits for the lock.                    *)
Write(w, t, says) ==
    /\ writing[w] = None /\ stamps <= MaxWrites
    /\ entries[t] # None => entries[t].says # says
    /\ writing' = [writing EXCEPT ![w] =
          [title |-> t, says |-> says, at |-> stamps + 1, new |-> entries[t] = None]]
    /\ stamps' = stamps + 1
    /\ given' = None
    /\ UNCHANGED <<entries, kept, asking, view, minute, left, asks, syncs>>

Changed(es) ==
    /\ entries' = es
    /\ asking' = [r \in Readers |->
                     IF asking[r] = None THEN None ELSE [asking[r] EXCEPT !.raced = TRUE]]
    /\ view' = IF view = None THEN None ELSE [view EXCEPT !.touched = TRUE]

(* Its commit; a row that has come, or gone, since is not written.         *)
Written(w) ==
    /\ writing[w] # None
    /\ writing' = [writing EXCEPT ![w] = None]
    /\ LET new == writing[w] IN
       IF new.new = (entries[new.title] = None)
       THEN Changed([entries EXCEPT ![new.title] = [says |-> new.says, at |-> new.at]])
       ELSE UNCHANGED <<entries, asking, view>>
    /\ given' = None
    /\ UNCHANGED <<kept, minute, stamps, left, asks, syncs>>

(* delete_my_item.                                                         *)
Unlist(t) ==
    /\ entries[t] # None /\ stamps <= MaxWrites
    /\ Changed([entries EXCEPT ![t] = None])
    /\ stamps' = stamps + 1
    /\ given' = None
    /\ UNCHANGED <<kept, writing, minute, left, asks, syncs>>

-----------------------------------------------------------------------------
(* The handlers.                                                           *)

(* SlipCounted: only how many there are.                                   *)
SlipCounted(es) == <<Cardinality(Listed(es)), 0>>

(* _lists_fingerprint.                                                     *)
Fingerprint(es) == <<Cardinality(Listed(es)), Latest(es)>>

Held(what, key) == {k \in DOMAIN kept[what] : kept[what][k].key = key}

Fresh(held) == held.expires > minute

(* An entry is moved to the end, or put where it was or at the end.        *)
Used(cache, k) == Append(RemoveAt(cache, k), cache[k])
Stored(cache, held) ==
    LET at == {k \in DOMAIN cache : cache[k].key = held.key}
        put == IF at = {} THEN Append(cache, held) ELSE [cache EXCEPT ![CHOOSE k \in at : TRUE] = held]
    IN  SubSeq(put, Len(put) - Min({CacheSize, Len(put)}) + 1, Len(put))

(* SlipFromZero: pages are taken to be counted from zero.                  *)
SlipFromZero(picks, n) == SubSeq(picks, n * PageSize + 1, Min({(n + 1) * PageSize, Len(picks)}))

(* A page of the list.                                                     *)
PageOf(picks, n) == SubSeq(picks, (n - 1) * PageSize + 1, Min({n * PageSize, Len(picks)}))

(* What the browser has of its view v after an answer from what is held    *)
(* (foryou.js, load); until when the first page's list is held, and whether  *)
(* another has been put in its place, is for PagesAddUp.                   *)
Shown(v, ask, held) ==
    LET page == PageOf(held.picks, ask.page)
        loaded == v.loaded \o page
    IN
    IF v = None THEN v
    ELSE IF ask.view # v.number THEN [v EXCEPT !.touched = @ \/ (ask.what = "list" /\ v.key = ask.key)]
    ELSE [v EXCEPT !.loaded = loaded, !.loading = FALSE, !.key = ask.key,
                   !.until = IF ask.page = 1 THEN held.expires ELSE @,
                   !.done = Len(loaded) >= Len(held.picks) \/ page = <<>>]

(* A request by a browser whose view is v by now: for_you and              *)
(* recommendations, as far as the lookup.                                  *)
Asks(r, wanted, v) ==
    LET key == <<wanted.filter, Fingerprint(entries)>>
        ask == wanted @@ [key |-> key, at |-> minute, todo |-> None, best |-> <<>>, raced |-> FALSE]
        hits == {k \in Held(ask.what, key) : Fresh(kept[ask.what][k])}
    IN  /\ asking[r] = None /\ asks < MaxAsks /\ asks' = asks + 1
        /\ \/ /\ hits = {}
              /\ asking' = [asking EXCEPT ![r] = ask]
              /\ view' = v /\ given' = None
              /\ UNCHANGED kept
           \/ \E k \in hits :
                 LET held == kept[ask.what][k] IN
                 /\ kept' = [kept EXCEPT ![ask.what] = Used(@, k)]
                 /\ given' = [what |-> ask.what, filter |-> ask.filter, picks |-> held.picks,
                              raced |-> held.raced]
                 /\ view' = Shown(v, ask, held)
                 /\ UNCHANGED asking
        /\ UNCHANGED <<entries, writing, minute, stamps, left, syncs>>

AskRow(r, filter) ==
    Asks(r, [what |-> "row", filter |-> filter, page |-> 1, view |-> 0], view)

(* createForYouView: the first page, then one more with every scroll to    *)
(* the end, of a viewer who waits for the answer.                          *)
Open(r, filter) ==
    LET number == IF view = None THEN 1 ELSE view.number + 1 IN
    Asks(r, [what |-> "list", filter |-> filter, page |-> 1, view |-> number],
         [number |-> number, filter |-> filter, page |-> 1, loaded |-> <<>>, loading |-> TRUE,
          done |-> FALSE, key |-> None, until |-> None, touched |-> FALSE])

Scroll(r) ==
    /\ view # None /\ ~view.done /\ ~view.loading
    /\ Asks(r, [what |-> "list", filter |-> view.filter, page |-> view.page + 1,
                view |-> view.number],
            [view EXCEPT !.page = @ + 1, !.loading = TRUE])

(* taste.for_you: the favourites are read.                                 *)
ReadSeeds(r) ==
    /\ asking[r] # None /\ asking[r].todo = None
    /\ asking' = [asking EXCEPT ![r].todo = SeedsOf(entries, DayOf(asking[r].at))]
    /\ given' = None
    /\ UNCHANGED <<entries, kept, writing, view, minute, stamps, left, asks, syncs>>

(* _filtered_ids less _own_titles, and never what is rated.                *)
Within(es, filter) == (Offered \cap filter) \ Listed(es)

(* Candidates for one more of them.                                        *)
FindSimilar(r) ==
    /\ asking[r] # None /\ asking[r].todo \notin {None, <<>>}
    /\ LET seed == Head(asking[r].todo) IN
       asking' = [asking EXCEPT
           ![r].todo = Tail(@),
           ![r].best = Proposed(@, seed, Similar(seed.title, Within(entries, asking[r].filter)))]
    /\ given' = None
    /\ UNCHANGED <<entries, kept, writing, view, minute, stamps, left, asks, syncs>>

(* The rest: the picks are chosen, kept and answered.                      *)
Choose(r) ==
    /\ asking[r] # None /\ asking[r].todo = <<>>
    /\ LET ask == asking[r]
           held == [key |-> ask.key, expires |-> ask.at + Ttl, raced |-> ask.raced,
                    picks |-> Picked(ask.what, Scored(entries, ask.best, DayOf(ask.at)))]
       IN  /\ kept' = [kept EXCEPT ![ask.what] = Stored(@, held)]
           /\ given' = [what |-> ask.what, filter |-> ask.filter, picks |-> held.picks,
                        raced |-> ask.raced]
           /\ view' = Shown(view, ask, held)
    /\ asking' = [asking EXCEPT ![r] = None]
    /\ UNCHANGED <<entries, writing, minute, stamps, left, asks, syncs>>

-----------------------------------------------------------------------------
(* Time, and the night's syncs.                                            *)

(* A request takes less than a minute.                                     *)
Passes ==
    /\ \A r \in Readers : asking[r] = None
    /\ minute < MaxMinutes /\ minute' = minute + 1
    /\ given' = None
    /\ UNCHANGED <<entries, kept, writing, asking, view, stamps, left, asks, syncs>>

Sync ==
    /\ syncs < Len(Catalogs) - 1 /\ syncs' = syncs + 1
    /\ left' = [t \in Titles |-> IF t \in Offered \ Offered' THEN minute ELSE left[t]]
    /\ given' = None
    /\ UNCHANGED <<entries, kept, writing, asking, view, minute, stamps, asks>>

Next ==
    \/ \E w \in Writers : Written(w) \/ \E said \in Sayings : Write(w, said[1], said[2])
    \/ \E t \in Titles : Unlist(t)
    \/ \E r \in Readers :
          \/ \E f \in Filters : AskRow(r, f) \/ Open(r, f)
          \/ Scroll(r) \/ ReadSeeds(r) \/ FindSimilar(r) \/ Choose(r)
    \/ Passes \/ Sync

Spec == Init /\ [][Next]_vars

-----------------------------------------------------------------------------

Pick == [title : Titles, points : Int, seed : [title : Titles, rating : 1 .. 10]]

TypeOK ==
    /\ \A t \in Titles : entries[t] = None \/ entries[t] \in [says : 0 .. 10, at : 1 .. MaxWrites + 1]
    /\ syncs < Len(Catalogs)
    /\ \A what \in {"row", "list"} :
          /\ Len(kept[what]) <= CacheSize
          /\ \A k \in DOMAIN kept[what] : kept[what][k].picks \in Seq(Pick)
    /\ \A t \in Titles : left[t] = None \/ left[t] \in 0 .. minute
    /\ minute \in 0 .. MaxMinutes /\ stamps \in 1 .. MaxWrites + 1

(* An answer is of the member's lists as they are and of a catalog no      *)
(* older than FOR_YOU_TTL: nothing on a list is picked, the reason is one  *)
(* of today's favourites with the rating it has, and the pick was offered  *)
(* lately - unless a row was written while it was worked out (for_you,      *)
(* recommendations, _lists_fingerprint).                                   *)
PicksAreCurrent ==
    [][given' = None \/ given'.raced
        \/ \A k \in DOMAIN given'.picks :
              LET p == given'.picks[k] IN
              /\ p.title \in given'.filter \ Listed(entries)
              /\ p.seed.title \in Favourites(entries)
              /\ p.seed.rating = Rating(entries, p.seed.title)
              /\ \/ p.title \in Offered
                 \/ left[p.title] # None /\ left[p.title] + Ttl > minute]_vars

(* The pages a browser has read of the recommendations are the beginning   *)
(* of one list, whatever a sync does to the catalog meanwhile, as long as  *)
(* the member changes nothing and the list that the first page is of is    *)
(* held - which may be for less than Ttl, where it was held already, and   *)
(* ends where another request had begun to work it out (recommendations,   *)
(* foryou.js).                                                             *)
PagesAddUp ==
    view # None /\ view.key # None /\ ~view.touched /\ minute < view.until
        => \E k \in Held("list", view.key) : IsPrefix(view.loaded, kept["list"][k].picks)
=============================================================================
