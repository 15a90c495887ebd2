------------------------------ MODULE MCUpkeep ------------------------------
(***************************************************************************)
(* The upkeep of the catalog, part by part: the due queue (Enrich), the    *)
(* index of Seret's pages (SeretIndex), the scores (Ratings) and the       *)
(* folding of duplicates (Merge).  The parts share no state here; a        *)
(* behaviour is one of one of them.                                        *)
(***************************************************************************)
EXTENDS Ratings, Sequences

CONSTANTS
    Fetchers, MaxTitles, Batch, Refresh, HotRefresh, Retry, RetryError, RetryMax,
    Narrowed, MaxFaults, MaxByHand,
    Pages, Withdrawn, Empty, Barred, BatchSize, SendEvery, Streak, MaxOutages,
    Copies, Users, MaxAdded

VARIABLES
    part,
    titles, attempt, order, carried, page, resolvable, scored, run, faults, hands,
    index, stale, crawling, due, unsent, streak, outages,
    catalog, alias, offers, rated, lists, tried, hit, plan, pc, locked, seen, added

E == INSTANCE Enrich
S == INSTANCE SeretIndex

AllFilms == [t \in Titles |-> "movie"]

(* Three copies with something of each kind to lose.                       *)
CatalogOf(he, en, years, known, held) ==
    [t \in Copies |-> [he |-> he[t], en |-> en[t], year |-> years[t], imdb |-> t \in known,
                       tmdb |-> IF t \in held THEN t ELSE None]]
SomeCatalogs ==
    {CatalogOf(<<1, 2, None>>, <<None, n2, n3>>, <<y1, 1, y3>>, known, held) :
        n2 \in {1, 2}, n3 \in {1, 2}, y1 \in {1, None}, y3 \in {1, 3},
        known \in {{}, {1, 3}}, held \in {{}, {3}, {1, 2}}}
SomeHits == {[t \in Copies |-> None], [t \in Copies |-> 2],
             [t \in Copies |-> IF t = 3 THEN 3 ELSE None]}

M == INSTANCE Merge WITH
        titles <- catalog, Titles <- Copies, Ids <- Copies, Names <- {1, 2}, Years <- {1, 3},
        Catalogs <- SomeCatalogs, Hits <- SomeHits,
        Records <- [i \in Copies |-> [name |-> 2, year |-> 1]],
        Sources <- {"kan"},
        Offered <- [t \in Copies |-> [s \in {"kan"} |-> <<"gone", "current", "none">>[t]]],
        Fetched <- [t \in Copies |-> [p \in Providers |-> IF t = 1 THEN 0 ELSE t]],
        Kept <- [t \in Copies |-> IF t = 3 THEN Users ELSE {}]

ASSUME UpkeepAssumption ==
    /\ E!EnrichAssumption /\ S!SeretIndexAssumption
    /\ RatingsAssumption /\ M!MergeAssumption

queue == <<titles, attempt, order, carried, page, resolvable, scored, run, faults, hands>>
crawl == <<index, stale, crawling, due, unsent, streak, outages>>
merging == <<catalog, alias, offers, rated, lists, tried, hit, plan, pc, locked, seen, added>>
everything == <<part, queue, crawl, vars, merging>>

InEnrich == part = "enrich" /\ UNCHANGED <<part, crawl, vars, merging>>
InIndex == part = "index" /\ UNCHANGED <<part, queue, vars, merging>>
InRatings == part = "ratings" /\ UNCHANGED <<part, queue, crawl, merging>>
InMerge == part = "merge" /\ UNCHANGED <<part, queue, crawl, vars>>

UpkeepInit ==
    /\ part \in {"enrich", "index", "ratings", "merge"}
    /\ E!Init /\ S!Init /\ Init /\ M!Init
    /\ Cardinality(titles) > 1 => resolvable = titles
    /\ part # "enrich" => titles = {1} /\ resolvable = {}
    /\ part # "merge" => catalog = (CHOOSE c \in SomeCatalogs : TRUE) /\ hit = (CHOOSE h \in SomeHits : TRUE)

(* Bounds: where the catalog has two titles, one fetcher works at them and *)
(* asks every provider; where it has one, fetchers overlap, and runs by    *)
(* hand may leave some out.                                                *)
First == CHOOSE f \in Fetchers : TRUE
Bounded ==
    Cardinality(titles) > 1 =>
        /\ \A f \in Fetchers \ {First} : run'[f] = run[f]
        /\ run'[First].kind \in {"nightly", "force"}

UpkeepNext ==
    \/ InEnrich /\ E!Next /\ Bounded
    \/ InIndex /\ S!Next
    \/ InRatings /\ Next
    \/ InMerge /\ M!Next

(* The fairness of each part, in its own behaviours; of the fetchers one   *)
(* that goes on is enough.                                                 *)
UpkeepFairness ==
    /\ WF_everything(InEnrich /\ E!Crawls(First)) /\ WF_everything(InEnrich /\ E!RunStep(First))
    /\ WF_everything(InEnrich /\ E!Day)
    /\ WF_everything(InIndex /\ S!Crawl) /\ WF_everything(InIndex /\ S!Passes)
    /\ WF_everything(InIndex /\ (S!Reads \/ S!Fails)) /\ WF_everything(InIndex /\ S!Finish)
    /\ \A r \in Requests :
          WF_everything(InRatings /\ Serves(r)) /\ WF_everything(InRatings /\ Rescores(r))

UpkeepSpec == UpkeepInit /\ [][UpkeepNext]_everything /\ UpkeepFairness

(* Every part keeps its types.                                             *)
UpkeepTypeOK == E!TypeOK /\ S!TypeOK /\ TypeOK /\ M!TypeOK

(* No crawl leaves a title asleep on a score that a stored page gives.     *)
NoScoreSleptOn == E!NoScoreSleptOn

(* Every title that is due comes up (titles_due).                          *)
EveryTitleComesUp == part = "enrich" => E!EveryTitleComesUp

(* Every page that can be read is read in the end (SeretIndexer._due).     *)
EveryPageRead == part = "index" => S!EveryPageRead

(* Every score is in the end the one its ratings give.                     *)
EveryScoreSettles == part = "ratings" => ScoresSettle

(* A merge loses nothing of what it folds (dedupe._merge_group).           *)
MergesKeepEverything == M!MergesKeepEverything
=============================================================================
