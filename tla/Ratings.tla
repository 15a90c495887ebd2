------------------------------ MODULE Ratings ------------------------------
(***************************************************************************)
(* What several requests that write scores at once make of them: findings  *)
(* of the enrichers title by title, the bulk pass over IMDb, and the pass  *)
(* that scores every title again.  eifo_core/enriching.py (store_ratings,  *)
(* apply_patch, recompute, recompute_all_aggregates) and the routes of     *)
(* eifo_api/routers/enriching.py.                                          *)
(*                                                                         *)
(* A session reads what is committed until its first flush, holds SQLite's *)
(* write lock from then on, and is never given a row again that it has     *)
(* already loaded.  So what a request knows of the first title it touches  *)
(* may be old when it writes, and the rest of it is one step.  A score is  *)
(* the ratings it was worked out from; the arithmetic is another module's. *)
(***************************************************************************)
EXTENDS Naturals, FiniteSets

CONSTANTS
    Titles, Kind,   \* the catalog, and which titles are films
    Providers,      \* rating providers, "imdb" among them
    Ids,            \* external ids a title can be given
    Requests,       \* requests that may be served at one time
    MaxScore,       \* bound: scores that can be told apart
    MaxReports,     \* bound: requests that write ratings
    None

RatingsAssumption ==
    /\ "imdb" \in Providers /\ Kind \in [Titles -> {"movie", "series"}]
    /\ MaxScore \in Nat \ {0} /\ MaxReports \in Nat
    /\ None \notin Nat /\ None \notin Ids

Scores == 1 .. MaxScore
Rated == [Providers -> Scores \cup {None}]
Unrated == [p \in Providers |-> None]

VARIABLES
    ratings,   \* external_ratings, by title and provider
    agg,       \* aggregate_scores: the ratings the score was worked out from
    tmdb,      \* titles.tmdb_id
    req,       \* what each request is at
    reports,
    raced,     \* history: requests another one committed under
    refused    \* history: whether the last step was a refusal

vars == <<ratings, agg, tmdb, req, reports, raced, refused>>

Request == [pc    : {"idle", "reported", "bulk", "rescoring", "scored"},
            title : Titles \cup {None},                \* the title it has loaded
            seen  : Rated,                             \* and the ratings of it
            was   : Rated,                             \* and its score
            free  : SUBSET Ids,                        \* ids it found not taken
            left  : SUBSET Titles]                     \* titles still to score again

Idle == [pc |-> "idle", title |-> None, seen |-> Unrated, was |-> Unrated,
         free |-> {}, left |-> {}]

TypeOK ==
    /\ ratings \in [Titles -> Rated]
    /\ agg \in [Titles -> Rated]
    /\ tmdb \in [Titles -> Ids \cup {None}]
    /\ req \in [Requests -> Request]
    /\ reports \in 0 .. MaxReports
    /\ raced \subseteq Requests /\ refused \in BOOLEAN

Init ==
    /\ ratings = [t \in Titles |-> Unrated]
    /\ agg = [t \in Titles |-> Unrated]
    /\ tmdb = [t \in Titles |-> None]
    /\ req = [r \in Requests |-> Idle]
    /\ reports = 0 /\ raced = {} /\ refused = FALSE

-----------------------------------------------------------------------------

At(r, pc) == req[r].pc = pc
SlipScoredBefore(t) == agg[t] # Unrated

HasRatings(t) == ratings[t] # Unrated

(* Ends a request whose writes everybody else now finds committed.         *)
Commits(r) ==
    /\ req' = [req EXCEPT ![r] = Idle]
    /\ raced' = (raced \cup {o \in Requests : ~At(o, "idle")}) \ {r}
    /\ refused' = FALSE

(* An exception: the session is closed and nothing of it stays.            *)
RollsBack(r) ==
    /\ req' = [req EXCEPT ![r] = Idle]
    /\ raced' = raced \ {r} /\ refused' = TRUE
    /\ UNCHANGED <<ratings, agg, tmdb>>

(* _already_taken: films and series are numbered apart.                    *)
AlreadyTaken(t, i) == \E o \in Titles \ {t} : tmdb[o] = i /\ Kind[o] = Kind[t]

(* The unique constraint on (type, tmdb_id), whatever was read before.     *)
Refused(t, i) == \E o \in Titles \ {t} : tmdb[o] = i /\ Kind[o] = Kind[t]

(* A rating that was not there when the title was loaded is inserted, and  *)
(* there may be one by now.                                                *)
Clashes(r, t, found) ==
    \E p \in DOMAIN found : req[r].seen[p] = None /\ ratings[t][p] # None

(* A column that is given the value it was loaded with is not written.     *)
Upserted(r, t, found) ==
    [p \in Providers |-> IF p \in DOMAIN found /\ found[p] # req[r].seen[p]
                        THEN found[p] ELSE ratings[t][p]]

(* recompute, as the session sees the title: what it loaded is what it     *)
(* still holds, what it wrote is new, and the rest is read now.            *)
AsHeld(r, t, found) ==
    [p \in Providers |->
        IF p \in DOMAIN found THEN found[p]
        ELSE IF req[r].seen[p] # None THEN req[r].seen[p] ELSE ratings[t][p]]

SlipSkipsRescore(r, t, found) == agg[t]

(* No row is written for a title without ratings.                          *)
Rescored(r, t, found) == AsHeld(r, t, found)

Findings == UNION {[ps -> Scores] : ps \in SUBSET Providers}

-----------------------------------------------------------------------------
(* Requests.                                                               *)

(* A chunk of findings is taken up, and its first title loaded.            *)
Reports(r) ==
    /\ At(r, "idle") /\ reports < MaxReports
    /\ reports' = reports + 1
    /\ \E t \in Titles :
          req' = [req EXCEPT ![r] =
             [Idle EXCEPT !.pc = "reported", !.title = t, !.seen = ratings[t],
                          !.free = {i \in Ids : ~AlreadyTaken(t, i)}]]
    /\ UNCHANGED <<ratings, agg, tmdb, raced, refused>>

(* apply_patch: an empty field is filled, unless the id was taken.         *)
Patched(r, t, i) ==
    IF i \in req[r].free /\ tmdb[t] = None THEN [tmdb EXCEPT ![t] = i] ELSE tmdb

(* The first title is written, scored and committed; the database refuses  *)
(* the whole chunk for a rating or an id it already has.                   *)
Stores(r) ==
    /\ At(r, "reported")
    /\ LET t == req[r].title IN
       \E found \in Findings, i \in Ids \cup {None} :
          IF Clashes(r, t, found) \/ (Patched(r, t, i) # tmdb /\ Refused(t, i))
          THEN RollsBack(r)
          ELSE /\ ratings' = [ratings EXCEPT ![t] = Upserted(r, t, found)]
               /\ tmdb' = Patched(r, t, i)
               /\ agg' = IF ratings'[t] = Unrated THEN agg
                         ELSE [agg EXCEPT ![t] = Rescored(r, t, found)]
               /\ Commits(r)
    /\ UNCHANGED reports

(* imdb_ratings: its scores are written when the request ends, and nothing *)
(* is scored.                                                              *)
Bulks(r) ==
    /\ At(r, "idle") /\ reports < MaxReports
    /\ reports' = reports + 1
    /\ \E t \in Titles :
          req' = [req EXCEPT ![r] = [Idle EXCEPT !.pc = "bulk", !.title = t, !.seen = ratings[t]]]
    /\ UNCHANGED <<ratings, agg, tmdb, raced, refused>>

StoresBulk(r) ==
    /\ At(r, "bulk")
    /\ LET t == req[r].title IN
       \E s \in Scores :
          IF Clashes(r, t, [p \in {"imdb"} |-> s])
          THEN RollsBack(r)
          ELSE /\ ratings' = [ratings EXCEPT ![t] = Upserted(r, t, [p \in {"imdb"} |-> s])]
               /\ UNCHANGED <<agg, tmdb>>
               /\ Commits(r)
    /\ UNCHANGED reports

(* recompute_all_aggregates: the titles that are rated as it begins, each  *)
(* read, and written before the next is.  A transaction holds many of them *)
(* and is open to others before its first write only: here it is of one.   *)
Rescores(r) ==
    /\ At(r, "idle")
    /\ \E t \in Titles : HasRatings(t)
    /\ req' = [req EXCEPT ![r] =
          [Idle EXCEPT !.pc = "rescoring", !.left = {t \in Titles : HasRatings(t)}]]
    /\ UNCHANGED <<ratings, agg, tmdb, reports, raced, refused>>

ScoresNext(r) ==
    /\ At(r, "rescoring")
    /\ \E t \in req[r].left :
          req' = [req EXCEPT ![r].pc = "scored", ![r].title = t, ![r].seen = ratings[t],
                             ![r].was = agg[t], ![r].left = @ \ {t}]
    /\ UNCHANGED <<ratings, agg, tmdb, reports, raced, refused>>

(* A score that was not there when it was looked for is inserted, and the  *)
(* pass ends if there is one by now.                                       *)
KeepsScore(r) ==
    /\ At(r, "scored")
    /\ LET t == req[r].title IN
       IF req[r].was = Unrated /\ agg[t] # Unrated
       THEN RollsBack(r)
       ELSE /\ agg' = IF req[r].seen = req[r].was THEN agg
                      ELSE [agg EXCEPT ![t] = req[r].seen]
            /\ IF req[r].left = {} THEN Commits(r)
               ELSE /\ req' = [req EXCEPT ![r].pc = "rescoring"]
                    /\ raced' = raced \cup {o \in Requests \ {r} : ~At(o, "idle")}
                    /\ refused' = FALSE
            /\ UNCHANGED <<ratings, tmdb>>
    /\ UNCHANGED reports

Serves(r) == Stores(r) \/ StoresBulk(r) \/ ScoresNext(r) \/ KeepsScore(r)

Next == \E r \in Requests : Reports(r) \/ Bulks(r) \/ Rescores(r) \/ Serves(r)

(* A request that is served is served to its end, and every enrichment     *)
(* asks for the scores again.                                              *)
Fairness == \A r \in Requests : WF_vars(Serves(r)) /\ WF_vars(Rescores(r))

Spec == Init /\ [][Next]_vars /\ Fairness

-----------------------------------------------------------------------------

Quiet == \A r \in Requests : At(r, "idle")
Agrees(t) == agg[t] = ratings[t]

(* "Recompute a title's aggregate from whatever ratings it now has": once  *)
(* a chunk of findings is stored, the score of its title is the one its    *)
(* stored ratings give, whoever else wrote them (enriching.py, recompute). *)
ScoredAsRated ==
    [][\A r \in Requests :
          At(r, "reported") /\ req'[r] # req[r] /\ ratings' # ratings
             => agg'[req[r].title] = ratings'[req[r].title]]_vars

(* When reports stop coming, passes over the whole catalog put right every *)
(* score that a bulk pass or a race left behind, for good.                 *)
ScoresSettle == <>[](\A t \in Titles : Agrees(t))

(* Unless another request was committed while it was stored, a report is  *)
(* taken, whatever ids it brings, and leaves the score that its ratings    *)
(* give (_already_taken: an id of another title would otherwise cost the   *)
(* run's "remaining work with it").                                        *)
UnracedReportsCount ==
    [][\A r \in Requests \ raced :
          At(r, "reported") /\ req'[r] # req[r] =>
             ~refused' /\ (ratings' # ratings => agg'[req[r].title] = ratings'[req[r].title])]_vars
=============================================================================
