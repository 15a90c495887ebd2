--------------------------- MODULE RatingsProofs ---------------------------
(***************************************************************************)
(* Proofs about the requests that write ratings: one that no other was     *)
(* committed under still knows its title as it stands, so that nothing of  *)
(* its report is refused and the score it leaves is the one of the stored  *)
(* ratings.                                                                *)
(***************************************************************************)
EXTENDS Ratings, TLAPS

(* A report that was not overtaken holds what the tables hold.             *)
Current(r) ==
    /\ req[r].seen = ratings[req[r].title]
    /\ req[r].free = {i \in Ids : ~AlreadyTaken(req[r].title, i)}

Loaded == {"reported", "bulk", "scored"}

HasTitle == \A r \in Requests : req[r].pc \in Loaded => req[r].title \in Titles

UnracedAreCurrent ==
    \A r \in Requests : req[r].pc = "reported" /\ r \notin raced => Current(r)

ScoreInv == TypeOK /\ HasTitle /\ UnracedAreCurrent

-----------------------------------------------------------------------------
(* About what is found.                                                    *)

(* Findings are scores of some of the providers.                           *)
LEMMA FindingsAreScores ==
    ASSUME NEW found \in Findings
    PROVE  /\ DOMAIN found \subseteq Providers
           /\ \A p \in DOMAIN found : found[p] \in Scores
<1>1. PICK ps \in SUBSET Providers : found \in [ps -> Scores]
  BY DEF Findings
<1> QED
  BY <1>1

(* No score is no rating.                                                  *)
LEMMA NoneIsNoScore == RatingsAssumption => None \notin Scores
BY DEF RatingsAssumption, Scores

LEMMA RatedTypes ==
    ASSUME RatingsAssumption, TypeOK, NEW r \in Requests, req[r].title \in Titles,
           NEW found, DOMAIN found \subseteq Providers,
           \A p \in DOMAIN found : found[p] \in Scores
    PROVE  /\ Upserted(r, req[r].title, found) \in Rated
           /\ Rescored(r, req[r].title, found) \in Rated
<1>1. ratings[req[r].title] \in Rated /\ req[r].seen \in Rated
  BY DEF TypeOK, Request
<1>2. /\ \A p \in Providers : ratings[req[r].title][p] \in Scores \cup {None}
      /\ \A p \in Providers : req[r].seen[p] \in Scores \cup {None}
  BY <1>1 DEF Rated
<1> QED
  BY <1>2 DEF Upserted, Rescored, AsHeld, Rated

(* What a request that holds its title as it stands writes and what it     *)
(* scores are the same ratings.                                            *)
LEMMA ScoresWhatItWrites ==
    ASSUME RatingsAssumption, TypeOK, NEW r \in Requests, req[r].title \in Titles,
           NEW found, DOMAIN found \subseteq Providers,
           req[r].seen = ratings[req[r].title]
    PROVE  Upserted(r, req[r].title, found) = Rescored(r, req[r].title, found)
<1>1. \A p \in Providers :
         (IF p \in DOMAIN found /\ found[p] # req[r].seen[p]
          THEN found[p] ELSE ratings[req[r].title][p])
       = (IF p \in DOMAIN found THEN found[p]
          ELSE IF req[r].seen[p] # None THEN req[r].seen[p] ELSE ratings[req[r].title][p])
  OBVIOUS
<1> QED
  BY <1>1 DEF Upserted, Rescored, AsHeld

-----------------------------------------------------------------------------
(* The invariant.                                                          *)

LEMMA UnratedIsRated == Unrated \in Rated
BY DEF Unrated, Rated

LEMMA IdleIsARequest == Idle \in Request /\ Idle.pc = "idle"
BY UnratedIsRated DEF Idle, Request

LEMMA ScoreStart == RatingsAssumption /\ Init => ScoreInv
<1> SUFFICES ASSUME RatingsAssumption, Init PROVE ScoreInv
  OBVIOUS
<1>1. \A r \in Requests : req[r] = Idle
  BY DEF Init
<1>2. TypeOK
  <2>1. ratings \in [Titles -> Rated] /\ agg \in [Titles -> Rated]
    BY UnratedIsRated DEF Init
  <2>2. tmdb \in [Titles -> Ids \cup {None}] /\ req \in [Requests -> Request]
    BY IdleIsARequest DEF Init
  <2>3. reports \in 0 .. MaxReports
    BY DEF Init, RatingsAssumption
  <2> QED
    BY <2>1, <2>2, <2>3 DEF Init, TypeOK
<1>3. HasTitle /\ UnracedAreCurrent
  BY <1>1, IdleIsARequest DEF HasTitle, UnracedAreCurrent, Loaded
<1> QED
  BY <1>2, <1>3 DEF ScoreInv

(* A step of one request that writes nothing but what it knows.            *)
LEMMA Looking ==
    ASSUME RatingsAssumption, ScoreInv, NEW r \in Requests, NEW q \in Request,
           req' = [req EXCEPT ![r] = q],
           q.pc \in Loaded => q.title \in Titles,
           q.pc = "reported" => /\ q.seen = ratings[q.title]
                                /\ q.free = {i \in Ids : ~AlreadyTaken(q.title, i)},
           reports' \in 0 .. MaxReports, raced' \in {raced, raced \ {r}}, refused' \in BOOLEAN,
           q.pc = "reported" \/ raced' = raced \/ q.pc = "idle",
           ratings' = ratings, agg' \in [Titles -> Rated], tmdb' = tmdb
    PROVE  ScoreInv'
<1>1. req \in [Requests -> Request] /\ tmdb \in [Titles -> Ids \cup {None}]
      /\ ratings \in [Titles -> Rated] /\ raced \subseteq Requests
  BY DEF ScoreInv, TypeOK
<1>2. req'[r] = q /\ \A o \in Requests : o # r => req'[o] = req[o]
  BY <1>1
<1>3. TypeOK'
  BY <1>1 DEF TypeOK
<1>4. HasTitle'
  BY <1>2 DEF HasTitle, ScoreInv
<1>5. UnracedAreCurrent'
  <2> SUFFICES ASSUME NEW o \in Requests, req'[o].pc = "reported", o \notin raced'
               PROVE  Current(o)'
    BY DEF UnracedAreCurrent
  <2>1. CASE o = r
    BY <1>2, <2>1 DEF Current, AlreadyTaken
  <2>2. CASE o # r
    <3>1. o \notin raced /\ req[o].pc = "reported" /\ req'[o] = req[o]
      BY <1>2, <2>2
    <3>2. Current(o)
      BY <3>1 DEF UnracedAreCurrent, ScoreInv
    <3> QED
      BY <3>1, <3>2 DEF Current, AlreadyTaken
  <2> QED
    BY <2>1, <2>2
<1> QED
  BY <1>3, <1>4, <1>5 DEF ScoreInv

(* A step that commits, and overtakes everybody else who is at work.       *)
LEMMA Committing ==
    ASSUME RatingsAssumption, ScoreInv, NEW r \in Requests, NEW q \in Request,
           req' = [req EXCEPT ![r] = q], q.pc \notin Loaded,
           raced' \subseteq Requests, {o \in Requests \ {r} : ~At(o, "idle")} \subseteq raced',
           reports' \in 0 .. MaxReports, refused' \in BOOLEAN,
           ratings' \in [Titles -> Rated], agg' \in [Titles -> Rated],
           tmdb' \in [Titles -> Ids \cup {None}]
    PROVE  ScoreInv'
<1>1. req \in [Requests -> Request]
  BY DEF ScoreInv, TypeOK
<1>2. req'[r] = q /\ \A o \in Requests : o # r => req'[o] = req[o]
  BY <1>1
<1>3. TypeOK'
  BY <1>1 DEF TypeOK
<1>4. HasTitle'
  BY <1>2 DEF HasTitle, ScoreInv
<1>5. \A o \in Requests : req'[o].pc = "reported" => o \in raced'
  BY <1>2 DEF At, Loaded
<1>6. UnracedAreCurrent'
  BY <1>5 DEF UnracedAreCurrent
<1> QED
  BY <1>3, <1>4, <1>6 DEF ScoreInv

-----------------------------------------------------------------------------
(* The steps.                                                              *)

LEMMA TakenUp ==
    ASSUME RatingsAssumption, ScoreInv, NEW r \in Requests, Reports(r) \/ Bulks(r)
    PROVE  ScoreInv'
<1>1. /\ ratings' = ratings /\ agg' = agg /\ tmdb' = tmdb /\ raced' = raced
      /\ refused' = refused
  BY DEF Reports, Bulks
<1>2. ratings \in [Titles -> Rated] /\ agg \in [Titles -> Rated] /\ refused \in BOOLEAN
  BY DEF ScoreInv, TypeOK
<1>3. reports' \in 0 .. MaxReports
  <2>1. reports \in 0 .. MaxReports /\ MaxReports \in Nat
    BY DEF ScoreInv, TypeOK, RatingsAssumption
  <2>2. reports < MaxReports /\ reports' = reports + 1
    BY DEF Reports, Bulks
  <2> QED
    BY <2>1, <2>2
<1> DEFINE Report(t) == [Idle EXCEPT !.pc = "reported", !.title = t, !.seen = ratings[t],
                                    !.free = {i \in Ids : ~AlreadyTaken(t, i)}]
           Bulk(t) == [Idle EXCEPT !.pc = "bulk", !.title = t, !.seen = ratings[t]]
<1>0. PICK t \in Titles : req' = [req EXCEPT ![r] = Report(t)] \/ req' = [req EXCEPT ![r] = Bulk(t)]
  BY DEF Reports, Bulks
<1>4. PICK q : req' = [req EXCEPT ![r] = q] /\ (q = Report(t) \/ q = Bulk(t))
  BY <1>0
<1>5. /\ q \in Request /\ q.title = t
      /\ q.pc = "reported" => /\ q.seen = ratings[q.title]
                              /\ q.free = {i \in Ids : ~AlreadyTaken(q.title, i)}
  <2>1. ratings[t] \in Rated /\ Unrated \in Rated
    BY <1>2, UnratedIsRated
  <2>2. CASE q = [Idle EXCEPT !.pc = "reported", !.title = t, !.seen = ratings[t],
                              !.free = {i \in Ids : ~AlreadyTaken(t, i)}]
    <3>1. PICK free \in SUBSET Ids : free = {i \in Ids : ~AlreadyTaken(t, i)}
      OBVIOUS
    <3>2. q = [pc |-> "reported", title |-> t, seen |-> ratings[t], was |-> Unrated,
               free |-> free, left |-> {}]
      BY <2>2, <3>1 DEF Idle
    <3> QED
      BY <2>1, <3>1, <3>2 DEF Request
  <2>3. CASE q = [Idle EXCEPT !.pc = "bulk", !.title = t, !.seen = ratings[t]]
    <3>2. q = [pc |-> "bulk", title |-> t, seen |-> ratings[t], was |-> Unrated,
               free |-> {}, left |-> {}]
      BY <2>3 DEF Idle
    <3> QED
      BY <2>1, <3>2 DEF Request
  <2> QED
    BY <1>4, <2>2, <2>3
<1> QED
  BY <1>1, <1>2, <1>3, <1>4, <1>5, Looking

LEMMA PassBegun ==
    ASSUME RatingsAssumption, ScoreInv, NEW r \in Requests, Rescores(r) \/ ScoresNext(r)
    PROVE  ScoreInv'
<1>1. /\ ratings' = ratings /\ agg' = agg /\ tmdb' = tmdb /\ raced' = raced
      /\ refused' = refused /\ reports' = reports
  BY DEF Rescores, ScoresNext
<1>2. /\ ratings \in [Titles -> Rated] /\ agg \in [Titles -> Rated] /\ refused \in BOOLEAN
      /\ reports \in 0 .. MaxReports /\ req \in [Requests -> Request]
  BY DEF ScoreInv, TypeOK
<1>3. CASE Rescores(r)
  <2>1. PICK left \in SUBSET Titles : left = {t \in Titles : HasRatings(t)}
    OBVIOUS
  <2>2. PICK q : q = [Idle EXCEPT !.pc = "rescoring", !.left = left]
    OBVIOUS
  <2>3. q = [pc |-> "rescoring", title |-> None, seen |-> Unrated, was |-> Unrated,
             free |-> {}, left |-> left]
    BY <2>2 DEF Idle
  <2>4. q \in Request /\ q.pc = "rescoring"
    BY <2>3, UnratedIsRated DEF Request
  <2>5. req' = [req EXCEPT ![r] = q]
    BY <1>3, <2>1, <2>2 DEF Rescores
  <2> QED
    BY <1>1, <1>2, <2>4, <2>5, Looking DEF Loaded
<1>4. CASE ScoresNext(r)
  <2>1. PICK t \in req[r].left :
           req' = [req EXCEPT ![r].pc = "scored", ![r].title = t, ![r].seen = ratings[t],
                              ![r].was = agg[t], ![r].left = @ \ {t}]
    BY <1>4 DEF ScoresNext
  <2>2. t \in Titles
    BY <1>2, <2>1 DEF Request
  <2>3. PICK q : q = [req[r] EXCEPT !.pc = "scored", !.title = t, !.seen = ratings[t],
                                    !.was = agg[t], !.left = @ \ {t}]
    OBVIOUS
  <2>4. q \in Request /\ q.pc = "scored" /\ q.title = t
    BY <1>2, <2>2, <2>3 DEF Request
  <2>5. req' = [req EXCEPT ![r] = q]
    BY <1>2, <2>1, <2>3
  <2> QED
    BY <1>1, <1>2, <2>2, <2>4, <2>5, Looking
<1> QED
  BY <1>3, <1>4

(* A refusal leaves the tables as they were.                               *)
LEMMA RefusedKeeps ==
    ASSUME RatingsAssumption, ScoreInv, NEW r \in Requests, RollsBack(r), reports' = reports
    PROVE  ScoreInv'
<1>1. /\ ratings' = ratings /\ agg' = agg /\ tmdb' = tmdb /\ raced' = raced \ {r}
      /\ refused' = TRUE /\ req' = [req EXCEPT ![r] = Idle]
  BY DEF RollsBack
<1>2. agg \in [Titles -> Rated] /\ reports \in 0 .. MaxReports
  BY DEF ScoreInv, TypeOK
<1>3. Idle \in Request /\ Idle.pc \notin Loaded /\ Idle.pc # "reported" /\ Idle.pc = "idle"
  BY IdleIsARequest DEF Loaded
<1> QED
  BY <1>1, <1>2, <1>3, Looking

(* A request that commits ends, and everybody else at work is overtaken.   *)
LEMMA CommittedKeeps ==
    ASSUME RatingsAssumption, ScoreInv, NEW r \in Requests, Commits(r), reports' = reports,
           ratings' \in [Titles -> Rated], agg' \in [Titles -> Rated],
           tmdb' \in [Titles -> Ids \cup {None}]
    PROVE  ScoreInv'
<1>1. /\ req' = [req EXCEPT ![r] = Idle] /\ refused' = FALSE
      /\ raced' = (raced \cup {o \in Requests : ~At(o, "idle")}) \ {r}
  BY DEF Commits
<1>2. raced \subseteq Requests /\ reports \in 0 .. MaxReports
  BY DEF ScoreInv, TypeOK
<1>3. Idle \in Request /\ Idle.pc \notin Loaded
  BY IdleIsARequest DEF Loaded
<1> QED
  BY <1>1, <1>2, <1>3, Committing

LEMMA StoresKeeps ==
    ASSUME RatingsAssumption, ScoreInv, NEW r \in Requests, Stores(r)
    PROVE  ScoreInv'
<1> DEFINE t == req[r].title
<1>1. t \in Titles /\ reports' = reports /\ TypeOK
  BY DEF Stores, At, ScoreInv, HasTitle, Loaded
<1>2. PICK found \in Findings, i \in Ids \cup {None} :
         IF Clashes(r, t, found) \/ (Patched(r, t, i) # tmdb /\ Refused(t, i))
         THEN RollsBack(r)
         ELSE /\ ratings' = [ratings EXCEPT ![t] = Upserted(r, t, found)]
              /\ tmdb' = Patched(r, t, i)
              /\ agg' = IF ratings'[t] = Unrated THEN agg
                        ELSE [agg EXCEPT ![t] = Rescored(r, t, found)]
              /\ Commits(r)
  BY DEF Stores
<1>3. CASE RollsBack(r)
  BY <1>1, <1>3, RefusedKeeps
<1>4. CASE ~ (Clashes(r, t, found) \/ (Patched(r, t, i) # tmdb /\ Refused(t, i)))
  <2>1. Upserted(r, t, found) \in Rated /\ Rescored(r, t, found) \in Rated
    BY <1>1, FindingsAreScores, RatedTypes
  <2>2. /\ ratings \in [Titles -> Rated] /\ agg \in [Titles -> Rated]
        /\ tmdb \in [Titles -> Ids \cup {None}]
    BY <1>1 DEF TypeOK
  <2>3. ratings' \in [Titles -> Rated] /\ agg' \in [Titles -> Rated]
    BY <1>2, <1>4, <2>1, <2>2
  <2>4. tmdb' \in [Titles -> Ids \cup {None}]
    BY <1>2, <1>4, <2>2 DEF Patched
  <2>5. Commits(r)
    BY <1>2, <1>4
  <2> QED
    BY <1>1, <2>3, <2>4, <2>5, CommittedKeeps
<1> QED
  BY <1>2, <1>3, <1>4

LEMMA StoresBulkKeeps ==
    ASSUME RatingsAssumption, ScoreInv, NEW r \in Requests, StoresBulk(r)
    PROVE  ScoreInv'
<1> DEFINE t == req[r].title
<1>1. t \in Titles /\ reports' = reports /\ TypeOK
  BY DEF StoresBulk, At, ScoreInv, HasTitle, Loaded
<1>2. PICK s \in Scores :
         IF Clashes(r, t, [p \in {"imdb"} |-> s])
         THEN RollsBack(r)
         ELSE /\ ratings' = [ratings EXCEPT ![t] = Upserted(r, t, [p \in {"imdb"} |-> s])]
              /\ UNCHANGED <<agg, tmdb>>
              /\ Commits(r)
  BY DEF StoresBulk
<1>3. CASE RollsBack(r)
  BY <1>1, <1>3, RefusedKeeps
<1>4. CASE ~ Clashes(r, t, [p \in {"imdb"} |-> s])
  <2>1. PICK found : found = [p \in {"imdb"} |-> s]
    OBVIOUS
  <2>2. DOMAIN found \subseteq Providers /\ \A p \in DOMAIN found : found[p] \in Scores
    BY <2>1 DEF RatingsAssumption
  <2>3. Upserted(r, t, found) \in Rated
    BY <1>1, <2>2, RatedTypes
  <2>4. /\ ratings \in [Titles -> Rated] /\ agg \in [Titles -> Rated]
        /\ tmdb \in [Titles -> Ids \cup {None}]
    BY <1>1 DEF TypeOK
  <2>5. ratings' = [ratings EXCEPT ![t] = Upserted(r, t, found)]
    BY <1>2, <1>4, <2>1
  <2>6. ratings' \in [Titles -> Rated]
    BY <2>3, <2>4, <2>5
  <2>7. agg' = agg /\ tmdb' = tmdb /\ Commits(r)
    BY <1>2, <1>4
  <2> QED
    BY <1>1, <2>4, <2>6, <2>7, CommittedKeeps
<1> QED
  BY <1>2, <1>3, <1>4

LEMMA KeepsScoreKeeps ==
    ASSUME RatingsAssumption, ScoreInv, NEW r \in Requests, KeepsScore(r)
    PROVE  ScoreInv'
<1> DEFINE t == req[r].title
<1>1. t \in Titles /\ reports' = reports /\ TypeOK
  BY DEF KeepsScore, At, ScoreInv, HasTitle, Loaded
<1>2. /\ ratings \in [Titles -> Rated] /\ agg \in [Titles -> Rated]
      /\ tmdb \in [Titles -> Ids \cup {None}] /\ req[r] \in Request
      /\ raced \subseteq Requests /\ reports \in 0 .. MaxReports /\ req \in [Requests -> Request]
  BY <1>1 DEF TypeOK
<1>3. CASE RollsBack(r)
  BY <1>1, <1>3, RefusedKeeps
<1>4. CASE ~ (req[r].was = Unrated /\ agg[t] # Unrated)
  <2>1. ratings' = ratings /\ tmdb' = tmdb /\ agg' \in [Titles -> Rated]
    <3>1. req[r].seen \in Rated
      BY <1>2 DEF Request
    <3> QED
      BY <1>2, <1>4, <3>1 DEF KeepsScore
  <2>2. CASE Commits(r)
    BY <1>1, <1>2, <2>1, <2>2, CommittedKeeps
  <2>3. CASE ~ Commits(r)
    <3>1. PICK q : q = [req[r] EXCEPT !.pc = "rescoring"]
      OBVIOUS
    <3>2. q \in Request /\ q.pc \notin Loaded
      BY <1>2, <3>1 DEF Request, Loaded
    <3>3. /\ req' = [req EXCEPT ![r] = q] /\ refused' = FALSE
          /\ raced' = raced \cup {o \in Requests \ {r} : ~At(o, "idle")}
      BY <1>2, <1>4, <2>3, <3>1 DEF KeepsScore
    <3> QED
      BY <1>1, <1>2, <2>1, <3>2, <3>3, Committing
  <2> QED
    BY <2>2, <2>3
<1> QED
  BY <1>3, <1>4 DEF KeepsScore

LEMMA ScoreStep == RatingsAssumption /\ ScoreInv /\ [Next]_vars => ScoreInv'
<1> SUFFICES ASSUME RatingsAssumption, ScoreInv, [Next]_vars PROVE ScoreInv'
  OBVIOUS
<1>1. ASSUME NEW r \in Requests, Reports(r) \/ Bulks(r) \/ Rescores(r) \/ Serves(r)
      PROVE  ScoreInv'
  BY <1>1, TakenUp, PassBegun, StoresKeeps, StoresBulkKeeps, KeepsScoreKeeps DEF Serves
<1>2. CASE UNCHANGED vars
  BY <1>2 DEF vars, ScoreInv, TypeOK, HasTitle, UnracedAreCurrent, Current, AlreadyTaken
<1> QED
  BY <1>1, <1>2 DEF Next

LEMMA Scored == RatingsAssumption => (Spec => []ScoreInv)
<1> SUFFICES ASSUME RatingsAssumption PROVE Spec => []ScoreInv
  OBVIOUS
<1>1. Init => ScoreInv
  BY ScoreStart
<1>2. ScoreInv /\ [Next]_vars => ScoreInv'
  BY ScoreStep
<1> QED
  BY <1>1, <1>2, PTL DEF Spec

-----------------------------------------------------------------------------
(* What follows.                                                           *)

(* Ratings, scores, ids and requests keep their types.                     *)
THEOREM TypeCorrect == RatingsAssumption => (Spec => []TypeOK)
<1>1. ScoreInv => TypeOK
  BY DEF ScoreInv
<1> QED
  BY <1>1, Scored, PTL

(* A report that was not overtaken is not refused, and scores its title as *)
(* the title is now rated.                                                 *)
LEMMA UnracedIsTaken ==
    ASSUME RatingsAssumption, ScoreInv, [Next]_vars, NEW r \in Requests \ raced,
           At(r, "reported"), req'[r] # req[r]
    PROVE  ~refused' /\ (ratings' # ratings => agg'[req[r].title] = ratings'[req[r].title])
<1> DEFINE t == req[r].title
<1>1. TypeOK /\ t \in Titles /\ Current(r)
  BY DEF ScoreInv, HasTitle, UnracedAreCurrent, At, Loaded
<1>2. Stores(r)
  <2>1. PICK o \in Requests : Reports(o) \/ Bulks(o) \/ Rescores(o) \/ Serves(o)
    BY DEF Next, vars
  <2>2. req \in [Requests -> Request]
    BY <1>1 DEF TypeOK
  <2>3. \E q : req' = [req EXCEPT ![o] = q]
    <3>1. CASE Reports(o) \/ Bulks(o) \/ Rescores(o)
      BY <3>1 DEF Reports, Bulks, Rescores
    <3>2. CASE Stores(o) \/ StoresBulk(o)
      BY <3>2 DEF Stores, StoresBulk, Commits, RollsBack
    <3>3. CASE ScoresNext(o)
      <4>1. PICK u \in req[o].left :
               req' = [req EXCEPT ![o].pc = "scored", ![o].title = u, ![o].seen = ratings[u],
                                  ![o].was = agg[u], ![o].left = @ \ {u}]
        BY <3>3 DEF ScoresNext
      <4>2. req' = [req EXCEPT ![o] = [req[o] EXCEPT !.pc = "scored", !.title = u,
                       !.seen = ratings[u], !.was = agg[u], !.left = @ \ {u}]]
        BY <2>2, <4>1
      <4> QED
        BY <4>2
    <3>4. CASE KeepsScore(o)
      <4>1. CASE req' = [req EXCEPT ![o].pc = "rescoring"]
        <5>1. req' = [req EXCEPT ![o] = [req[o] EXCEPT !.pc = "rescoring"]]
          BY <2>2, <4>1
        <5> QED
          BY <5>1
      <4> QED
        BY <3>4, <4>1 DEF KeepsScore, Commits, RollsBack
    <3> QED
      BY <2>1, <3>1, <3>2, <3>3, <3>4 DEF Serves
  <2>4. o = r
    BY <2>2, <2>3
  <2> QED
    BY <2>1, <2>4 DEF Reports, Bulks, Rescores, Serves, StoresBulk, ScoresNext, KeepsScore, At
<1>3. PICK found \in Findings, i \in Ids \cup {None} :
         IF Clashes(r, t, found) \/ (Patched(r, t, i) # tmdb /\ Refused(t, i))
         THEN RollsBack(r)
         ELSE /\ ratings' = [ratings EXCEPT ![t] = Upserted(r, t, found)]
              /\ tmdb' = Patched(r, t, i)
              /\ agg' = IF ratings'[t] = Unrated THEN agg
                        ELSE [agg EXCEPT ![t] = Rescored(r, t, found)]
              /\ Commits(r)
  BY <1>2 DEF Stores
<1>4. DOMAIN found \subseteq Providers /\ \A p \in DOMAIN found : found[p] \in Scores
  BY FindingsAreScores
<1>5. ~ Clashes(r, t, found)
  BY <1>1, <1>4 DEF Clashes, Current
<1>6. Patched(r, t, i) # tmdb => ~ Refused(t, i)
  BY <1>1 DEF Patched, Refused, AlreadyTaken, Current
<1>7. /\ ratings' = [ratings EXCEPT ![t] = Upserted(r, t, found)]
      /\ agg' = IF ratings'[t] = Unrated THEN agg
                ELSE [agg EXCEPT ![t] = Rescored(r, t, found)]
      /\ refused' = FALSE
  BY <1>3, <1>5, <1>6 DEF Commits
<1>8. Upserted(r, t, found) = Rescored(r, t, found)
  BY <1>1, <1>4, ScoresWhatItWrites DEF Current
<1>9. ratings \in [Titles -> Rated] /\ agg \in [Titles -> Rated]
  BY <1>1 DEF TypeOK
<1>10. ratings'[t] = Upserted(r, t, found)
  BY <1>1, <1>7, <1>9
<1>11. ASSUME ratings' # ratings PROVE agg'[t] = ratings'[t]
  <2>1. Upserted(r, t, found) # Unrated
    <3>1. SUFFICES ASSUME Upserted(r, t, found) = Unrated PROVE FALSE
      OBVIOUS
    <3>2. \A p \in Providers : Upserted(r, t, found)[p] = None
      BY <3>1 DEF Unrated
    <3>3. \A p \in Providers :
             (IF p \in DOMAIN found /\ found[p] # req[r].seen[p]
              THEN found[p] ELSE ratings[t][p]) = None
      BY <3>2 DEF Upserted
    <3>4. \A p \in Providers : ratings[t][p] = None
      BY <1>1, <1>4, <3>3, NoneIsNoScore DEF Current
    <3>5. ratings[t] = Unrated
      BY <1>1, <1>9, <3>4 DEF Rated, Unrated
    <3>6. ratings' = ratings
      BY <1>1, <1>7, <1>9, <3>1, <3>5
    <3> QED
      BY <1>11, <3>6
  <2>2. agg' = [agg EXCEPT ![t] = Rescored(r, t, found)]
    BY <1>7, <1>10, <2>1
  <2> QED
    BY <1>1, <1>8, <1>9, <1>10, <2>2
<1> QED
  BY <1>7, <1>11

(* Unless another request was committed while it was stored, a report is   *)
(* taken whatever ids it brings, and leaves the score that its title's     *)
(* ratings give (enriching.py: recompute, _already_taken).                 *)
THEOREM ReportsCount == RatingsAssumption => (Spec => UnracedReportsCount)
<1> SUFFICES ASSUME RatingsAssumption PROVE Spec => UnracedReportsCount
  OBVIOUS
<1>1. ScoreInv /\ [Next]_vars =>
         [\A r \in Requests \ raced :
            At(r, "reported") /\ req'[r] # req[r] =>
               ~refused' /\ (ratings' # ratings =>
                                agg'[req[r].title] = ratings'[req[r].title])]_vars
  BY UnracedIsTaken
<1> QED
  BY <1>1, Scored, PTL DEF Spec, UnracedReportsCount
=============================================================================
