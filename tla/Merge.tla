------------------------------- MODULE Merge -------------------------------
(***************************************************************************)
(* Titles the catalog holds twice, folded into one: eifo_fetcher/dedupe.py *)
(* and the folds and adoptions of eifo_fetcher/rematch.py.                 *)
(*                                                                         *)
(* One command runs at a time (single_flight), beside an API that members  *)
(* write their lists through.  A group is one transaction, which reads     *)
(* what is committed until the first loser is flushed and holds SQLite's   *)
(* write lock from then on.  Titles are of one kind, and a name is a       *)
(* number, as normalised.  Credits and genres move as lists do.            *)
(***************************************************************************)
EXTENDS Naturals, Sequences, FiniteSets, Functions, SequencesExt

CONSTANTS
    Titles,     \* title ids
    Names, Years, Ids,
    Catalogs,   \* the catalogs a command may find
    Hits,       \* what TMDB answers for each title: one id, or None
    Records,    \* [Ids -> the (English) name and the year of TMDB's record]
    Sources, Providers, Users,
    Offered,    \* [Titles -> [Sources -> what the title is there]]
    Fetched,    \* [Titles -> [Providers -> when it was rated there, 0: never]]
    Kept,       \* [Titles -> the users that have it on a list]
    MaxAdded,   \* bound: entries added meanwhile
    None

Title == [he : Names \cup {None}, en : Names \cup {None}, year : Years \cup {None},
          imdb : BOOLEAN, tmdb : Ids \cup {None}]

MergeAssumption ==
    /\ Titles \subseteq Nat /\ Names \subseteq Nat /\ Years \subseteq Nat /\ None \notin Nat
    /\ IsFiniteSet(Titles) /\ Catalogs \subseteq [Titles -> Title] /\ Hits \subseteq [Titles -> Ids \cup {None}]
    /\ Records \in [Ids -> [name : Names, year : Years]]
    /\ Offered \in [Titles -> [Sources -> {"none", "gone", "current"}]]
    /\ Fetched \in [Titles -> [Providers -> Nat]]
    /\ Kept \in [Titles -> SUBSET Users]

VARIABLES
    titles,    \* the titles there are
    alias,     \* tmdb_aliases: the title an id leads to
    offers, rated, lists,
    tried,     \* titles with an enrich_attempts row
    hit,       \* what TMDB answers in this run
    plan,      \* groups to merge, and titles to give an id
    pc,        \* what the command is at
    locked,    \* whether it has written what is not committed
    seen,      \* the lists as read for the group at hand
    added      \* history: who added what to a list since

vars == <<titles, alias, offers, rated, lists, tried, hit, plan, pc, locked, seen, added>>

Existing == {t \in Titles : titles[t] # None}
Group == [winner : Titles, losers : SUBSET Titles]
NoPlan == [groups |-> <<>>, adoptions |-> {}, touched |-> {}]

TypeOK ==
    /\ titles \in [Titles -> Title \cup {None}]
    /\ \A t, u \in Existing : titles[t].tmdb = titles[u].tmdb => t = u \/ titles[t].tmdb = None
    /\ alias \in [Ids -> Titles \cup {None}]
    /\ \A t \in Range(alias) \cup tried : t \in Existing \cup {None}
    /\ offers \in [Titles -> [Sources -> {"none", "gone", "current"}]]
    /\ rated \in [Titles -> [Providers -> Nat]]
    /\ lists \in [Titles -> SUBSET Users] /\ seen \in [Titles -> SUBSET Users]
    /\ tried \subseteq Titles /\ locked \in BOOLEAN
    /\ plan.groups \in Seq(Group) /\ plan.adoptions \cup plan.touched \subseteq Titles
    /\ pc \in {"idle", "adopting", "merging", "reading", "raised"}
    /\ added \in SUBSET (Users \X Titles)

Init ==
    /\ titles \in Catalogs
    /\ \A t, u \in Titles : t # u /\ titles[t].tmdb # None => titles[t].tmdb # titles[u].tmdb
    /\ alias = [i \in Ids |-> None]
    /\ offers = Offered /\ rated = Fetched /\ lists = Kept
    /\ tried = Titles
    /\ hit \in Hits
    /\ plan = NoPlan /\ pc = "idle" /\ locked = FALSE
    /\ seen = lists /\ added = {}

-----------------------------------------------------------------------------
(* What is one title (plan_merges).                                        *)

Sorted(S) == SetToSortSeq(S, <)

(* years_match, within a year of each other.                               *)
YearsMatch(x, y) == x = None \/ y = None \/ (x <= y + 1 /\ y <= x + 1)

NamesOf(t) == {titles[t].he, titles[t].en} \ {None}
Sharing(name) == {t \in Existing : name \in NamesOf(t)}

(* The names in the order they are met, title by title.                    *)
FirstWith(name) == CHOOSE t \in Sharing(name) : \A u \in Sharing(name) : t <= u
NamesMet ==
    SetToSortSeq({n \in Names : Sharing(n) # {}},
        LAMBDA m, n : \/ FirstWith(m) < FirstWith(n)
                      \/ FirstWith(m) = FirstWith(n) /\ titles[FirstWith(m)].he = m)

Knows(t) == Cardinality({p \in Providers : rated[t][p] # 0})

(* The better of two by pick_winner's rank.                                *)
Outranks(t, u) ==
    LET a == titles[t] b == titles[u] IN
    IF a.imdb # b.imdb THEN a.imdb
    ELSE IF (a.tmdb = None) # (b.tmdb = None) THEN a.tmdb # None
    ELSE IF Knows(t) # Knows(u) THEN Knows(t) > Knows(u)
    ELSE t < u

PickWinner(S) == CHOOSE t \in S : \A u \in S \ {t} : Outranks(t, u)

GroupOf(S) == LET win == PickWinner(S) IN [winner |-> win, losers |-> S \ {win}]

SameAs(head, S) == {t \in S : YearsMatch(titles[head].year, titles[t].year)}

(* _split_by_year: the first that is left, and all whose year agrees.      *)
SplitByYear(members) ==
    FoldLeft(LAMBDA acc, t :
                IF t \notin acc.left THEN acc
                ELSE LET same == SameAs(t, acc.left) \cup {t} IN
                     [left |-> acc.left \ same,
                      groups |-> IF same = {t} THEN acc.groups
                                 ELSE Append(acc.groups, GroupOf(same))],
             [left |-> members, groups |-> <<>>], Sorted(members)).groups

Claimed(groups) == UNION {g.losers \cup {g.winner} : g \in Range(groups)}

(* _unclaimed.                                                             *)
Unclaimed(name, groups) == Sharing(name) \ Claimed(groups)

PlanMerges ==
    FoldLeft(LAMBDA groups, n : groups \o SplitByYear(Unclaimed(n, groups)), <<>>, NamesMet)

-----------------------------------------------------------------------------
(* A title that matches no record, searched for again (plan_rematch).      *)

Nameless == {t \in Existing : titles[t].tmdb = None /\ ~titles[t].imdb}
Owners(t) == {o \in Existing \ {t} : titles[o].tmdb = hit[t]}
Matched == {t \in Nameless : hit[t] # None}

PlanRematch ==
    LET folds == {t \in Matched : Owners(t) # {}} IN
    [groups    |-> [i \in 1 .. Cardinality(folds) |->
                      LET t == Sorted(folds)[i] IN
                      [winner |-> CHOOSE o \in Owners(t) : TRUE, losers |-> {t}]],
     adoptions |-> Matched \ folds,
     touched   |-> (Matched \ folds) \cup UNION {Owners(t) : t \in folds}]

-----------------------------------------------------------------------------
(* A group becomes one title (_merge_group).                               *)

Current == Head(plan.groups)
Win == Current.winner
Lost == Current.losers
Both == Lost \cup {Win}
FirstLost == Head(Sorted(Lost))

IdsOf(S) == {titles[t].tmdb : t \in S} \ {None}

(* _fill_gaps.                                                             *)
Filled(get(_)) ==
    LET from == <<Win>> \o Sorted(Lost)
        i == SelectInSeq(from, LAMBDA t : get(t) # None)
    IN IF i = 0 THEN None ELSE get(from[i])
FilledTitle ==
    [he |-> Filled(LAMBDA t : titles[t].he), en |-> Filled(LAMBDA t : titles[t].en),
     year |-> Filled(LAMBDA t : titles[t].year), tmdb |-> titles[Win].tmdb,
     imdb |-> \E t \in Both : titles[t].imdb]

SlipForgetsId(i) == IF alias[i] \in Lost THEN Win ELSE alias[i]

(* _remember_the_losing_id.                                                *)
Remembered(i) ==
    IF alias[i] \in Lost \/ (i \in IdsOf(Lost) /\ alias[i] = None) THEN Win ELSE alias[i]

(* It gives the winner the loser's id while the loser still has it, and    *)
(* the database refuses that.                                              *)
TakesId == titles[Win].tmdb = None /\ IdsOf(Lost) # {}

Best(S, of(_)) == CHOOSE v \in {of(t) : t \in S} : \A t \in S : of(t) <= v
Carried == [none |-> 0, gone |-> 1, current |-> 2]
FoldedOffer(s) ==
    CHOOSE o \in DOMAIN Carried :
        Carried[o] = Best(Both, LAMBDA t : Carried[offers[t][s]])
FoldedRating(p) == Best(Both, LAMBDA t : rated[t][p])

(* The lists of the winner and of the first loser are as they were read.   *)
ReadsLists(t) == IF t \in {Win, FirstLost} THEN seen[t] ELSE lists[t]

(* An entry is moved to a list that has one by now.                        *)
Collides == \E u \in seen[FirstLost] \ seen[Win] : u \in lists[Win]

(* _move_user_items; an entry made on the loser since goes with it.        *)
MovedLists(S) == lists[Win] \cup UNION {ReadsLists(t) : t \in S}

-----------------------------------------------------------------------------
(* The commands.                                                           *)

Around == <<titles, alias, offers, rated, lists, tried>>

Dedupes ==
    /\ pc = "idle"
    /\ plan' = [NoPlan EXCEPT !.groups = PlanMerges]
    /\ plan' # NoPlan
    /\ pc' = "merging"
    /\ UNCHANGED <<Around, hit, locked, seen, added>>

Rematches ==
    /\ pc = "idle"
    /\ plan' = PlanRematch
    /\ plan' # NoPlan
    /\ pc' = "adopting"
    /\ UNCHANGED <<Around, hit, locked, seen, added>>

(* adopt_tmdb_hit.                                                         *)
Adopted(t) ==
    LET record == Records[hit[t]] IN
    [titles[t] EXCEPT !.tmdb = hit[t],
                      !.en = IF @ = None THEN record.name ELSE @,
                      !.year = IF @ = None THEN record.year ELSE @]

(* Each is flushed; an id that two of them share ends the command.  What   *)
(* is flushed here and what the first fold commits are one transaction.    *)
Adopts ==
    /\ pc = "adopting"
    /\ LET who == plan.adoptions IN
       IF \E t, u \in who : t # u /\ hit[t] = hit[u]
       THEN pc' = "raised" /\ UNCHANGED <<titles, locked, plan>>
       ELSE /\ titles' = [t \in Titles |-> IF t \in who THEN Adopted(t) ELSE titles[t]]
            /\ locked' = (who # {})
            /\ plan' = [plan EXCEPT !.adoptions = {}]
            /\ pc' = "merging"
    /\ UNCHANGED <<alias, offers, rated, lists, tried, hit, seen, added>>

(* A rating that a fresher one replaces is deleted before the lists are    *)
(* read.                                                                   *)
FlushesEarly ==
    \E p \in Providers : rated[Win][p] # 0 /\ rated[FirstLost][p] > rated[Win][p]

(* The group's rows are read.                                              *)
Reads ==
    /\ pc = "merging" /\ plan.groups # <<>>
    /\ seen' = lists /\ added' = {}
    /\ locked' = (locked \/ FlushesEarly)
    /\ pc' = "reading"
    /\ UNCHANGED <<Around, hit, plan>>

Emptied(f, nothing) == [t \in Titles |-> IF t \in Lost THEN nothing ELSE f[t]]

Merges ==
    /\ titles' = [Emptied(titles, None) EXCEPT ![Win] = FilledTitle]
    /\ alias' = [i \in Ids |-> Remembered(i)]
    /\ offers' = [Emptied(offers, [s \in Sources |-> "none"])
                     EXCEPT ![Win] = [s \in Sources |-> FoldedOffer(s)]]
    /\ rated' = [Emptied(rated, [p \in Providers |-> 0])
                     EXCEPT ![Win] = [p \in Providers |-> FoldedRating(p)]]
    /\ lists' = [Emptied(lists, {}) EXCEPT ![Win] = MovedLists(Lost)]
    /\ tried' = tried \ Lost

(* Written and committed, or rolled back with an error in the tally.       *)
Writes ==
    /\ pc = "reading"
    /\ IF TakesId \/ Collides THEN UNCHANGED Around ELSE Merges
    /\ plan' = [plan EXCEPT !.groups = Tail(@)]
    /\ pc' = "merging" /\ locked' = FALSE
    /\ UNCHANGED <<hit, seen, added>>

(* A rematched title is looked at again by the next enrichment.            *)
Ends ==
    /\ pc = "raised" \/ (pc = "merging" /\ plan.groups = <<>>)
    /\ tried' = IF pc = "raised" THEN tried ELSE tried \ plan.touched
    /\ plan' = NoPlan /\ pc' = "idle" /\ locked' = FALSE
    /\ UNCHANGED <<titles, alias, offers, rated, lists, hit, seen, added>>

(* A member puts a title on a list.                                        *)
Adds ==
    /\ pc = "reading" /\ ~locked /\ Cardinality(added) < MaxAdded
    /\ \E u \in Users, t \in Both :
          /\ u \notin lists[t]
          /\ lists' = [lists EXCEPT ![t] = @ \cup {u}]
          /\ added' = added \cup {<<u, t>>}
    /\ UNCHANGED <<titles, alias, offers, rated, tried, hit, plan, pc, locked, seen>>

Next == Dedupes \/ Rematches \/ Adopts \/ Reads \/ Writes \/ Ends \/ Adds

Spec == Init /\ [][Next]_vars

-----------------------------------------------------------------------------

(* The title an id is filed under (match.py _by_tmdb).                     *)
FiledUnder(i) ==
    IF \E t \in Existing : titles[t].tmdb = i
    THEN CHOOSE t \in Existing : titles[t].tmdb = i ELSE alias[i]

(* What one of the group's titles had, the winner has: whoever had one on  *)
(* a list, every offer, current if one was, every rating, the freshest;    *)
(* and every id leads to it, so that the merge does not undo itself the    *)
(* next night.  Of a group that is rolled back nothing has changed.        *)
Keeps(g) ==
    LET all == g.losers \cup {g.winner} IN
    \/ UNCHANGED Around
    \/ /\ UNION {lists[t] : t \in all} \ {a[1] : a \in added} \subseteq lists'[g.winner]
       /\ \A s \in Sources, t \in all : Carried[offers[t][s]] <= Carried[offers'[g.winner][s]]
       /\ \A p \in Providers, t \in all : rated[t][p] <= rated'[g.winner][p]
       /\ \A i \in Ids : FiledUnder(i) \in all => FiledUnder(i)' = g.winner

MergesKeepEverything == [][Writes => Keeps(Current)]_vars

(* The same of what a member adds meanwhile.                               *)
AdditionsAreKept ==
    [][Writes /\ titles' # titles =>
          \A a \in added : a[2] \in Both => a[1] \in lists'[Win]]_vars

(* "Same name and an incompatible year is a remake, not a duplicate": no   *)
(* two titles of a group are that (_split_by_year).                        *)
RemakesStand ==
    [][Dedupes => \A g \in Range(plan'.groups) : \A t, u \in g.losers \cup {g.winner} :
          YearsMatch(titles[t].year, titles[u].year)]_vars

(* "Both names agreeing once normalised" (plan_merges).                    *)
NamesAgree ==
    [][Dedupes => \A g \in Range(plan'.groups) : \A t, u \in g.losers \cup {g.winner} :
          NamesOf(t) \subseteq NamesOf(u) \/ NamesOf(u) \subseteq NamesOf(t)]_vars

(* A rematch that is planned is carried out.                               *)
RematchesComeThrough == pc # "raised"
=============================================================================
