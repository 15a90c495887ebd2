------------------------------- MODULE MCSync -------------------------------
(***************************************************************************)
(* Sync for TLC.  Fetchers and listings are interchangeable.  apart is     *)
(* history: no run was ever begun while anything of another was under way. *)
(***************************************************************************)
EXTENDS Sync, TLC

CONSTANT MaxOverlapping   \* bound: runs begun where some of them overlap

VARIABLE apart

Interchangeable == Permutations(Listings) \cup Permutations(Fetchers)

(* Clocks that agree, and a fetcher's that is behind the API's or ahead.   *)
Agreeing == {0}
Behind == {-1, 0}
Ahead == {0, 1}

Begun == {r \in RunIds : runs[r].status # "unborn"}

MCInit == Init /\ apart = TRUE
MCNext ==
    /\ Next
    /\ apart' = (apart /\ (Begun' = Begun \/ ~Underway))
    /\ apart' \/ Cardinality(Begun') <= MaxOverlapping

MCSpec == MCInit /\ [][MCNext]_<<vars, apart>>

(* KeepsTwoStrikes, of runs that do not overlap: a believed sync strikes   *)
(* exactly the standing offers it did not sight, a sighting wipes the      *)
(* strikes, and nothing else touches them (catalog.py, offers.py).         *)
KeepsTwoStrikesApart ==
    /\ Promise!TwoStrikesInit
    /\ [][apart' => [Promise!TwoStrikesNext]_(Promise!twoStrikesVars)]_vars
=============================================================================
