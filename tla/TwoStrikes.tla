---------------------------- MODULE TwoStrikes ----------------------------
(***************************************************************************)
(* What the catalog promises about a source's offers, without timestamps,  *)
(* transactions or requests: one sync of the source is under way at a      *)
(* time, it sights listings, and only a sync that ends believed strikes -  *)
(* exactly the offers it did not sight.  MissLimit strikes in a row retire *)
(* an offer; one sighting wipes them.                                      *)
(***************************************************************************)
EXTENDS Integers

CONSTANTS Listings,   \* what a source may list
          MissLimit,  \* believed syncs an offer may be missing from
          NotOffered  \* a listing the catalog has never filed an offer for

VARIABLES strikes,    \* per listing, strikes against its offer
          sighted,    \* what the sync under way has sighted
          syncing     \* whether a sync is under way

twoStrikesVars == <<strikes, sighted, syncing>>

Retired(x) == strikes[x] = MissLimit

TwoStrikesInit ==
    /\ strikes = [x \in Listings |-> NotOffered]
    /\ sighted = {}
    /\ syncing = FALSE

StartSync ==
    /\ ~syncing
    /\ syncing' = TRUE
    /\ sighted' = {}
    /\ UNCHANGED strikes

\* Listings come in, in any number: their offers stand, strikes forgotten.
Sight ==
    \E S \in SUBSET Listings :
        /\ strikes' = [x \in Listings |-> IF x \in S THEN 0 ELSE strikes[x]]
        /\ sighted' = IF syncing THEN sighted \cup S ELSE {}
        /\ UNCHANGED syncing

\* The sync is believed: every standing offer it did not sight is struck.
Believe ==
    /\ syncing
    /\ syncing' = FALSE
    /\ strikes' = [x \in Listings |->
                     IF x \notin sighted /\ strikes[x] \in 0 .. MissLimit - 1
                     THEN strikes[x] + 1 ELSE strikes[x]]
    /\ sighted' = {}

\* The sync failed, was not believed, or was never heard of again.
Disbelieve ==
    /\ syncing
    /\ syncing' = FALSE
    /\ sighted' = {}
    /\ UNCHANGED strikes

TwoStrikesNext == StartSync \/ Sight \/ Believe \/ Disbelieve

TwoStrikesSpec == TwoStrikesInit /\ [][TwoStrikesNext]_twoStrikesVars
=============================================================================
