----------------------------- MODULE SeretIndex -----------------------------
(***************************************************************************)
(* The crawl that keeps the index of Seret's pages: SeretIndexer of        *)
(* eifo_fetcher/enrichers/seret_index.py, night after night, each run      *)
(* bounded by [seret] batch_size, and store_seret, which keeps what it     *)
(* read.  One numbering of pages is enough: the order is by id alone.      *)
(***************************************************************************)
EXTENDS Naturals, Sequences, FiniteSets, SequencesExt, FiniteSetsExt

CONSTANTS
    Pages,      \* ids of the pages the sitemap names
    Withdrawn,  \* those whose request fails, for good
    Empty,      \* those that answer with no title on them
    Barred,     \* those robots.txt disallows
    BatchSize,  \* [seret] batch_size
    SendEvery,  \* wire.SERET_WRITE_CHUNK
    Streak,     \* FetchContext.max_consecutive_errors
    MaxOutages  \* bound: requests and sends that fail for once

SeretIndexAssumption ==
    /\ Pages \subseteq Nat /\ IsFiniteSet(Pages)
    /\ Withdrawn \cup Empty \cup Barred \subseteq Pages
    /\ Withdrawn \cap Empty = {}
    /\ BatchSize \in Nat \ {0} /\ SendEvery \in Nat \ {0} /\ Streak \in Nat \ {0}
    /\ MaxOutages \in Nat

VARIABLES
    index,    \* pages that have a row, the longest unread first
    stale,    \* those whose row is older than refresh_days
    crawling, \* whether a crawl is under way
    due,      \* what is left of this run's slice
    unsent,   \* pages read and not sent yet
    streak,   \* errors in a row
    outages

vars == <<index, stale, crawling, due, unsent, streak, outages>>

TypeOK ==
    /\ index \in Seq(Pages) /\ IsInjective(index)
    /\ stale \subseteq ToSet(index)
    /\ crawling \in BOOLEAN
    /\ due \in Seq(Pages) /\ IsInjective(due) /\ Len(due) <= BatchSize
    /\ unsent \in Seq(Pages) /\ Len(unsent) < SendEvery
    /\ streak \in 0 .. Streak
    /\ outages \in 0 .. MaxOutages

Init ==
    /\ index = <<>> /\ stale = {}
    /\ crawling = FALSE /\ due = <<>> /\ unsent = <<>>
    /\ streak = 0 /\ outages = 0

-----------------------------------------------------------------------------

HighestFirst(S) == SetToSortSeq(S, >)

Unseen == Pages \ ToSet(index)

SlipStaleFirst ==
    SelectSeq(index, LAMBDA p : p \in stale) \o HighestFirst(Unseen)

(* _due: unseen pages first and the highest id first, then what has gone   *)
(* stale, the longest unread first, and the pages with no title last.      *)
DuePages ==
    HighestFirst(Unseen)
    \o SelectSeq(index, LAMBDA p : p \in stale \ Empty)
    \o SelectSeq(index, LAMBDA p : p \in stale \cap Empty)

(* run, with the sitemap and the stored rows just read.                    *)
Crawl ==
    /\ ~crawling /\ DuePages # <<>>
    /\ crawling' = TRUE /\ streak' = 0
    /\ due' = SubSeq(DuePages, 1, Min({BatchSize, Len(DuePages)}))
    /\ UNCHANGED <<index, stale, unsent, outages>>

SlipAppended(ps) == index' = index \o ps /\ stale' = stale \ ToSet(ps)

(* store_seret: a row for every page sent, the empty ones included.        *)
Stored(ps) ==
    /\ index' = SelectSeq(index, LAMBDA p : p \notin ToSet(ps)) \o ps
    /\ stale' = stale \ ToSet(ps)

Outage == outages < MaxOutages /\ outages' = outages + 1
Errs == streak' = Min({streak + 1, Streak})

(* A page that is not asked for costs nothing.                             *)
Passes ==
    /\ crawling /\ due # <<>> /\ Head(due) \in Barred
    /\ due' = Tail(due)
    /\ UNCHANGED <<index, stale, crawling, unsent, streak, outages>>

(* A page is read; the batch goes when it is full.  A batch that cannot be *)
(* sent is dropped, and its pages are owed again.                          *)
Reads ==
    /\ crawling /\ due # <<>> /\ Head(due) \notin Barred \cup Withdrawn
    /\ due' = Tail(due)
    /\ LET read == Append(unsent, Head(due)) IN
          IF Len(read) < SendEvery
          THEN unsent' = read /\ streak' = 0 /\ UNCHANGED <<index, stale, outages>>
          ELSE /\ unsent' = <<>>
               /\ \/ Stored(read) /\ streak' = 0 /\ UNCHANGED outages
                  \/ Outage /\ streak' = 1 /\ UNCHANGED <<index, stale>>
    /\ UNCHANGED crawling

(* A page fails; as many in a row as a source is given end the crawl with  *)
(* what it has.                                                            *)
Fails ==
    /\ crawling /\ due # <<>> /\ Head(due) \notin Barred
    /\ \/ Head(due) \in Withdrawn /\ UNCHANGED outages
       \/ Head(due) \notin Withdrawn /\ Outage
    /\ Errs
    /\ due' = IF streak + 1 >= Streak THEN <<>> ELSE Tail(due)
    /\ UNCHANGED <<index, stale, crawling, unsent>>

(* The last of the batch goes, and the run is over.                        *)
Finish ==
    /\ crawling /\ due = <<>>
    /\ crawling' = FALSE /\ unsent' = <<>>
    /\ \/ Stored(unsent) /\ UNCHANGED outages
       \/ unsent # <<>> /\ Outage /\ UNCHANGED <<index, stale>>
    /\ UNCHANGED <<due, streak>>

(* The process dies, and what it had not sent goes with it.                *)
Dies ==
    /\ crawling /\ Outage
    /\ crawling' = FALSE /\ due' = <<>> /\ unsent' = <<>>
    /\ UNCHANGED <<index, stale, streak>>

(* refresh_days go by for the row longest unread.                          *)
GoesStale ==
    /\ index # <<>> /\ stale # ToSet(index)
    /\ stale' = stale \cup {SelectSeq(index, LAMBDA p : p \notin stale)[1]}
    /\ UNCHANGED <<index, crawling, due, unsent, streak, outages>>

Next == Crawl \/ Passes \/ Reads \/ Fails \/ Finish \/ Dies \/ GoesStale

(* The night comes round and the crawl goes on.  No row has to go stale.   *)
Fairness ==
    WF_vars(Crawl) /\ WF_vars(Passes) /\ WF_vars(Reads \/ Fails) /\ WF_vars(Finish)

Spec == Init /\ [][Next]_vars /\ Fairness

-----------------------------------------------------------------------------

(* A first index fills itself in over as many nights as it takes, however  *)
(* small the batch: every page that can be read is, in the end, and stays  *)
(* in the index.  It takes fewer pages that fail for good than end a run,  *)
(* and fewer than a batch, since they are asked for first every night.     *)
EveryPageRead == \A p \in Pages \ (Withdrawn \cup Barred) : <>[](p \in ToSet(index))
=============================================================================
