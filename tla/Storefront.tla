----------------------------- MODULE Storefront -----------------------------
(***************************************************************************)
(* How the catalog of a service is read from TMDB's listings: sources/     *)
(* tmdb_providers.py over TmdbClient.discover_by_provider (tmdb.py), with  *)
(* the errors a FetchContext counts (sources/base.py).  A listing is read  *)
(* a page at a time while TMDB may reorder it, and holds more pages than   *)
(* can be asked for, or not; the offers of a store are looked up title by  *)
(* title.  A request that fails has been retried (Politeness).             *)
(***************************************************************************)
EXTENDS Naturals, Sequences, FiniteSets, SequencesExt, Functions

CONSTANTS
    Titles,
    Listings,      \* the queries, in the order they are made: the kind of each
    InListing,     \* by title: the query it is found by, None without a date
    Sells,         \* by title: how the provider really offers it
    Kinds,         \* in the order they are read
    Verified,      \* verified_offer_types; {} takes every title to stream
    PageSize,
    MaxPages,      \* of a listing, as configured
    MaxPage,       \* MAX_PAGE
    MaxErrors,     \* max_consecutive_errors
    MaxMoves, MaxFaults,   \* bounds
    None

StorefrontAssumption ==
    /\ Range(Kinds) = Range(Listings)
    /\ \A t \in Titles : InListing[t] \in DOMAIN Listings \cup {None}
    /\ \A t \in Titles : Sells[t] \subseteq Verified \cup {"stream"}
    /\ {PageSize, MaxPages, MaxPage, MaxErrors} \subseteq Nat \ {0}
    /\ MaxMoves \in Nat /\ MaxFaults \in Nat

VARIABLES
    listed,      \* what TMDB answers to each query, the most popular first
    pc,
    asking,      \* the kinds whose provider is still to be found
    todo,        \* the queries still to be made of the kind being read
    page, pages, \* the next page, and how many there are said to be
    reported,    \* total_results of the query
    hits,        \* what is left of the page that was read
    seen, truncated,
    errors, streak,   \* error_count, _consecutive_errors
    yielded,     \* offers handed to the pipeline
    stirred,     \* history: listings that changed while they were read
    moves, faults

walk == <<asking, todo, page, pages, reported, hits, seen>>
world == <<listed, stirred, moves>>
vars == <<listed, pc, asking, todo, page, pages, reported, hits, seen, truncated, errors, streak,
          yielded, stirred, moves, faults>>

TypeOK ==
    /\ listed \in [DOMAIN Listings -> Seq(Titles)]
    /\ pc \in {"finding", "turning", "reading", "done", "failed"}
    /\ asking \in Seq(Range(Kinds)) /\ todo \in Seq(DOMAIN Listings) /\ hits \in Seq(Titles)
    /\ seen \subseteq Titles /\ truncated \in BOOLEAN
    /\ streak \in 0 .. errors
    /\ yielded \subseteq Titles \X (Verified \cup {"stream"})
    /\ stirred \subseteq DOMAIN Listings
    /\ moves \in 0 .. MaxMoves /\ faults \in 0 .. MaxFaults

Init ==
    /\ listed = [q \in DOMAIN Listings |-> SetToSeq({t \in Titles : InListing[t] = q})]
    /\ pc = "finding" /\ asking = Kinds
    /\ todo = <<>> /\ page = 1 /\ pages = 1 /\ reported = 0 /\ hits = <<>>
    /\ seen = {} /\ truncated = FALSE
    /\ errors = 0 /\ streak = 0 /\ yielded = {}
    /\ stirred = {} /\ moves = 0 /\ faults = 0

-----------------------------------------------------------------------------

(* record_error raises once failures stop looking incidental.              *)
GivesUp == IF streak' >= MaxErrors THEN pc' = "failed" ELSE UNCHANGED pc

RecordError ==
    /\ faults < MaxFaults /\ faults' = faults + 1
    /\ errors' = errors + 1 /\ streak' = streak + 1
    /\ GivesUp

(* _slices: one query, or one a year.                                      *)
SlicesOf(kind) == SetToSortSeq({q \in DOMAIN Listings : Listings[q] = kind}, <)

(* A query is about to be made.                                            *)
Afresh == page' = 1 /\ pages' = 1 /\ reported' = 0 /\ hits' = <<>>

(* _resolve_provider_id: found, and the listings of the kind are next; or  *)
(* TMDB did not answer, and the kind is left out.  (TMDB lists a provider  *)
(* of a kind wherever it knows of a title.)                                *)
FindProvider ==
    /\ pc = "finding" /\ asking # <<>>
    /\ asking' = Tail(asking) /\ Afresh /\ seen' = {}
    /\ \/ /\ todo' = SlicesOf(Head(asking)) /\ pc' = "turning"
          /\ UNCHANGED <<errors, streak, faults>>
       \/ RecordError /\ UNCHANGED todo
    /\ UNCHANGED <<world, truncated, yielded>>

AllRead ==
    /\ pc = "finding" /\ asking = <<>> /\ pc' = "done"
    /\ UNCHANGED <<walk, world, truncated, errors, streak, yielded, faults>>

WithinPages == page <= pages /\ page <= MaxPages /\ page <= MaxPage

(* discover_by_provider: the next page; a page that cannot be had ends the *)
(* run.                                                                    *)
Turn ==
    /\ pc = "turning" /\ todo # <<>> /\ WithinPages
    /\ LET all == listed[Head(todo)]
           found == SubSeq(all, (page - 1) * PageSize + 1,
                           IF page * PageSize < Len(all) THEN page * PageSize ELSE Len(all))
       IN  /\ hits' = found /\ pages' = (Len(all) + PageSize - 1) \div PageSize
           /\ reported' = IF page = 1 THEN Len(all) ELSE reported
           /\ page' = IF found = <<>> THEN pages' + 1 ELSE page + 1
    /\ pc' = "reading"
    /\ UNCHANGED <<asking, todo, seen, world, truncated, errors, streak, yielded, faults>>

PageLost ==
    /\ pc = "turning" /\ todo # <<>> /\ WithinPages
    /\ faults < MaxFaults /\ faults' = faults + 1
    /\ pc' = "failed"
    /\ UNCHANGED <<walk, world, truncated, errors, streak, yielded>>

SlipCountsPages == reported > PageSize * MaxPages + PageSize

(* More than the pages can hold.                                           *)
TooMany == reported > MaxPages * PageSize

(* A query is read to its end, or as far as it may be.                     *)
NextListing ==
    /\ pc = "turning" /\ todo # <<>> /\ ~WithinPages
    /\ truncated' = (truncated \/ TooMany)
    /\ todo' = Tail(todo) /\ Afresh
    /\ pc' = IF todo' = <<>> THEN "finding" ELSE pc
    /\ UNCHANGED <<asking, seen, world, errors, streak, yielded, faults>>

(* _offers_for: what the title is sold as, if that was asked, or a stream. *)
OffersOf(t) == IF Verified = {} THEN {"stream"} ELSE Verified \cap Sells[t]

Known(t) == t \in seen

(* The next title of the page.                                             *)
Read ==
    /\ pc = "reading" /\ hits # <<>>
    /\ LET t == Head(hits) IN
       /\ hits' = Tail(hits) /\ seen' = seen \cup {t}
       /\ \/ /\ yielded' = IF Known(t) THEN yielded ELSE yielded \cup ({t} \X OffersOf(t))
             /\ streak' = IF Known(t) THEN streak ELSE 0
             /\ UNCHANGED <<pc, errors, faults>>
          \/ Verified # {} /\ ~Known(t) /\ RecordError /\ UNCHANGED yielded
    /\ UNCHANGED <<asking, todo, page, pages, reported, world, truncated>>

PageEnds ==
    /\ pc = "reading" /\ hits = <<>> /\ pc' = "turning"
    /\ UNCHANGED <<walk, world, truncated, errors, streak, yielded, faults>>

-----------------------------------------------------------------------------
(* TMDB.                                                                   *)

(* Popularity changes: a title moves to the front of its listing.          *)
Move(q, k) ==
    /\ pc \notin {"done", "failed"} /\ moves < MaxMoves /\ moves' = moves + 1
    /\ k > 1
    /\ listed' = [listed EXCEPT ![q] = <<@[k]>> \o RemoveAt(@, k)]
    /\ stirred' = IF todo # <<>> /\ q = Head(todo) THEN stirred \cup {q} ELSE stirred
    /\ UNCHANGED <<pc, walk, truncated, errors, streak, yielded, faults>>

Next ==
    \/ FindProvider \/ AllRead \/ Turn \/ PageLost \/ NextListing \/ Read \/ PageEnds
    \/ \E q \in DOMAIN Listings : \E k \in DOMAIN listed[q] : Move(q, k)

Spec == Init /\ [][Next]_vars

-----------------------------------------------------------------------------

(* What a reading that ends well leaves out, it has said: where nothing is *)
(* reported of errors or of a catalog cut short, every title that a query  *)
(* finds and that stayed in its place while it was read has been offered   *)
(* as it is sold (tmdb.py, "the caller logs when a cap truncates a         *)
(* catalog"; _offers_for, "We could not ask").                             *)
LeftOutIsSaid ==
    pc = "done" /\ errors = 0 /\ ~truncated =>
        \A t \in Titles : InListing[t] # None /\ InListing[t] \notin stirred
            => {t} \X OffersOf(t) \subseteq yielded
=============================================================================
