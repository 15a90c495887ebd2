------------------------------- MODULE Enrich -------------------------------
(***************************************************************************)
(* The queue of titles to put through the enrichers: who is due, what one  *)
(* attempt does to the next, and how a crawled page of Seret wakes a title *)
(* that had been put to sleep.  eifo_core/enriching.py (titles_due,        *)
(* record_attempt), eifo_core/seret.py (wake_titles_newly_covered), the    *)
(* loop of eifo_fetcher/enrich.py, and the routes between them.            *)
(*                                                                         *)
(* A wait is counted in days still to go; the order of the attempts is     *)
(* kept instead of their dates, and an attempt's outcome is OK when it is  *)
(* not fruitless.  Every provider but Seret is a free choice.              *)
(***************************************************************************)
EXTENDS Naturals, Sequences, FiniteSets, SequencesExt, FiniteSetsExt

CONSTANTS
    Fetchers,    \* machines that run an enrichment, each with a lock of its own
    MaxTitles,   \* bound: title ids
    Batch,       \* enrich.batch_size, no larger than wire.MAX_DUE_PAGE
    Refresh, HotRefresh,            \* refresh_days, hot_refresh_days
    Retry, RetryError, RetryMax,    \* retry_days, retry_error_days, retry_max_days
    Narrowed,    \* whether runs by hand leave Seret out (--skip, --only)
    MaxFaults,   \* bound: calls that fail
    MaxByHand,   \* bound: runs by hand
    None

EnrichAssumption ==
    /\ MaxTitles \in Nat \ {0} /\ Batch \in Nat \ {0}
    /\ HotRefresh \in Nat \ {0} /\ Refresh \in Nat /\ HotRefresh <= Refresh
    /\ RetryError \in Nat \ {0} /\ Retry \in Nat /\ RetryError <= Retry
    /\ RetryMax \in Nat \ {0} /\ Narrowed \in BOOLEAN
    /\ MaxFaults \in Nat /\ MaxByHand \in Nat

TitleIds == 1 .. MaxTitles
Outcomes == {"ok", "error", "nothing"}   \* NO_DATA and NO_MATCH wait alike
LongestWait == Max({Refresh, RetryMax})

VARIABLES
    titles,    \* titles in the catalog
    attempt,   \* enrich_attempts, one row a title at most
    order,     \* attempted titles, the longest ago first
    carried,   \* titles some service offers today
    page,      \* titles whose page of Seret is stored with a score
    resolvable,     \* titles whose ids or names lead to their page
    scored,    \* titles that carry Seret's score
    run,       \* what each fetcher is at
    faults, hands

vars == <<titles, attempt, order, carried, page, resolvable, scored, run, faults, hands>>
catalog == <<titles, carried>>
index == <<page, resolvable>>
queue == <<attempt, order>>
budgets == <<faults, hands>>

Attempt == [fruitless : Nat, wait : 0 .. LongestWait]

Run == [pc     : {"idle", "crawled", "begun", "asked"},
        kind   : {"nightly", "force", "prices", "narrow"},
        lookup : SUBSET TitleIds,   \* scores this run can give: of the loaded pages,
                                    \* to the titles as they were handed out
        todo   : Seq(TitleIds)]

Idle == [pc |-> "idle", kind |-> "nightly", lookup |-> {}, todo |-> <<>>]

TypeOK ==
    /\ titles \subseteq TitleIds
    /\ attempt \in [TitleIds -> Attempt \cup {None}]
    /\ Len(order) = Cardinality(ToSet(order))
    /\ ToSet(order) = {t \in TitleIds : attempt[t] # None}
    /\ ToSet(order) \cup carried \cup scored \subseteq titles
    /\ page \cup resolvable \subseteq TitleIds
    /\ run \in [Fetchers -> Run]
    /\ faults \in 0 .. MaxFaults /\ hands \in 0 .. MaxByHand

Init ==
    /\ titles \in {1 .. n : n \in TitleIds}
    /\ attempt = [t \in TitleIds |-> None] /\ order = <<>>
    /\ carried = {}
    /\ page = {} /\ resolvable \in SUBSET titles /\ scored = {}
    /\ run = [f \in Fetchers |-> Idle]
    /\ faults = 0 /\ hands = 0

-----------------------------------------------------------------------------
(* The queue.                                                              *)

Trouble == faults < MaxFaults /\ faults' = faults + 1 /\ UNCHANGED hands

Attempted(t) == attempt[t] # None
Due(t) == t \in titles /\ (~Attempted(t) \/ attempt[t].wait = 0)

ById(S) == SetToSortSeq(S, <)
FirstOf(s, n) == SubSeq(s, 1, Min({n, Len(s)}))

(* Never attempted first, and by id; then the longest ago.                 *)
OldestFirst(S) ==
    ById({t \in S : ~Attempted(t)}) \o SelectSeq(order, LAMBDA t : t \in S)

SlipById == FirstOf(ById({t \in titles : Due(t)}), Batch)

(* titles_due, asked for once: the queue stands still while it is read.    *)
TitlesDue == FirstOf(OldestFirst({t \in titles : Due(t)}), Batch)
TitlesForced == FirstOf(ById(titles), Batch)

(* titles_missing_price pays no attention to what is due.                  *)
TitlesMissingPrice(unpriced) == FirstOf(OldestFirst(unpriced), Batch)

(* _wait_after.                                                            *)
WaitAfter(t, outcome, fruitless) ==
    IF outcome = "ok"
    THEN IF t \in carried THEN HotRefresh ELSE Refresh
    ELSE LET base == IF outcome = "error" THEN RetryError ELSE Retry
         IN  Min({base * 2 ^ (fruitless - 1), RetryMax})

(* Counted as far as the doublings still tell one wait from another.       *)
Counted(fruitless) ==
    Min({fruitless, Min({n \in 1 .. RetryMax + 1 : 2 ^ (n - 1) >= RetryMax})})

SlipAppended(t) == Append(order, t)
MovedLast(t) == Append(Remove(order, t), t)

(* record_attempt.                                                         *)
Recorded(t, outcome) ==
    LET before == IF Attempted(t) THEN attempt[t].fruitless ELSE 0
        fruitless == IF outcome = "ok" THEN 0 ELSE Counted(before + 1)
    IN  /\ attempt' = [attempt EXCEPT ![t] =
              [fruitless |-> fruitless, wait |-> WaitAfter(t, outcome, fruitless)]]
        /\ order' = MovedLast(t)

-----------------------------------------------------------------------------
(* One run of the enrichment.                                              *)

At(f, pc) == run[f].pc = pc

SlipLetsSleep(t) == FALSE

(* wake_titles_newly_covered: a title nobody could rate, put to sleep.     *)
Wakes(t) == Attempted(t) /\ attempt[t].wait > 0 /\ attempt[t].fruitless > 0

(* store_seret, of a page that carries a score now, or does not any more:  *)
(* a page that had one before wakes nobody.                                *)
Stores(t, scores) ==
    /\ page' = IF scores THEN page \cup {t} ELSE page \ {t}
    /\ attempt' = IF scores /\ t \in resolvable \ page /\ Wakes(t)
                  THEN [attempt EXCEPT ![t].wait = 0] ELSE attempt
    /\ UNCHANGED <<catalog, order, resolvable, scored>>

(* index_seret, ahead of the lookup and of the titles; it may read nothing.*)
Crawls(f) ==
    /\ At(f, "idle")
    /\ run' = [run EXCEPT ![f].pc = "crawled"]
    /\ \/ \E t \in titles, scores \in BOOLEAN : Stores(t, scores)
       \/ UNCHANGED <<catalog, queue, index, scored>>
    /\ UNCHANGED budgets

(* seret_lookup, loaded once; and the row of the run.                      *)
Begins(f) ==
    /\ At(f, "crawled")
    /\ run' = [run EXCEPT ![f].pc = "begun",
                          ![f].lookup = page]
    /\ UNCHANGED <<catalog, queue, index, scored, budgets>>

(* A run by hand goes straight to its titles: all of them again, those     *)
(* without a price, or those due with some of the enrichers only.          *)
ByHandAsks(f) ==
    /\ At(f, "idle")
    /\ hands < MaxByHand /\ hands' = hands + 1 /\ UNCHANGED faults
    /\ \E kind \in {"force"} \cup (IF Narrowed THEN {"prices", "narrow"} ELSE {}) :
          run' = [run EXCEPT ![f] =
             [Idle EXCEPT !.pc = "begun", !.kind = kind,
                          !.lookup = IF kind = "force"
                                     THEN page ELSE {}]]
    /\ UNCHANGED <<catalog, queue, index, scored>>

(* _worklist: the titles of this run, as they are now, in one ask.         *)
Asks(f) ==
    /\ At(f, "begun")
    /\ run' = [run EXCEPT ![f].pc = "asked", ![f].lookup = @ \cap resolvable,
          ![f].todo = CASE run[f].kind = "force"  -> TitlesForced
                        [] run[f].kind = "prices" -> TitlesMissingPrice(carried)
                        [] OTHER                  -> TitlesDue]
    /\ UNCHANGED <<catalog, queue, index, scored, budgets>>

(* outcome_of: a rating or a price is a success, a provider's failure      *)
(* outranks having found nothing.                                          *)
Found(f, t) ==
    IF t \in run[f].lookup THEN {"ok"}
    ELSE IF run[f].kind = "prices" THEN {"ok", "nothing"}
    ELSE Outcomes

(* apply_patch: what another provider knows of a title may be the id or    *)
(* the name that leads to its page.                                        *)
Patches(f, t) == resolvable' = resolvable \/ (run[f].kind # "prices" /\ resolvable' = resolvable \cup {t})

(* _store_findings for the next title of the run, one chunk being as many  *)
(* of these in one transaction; a title that is gone is refused.           *)
Reports(f) ==
    /\ At(f, "asked") /\ run[f].todo # <<>>
    /\ LET t == Head(run[f].todo) IN
          IF t \notin titles
          THEN UNCHANGED <<catalog, queue, resolvable, scored>>
          ELSE \E outcome \in Found(f, t) :
                  /\ Recorded(t, outcome)
                  /\ Patches(f, t)
                  /\ scored' = scored \cup ({t} \cap run[f].lookup)
                  /\ UNCHANGED catalog
    /\ run' = [run EXCEPT ![f].todo = Tail(@)]
    /\ UNCHANGED <<page, budgets>>

(* The batch does not go through: the run ends FAILED and what is left of  *)
(* it is not asked about.                                                  *)
Breaks(f) ==
    /\ At(f, "begun") \/ At(f, "asked") \/ At(f, "crawled")
    /\ Trouble
    /\ run' = [run EXCEPT ![f] = Idle]
    /\ UNCHANGED <<catalog, queue, index, scored>>

Ends(f) ==
    /\ At(f, "asked") /\ run[f].todo = <<>>
    /\ run' = [run EXCEPT ![f] = Idle]
    /\ UNCHANGED <<catalog, queue, index, scored, budgets>>

-----------------------------------------------------------------------------
(* Everything else.                                                        *)

Day ==
    /\ \E t \in titles : Attempted(t) /\ attempt[t].wait > 0
    /\ attempt' = [t \in TitleIds |->
          IF Attempted(t) /\ attempt[t].wait > 0
          THEN [attempt[t] EXCEPT !.wait = @ - 1] ELSE attempt[t]]
    /\ UNCHANGED <<catalog, order, index, scored, run, budgets>>

(* A sync finds the title on a service, or no longer.                      *)
Listed(t) ==
    /\ t \in titles
    /\ carried' = IF t \in carried THEN carried \ {t} ELSE carried \cup {t}
    /\ UNCHANGED <<titles, queue, index, scored, run, budgets>>

(* The title is folded into another one, and its rows go with it.          *)
Folds(t) ==
    /\ t \in titles /\ Cardinality(titles) > 1 /\ Trouble
    /\ titles' = titles \ {t}
    /\ carried' = carried \ {t} /\ scored' = scored \ {t}
    /\ page' = page \ {t} /\ resolvable' = resolvable \ {t}
    /\ attempt' = [attempt EXCEPT ![t] = None]
    /\ order' = SelectSeq(order, LAMBDA u : u # t)
    /\ UNCHANGED run

RunStep(f) == Begins(f) \/ Asks(f) \/ Reports(f) \/ Ends(f)

Next ==
    \/ \E f \in Fetchers : Crawls(f) \/ ByHandAsks(f) \/ RunStep(f) \/ Breaks(f)
    \/ Day
    \/ \E t \in TitleIds : Listed(t) \/ Folds(t)

(* The night comes round for ever, a run goes on, days go by.              *)
Fairness ==
    /\ \A f \in Fetchers : WF_vars(Crawls(f)) /\ WF_vars(RunStep(f))
    /\ WF_vars(Day)

Spec == Init /\ [][Next]_vars /\ Fairness

-----------------------------------------------------------------------------

(* A title nobody could rate is put to sleep, or left asleep, on the score *)
(* of a stored page in two ways only: by the report of a run that could    *)
(* not have given it - its lookup was loaded, or the title handed out,     *)
(* before, or it leaves Seret out - and by learning, from a report, the    *)
(* name that leads to the page.  No crawl leaves it so, in whatever order  *)
(* the crawls and reports of the fetchers come (wake_titles_newly_covered).*)
SleepsOnScore(t) ==
    /\ t \in titles /\ t \in (page \cap resolvable) \ scored
    /\ Attempted(t) /\ attempt[t].fruitless > 0 /\ ~Due(t)

NoScoreSleptOn ==
    [][\A t \in TitleIds : SleepsOnScore(t)' /\ ~SleepsOnScore(t) =>
          \E f \in Fetchers :
             /\ run[f].todo # <<>> /\ run'[f].todo = Tail(run[f].todo) /\ Head(run[f].todo) = t
             /\ t \notin run[f].lookup]_vars

(* Whatever is due comes up, however small the batch and however much else *)
(* falls due meanwhile (titles_due: "a run always advances").              *)
EveryTitleComesUp == \A t \in TitleIds : Due(t) ~> ~Due(t)
=============================================================================
