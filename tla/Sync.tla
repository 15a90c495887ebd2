------------------------------- MODULE Sync -------------------------------
(***************************************************************************)
(* One source's catalog sync, from the fetcher that reads the service to   *)
(* the rows the API keeps.                                                 *)
(*                                                                         *)
(*   fetcher: eifo_fetcher/pipeline.py  (sync_source, _ship, _send)        *)
(*   API:     eifo_api/routers/syncing.py (begin, take_chunk, finish)      *)
(*            eifo_core/catalog.py, eifo_core/offers.py                    *)
(*                                                                         *)
(* Every query of these handlers filters on the source, so one source is   *)
(* enough.  A listing stands for the offer it implies (title, source,      *)
(* type); which title the matcher picks is another module's business, here *)
(* it may give any of its answers.  A chunk request is two steps, because  *)
(* the handler reads the run and the rows, matches for seconds, and only   *)
(* then writes: other requests get in between.                             *)
(***************************************************************************)
EXTENDS Integers, FiniteSets

CONSTANTS
    Fetchers,        \* fetcher processes that sync this source
    Listings,        \* what the source may list
    MissLimit,       \* catalog.MISS_LIMIT
    GuardMin,        \* catalog.VOLUME_GUARD_MIN_ITEMS
    ChunkSize,       \* pipeline.CHUNK_SIZE
    AbandonedAfter,  \* wire.ABANDONED_AFTER, in clock ticks
    MaxRuns,         \* bound: sync runs ever begun
    MaxOrphans,      \* bound: requests outliving the client that sent them
    Skews,           \* how far a fetcher's clock may be off the API's
    None

\* The columns of an availability row that a sync decides.
Offer == [last : Nat, misses : Nat, current : BOOLEAN]

ASSUME SyncAssumption ==
    /\ MissLimit \in Nat \ {0}
    /\ GuardMin \in Nat
    /\ ChunkSize \in Nat \ {0}
    /\ AbandonedAfter \in Nat
    /\ MaxRuns \in Nat
    /\ MaxOrphans \in Nat
    /\ Skews \subseteq Int
    /\ IsFiniteSet(Listings)
    /\ None \notin Fetchers /\ None \notin Nat /\ None \notin Offer

VARIABLES
    clock,     \* the API's, in moments at which a run was begun or finished
    offers,    \* availability rows of the source, None where there is none
    parks,     \* when a listing's unresolved match_reviews row was created
    runs,      \* the source's fetch_runs rows, by id
    requests,  \* chunk requests the API is working on
    fetch      \* where each fetcher is in sync_source

vars == <<clock, offers, parks, runs, requests, fetch>>

RunIds == 1 .. MaxRuns
Reasons == {"exception", "too few items", "no outcome"}
Closed == {"ok", "failed", "aborted_suspicious", "crashed"}

(* read, sighted and parked are history: what the fetcher's stream yielded *)
(* and what the API filed of it.  They guide no action.                    *)
Run == [status   : {"unborn", "running"} \cup Closed,
        started  : Nat,
        finished : Nat,
        items    : Nat,
        errors   : SUBSET Reasons,
        read     : SUBSET Listings,
        sighted  : SUBSET Listings,
        parked   : SUBSET Listings]

Unborn == [status |-> "unborn", started |-> 0, finished |-> 0, items |-> 0,
           errors |-> {}, read |-> {}, sighted |-> {}, parked |-> {}]

(* by is the fetcher still waiting for the answer, None once it gave up;   *)
(* rows and items are what the handler read when it started.               *)
Request == [by       : Fetchers \cup {None},
            run      : RunIds,
            chunk    : SUBSET Listings,
            resolved : BOOLEAN,
            rows     : [Listings -> Offer \cup {None}],
            items    : Nat]

Fetch == [pc      : {"idle", "reading", "waiting", "resolving", "ending"},
          run     : RunIds \cup {0},
          todo    : SUBSET Listings,
          pending : SUBSET Listings,
          verdict : {"ok", "failed"}]

Idle == [pc |-> "idle", run |-> 0, todo |-> {}, pending |-> {}, verdict |-> "ok"]

TypeOK ==
    /\ clock \in Nat
    /\ offers \in [Listings -> Offer \cup {None}]
    /\ parks \in [Listings -> Nat \cup {None}]
    /\ runs \in [RunIds -> Run]
    /\ requests \subseteq Request
    /\ fetch \in [Fetchers -> Fetch]

Init ==
    /\ clock = 0
    /\ offers = [x \in Listings |-> None]
    /\ parks = [x \in Listings |-> None]
    /\ runs = [r \in RunIds |-> Unborn]
    /\ requests = {}
    /\ fetch = [f \in Fetchers |-> Idle]

-----------------------------------------------------------------------------
(* The API.                                                                *)

Running(r) == runs[r].status = "running"
Believed == {r \in RunIds : runs[r].status = "ok"}

(* A slip names a bug the properties must catch; nothing else uses it.      *)
SlipRatioSwapped(r) ==
    \E p \in Believed : runs[p].items >= GuardMin /\ 2 * runs[p].items < runs[r].items

(* looks_truncated: judged against the latest-started believed run, and    *)
(* only when that one was big enough to say anything.                      *)
LooksTruncated(r) ==
    \E p \in Believed :
        /\ \A q \in Believed : runs[q].started <= runs[p].started
        /\ runs[p].items >= GuardMin
        /\ 2 * runs[r].items < runs[p].items

(* record_offer: an offer seen again loses its strikes and stands.         *)
Seen(at) == [last |-> at, misses |-> 0, current |-> TRUE]

(* The ORM writes the columns whose value differs from the one it loaded,  *)
(* and leaves alone the others, whatever they hold by now.                 *)
Column(loaded, new, now) == IF new # loaded THEN new ELSE now
Update(loaded, new, now) ==
    [last    |-> Column(loaded.last, new.last, now.last),
     misses  |-> Column(loaded.misses, new.misses, now.misses),
     current |-> Column(loaded.current, new.current, now.current)]

SlipStrikesKept(q, x) ==
    IF q.rows[x] = None THEN Seen(runs[q.run].started)
    ELSE [offers[x] EXCEPT !.last = runs[q.run].started, !.current = TRUE]

Recorded(q, x) ==
    IF q.rows[x] = None THEN Seen(runs[q.run].started)
    ELSE Update(q.rows[x], Seen(runs[q.run].started), offers[x])

SlipStrikesTheSeen(row, startedAt) ==
    IF row # None /\ row.current /\ row.last <= startedAt
    THEN [row EXCEPT !.misses = @ + 1, !.current = row.misses + 1 < MissLimit] ELSE row

(* sweep_source, for one row.                                              *)
Swept(row, startedAt) ==
    IF row # None /\ row.current /\ row.last < startedAt
    THEN [row EXCEPT !.misses = @ + 1, !.current = row.misses + 1 < MissLimit]
    ELSE row

SlipExpiresOwnParks(park, before) == IF park # None /\ park <= before THEN None ELSE park

(* expire_reviews, for one park.                                           *)
Unexpired(park, before) == IF park # None /\ park < before THEN None ELSE park

SlipCountsOnArrival(q, deferred) == Cardinality(q.chunk)
SlipUncountsDeferred(q, deferred) == 0 - Cardinality(deferred)

(* A deferred listing comes round again, and is counted then.              *)
Counted(q, deferred) == Cardinality(q.chunk \ deferred)

(* A parallel request inserted the row this one is about to insert.        *)
Conflicts(q, placed) == \E x \in placed : q.rows[x] = None /\ offers[x] # None

-----------------------------------------------------------------------------
(* The fetcher, and the handlers it calls.                                 *)

(* begin: the run row exists before any listing, and is dated by the       *)
(* fetcher's clock.  No two runs are dated alike.  What the service will   *)
(* yield is settled here, and is anything: a real change, a flaky page.    *)
Begin(f) ==
    /\ fetch[f].pc = "idle"
    /\ clock' = clock + 1
    /\ \E r \in RunIds, skew \in Skews, stream \in SUBSET Listings :
        /\ runs[r].status = "unborn"
        /\ \A s \in RunIds : s < r => runs[s].status # "unborn"
        /\ clock' + skew \in Nat
        /\ \A s \in RunIds : s < r => runs[s].started # clock' + skew
        /\ runs' = [runs EXCEPT ![r] =
                      [Unborn EXCEPT !.status = "running", !.started = clock' + skew, !.read = stream]]
        /\ fetch' = [fetch EXCEPT ![f] =
                       [Idle EXCEPT !.pc = "reading", !.run = r, !.todo = stream]]
    /\ UNCHANGED <<offers, parks, requests>>

(* _send, first pass or second, up to where the handler has read the run   *)
(* and the rows.                                                           *)
Ask(f, chunk, resolved) ==
    /\ Running(fetch[f].run)
    /\ requests' = requests \cup
         {[by |-> f, run |-> fetch[f].run, chunk |-> chunk, resolved |-> resolved,
           rows |-> offers, items |-> runs[fetch[f].run].items]}
    /\ fetch' = [fetch EXCEPT ![f] =
                    [fetch[f] EXCEPT !.pc = "waiting", !.todo = @ \ chunk, !.pending = {}]]
    /\ UNCHANGED <<clock, offers, parks, runs>>

OfferChunk(f) ==
    /\ fetch[f].pc = "reading"
    /\ \E chunk \in SUBSET fetch[f].todo :
        /\ Cardinality(chunk) = ChunkSize \/ (chunk = fetch[f].todo /\ Cardinality(chunk) \in 1 .. ChunkSize)
        /\ Ask(f, chunk, FALSE)

OfferResolved(f) ==
    /\ fetch[f].pc = "resolving"
    /\ Ask(f, fetch[f].pending, TRUE)

Fail(f) ==
    fetch' = [fetch EXCEPT ![f] =
                [fetch[f] EXCEPT !.pc = "ending", !.todo = {}, !.pending = {}, !.verdict = "failed"]]

(* The API answers 409: somebody closed the run meanwhile.                 *)
Refused(f) ==
    /\ fetch[f].pc \in {"reading", "resolving"}
    /\ fetch[f].todo # {} \/ fetch[f].pc = "resolving"
    /\ ~Running(fetch[f].run)
    /\ Fail(f)
    /\ UNCHANGED <<clock, offers, parks, runs, requests>>

(* The commit, and the answer the client reads if it is still there.       *)
Answer(q, deferred, placed, parked) ==
    /\ offers' = [x \in Listings |-> IF x \in placed THEN Recorded(q, x) ELSE offers[x]]
    /\ parks' = [x \in Listings |-> IF x \in parked THEN clock ELSE parks[x]]
    /\ runs' = [runs EXCEPT ![q.run] =
                   [runs[q.run] EXCEPT !.items = q.items + Counted(q, deferred), !.errors = {},
                             !.sighted = @ \cup placed, !.parked = @ \cup parked]]
    /\ fetch' = IF q.by = None THEN fetch
                ELSE [fetch EXCEPT ![q.by] =
                        [fetch[q.by] EXCEPT !.pc = IF deferred = {} THEN "reading" ELSE "resolving",
                                  !.pending = deferred]]
    /\ requests' = requests \ {q}
    /\ UNCHANGED clock

(* _match_chunk from the matcher to the commit.  Only a listing that has   *)
(* not been looked up can be deferred; the rest are placed, or parked for  *)
(* a reviewer, or neither (a listing ruled not to be a title).             *)
Commit(q) ==
    \E deferred \in SUBSET q.chunk :
    \E placed \in SUBSET (q.chunk \ deferred) :
    \E parked \in SUBSET (q.chunk \ (deferred \cup placed)) :
        /\ q.resolved => deferred = {}
        /\ ~Conflicts(q, placed)
        /\ Answer(q, deferred, placed, parked)

(* The unique constraint on the offer refuses the insert: a 500, and the   *)
(* whole chunk is rolled back.                                             *)
Clash(q) ==
    /\ Conflicts(q, q.chunk)
    /\ requests' = requests \ {q}
    /\ IF q.by = None THEN UNCHANGED fetch ELSE Fail(q.by)
    /\ UNCHANGED <<clock, offers, parks, runs>>

(* An IngestError: the request died with the server, or the client stopped *)
(* waiting and the handler carries on without it.                          *)
GiveUp(f) ==
    /\ fetch[f].pc = "waiting"
    /\ \E q \in requests :
        /\ q.by = f
        /\ \/ requests' = requests \ {q}
           \/ /\ Cardinality({p \in requests : p.by = None}) < MaxOrphans
              /\ requests' = (requests \ {q}) \cup {[q EXCEPT !.by = None]}
    /\ Fail(f)
    /\ UNCHANGED <<clock, offers, parks, runs>>

(* The plugin's stream ends, or the plugin does.                           *)
EndOfStream(f) ==
    /\ fetch[f].pc = "reading"
    /\ fetch[f].todo = {}
    /\ fetch' = [fetch EXCEPT ![f] = [fetch[f] EXCEPT !.pc = "ending"]]
    /\ UNCHANGED <<clock, offers, parks, runs, requests>>

PluginFails(f) ==
    /\ fetch[f].pc = "reading"
    /\ Fail(f)
    /\ UNCHANGED <<clock, offers, parks, runs, requests>>

Verdict(f) ==
    IF fetch[f].verdict = "ok" /\ LooksTruncated(fetch[f].run)
    THEN "aborted_suspicious" ELSE fetch[f].verdict

SlipFatalForgotten(verdict) == IF verdict = "aborted_suspicious" THEN {"too few items"} ELSE {}

(* What ended the run goes into the row: the fetcher appends the exception *)
(* to its errors, the API appends its own when it does not believe a run.  *)
SaysWhy(verdict) ==
    CASE verdict = "ok" -> {}
      [] verdict = "failed" -> {"exception"}
      [] verdict = "aborted_suspicious" -> {"too few items"}

(* finish: believe the run or not, then sweep, then close it.              *)
Finish(f) ==
    LET r == fetch[f].run IN
    /\ fetch[f].pc = "ending"
    /\ Running(r)
    /\ clock' = clock + 1
    /\ offers' = IF Verdict(f) = "ok"
                 THEN [x \in Listings |-> Swept(offers[x], runs[r].started)] ELSE offers
    /\ parks' = IF Verdict(f) = "ok"
                THEN [x \in Listings |-> Unexpired(parks[x], runs[r].started)] ELSE parks
    /\ runs' = [runs EXCEPT ![r] =
                   [runs[r] EXCEPT !.status = Verdict(f), !.finished = clock',
                             !.errors = SaysWhy(Verdict(f))]]
    /\ fetch' = [fetch EXCEPT ![f] = Idle]
    /\ UNCHANGED requests

(* The finish never arrives, or is refused: the run is left as it is.      *)
FinishFails(f) ==
    /\ fetch[f].pc = "ending"
    /\ fetch' = [fetch EXCEPT ![f] = Idle]
    /\ UNCHANGED <<clock, offers, parks, runs, requests>>

(* The process dies and another is started in its place.                   *)
Crash(f) ==
    /\ fetch[f].pc # "idle"
    /\ LET mine == {q \in requests : q.by = f} IN
        \/ requests' = requests \ mine
        \/ /\ mine # {}
           /\ Cardinality({p \in requests : p.by = None}) < MaxOrphans
           /\ requests' = (requests \ mine) \cup {[q EXCEPT !.by = None] : q \in mine}
    /\ fetch' = [fetch EXCEPT ![f] = Idle]
    /\ UNCHANGED <<clock, offers, parks, runs>>

-----------------------------------------------------------------------------
(* The others who write.                                                   *)

(* attach and create on a parked listing: the ruling records the offer     *)
(* there and then, seen now; dismiss records none.                         *)
Rule(x) ==
    /\ parks[x] # None
    /\ parks' = [parks EXCEPT ![x] = None]
    /\ \/ /\ offers' = [offers EXCEPT ![x] = Seen(clock)]
          /\ runs' = [r \in RunIds |-> IF \E f \in Fetchers : fetch[f].run = r
                        THEN [runs[r] EXCEPT !.sighted = @ \cup {x}] ELSE runs[r]]
       \/ UNCHANGED <<offers, runs>>
    /\ UNCHANGED <<clock, requests, fetch>>

(* _sweep_abandoned: a run open for too long is taken for dead.            *)
CloseAbandoned(r) ==
    /\ Running(r)
    /\ clock - runs[r].started >= AbandonedAfter
    /\ runs' = [runs EXCEPT ![r] =
                   [runs[r] EXCEPT !.status = "crashed", !.finished = clock, !.errors = {"no outcome"}]]
    /\ UNCHANGED <<clock, offers, parks, requests, fetch>>

Next ==
    \/ \E f \in Fetchers :
        \/ Begin(f)
        \/ OfferChunk(f)
        \/ OfferResolved(f)
        \/ Refused(f)
        \/ GiveUp(f)
        \/ EndOfStream(f)
        \/ PluginFails(f)
        \/ Finish(f)
        \/ FinishFails(f)
        \/ Crash(f)
    \/ \E q \in requests : Commit(q) \/ Clash(q)
    \/ \E x \in Listings : Rule(x)
    \/ \E r \in RunIds : CloseAbandoned(r)

Spec == Init /\ [][Next]_vars

-----------------------------------------------------------------------------
(* What must hold.                                                         *)

Standing(x) == offers[x] # None /\ offers[x].current
BelievedNow == {r \in RunIds : Running(r) /\ runs'[r].status = "ok"}

(* A strike is earned: an offer never has more of them than there were     *)
(* believed runs that finished after the run that last saw it had begun -  *)
(* whatever other fetchers swept between the load of its columns and their *)
(* commit, which writes only some of them (offers.py:96-99, sweep_source), *)
(* as long as no fetcher's clock runs ahead of the API's.                  *)
BelievedSince(at) == {r \in Believed : runs[r].finished > at}

StrikesAreEarned ==
    \A x \in Listings : offers[x] # None =>
        offers[x].misses <= Cardinality(BelievedSince(offers[x].last))

(* So an offer is retired only by the run that makes it MissLimit believed *)
(* ones since the run that last saw it had begun (pipeline.py:12-14): an   *)
(* overlapping fetcher may spare an offer, it cannot hasten its end.       *)
RetiredOnEnoughRuns ==
    [][\A x \in Listings :
         Standing(x) /\ ~Standing(x)' =>
           Cardinality({r \in Believed' : runs'[r].finished > offers[x].last}) >= MissLimit]_vars

(* An offer is retired only once it has been missing from MISS_LIMIT       *)
(* consecutive successful syncs (pipeline.py:12-14): the step that retires *)
(* it believes a run, and none of the last MISS_LIMIT runs believed, in    *)
(* the order they finished, had placed it.                                 *)
LastBelieved(n) ==
    {r \in Believed' : Cardinality({s \in Believed' : runs'[s].finished > runs'[r].finished}) < n}

RetiredOnlyAfterConsecutiveMisses ==
    [][\A x \in Listings :
         Standing(x) /\ ~Standing(x)' =>
           /\ Cardinality(LastBelieved(MissLimit)) = MissLimit
           /\ \A r \in LastBelieved(MissLimit) : x \notin runs'[r].sighted]_vars

(* Only a run that is believed costs anybody anything: a strike, or a park *)
(* that disappears without a ruling, happens in the step that closes a run *)
(* as ok - never under a failed, suspicious or crashed one - and that run  *)
(* had really read at least half of what the last believed one had, when   *)
(* that was enough to judge by (catalog.looks_truncated, syncing.finish).  *)
Plausible(r) ==
    \A p \in Believed :
        (/\ \A q \in Believed : runs[q].started <= runs[p].started
         /\ Cardinality(runs[p].read) >= GuardMin)
        => 2 * Cardinality(runs[r].read) >= Cardinality(runs[p].read)

NothingLostWithoutBelief ==
    [][\A x \in Listings :
         (/\ offers[x] # None
          /\ offers'[x].misses > offers[x].misses \/ (offers[x].current /\ ~offers'[x].current))
         => \E r \in BelievedNow : Plausible(r)]_vars

(* The handshake neither loses a listing nor counts one twice: a believed  *)
(* run was judged by exactly the number of listings its stream yielded,    *)
(* however many of them were handed back and offered again                 *)
(* (syncing.py:339-342).                                                   *)
EveryListingCountedOnce ==
    \A r \in RunIds : runs[r].status \in {"ok", "aborted_suspicious"} =>
        runs[r].items = Cardinality(runs[r].read)

(* A run never expires the parks it wrote itself, nor one an earlier run   *)
(* would have refreshed: what a believed run removes from the review queue *)
(* is what it did not park (catalog.py:130-136).                           *)
ExpiredParksWereNotSeen ==
    [][\A r \in BelievedNow : \A x \in Listings :
         parks[x] # None /\ parks'[x] = None => x \notin runs[r].parked]_vars

(* Seeing an offer again clears any strikes against it and revives a row   *)
(* that had been retired (offers.py:57-58): once a chunk that placed a     *)
(* listing is committed, its offer stands with no strike.                  *)
SeenOffersStand ==
    [][\A r \in RunIds : \A x \in runs'[r].sighted \ runs[r].sighted :
         Standing(x)' /\ offers'[x].misses = 0]_vars

(* A run closed as failed or suspicious says why, for as long as the row   *)
(* is kept (pipeline.py:146-148: whatever ended the run goes into the row).*)
FailedRunsSayWhy ==
    \A r \in RunIds : runs[r].status \in Closed \ {"ok"} => runs[r].errors # {}

(* As long as no run is begun while anything of another is under way, its  *)
(* fetcher or a request that outlived one, the rows keep the promise of    *)
(* TwoStrikes: timestamps, columns and chunks come to the same as striking *)
(* what the sync did not sight.                                            *)
Active == {f \in Fetchers : fetch[f].pc # "idle"}

StrikesOn(row) == IF row = None THEN None ELSE IF row.current THEN row.misses ELSE MissLimit
SightedNow == UNION {runs[fetch[f].run].sighted : f \in Active}

Promise == INSTANCE TwoStrikes WITH
    NotOffered <- None,
    strikes <- [x \in Listings |-> StrikesOn(offers[x])],
    sighted <- SightedNow,
    syncing <- Active # {}

KeepsTwoStrikes == Promise!TwoStrikesSpec

(* The assumptions of the theorems: whose clocks agree, or never run ahead *)
(* of the API's, and runs that do not overlap.                             *)
OneClock == Skews = {0}
NeverAhead == \A skew \in Skews : skew <= 0
Underway == Active # {} \/ requests # {}
Apart == Underway => ~\E f \in Fetchers : Begin(f)
=============================================================================
