---------------------------- MODULE SyncProofs ----------------------------
(***************************************************************************)
(* Theorems about Sync, for every value of its constants, with fetchers    *)
(* that overlap and requests that outlive their client: the strikes an     *)
(* offer earns, the handshake, the parks.  Last, the promise of TwoStrikes *)
(* is kept by runs that do not overlap.                                    *)
(***************************************************************************)
EXTENDS Sync, FiniteSetTheorems, TLAPS

USE SyncAssumption

(* A chunk is finite, so what is counted of it is a number. *)
LEMMA CountedIsNat ==
    ASSUME NEW S \in SUBSET Listings, NEW D
    PROVE  Cardinality(S \ D) \in Nat
  <1>1. IsFiniteSet(S \ D)
    BY FS_Subset
  <1>2. QED
    BY <1>1, FS_CardinalityType

(* Recording an offer leaves a row, whatever columns were written. *)
LEMMA RecordedIsOffer ==
    ASSUME TypeOK, NEW q \in requests, NEW x \in Listings,
           q.rows[x] # None => offers[x] # None
    PROVE  Recorded(q, x) \in Offer
  <1>1. runs[q.run].started \in Nat
    BY DEF TypeOK, Request, Run
  <1>2. Seen(runs[q.run].started) \in Offer
    BY <1>1 DEF Seen, Offer
  <1>3. CASE q.rows[x] = None
    BY <1>2, <1>3 DEF Recorded
  <1>4. CASE q.rows[x] # None
    <2>1. q.rows[x] \in Offer /\ offers[x] \in Offer
      BY <1>4 DEF TypeOK, Request
    <2>2. QED
      BY <1>2, <1>4, <2>1 DEF Recorded, Update, Column, Offer
  <1>5. QED
    BY <1>3, <1>4

(* A sweep leaves a row a row. *)
LEMMA SweptKeepsRows ==
    ASSUME NEW row \in Offer, NEW t \in Nat PROVE Swept(row, t) \in Offer
  <1>1. CASE row.current /\ row.last < t
    <2>1. row.misses + 1 \in Nat /\ (row.misses + 1 < MissLimit) \in BOOLEAN
      BY DEF Offer
    <2>2. [row EXCEPT !.misses = @ + 1, !.current = row.misses + 1 < MissLimit] \in Offer
      BY <2>1, Zenon DEF Offer
    <2>3. QED
      BY <1>1, <2>2, SyncAssumption DEF Swept
  <1>2. CASE ~(row.current /\ row.last < t)
    BY <1>2 DEF Swept
  <1>3. QED
    BY <1>1, <1>2

LEMMA SweptIsOffer ==
    ASSUME NEW row \in Offer \cup {None}, NEW t \in Nat
    PROVE  Swept(row, t) \in Offer \cup {None}
  <1>1. CASE row = None
    BY <1>1 DEF Swept
  <1>2. CASE row # None
    BY <1>2, SweptKeepsRows
  <1>3. QED
    BY <1>1, <1>2

-----------------------------------------------------------------------------
(* Types.  Availability rows are never deleted, so a row a request loaded  *)
(* is still there when it writes over it.                                  *)
RowsKept == \A q \in requests, x \in Listings : q.rows[x] # None => offers[x] # None

(* A fetcher that is not idle is driving a run.                            *)
Driven == \A f \in Fetchers : fetch[f].pc # "idle" => fetch[f].run \in RunIds

TypeInv == TypeOK /\ RowsKept /\ Driven

LEMMA TypeInit == Init => TypeInv
  BY DEF Init, TypeInv, TypeOK, RowsKept, Driven, Unborn, Run, Idle, Fetch

(* A run is begun, under a date. *)
LEMMA BeginRow ==
    ASSUME NEW f \in Fetchers, Begin(f)
    PROVE  \E r \in RunIds, skew \in Skews, stream \in SUBSET Listings :
             /\ runs[r].status = "unborn"
             /\ clock' + skew \in Nat
             /\ runs' = [runs EXCEPT ![r] =
                          [Unborn EXCEPT !.status = "running", !.started = clock' + skew, !.read = stream]]
             /\ fetch' = [fetch EXCEPT ![f] =
                           [Idle EXCEPT !.pc = "reading", !.run = r, !.todo = stream]]
  BY DEF Begin

LEMMA BeginType ==
    ASSUME TypeInv, NEW f \in Fetchers, Begin(f) PROVE TypeInv'
  <1>1. PICK r \in RunIds, skew \in Skews, stream \in SUBSET Listings :
          /\ runs[r].status = "unborn"
          /\ clock' + skew \in Nat
          /\ runs' = [runs EXCEPT ![r] =
                       [Unborn EXCEPT !.status = "running", !.started = clock' + skew, !.read = stream]]
          /\ fetch' = [fetch EXCEPT ![f] =
                        [Idle EXCEPT !.pc = "reading", !.run = r, !.todo = stream]]
    BY BeginRow
  <1>2. clock' \in Nat
    BY DEF Begin, TypeInv, TypeOK
  <1>3. [Unborn EXCEPT !.status = "running", !.started = clock' + skew, !.read = stream] \in Run
    BY <1>1 DEF Unborn, Run
  <1>4. [Idle EXCEPT !.pc = "reading", !.run = r, !.todo = stream] \in Fetch
    BY DEF Idle, Fetch
  <1>5. QED
    <2>1. TypeOK' /\ RowsKept'
      BY <1>1, <1>2, <1>3, <1>4 DEF Begin, TypeInv, TypeOK, RowsKept
    <2>2. [Idle EXCEPT !.pc = "reading", !.run = r, !.todo = stream].run = r
      BY DEF Idle
    <2>3. Driven'
      BY <1>1, <2>2 DEF TypeInv, TypeOK, Driven
    <2>4. QED
      BY <2>1, <2>3 DEF TypeInv

LEMMA AskType ==
    ASSUME TypeInv, NEW f \in Fetchers, NEW chunk \in SUBSET Listings,
           NEW resolved \in BOOLEAN, Ask(f, chunk, resolved), fetch[f].run \in RunIds
    PROVE  TypeInv'
  <1> DEFINE q == [by |-> f, run |-> fetch[f].run, chunk |-> chunk, resolved |-> resolved,
                   rows |-> offers, items |-> runs[fetch[f].run].items]
  <1>1. q \in Request
    BY DEF TypeInv, TypeOK, Request, Run
  <1>2. [fetch[f] EXCEPT !.pc = "waiting", !.todo = @ \ chunk, !.pending = {}] \in Fetch
    BY DEF TypeInv, TypeOK, Fetch
  <1>3. requests' = requests \cup {q} /\ UNCHANGED <<clock, offers, parks, runs>>
    BY DEF Ask
  <1>4. fetch' \in [Fetchers -> Fetch]
    BY <1>2 DEF Ask, TypeInv, TypeOK
  <1>5. TypeOK'
    BY <1>1, <1>3, <1>4 DEF TypeInv, TypeOK
  <1>6. RowsKept'
    BY <1>3 DEF TypeInv, RowsKept
  <1>7. Driven'
    BY DEF Ask, TypeInv, TypeOK, Fetch, Driven
  <1>8. QED
    BY <1>5, <1>6, <1>7 DEF TypeInv

LEMMA FailType ==
    ASSUME TypeInv, NEW f \in Fetchers, Fail(f), fetch[f].pc # "idle"
    PROVE  fetch' \in [Fetchers -> Fetch] /\ Driven'
  <1>1. [fetch[f] EXCEPT !.pc = "ending", !.todo = {}, !.pending = {}, !.verdict = "failed"]
          \in Fetch
    BY DEF TypeInv, TypeOK, Fetch
  <1>2. Driven'
    BY DEF Fail, TypeInv, TypeOK, Fetch, Driven
  <1>3. QED
    BY <1>1, <1>2 DEF Fail, TypeInv, TypeOK

(* A request is finished with, or lives on without its client. *)
LEMMA RequestsType ==
    ASSUME TypeInv, requests' \subseteq requests \cup {[q EXCEPT !.by = None] : q \in requests}
    PROVE  requests' \subseteq Request /\ (offers' = offers => RowsKept')
  <1>1. ASSUME NEW q \in requests PROVE [q EXCEPT !.by = None] \in Request
    BY DEF TypeInv, TypeOK, Request
  <1>2. requests' \subseteq Request
    BY <1>1 DEF TypeInv, TypeOK
  <1>3. ASSUME NEW q \in requests' PROVE \E p \in requests : q.rows = p.rows
    <2>1. CASE q \in requests
      BY <2>1
    <2>2. ASSUME NEW p \in requests, q = [p EXCEPT !.by = None] PROVE q.rows = p.rows
      BY <2>2 DEF TypeInv, TypeOK, Request
    <2>3. QED
      BY <2>1, <2>2
  <1>4. offers' = offers => RowsKept'
    BY <1>3 DEF TypeInv, RowsKept
  <1>5. QED
    BY <1>2, <1>4

LEMMA TalliedIsRun ==
    ASSUME NEW row \in Run, NEW n \in Nat,
           NEW S \in SUBSET Listings, NEW T \in SUBSET Listings
    PROVE  [row EXCEPT !.items = n, !.errors = {},
                       !.sighted = @ \cup S, !.parked = @ \cup T] \in Run
  BY DEF Run

LEMMA AnswerType ==
    ASSUME TypeInv, NEW q \in requests, NEW deferred \in SUBSET q.chunk,
           NEW placed \in SUBSET (q.chunk \ deferred),
           NEW parked \in SUBSET (q.chunk \ (deferred \cup placed)),
           Answer(q, deferred, placed, parked), q.by # None => fetch[q.by].pc # "idle"
    PROVE  TypeInv'
  <1>3. q \in Request /\ q.chunk \in SUBSET Listings /\ q.items \in Nat /\ q.run \in RunIds
    BY DEF TypeInv, TypeOK, Request
  <1>4. ASSUME NEW x \in Listings PROVE Recorded(q, x) \in Offer
    BY RecordedIsOffer DEF TypeInv, RowsKept
  <1>5. offers' \in [Listings -> Offer \cup {None}]
    BY <1>4 DEF Answer, TypeInv, TypeOK
  <1>6. parks' \in [Listings -> Nat \cup {None}]
    BY DEF Answer, TypeInv, TypeOK
  <1>7. runs' \in [RunIds -> Run]
    <2> DEFINE total == q.items + Counted(q, deferred)
    <2>1. total \in Nat
      <3>1. Cardinality(q.chunk \ deferred) \in Nat
        BY <1>3, CountedIsNat, Zenon
      <3>2. QED
        BY <1>3, <3>1 DEF Counted
    <2>2. placed \subseteq Listings /\ parked \subseteq Listings
      BY <1>3
    <2> HIDE DEF total
    <2>3. [runs[q.run] EXCEPT !.items = total, !.errors = {},
                              !.sighted = @ \cup placed, !.parked = @ \cup parked] \in Run
      <3>1. runs[q.run] \in Run
        BY <1>3 DEF TypeInv, TypeOK
      <3>2. QED
        BY <2>1, <2>2, <3>1, TalliedIsRun
    <2>4. QED
      BY <1>3, <2>3 DEF total, Answer, TypeInv, TypeOK
  <1>8. fetch' \in [Fetchers -> Fetch]
    <2>1. CASE q.by = None
      BY <2>1 DEF Answer, TypeInv, TypeOK
    <2>2. CASE q.by # None
      <3>1. q.by \in Fetchers /\ fetch[q.by] \in Fetch
        BY <1>3, <2>2 DEF TypeInv, TypeOK, Request
      <3>2. [fetch[q.by] EXCEPT !.pc = IF deferred = {} THEN "reading" ELSE "resolving",
                                !.pending = deferred] \in Fetch
        BY <1>3, <3>1 DEF Fetch
      <3>3. QED
        BY <2>2, <3>1, <3>2 DEF Answer, TypeInv, TypeOK
    <2>3. QED
      BY <2>1, <2>2
  <1>9. RowsKept'
    <2>1. ASSUME NEW x \in Listings, offers[x] # None PROVE offers'[x] # None
      BY <1>4, <2>1 DEF Answer
    <2>2. QED
      BY <2>1 DEF Answer, TypeInv, RowsKept
  <1>10. Driven'
    BY <1>3 DEF Answer, TypeInv, TypeOK, Request, Fetch, Driven
  <1>11. QED
    BY <1>3, <1>5, <1>6, <1>7, <1>8, <1>9, <1>10 DEF Answer, TypeInv, TypeOK

LEMMA ClosedIsRun ==
    ASSUME NEW row \in Run, NEW status \in Closed, NEW t \in Nat, NEW why \in SUBSET Reasons
    PROVE  [row EXCEPT !.status = status, !.finished = t, !.errors = why] \in Run
  BY DEF Run

LEMMA FinishType ==
    ASSUME TypeInv, NEW f \in Fetchers, Finish(f), fetch[f].run \in RunIds
    PROVE  TypeInv'
  <1> DEFINE r == fetch[f].run
  <1>1. Verdict(f) \in Closed /\ SaysWhy(Verdict(f)) \in SUBSET Reasons
    <2>1. fetch[f].verdict \in {"ok", "failed"}
      BY DEF TypeInv, TypeOK, Fetch
    <2>2. Verdict(f) \in {"ok", "failed", "aborted_suspicious"}
      BY <2>1 DEF Verdict
    <2>3. QED
      BY <2>2 DEF Closed, SaysWhy, Reasons
  <1>2. clock' \in Nat
    BY DEF Finish, TypeInv, TypeOK
  <1>3. runs[r] \in Run /\ runs[r].started \in Nat
    BY DEF TypeInv, TypeOK, Run
  <1>4. offers' \in [Listings -> Offer \cup {None}]
    BY <1>3, SweptIsOffer DEF Finish, TypeInv, TypeOK
  <1>5. parks' \in [Listings -> Nat \cup {None}]
    BY DEF Finish, Unexpired, TypeInv, TypeOK
  <1>6. [runs[r] EXCEPT !.status = Verdict(f), !.finished = clock',
                        !.errors = SaysWhy(Verdict(f))] \in Run
    BY <1>1, <1>2, <1>3, ClosedIsRun
  <1>7. runs' \in [RunIds -> Run]
    BY <1>6 DEF Finish, TypeInv, TypeOK
  <1>8. fetch' \in [Fetchers -> Fetch]
    BY DEF Finish, TypeInv, TypeOK, Idle, Fetch
  <1>9. TypeOK'
    BY <1>2, <1>4, <1>5, <1>7, <1>8 DEF Finish, TypeInv, TypeOK
  <1>10. ASSUME NEW x \in Listings, offers[x] # None PROVE offers'[x] # None
    <2>1. offers[x] \in Offer
      BY <1>10 DEF TypeInv, TypeOK
    <2>2. Swept(offers[x], runs[r].started) # None
      BY <1>3, <2>1, SweptKeepsRows
    <2>3. QED
      BY <1>10, <2>2 DEF Finish
  <1>11. RowsKept'
    BY <1>10 DEF Finish, TypeInv, RowsKept
  <1>12. Driven'
    BY DEF Finish, TypeInv, TypeOK, Idle, Fetch, Driven
  <1>13. QED
    BY <1>9, <1>11, <1>12 DEF TypeInv

(* A client waits for one request at a time, and a request knows its run.  *)
Awaited == \A q \in requests : q.by # None =>
    /\ q.by \in Fetchers /\ fetch[q.by].pc = "waiting" /\ q.run = fetch[q.by].run
    /\ \A p \in requests : p.by = q.by => p = q

LEMMA AwaitedInit == Init => Awaited
  BY DEF Init, Awaited

(* What the steps that neither ask nor answer do to the requests: a client *)
(* that stops waiting leaves none of its own behind.                       *)
LEMMA AwaitedLeft ==
    ASSUME TypeInv, Awaited, NEW f \in Fetchers,
           requests' \subseteq requests \cup {[q EXCEPT !.by = None] : q \in requests},
           \A q \in requests' : q.by # f,
           \A g \in Fetchers : g # f => fetch'[g] = fetch[g]
    PROVE  Awaited'
  <1>1. ASSUME NEW q \in requests PROVE [q EXCEPT !.by = None].by = None
    BY DEF TypeInv, TypeOK, Request
  <1>2. \A q \in requests' : q.by # None => q \in requests /\ q.by # f
    BY <1>1
  <1>3. QED
    BY <1>2 DEF Awaited

LEMMA AwaitedNext ==
    ASSUME TypeInv, Awaited, Next PROVE Awaited'
  <1>1. ASSUME NEW f \in Fetchers, fetch[f].pc # "waiting", UNCHANGED requests,
               \A g \in Fetchers : g # f => fetch'[g] = fetch[g]
        PROVE  Awaited'
    <2>1. \A q \in requests' : q.by # f
      BY <1>1, SyncAssumption DEF Awaited
    <2>2. QED
      BY <1>1, <2>1, AwaitedLeft
  <1>2. ASSUME NEW f \in Fetchers, Begin(f) PROVE Awaited'
    BY <1>1, <1>2 DEF Begin, TypeInv, TypeOK
  <1>3. ASSUME NEW f \in Fetchers, NEW chunk, NEW resolved, Ask(f, chunk, resolved),
               fetch[f].pc \in {"reading", "resolving"}
        PROVE  Awaited'
    <2> DEFINE q == [by |-> f, run |-> fetch[f].run, chunk |-> chunk, resolved |-> resolved,
                     rows |-> offers, items |-> runs[fetch[f].run].items]
    <2>1. requests' = requests \cup {q} /\ q.by = f /\ q.run = fetch[f].run
      BY <1>3 DEF Ask
    <2>2. \A p \in requests : p.by # f
      BY <1>3, SyncAssumption DEF Awaited
    <2>3. fetch'[f].pc = "waiting" /\ fetch'[f].run = fetch[f].run
      BY <1>3 DEF Ask, TypeInv, TypeOK, Fetch
    <2>4. \A g \in Fetchers : g # f => fetch'[g] = fetch[g]
      BY <1>3 DEF Ask, TypeInv, TypeOK
    <2> HIDE DEF q
    <2>5. QED
      BY <2>1, <2>2, <2>3, <2>4 DEF Awaited
  <1>4. ASSUME NEW f \in Fetchers, OfferChunk(f) \/ OfferResolved(f) PROVE Awaited'
    BY <1>3, <1>4 DEF OfferChunk, OfferResolved
  <1>5. ASSUME NEW f \in Fetchers,
               Refused(f) \/ EndOfStream(f) \/ PluginFails(f) \/ Finish(f) \/ FinishFails(f)
        PROVE  Awaited'
    BY <1>1, <1>5
       DEF Refused, EndOfStream, PluginFails, Finish, FinishFails, Fail, TypeInv, TypeOK
  <1>6. ASSUME NEW f \in Fetchers, GiveUp(f) PROVE Awaited'
    <2>1. \A g \in Fetchers : g # f => fetch'[g] = fetch[g]
      BY <1>6 DEF GiveUp, Fail, TypeInv, TypeOK
    <2>2. PICK q \in requests :
            /\ q.by = f
            /\ \/ requests' = requests \ {q}
               \/ requests' = (requests \ {q}) \cup {[q EXCEPT !.by = None]}
      BY <1>6 DEF GiveUp
    <2>3. [q EXCEPT !.by = None].by = None
      BY DEF TypeInv, TypeOK, Request
    <2>4. \A p \in requests \ {q} : p.by # f
      BY <2>2, SyncAssumption DEF Awaited
    <2>5. \A p \in requests' : p.by # f
      BY <2>2, <2>3, <2>4, SyncAssumption
    <2>6. QED
      BY <2>1, <2>2, <2>5, AwaitedLeft
  <1>7. ASSUME NEW f \in Fetchers, Crash(f) PROVE Awaited'
    <2>1. \A g \in Fetchers : g # f => fetch'[g] = fetch[g]
      BY <1>7 DEF Crash, TypeInv, TypeOK
    <2>2. ASSUME NEW q \in requests PROVE [q EXCEPT !.by = None].by = None
      BY DEF TypeInv, TypeOK, Request
    <2> DEFINE mine == {q \in requests : q.by = f}
               orphaned == {[q EXCEPT !.by = None] : q \in mine}
    <2>0. requests' = requests \ mine \/ requests' = (requests \ mine) \cup orphaned
      BY <1>7 DEF Crash
    <2>3. \A p \in requests' : p.by # f
      <3>1. \A p \in orphaned : p.by = None
        BY <2>2
      <3>2. \A p \in requests \ mine : p.by # f
        OBVIOUS
      <3>3. QED
        BY <2>0, <3>1, <3>2, SyncAssumption
    <2>4. requests' \subseteq requests \cup {[q EXCEPT !.by = None] : q \in requests}
      BY <2>0
    <2>5. QED
      BY <2>1, <2>3, <2>4, AwaitedLeft
  <1>8. ASSUME NEW q \in requests, requests' = requests \ {q},
               \A g \in Fetchers : g # q.by => fetch'[g] = fetch[g]
        PROVE  Awaited'
    BY <1>8 DEF Awaited
  <1>9. ASSUME NEW q \in requests, Commit(q) \/ Clash(q) PROVE Awaited'
    BY <1>8, <1>9 DEF Commit, Answer, Clash, Fail, TypeInv, TypeOK
  <1>10. ASSUME UNCHANGED <<requests, fetch>> PROVE Awaited'
    BY <1>10 DEF Awaited
  <1>11. QED
    BY <1>2, <1>4, <1>5, <1>6, <1>7, <1>9, <1>10 DEF Next, Rule, CloseAbandoned

LEMMA TypeNext ==
    ASSUME TypeInv, Awaited, Next PROVE TypeInv'
  <1>1. ASSUME NEW f \in Fetchers, OfferChunk(f) \/ OfferResolved(f) PROVE TypeInv'
    <2>1. fetch[f] \in Fetch /\ fetch[f].run \in RunIds
      BY <1>1 DEF OfferChunk, OfferResolved, TypeInv, TypeOK, Driven
    <2>2. fetch[f].todo \in SUBSET Listings /\ fetch[f].pending \in SUBSET Listings
      BY <2>1 DEF Fetch
    <2>3. PICK chunk \in SUBSET Listings, resolved \in BOOLEAN : Ask(f, chunk, resolved)
      BY <1>1, <2>2 DEF OfferChunk, OfferResolved
    <2>4. QED
      BY <2>1, <2>3, AskType
  <1>2. ASSUME NEW f \in Fetchers, Refused(f) \/ PluginFails(f) PROVE TypeInv'
    <2>1. Fail(f) /\ fetch[f].pc # "idle" /\ UNCHANGED <<clock, offers, parks, runs, requests>>
      BY <1>2 DEF Refused, PluginFails
    <2>2. fetch' \in [Fetchers -> Fetch] /\ Driven'
      BY <2>1, FailType
    <2>3. QED
      BY <2>1, <2>2 DEF TypeInv, TypeOK, RowsKept
  <1>3. ASSUME NEW f \in Fetchers, GiveUp(f) PROVE TypeInv'
    <2>1. Fail(f) /\ fetch[f].pc # "idle" /\ UNCHANGED <<clock, offers, parks, runs>>
      BY <1>3 DEF GiveUp
    <2>2. fetch' \in [Fetchers -> Fetch] /\ Driven'
      BY <2>1, FailType
    <2>3. requests' \subseteq requests \cup {[q EXCEPT !.by = None] : q \in requests}
      BY <1>3 DEF GiveUp
    <2>4. requests' \subseteq Request /\ RowsKept'
      BY <2>1, <2>3, RequestsType
    <2>5. QED
      BY <2>1, <2>2, <2>4 DEF TypeInv, TypeOK
  <1>4. ASSUME NEW f \in Fetchers, EndOfStream(f) PROVE TypeInv'
    <2>1. [fetch[f] EXCEPT !.pc = "ending"] \in Fetch
      BY DEF TypeInv, TypeOK, Fetch
    <2>2. fetch' \in [Fetchers -> Fetch]
      BY <1>4, <2>1 DEF EndOfStream, TypeInv, TypeOK
    <2>3. Driven'
      BY <1>4 DEF EndOfStream, TypeInv, TypeOK, Fetch, Driven
    <2>4. QED
      BY <1>4, <2>2, <2>3 DEF EndOfStream, TypeInv, TypeOK, RowsKept
  <1>5. ASSUME NEW f \in Fetchers, Finish(f) PROVE TypeInv'
    <2>1. fetch[f].run \in RunIds
      BY <1>5 DEF Finish, TypeInv, Driven
    <2>2. QED
      BY <1>5, <2>1, FinishType
  <1>6. ASSUME NEW f \in Fetchers, fetch' = [fetch EXCEPT ![f] = Idle]
        PROVE  fetch' \in [Fetchers -> Fetch] /\ Driven'
    <2>1. Idle \in Fetch /\ Idle.pc = "idle"
      BY DEF Idle, Fetch
    <2>2. QED
      BY <1>6, <2>1 DEF TypeInv, TypeOK, Driven
  <1>7. ASSUME NEW f \in Fetchers, FinishFails(f) PROVE TypeInv'
    BY <1>6, <1>7 DEF FinishFails, TypeInv, TypeOK, RowsKept
  <1>8. ASSUME NEW f \in Fetchers, Crash(f) PROVE TypeInv'
    <2>1. requests' \subseteq requests \cup {[q EXCEPT !.by = None] : q \in requests}
      BY <1>8 DEF Crash
    <2>2. requests' \subseteq Request /\ RowsKept'
      BY <1>8, <2>1, RequestsType DEF Crash
    <2>3. QED
      BY <1>6, <1>8, <2>2 DEF Crash, TypeInv, TypeOK
  <1>9. ASSUME NEW q \in requests, Commit(q) PROVE TypeInv'
    <2>1. q.by # None => fetch[q.by].pc # "idle"
      BY DEF Awaited
    <2>2. QED
      BY <1>9, <2>1, AnswerType DEF Commit
  <1>10. ASSUME NEW q \in requests, Clash(q) PROVE TypeInv'
    <2>1. fetch' \in [Fetchers -> Fetch] /\ Driven'
      <3>1. CASE q.by = None
        BY <1>10, <3>1 DEF Clash, TypeInv, TypeOK, Driven
      <3>2. CASE q.by # None
        BY <1>10, <3>2, FailType DEF Clash, Awaited
      <3>3. QED
        BY <3>1, <3>2
    <2>2. QED
      BY <1>10, <2>1 DEF Clash, TypeInv, TypeOK, RowsKept
  <1>11. ASSUME NEW x \in Listings, Rule(x) PROVE TypeInv'
    <2>1. Seen(clock) \in Offer
      BY DEF Seen, Offer, TypeInv, TypeOK
    <2>2. offers' \in [Listings -> Offer \cup {None}]
          /\ \A y \in Listings : offers[y] # None => offers'[y] # None
      BY <1>11, <2>1, SyncAssumption DEF Rule, TypeInv, TypeOK
    <2>3. ASSUME NEW r \in RunIds PROVE [runs[r] EXCEPT !.sighted = @ \cup {x}] \in Run
      BY DEF TypeInv, TypeOK, Run
    <2>4. runs' \in [RunIds -> Run]
      BY <1>11, <2>3 DEF Rule, TypeInv, TypeOK
    <2>5. QED
      BY <1>11, <2>2, <2>4 DEF Rule, TypeInv, TypeOK, RowsKept, Driven
  <1>12. ASSUME NEW r \in RunIds, CloseAbandoned(r) PROVE TypeInv'
    <2>1. runs[r] \in Run /\ {"no outcome"} \in SUBSET Reasons /\ "crashed" \in Closed
      BY DEF TypeInv, TypeOK, Reasons, Closed
    <2>2. [runs[r] EXCEPT !.status = "crashed", !.finished = clock,
                          !.errors = {"no outcome"}] \in Run
      BY <2>1, ClosedIsRun DEF TypeInv, TypeOK
    <2>3. QED
      BY <1>12, <2>2 DEF CloseAbandoned, TypeInv, TypeOK, RowsKept, Driven
  <1>13. QED
    BY <1>1, <1>2, <1>3, <1>4, <1>5, <1>7, <1>8, <1>9, <1>10, <1>11, <1>12, BeginType DEF Next

(* Whatever the fetchers and the API's requests do to one another, every   *)
(* row, run and request keeps its shape.                                   *)
THEOREM TypeCorrect == Spec => []TypeOK
  <1>1. Init => TypeInv /\ Awaited
    BY TypeInit, AwaitedInit
  <1>2. TypeInv /\ Awaited /\ [Next]_vars => (TypeInv /\ Awaited)'
    <2>1. CASE Next
      BY <2>1, TypeNext, AwaitedNext
    <2>2. CASE UNCHANGED vars
      BY <2>2 DEF vars, TypeInv, TypeOK, RowsKept, Driven, Awaited
    <2>3. QED
      BY <2>1, <2>2
  <1>3. TypeInv => TypeOK
    BY DEF TypeInv
  <1>4. QED
    BY <1>1, <1>2, <1>3, PTL DEF Spec

-----------------------------------------------------------------------------
(***************************************************************************)
(* What an offer is struck for, however many fetchers overlap, and with    *)
(* requests that outlive their client.                                     *)
(***************************************************************************)
(* The believed runs of a table that finished after a moment.              *)
Since(rows, at) == {r \in RunIds : rows[r].status = "ok" /\ rows[r].finished > at}

(* A request that loaded an offer without a strike leaves the strikes the  *)
(* offer got since; they are of runs that finished while it was at work,   *)
(* so after its own run had begun.                                         *)
Spared ==
    \A q \in requests :
        /\ runs[q.run].status # "unborn"
        /\ \A x \in Listings : q.rows[x] # None /\ q.rows[x].misses = 0 =>
               offers[x].misses <= Cardinality(Since(runs, runs[q.run].started))

Dated ==
    /\ \A r \in RunIds : runs[r].started <= clock
    /\ \A x \in Listings : offers[x] # None => offers[x].last <= clock

EarnInv == StrikesAreEarned /\ Spared /\ Dated

LEMMA SinceIsFinite ==
    ASSUME NEW rows, NEW at
    PROVE  IsFiniteSet(Since(rows, at)) /\ Cardinality(Since(rows, at)) \in Nat
  <1>1. IsFiniteSet(RunIds)
    BY FS_Interval, SyncAssumption DEF RunIds
  <1>2. IsFiniteSet(Since(rows, at))
    BY <1>1, FS_Subset DEF Since
  <1>3. QED
    BY <1>2, FS_CardinalityType

(* A table whose believed runs are the same. *)
LEMMA SinceSame ==
    ASSUME NEW rows, NEW later,
           \A r \in RunIds : /\ later[r].status = "ok" <=> rows[r].status = "ok"
                             /\ rows[r].status = "ok" => later[r].finished = rows[r].finished
    PROVE  \A at : Since(later, at) = Since(rows, at)
  BY DEF Since

(* A run that comes to be believed counts for every earlier moment. *)
LEMMA SinceOneMore ==
    ASSUME NEW rows, NEW later, NEW r \in RunIds, NEW at,
           rows[r].status # "ok", later[r].status = "ok", later[r].finished > at,
           \A s \in RunIds : s # r => later[s] = rows[s]
    PROVE  Cardinality(Since(later, at)) = Cardinality(Since(rows, at)) + 1
  <1>1. Since(later, at) = Since(rows, at) \cup {r} /\ r \notin Since(rows, at)
    BY DEF Since
  <1>2. QED
    BY <1>1, SinceIsFinite, FS_AddElement

LEMMA EarnedSince ==
    StrikesAreEarned <=>
      \A x \in Listings : offers[x] # None => offers[x].misses <= Cardinality(Since(runs, offers[x].last))
  <1>1. ASSUME NEW at PROVE BelievedSince(at) = Since(runs, at)
    BY DEF BelievedSince, Believed, Since
  <1>2. QED
    BY <1>1 DEF StrikesAreEarned

LEMMA EarnInit == Init => EarnInv
  BY SyncAssumption DEF Init, EarnInv, StrikesAreEarned, Spared, Dated, Unborn

(* Steps that leave believed runs alone, and write to an offer only what   *)
(* it has earned.                                                          *)
LEMMA EarnKept ==
    ASSUME TypeInv, EarnInv, clock' \in {clock, clock + 1},
           \A r \in RunIds :
               /\ runs'[r].status = "ok" <=> runs[r].status = "ok"
               /\ runs[r].status = "ok" => runs'[r].finished = runs[r].finished
               /\ runs[r].status # "unborn" =>
                    runs'[r].status # "unborn" /\ runs'[r].started = runs[r].started
               /\ runs'[r].started <= clock',
           \A x \in Listings :
               \/ offers'[x] = offers[x]
               \/ /\ offers'[x] \in Offer
                  /\ offers'[x].last <= clock
                  /\ offers'[x].misses <= Cardinality(Since(runs, offers'[x].last))
                  /\ offers[x] # None => offers'[x].misses <= offers[x].misses,
           \A p \in requests' :
               \/ \E q \in requests : p.run = q.run /\ p.rows = q.rows
               \/ p.run \in RunIds /\ runs[p.run].status # "unborn" /\ p.rows = offers'
    PROVE  EarnInv'
  <1>1. \A at : Since(runs', at) = Since(runs, at)
    BY SinceSame
  <1>2. \A at : Cardinality(Since(runs, at)) \in Nat
    BY SinceIsFinite
  <1>3. StrikesAreEarned'
    <2>1. ASSUME NEW x \in Listings, offers'[x] # None
          PROVE  offers'[x].misses <= Cardinality(Since(runs', offers'[x].last))
      BY <1>1, <2>1, EarnedSince DEF EarnInv
    <2>2. ASSUME NEW x \in Listings, offers'[x] # None
          PROVE  offers'[x].misses <= Cardinality({r \in RunIds :
                     runs'[r].status = "ok" /\ runs'[r].finished > offers'[x].last})
      BY <2>1, <2>2 DEF Since
    <2>3. QED
      BY <2>2 DEF StrikesAreEarned, BelievedSince, Believed
  <1>4. Spared'
    <2>1. ASSUME NEW p \in requests'
          PROVE  /\ runs'[p.run].status # "unborn"
                 /\ \A x \in Listings : p.rows[x] # None /\ p.rows[x].misses = 0 =>
                      offers'[x].misses <= Cardinality(Since(runs', runs'[p.run].started))
      <3>1. CASE \E q \in requests : p.run = q.run /\ p.rows = q.rows
        <4>1. PICK q \in requests : p.run = q.run /\ p.rows = q.rows
          BY <3>1
        <4>2. q.run \in RunIds /\ runs[q.run].status # "unborn"
          BY DEF TypeInv, TypeOK, Request, EarnInv, Spared
        <4>3. runs'[q.run].status # "unborn" /\ runs'[q.run].started = runs[q.run].started
          BY <4>2
        <4>4. ASSUME NEW x \in Listings, q.rows[x] # None, q.rows[x].misses = 0
              PROVE  offers'[x].misses <= Cardinality(Since(runs, runs[q.run].started))
          <5>1. offers[x] # None /\ offers[x] \in Offer
            BY <4>4 DEF TypeInv, TypeOK, RowsKept
          <5>2. offers[x].misses <= Cardinality(Since(runs, runs[q.run].started))
            BY <4>4 DEF EarnInv, Spared
          <5>3. offers'[x].misses <= offers[x].misses /\ offers'[x].misses \in Nat
            BY <5>1 DEF Offer
          <5>4. QED
            BY <1>2, <5>1, <5>2, <5>3 DEF Offer
        <4>5. QED
          BY <1>1, <4>1, <4>3, <4>4
      <3>2. CASE p.run \in RunIds /\ runs[p.run].status # "unborn" /\ p.rows = offers'
        BY <1>1, <1>2, <3>2
      <3>3. QED
        BY <3>1, <3>2
    <2>2. QED
      BY <2>1 DEF Spared
  <1>5. Dated'
    <2>1. ASSUME NEW x \in Listings, offers'[x] # None
          PROVE  offers'[x].last <= clock'
      <3>1. offers'[x].last <= clock /\ offers'[x].last \in Nat /\ clock \in Nat
        BY <2>1 DEF EarnInv, Dated, TypeInv, TypeOK, Offer
      <3>2. QED
        BY <3>1
    <2>2. QED
      BY <2>1 DEF Dated
  <1>6. QED
    BY <1>3, <1>4, <1>5 DEF EarnInv

(* What a commit writes over an offer: the strikes it leaves are earned.   *)
LEMMA RecordedIsEarned ==
    ASSUME TypeInv, EarnInv, NEW q \in requests, NEW x \in q.chunk,
           ~(q.rows[x] = None /\ offers[x] # None)
    PROVE  /\ Recorded(q, x) \in Offer
           /\ Recorded(q, x).last <= clock
           /\ Recorded(q, x).misses <= Cardinality(Since(runs, Recorded(q, x).last))
           /\ offers[x] # None => Recorded(q, x).misses <= offers[x].misses
  <1>1. x \in Listings /\ q.run \in RunIds /\ q.rows[x] \in Offer \cup {None}
        /\ runs[q.run].started \in Nat /\ runs[q.run].started <= clock
    BY DEF TypeInv, TypeOK, Request, Run, EarnInv, Dated
  <1>2. \A at : Cardinality(Since(runs, at)) \in Nat
    BY SinceIsFinite
  <1>3. Recorded(q, x) \in Offer
    BY <1>1, RecordedIsOffer DEF TypeInv, RowsKept
  <1>4. CASE q.rows[x] = None
    <2>1. Recorded(q, x).last = runs[q.run].started /\ Recorded(q, x).misses = 0 /\ offers[x] = None
      BY <1>4 DEF Recorded, Seen
    <2>2. QED
      BY <1>1, <1>2, <1>3, <2>1
  <1>5. CASE q.rows[x] # None
    <2> DEFINE t == runs[q.run].started
               loaded == q.rows[x]
    <2>1. loaded \in Offer /\ offers[x] # None /\ offers[x] \in Offer
      BY <1>1, <1>5 DEF TypeInv, TypeOK, RowsKept
    <2>2. /\ Recorded(q, x).last = Column(loaded.last, t, offers[x].last)
          /\ Recorded(q, x).misses = Column(loaded.misses, 0, offers[x].misses)
      BY <1>5 DEF Recorded, Update, Seen
    <2>3. offers[x].last <= clock /\ offers[x].misses <= Cardinality(Since(runs, offers[x].last))
      BY <1>1, <2>1, EarnedSince DEF EarnInv, Dated
    <2>4. CASE loaded.misses # 0
      <3>1. Recorded(q, x).misses = 0
        BY <2>2, <2>4 DEF Column
      <3>2. Recorded(q, x).last \in {t, offers[x].last}
        BY <2>2 DEF Column
      <3>3. QED
        BY <1>1, <1>2, <1>3, <2>1, <2>3, <3>1, <3>2 DEF Offer
    <2>5. CASE loaded.misses = 0
      <3>1. Recorded(q, x).misses = offers[x].misses
        BY <2>2, <2>5 DEF Column
      <3>2. offers[x].misses <= Cardinality(Since(runs, t))
        BY <1>1, <1>5, <2>5 DEF EarnInv, Spared
      <3>3. Recorded(q, x).last = t \/ Recorded(q, x).last = offers[x].last
        BY <2>2 DEF Column
      <3>4. QED
        BY <1>1, <1>3, <2>1, <2>3, <3>1, <3>2, <3>3 DEF Offer
    <2>6. QED
      BY <2>4, <2>5
  <1>6. QED
    BY <1>4, <1>5

(* A believed sweep strikes each offer once, and is one more believed run. *)
LEMMA FinishEarns ==
    ASSUME TypeInv, EarnInv, NEW f \in Fetchers, Finish(f), Verdict(f) = "ok" PROVE EarnInv'
  <1> DEFINE r == fetch[f].run
             t == runs[r].started
  <1>1. /\ r \in RunIds /\ t \in Nat /\ clock \in Nat /\ clock' = clock + 1 /\ requests' = requests
        /\ runs[r].status = "running"
    BY DEF Finish, Running, TypeInv, TypeOK, Driven, Run
  <1>2. /\ runs'[r].status = "ok" /\ runs'[r].finished = clock + 1
        /\ \A s \in RunIds : s # r => runs'[s] = runs[s]
        /\ \A s \in RunIds : runs'[s].started = runs[s].started
    BY <1>1 DEF Finish, TypeInv, TypeOK, Run
  <1>3. \A x \in Listings : offers'[x] = Swept(offers[x], t)
    BY DEF Finish
  <1> HIDE DEF r
  <1>4. ASSUME NEW at \in Nat, at <= clock
        PROVE  Cardinality(Since(runs', at)) = Cardinality(Since(runs, at)) + 1
    <2>1. runs'[r].finished > at
      BY <1>1, <1>2, <1>4
    <2>2. QED
      BY <1>1, <1>2, <2>1, SinceOneMore
  <1>5. \A at : Cardinality(Since(runs, at)) \in Nat
    BY SinceIsFinite
  <1>6. ASSUME NEW x \in Listings, offers[x] # None
        PROVE  /\ offers'[x].last = offers[x].last /\ offers[x].last \in Nat
               /\ offers[x].misses \in Nat /\ offers'[x].misses \in Nat
               /\ offers'[x].misses <= offers[x].misses + 1
    <2>1. offers[x] \in Offer
      BY <1>6 DEF TypeInv, TypeOK
    <2> DEFINE stands == offers[x].misses + 1 < MissLimit
               n == offers[x].misses + 1
    <2>2. offers'[x] = offers[x] \/ offers'[x] = [offers[x] EXCEPT !.misses = n, !.current = stands]
      BY <1>3 DEF Swept
    <2>3. n \in Nat /\ offers[x].misses \in Nat /\ offers[x].last \in Nat /\ n = offers[x].misses + 1
      BY <2>1 DEF Offer
    <2> HIDE DEF stands, n
    <2>4. offers'[x].misses \in {offers[x].misses, n} /\ offers'[x].last = offers[x].last
      BY <2>1, <2>2, Zenon DEF Offer
    <2>5. QED
      BY <2>3, <2>4
  <1>7. ASSUME NEW x \in Listings, offers'[x] # None PROVE offers[x] # None
    BY <1>3, <1>7 DEF Swept
  <1>8. StrikesAreEarned'
    <2>1. ASSUME NEW x \in Listings, offers'[x] # None
          PROVE  offers'[x].misses <= Cardinality(Since(runs', offers'[x].last))
      <3>1. offers[x] # None /\ offers[x].last <= clock
            /\ offers[x].misses <= Cardinality(Since(runs, offers[x].last))
        BY <1>7, <2>1, EarnedSince DEF EarnInv, Dated
      <3>2. QED
        BY <1>4, <1>5, <1>6, <3>1
    <2>2. ASSUME NEW x \in Listings, offers'[x] # None
          PROVE  offers'[x].misses <= Cardinality({s \in RunIds :
                     runs'[s].status = "ok" /\ runs'[s].finished > offers'[x].last})
      BY <2>1, <2>2 DEF Since
    <2>3. QED
      BY <2>2 DEF StrikesAreEarned, BelievedSince, Believed
  <1>9. Spared'
    <2>1. ASSUME NEW q \in requests
          PROVE  /\ runs'[q.run].status # "unborn"
                 /\ \A x \in Listings : q.rows[x] # None /\ q.rows[x].misses = 0 =>
                      offers'[x].misses <= Cardinality(Since(runs', runs'[q.run].started))
      <3>1. q.run \in RunIds /\ runs[q.run].status # "unborn" /\ runs[q.run].started \in Nat
            /\ runs[q.run].started <= clock
        BY DEF TypeInv, TypeOK, Request, Run, EarnInv, Spared, Dated
      <3>2. runs'[q.run].status # "unborn" /\ runs'[q.run].started = runs[q.run].started
        BY <1>2, <3>1
      <3>3. ASSUME NEW x \in Listings, q.rows[x] # None, q.rows[x].misses = 0
            PROVE  offers'[x].misses <= Cardinality(Since(runs', runs[q.run].started))
        <4>1. offers[x] # None /\ offers[x].misses <= Cardinality(Since(runs, runs[q.run].started))
          BY <3>3 DEF TypeInv, RowsKept, EarnInv, Spared
        <4>2. QED
          BY <1>4, <1>5, <1>6, <3>1, <4>1
      <3>4. QED
        BY <3>2, <3>3
    <2>2. QED
      BY <1>1, <2>1 DEF Spared
  <1>10. Dated'
    <2>1. \A s \in RunIds : runs'[s].started <= clock'
      BY <1>1, <1>2 DEF EarnInv, Dated, TypeInv, TypeOK, Run
    <2>2. \A x \in Listings : offers'[x] # None => offers'[x].last <= clock'
      BY <1>1, <1>6, <1>7 DEF EarnInv, Dated
    <2>3. QED
      BY <2>1, <2>2 DEF Dated
  <1>11. QED
    BY <1>8, <1>9, <1>10 DEF EarnInv

LEMMA EarnNext ==
    ASSUME NeverAhead, TypeInv, EarnInv, Next PROVE EarnInv'
  <1>1. clock \in Nat /\ \A r \in RunIds : runs[r].started \in Nat /\ runs[r].started <= clock
    BY DEF TypeInv, TypeOK, Run, EarnInv, Dated
  <1>2. ASSUME NEW f \in Fetchers, Begin(f) PROVE EarnInv'
    <2>1. PICK r \in RunIds, skew \in Skews, stream \in SUBSET Listings :
            /\ runs[r].status = "unborn"
            /\ clock' + skew \in Nat
            /\ runs' = [runs EXCEPT ![r] =
                         [Unborn EXCEPT !.status = "running", !.started = clock' + skew, !.read = stream]]
            /\ fetch' = [fetch EXCEPT ![f] =
                          [Idle EXCEPT !.pc = "reading", !.run = r, !.todo = stream]]
      BY <1>2, BeginRow
    <2>2. /\ runs'[r].started = clock' + skew /\ runs'[r].status = "running"
          /\ \A s \in RunIds : s # r => runs'[s] = runs[s]
      BY <2>1 DEF TypeInv, TypeOK, Unborn
    <2>3. clock' = clock + 1 /\ UNCHANGED <<offers, requests>> /\ clock' + skew <= clock'
      BY <1>1, <1>2, SyncAssumption DEF Begin, NeverAhead
    <2>4. \A s \in RunIds : runs'[s].started <= clock'
      BY <1>1, <2>2, <2>3
    <2>5. QED
      BY <2>1, <2>2, <2>3, <2>4, EarnKept
  <1>3. ASSUME UNCHANGED <<clock, offers>>,
               \A r \in RunIds : /\ runs'[r].status = "ok" <=> runs[r].status = "ok"
                                 /\ runs[r].status = "ok" => runs'[r].finished = runs[r].finished
                                 /\ runs[r].status # "unborn" => runs'[r].status # "unborn"
                                 /\ runs'[r].started = runs[r].started,
               \A p \in requests' : \/ \E q \in requests : p.run = q.run /\ p.rows = q.rows
                                    \/ p.run \in RunIds /\ Running(p.run) /\ p.rows = offers
        PROVE  EarnInv'
    BY <1>1, <1>3, EarnKept DEF Running
  <1>4. ASSUME NEW f \in Fetchers, NEW chunk, NEW resolved, Ask(f, chunk, resolved),
               fetch[f].run \in RunIds
        PROVE  EarnInv'
    <2> DEFINE new == [by |-> f, run |-> fetch[f].run, chunk |-> chunk, resolved |-> resolved,
                       rows |-> offers, items |-> runs[fetch[f].run].items]
    <2>1. requests' = requests \cup {new} /\ UNCHANGED <<clock, offers, runs>> /\ Running(fetch[f].run)
      BY <1>4 DEF Ask
    <2>2. new.run = fetch[f].run /\ new.rows = offers
      OBVIOUS
    <2> HIDE DEF new
    <2>3. QED
      BY <1>3, <1>4, <2>1, <2>2
  <1>5. ASSUME NEW f \in Fetchers, OfferChunk(f) \/ OfferResolved(f) PROVE EarnInv'
    <2>1. fetch[f].run \in RunIds
      BY <1>5 DEF OfferChunk, OfferResolved, TypeInv, Driven
    <2>2. QED
      BY <1>4, <1>5, <2>1 DEF OfferChunk, OfferResolved
  <1>6. ASSUME UNCHANGED <<clock, offers, runs>>,
               requests' \subseteq requests \cup {[q EXCEPT !.by = None] : q \in requests}
        PROVE  EarnInv'
    <2>1. \A q \in requests : [q EXCEPT !.by = None].run = q.run /\ [q EXCEPT !.by = None].rows = q.rows
      BY DEF TypeInv, TypeOK, Request
    <2>2. QED
      BY <1>3, <1>6, <2>1
  <1>7. ASSUME NEW f \in Fetchers, Refused(f) \/ GiveUp(f) \/ EndOfStream(f) \/ PluginFails(f)
                                   \/ FinishFails(f) \/ Crash(f)
        PROVE  EarnInv'
    <2>1. /\ UNCHANGED <<clock, offers, runs>>
          /\ requests' \subseteq requests \cup {[q EXCEPT !.by = None] : q \in requests}
      BY <1>7 DEF Refused, GiveUp, EndOfStream, PluginFails, FinishFails, Crash
    <2>2. QED
      BY <1>6, <2>1
  <1>8. ASSUME NEW q \in requests, Commit(q) PROVE EarnInv'
    <2>1. PICK deferred \in SUBSET q.chunk, placed \in SUBSET q.chunk, parked \in SUBSET q.chunk :
            ~Conflicts(q, placed) /\ Answer(q, deferred, placed, parked)
      BY <1>8 DEF Commit
    <2>2. \A x \in Listings : offers'[x] = IF x \in placed THEN Recorded(q, x) ELSE offers[x]
      BY <2>1 DEF Answer
    <2>3. \A x \in placed : ~(q.rows[x] = None /\ offers[x] # None)
      BY <2>1 DEF Conflicts
    <2>4. \A r \in RunIds : /\ runs'[r].status = runs[r].status /\ runs'[r].started = runs[r].started
                            /\ runs'[r].finished = runs[r].finished
      BY <2>1 DEF Answer, TypeInv, TypeOK, Run
    <2>5. requests' \subseteq requests /\ clock' = clock
      BY <2>1 DEF Answer
    <2>6. ASSUME NEW x \in Listings
          PROVE  \/ offers'[x] = offers[x]
                 \/ /\ offers'[x] \in Offer
                    /\ offers'[x].last <= clock
                    /\ offers'[x].misses <= Cardinality(Since(runs, offers'[x].last))
                    /\ offers[x] # None => offers'[x].misses <= offers[x].misses
      <3>1. CASE x \in placed
        <4>1. offers'[x] = Recorded(q, x)
          BY <2>2, <3>1
        <4>2. x \in q.chunk /\ ~(q.rows[x] = None /\ offers[x] # None)
          BY <2>3, <3>1
        <4>3. QED
          BY <4>1, <4>2, RecordedIsEarned
      <3>2. CASE x \notin placed
        BY <2>2, <3>2
      <3>3. QED
        BY <3>1, <3>2
    <2>7. QED
      BY <1>1, <2>4, <2>5, <2>6, EarnKept
  <1>9. ASSUME NEW q \in requests, Clash(q) PROVE EarnInv'
    BY <1>6, <1>9 DEF Clash
  <1>10. ASSUME NEW y \in Listings, Rule(y) PROVE EarnInv'
    <2>1. \A r \in RunIds : /\ runs'[r].status = runs[r].status /\ runs'[r].started = runs[r].started
                            /\ runs'[r].finished = runs[r].finished
      BY <1>10 DEF Rule, TypeInv, TypeOK, Run
    <2>2. clock' = clock /\ requests' = requests
      BY <1>10 DEF Rule
    <2>3. Seen(clock) \in Offer /\ Seen(clock).last = clock /\ Seen(clock).misses = 0
      BY <1>1 DEF Seen, Offer
    <2>4. \A x \in Listings : offers'[x] = offers[x] \/ offers'[x] = Seen(clock)
      BY <1>10 DEF Rule, TypeInv, TypeOK
    <2>5. \A at : Cardinality(Since(runs, at)) \in Nat
      BY SinceIsFinite
    <2>6. ASSUME NEW x \in Listings
          PROVE  \/ offers'[x] = offers[x]
                 \/ /\ offers'[x] \in Offer
                    /\ offers'[x].last <= clock
                    /\ offers'[x].misses <= Cardinality(Since(runs, offers'[x].last))
                    /\ offers[x] # None => offers'[x].misses <= offers[x].misses
      <3>1. offers[x] # None => offers[x].misses \in Nat
        BY DEF TypeInv, TypeOK, Offer
      <3>2. CASE offers'[x] = Seen(clock)
        BY <1>1, <2>3, <2>5, <3>1, <3>2
      <3>3. QED
        BY <2>4, <3>2
    <2>7. QED
      BY <1>1, <2>1, <2>2, <2>6, EarnKept
  <1>11. ASSUME NEW r \in RunIds, CloseAbandoned(r) PROVE EarnInv'
    <2>1. \A s \in RunIds : /\ runs'[s].started = runs[s].started
                            /\ runs'[s].status = "ok" <=> runs[s].status = "ok"
                            /\ runs[s].status = "ok" => runs'[s].finished = runs[s].finished
                            /\ runs[s].status # "unborn" => runs'[s].status # "unborn"
      BY <1>11 DEF CloseAbandoned, Running, TypeInv, TypeOK, Run
    <2>2. UNCHANGED <<clock, offers, requests>>
      BY <1>11 DEF CloseAbandoned
    <2>3. QED
      BY <1>3, <2>1, <2>2
  <1>12. ASSUME NEW f \in Fetchers, Finish(f) PROVE EarnInv'
    <2>1. CASE Verdict(f) = "ok"
      BY <1>12, <2>1, FinishEarns
    <2>2. CASE Verdict(f) # "ok"
      <3>1. /\ clock' = clock + 1 /\ UNCHANGED <<offers, requests>>
            /\ \A s \in RunIds : /\ runs'[s].started = runs[s].started
                                 /\ runs'[s].status = "ok" <=> runs[s].status = "ok"
                                 /\ runs[s].status = "ok" => runs'[s].finished = runs[s].finished
                                 /\ runs[s].status # "unborn" => runs'[s].status # "unborn"
        <4>1. Verdict(f) \in {"failed", "aborted_suspicious"}
          BY <1>12, <2>2 DEF Finish, Verdict, TypeInv, TypeOK, Fetch
        <4>2. runs[fetch[f].run].status = "running" /\ fetch[f].run \in RunIds
          BY <1>12 DEF Finish, Running, TypeInv, TypeOK, Driven
        <4>3. QED
          BY <1>12, <2>2, <4>1, <4>2 DEF Finish, TypeInv, TypeOK, Run
      <3>2. \A r \in RunIds : runs'[r].started <= clock'
        BY <1>1, <3>1
      <3>3. QED
        BY <3>1, <3>2, EarnKept
    <2>3. QED
      BY <2>1, <2>2
  <1>13. QED
    BY <1>2, <1>5, <1>7, <1>8, <1>9, <1>10, <1>11, <1>12 DEF Next

LEMMA Earning ==
    ASSUME NeverAhead PROVE Spec => [](TypeInv /\ EarnInv)
  <1>1. Init => TypeInv /\ Awaited /\ EarnInv
    BY TypeInit, AwaitedInit, EarnInit
  <1>2. TypeInv /\ Awaited /\ EarnInv /\ [Next]_vars => (TypeInv /\ Awaited /\ EarnInv)'
    <2>1. CASE Next
      BY <2>1, TypeNext, AwaitedNext, EarnNext
    <2>2. CASE UNCHANGED vars
      BY <2>2 DEF vars, TypeInv, TypeOK, RowsKept, Driven, Awaited, EarnInv, StrikesAreEarned,
                  BelievedSince, Believed, Spared, Since, Dated
    <2>3. QED
      BY <2>1, <2>2
  <1>3. QED
    BY <1>1, <1>2, PTL DEF Spec

(* However many fetchers overlap, and whatever outlives them: an offer     *)
(* never has more strikes than there were believed runs that finished      *)
(* after the run that last saw it had begun, as long as no fetcher dates   *)
(* its runs ahead of the API's clock (StrikesAreEarned; offers.py:96-99,   *)
(* sweep_source).                                                          *)
THEOREM StrikesEarned ==
    ASSUME NeverAhead PROVE Spec => []StrikesAreEarned
  <1>1. EarnInv => StrikesAreEarned
    BY DEF EarnInv
  <1>2. QED
    BY <1>1, Earning, PTL

-----------------------------------------------------------------------------
(***************************************************************************)
(* The handshake: what was offered, handed back and counted, and what a    *)
(* run that is believed may cost.  These theorems need no lock: any number *)
(* of fetchers, and of requests that outlive their client.                 *)
(***************************************************************************)
(* A fetcher nothing went wrong for has read its stream up to what it      *)
(* still owes; what it is not waiting for an answer about is in the count. *)
Trusted(f) == f \in Active /\ fetch[f].verdict = "ok"
Owed(f) == fetch[f].todo \cup fetch[f].pending
Taken(f) == runs[fetch[f].run].read \ Owed(f)

Accounted(f) ==
    /\ Owed(f) \subseteq runs[fetch[f].run].read
    /\ fetch[f].pc # "resolving" => fetch[f].pending = {}
    /\ fetch[f].pc = "resolving" => fetch[f].todo \cap fetch[f].pending = {}
    /\ fetch[f].pc = "ending" => Owed(f) = {}
    /\ fetch[f].pc # "waiting" => runs[fetch[f].run].items = Cardinality(Taken(f))

(* A chunk the client waits for was taken from its stream, and is not in   *)
(* the count its handler started from.                                     *)
InFlight(q) ==
    /\ q.chunk \subseteq Taken(q.by)
    /\ q.items = Cardinality(Taken(q.by) \ q.chunk)

Told == \A f \in Fetchers : fetch[f].verdict = "failed" => fetch[f].pc = "ending"
OwnRun == \A f, g \in Active : fetch[f].run = fetch[g].run => f = g
Opened ==
    /\ \A f \in Active : runs[fetch[f].run].status # "unborn"
    /\ \A q \in requests : runs[q.run].status # "unborn"
OnlyMine == \A f \in Fetchers : Trusted(f) => \A q \in requests : q.run = fetch[f].run => q.by = f
AllAccounted == \A f \in Fetchers : Trusted(f) => Accounted(f)
AllInFlight == \A q \in requests : q.by # None => InFlight(q)

(* A run that was judged is over: nobody counts anything for it any more.  *)
Judged(r) == runs[r].status \in {"ok", "aborted_suspicious"}
Over == \A r \in RunIds : Judged(r) => (\A q \in requests : q.run # r) /\ \A f \in Active : fetch[f].run # r

HandInv == /\ Told /\ OwnRun /\ Opened /\ OnlyMine /\ AllAccounted /\ AllInFlight /\ Over
           /\ EveryListingCountedOnce

LEMMA HandInit == Init => HandInv
  BY DEF Init, HandInv, Told, OwnRun, Opened, OnlyMine, AllAccounted, AllInFlight, Over, Judged,
         EveryListingCountedOnce, Active, Trusted, Idle, Unborn

-----------------------------------------------------------------------------
(* A stream is finite.                                                     *)
LEMMA CountParts ==
    ASSUME TypeInv, NEW r \in RunIds, NEW S \in SUBSET runs[r].read, NEW T \in SUBSET S
    PROVE  Cardinality(S) = Cardinality(S \ T) + Cardinality(T)
  <1> DEFINE rest == Cardinality(S \ T)
             common == Cardinality((S \ T) \cap T)
             union == Cardinality((S \ T) \cup T)
             part == Cardinality(T)
  <1>1. IsFiniteSet(T) /\ IsFiniteSet(S \ T)
    <2>1. runs[r].read \subseteq Listings
      BY DEF TypeInv, TypeOK, Run
    <2>2. QED
      BY <2>1, FS_Subset, SyncAssumption
  <1>2. S = (S \ T) \cup T /\ (S \ T) \cap T = {}
    OBVIOUS
  <1>3. union = rest + part - common /\ rest \in Nat /\ part \in Nat /\ common = 0
    BY <1>1, <1>2, FS_Union, FS_CardinalityType, FS_EmptySet
  <1>4. Cardinality(S) = union
    BY <1>2, Zenon
  <1> HIDE DEF rest, common, union, part
  <1>5. Cardinality(S) = rest + part
    BY <1>3, <1>4
  <1>6. QED
    BY <1>5 DEF rest, part

(* Requests go, or live on without their client.                           *)
OnlyLoses(f) ==
    \A q \in requests' : /\ q.by # f
                         /\ q \in requests \/ \E p \in requests :
                               p.by = f /\ q.by = None /\ q.run = p.run

(* A fetcher stops: it is gone, or has failed and says so.                 *)
LEMMA StopKeeps ==
    ASSUME TypeInv, Awaited, HandInv, NEW f \in Fetchers, f \in Active, UNCHANGED runs, OnlyLoses(f),
           fetch' \in [Fetchers -> Fetch], \A g \in Fetchers : g # f => fetch'[g] = fetch[g],
           \/ fetch'[f] = Idle
           \/ fetch'[f].pc = "ending" /\ fetch'[f].verdict = "failed" /\ fetch'[f].run = fetch[f].run
    PROVE  HandInv'
  <1>1. fetch'[f].pc # "idle" => fetch'[f].run = fetch[f].run
    BY DEF Idle
  <1>2. ~Trusted(f)' /\ (fetch'[f].verdict = "failed" => fetch'[f].pc = "ending")
    BY DEF Trusted, Active, Idle
  <1>3. Active' \subseteq Active /\ \A g \in Active' : fetch'[g].run = fetch[g].run
    BY <1>1 DEF Active
  <1>4. \A q \in requests' : \E p \in requests : q.run = p.run
    BY DEF OnlyLoses
  <1>5. Told'
    BY <1>2 DEF HandInv, Told
  <1>6. OwnRun' /\ Opened' /\ Over' /\ EveryListingCountedOnce'
    BY <1>3, <1>4 DEF HandInv, OwnRun, Opened, Over, Judged, EveryListingCountedOnce
  <1>7. ASSUME NEW g \in Fetchers, Trusted(g)'
        PROVE  g # f /\ Trusted(g) /\ fetch'[g] = fetch[g]
    BY <1>2, <1>7 DEF Trusted, Active
  <1>8. OnlyMine'
    <2>1. ASSUME NEW g \in Fetchers, Trusted(g)', NEW q \in requests', q.run = fetch'[g].run PROVE q.by = g
      <3>1. g # f /\ Trusted(g) /\ q.run = fetch[g].run
        BY <1>7, <2>1
      <3>2. \A p \in requests : p.run = q.run => p.by = g
        BY <3>1 DEF HandInv, OnlyMine
      <3>3. QED
        BY <3>1, <3>2 DEF OnlyLoses
    <2>2. QED
      BY <2>1 DEF OnlyMine
  <1>9. AllAccounted'
    BY <1>7 DEF HandInv, AllAccounted, Accounted, Owed, Taken
  <1>10. AllInFlight'
    <2>1. ASSUME NEW q \in requests', q.by # None PROVE InFlight(q)'
      <3>1. q \in requests /\ q.by # f /\ q.by \in Fetchers
        BY <2>1 DEF OnlyLoses, Awaited
      <3>2. InFlight(q) /\ fetch'[q.by] = fetch[q.by]
        BY <2>1, <3>1 DEF HandInv, AllInFlight
      <3>3. QED
        BY <3>2 DEF InFlight, Taken, Owed
    <2>2. QED
      BY <2>1 DEF AllInFlight
  <1>11. QED
    BY <1>5, <1>6, <1>8, <1>9, <1>10 DEF HandInv

LEMMA FailKeeps ==
    ASSUME TypeInv, Awaited, HandInv, NEW f \in Fetchers, f \in Active, Fail(f), UNCHANGED runs, OnlyLoses(f)
    PROVE  HandInv'
  <1>1. fetch' \in [Fetchers -> Fetch]
    BY FailType DEF Active
  <1>2. /\ fetch'[f].pc = "ending" /\ fetch'[f].verdict = "failed" /\ fetch'[f].run = fetch[f].run
        /\ \A g \in Fetchers : g # f => fetch'[g] = fetch[g]
    BY DEF Fail, TypeInv, TypeOK, Fetch
  <1>3. QED
    BY <1>1, <1>2, StopKeeps

(* The rows of the runs change in what the handshake does not look at.     *)
LEMMA RunsAlikeKeeps ==
    ASSUME TypeInv, Awaited, HandInv, UNCHANGED <<requests, fetch>>,
           \A r \in RunIds : /\ runs'[r].read = runs[r].read /\ runs'[r].items = runs[r].items
                             /\ runs'[r].status = runs[r].status \/ (Running(r) /\ runs'[r].status = "crashed")
    PROVE  HandInv'
  <1>1. \A f \in Active : fetch[f].run \in RunIds
    BY DEF Active, TypeInv, Driven
  <1>2. \A q \in requests : q.run \in RunIds
    BY DEF TypeInv, TypeOK, Request
  <1>3. Active' = Active
    BY DEF Active
  <1>4. Told' /\ OwnRun' /\ OnlyMine' /\ Opened'
    BY <1>1, <1>2, <1>3 DEF HandInv, Told, OwnRun, OnlyMine, Trusted, Opened, Running
  <1>5. Over' /\ EveryListingCountedOnce'
    BY <1>1, <1>2, <1>3 DEF HandInv, Over, Judged, EveryListingCountedOnce
  <1>6. \A f \in Fetchers : f \in Active => Taken(f)' = Taken(f) /\ Owed(f)' = Owed(f)
    BY <1>1 DEF Taken, Owed
  <1>7. AllAccounted'
    BY <1>1, <1>3, <1>6 DEF HandInv, AllAccounted, Accounted, Trusted
  <1>8. AllInFlight'
    <2>1. ASSUME NEW q \in requests, q.by # None PROVE InFlight(q)'
      <3>1. q.by \in Fetchers /\ q.by \in Active
        BY <2>1 DEF Awaited, Active
      <3>2. InFlight(q)
        BY <2>1 DEF HandInv, AllInFlight
      <3>3. PICK f \in Active : f = q.by /\ Taken(f)' = Taken(f)
        BY <1>6, <3>1 DEF Active
      <3>4. QED
        BY <3>2, <3>3 DEF InFlight, Taken, Owed
    <2>2. QED
      BY <2>1 DEF AllInFlight
  <1>9. QED
    BY <1>4, <1>5, <1>7, <1>8 DEF HandInv

(* Whoever waits for an answer is trusted.                                 *)
LEMMA WaitingTrusted ==
    ASSUME TypeInv, Awaited, HandInv, NEW q \in requests, q.by # None
    PROVE  q.by \in Fetchers /\ Trusted(q.by) /\ q.run = fetch[q.by].run /\ q.run \in RunIds
  <1>1. q.by \in Fetchers /\ fetch[q.by].pc = "waiting" /\ q.run = fetch[q.by].run
    BY DEF Awaited
  <1>2. fetch[q.by].verdict = "ok" /\ q.run \in RunIds
    BY <1>1 DEF TypeInv, TypeOK, Fetch, Request, HandInv, Told
  <1>3. QED
    BY <1>1, <1>2 DEF Trusted, Active

(* One fetcher goes on, with one run; the others are where they were.      *)
LEMMA OthersKeep ==
    ASSUME TypeInv, Awaited, HandInv, NEW f, NEW r \in RunIds,
           \A g \in Fetchers : g # f => fetch'[g] = fetch[g],
           \A s \in RunIds : s # r => runs'[s] = runs[s],
           \A g \in Fetchers : g # f /\ Trusted(g) => fetch[g].run # r
    PROVE  /\ \A g \in Fetchers : g # f /\ Trusted(g)' => Accounted(g)'
           /\ \A q \in requests : q.by # None /\ q.by # f => InFlight(q)'
  <1>1. ASSUME NEW g \in Fetchers, g # f, Trusted(g)
        PROVE  Taken(g)' = Taken(g) /\ Owed(g)' = Owed(g) /\ runs'[fetch[g].run] = runs[fetch[g].run]
               /\ fetch'[g] = fetch[g]
    <2>1. fetch[g].run \in RunIds
      BY <1>1 DEF Trusted, Active, TypeInv, Driven
    <2>2. QED
      BY <1>1, <2>1 DEF Taken, Owed
  <1>2. ASSUME NEW g \in Fetchers, g # f, Trusted(g)' PROVE Accounted(g)'
    <2>1. Trusted(g)
      BY <1>2 DEF Trusted, Active
    <2>2. QED
      BY <1>1, <1>2, <2>1 DEF Accounted, HandInv, AllAccounted
  <1>3. ASSUME NEW q \in requests, q.by # None, q.by # f PROVE InFlight(q)'
    <2>1. PICK g \in Fetchers : g = q.by /\ Trusted(g)
      BY <1>3, WaitingTrusted
    <2>2. Taken(g)' = Taken(g)
      BY <1>1, <1>3, <2>1
    <2>3. QED
      BY <1>3, <2>1, <2>2 DEF InFlight, Taken, Owed, HandInv, AllInFlight
  <1>4. QED
    BY <1>2, <1>3

LEMMA BeginHand ==
    ASSUME TypeInv, Awaited, HandInv, NEW f \in Fetchers, Begin(f) PROVE HandInv'
  <1>1. PICK r \in RunIds, skew \in Skews, stream \in SUBSET Listings :
          /\ runs[r].status = "unborn"
          /\ clock' + skew \in Nat
          /\ runs' = [runs EXCEPT ![r] =
                       [Unborn EXCEPT !.status = "running", !.started = clock' + skew, !.read = stream]]
          /\ fetch' = [fetch EXCEPT ![f] =
                        [Idle EXCEPT !.pc = "reading", !.run = r, !.todo = stream]]
    BY BeginRow
  <1>2. /\ fetch'[f].pc = "reading" /\ fetch'[f].run = r /\ fetch'[f].todo = stream
        /\ fetch'[f].pending = {} /\ fetch'[f].verdict = "ok"
        /\ \A g \in Fetchers : g # f => fetch'[g] = fetch[g]
    BY <1>1 DEF TypeInv, TypeOK, Idle
  <1>3. /\ runs'[r].status = "running" /\ runs'[r].read = stream /\ runs'[r].items = 0
        /\ \A s \in RunIds : s # r => runs'[s] = runs[s]
    BY <1>1 DEF TypeInv, TypeOK, Unborn
  <1>4. f \notin Active /\ Active' = Active \cup {f} /\ requests' = requests
    BY <1>2 DEF Begin, Active
  <1>5. (\A g \in Active : fetch[g].run # r /\ fetch[g].run \in RunIds)
        /\ \A q \in requests : q.run # r /\ q.run \in RunIds /\ q.by # f
    <2>1. \A g \in Active : fetch[g].run # r /\ fetch[g].run \in RunIds
      BY <1>1 DEF HandInv, Opened, TypeInv, Driven, Active
    <2>2. \A q \in requests : q.run # r /\ q.run \in RunIds
      BY <1>1 DEF HandInv, Opened, TypeInv, TypeOK, Request
    <2>3. \A q \in requests : q.by # f
      BY SyncAssumption DEF Awaited, Begin
    <2>4. QED
      BY <2>1, <2>2, <2>3
  <1>6. /\ \A g \in Fetchers : g # f /\ Trusted(g)' => Accounted(g)'
        /\ \A q \in requests : q.by # None => InFlight(q)'
    <2>1. \A g \in Fetchers : g # f /\ Trusted(g) => fetch[g].run # r
      BY <1>5 DEF Trusted
    <2>2. /\ \A g \in Fetchers : g # f => fetch'[g] = fetch[g]
          /\ \A s \in RunIds : s # r => runs'[s] = runs[s]
      BY <1>2, <1>3
    <2>3. /\ \A g \in Fetchers : g # f /\ Trusted(g)' => Accounted(g)'
          /\ \A q \in requests : q.by # None /\ q.by # f => InFlight(q)'
      BY <2>1, <2>2, OthersKeep
    <2>4. QED
      BY <2>3, <1>5
  <1>7. Accounted(f)'
    BY <1>2, <1>3, FS_EmptySet DEF Accounted, Owed, Taken
  <1>8. \A g \in Active : fetch'[g] = fetch[g] /\ g # f
    BY <1>2, <1>4 DEF Active
  <1>9. Told' /\ OwnRun' /\ OnlyMine'
    <2>1. Told'
      BY <1>2 DEF HandInv, Told
    <2>2. OwnRun'
      BY <1>2, <1>4, <1>5, <1>8 DEF HandInv, OwnRun
    <2>3. OnlyMine'
      BY <1>2, <1>4, <1>5, <1>8 DEF HandInv, OnlyMine, Trusted
    <2>4. QED
      BY <2>1, <2>2, <2>3
  <1>10. Opened' /\ Over' /\ EveryListingCountedOnce'
    <2>1. Opened'
      BY <1>2, <1>3, <1>4, <1>5, <1>8 DEF HandInv, Opened
    <2>2. Over' /\ EveryListingCountedOnce'
      <3>1. \A s \in RunIds : Judged(s)' => s # r /\ runs'[s] = runs[s] /\ Judged(s)
        BY <1>3 DEF Judged
      <3>2. QED
        BY <1>2, <1>4, <1>8, <3>1 DEF HandInv, Over, EveryListingCountedOnce, Judged
    <2>3. QED
      BY <2>1, <2>2
  <1>11. QED
    BY <1>4, <1>6, <1>7, <1>9, <1>10 DEF HandInv, AllAccounted, AllInFlight

LEMMA AskHand ==
    ASSUME TypeInv, Awaited, HandInv, NEW f \in Fetchers, fetch[f].pc \in {"reading", "resolving"},
           NEW chunk, NEW resolved, Ask(f, chunk, resolved),
           \/ fetch[f].pc = "reading" /\ chunk \subseteq fetch[f].todo
           \/ fetch[f].pc = "resolving" /\ chunk = fetch[f].pending
    PROVE  HandInv'
  <1> DEFINE r == fetch[f].run
             new == [by |-> f, run |-> r, chunk |-> chunk, resolved |-> resolved,
                     rows |-> offers, items |-> runs[r].items]
  <1>1. requests' = requests \cup {new} /\ UNCHANGED runs /\ Running(r)
    BY DEF Ask
  <1>2. /\ fetch'[f].pc = "waiting" /\ fetch'[f].todo = fetch[f].todo \ chunk /\ fetch'[f].pending = {}
        /\ fetch'[f].run = fetch[f].run /\ fetch'[f].verdict = fetch[f].verdict
        /\ \A g \in Fetchers : g # f => fetch'[g] = fetch[g]
    BY DEF Ask, TypeInv, TypeOK, Fetch
  <1>3. f \in Active /\ Active' = Active /\ r \in RunIds
    BY <1>2 DEF Active, TypeInv, Driven
  <1>4. Trusted(f) /\ Accounted(f)
    BY <1>3 DEF Trusted, HandInv, AllAccounted, Told, TypeInv, TypeOK, Fetch
  <1>5. \A q \in requests : q.by # f
    BY SyncAssumption DEF Awaited
  <1>6. PICK q0 : /\ q0.by = f /\ q0.run = r /\ q0.chunk = chunk /\ q0.items = runs[r].items
                  /\ requests' = requests \cup {q0}
    BY <1>1
  <1> HIDE DEF new
  <1>7. /\ \A g \in Fetchers : g # f /\ Trusted(g)' => Accounted(g)'
        /\ \A q \in requests : q.by # None => InFlight(q)'
    BY <1>1, <1>2, <1>3, <1>5, OthersKeep DEF HandInv, OwnRun, Trusted
  <1>8. Taken(f)' = Taken(f) \cup chunk /\ Owed(f)' = Owed(f) \ chunk /\ chunk \cap Taken(f) = {}
        /\ chunk \subseteq Owed(f)
    BY <1>1, <1>2, <1>4 DEF Taken, Owed, Accounted
  <1>9. Accounted(f)'
    BY <1>1, <1>2, <1>4, <1>8 DEF Accounted, Owed
  <1>10. InFlight(q0)'
    <2>1. Taken(f)' \ chunk = Taken(f) /\ chunk \subseteq Taken(f)'
      BY <1>8
    <2>2. runs[r].items = Cardinality(Taken(f))
      BY <1>4 DEF Accounted
    <2>3. QED
      BY <1>6, <2>1, <2>2 DEF InFlight, Taken, Owed
  <1>11. Told' /\ OwnRun' /\ OnlyMine'
    <2>1. Told'
      BY <1>2, <1>4 DEF HandInv, Told, Trusted
    <2>2. OwnRun'
      <3>1. \A g \in Active : fetch'[g].run = fetch[g].run
        BY <1>2 DEF Active
      <3>2. QED
        BY <1>3, <3>1 DEF HandInv, OwnRun
    <2>3. ASSUME NEW g \in Fetchers, Trusted(g)', NEW q \in requests', q.run = fetch'[g].run PROVE q.by = g
      <3>1. Trusted(g) /\ fetch'[g].run = fetch[g].run /\ g \in Active
        BY <1>2, <1>3, <2>3 DEF Trusted
      <3>2. CASE q \in requests
        BY <2>3, <3>1, <3>2 DEF HandInv, OnlyMine
      <3>3. CASE q = q0
        BY <1>3, <1>6, <2>3, <3>1, <3>3 DEF HandInv, OwnRun
      <3>4. QED
        BY <1>6, <3>2, <3>3
    <2>4. QED
      BY <2>1, <2>2, <2>3 DEF OnlyMine
  <1>12. Opened' /\ Over' /\ EveryListingCountedOnce'
    <2>1. \A g \in Active : fetch'[g].run = fetch[g].run
      BY <1>2 DEF Active
    <2>2. \A q \in requests' : q \in requests \/ q.run = r
      BY <1>6
    <2>3. QED
      BY <1>1, <1>3, <2>1, <2>2 DEF HandInv, Opened, Over, Judged, EveryListingCountedOnce, Running
  <1>13. QED
    BY <1>6, <1>7, <1>9, <1>10, <1>11, <1>12 DEF HandInv, AllAccounted, AllInFlight

LEMMA EndHand ==
    ASSUME TypeInv, Awaited, HandInv, NEW f \in Fetchers, EndOfStream(f) PROVE HandInv'
  <1>1. /\ fetch'[f].pc = "ending" /\ fetch'[f].todo = {} /\ fetch'[f].pending = fetch[f].pending
        /\ fetch'[f].run = fetch[f].run /\ fetch'[f].verdict = fetch[f].verdict
        /\ \A g \in Fetchers : g # f => fetch'[g] = fetch[g]
    BY DEF EndOfStream, TypeInv, TypeOK, Fetch
  <1>2. f \in Active /\ Active' = Active /\ fetch[f].run \in RunIds /\ UNCHANGED <<runs, requests>>
        /\ \A g \in Active : fetch'[g].run = fetch[g].run
    BY <1>1 DEF EndOfStream, Active, TypeInv, Driven
  <1>3. Trusted(f) /\ Accounted(f)
    BY <1>2 DEF EndOfStream, Trusted, HandInv, AllAccounted, Told, TypeInv, TypeOK, Fetch
  <1>4. \A q \in requests : q.by # f
    BY SyncAssumption DEF Awaited, EndOfStream
  <1>5. /\ \A g \in Fetchers : g # f /\ Trusted(g)' => Accounted(g)'
        /\ \A q \in requests : q.by # None => InFlight(q)'
    BY <1>1, <1>2, <1>4, OthersKeep DEF HandInv, OwnRun, Trusted
  <1>6. Accounted(f)'
    BY <1>1, <1>2, <1>3 DEF EndOfStream, Accounted, Owed, Taken
  <1>7. Told' /\ OwnRun' /\ OnlyMine'
    <2>1. Told' /\ OwnRun'
      BY <1>1, <1>2 DEF HandInv, Told, OwnRun
    <2>2. ASSUME NEW g \in Fetchers, Trusted(g)' PROVE Trusted(g) /\ fetch'[g].run = fetch[g].run
      BY <1>1, <1>2, <2>2 DEF Trusted
    <2>3. QED
      BY <1>2, <2>1, <2>2 DEF HandInv, OnlyMine
  <1>8. Opened' /\ Over' /\ EveryListingCountedOnce'
    BY <1>2 DEF HandInv, Opened, Over, Judged, EveryListingCountedOnce
  <1>9. QED
    BY <1>2, <1>5, <1>6, <1>7, <1>8 DEF HandInv, AllAccounted, AllInFlight

(* Judged is what was counted, and nobody counts any more.                 *)
LEMMA FinishHand ==
    ASSUME TypeInv, Awaited, HandInv, NEW f \in Fetchers, Finish(f) PROVE HandInv'
  <1> DEFINE r == fetch[f].run
  <1>1. /\ fetch[f].pc = "ending" /\ Running(r) /\ requests' = requests
        /\ runs' = [runs EXCEPT ![r] = [runs[r] EXCEPT !.status = Verdict(f), !.finished = clock',
                                                       !.errors = SaysWhy(Verdict(f))]]
        /\ fetch' = [fetch EXCEPT ![f] = Idle]
    BY DEF Finish
  <1>2. f \in Active /\ r \in RunIds
    BY <1>1 DEF Active, TypeInv, Driven
  <1>3. /\ runs'[r].status = Verdict(f) /\ runs'[r].read = runs[r].read /\ runs'[r].items = runs[r].items
        /\ \A s \in RunIds : s # r => runs'[s] = runs[s]
    BY <1>1, <1>2 DEF TypeInv, TypeOK, Run
  <1>4. /\ fetch'[f].pc = "idle" /\ fetch'[f].verdict = "ok"
        /\ \A g \in Fetchers : g # f => fetch'[g] = fetch[g]
    BY <1>1 DEF TypeInv, TypeOK, Idle
  <1>5. Active' = Active \ {f} /\ \A g \in Active' : g # f /\ fetch'[g] = fetch[g] /\ fetch[g].run # r
                                                    /\ fetch[g].run \in RunIds
    BY <1>2, <1>4 DEF Active, HandInv, OwnRun, TypeInv, Driven
  <1>6. \A q \in requests : q.by # f
    BY <1>1, SyncAssumption DEF Awaited
  <1>7. /\ \A g \in Fetchers : g # f /\ Trusted(g)' => Accounted(g)'
        /\ \A q \in requests : q.by # None => InFlight(q)'
    <2>1. \A g \in Fetchers : g # f /\ Trusted(g) => fetch[g].run # r
      BY <1>2 DEF HandInv, OwnRun, Trusted
    <2>2. /\ \A g \in Fetchers : g # f /\ Trusted(g)' => Accounted(g)'
          /\ \A q \in requests : q.by # None /\ q.by # f => InFlight(q)'
      BY <1>2, <1>3, <1>4, <2>1, OthersKeep
    <2>3. QED
      BY <1>6, <2>2
  <1>8. ~Trusted(f)' /\ Told'
    BY <1>4 DEF Trusted, Active, HandInv, Told
  <1>9. Verdict(f) \in {"ok", "failed", "aborted_suspicious"}
        /\ (Verdict(f) # "failed" => Trusted(f))
    BY <1>2 DEF Verdict, TypeInv, TypeOK, Fetch, Trusted
  <1>10. OwnRun' /\ OnlyMine'
    <2>1. OwnRun'
      BY <1>5 DEF HandInv, OwnRun
    <2>2. ASSUME NEW g \in Fetchers, Trusted(g)' PROVE Trusted(g) /\ fetch'[g].run = fetch[g].run
      BY <1>5, <2>2 DEF Trusted
    <2>3. QED
      BY <1>1, <2>1, <2>2 DEF HandInv, OnlyMine
  <1>11. Opened'
    <2>1. \A s \in RunIds : runs'[s].status = "unborn" => runs[s].status = "unborn"
      BY <1>3, <1>9
    <2>2. \A q \in requests : q.run \in RunIds
      BY DEF TypeInv, TypeOK, Request
    <2>3. QED
      BY <1>1, <1>5, <2>1, <2>2 DEF HandInv, Opened
  <1>12. ASSUME NEW s \in RunIds, Judged(s)'
         PROVE  /\ \A q \in requests : q.run # s
                /\ \A g \in Active' : fetch'[g].run # s
                /\ runs'[s].items = Cardinality(runs'[s].read)
    <2>1. CASE s # r
      BY <1>3, <1>5, <1>12, <2>1 DEF Judged, HandInv, Over, EveryListingCountedOnce
    <2>2. CASE s = r
      <3>1. Trusted(f)
        BY <1>3, <1>9, <1>12, <2>2 DEF Judged
      <3>2. Accounted(f) /\ \A q \in requests : q.run # r
        BY <1>6, <3>1 DEF HandInv, AllAccounted, OnlyMine
      <3>3. runs[r].items = Cardinality(Taken(f)) /\ Taken(f) = runs[r].read
        BY <1>1, <3>2 DEF Accounted, Taken
      <3>4. QED
        BY <1>3, <1>5, <2>2, <3>2, <3>3
    <2>3. QED
      BY <2>1, <2>2
  <1>13. Over' /\ EveryListingCountedOnce'
    BY <1>1, <1>12 DEF Over, Judged, EveryListingCountedOnce
  <1>14. QED
    BY <1>1, <1>7, <1>8, <1>10, <1>11, <1>13 DEF HandInv, AllAccounted, AllInFlight

(* What is handed back is not counted yet, and is owed again.              *)
LEMMA AnswerHand ==
    ASSUME TypeInv, Awaited, HandInv, NEW q \in requests, NEW deferred \in SUBSET q.chunk,
           NEW placed, NEW parked, Answer(q, deferred, placed, parked)
    PROVE  HandInv'
  <1> DEFINE r == q.run
             total == q.items + Counted(q, deferred)
  <1>1. r \in RunIds /\ requests' = requests \ {q} /\ \A p \in requests : p.run \in RunIds
    BY DEF Answer, TypeInv, TypeOK, Request
  <1>2. /\ runs'[r].status = runs[r].status /\ runs'[r].read = runs[r].read /\ runs'[r].items = total
        /\ \A s \in RunIds : s # r => runs'[s] = runs[s]
    BY <1>1 DEF Answer, TypeInv, TypeOK, Run
  <1>3. /\ \A g \in Fetchers : g # q.by => fetch'[g] = fetch[g]
        /\ q.by # None => /\ fetch'[q.by].pc = IF deferred = {} THEN "reading" ELSE "resolving"
                          /\ fetch'[q.by].pending = deferred /\ fetch'[q.by].todo = fetch[q.by].todo
                          /\ fetch'[q.by].run = fetch[q.by].run
                          /\ fetch'[q.by].verdict = fetch[q.by].verdict
    BY DEF Answer, TypeInv, TypeOK, Fetch, Awaited
  <1>4. q.by # None => q.by \in Active
    BY DEF Awaited, Active
  <1>5. Active' = Active /\ \A g \in Active : fetch'[g].run = fetch[g].run /\ fetch'[g].verdict = fetch[g].verdict
    BY <1>3, <1>4, SyncAssumption DEF Active
  <1>6. \A g \in Fetchers : Trusted(g)' => Trusted(g) /\ fetch'[g].run = fetch[g].run
    BY <1>5 DEF Trusted
  <1>7. /\ \A g \in Fetchers : g # q.by /\ Trusted(g)' => Accounted(g)'
        /\ \A p \in requests' : p.by # None => InFlight(p)'
    <2>1. \A g \in Fetchers : g # q.by /\ Trusted(g) => fetch[g].run # r
      BY DEF HandInv, OnlyMine
    <2>2. \A p \in requests' : p \in requests /\ (p.by # None => p.by # q.by)
      BY <1>1 DEF Awaited
    <2>3. QED
      BY <1>1, <1>2, <1>3, <2>1, <2>2, OthersKeep
  <1>8. ASSUME NEW f \in Fetchers, f = q.by PROVE Accounted(f)'
    <2>1. q.by # None /\ Trusted(f) /\ r = fetch[f].run /\ fetch[f].pc = "waiting"
      BY <1>8, WaitingTrusted, SyncAssumption DEF Awaited
    <2>2. Accounted(f) /\ InFlight(q)
      BY <1>8, <2>1 DEF HandInv, AllAccounted, AllInFlight
    <2>3. q.chunk \subseteq Taken(f) /\ q.items = Cardinality(Taken(f) \ q.chunk)
      BY <1>8, <2>2 DEF InFlight
    <2>4. /\ Owed(f)' = fetch[f].todo \cup deferred /\ Owed(f) = fetch[f].todo
          /\ Taken(f) = runs[r].read \ fetch[f].todo
      BY <1>3, <1>8, <2>1, <2>2 DEF Owed, Taken, Accounted
    <2>5. Taken(f)' = Taken(f) \ deferred
      BY <1>2, <1>3, <1>8, <2>1, <2>4 DEF Taken
    <2>6. total = Cardinality(Taken(f) \ deferred)
      <3> DEFINE S == Taken(f) \ deferred
                 T == q.chunk \ deferred
      <3>1. S \subseteq runs[r].read /\ T \subseteq S /\ S \ T = Taken(f) \ q.chunk
        BY <2>3, <2>4
      <3>2. q.items = Cardinality(S \ T) /\ Counted(q, deferred) = Cardinality(T)
        BY <2>3, <3>1 DEF Counted
      <3> HIDE DEF S, T
      <3>3. Cardinality(S) = Cardinality(S \ T) + Cardinality(T)
        BY <1>1, <3>1, CountParts, Zenon
      <3>4. QED
        BY <3>2, <3>3 DEF S
    <2> HIDE DEF total
    <2>7. QED
      <3>1. Owed(f)' \subseteq runs'[fetch'[f].run].read
        BY <1>2, <1>3, <1>8, <2>1, <2>2, <2>3, <2>4 DEF Accounted
      <3>2. fetch'[f].pending = deferred /\ fetch'[f].todo = fetch[f].todo
            /\ fetch'[f].pc = IF deferred = {} THEN "reading" ELSE "resolving"
        BY <1>3, <1>8, <2>1
      <3>3. fetch[f].todo \cap deferred = {}
        BY <2>3, <2>4
      <3>4. runs'[fetch'[f].run].items = Cardinality(Taken(f)')
        BY <1>2, <1>3, <1>8, <2>1, <2>5, <2>6
      <3>5. QED
        BY <3>1, <3>2, <3>3, <3>4 DEF Accounted
  <1>9. Told' /\ OwnRun' /\ OnlyMine'
    <2>1. Told'
      <3>1. q.by # None => fetch[q.by].verdict # "failed"
        BY DEF HandInv, Told, Awaited
      <3>2. QED
        BY <1>3, <3>1, SyncAssumption DEF HandInv, Told
    <2>2. OwnRun' /\ OnlyMine'
      BY <1>1, <1>5, <1>6 DEF HandInv, OwnRun, OnlyMine
    <2>3. QED
      BY <2>1, <2>2
  <1>10. Opened' /\ Over' /\ EveryListingCountedOnce'
    <2>1. ~Judged(r)
      BY <1>1 DEF HandInv, Over
    <2>2. \A s \in RunIds : runs'[s].status = runs[s].status /\ (s # r => runs'[s] = runs[s])
      BY <1>2
    <2>3. \A g \in Active : fetch[g].run \in RunIds
      BY DEF Active, TypeInv, Driven
    <2>4. QED
      BY <1>1, <1>5, <2>1, <2>2, <2>3 DEF HandInv, Opened, Over, Judged, EveryListingCountedOnce
  <1>11. QED
    BY <1>7, <1>8, <1>9, <1>10 DEF HandInv, AllAccounted, AllInFlight

LEMMA HandNext ==
    ASSUME TypeInv, Awaited, HandInv, Next PROVE HandInv'
  <1>1. ASSUME NEW f \in Fetchers, OfferChunk(f) \/ OfferResolved(f) PROVE HandInv'
    BY <1>1, AskHand DEF OfferChunk, OfferResolved
  <1>2. ASSUME NEW f \in Fetchers, UNCHANGED requests, fetch[f].pc # "waiting" PROVE OnlyLoses(f)
    BY <1>2, SyncAssumption DEF OnlyLoses, Awaited
  <1>3. ASSUME NEW f \in Fetchers, Refused(f) \/ PluginFails(f) PROVE HandInv'
    BY <1>2, <1>3, FailKeeps DEF Refused, PluginFails, Active
  <1>4. ASSUME NEW q \in requests PROVE [q EXCEPT !.by = None].by = None /\ [q EXCEPT !.by = None].run = q.run
    BY DEF TypeInv, TypeOK, Request
  <1>5. ASSUME NEW f \in Fetchers, GiveUp(f) PROVE HandInv'
    <2>1. PICK sent \in requests :
            /\ sent.by = f
            /\ \/ requests' = requests \ {sent}
               \/ requests' = (requests \ {sent}) \cup {[sent EXCEPT !.by = None]}
      BY <1>5 DEF GiveUp
    <2>2. \A p \in requests \ {sent} : p.by # f
      BY <2>1, SyncAssumption DEF Awaited
    <2>3. OnlyLoses(f)
      <3>1. ASSUME NEW p \in requests' PROVE p \in requests \ {sent} \/ p = [sent EXCEPT !.by = None]
        BY <2>1, <3>1
      <3>2. ASSUME NEW p \in requests', p = [sent EXCEPT !.by = None] PROVE p.by = None /\ p.run = sent.run
        BY <1>4, <3>2
      <3>3. f # None /\ sent \in requests /\ sent.by = f
        BY <2>1, SyncAssumption
      <3>4. QED
        <4>1. ASSUME NEW p \in requests'
              PROVE  /\ p.by # f
                     /\ p \in requests \/ \E o \in requests : o.by = f /\ p.by = None /\ p.run = o.run
          <5>1. CASE p \in requests \ {sent}
            BY <2>2, <5>1
          <5>2. CASE p = [sent EXCEPT !.by = None]
            BY <3>2, <3>3, <4>1, <5>2
          <5>3. QED
            BY <3>1, <4>1, <5>1, <5>2
        <4>2. QED
          BY <4>1 DEF OnlyLoses
    <2>4. QED
      BY <1>5, <2>3, FailKeeps DEF GiveUp, Active
  <1>6. ASSUME NEW f \in Fetchers, f \in Active, UNCHANGED runs, OnlyLoses(f), fetch' = [fetch EXCEPT ![f] = Idle]
        PROVE  HandInv'
    <2>1. Idle \in Fetch
      BY DEF Idle, Fetch
    <2>2. fetch' \in [Fetchers -> Fetch] /\ fetch'[f] = Idle /\ \A g \in Fetchers : g # f => fetch'[g] = fetch[g]
      BY <1>6, <2>1 DEF TypeInv, TypeOK
    <2>3. QED
      BY <1>6, <2>2, StopKeeps
  <1>7. ASSUME NEW f \in Fetchers, FinishFails(f) PROVE HandInv'
    BY <1>2, <1>6, <1>7 DEF FinishFails, Active
  <1>8. ASSUME NEW f \in Fetchers, Crash(f) PROVE HandInv'
    <2> DEFINE mine == {q \in requests : q.by = f}
               orphaned == {[q EXCEPT !.by = None] : q \in mine}
    <2>1. requests' = requests \ mine \/ requests' = (requests \ mine) \cup orphaned
      BY <1>8 DEF Crash
    <2>2. ASSUME NEW p \in requests' PROVE (p \in requests /\ p.by # f) \/ \E q \in mine : p = [q EXCEPT !.by = None]
      BY <2>1, <2>2
    <2>3. OnlyLoses(f)
      <3>1. ASSUME NEW p \in requests'
            PROVE  /\ p.by # f
                   /\ p \in requests \/ \E o \in requests : o.by = f /\ p.by = None /\ p.run = o.run
        <4>1. CASE p \in requests /\ p.by # f
          BY <4>1
        <4>2. ASSUME NEW q \in mine, p = [q EXCEPT !.by = None] PROVE p.by = None /\ p.run = q.run
          BY <1>4, <4>2
        <4>3. QED
          BY <2>2, <3>1, <4>1, <4>2, SyncAssumption
      <3>2. QED
        BY <3>1 DEF OnlyLoses
    <2>4. QED
      BY <1>6, <1>8, <2>3 DEF Crash, Active
  <1>9. ASSUME NEW q \in requests, Commit(q) PROVE HandInv'
    BY <1>9, AnswerHand DEF Commit
  <1>10. ASSUME NEW q \in requests, Clash(q) PROVE HandInv'
    <2>1. CASE q.by = None
      <3>1. requests' \subseteq requests /\ UNCHANGED <<runs, fetch>> /\ Active' = Active
        BY <1>10, <2>1 DEF Clash, Active
      <3>2. Told' /\ OwnRun' /\ Opened' /\ OnlyMine' /\ Over' /\ EveryListingCountedOnce'
        BY <3>1 DEF HandInv, Told, OwnRun, Opened, OnlyMine, Trusted, Over, Judged, EveryListingCountedOnce
      <3>3. AllAccounted' /\ AllInFlight'
        BY <3>1 DEF HandInv, AllAccounted, Accounted, Trusted, AllInFlight, InFlight, Taken, Owed
      <3>4. QED
        BY <3>2, <3>3 DEF HandInv
    <2>2. CASE q.by # None
      <3>1. PICK f \in Active : f = q.by /\ f \in Fetchers
        BY <2>2 DEF Awaited, Active
      <3>2. OnlyLoses(f)
        BY <1>10, <2>2, <3>1 DEF Clash, OnlyLoses, Awaited
      <3>3. QED
        BY <1>10, <2>2, <3>1, <3>2, FailKeeps DEF Clash
    <2>3. QED
      BY <2>1, <2>2
  <1>11. ASSUME NEW x \in Listings, Rule(x) PROVE HandInv'
    <2>1. \A r \in RunIds : /\ runs'[r].read = runs[r].read /\ runs'[r].items = runs[r].items
                            /\ runs'[r].status = runs[r].status
      BY <1>11 DEF Rule, TypeInv, TypeOK, Run
    <2>2. QED
      BY <1>11, <2>1, RunsAlikeKeeps DEF Rule
  <1>12. ASSUME NEW r \in RunIds, CloseAbandoned(r) PROVE HandInv'
    <2>1. \A s \in RunIds : /\ runs'[s].read = runs[s].read /\ runs'[s].items = runs[s].items
                            /\ runs'[s].status = runs[s].status \/ (Running(s) /\ runs'[s].status = "crashed")
      BY <1>12 DEF CloseAbandoned, TypeInv, TypeOK, Run
    <2>2. QED
      BY <1>12, <2>1, RunsAlikeKeeps DEF CloseAbandoned
  <1>13. QED
    BY <1>1, <1>3, <1>5, <1>7, <1>8, <1>9, <1>10, <1>11, <1>12, BeginHand, EndHand, FinishHand DEF Next

LEMMA HandStill ==
    ASSUME TypeInv, Awaited, HandInv, UNCHANGED vars PROVE (TypeInv /\ Awaited /\ HandInv)'
  <1>1. UNCHANGED <<clock, offers, parks, runs, requests, fetch>>
    BY DEF vars
  <1>2. TypeInv' /\ Awaited'
    BY <1>1 DEF TypeInv, TypeOK, RowsKept, Driven, Awaited
  <1>3. (Told /\ OwnRun /\ Opened /\ OnlyMine /\ Over /\ EveryListingCountedOnce)'
    BY <1>1 DEF HandInv, Told, OwnRun, Opened, OnlyMine, Trusted, Over, Judged, EveryListingCountedOnce, Active
  <1>4. (AllAccounted /\ AllInFlight)'
    BY <1>1 DEF HandInv, AllAccounted, Accounted, Trusted, AllInFlight, InFlight, Taken, Owed, Active
  <1>5. QED
    BY <1>2, <1>3, <1>4 DEF HandInv

LEMMA Handshake == Spec => [](TypeInv /\ Awaited /\ HandInv)
  <1>1. Init => TypeInv /\ Awaited /\ HandInv
    BY TypeInit, AwaitedInit, HandInit
  <1>2. TypeInv /\ Awaited /\ HandInv /\ [Next]_vars => (TypeInv /\ Awaited /\ HandInv)'
    BY TypeNext, AwaitedNext, HandNext, HandStill
  <1>3. QED
    BY <1>1, <1>2, PTL DEF Spec

(* Whatever was handed back and offered again, and whoever gave up or      *)
(* crashed on the way: a run that is judged is judged by the number of     *)
(* listings its stream yielded (syncing.py:339-342).                       *)
THEOREM CountedOnce == Spec => []EveryListingCountedOnce
  <1>1. HandInv => EveryListingCountedOnce
    BY DEF HandInv
  <1>2. QED
    BY <1>1, Handshake, PTL

-----------------------------------------------------------------------------
(* What a step may cost an offer.                                          *)
Costs(x) ==
    /\ offers[x] # None
    /\ offers'[x].misses > offers[x].misses \/ (offers[x].current /\ ~offers'[x].current)

LEMMA SeeingCostsNothing ==
    ASSUME NEW row \in Offer, NEW loaded \in Offer \cup {None}, NEW at \in Nat
    PROVE  /\ Seen(at).misses <= row.misses /\ Seen(at).current
           /\ Update(loaded, Seen(at), row).misses <= row.misses
           /\ row.current => Update(loaded, Seen(at), row).current
  <1>1. Seen(at).misses = 0 /\ Seen(at).current /\ row.misses \in Nat
    BY DEF Seen, Offer
  <1>2. Update(loaded, Seen(at), row).misses \in {0, row.misses}
        /\ (row.current => Update(loaded, Seen(at), row).current)
    BY <1>1 DEF Update, Column
  <1>3. QED
    BY <1>1, <1>2

LEMMA OnlyBeliefCosts ==
    ASSUME TypeInv, Next, NEW x \in Listings, Costs(x)
    PROVE  \E f \in Fetchers : Finish(f) /\ Verdict(f) = "ok"
  <1>1. ASSUME NEW q \in requests, Commit(q) PROVE FALSE
    <2>1. PICK placed \in SUBSET q.chunk :
            offers' = [y \in Listings |-> IF y \in placed THEN Recorded(q, y) ELSE offers[y]]
      BY <1>1 DEF Commit, Answer
    <2>2. offers[x] \in Offer /\ q.rows[x] \in Offer \cup {None} /\ runs[q.run].started \in Nat
      BY DEF Costs, TypeInv, TypeOK, Request, Run
    <2>3. offers'[x] = offers[x] \/ offers'[x] = Recorded(q, x)
      BY <2>1
    <2>4. /\ Recorded(q, x).misses <= offers[x].misses
          /\ offers[x].current => Recorded(q, x).current
          /\ Recorded(q, x).misses \in Nat
      <3>1. Recorded(q, x).misses \in {0, offers[x].misses}
        BY <2>2 DEF Recorded, Seen, Update, Column
      <3>2. QED
        BY <2>2, <3>1, SeeingCostsNothing DEF Recorded, Offer
    <2>5. QED
      BY <2>2, <2>3, <2>4 DEF Costs, Offer
  <1>2. ASSUME NEW y \in Listings, Rule(y) PROVE FALSE
    <2>1. offers[x] \in Offer /\ clock \in Nat
      BY DEF Costs, TypeInv, TypeOK
    <2>2. offers'[x] = offers[x] \/ offers'[x] = Seen(clock)
      BY <1>2 DEF Rule, TypeInv, TypeOK
    <2>3. Seen(clock).misses <= offers[x].misses /\ Seen(clock).current /\ Seen(clock).misses = 0
      BY <2>1, SeeingCostsNothing DEF Seen
    <2>4. QED
      BY <2>1, <2>2, <2>3 DEF Costs, Offer
  <1>3. ASSUME UNCHANGED offers PROVE FALSE
    <2>1. offers[x].misses \in Nat
      BY DEF Costs, TypeInv, TypeOK, Offer
    <2>2. QED
      BY <1>3, <2>1 DEF Costs
  <1>4. PICK f \in Fetchers : Finish(f)
    BY <1>1, <1>2, <1>3 DEF Next, Begin, OfferChunk, OfferResolved, Ask, Refused, GiveUp, EndOfStream,
       PluginFails, FinishFails, Crash, Clash, CloseAbandoned
  <1>5. QED
    BY <1>3, <1>4 DEF Finish

(* The guard against a thin answer judges by what was really read.         *)
LEMMA BelievedIsPlausible ==
    ASSUME TypeInv, HandInv, NEW f \in Fetchers, Finish(f), Verdict(f) = "ok"
    PROVE  \E r \in BelievedNow : Plausible(r)
  <1> DEFINE r == fetch[f].run
  <1>1. r \in RunIds /\ Running(r) /\ runs'[r].status = "ok" /\ Trusted(f)
    BY DEF Finish, TypeInv, TypeOK, Driven, Run, Verdict, Trusted, Active
  <1>2. r \in BelievedNow
    BY <1>1 DEF BelievedNow
  <1>3. runs[r].items = Cardinality(runs[r].read)
    <2>1. Accounted(f) /\ fetch[f].pc = "ending"
      BY <1>1 DEF HandInv, AllAccounted, Finish
    <2>2. Taken(f) = runs[r].read
      BY <2>1 DEF Accounted, Taken
    <2>3. QED
      BY <2>1, <2>2 DEF Accounted
  <1>4. ~LooksTruncated(r)
    BY <1>1 DEF Verdict, Trusted
  <1>5. \A p \in Believed : runs[p].items = Cardinality(runs[p].read) /\ runs[p].items \in Nat
    BY DEF Believed, HandInv, EveryListingCountedOnce, TypeInv, TypeOK, Run
  <1>6. runs[r].items \in Nat
    BY <1>1 DEF TypeInv, TypeOK, Run
  <1> HIDE DEF r
  <1>7. Plausible(r)
    BY <1>3, <1>4, <1>5, <1>6 DEF LooksTruncated, Plausible
  <1>8. QED
    BY <1>2, <1>7

(* No interleaving of fetchers, requests and rulings costs an offer        *)
(* anything but in the step that believes a run, and that run had really   *)
(* read at least half of what the last believed one had (sweep_source,     *)
(* looks_truncated).                                                       *)
THEOREM BeliefOnlyCosts == Spec => NothingLostWithoutBelief
  <1>1. TypeInv /\ HandInv /\ [Next]_vars =>
          [\A x \in Listings :
             (/\ offers[x] # None
              /\ offers'[x].misses > offers[x].misses \/ (offers[x].current /\ ~offers'[x].current))
             => \E r \in BelievedNow : Plausible(r)]_vars
    BY OnlyBeliefCosts, BelievedIsPlausible DEF Costs
  <1>2. QED
    BY <1>1, Handshake, PTL DEF Spec, NothingLostWithoutBelief

(* Availability rows are never deleted. *)
LEMMA RowsStay ==
    ASSUME TypeInv, Next, NEW x \in Listings, offers[x] # None PROVE offers'[x] # None
  <1>1. offers[x] \in Offer /\ clock \in Nat /\ offers \in [Listings -> Offer \cup {None}]
    BY DEF TypeInv, TypeOK
  <1>2. ASSUME NEW f \in Fetchers, Finish(f) PROVE offers'[x] # None
    <2>1. fetch[f].run \in RunIds /\ runs[fetch[f].run].started \in Nat
      BY <1>2 DEF Finish, TypeInv, TypeOK, Driven, Run
    <2>2. offers'[x] = offers[x] \/ offers'[x] = Swept(offers[x], runs[fetch[f].run].started)
      BY <1>2 DEF Finish
    <2>3. QED
      BY <1>1, <2>1, <2>2, SweptKeepsRows, SyncAssumption
  <1>3. ASSUME NEW q \in requests, Commit(q) PROVE offers'[x] # None
    <2>1. offers'[x] = offers[x] \/ offers'[x] = Recorded(q, x)
      BY <1>3 DEF Commit, Answer
    <2>2. Recorded(q, x) \in Offer
      BY RecordedIsOffer DEF TypeInv
    <2>3. QED
      BY <1>1, <2>1, <2>2, SyncAssumption
  <1>4. ASSUME NEW y \in Listings, Rule(y) PROVE offers'[x] # None
    <2>1. offers'[x] = offers[x] \/ offers'[x] = Seen(clock)
      BY <1>1, <1>4 DEF Rule
    <2>2. Seen(clock) \in Offer
      BY <1>1 DEF Seen, Offer
    <2>3. QED
      BY <1>1, <2>1, <2>2, SyncAssumption
  <1>5. QED
    BY <1>1, <1>2, <1>3, <1>4 DEF Next, Begin, OfferChunk, OfferResolved, Ask, Refused, GiveUp, EndOfStream,
       PluginFails, FinishFails, Crash, Clash, CloseAbandoned

(* The sweep that retires an offer is that of the last of MissLimit runs.  *)
LEMMA RetiringSweep ==
    ASSUME TypeInv, EarnInv, Next, NEW x \in Listings, Standing(x), ~Standing(x)'
    PROVE  Cardinality({r \in Believed' : runs'[r].finished > offers[x].last}) >= MissLimit
  <1>1. offers[x] # None /\ offers[x].current /\ offers[x] \in Offer
    BY DEF Standing, TypeInv, TypeOK
  <1>2. offers'[x] # None /\ ~offers'[x].current
    BY <1>1, RowsStay DEF Standing
  <1>3. PICK f \in Fetchers : Finish(f) /\ Verdict(f) = "ok"
    BY <1>1, <1>2, OnlyBeliefCosts DEF Costs
  <1> DEFINE r == fetch[f].run
             t == runs[r].started
             n == offers[x].misses + 1
             stands == offers[x].misses + 1 < MissLimit
  <1>4. r \in RunIds /\ runs[r].status = "running" /\ clock \in Nat
    BY <1>3 DEF Finish, Running, TypeInv, TypeOK, Driven
  <1>5. /\ runs'[r].status = "ok" /\ runs'[r].finished = clock + 1
        /\ \A s \in RunIds : s # r => runs'[s] = runs[s]
    BY <1>3, <1>4 DEF Finish, TypeInv, TypeOK, Run
  <1>6. offers'[x] = [offers[x] EXCEPT !.misses = n, !.current = stands]
    <2>1. offers'[x] = Swept(offers[x], t)
      BY <1>3 DEF Finish
    <2>2. QED
      BY <1>1, <1>2, <2>1 DEF Swept
  <1>7. n >= MissLimit /\ n = offers[x].misses + 1 /\ offers[x].misses \in Nat /\ offers[x].last \in Nat
    <2>1. (stands <=> n < MissLimit) /\ n \in Nat /\ offers[x].misses \in Nat /\ offers[x].last \in Nat
      BY <1>1 DEF Offer
    <2> HIDE DEF stands, n
    <2>2. offers'[x].current = stands
      BY <1>1, <1>6, Zenon DEF Offer
    <2>3. ~stands
      BY <1>2, <2>2
    <2>4. QED
      BY <2>1, <2>3, SyncAssumption DEF n
  <1> HIDE DEF r, t, n, stands
  <1>8. offers[x].last <= clock /\ offers[x].misses <= Cardinality(Since(runs, offers[x].last))
    BY <1>1, EarnedSince DEF EarnInv, Dated
  <1>9. Cardinality(Since(runs', offers[x].last)) = Cardinality(Since(runs, offers[x].last)) + 1
    <2>1. runs'[r].finished > offers[x].last
      BY <1>4, <1>5, <1>7, <1>8
    <2>2. QED
      BY <1>4, <1>5, <2>1, SinceOneMore
  <1>10. Since(runs', offers[x].last) = {s \in Believed' : runs'[s].finished > offers[x].last}
    BY DEF Since, Believed
  <1>11. QED
    BY <1>7, <1>8, <1>9, <1>10, SinceIsFinite

(* Whatever overlaps, an offer is retired by a run that is at least the    *)
(* MissLimit-th believed one since the run that last saw the offer had     *)
(* begun, under the same assumption (RetiredOnEnoughRuns).                 *)
THEOREM RetiredLate ==
    ASSUME NeverAhead PROVE Spec => RetiredOnEnoughRuns
  <1>1. TypeInv /\ EarnInv /\ [Next]_vars =>
          [\A x \in Listings :
             Standing(x) /\ ~Standing(x)' =>
               Cardinality({r \in Believed' : runs'[r].finished > offers[x].last}) >= MissLimit]_vars
    BY RetiringSweep
  <1>2. QED
    BY <1>1, Earning, PTL DEF Spec, RetiredOnEnoughRuns

-----------------------------------------------------------------------------
(* A park a run wrote is no older than the run.                            *)
ParkTimes ==
    /\ \A r \in RunIds : runs[r].started <= clock
    /\ \A r \in RunIds : \A x \in runs[r].parked : parks[x] # None => parks[x] >= runs[r].started

LEMMA ParksInit == Init => ParkTimes
  BY DEF Init, ParkTimes, Unborn

LEMMA ParksNext ==
    ASSUME NeverAhead, TypeInv, ParkTimes, Next PROVE ParkTimes'
  <1>1. clock \in Nat /\ \A r \in RunIds : runs[r].started \in Nat /\ runs[r].started <= clock
    BY DEF TypeInv, TypeOK, Run, ParkTimes
  <1>2. ASSUME clock' \in {clock, clock + 1},
               \A r \in RunIds : /\ runs'[r].started = runs[r].started \/ runs'[r].started <= clock'
                                 /\ \A x \in runs'[r].parked :
                                       \/ parks'[x] \in {None, clock}
                                       \/ runs'[r].started = runs[r].started /\ x \in runs[r].parked
                                          /\ parks'[x] = parks[x],
               \A r \in RunIds : runs'[r].parked = {} \/ runs'[r].started = runs[r].started
        PROVE  ParkTimes'
    <2>1. \A r \in RunIds : runs'[r].started <= clock'
      BY <1>1, <1>2
    <2>2. ASSUME NEW r \in RunIds, NEW x \in runs'[r].parked, parks'[x] # None
          PROVE  parks'[x] >= runs'[r].started
      <3>1. runs'[r].started = runs[r].started
        BY <1>2, <2>2
      <3>2. QED
        BY <1>1, <1>2, <2>2, <3>1 DEF ParkTimes
    <2>3. QED
      BY <2>1, <2>2 DEF ParkTimes
  <1>3. ASSUME NEW f \in Fetchers, Begin(f) PROVE ParkTimes'
    <2>1. PICK r \in RunIds, skew \in Skews, stream \in SUBSET Listings :
            /\ runs[r].status = "unborn"
            /\ clock' + skew \in Nat
            /\ runs' = [runs EXCEPT ![r] =
                         [Unborn EXCEPT !.status = "running", !.started = clock' + skew, !.read = stream]]
            /\ fetch' = [fetch EXCEPT ![f] =
                          [Idle EXCEPT !.pc = "reading", !.run = r, !.todo = stream]]
      BY <1>3, BeginRow
    <2>2. /\ runs'[r].started = clock' + skew /\ runs'[r].parked = {}
          /\ \A s \in RunIds : s # r => runs'[s] = runs[s]
      BY <2>1 DEF TypeInv, TypeOK, Unborn
    <2>3. clock' = clock + 1 /\ UNCHANGED parks /\ clock' + skew <= clock'
      BY <1>1, <1>3, SyncAssumption DEF Begin, NeverAhead
    <2>4. QED
      BY <1>2, <2>2, <2>3
  <1>4. ASSUME NEW q \in requests, Commit(q) PROVE ParkTimes'
    <2>1. PICK parked \in SUBSET q.chunk :
            /\ \A r \in RunIds : /\ runs'[r].started = runs[r].started
                                 /\ runs'[r].parked \subseteq runs[r].parked \cup parked
            /\ \A x \in Listings : parks'[x] = IF x \in parked THEN clock ELSE parks[x]
            /\ clock' = clock
      <3>1. PICK deferred \in SUBSET q.chunk, placed \in SUBSET q.chunk, parked \in SUBSET q.chunk :
              Answer(q, deferred, placed, parked)
        BY <1>4 DEF Commit
      <3>2. \A r \in RunIds : /\ runs'[r].started = runs[r].started
                             /\ runs'[r].parked \subseteq runs[r].parked \cup parked
        BY <3>1 DEF Answer, TypeInv, TypeOK, Run
      <3>3. \A x \in Listings : parks'[x] = IF x \in parked THEN clock ELSE parks[x]
        BY <3>1 DEF Answer
      <3>4. QED
        BY <3>1, <3>2, <3>3 DEF Answer
    <2>2. \A r \in RunIds : runs[r].parked \cup parked \subseteq Listings
      BY DEF TypeInv, TypeOK, Run, Request
    <2>3. QED
      BY <1>2, <2>1, <2>2
  <1>5. ASSUME clock' \in {clock, clock + 1},
               \A r \in RunIds : runs'[r].started = runs[r].started /\ runs'[r].parked = runs[r].parked,
               \A x \in Listings : parks'[x] \in {None, parks[x]}
        PROVE  ParkTimes'
    <2>1. \A r \in RunIds : runs[r].parked \subseteq Listings
      BY DEF TypeInv, TypeOK, Run
    <2>2. QED
      BY <1>2, <1>5, <2>1
  <1>6. ASSUME NEW f \in Fetchers, Finish(f) PROVE ParkTimes'
    <2>1. \A r \in RunIds : runs'[r].started = runs[r].started /\ runs'[r].parked = runs[r].parked
      BY <1>6 DEF Finish, TypeInv, TypeOK, Run
    <2>2. \A x \in Listings : parks'[x] \in {None, parks[x]}
      BY <1>6 DEF Finish, Unexpired
    <2>3. QED
      BY <1>5, <1>6, <2>1, <2>2 DEF Finish
  <1>7. ASSUME NEW y \in Listings, Rule(y) PROVE ParkTimes'
    <2>1. \A r \in RunIds : runs'[r].started = runs[r].started /\ runs'[r].parked = runs[r].parked
      BY <1>7 DEF Rule, TypeInv, TypeOK, Run
    <2>2. \A x \in Listings : parks'[x] \in {None, parks[x]}
      BY <1>7 DEF Rule, TypeInv, TypeOK
    <2>3. QED
      BY <1>5, <1>7, <2>1, <2>2 DEF Rule
  <1>8. ASSUME NEW r \in RunIds, CloseAbandoned(r) PROVE ParkTimes'
    <2>1. \A s \in RunIds : runs'[s].started = runs[s].started /\ runs'[s].parked = runs[s].parked
      BY <1>8 DEF CloseAbandoned, TypeInv, TypeOK, Run
    <2>2. QED
      BY <1>5, <1>8, <2>1 DEF CloseAbandoned
  <1>9. ASSUME UNCHANGED <<clock, runs, parks>> PROVE ParkTimes'
    BY <1>5, <1>9
  <1>10. QED
    BY <1>3, <1>4, <1>6, <1>7, <1>8, <1>9 DEF Next, OfferChunk, OfferResolved, Ask, Refused, GiveUp,
       EndOfStream, PluginFails, FinishFails, Crash, Clash

LEMMA ExpiryKnows ==
    ASSUME TypeInv, ParkTimes, Next, NEW r \in BelievedNow, NEW x \in Listings,
           parks[x] # None, parks'[x] = None
    PROVE  x \notin runs[r].parked
  <1>1. ASSUME \A s \in RunIds : runs'[s].status = "ok" => runs[s].status = "ok" PROVE FALSE
    BY <1>1 DEF BelievedNow, Running
  <1>2. ASSUME NEW f \in Fetchers, Begin(f) PROVE FALSE
    <2>1. \A s \in RunIds : runs'[s].status = "ok" => runs[s].status = "ok"
      BY <1>2 DEF Begin, TypeInv, TypeOK, Unborn
    <2>2. QED
      BY <1>1, <2>1
  <1>3. ASSUME NEW q \in requests, Commit(q) PROVE FALSE
    <2>1. \A s \in RunIds : runs'[s].status = runs[s].status
      BY <1>3 DEF Commit, Answer, TypeInv, TypeOK, Run
    <2>2. QED
      BY <1>1, <2>1
  <1>4. ASSUME NEW y \in Listings, Rule(y) PROVE FALSE
    <2>1. \A s \in RunIds : runs'[s].status = runs[s].status
      BY <1>4 DEF Rule, TypeInv, TypeOK, Run
    <2>2. QED
      BY <1>1, <2>1
  <1>5. ASSUME NEW s \in RunIds, CloseAbandoned(s) PROVE FALSE
    <2>1. \A p \in RunIds : runs'[p].status = "ok" => runs[p].status = "ok"
      BY <1>5 DEF CloseAbandoned, TypeInv, TypeOK, Run
    <2>2. QED
      BY <1>1, <2>1
  <1>6. PICK f \in Fetchers : Finish(f)
    BY <1>1, <1>2, <1>3, <1>4, <1>5 DEF Next, OfferChunk, OfferResolved, Ask, Refused, GiveUp,
       EndOfStream, PluginFails, FinishFails, Crash, Clash
  <1>7. r = fetch[f].run
    <2>1. \A s \in RunIds : s # fetch[f].run => runs'[s] = runs[s]
      BY <1>6 DEF Finish, TypeInv, TypeOK
    <2>2. QED
      BY <2>1 DEF BelievedNow, Running
  <1>8. parks[x] < runs[r].started
    BY <1>6, <1>7 DEF Finish, Unexpired
  <1>9. parks[x] \in Nat /\ runs[r].started \in Nat
    BY DEF BelievedNow, TypeInv, TypeOK, Run
  <1>10. QED
    BY <1>8, <1>9 DEF ParkTimes, BelievedNow

(* However runs overlap, a believed one takes no listing off the review    *)
(* queue that it parked there itself (expire_reviews, catalog.py:130-136), *)
(* unless its fetcher's clock, which dates the run, is ahead of the API's, *)
(* which dates its parks.                                                  *)
THEOREM OwnParksStay ==
    ASSUME NeverAhead PROVE Spec => ExpiredParksWereNotSeen
  <1>1. Init => ParkTimes
    BY ParksInit
  <1>2. TypeInv /\ ParkTimes /\ [Next]_vars => ParkTimes'
    <2>1. CASE Next
      BY <2>1, ParksNext
    <2>2. CASE UNCHANGED vars
      BY <2>2 DEF vars, ParkTimes
    <2>3. QED
      BY <2>1, <2>2
  <1>3. TypeInv /\ ParkTimes /\ [Next]_vars =>
          [\A r \in BelievedNow : \A x \in Listings :
             parks[x] # None /\ parks'[x] = None => x \notin runs[r].parked]_vars
    BY ExpiryKnows
  <1>4. QED
    BY <1>1, <1>2, <1>3, Handshake, PTL DEF Spec, ExpiredParksWereNotSeen
-----------------------------------------------------------------------------
(***************************************************************************)
(* The promise of TwoStrikes, kept by runs that do not overlap, of any     *)
(* number of fetchers and with requests that outlive their client.         *)
(***************************************************************************)

Sound(row) ==
    /\ row.misses <= MissLimit
    /\ row.current <=> row.misses < MissLimit

(* Timestamps say what was sighted: in the run under way, an offer's       *)
(* last_seen has reached the start of the run exactly when the run, or a   *)
(* ruling made during it, filed it.                                        *)
TimesTellSightings ==
    \A f \in Active :
        /\ runs[fetch[f].run].started <= clock
        /\ \A x \in Listings : x \in runs[fetch[f].run].sighted <=>
              offers[x] # None /\ offers[x].last >= runs[fetch[f].run].started

(* While a chunk is being matched its rows are left alone, but for a       *)
(* ruling, which leaves them seen since.                                   *)
RowsHeld ==
    \A q \in requests :
        /\ runs[q.run].started <= clock
        /\ \A x \in Listings : q.rows[x] # None =>
              /\ Sound(q.rows[x])
              /\ \/ offers[x] = q.rows[x]
                 \/ /\ offers[x].misses = 0
                    /\ offers[x].current
                    /\ offers[x].last >= runs[q.run].started

(* One fetcher is at work at a time, and one request, of its own run; by   *)
(* the time it asks again, or ends well, it has had its answer.            *)
InTurn ==
    /\ \A f, g \in Active : f = g
    /\ \A p, q \in requests : p = q
    /\ \A f \in Active, q \in requests : q.run = fetch[f].run
    /\ \A f \in Active : requests # {} =>
          fetch[f].pc \in {"waiting", "ending"} /\ (fetch[f].pc = "ending" => fetch[f].verdict = "failed")

SweepInv ==
    /\ \A x \in Listings : offers[x] # None => Sound(offers[x]) /\ offers[x].last <= clock
    /\ TimesTellSightings
    /\ RowsHeld
    /\ InTurn

LEMMA SweepInit == Init => SweepInv
  BY DEF Init, SweepInv, TimesTellSightings, RowsHeld, InTurn, Active, Idle

(* Recording an offer leaves it standing without a strike, last seen no    *)
(* earlier than its run began.                                             *)
LEMMA RecordedStands ==
    ASSUME TypeInv, SweepInv, NEW q \in requests, NEW x \in q.chunk,
           ~(q.rows[x] = None /\ offers[x] # None)
    PROVE  /\ Recorded(q, x) \in Offer
           /\ Recorded(q, x).misses = 0
           /\ Recorded(q, x).current
           /\ Recorded(q, x).last >= runs[q.run].started
           /\ Recorded(q, x).last <= clock
  <1>1. q \in Request /\ x \in Listings
    BY DEF TypeInv, TypeOK, Request
  <1>2. runs[q.run].started \in Nat /\ runs[q.run].started <= clock /\ clock \in Nat
    BY <1>1 DEF TypeInv, TypeOK, Request, Run, SweepInv, RowsHeld
  <1>3. CASE q.rows[x] = None
    BY <1>2, <1>3 DEF Recorded, Seen, Offer
  <1>4. CASE q.rows[x] # None
    <2>1. q.rows[x] \in Offer /\ offers[x] \in Offer
      BY <1>1, <1>4 DEF TypeInv, TypeOK, RowsKept, Request
    <2>2. Sound(q.rows[x]) /\ offers[x].last <= clock
      BY <1>1, <1>4, <2>1, SyncAssumption DEF SweepInv, RowsHeld
    <2>3. offers[x] = q.rows[x] \/ (/\ offers[x].misses = 0 /\ offers[x].current
                                   /\ offers[x].last >= runs[q.run].started)
      BY <1>1, <1>4 DEF SweepInv, RowsHeld
    <2> DEFINE loaded == q.rows[x]
               now == offers[x]
               t == runs[q.run].started
    <2>4. Recorded(q, x) = [last    |-> Column(loaded.last, t, now.last),
                            misses  |-> Column(loaded.misses, 0, now.misses),
                            current |-> Column(loaded.current, TRUE, now.current)]
      BY <1>4 DEF Recorded, Update, Seen
    <2>5. Column(loaded.last, t, now.last) \in Nat
          /\ t <= Column(loaded.last, t, now.last) /\ Column(loaded.last, t, now.last) <= clock
      BY <1>2, <2>1, <2>2, <2>3 DEF Column, Offer
    <2>6. Column(loaded.misses, 0, now.misses) = 0
      BY <2>3 DEF Column
    <2>7. Column(loaded.current, TRUE, now.current) = TRUE
      <3>1. loaded.current \in BOOLEAN /\ now.current \in BOOLEAN
        BY <2>1 DEF Offer
      <3>2. CASE loaded.current = TRUE
        <4>1. now.current
          BY <2>3, <3>2
        <4>2. QED
          BY <3>1, <3>2, <4>1 DEF Column
      <3>3. CASE loaded.current = FALSE
        BY <3>3 DEF Column
      <3>4. QED
        BY <3>1, <3>2, <3>3
    <2> DEFINE at == Column(loaded.last, t, now.last)
    <2>8. Recorded(q, x) = [last |-> at, misses |-> 0, current |-> TRUE]
      BY <2>4, <2>6, <2>7, Zenon
    <2> HIDE DEF at
    <2>9. at \in Nat /\ t <= at /\ at <= clock
      BY <2>5 DEF at
    <2> HIDE DEF loaded, now
    <2>10. QED
      BY <2>8, <2>9 DEF Offer
  <1>5. QED
    BY <1>3, <1>4

(* Who is at work is alone. *)
LEMMA Alone ==
    ASSUME SweepInv, NEW f \in Fetchers, fetch[f].pc # "idle"
    PROVE  Active = {f}
  BY DEF SweepInv, InTurn, Active

(* Requests that stay, or stay on without their client. *)
Remain == requests' \subseteq requests \cup {[q EXCEPT !.by = None] : q \in requests}

(* A step that neither begins a run nor asks leaves everybody's turn. *)
LEMMA TurnKept ==
    ASSUME TypeInv, SweepInv, Remain, \A p, q \in requests' : p = q,
           \A f \in Fetchers : fetch'[f].pc # "idle" =>
               /\ fetch[f].pc # "idle" /\ fetch'[f].run = fetch[f].run
               /\ \/ fetch'[f] = fetch[f]
                  \/ requests' = {}
                  \/ fetch'[f].pc = "ending" /\ fetch'[f].verdict = "failed"
    PROVE  InTurn'
  <1>1. \A p \in requests' : \E q \in requests : p.run = q.run
    BY DEF Remain, TypeInv, TypeOK, Request
  <1>2. \A f \in Active' : f \in Active /\ fetch'[f].run = fetch[f].run
    BY DEF Active
  <1>3. \A f, g \in Active' : f = g
    BY <1>2 DEF SweepInv, InTurn
  <1>4. \A f \in Active', q \in requests' : q.run = fetch'[f].run
    BY <1>1, <1>2 DEF SweepInv, InTurn
  <1>5. \A f \in Active' : requests' # {} =>
          /\ fetch'[f].pc \in {"waiting", "ending"}
          /\ fetch'[f].pc = "ending" => fetch'[f].verdict = "failed"
    <2>1. requests' # {} => requests # {}
      BY <1>1
    <2>2. QED
      BY <1>2, <2>1 DEF SweepInv, InTurn, Active
  <1>6. QED
    BY <1>3, <1>4, <1>5 DEF InTurn

(* What leaves the offers and the runs alone, and asks for nothing new.    *)
LEMMA QuietKeeps ==
    ASSUME TypeInv, SweepInv, UNCHANGED <<clock, offers, runs>>,
           Remain, \A p, q \in requests' : p = q,
           \A f \in Fetchers : fetch'[f].pc # "idle" =>
               /\ fetch[f].pc # "idle" /\ fetch'[f].run = fetch[f].run
               /\ \/ fetch'[f] = fetch[f]
                  \/ requests' = {}
                  \/ fetch'[f].pc = "ending" /\ fetch'[f].verdict = "failed"
    PROVE  SweepInv'
  <1>1. TimesTellSightings'
    BY DEF SweepInv, TimesTellSightings, Active
  <1>2. RowsHeld'
    <2>1. \A p \in requests' : \E q \in requests : p.run = q.run /\ p.rows = q.rows
      BY DEF Remain, TypeInv, TypeOK, Request
    <2>2. QED
      BY <2>1 DEF SweepInv, RowsHeld
  <1>3. QED
    BY <1>1, <1>2, TurnKept DEF SweepInv

LEMMA BeginKeeps ==
    ASSUME OneClock, TypeInv, SweepInv, NEW f \in Fetchers, Begin(f), Apart
    PROVE  SweepInv'
  <1>1. PICK r \in RunIds, skew \in Skews, stream \in SUBSET Listings :
          /\ runs[r].status = "unborn"
          /\ clock' + skew \in Nat
          /\ runs' = [runs EXCEPT ![r] =
                       [Unborn EXCEPT !.status = "running", !.started = clock' + skew, !.read = stream]]
          /\ fetch' = [fetch EXCEPT ![f] =
                        [Idle EXCEPT !.pc = "reading", !.run = r, !.todo = stream]]
    BY BeginRow
  <1>2. /\ requests = {} /\ Active = {} /\ UNCHANGED <<offers, requests>>
        /\ clock \in Nat /\ clock' = clock + 1 /\ skew = 0
    BY DEF Begin, Apart, Underway, TypeInv, TypeOK, OneClock
  <1>3. Active' \subseteq {f}
    BY <1>1, <1>2 DEF Active, TypeInv, TypeOK
  <1>4. fetch'[f].run = r
    BY <1>1 DEF TypeInv, TypeOK, Idle
  <1>5. runs'[r].started = clock + 1 /\ runs'[r].sighted = {}
    BY <1>1, <1>2 DEF TypeInv, TypeOK, Unborn
  <1>6. ASSUME NEW x \in Listings, offers[x] # None
        PROVE  Sound(offers[x]) /\ offers[x].last \in Nat /\ offers[x].last <= clock
    BY <1>6 DEF SweepInv, TypeInv, TypeOK, Offer
  <1>7. TimesTellSightings'
    <2>1. runs'[fetch'[f].run].started <= clock'
      BY <1>2, <1>4, <1>5
    <2>2. ASSUME NEW x \in Listings
          PROVE  x \in runs'[fetch'[f].run].sighted <=>
                   offers'[x] # None /\ offers'[x].last >= runs'[fetch'[f].run].started
      BY <1>2, <1>4, <1>5, <1>6
    <2>3. QED
      BY <1>3, <2>1, <2>2 DEF TimesTellSightings
  <1>8. RowsHeld' /\ InTurn'
    BY <1>2, <1>3 DEF RowsHeld, InTurn
  <1>9. \A x \in Listings : offers'[x] # None => Sound(offers'[x]) /\ offers'[x].last <= clock'
    BY <1>2, <1>6
  <1>10. QED
    BY <1>7, <1>8, <1>9 DEF SweepInv

LEMMA AskKeeps ==
    ASSUME TypeInv, SweepInv, NEW f \in Fetchers, NEW chunk, NEW resolved,
           Ask(f, chunk, resolved), fetch[f].pc \in {"reading", "resolving"}
    PROVE  SweepInv'
  <1> DEFINE q == [by |-> f, run |-> fetch[f].run, chunk |-> chunk, resolved |-> resolved,
                   rows |-> offers, items |-> runs[fetch[f].run].items]
  <1>1. requests' = requests \cup {q} /\ UNCHANGED <<clock, offers, runs>>
    BY DEF Ask
  <1>2. Active = {f} /\ requests = {}
    BY Alone DEF SweepInv, InTurn
  <1>3. fetch'[f].pc = "waiting" /\ fetch'[f].run = fetch[f].run /\ Active' = {f}
    BY <1>2 DEF Ask, Active, TypeInv, TypeOK, Fetch
  <1>4. TimesTellSightings'
    BY <1>1, <1>2, <1>3 DEF SweepInv, TimesTellSightings
  <1>5. q.run = fetch[f].run /\ q.rows = offers
    OBVIOUS
  <1> HIDE DEF q
  <1>6. RowsHeld'
    BY <1>1, <1>2, <1>5 DEF SweepInv, RowsHeld, TimesTellSightings
  <1>7. InTurn'
    BY <1>1, <1>2, <1>3, <1>5 DEF InTurn
  <1>8. QED
    BY <1>1, <1>4, <1>6, <1>7 DEF SweepInv

LEMMA AnswerKeeps ==
    ASSUME TypeInv, Awaited, SweepInv, NEW q \in requests,
           NEW deferred, NEW placed \in SUBSET q.chunk, NEW parked,
           ~Conflicts(q, placed), Answer(q, deferred, placed, parked)
    PROVE  SweepInv'
  <1>1. q \in Request /\ q.run \in RunIds /\ (\A p \in requests : p = q)
        /\ \A f \in Active : q.run = fetch[f].run
    BY DEF TypeInv, TypeOK, Request, SweepInv, InTurn
  <1>2. Active' = Active /\ \A f \in Active : fetch'[f].run = q.run
    <2>1. CASE q.by = None
      BY <1>1, <2>1 DEF Answer, Active
    <2>2. CASE q.by # None
      <3>1. q.by \in Fetchers /\ fetch[q.by].pc = "waiting"
        BY <2>2 DEF Awaited
      <3>2. QED
        BY <1>1, <2>2, <3>1 DEF Answer, Active, TypeInv, TypeOK, Fetch
    <2>3. QED
      BY <2>1, <2>2
  <1>3. placed \subseteq Listings
    BY <1>1 DEF Request
  <1>4. requests' = {} /\ clock' = clock /\ clock \in Nat
    BY <1>1 DEF Answer, TypeInv, TypeOK
  <1>5. runs'[q.run].started = runs[q.run].started
        /\ runs'[q.run].sighted = runs[q.run].sighted \cup placed
    BY <1>1 DEF Answer, TypeInv, TypeOK, Run
  <1>6. ASSUME NEW x \in Listings
        PROVE  offers'[x] = IF x \in placed THEN Recorded(q, x) ELSE offers[x]
    BY DEF Answer
  <1>7. ASSUME NEW x \in placed
        PROVE  /\ offers'[x] \in Offer /\ offers'[x].misses = 0 /\ offers'[x].current
               /\ offers'[x].last >= runs[q.run].started /\ offers'[x].last <= clock
    <2>1. x \in q.chunk /\ ~(q.rows[x] = None /\ offers[x] # None)
      BY DEF Conflicts
    <2>2. QED
      BY <1>3, <1>6, <2>1, RecordedStands
  <1>8. ASSUME NEW x \in Listings, offers'[x] # None
        PROVE  Sound(offers'[x]) /\ offers'[x].last <= clock'
    <2>1. CASE x \in placed
      BY <1>4, <1>7, <2>1, SyncAssumption DEF Sound
    <2>2. CASE x \notin placed
      BY <1>4, <1>6, <1>8, <2>2 DEF SweepInv
    <2>3. QED
      BY <2>1, <2>2
  <1>9. TimesTellSightings'
    <2>1. ASSUME NEW x \in Listings, Active # {}
          PROVE  x \in runs'[q.run].sighted <=>
                   offers'[x] # None /\ offers'[x].last >= runs'[q.run].started
      <3>1. CASE x \in placed
        BY <1>5, <1>7, <3>1, SyncAssumption
      <3>2. CASE x \notin placed
        BY <1>1, <1>5, <1>6, <2>1, <3>2 DEF SweepInv, TimesTellSightings
      <3>3. QED
        BY <3>1, <3>2
    <2>2. runs'[q.run].started <= clock'
      BY <1>1, <1>4, <1>5 DEF SweepInv, RowsHeld
    <2>3. QED
      BY <1>2, <2>1, <2>2 DEF TimesTellSightings
  <1>10. RowsHeld' /\ InTurn'
    BY <1>2, <1>4 DEF RowsHeld, InTurn, SweepInv
  <1>11. QED
    BY <1>8, <1>9, <1>10 DEF SweepInv

(* A sweep strikes an offer, or leaves it be. *)
LEMMA SweptIsSound ==
    ASSUME NEW row \in Offer, Sound(row), NEW t \in Nat
    PROVE  Sound(Swept(row, t)) /\ Swept(row, t).last = row.last
  <1>1. CASE row.current /\ row.last < t
    <2> DEFINE n == row.misses + 1
               stands == row.misses + 1 < MissLimit
    <2>1. n \in Nat /\ n <= MissLimit /\ (stands <=> n < MissLimit)
      BY <1>1, SyncAssumption DEF Sound, Offer
    <2>2. Swept(row, t) = [row EXCEPT !.misses = n, !.current = stands]
      BY <1>1, SyncAssumption DEF Swept
    <2> HIDE DEF n, stands
    <2>3. /\ Swept(row, t).misses = n
          /\ Swept(row, t).current = stands
          /\ Swept(row, t).last = row.last
      BY <2>2, Zenon DEF Offer
    <2>4. QED
      BY <2>1, <2>3 DEF Sound
  <1>2. CASE ~(row.current /\ row.last < t)
    BY <1>2 DEF Swept
  <1>3. QED
    BY <1>1, <1>2

LEMMA FinishKeeps ==
    ASSUME TypeInv, SweepInv, NEW f \in Fetchers, Finish(f)
    PROVE  SweepInv'
  <1>1. fetch[f].pc = "ending" /\ requests' = requests /\ fetch' = [fetch EXCEPT ![f] = Idle]
        /\ clock' = clock + 1 /\ clock \in Nat
    BY DEF Finish, TypeInv, TypeOK
  <1>2. Active = {f} /\ Active' = {}
    BY <1>1, Alone DEF Active, TypeInv, TypeOK, Idle
  <1>3. Verdict(f) = "ok" => requests = {}
    BY <1>1, <1>2 DEF SweepInv, InTurn, Verdict
  <1>4. runs[fetch[f].run].started \in Nat
    BY <1>1 DEF TypeInv, TypeOK, Driven, Run
  <1>5. ASSUME NEW x \in Listings, offers'[x] # None
        PROVE  Sound(offers'[x]) /\ offers'[x].last <= clock'
    <2>1. CASE offers[x] = None
      BY <1>5, <2>1 DEF Finish, Swept
    <2>2. CASE offers[x] # None
      <3>1. offers[x] \in Offer /\ Sound(offers[x]) /\ offers[x].last <= clock
        BY <2>2 DEF TypeInv, TypeOK, SweepInv
      <3>2. offers'[x] = offers[x] \/ offers'[x] = Swept(offers[x], runs[fetch[f].run].started)
        BY DEF Finish
      <3>3. Sound(offers'[x]) /\ offers'[x].last = offers[x].last
        BY <1>4, <3>1, <3>2, SweptIsSound
      <3>4. QED
        BY <1>1, <3>1, <3>3 DEF Offer
    <2>3. QED
      BY <2>1, <2>2
  <1>6. RowsHeld'
    <2>1. CASE requests = {}
      BY <1>1, <2>1 DEF RowsHeld
    <2>2. CASE requests # {}
      <3>1. offers' = offers
        BY <1>3, <2>2 DEF Finish
      <3>2. \A r \in RunIds : runs'[r].started = runs[r].started
        BY DEF Finish, TypeInv, TypeOK, Run
      <3>3. \A q \in requests : q.run \in RunIds /\ runs[q.run].started \in Nat
        BY DEF TypeInv, TypeOK, Request, Run
      <3>4. QED
        BY <1>1, <3>1, <3>2, <3>3 DEF SweepInv, RowsHeld
    <2>3. QED
      BY <2>1, <2>2
  <1>7. InTurn'
    BY <1>1, <1>2 DEF SweepInv, InTurn
  <1>8. QED
    BY <1>2, <1>5, <1>6, <1>7 DEF SweepInv, TimesTellSightings

LEMMA RuleKeeps ==
    ASSUME TypeInv, SweepInv, NEW x \in Listings, Rule(x)
    PROVE  SweepInv'
  <1>1. CASE UNCHANGED <<offers, runs>>
    BY <1>1 DEF Rule, SweepInv, TimesTellSightings, RowsHeld, InTurn, Active
  <1>2. CASE /\ offers' = [offers EXCEPT ![x] = Seen(clock)]
             /\ runs' = [r \in RunIds |-> IF \E f \in Fetchers : fetch[f].run = r
                           THEN [runs[r] EXCEPT !.sighted = @ \cup {x}] ELSE runs[r]]
    <2>1. UNCHANGED <<clock, requests, fetch>> /\ clock \in Nat /\ Active' = Active
      BY DEF Rule, TypeInv, TypeOK, Active
    <2>2. offers'[x] = Seen(clock) /\ \A y \in Listings \ {x} : offers'[y] = offers[y]
      BY <1>2 DEF TypeInv, TypeOK
    <2>3. offers'[x] # None /\ offers'[x].last = clock /\ offers'[x].misses = 0
          /\ offers'[x].current
      <3>1. Seen(clock) \in Offer
        BY <2>1 DEF Seen, Offer
      <3>2. Seen(clock).last = clock /\ Seen(clock).misses = 0 /\ Seen(clock).current
        BY Zenon DEF Seen
      <3>3. QED
        BY <2>2, <3>1, <3>2, SyncAssumption
    <2>4. Sound(offers'[x])
      BY <2>3, SyncAssumption DEF Sound
    <2>5. ASSUME NEW f \in Active
          PROVE  /\ runs'[fetch[f].run].started = runs[fetch[f].run].started
                 /\ runs'[fetch[f].run].sighted = runs[fetch[f].run].sighted \cup {x}
      BY <1>2 DEF Active, Driven, TypeInv, TypeOK, Run
    <2>6. TimesTellSightings'
      <3>1. ASSUME NEW f \in Active
            PROVE  /\ runs'[fetch[f].run].started <= clock
                   /\ \A y \in Listings : y \in runs'[fetch[f].run].sighted <=>
                        offers'[y] # None /\ offers'[y].last >= runs'[fetch[f].run].started
        <4>1. runs[fetch[f].run].started <= clock
          BY DEF SweepInv, TimesTellSightings
        <4>2. ASSUME NEW y \in Listings \ {x}
              PROVE  y \in runs[fetch[f].run].sighted <=>
                        offers[y] # None /\ offers[y].last >= runs[fetch[f].run].started
          BY DEF SweepInv, TimesTellSightings
        <4>3. QED
          BY <2>2, <2>3, <2>5, <4>1, <4>2
      <3>2. QED
        BY <2>1, <3>1 DEF TimesTellSightings
    <2>7. RowsHeld'
      <3>1. ASSUME NEW q \in requests PROVE runs'[q.run].started = runs[q.run].started
                                            /\ runs[q.run].started <= clock
        BY <1>2 DEF TypeInv, TypeOK, Request, Run, SweepInv, RowsHeld
      <3>2. QED
        BY <2>1, <2>2, <2>3, <3>1 DEF SweepInv, RowsHeld
    <2>8. InTurn'
      BY <2>1 DEF SweepInv, InTurn
    <2>9. QED
      BY <2>1, <2>2, <2>3, <2>4, <2>6, <2>7, <2>8 DEF SweepInv
  <1>3. QED
    BY <1>1, <1>2 DEF Rule

LEMMA CloseAbandonedKeeps ==
    ASSUME TypeInv, SweepInv, NEW r \in RunIds, CloseAbandoned(r)
    PROVE  SweepInv'
  <1>1. \A s \in RunIds : runs'[s].started = runs[s].started /\ runs'[s].sighted = runs[s].sighted
    BY DEF CloseAbandoned, TypeInv, TypeOK, Run
  <1>2. UNCHANGED <<clock, offers, requests, fetch>> /\ Active' = Active
    BY DEF CloseAbandoned, Active
  <1>3. TimesTellSightings'
    BY <1>1, <1>2 DEF SweepInv, TimesTellSightings, Active, TypeInv, Driven
  <1>4. RowsHeld'
    BY <1>1, <1>2 DEF SweepInv, RowsHeld, TypeInv, TypeOK, Request
  <1>5. InTurn'
    BY <1>2 DEF SweepInv, InTurn
  <1>6. QED
    BY <1>2, <1>3, <1>4, <1>5 DEF SweepInv

LEMMA SweepNext ==
    ASSUME OneClock, TypeInv, Awaited, SweepInv, Next, Apart
    PROVE  SweepInv'
  <1>1. ASSUME NEW f \in Fetchers, OfferChunk(f) \/ OfferResolved(f) PROVE SweepInv'
    BY <1>1, AskKeeps DEF OfferChunk, OfferResolved
  <1>2. ASSUME NEW f \in Fetchers, Fail(f), fetch[f].pc # "idle"
        PROVE  \A g \in Fetchers : fetch'[g].pc # "idle" =>
                 /\ fetch[g].pc # "idle" /\ fetch'[g].run = fetch[g].run
                 /\ \/ fetch'[g] = fetch[g]
                    \/ fetch'[g].pc = "ending" /\ fetch'[g].verdict = "failed"
    BY <1>2 DEF Fail, TypeInv, TypeOK, Fetch
  <1>3. ASSUME NEW f \in Fetchers, fetch' = [fetch EXCEPT ![f] = Idle]
        PROVE  \A g \in Fetchers : fetch'[g].pc # "idle" => fetch'[g] = fetch[g]
    BY <1>3 DEF TypeInv, TypeOK, Idle
  <1>4. ASSUME NEW f \in Fetchers,
               Refused(f) \/ EndOfStream(f) \/ PluginFails(f) \/ FinishFails(f)
        PROVE  SweepInv'
    <2>1. UNCHANGED <<clock, offers, runs, requests>> /\ fetch[f].pc # "idle"
      BY <1>4 DEF Refused, EndOfStream, PluginFails, FinishFails
    <2>2. Remain /\ \A p, q \in requests' : p = q
      BY <2>1 DEF Remain, SweepInv, InTurn
    <2>3. CASE EndOfStream(f)
      <3>1. requests' = {}
        BY <2>1, <2>3, Alone DEF EndOfStream, SweepInv, InTurn
      <3>2. \A g \in Fetchers : fetch'[g].pc # "idle" => fetch[g].pc # "idle" /\ fetch'[g].run = fetch[g].run
        BY <2>1, <2>3 DEF EndOfStream, TypeInv, TypeOK, Fetch
      <3>3. QED
        BY <2>1, <2>2, <3>1, <3>2, QuietKeeps
    <2>4. CASE Fail(f)
      BY <1>2, <2>1, <2>2, <2>4, QuietKeeps
    <2>5. CASE fetch' = [fetch EXCEPT ![f] = Idle]
      BY <1>3, <2>1, <2>2, <2>5, QuietKeeps
    <2>6. QED
      BY <1>4, <2>3, <2>4, <2>5 DEF Refused, PluginFails, FinishFails
  <1>5. ASSUME NEW f \in Fetchers, GiveUp(f) PROVE SweepInv'
    <2>1. PICK q \in requests : requests' = requests \ {q}
                               \/ requests' = (requests \ {q}) \cup {[q EXCEPT !.by = None]}
      BY <1>5 DEF GiveUp
    <2>2. requests = {q}
      BY DEF SweepInv, InTurn
    <2>3. Remain /\ \A p, s \in requests' : p = s
      BY <2>1, <2>2 DEF Remain
    <2>4. UNCHANGED <<clock, offers, runs>> /\ Fail(f) /\ fetch[f].pc # "idle"
      BY <1>5 DEF GiveUp
    <2>5. QED
      BY <1>2, <2>3, <2>4, QuietKeeps
  <1>6. ASSUME NEW f \in Fetchers, Crash(f) PROVE SweepInv'
    <2> DEFINE mine == {q \in requests : q.by = f}
    <2>1. \/ requests' = requests \ mine
          \/ requests' = (requests \ mine) \cup {[q EXCEPT !.by = None] : q \in mine}
      BY <1>6 DEF Crash
    <2>2. \A p, q \in requests : p = q
      BY DEF SweepInv, InTurn
    <2>3. Remain /\ \A p, s \in requests' : p = s
      BY <2>1, <2>2 DEF Remain
    <2>4. UNCHANGED <<clock, offers, runs>> /\ fetch' = [fetch EXCEPT ![f] = Idle]
      BY <1>6 DEF Crash
    <2>5. QED
      BY <1>3, <2>3, <2>4, QuietKeeps
  <1>7. ASSUME NEW q \in requests, Commit(q) PROVE SweepInv'
    BY <1>7, AnswerKeeps DEF Commit
  <1>8. ASSUME NEW q \in requests, Clash(q) PROVE SweepInv'
    <2>1. requests' = {} /\ Remain /\ UNCHANGED <<clock, offers, runs>>
      BY <1>8 DEF Clash, Remain, SweepInv, InTurn
    <2>2. CASE q.by = None
      BY <1>8, <2>1, <2>2, QuietKeeps DEF Clash
    <2>3. CASE q.by # None
      <3>1. q.by \in Fetchers /\ fetch[q.by].pc # "idle" /\ Fail(q.by)
        BY <1>8, <2>3 DEF Awaited, Clash
      <3>2. QED
        BY <1>2, <2>1, <3>1, QuietKeeps
    <2>4. QED
      BY <2>2, <2>3
  <1>9. QED
    BY <1>1, <1>4, <1>5, <1>6, <1>7, <1>8, BeginKeeps, FinishKeeps, RuleKeeps, CloseAbandonedKeeps
       DEF Next

-----------------------------------------------------------------------------
(* Every step of the sync is a step of the promise, or none.               *)

LEMMA SightedByOne ==
    ASSUME NEW f \in Fetchers, Active = {f}
    PROVE  SightedNow = runs[fetch[f].run].sighted
  BY DEF SightedNow

LEMMA SightedByNone == Active = {} => SightedNow = {}
  BY DEF SightedNow

(* A sweep is a strike against a standing offer that was not sighted.      *)
LEMMA SweepStrikes ==
    ASSUME NEW row \in Offer \cup {None}, row # None => Sound(row), NEW t \in Nat
    PROVE  StrikesOn(Swept(row, t)) =
             IF (row # None => row.last < t) /\ StrikesOn(row) \in 0 .. MissLimit - 1
             THEN StrikesOn(row) + 1 ELSE StrikesOn(row)
  <1>1. CASE row = None
    BY <1>1 DEF Swept, StrikesOn
  <1>2. CASE row # None /\ ~row.current
    <2>1. StrikesOn(row) = MissLimit /\ Swept(row, t) = row
      BY <1>2 DEF StrikesOn, Swept
    <2>2. QED
      BY <2>1, SyncAssumption
  <1>3. CASE row # None /\ row.current /\ ~(row.last < t)
    BY <1>3 DEF StrikesOn, Swept
  <1>4. CASE row # None /\ row.current /\ row.last < t
    <2> DEFINE n == row.misses + 1
               stands == row.misses + 1 < MissLimit
    <2>1. n \in Nat /\ row.misses \in 0 .. MissLimit - 1 /\ n <= MissLimit /\ (stands <=> n < MissLimit)
      BY <1>4, SyncAssumption DEF Sound, Offer
    <2>2. StrikesOn(row) = row.misses
      BY <1>4 DEF StrikesOn
    <2>3. Swept(row, t) = [row EXCEPT !.misses = n, !.current = stands]
      BY <1>4, SyncAssumption DEF Swept
    <2>4. Swept(row, t) # None
      BY <1>4, SweptKeepsRows, SyncAssumption
    <2> HIDE DEF n, stands
    <2>5. Swept(row, t).misses = n /\ Swept(row, t).current = stands
      BY <1>4, <2>3, Zenon DEF Offer
    <2>6. StrikesOn(Swept(row, t)) = n
      <3>1. StrikesOn(Swept(row, t)) = IF stands THEN n ELSE MissLimit
        BY <2>4, <2>5, Zenon DEF StrikesOn
      <3>2. QED
        BY <2>1, <3>1, SyncAssumption
    <2>7. QED
      BY <1>4, <2>1, <2>2, <2>6 DEF n
  <1>5. QED
    BY <1>1, <1>2, <1>3, <1>4

LEMMA BeginMaps ==
    ASSUME TypeInv, SweepInv, NEW f \in Fetchers, Begin(f), Apart
    PROVE  Promise!StartSync
  <1>1. PICK r \in RunIds, skew \in Skews, stream \in SUBSET Listings :
          /\ runs[r].status = "unborn"
          /\ clock' + skew \in Nat
          /\ runs' = [runs EXCEPT ![r] =
                       [Unborn EXCEPT !.status = "running", !.started = clock' + skew, !.read = stream]]
          /\ fetch' = [fetch EXCEPT ![f] =
                        [Idle EXCEPT !.pc = "reading", !.run = r, !.todo = stream]]
    BY BeginRow
  <1>2. Active = {} /\ UNCHANGED offers
    BY DEF Begin, Apart, Underway
  <1>3. fetch'[f].pc = "reading" /\ fetch'[f].run = r /\ runs'[r].sighted = {}
    BY <1>1 DEF TypeInv, TypeOK, Idle, Unborn
  <1>4. Active' = {f}
    BY <1>1, <1>2, <1>3 DEF Active, TypeInv, TypeOK
  <1>5. SightedNow' = {}
    BY <1>3, <1>4 DEF SightedNow
  <1>6. QED
    BY <1>2, <1>4, <1>5 DEF Promise!StartSync

(* Steps that change neither the offers, nor what was sighted, nor whether *)
(* the fetcher is at work.                                                 *)
LEMMA QuietMaps ==
    ASSUME UNCHANGED offers, Active' = Active,
           \A f \in Active : runs'[fetch'[f].run].sighted = runs[fetch[f].run].sighted
    PROVE  UNCHANGED Promise!twoStrikesVars
  <1>1. SightedNow' = SightedNow
    BY DEF SightedNow
  <1>2. QED
    BY <1>1 DEF Promise!twoStrikesVars

LEMMA AnswerMaps ==
    ASSUME TypeInv, Awaited, SweepInv, NEW q \in requests,
           NEW deferred, NEW placed \in SUBSET q.chunk, NEW parked,
           ~Conflicts(q, placed), Answer(q, deferred, placed, parked)
    PROVE  Promise!Sight
  <1>1. q \in Request /\ q.run \in RunIds /\ placed \subseteq Listings
        /\ \A f \in Active : q.run = fetch[f].run
    BY DEF TypeInv, TypeOK, Request, SweepInv, InTurn
  <1>2. Active' = Active /\ \A f \in Active : fetch'[f].run = q.run
    <2>1. CASE q.by = None
      BY <1>1, <2>1 DEF Answer, Active
    <2>2. CASE q.by # None
      <3>1. q.by \in Fetchers /\ fetch[q.by].pc = "waiting"
        BY <2>2 DEF Awaited
      <3>2. QED
        BY <1>1, <2>2, <3>1 DEF Answer, Active, TypeInv, TypeOK, Fetch
    <2>3. QED
      BY <2>1, <2>2
  <1>3. runs'[q.run].sighted = runs[q.run].sighted \cup placed
    BY <1>1 DEF Answer, TypeInv, TypeOK, Run
  <1>4. SightedNow = (IF Active # {} THEN runs[q.run].sighted ELSE {})
    BY <1>1 DEF SightedNow
  <1>5. SightedNow' = (IF Active # {} THEN SightedNow \cup placed ELSE {})
    <2>1. SightedNow' = (IF Active # {} THEN runs'[q.run].sighted ELSE {})
      BY <1>2 DEF SightedNow
    <2>2. QED
      BY <1>3, <1>4, <2>1
  <1>6. ASSUME NEW x \in Listings
        PROVE  StrikesOn(offers[x])' = IF x \in placed THEN 0 ELSE StrikesOn(offers[x])
    <2>1. CASE x \in placed
      <3>1. ~(q.rows[x] = None /\ offers[x] # None) /\ x \in q.chunk
        BY <2>1 DEF Conflicts
      <3>2. Recorded(q, x) \in Offer /\ Recorded(q, x).misses = 0 /\ Recorded(q, x).current
        BY <3>1, RecordedStands
      <3>3. offers'[x] = Recorded(q, x)
        BY <2>1 DEF Answer
      <3>4. QED
        BY <2>1, <3>2, <3>3, SyncAssumption DEF StrikesOn
    <2>2. CASE x \notin placed
      BY <2>2 DEF Answer
    <2>3. QED
      BY <2>1, <2>2
  <1>7. QED
    BY <1>1, <1>2, <1>5, <1>6 DEF Promise!Sight

LEMMA RuleMaps ==
    ASSUME TypeInv, SweepInv, NEW x \in Listings, Rule(x)
    PROVE  Promise!Sight \/ UNCHANGED Promise!twoStrikesVars
  <1>1. CASE UNCHANGED <<offers, runs>>
    BY <1>1, QuietMaps DEF Rule, Active
  <1>2. CASE /\ offers' = [offers EXCEPT ![x] = Seen(clock)]
             /\ runs' = [r \in RunIds |-> IF \E f \in Fetchers : fetch[f].run = r
                           THEN [runs[r] EXCEPT !.sighted = @ \cup {x}] ELSE runs[r]]
    <2>1. Active' = Active /\ fetch' = fetch
      BY DEF Rule, Active
    <2>2. ASSUME NEW f \in Active
          PROVE  runs'[fetch[f].run].sighted = runs[fetch[f].run].sighted \cup {x}
      BY <1>2 DEF Active, Driven, TypeInv, TypeOK, Run
    <2>3. SightedNow' = IF Active # {} THEN SightedNow \cup {x} ELSE {}
      BY <2>1, <2>2 DEF SightedNow
    <2>4. Seen(clock) # None /\ Seen(clock).misses = 0 /\ Seen(clock).current
      <3>1. Seen(clock) \in Offer
        BY DEF Seen, Offer, TypeInv, TypeOK
      <3>2. QED
        BY <3>1, SyncAssumption, Zenon DEF Seen
    <2>5. ASSUME NEW y \in Listings
          PROVE  StrikesOn(offers[y])' = IF y \in {x} THEN 0 ELSE StrikesOn(offers[y])
      <3>1. CASE y = x
        <4>1. offers'[y] = Seen(clock)
          BY <1>2, <3>1 DEF TypeInv, TypeOK
        <4>2. QED
          BY <2>4, <3>1, <4>1 DEF StrikesOn
      <3>2. CASE y # x
        BY <1>2, <3>2 DEF TypeInv, TypeOK
      <3>3. QED
        BY <3>1, <3>2
    <2>6. QED
      BY <2>1, <2>3, <2>5 DEF Promise!Sight
  <1>3. QED
    BY <1>1, <1>2 DEF Rule

LEMMA FinishMaps ==
    ASSUME TypeInv, SweepInv, NEW f \in Fetchers, Finish(f)
    PROVE  Promise!Believe \/ Promise!Disbelieve
  <1> DEFINE t == runs[fetch[f].run].started
  <1>1. Active = {f} /\ Active' = {} /\ SightedNow' = {}
    <2>1. Active = {f}
      BY Alone DEF Finish
    <2>2. Active' = {}
      BY <2>1 DEF Finish, Active, TypeInv, TypeOK, Idle
    <2>3. QED
      BY <2>1, <2>2 DEF SightedNow
  <1>2. CASE Verdict(f) # "ok"
    BY <1>1, <1>2 DEF Finish, Promise!Disbelieve
  <1>3. CASE Verdict(f) = "ok"
    <2>1. t \in Nat
      BY DEF Finish, TypeInv, TypeOK, Driven, Run
    <2>2. ASSUME NEW x \in Listings
          PROVE  StrikesOn(offers[x])' =
                   IF x \notin SightedNow /\ StrikesOn(offers[x]) \in 0 .. MissLimit - 1
                   THEN StrikesOn(offers[x]) + 1 ELSE StrikesOn(offers[x])
      <3>1. offers'[x] = Swept(offers[x], t)
        BY <1>3 DEF Finish
      <3>2. x \in SightedNow <=> offers[x] # None /\ offers[x].last >= t
        BY <1>1, SightedByOne DEF SweepInv, TimesTellSightings
      <3>3. offers[x] \in Offer \cup {None} /\ (offers[x] # None => Sound(offers[x]))
        BY DEF TypeInv, TypeOK, SweepInv
      <3>4. (offers[x] # None => offers[x].last < t) <=> x \notin SightedNow
        BY <2>1, <3>2, <3>3 DEF Offer
      <3>5. StrikesOn(Swept(offers[x], t)) =
              IF (offers[x] # None => offers[x].last < t)
                 /\ StrikesOn(offers[x]) \in 0 .. MissLimit - 1
              THEN StrikesOn(offers[x]) + 1 ELSE StrikesOn(offers[x])
        BY <2>1, <3>3, SweepStrikes
      <3>6. QED
        BY <3>1, <3>4, <3>5
    <2>3. QED
      BY <1>1, <2>2 DEF Promise!Believe
  <1>4. QED
    BY <1>2, <1>3

LEMMA NextMaps ==
    ASSUME TypeInv, Awaited, SweepInv, Next, Apart
    PROVE  Promise!TwoStrikesNext \/ UNCHANGED Promise!twoStrikesVars
  <1>1. ASSUME NEW f \in Fetchers,
               OfferChunk(f) \/ OfferResolved(f) \/ Refused(f) \/ EndOfStream(f)
               \/ PluginFails(f) \/ GiveUp(f)
        PROVE  UNCHANGED Promise!twoStrikesVars
    <2>1. UNCHANGED <<offers, runs>> /\ fetch[f].pc # "idle"
      BY <1>1 DEF OfferChunk, OfferResolved, Ask, Refused, EndOfStream, PluginFails, GiveUp
    <2>2. fetch'[f].pc # "idle" /\ fetch'[f].run = fetch[f].run
      <3>1. CASE Fail(f)
        BY <3>1 DEF Fail, TypeInv, TypeOK, Fetch
      <3>2. CASE EndOfStream(f)
        BY <3>2 DEF EndOfStream, TypeInv, TypeOK, Fetch
      <3>3. ASSUME NEW chunk, NEW resolved, Ask(f, chunk, resolved)
            PROVE  fetch'[f].pc # "idle" /\ fetch'[f].run = fetch[f].run
        BY <3>3 DEF Ask, TypeInv, TypeOK, Fetch
      <3>4. QED
        BY <1>1, <3>1, <3>2, <3>3
           DEF OfferChunk, OfferResolved, Refused, PluginFails, GiveUp
    <2>3. Active = {f} /\ \A g \in Fetchers : g # f => fetch'[g] = fetch[g]
      BY <1>1, <2>1, Alone DEF OfferChunk, OfferResolved, Ask, Refused, EndOfStream, PluginFails, GiveUp, Fail,
         TypeInv, TypeOK
    <2>4. Active' = Active
      BY <2>2, <2>3 DEF Active
    <2>5. QED
      BY <2>1, <2>2, <2>3, <2>4, QuietMaps
  <1>2. ASSUME NEW f \in Fetchers, FinishFails(f) \/ Crash(f) PROVE Promise!Disbelieve
    <2>1. Active = {f} /\ UNCHANGED offers
      BY <1>2, Alone DEF FinishFails, Crash
    <2>2. Active' = {}
      BY <1>2, <2>1 DEF FinishFails, Crash, Active, TypeInv, TypeOK, Idle
    <2>3. SightedNow' = {}
      BY <2>2 DEF SightedNow
    <2>4. QED
      BY <2>1, <2>2, <2>3 DEF Promise!Disbelieve
  <1>3. ASSUME NEW q \in requests, Commit(q) PROVE Promise!Sight
    BY <1>3, AnswerMaps DEF Commit
  <1>4. ASSUME NEW q \in requests, Clash(q) PROVE UNCHANGED Promise!twoStrikesVars
    <2>1. UNCHANGED <<offers, runs>>
      BY <1>4 DEF Clash
    <2>2. CASE q.by = None
      BY <1>4, <2>1, <2>2, QuietMaps DEF Clash, Active
    <2>3. CASE q.by # None
      <3>1. q.by \in Fetchers /\ fetch[q.by].pc = "waiting" /\ Fail(q.by)
        BY <1>4, <2>3 DEF Awaited, Clash
      <3>2. \A g \in Fetchers : fetch'[g].run = fetch[g].run
                              /\ (fetch'[g].pc # "idle" <=> fetch[g].pc # "idle")
        BY <3>1 DEF Fail, TypeInv, TypeOK, Fetch
      <3>3. Active' = Active
        BY <3>2 DEF Active
      <3>4. QED
        BY <2>1, <3>2, <3>3, QuietMaps DEF Active
    <2>4. QED
      BY <2>2, <2>3
  <1>5. ASSUME NEW r \in RunIds, CloseAbandoned(r) PROVE UNCHANGED Promise!twoStrikesVars
    <2>1. \A s \in RunIds : runs'[s].sighted = runs[s].sighted
      BY <1>5 DEF CloseAbandoned, TypeInv, TypeOK, Run
    <2>2. UNCHANGED <<offers, fetch>> /\ Active' = Active
      BY <1>5 DEF CloseAbandoned, Active
    <2>3. \A f \in Active : fetch[f].run \in RunIds
      BY DEF Active, TypeInv, Driven
    <2>4. QED
      BY <2>1, <2>2, <2>3, QuietMaps
  <1>6. QED
    BY <1>1, <1>2, <1>3, <1>4, <1>5, BeginMaps, RuleMaps, FinishMaps
       DEF Next, Promise!TwoStrikesNext

(* Of runs that do not overlap - none is begun while a fetcher is at work, *)
(* or a request that outlived one - and are dated by one clock: the        *)
(* timestamps, columns, chunks and deferrals of the code come to this,     *)
(* whoever crashes or gives up.  A sync that ends believed strikes exactly *)
(* the standing offers it did not sight, one that does not strikes none,   *)
(* and a sighting wipes the strikes (KeepsTwoStrikes).                     *)
THEOREM SyncKeepsTwoStrikes ==
    ASSUME OneClock PROVE Spec /\ [][Apart]_vars => KeepsTwoStrikes
  <1>1. Init => TypeInv /\ Awaited /\ SweepInv
    BY TypeInit, AwaitedInit, SweepInit
  <1>2. TypeInv /\ Awaited /\ SweepInv /\ [Next]_vars /\ [Apart]_vars
          => (TypeInv /\ Awaited /\ SweepInv)'
    <2>1. CASE Next /\ Apart
      BY <2>1, TypeNext, AwaitedNext, SweepNext
    <2>2. CASE UNCHANGED vars
      BY <2>2 DEF vars, TypeInv, TypeOK, RowsKept, Driven, Awaited, SweepInv,
                  TimesTellSightings, RowsHeld, InTurn, Active
    <2>3. QED
      BY <2>1, <2>2
  <1>3. Init => Promise!TwoStrikesInit
    <2>1. Init => Active = {}
      BY DEF Init, Active, Idle
    <2>2. Init => \A x \in Listings : StrikesOn(offers[x]) = None
      BY DEF Init, StrikesOn
    <2>3. QED
      BY <2>1, <2>2, SightedByNone DEF Promise!TwoStrikesInit
  <1>4. TypeInv /\ Awaited /\ SweepInv /\ [Next]_vars /\ [Apart]_vars
          => [Promise!TwoStrikesNext]_Promise!twoStrikesVars
    <2>1. CASE Next /\ Apart
      BY <2>1, NextMaps
    <2>2. CASE UNCHANGED vars
      <3>1. UNCHANGED <<offers, runs, fetch>> /\ Active' = Active
        BY <2>2 DEF vars, Active
      <3>2. UNCHANGED Promise!twoStrikesVars
        BY <3>1, QuietMaps
      <3>3. QED
        BY <3>2
    <2>3. QED
      BY <2>1, <2>2
  <1>5. QED
    BY <1>1, <1>2, <1>3, <1>4, PTL DEF Spec, KeepsTwoStrikes, Promise!TwoStrikesSpec
=============================================================================
