----------------------------- MODULE Politeness -----------------------------
(***************************************************************************)
(* How the threads that read catalogs share the hosts they read from: the  *)
(* RateLimiter and the retries of HttpClient (eifo_fetcher/http.py), and   *)
(* the pages a BrowserSession loads under the same limiter (browser.py).   *)
(*                                                                         *)
(* Time passes in ticks.  A thread is given its slot under the limiter's   *)
(* lock and sleeps until then without it; it may wake up late.             *)
(***************************************************************************)
EXTENDS Naturals, Sequences, FiniteSets, FiniteSetsExt

CONSTANTS
    Readers, Hosts,
    DefaultInterval,    \* ticks between two requests to a host
    Overrides,          \* by host, the intervals plugins may set; 0 is none
    Attempts, Reloads,  \* of a request, and of a page that is blocked
    Backoff,            \* by failed attempts so far: the ticks tenacity may add
    SettleTime,             \* what a blocked page is given before it is reloaded
    RetryAfters,        \* what a server may ask for; 0 for nothing usable
    MaxTime, MaxSent,   \* bounds
    None

PolitenessAssumption ==
    /\ DefaultInterval \in Nat \ {0} /\ \A h \in Hosts : Overrides[h] \subseteq Nat
    /\ Attempts \in Nat \ {0} /\ Reloads \in Nat \ {0} /\ SettleTime \in Nat
    /\ \A n \in 1 .. Attempts : Backoff[n] \subseteq Nat
    /\ RetryAfters \subseteq Nat /\ MaxTime \in Nat /\ MaxSent \in Nat

VARIABLES
    now,
    overrides,     \* _overrides
    nextAllowed,   \* _next_allowed
    req,           \* what each reader is at
    sent,          \* history: when each host was sent a request
    spacing        \* history: the shortest interval a host has had

vars == <<now, overrides, nextAllowed, req, sent, spacing>>

Idle == [pc |-> "idle", host |-> None, browser |-> FALSE, attempt |-> 0, until |-> 0, asked |-> 0]
Request == [pc : {"idle", "waiting", "sleeping", "sent", "resting"}, host : Hosts \cup {None},
            browser : BOOLEAN, attempt : 0 .. Max({Attempts, Reloads}), until : Nat, asked : Nat]

TypeOK ==
    /\ now \in 0 .. MaxTime
    /\ overrides \in [Hosts -> Nat \cup {None}]
    /\ nextAllowed \in [Hosts -> Nat] /\ spacing \in [Hosts -> Nat]
    /\ req \in [Readers -> Request]
    /\ sent \in [Hosts -> Seq(0 .. MaxTime)]

Init ==
    /\ now = 0
    /\ overrides = [h \in Hosts |-> None]
    /\ nextAllowed = [h \in Hosts |-> 0]
    /\ req = [r \in Readers |-> Idle]
    /\ sent = [h \in Hosts |-> <<>>]
    /\ spacing = [h \in Hosts |-> DefaultInterval]

At(r, pc) == req[r].pc = pc

(* _interval.                                                              *)
Interval(h) == IF overrides[h] = None THEN DefaultInterval ELSE overrides[h]

-----------------------------------------------------------------------------

(* set_host_rate, by a plugin or the client of TMDB before it asks.        *)
SetHostRate(r, h) ==
    /\ At(r, "idle")
    /\ \E i \in Overrides[h] :
          /\ overrides' = [overrides EXCEPT ![h] = i]
          /\ spacing' = [spacing EXCEPT ![h] = Min({@, i})]
    /\ UNCHANGED <<now, nextAllowed, req, sent>>

(* get, or get_html: attempt is the one that comes.                        *)
Get(r, h, browser) ==
    /\ At(r, "idle")
    /\ req' = [req EXCEPT ![r] =
          [Idle EXCEPT !.pc = "waiting", !.host = h, !.browser = browser, !.attempt = 1]]
    /\ UNCHANGED <<now, overrides, nextAllowed, sent, spacing>>

SlipForgetsQueue(h) == now + Interval(h)

(* The slot after the one that is given now.                               *)
NextSlot(h) == Max({now, nextAllowed[h]}) + Interval(h)

(* wait, as far as the lock is held.                                       *)
Wait(r) ==
    LET h == req[r].host IN
    /\ At(r, "waiting")
    /\ req' = [req EXCEPT ![r].pc = "sleeping",
                          ![r].until = IF Interval(h) = 0 THEN now ELSE Max({now, nextAllowed[h]})]
    /\ nextAllowed' = IF Interval(h) = 0 THEN nextAllowed
                      ELSE [nextAllowed EXCEPT ![h] = NextSlot(h)]
    /\ UNCHANGED <<now, overrides, sent, spacing>>

Send(r) ==
    LET h == req[r].host IN
    /\ At(r, "sleeping") /\ now >= req[r].until
    /\ Len(sent[h]) < MaxSent
    /\ sent' = [sent EXCEPT ![h] = Append(@, now)]
    /\ req' = [req EXCEPT ![r].pc = "sent"]
    /\ UNCHANGED <<now, overrides, nextAllowed, spacing>>

(* An answer, or an error that is not tried again.                         *)
Done(r) ==
    /\ At(r, "sent")
    /\ req' = [req EXCEPT ![r] = Idle]
    /\ UNCHANGED <<now, overrides, nextAllowed, sent, spacing>>

SlipBacksOffOnly(r, asks, backs) == backs

(* The time until the next attempt: _honour_retry_after comes before       *)
(* tenacity's own sleep.                                                   *)
Rest(r, asks, backs) == asks + backs

Last(r) == req[r].attempt >= (IF req[r].browser THEN Reloads ELSE Attempts)

(* RETRYABLE_STATUS or a transport error; a page of the bot management.    *)
TryAgain(r) ==
    /\ At(r, "sent")
    /\ \E asks \in IF req[r].browser THEN {0} ELSE RetryAfters,
          backs \in IF req[r].browser THEN {SettleTime} ELSE Backoff[req[r].attempt] :
          req' = [req EXCEPT ![r] =
             IF Last(r) THEN Idle
             ELSE [@ EXCEPT !.pc = "resting", !.attempt = @ + 1, !.until = now + Rest(r, asks, backs),
                            !.asked = now + asks]]
    /\ UNCHANGED <<now, overrides, nextAllowed, sent, spacing>>

Resume(r) ==
    /\ At(r, "resting") /\ now >= req[r].until
    /\ req' = [req EXCEPT ![r].pc = "waiting"]
    /\ UNCHANGED <<now, overrides, nextAllowed, sent, spacing>>

Tick ==
    /\ now < MaxTime /\ now' = now + 1
    /\ UNCHANGED <<overrides, nextAllowed, req, sent, spacing>>

Next ==
    \/ \E r \in Readers :
          \/ \E h \in Hosts : SetHostRate(r, h) \/ \E b \in BOOLEAN : Get(r, h, b)
          \/ Wait(r) \/ Send(r) \/ Done(r) \/ TryAgain(r) \/ Resume(r)
    \/ Tick

Spec == Init /\ [][Next]_vars

-----------------------------------------------------------------------------

(* However many threads read from a host, in any stretch of time it is     *)
(* asked no more often than its rate allows, and once more for each thread *)
(* that woke up late; and nobody who was asked to wait is back before.     *)
(* (RateLimiter: "what keeps that from becoming several times the traffic  *)
(* at one host"; http.py: "Retry-After honoured on 429s").                 *)
HostsAreSpared ==
    /\ \A h \in Hosts : spacing[h] > 0 =>
          \A i, j \in DOMAIN sent[h] : i <= j =>
             j - i + 1 <= (sent[h][j] - sent[h][i]) \div spacing[h] + 1 + Cardinality(Readers)
    /\ \A r \in Readers : At(r, "sent") => now >= req[r].asked
=============================================================================
