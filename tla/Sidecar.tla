------------------------------ MODULE Sidecar ------------------------------
(***************************************************************************)
(* The companion in the menu bar: its worker thread (sidecar/src/worker.rs)*)
(* with the server, the fetches and the update it starts (procs.rs), the   *)
(* night it keeps (schedule.rs) and the settings two threads save          *)
(* (config.rs, main.rs).                                                   *)
(*                                                                         *)
(* A turn of the worker is one step, but for the wait before it puts the   *)
(* server up again; processes live and die, and people click, between the  *)
(* turns.  A click is handled when the worker gets to it, whatever the     *)
(* menu shows by then.                                                     *)
(***************************************************************************)
EXTENDS Naturals, FiniteSets

CONSTANTS
    Tries,      \* the number of waits in BACKOFF
    MaxClicks,  \* bound: clicks and restarts of the app
    MaxFaults   \* bound: what happens around the app

SidecarAssumption ==
    Tries \in Nat \ {0} /\ MaxClicks \in Nat /\ MaxFaults \in Nat

(* One day is followed: last_nightly_on is whether it is today.            *)
Config == [keep_server_up : BOOLEAN, schedule_enabled : BOOLEAN, last_nightly_on : BOOLEAN]

VARIABLES
    w,        \* the worker, and the processes it owns
    remote,   \* whether the catalog is on another machine
    saved,    \* the settings as they are on disk
    copy,     \* and as the main thread read them when the app opened
    foreign,  \* whether a server answers that is not the app's
    other,    \* whether a fetch holds the lock that is not the app's
    script,   \* whether an update goes on that an app gone by now started
    asks,     \* whether a source waits for a backfill
    hour,     \* whether the nightly hour has passed
    clicks, faults,
    byHand    \* history: whether somebody started the server under an update

vars == <<w, remote, saved, copy, foreign, other, script, asks, hour, clicks, faults, byHand>>
around == <<foreign, other, script, asks, faults>>
settings == <<saved, copy>>

Worker == [pc       : {"closed", "waiting", "backing_off"},
           config   : Config,
           server   : {"none", "starting", "serving", "exited"},
           health   : {"unknown", "ok", "down"},
           quiet    : BOOLEAN,                             \* quiet_until lies ahead
           attempt  : 0 .. Tries, given_up : BOOLEAN,
           fetch    : {"none", "starting", "running", "ended"},
           fetching : BOOLEAN,                             \* any fetch, when last looked
           update   : {"none", "running", "built", "failed"},   \* update_job
           pending  : BOOLEAN,                             \* pending_update
           relaunch : BOOLEAN]

TypeOK ==
    /\ w \in Worker
    /\ remote \in BOOLEAN /\ saved \in Config /\ copy \in Config
    /\ remote => w.server = "none"
    /\ {foreign, other, script, asks, hour, byHand} \subseteq BOOLEAN
    /\ foreign => w.server # "serving"
    /\ other => w.fetch # "running"
    /\ w.config.last_nightly_on => hour
    /\ clicks \in 0 .. MaxClicks /\ faults \in 0 .. MaxFaults

Default == [keep_server_up |-> TRUE, schedule_enabled |-> TRUE, last_nightly_on |-> FALSE]

Closed == [pc |-> "closed", config |-> Default, server |-> "none", health |-> "unknown",
           quiet |-> FALSE, attempt |-> 0, given_up |-> FALSE, fetch |-> "none",
           fetching |-> FALSE, update |-> "none", pending |-> FALSE, relaunch |-> FALSE]

Init ==
    /\ w = Closed
    /\ remote \in BOOLEAN
    /\ saved = Default /\ copy = Default
    /\ foreign \in BOOLEAN /\ other = FALSE /\ script = FALSE /\ asks = FALSE
    /\ hour = FALSE /\ clicks = 0 /\ faults = 0
    /\ byHand = FALSE

-----------------------------------------------------------------------------
(* What the worker does to itself.                                         *)

Answers(v) == foreign \/ v.server = "serving"
Alive(v) == v.server \in {"starting", "serving"}

SlipKeepsReading(v) ==
    IF v.quiet \/ ~Answers(v) THEN v ELSE [v EXCEPT !.health = "ok"]

(* poll: no reading is believed while a started server settles.            *)
Polled(v) ==
    IF v.quiet THEN v ELSE [v EXCEPT !.health = IF Answers(v) THEN "ok" ELSE "down"]

(* start_server; a server of its own that is alive is left as it is.       *)
Started(v) ==
    [v EXCEPT !.server = IF Alive(v) THEN @ ELSE "starting", !.quiet = TRUE, !.health = "unknown"]

Stopped(v) == [v EXCEPT !.server = "none"]

(* start_phase; one is refused beside another, and beside any fetcher that *)
(* holds the lock.                                                         *)
Fetching(v) ==
    IF v.fetch # "none" \/ v.update # "none" \/ other THEN v ELSE [v EXCEPT !.fetch = "starting"]

FetchReaped(v) == IF v.fetch = "ended" THEN Polled([v EXCEPT !.fetch = "none"]) ELSE v

(* reap_update, and finish_update.                                         *)
UpdateReaped(v) ==
    CASE v.update = "built" -> [Stopped(v) EXCEPT !.update = "none", !.relaunch = TRUE]
      [] v.update = "failed" -> [v EXCEPT !.update = "none", !.pending = FALSE]
      [] OTHER -> v

(* maybe_check_update: there is a release, there is none, or no answer.    *)
UpdateChecked(v) ==
    {v} \cup (IF v.update = "none" /\ v.fetch = "none"
              THEN {[v EXCEPT !.pending = p] : p \in BOOLEAN} ELSE {})

(* is_due.                                                                 *)
NightIsDue(v) ==
    /\ v.fetch = "none" /\ v.config.schedule_enabled
    /\ hour /\ ~v.config.last_nightly_on

(* Written down before the run is started, whatever comes of it.           *)
NightNoted(v) == [v EXCEPT !.config.last_nightly_on = TRUE]

BackfillIsDue(v) == v.fetch = "none" /\ asks /\ ~other

(* supervise, as far as the wait.                                          *)
Supervised(v) ==
    IF remote THEN v
    ELSE IF v.health # "down" THEN [v EXCEPT !.attempt = 0]
    ELSE IF ~v.config.keep_server_up \/ v.given_up THEN v
    ELSE IF v.attempt >= Tries THEN [v EXCEPT !.given_up = TRUE]
    ELSE [v EXCEPT !.pc = "backing_off"]

SlipMindsNoUpdate(v) == FALSE

UnderUpdate(v) == v.update # "none"

(* The rest of a turn: each of these but the last ends it.                 *)
Turned(v) ==
    IF UnderUpdate(v) THEN v
    ELSE IF NightIsDue(v) THEN Fetching(NightNoted(v))
    ELSE IF BackfillIsDue(v) THEN Fetching(v)
    ELSE Supervised(Polled(v))

(* publish, as far as the worker goes by it.                               *)
Published(v, fetched) ==
    IF v.pc = "backing_off" THEN v ELSE [v EXCEPT !.fetching = v.fetch # "none" \/ fetched]

-----------------------------------------------------------------------------
(* The worker's loop.                                                      *)

Waiting == w.pc = "waiting"

(* A turn comes once in POLL_EVERY, by when a started server has settled,  *)
(* or in WATCH_EVERY, by when it may not have.                             *)
TurnIsDue == w.quiet => w.fetch # "none" \/ w.update # "none" \/ w.fetching

(* tick.                                                                   *)
Tick ==
    /\ Waiting /\ TurnIsDue
    /\ \E v \in UpdateChecked(UpdateReaped(FetchReaped(w))) :
          /\ w' = Published(Turned(v), other)
          /\ saved' = IF ~UnderUpdate(v) /\ NightIsDue(v) THEN w'.config ELSE saved
          /\ byHand' = (byHand /\ UnderUpdate(v))
    /\ UNCHANGED <<remote, copy, around, hour, clicks>>

(* The end of the wait in supervise.                                       *)
Retries ==
    /\ w.pc = "backing_off"
    /\ w' = Published(Started([w EXCEPT !.pc = "waiting", !.attempt = @ + 1]), other)
    /\ UNCHANGED <<remote, settings, around, hour, clicks, byHand>>

Click == Waiting /\ clicks < MaxClicks /\ clicks' = clicks + 1

Afresh(v) == [v EXCEPT !.given_up = FALSE, !.attempt = 0]

(* StartServer and RestartServer; refused when the catalog is elsewhere.   *)
ClicksStart ==
    /\ Click /\ ~remote
    /\ \E v \in {w, Stopped(w)} : w' = Published(Started(Afresh(v)), other)
    /\ byHand' = (byHand \/ UnderUpdate(w))
    /\ UNCHANGED <<remote, settings, around, hour>>

(* StopServer, which is not to be undone by the watch that is kept.        *)
ClicksStop ==
    /\ Click /\ ~remote
    /\ w' = Published([Stopped(w) EXCEPT !.config.keep_server_up = FALSE, !.health = "down"], other)
    /\ saved' = w'.config
    /\ UNCHANGED <<remote, copy, around, hour, byHand>>

ClicksKeepUp ==
    /\ Click
    /\ w' = Published([Afresh(w) EXCEPT !.config.keep_server_up = ~@], other)
    /\ saved' = w'.config
    /\ UNCHANGED <<remote, copy, around, hour, byHand>>

ClicksSchedule ==
    /\ Click
    /\ w' = Published([w EXCEPT !.config.schedule_enabled = ~@], other)
    /\ saved' = w'.config
    /\ UNCHANGED <<remote, copy, around, hour, byHand>>

ClicksRun ==
    /\ Click
    /\ w' = Published(Fetching(w), other)
    /\ UNCHANGED <<remote, settings, around, hour, byHand>>

(* stop_fetch: its own, or whichever holds the lock.                       *)
ClicksStopFetch ==
    /\ Click
    /\ other' = (other /\ w.fetch # "none")
    /\ w' = Published(Polled([w EXCEPT !.fetch = "none"]), other')
    /\ UNCHANGED <<remote, settings, foreign, script, asks, faults, hour, byHand>>

(* Refresh, and CheckUpdate.                                               *)
ClicksCheck ==
    /\ Click
    /\ \E v \in {Polled(w)} \cup {[w EXCEPT !.pending = p] : p \in BOOLEAN} : w' = Published(v, other)
    /\ UNCHANGED <<remote, settings, around, hour, byHand>>

(* run_update; the server goes first, and the script may not start.        *)
ClicksUpdate ==
    /\ Click
    /\ w.pending /\ w.update = "none" /\ w.fetch = "none"
    /\ \E u \in {"none", "running"} :
          w' = Published([Stopped(w) EXCEPT !.update = u, !.health = "unknown"], other)
    /\ UNCHANGED <<remote, settings, around, hour, byHand>>

(* choose_folder: the main thread saves the settings as it has them.       *)
ChoosesFolder ==
    /\ Click
    /\ saved' = copy
    /\ UNCHANGED <<w, remote, copy, around, hour, byHand>>

-----------------------------------------------------------------------------
(* The app opens and goes.                                                 *)

(* run, ahead of its loop: what serves already is adopted, and a server is *)
(* started beside nothing if start_server_on_open says so.                 *)
Opens ==
    /\ w.pc = "closed"
    /\ copy' = saved
    /\ LET v == Polled([Closed EXCEPT !.pc = "waiting", !.config = saved]) IN
          \E u \in {v} \cup (IF v.health = "down" /\ ~remote THEN {Started(v)} ELSE {}) :
             w' = Published(u, other)
    /\ UNCHANGED <<remote, saved, around, hour, clicks, byHand>>

(* The processes that are left behind are nobody's, or somebody else's: a  *)
(* script goes on rewriting the checkout, and no app knows of it.          *)
Left(v) ==
    /\ w' = Closed
    /\ foreign' = (foreign \/ v.server = "serving")
    /\ other' = (other \/ v.fetch = "running")
    /\ script' = (script \/ v.update = "running")
    /\ byHand' = FALSE

(* Quit, or the relaunch after an update.  The worker stops the server and *)
(* says so; in the middle of a wait it does not in time.                   *)
Quits ==
    /\ w.pc # "closed"
    /\ \/ Waiting /\ w.relaunch /\ UNCHANGED clicks
       \/ clicks < MaxClicks /\ clicks' = clicks + 1
    /\ Left(IF Waiting THEN Stopped(w) ELSE w)
    /\ UNCHANGED <<remote, settings, asks, faults, hour>>

Fault == faults < MaxFaults /\ faults' = faults + 1

(* Ended by a signal the server goes with the app (on_terminate); killed   *)
(* outright it does not.                                                   *)
Dies ==
    /\ w.pc # "closed" /\ Fault
    /\ (Left(w) \/ Left(Stopped(w)))
    /\ UNCHANGED <<remote, settings, asks, hour, clicks>>

-----------------------------------------------------------------------------
(* The processes, and what goes on around them.                            *)

Settles ==
    /\ w.quiet
    /\ w' = [w EXCEPT !.quiet = FALSE]
    /\ UNCHANGED <<remote, settings, around, hour, clicks, byHand>>

(* uvicorn finds the port free and serves, or ends.                        *)
Binds ==
    /\ w.server = "starting"
    /\ \E how \in {"exited"} \cup (IF foreign THEN {} ELSE {"serving"}) :
          w' = [w EXCEPT !.server = how]
    /\ UNCHANGED <<remote, settings, around, hour, clicks, byHand>>

ServerFails ==
    /\ Fault
    /\ \/ Alive(w) /\ w' = [w EXCEPT !.server = "exited"] /\ UNCHANGED foreign
       \/ foreign /\ foreign' = FALSE /\ UNCHANGED w
       \/ ~Answers(w) /\ foreign' = TRUE /\ UNCHANGED w
    /\ UNCHANGED <<remote, settings, other, script, asks, hour, clicks, byHand>>

(* A fetcher of a checkout that is half written may not get as far.        *)
TakesLock ==
    /\ w.fetch = "starting"
    /\ \E how \in (IF other THEN {} ELSE {"running"}) \cup (IF other \/ script THEN {"ended"} ELSE {}) :
          w' = [w EXCEPT !.fetch = how]
    /\ UNCHANGED <<remote, settings, around, hour, clicks, byHand>>

(* A fetch answers the asks, as far as there is a server to tell.          *)
FetchEnds ==
    /\ w.fetch = "running"
    /\ w' = [w EXCEPT !.fetch = "ended"]
    /\ asks' = (asks /\ ~Answers(w))
    /\ UNCHANGED <<remote, settings, foreign, other, script, faults, hour, clicks, byHand>>

UpdateEnds ==
    /\ w.update = "running"
    /\ w' \in {[w EXCEPT !.update = "built"], [w EXCEPT !.update = "failed"]}
    /\ UNCHANGED <<remote, settings, around, hour, clicks, byHand>>

ScriptEnds ==
    /\ script /\ script' = FALSE
    /\ UNCHANGED <<w, remote, settings, foreign, other, asks, faults, hour, clicks, byHand>>

OthersFetch ==
    /\ ~other /\ w.fetch # "running" /\ Fault
    /\ other' = TRUE
    /\ UNCHANGED <<w, remote, settings, foreign, script, asks, hour, clicks, byHand>>

OthersEnd ==
    /\ other /\ other' = FALSE
    /\ UNCHANGED <<w, remote, settings, foreign, script, asks, faults, hour, clicks, byHand>>

SourceSwitchedOn ==
    /\ ~asks /\ Answers(w) /\ ~remote /\ Fault
    /\ asks' = TRUE
    /\ UNCHANGED <<w, remote, settings, foreign, other, script, hour, clicks, byHand>>

TimePasses ==
    /\ ~hour /\ hour' = TRUE
    /\ UNCHANGED <<w, remote, settings, around, clicks, byHand>>

Clicks ==
    \/ ClicksStart \/ ClicksStop \/ ClicksKeepUp \/ ClicksSchedule \/ ClicksRun
    \/ ClicksStopFetch \/ ClicksCheck \/ ClicksUpdate \/ ChoosesFolder

Jobs == TakesLock \/ FetchEnds \/ UpdateEnds \/ OthersEnd

Next ==
    \/ Tick \/ Retries \/ Clicks \/ Opens \/ Quits \/ Dies \/ Settles \/ Binds \/ Jobs
    \/ ScriptEnds \/ ServerFails \/ OthersFetch \/ SourceSwitchedOn \/ TimePasses

(* The worker takes its turns, waits end, and the server binds its port or *)
(* ends, a started server settles, and some fetch or update gets on.       *)
Fairness ==
    /\ WF_vars(Tick) /\ WF_vars(Retries)
    /\ WF_vars(Settles) /\ WF_vars(Binds) /\ WF_vars(Jobs)

Spec == Init /\ [][Next]_vars /\ Fairness

-----------------------------------------------------------------------------

(* "The checkout is being rewritten and the server is deliberately down":  *)
(* under an update of its own the app runs no server and no fetch, however *)
(* the night, a backfill or the watch over the server fall due meanwhile;  *)
(* but for a server that somebody starts with the mouse (tick, run_update).*)
(* A script that outlives its app is nothing to the app that is opened     *)
(* over it: NothingUnderUpdate.                                            *)
UpdateStandsAlone ==
    w.update # "none" => w.fetch = "none" /\ (Alive(w) => byHand)

(* The same, whoever started it and whichever app's the update is          *)
(* ("nothing else should start a fetch or resurrect the server on top of   *)
(* that").                                                                 *)
NothingUnderUpdate == w.update # "none" \/ script => w.fetch = "none" /\ ~Alive(w)

ServerIsGone == w.pc # "closed" /\ ~remote /\ w.config.keep_server_up /\ ~Answers(w)

(* "Put the server back up if it has gone, unless told not to": it comes   *)
(* back, or the app gives it up and says so (supervise).                   *)
ServerIsPutBack ==
    ServerIsGone ~> \/ Answers(w) \/ w.given_up \/ w.pc = "closed" \/ w.relaunch
                    \/ ~w.config.keep_server_up

(* It is, as long as no source waits for a backfill.                       *)
ServerIsPutBackUnlessAsked ==
    ServerIsGone ~> \/ Answers(w) \/ w.given_up \/ w.pc = "closed" \/ w.relaunch
                    \/ ~w.config.keep_server_up \/ asks

(* "Waits between automatic restart attempts, then it stops trying": the   *)
(* attempts are counted until the server answers, somebody clicks, or the  *)
(* app is opened anew (BACKOFF, supervise).                                *)
AttemptsAreCounted ==
    [][w'.attempt < w.attempt => Answers(w) \/ clicks' # clicks \/ w'.pc = "closed"]_vars
=============================================================================
