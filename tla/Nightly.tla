------------------------------ MODULE Nightly ------------------------------
(***************************************************************************)
(* The nightly chain, the backfill poll and the fetches run by hand: who   *)
(* holds the fetcher's lock, which rows of fetch_runs are left open, the   *)
(* note of an attempt that could not be reported, and the asks an operator *)
(* makes by switching a source on.  eifo_fetcher daemon.py, lock.py,       *)
(* attempts.py and runner.py, and the routes of the API they call.         *)
(*                                                                         *)
(* "nightly" and "poll" are two jobs of one daemon, "byhand" is a process  *)
(* of its own.  What a unit of work does inside its row is the business of *)
(* other modules.  Rows nobody will close any more are told apart only by  *)
(* their phase and by whether they are a day old.                          *)
(***************************************************************************)
EXTENDS Naturals, Sequences, FiniteSets, SequencesExt

CONSTANTS
    Sources,    \* sources the catalog has a row for
    Installed,  \* those a plugin of this fetcher declares
    MaxFaults,  \* bound: calls that fail and processes that die
    MaxByHand,  \* bound: fetches run by hand
    None

(* A source's name is told from the names of the other units of work, and  *)
(* no lock and no note is told from every holder and every phase.          *)
ASSUME NightlyAssumption ==
    /\ IsFiniteSet(Sources) /\ Installed \subseteq Sources
    /\ Sources \cap {"sync", "enrich", "images", "index", "titles", "imdb"} = {}
    /\ MaxFaults \in Nat /\ MaxByHand \in Nat
    /\ None \notin {"sync", "enrich", "images", "nightly", "poll", "byhand"}

Jobs == {"nightly", "poll", "byhand"}
Phases == {"sync", "enrich", "images"}
PHASES == <<"sync", "enrich", "images">>

(* The rows a phase opens: one for each source, three passes of the        *)
(* enrichment, one for the artwork.                                        *)
Passes == <<"index", "titles", "imdb">>
Units == Sources \cup Phases \cup {"index", "titles", "imdb"}

Process(j) == IF j = "byhand" THEN "shell" ELSE "daemon"

VARIABLES
    lock,     \* the job that holds the fetcher's lock
    job,      \* where each job is
    rows,     \* fetch_runs rows that are RUNNING
    note,     \* phase of the attempt on file
    on,       \* sources.enabled, the file's answer being the same
    asked,    \* sources.backfill_requested_at is set
    faults, hands

vars == <<lock, job, rows, note, on, asked, faults, hands>>
switches == <<on, asked>>
budgets == <<faults, hands>>

Job == [pc     : {"idle", "asking", "entering", "posting", "starting", "choosing",
                  "working", "clearing"},
        phases : Seq(Phases),      \* phases still to run, this one first
        only   : SUBSET Sources,   \* sync_all(only); {} is all of them
        wanted : SUBSET Sources,
        left   : Seq(Units),       \* units still to work through, this one first
        begun  : SUBSET Sources]   \* history: sources whose row was opened

Idle == [pc |-> "idle", phases |-> <<>>, only |-> {}, wanted |-> {},
         left |-> <<>>, begun |-> {}]

Row == [phase : Phases, owner : Jobs \cup {"gone"}, old : BOOLEAN]

TypeOK ==
    /\ lock \in Jobs \cup {None}
    /\ job \in [Jobs -> Job]
    /\ rows \subseteq Row
    /\ note \in Phases \cup {None}
    /\ on \in [Sources -> BOOLEAN] /\ asked \in [Sources -> BOOLEAN]
    /\ faults \in 0 .. MaxFaults /\ hands \in 0 .. MaxByHand

Init ==
    /\ lock = None
    /\ job = [j \in Jobs |-> Idle]
    /\ rows = {} /\ note = None
    /\ on \in [Sources -> BOOLEAN]
    /\ asked = [s \in Sources |-> FALSE]
    /\ faults = 0 /\ hands = 0

-----------------------------------------------------------------------------

At(j, pc) == job[j].pc = pc
To(j, pc) == job' = [job EXCEPT ![j].pc = pc]
Phase(j) == Head(job[j].phases)
Unit(j) == Head(job[j].left)
Mine(j, phase) == [phase |-> phase, owner |-> j, old |-> FALSE]

(* Something goes wrong, as often as the bound allows.                     *)
Trouble == faults < MaxFaults /\ faults' = faults + 1 /\ UNCHANGED hands

SlipOncePerProcess(j) == lock = None \/ Process(lock) = Process(j)

(* flock: held by one open descriptor, each attempt opening its own, so    *)
(* two jobs of one process keep each other out as well.                    *)
Free(j) == lock = None

(* Leaving a phase: on to the next, or out of the block and the lock.      *)
Leaves(j) ==
    LET rest == Tail(job[j].phases)
    IN  IF rest = <<>>
        THEN job' = [job EXCEPT ![j] = Idle] /\ lock' = None
        ELSE /\ job' = [job EXCEPT ![j] = [Idle EXCEPT !.pc = "entering", !.phases = rest]]
             /\ UNCHANGED lock

SlipNotesUnit(j) == note' = IF job[j].left = <<>> THEN Phase(j) ELSE Unit(j)

(* attempted: the phase ended in an IngestError.                           *)
Noted(j) == note' = Phase(j)

(* _sweep_abandoned, with every row opened through open_run.               *)
Swept(phase) == {r \in rows : r.phase = phase /\ r.old}

SlipSweepsNothing(j, phase) == rows \cup {Mine(j, phase)}

(* open_run, and begin_sync and begin_enrich, which sweep nothing.         *)
OpenRun(j, phase) == (rows \ Swept(phase)) \cup {Mine(j, phase)}
BeginRun(j, phase) == rows \cup {Mine(j, phase)}

(* A row whose end could not be recorded stays open with nobody to it.     *)
Orphaned(R, js) == {IF r.owner \in js THEN [r EXCEPT !.owner = "gone"] ELSE r : r \in R}

-----------------------------------------------------------------------------
(* Starting.  A job that finds the lock held goes back to sleep.           *)

(* run_nightly, by the schedule or by hand.                                *)
Chain(j) ==
    /\ At(j, "idle") /\ Free(j)
    /\ lock' = j
    /\ job' = [job EXCEPT ![j] = [Idle EXCEPT !.pc = "entering", !.phases = PHASES]]
    /\ UNCHANGED <<rows, note, switches>>

NightlyStarts == Chain("nightly") /\ UNCHANGED budgets

(* eifo-fetch all, or eifo-fetch sync with or without --source.            *)
Syncs(j, only) ==
    /\ At(j, "idle") /\ Free(j)
    /\ lock' = j
    /\ job' = [job EXCEPT ![j] =
          [Idle EXCEPT !.pc = "entering", !.phases = <<"sync">>, !.only = only]]
    /\ UNCHANGED <<rows, note, switches>>

ByHand ==
    /\ hands < MaxByHand /\ hands' = hands + 1 /\ UNCHANGED faults
    /\ \/ Chain("byhand")
       \/ \E only \in SUBSET Sources : Syncs("byhand", only)

(* run_backfills: the question first, and only then the lock.              *)
PollAsks ==
    /\ At("poll", "idle")
    /\ \E s \in Sources : asked[s]
    /\ job' = [job EXCEPT !["poll"] =
          [Idle EXCEPT !.pc = "asking", !.phases = <<"sync">>, !.only = {s \in Sources : asked[s]}]]
    /\ UNCHANGED <<lock, rows, note, switches, budgets>>

PollTakes ==
    /\ At("poll", "asking")
    /\ IF Free("poll")
       THEN lock' = "poll" /\ To("poll", "entering")
       ELSE UNCHANGED lock /\ job' = [job EXCEPT !["poll"] = Idle]
    /\ UNCHANGED <<rows, note, switches, budgets>>

-----------------------------------------------------------------------------
(* phase_client: the previous attempt is posted before the phase begins.   *)

Enters(j) ==
    /\ At(j, "entering") /\ note = None
    /\ To(j, "starting")
    /\ UNCHANGED <<lock, rows, note, switches, budgets>>

Posts(j) ==
    /\ At(j, "entering") /\ note # None
    /\ \/ rows' = OpenRun(j, note) /\ To(j, "posting") /\ UNCHANGED budgets
       \/ Trouble /\ To(j, "starting") /\ UNCHANGED rows
    /\ UNCHANGED <<lock, note, switches>>

(* The row of the posted attempt is closed and the note taken down; if it  *)
(* cannot be closed the note keeps, for another row.                       *)
PostEnds(j) ==
    /\ At(j, "posting") /\ To(j, "starting")
    /\ \/ rows' = rows \ {Mine(j, note)} /\ note' = None /\ UNCHANGED budgets
       \/ Trouble /\ rows' = Orphaned(rows, {j}) /\ UNCHANGED note
    /\ UNCHANGED <<lock, switches>>

(* No client could be made for the phase.                                  *)
Barred(j) ==
    /\ At(j, "entering") /\ j # "poll"
    /\ Trouble /\ Noted(j) /\ Leaves(j)
    /\ UNCHANGED <<rows, switches>>

-----------------------------------------------------------------------------
(* The phases.                                                             *)

Available == {s \in Installed : on[s]}

(* sync_all begins with one exchange about what is declared and switched   *)
(* on; the other two go straight to their rows.  The pages of Seret are    *)
(* left out when there is no call for them.                                *)
Starts(j) ==
    /\ At(j, "starting")
    /\ \/ /\ Phase(j) = "sync"
          /\ LET chosen == IF job[j].only = {} THEN Available ELSE job[j].only \cap Available
             IN  job' = [job EXCEPT ![j].pc = "choosing", ![j].wanted = chosen,
                                    ![j].left = SetToSeq(chosen)]
       \/ /\ Phase(j) = "enrich"
          /\ \E left \in {Passes, Tail(Passes)} :
                job' = [job EXCEPT ![j].pc = "choosing", ![j].left = left]
       \/ /\ Phase(j) = "images"
          /\ job' = [job EXCEPT ![j].pc = "choosing", ![j].left = <<"images">>]
    /\ UNCHANGED <<lock, rows, note, switches, budgets>>

(* The next unit opens its row, before any work.                           *)
Opens(j) ==
    /\ At(j, "choosing") /\ job[j].left # <<>>
    /\ job' = [job EXCEPT ![j].pc = "working", ![j].begun = @ \cup ({Unit(j)} \cap Sources)]
    /\ rows' = IF Unit(j) \in Sources \cup {"titles"}
               THEN BeginRun(j, Phase(j)) ELSE OpenRun(j, Phase(j))
    /\ UNCHANGED <<lock, note, switches, budgets>>

NextUnit(j) == job' = [job EXCEPT ![j].pc = "choosing", ![j].left = Tail(@)]

(* The row is closed, whatever the unit's verdict; not being able to say   *)
(* so leaves the row open and is no reason to stop.                        *)
Closes(j) ==
    /\ At(j, "working") /\ NextUnit(j)
    /\ \/ rows' = rows \ {Mine(j, Phase(j))} /\ UNCHANGED budgets
       \/ Trouble /\ rows' = Orphaned(rows, {j})
    /\ UNCHANGED <<lock, note, switches>>

(* _imdb_pass goes without a row it cannot open, and so without the pass.  *)
Forgoes(j) ==
    /\ At(j, "choosing") /\ job[j].left = <<"imdb">>
    /\ Trouble /\ NextUnit(j)
    /\ UNCHANGED <<lock, rows, note, switches>>

(* The API fails a call nobody catches: the exchange, the opening of a     *)
(* row, the clearing of the asks.                                          *)
Breaks(j) ==
    /\ \/ At(j, "starting")
       \/ At(j, "choosing") /\ job[j].left # <<>> /\ Unit(j) # "imdb"
       \/ At(j, "clearing")
    /\ Trouble /\ Noted(j) /\ Leaves(j)
    /\ UNCHANGED <<rows, switches>>

(* Artwork alone raises what ended it, once its row is closed or left; an  *)
(* IngestError among the reasons is noted, anything else is not.           *)
ArtworkRaises(j) ==
    /\ At(j, "working") /\ Unit(j) = "images"
    /\ Trouble
    /\ Noted(j) \/ UNCHANGED note
    /\ rows' \in {rows \ {Mine(j, "images")}, Orphaned(rows, {j})}
    /\ Leaves(j)
    /\ UNCHANGED switches

SlipNeverClears(j) == At(j, "clearing") /\ job[j].only = {}

SlipInAnyCase(j) == At(j, "clearing") \/ (At(j, "choosing") /\ job[j].wanted # {})

(* The asks are cleared when every source has been tried.                  *)
MayClear(j) == At(j, "clearing")

Tried(j) ==
    /\ At(j, "choosing") /\ job[j].left = <<>>
    /\ IF job[j].wanted = {}
       THEN Leaves(j)
       ELSE To(j, "clearing") /\ UNCHANGED lock
    /\ UNCHANGED <<rows, note, switches, budgets>>

Clears(j) ==
    /\ MayClear(j)
    /\ asked' = [s \in Sources |-> asked[s] /\ s \notin job[j].wanted]
    /\ Leaves(j)
    /\ UNCHANGED <<rows, note, on, budgets>>

JobStep(j) ==
    \/ Enters(j) \/ Posts(j) \/ PostEnds(j) \/ Barred(j) \/ Starts(j) \/ Opens(j)
    \/ Closes(j) \/ Forgoes(j) \/ Breaks(j) \/ ArtworkRaises(j) \/ Tried(j) \/ Clears(j)

-----------------------------------------------------------------------------
(* Everybody else.                                                         *)

(* A process is killed: the system takes back its lock, its rows stay.     *)
Dies(p) ==
    LET dead == {j \in Jobs : Process(j) = p /\ ~At(j, "idle")}
    IN  /\ dead # {} /\ Trouble
        /\ job' = [j \in Jobs |-> IF j \in dead THEN Idle ELSE job[j]]
        /\ lock' = IF lock \in dead THEN None ELSE lock
        /\ rows' = Orphaned(rows, dead)
        /\ UNCHANGED <<note, switches>>

(* A day goes by for a row nobody works on.                                *)
Ages ==
    /\ \E r \in rows : r.owner = "gone" /\ ~r.old
    /\ rows' = {IF r.owner = "gone" THEN [r EXCEPT !.old = TRUE] ELSE r : r \in rows}
    /\ UNCHANGED <<lock, job, note, switches, budgets>>

(* toggle_source: switching on asks for the catalog, switching off takes   *)
(* the ask back.                                                           *)
Toggle(s) ==
    /\ on' = [on EXCEPT ![s] = ~@]
    /\ asked' = [asked EXCEPT ![s] = ~on[s]]
    /\ UNCHANGED <<lock, job, rows, note, budgets>>

(* A command that opens the database itself closes what is a day old.      *)
LocalCommand ==
    /\ \E r \in rows : r.old
    /\ rows' = {r \in rows : ~r.old}
    /\ UNCHANGED <<lock, job, note, switches, budgets>>

Next ==
    \/ NightlyStarts \/ ByHand \/ PollAsks \/ PollTakes
    \/ \E j \in Jobs : JobStep(j)
    \/ \E p \in {"daemon", "shell"} : Dies(p)
    \/ Ages
    \/ \E s \in Sources : Toggle(s)
    \/ LocalCommand

(* The poll ticks, a job goes on with its work and time passes.  The       *)
(* schedule comes round for ever, so a lock that is free again and again   *)
(* is not found held on every night.  Nobody has to touch a switch or run  *)
(* a command.                                                              *)
Fairness ==
    /\ SF_vars(NightlyStarts) /\ WF_vars(PollAsks) /\ WF_vars(PollTakes)
    /\ \A j \in Jobs : WF_vars(JobStep(j))
    /\ WF_vars(Ages)

Spec == Init /\ [][Next]_vars /\ Fairness

-----------------------------------------------------------------------------
(* What the lock and the rows promise.                                     *)

(* However many jobs of however many processes, one fetcher at a time is   *)
(* past the lock, and it is the one that holds it (lock.py).               *)
OneFetcher ==
    \A j \in Jobs : job[j].pc \notin {"idle", "asking"} <=> lock = j

(* An operator's ask goes only when the operator takes it back or when a   *)
(* sync has had its turn at that very source: a fetch that dies, or is     *)
(* refused half way, leaves every ask standing (runner.py, sync_all).      *)
AsksOutliveFailures ==
    [][\A s \in Sources : asked[s] /\ ~asked'[s] =>
          \/ ~on'[s]
          \/ \E j \in Jobs : s \in job[j].begun]_vars

(* A source this fetcher has, once asked for, is synced or the ask taken   *)
(* back: the poll yields to the nightly run and the nightly run to the     *)
(* poll, and between them nobody is forgotten (run_backfills).             *)
AsksEnd == \A s \in Installed : asked[s] ~> ~asked[s]

(* A row left open by a fetcher that never came back is closed in the end, *)
(* in the phases whose rows are opened through open_run.                   *)
Stale(phase) == \E r \in rows : r.phase = phase /\ r.old
StaleRowsClose == \A phase \in {"enrich", "images"} : Stale(phase) ~> ~Stale(phase)

(* pipeline.py says the same of a sync's row: "the server closes it once   *)
(* it is old enough to be certainly dead".                                 *)
StaleSyncsClose == Stale("sync") ~> ~Stale("sync")

(* attempts.py: one attempt is kept, and "the useful one is the first".    *)
FirstNoteKept == [][note # None => note' \in {note, None}]_vars

(* admin.py, toggle_source: the ask is recorded and the fetcher acts on it *)
(* within the minute, whichever source it is.                              *)
EveryAskEnds == \A s \in Sources : asked[s] ~> ~asked[s]
=============================================================================
