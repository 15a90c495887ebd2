----------------------------- MODULE MCMachine ------------------------------
(***************************************************************************)
(* The threads and processes on a fetcher's machine, part by part: the     *)
(* catalogs read ahead of a sync (Prefetch), three sources of two plugins, *)
(* the posters it fetches (Artwork) and the companion in the menu bar      *)
(* (Sidecar).  The parts share no state; a behaviour is one of one of      *)
(* them.                                                                   *)
(***************************************************************************)
EXTENDS Prefetch

CONSTANTS
    Tries, MaxClicks, MaxFaults,
    None, Fetchers, There, Batch, ByHand, MaxMishaps

VARIABLES
    part,
    w, remote, saved, copy, foreign, other, script, asks, hour, clicks, faults, byHand,
    films, entered, path, files, rewritten, walk, uploads, ordered, mishaps

(* A plugin with two sources, the first longer than its queue with its end *)
(* marker, and a plugin with one.                                          *)
TwoAndOne == <<1, 1, 2>>
TwoInTheFirst == <<2, 0, 0>>

S == INSTANCE Sidecar

(* A film whose image does not decode, one whose renditions the server     *)
(* will not have, and, to be added, one that is left to TMDB.              *)
HostsHave == <<
    [own |-> "broken", backup |-> "ok", tmdb |-> "ok"],
    [own |-> "refused", backup |-> "ok", tmdb |-> "ok"],
    [own |-> "gone", backup |-> "gone", tmdb |-> "ok"]>>
A == INSTANCE Artwork WITH Hosts <- HostsHave, MaxFaults <- MaxMishaps

ASSUME MachineAssumption ==
    PrefetchAssumption /\ S!SidecarAssumption /\ A!ArtworkAssumption

threads == vars
app == <<w, remote, saved, copy, foreign, other, script, asks, hour, clicks, faults, byHand>>
posters == <<films, entered, path, files, rewritten, walk, uploads, ordered, mishaps>>
machine == <<part, threads, app, posters>>

InPrefetch == part = "prefetch" /\ UNCHANGED <<part, app, posters>>
InSidecar == part = "sidecar" /\ UNCHANGED <<part, threads, posters>>
InPosters == part = "posters" /\ UNCHANGED <<part, threads, app>>

(* How the app finds its machine does not matter to the others.            *)
MachineInit ==
    /\ part \in {"prefetch", "sidecar", "posters"}
    /\ Init /\ S!Init /\ A!Init
    /\ part # "sidecar" => ~remote /\ ~foreign

MachineNext ==
    \/ InPrefetch /\ Next
    \/ InSidecar /\ S!Next
    \/ InPosters /\ A!Next

(* The fairness of each part, in its own behaviours: as nothing but the    *)
(* part moves in those, a step of the part's is a step of the whole.       *)
MachineFairness ==
    /\ WF_threads(part = "prefetch" /\ Consumes /\ UNCHANGED <<backlog, worker, read, ended>>)
    /\ \A t \in Workers : WF_threads(part = "prefetch" /\ Worker(t))
    /\ WF_app(part = "sidecar" /\ S!Tick) /\ WF_app(part = "sidecar" /\ S!Retries)
    /\ WF_app(part = "sidecar" /\ S!Settles) /\ WF_app(part = "sidecar" /\ S!Binds)
    /\ WF_app(part = "sidecar" /\ S!Jobs)
    /\ \A f \in Fetchers : WF_posters(part = "posters" /\ A!Fetch(f))
    /\ WF_posters(part = "posters" /\ A!ServeAny)

MachineSpec == MachineInit /\ [][MachineNext]_machine /\ MachineFairness

(* Every part keeps its types.                                             *)
MachineTypeOK == TypeOK /\ S!TypeOK /\ A!TypeOK

(* Reader and writer never wait on each other for good.                    *)
ReadingEnds == part = "prefetch" => EverythingEnds

(* Under an update the app runs nothing but what somebody started.         *)
UpdateStandsAlone == S!UpdateStandsAlone

(* A server that is gone comes back, or the app says that it gave up.      *)
ServerIsPutBackUnlessAsked == part = "sidecar" => S!ServerIsPutBackUnlessAsked

(* A poster that can be had is stored in the end (ImageFetcher).           *)
EveryPosterComes == part = "posters" => A!EveryPosterComes

(* A row names renditions that are whole (_file_posters).                  *)
NamedFilesAreWhole == A!NamedFilesAreWhole
=============================================================================
