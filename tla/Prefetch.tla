------------------------------ MODULE Prefetch ------------------------------
(***************************************************************************)
(* Reading several catalogs at once while writing them one at a time:      *)
(* eifo_fetcher/prefetch.py, as runner.sync_all drives it.                 *)
(*                                                                         *)
(* A pool of workers takes plugins first in, first out; a worker reads the *)
(* sources of its plugin in order, each into a queue of its own.  The main *)
(* thread empties the queues in the same order and ships what it takes.    *)
(* An item of a catalog is its number in the catalog.                      *)
(***************************************************************************)
EXTENDS Naturals, Sequences

CONSTANTS
    NumUnits,   \* sources to sync, numbered in the order they are written
    PluginOf,   \* [1 .. NumUnits -> the number of the plugin that reads it]
    Workers,    \* the pool's threads
    Buffer,     \* items a queue holds
    MaxItems    \* bound: [1 .. NumUnits -> how long a catalog may be]

Units == 1 .. NumUnits
Plugins == {PluginOf[u] : u \in Units}
Ends == {"end", "error"}

Entry == [kind : Ends \cup {"item"}, no : Nat]
Item(n) == [kind |-> "item", no |-> n]
Marker(how) == [kind |-> how, no |-> 0]

(* plugins_for lists each plugin's sources together, in plugin order, and  *)
(* Prefetcher starts no more workers than there are plugins.               *)
PrefetchAssumption ==
    /\ NumUnits \in Nat /\ Buffer \in Nat \ {0} /\ MaxItems \in [Units -> Nat]
    /\ PluginOf \in [Units -> Nat \ {0}]
    /\ \A u \in Units : u # 1 => PluginOf[u] \in {PluginOf[u - 1], PluginOf[u - 1] + 1}
    /\ NumUnits # 0 => PluginOf[1] = 1
    /\ Workers # {}

VARIABLES
    queue,      \* each source's queue
    abandoned,  \* sources the main thread reads no more of
    stopping,
    backlog,    \* the next plugin the pool hands to a worker
    worker,     \* what each worker is at
    main,       \* what the main thread is at
    read,       \* how much of each catalog its plugin has yielded
    ended,      \* how the plugin's stream ended
    got,        \* what the main thread has been given
    heard       \* how that ended

shared == <<queue, abandoned, stopping>>
consumer == <<main, got, heard>>
vars == <<queue, abandoned, stopping, backlog, worker, main, read, ended, got, heard>>

Idle == [pc |-> "idle", at |-> 0, mark |-> "end"]
Thread == [pc   : {"idle", "starting", "reading", "putting", "parked", "closing", "barred"},
           at   : Units \cup {0},
           mark : Ends]

TypeOK ==
    /\ queue \in [Units -> Seq(Entry)] /\ \A u \in Units : Len(queue[u]) <= Buffer
    /\ abandoned \in [Units -> BOOLEAN] /\ stopping \in BOOLEAN
    /\ backlog \in Nat
    /\ worker \in [Workers -> Thread]
    /\ main \in [pc : {"begin", "taking", "shipping", "done", "draining",
                       "leaving", "emptying", "joining", "left"},
                 at : Units \cup {NumUnits + 1}]
    /\ read \in [Units -> Nat]
    /\ ended \in [Units -> Ends \cup {"open"}]
    /\ got \in [Units -> Seq(Nat)]
    /\ heard \in [Units -> Ends \cup {"nothing", "dropped"}]

Init ==
    /\ queue = [u \in Units |-> <<>>]
    /\ abandoned = [u \in Units |-> FALSE] /\ stopping = FALSE
    /\ backlog = 1
    /\ worker = [w \in Workers |-> Idle]
    /\ main = [pc |-> IF NumUnits = 0 THEN "leaving" ELSE "begin", at |-> 1]
    /\ read = [u \in Units |-> 0] /\ ended = [u \in Units |-> "open"]
    /\ got = [u \in Units |-> <<>>] /\ heard = [u \in Units |-> "nothing"]

-----------------------------------------------------------------------------
(* A worker.                                                               *)

SlipRoomForMore(u) == TRUE
HasRoom(u) == Len(queue[u]) < Buffer

SlipOnlyStopping(u) == stopping
Unheard(u) == stopping \/ abandoned[u]

SlipErrorIsAnEnd(w, how) ==
    /\ ended' = [ended EXCEPT ![worker[w].at] = how]
    /\ worker' = [worker EXCEPT ![w].pc = "closing", ![w].mark = "end"]

(* The plugin's stream is over, and this is how.                           *)
Stopped(w, how) ==
    /\ ended' = [ended EXCEPT ![worker[w].at] = how]
    /\ worker' = [worker EXCEPT ![w].pc = "closing", ![w].mark = how]

Goes(w, pc) == worker' = [worker EXCEPT ![w].pc = pc]
Close(w) == worker' = [worker EXCEPT ![w].pc = "closing", ![w].mark = "end"]

(* On to the plugin's next source, or back to the pool.                    *)
NextUnit(w) ==
    LET u == worker[w].at IN
    worker' = [worker EXCEPT ![w] =
        IF u + 1 \in Units /\ PluginOf[u + 1] = PluginOf[u]
        THEN [pc |-> "starting", at |-> u + 1, mark |-> "end"] ELSE Idle]

FirstUnit(p) == CHOOSE u \in Units : PluginOf[u] = p /\ \A v \in 1 .. u - 1 : PluginOf[v] # p

PickUp(w) ==
    /\ worker[w].pc = "idle" /\ backlog \in Plugins
    /\ worker' = [worker EXCEPT ![w] = [pc |-> "starting", at |-> FirstUnit(backlog), mark |-> "end"]]
    /\ backlog' = backlog + 1
    /\ UNCHANGED <<queue, read, ended>>

Start(w) ==
    /\ worker[w].pc = "starting"
    /\ IF stopping THEN Close(w) ELSE Goes(w, "reading")
    /\ UNCHANGED <<queue, backlog, read, ended>>

Yields(w) ==
    /\ worker[w].pc = "reading" /\ read[worker[w].at] < MaxItems[worker[w].at]
    /\ read' = [read EXCEPT ![worker[w].at] = @ + 1]
    /\ Goes(w, "putting")
    /\ UNCHANGED <<queue, backlog, ended>>

StreamEnds(w) ==
    /\ worker[w].pc = "reading"
    /\ \E how \in Ends : Stopped(w, how)
    /\ UNCHANGED <<queue, backlog, read>>

(* _put looks at the flags, then waits on the queue for a moment.          *)
Put(w) ==
    /\ worker[w].pc = "putting"
    /\ IF Unheard(worker[w].at) THEN Close(w) ELSE Goes(w, "parked")
    /\ UNCHANGED <<queue, backlog, read, ended>>

Enters(w) ==
    /\ worker[w].pc = "parked" /\ HasRoom(worker[w].at)
    /\ queue' = [queue EXCEPT ![worker[w].at] = Append(@, Item(read[worker[w].at]))]
    /\ Goes(w, "reading")
    /\ UNCHANGED <<backlog, read, ended>>

WaitsAgain(w) ==
    /\ worker[w].pc = "parked" /\ ~HasRoom(worker[w].at)
    /\ Goes(w, "putting")
    /\ UNCHANGED <<queue, backlog, read, ended>>

Finish(w) ==
    /\ worker[w].pc = "closing" /\ HasRoom(worker[w].at)
    /\ queue' = [queue EXCEPT ![worker[w].at] = Append(@, Marker(worker[w].mark))]
    /\ NextUnit(w)
    /\ UNCHANGED <<backlog, read, ended>>

Barred(w) ==
    /\ worker[w].pc = "closing" /\ ~HasRoom(worker[w].at)
    /\ Goes(w, "barred")
    /\ UNCHANGED <<queue, backlog, read, ended>>

(* Nobody will read the end marker - or it is tried again.                 *)
LooksAround(w) ==
    /\ worker[w].pc = "barred"
    /\ IF Unheard(worker[w].at) THEN NextUnit(w) ELSE Goes(w, "closing")
    /\ UNCHANGED <<queue, backlog, read, ended>>

Worker(w) ==
    /\ \/ PickUp(w) \/ Start(w) \/ Yields(w) \/ StreamEnds(w) \/ Put(w) \/ Enters(w)
       \/ WaitsAgain(w) \/ Finish(w) \/ Barred(w) \/ LooksAround(w)
    /\ UNCHANGED <<abandoned, stopping, consumer>>

-----------------------------------------------------------------------------
(* The main thread.                                                        *)

At(pc) == main.pc = pc
To(pc) == main' = [main EXCEPT !.pc = pc]
Current == queue[main.at]

Begin ==
    /\ At("begin") /\ To("taking")
    /\ UNCHANGED <<shared, got, heard>>

Take ==
    /\ At("taking") /\ Current # <<>> /\ Head(Current).kind = "item"
    /\ got' = [got EXCEPT ![main.at] = Append(@, Head(Current).no)]
    /\ queue' = [queue EXCEPT ![main.at] = Tail(@)]
    /\ To("shipping")
    /\ UNCHANGED <<abandoned, stopping, heard>>

(* The end of the stream, or the plugin's own exception.                   *)
Hear ==
    /\ At("taking") /\ Current # <<>> /\ Head(Current).kind \in Ends
    /\ heard' = [heard EXCEPT ![main.at] = Head(Current).kind]
    /\ queue' = [queue EXCEPT ![main.at] = Tail(@)]
    /\ To("done")
    /\ UNCHANGED <<abandoned, stopping, got>>

Ship ==
    /\ At("shipping") /\ To("taking")
    /\ UNCHANGED <<shared, got, heard>>

(* The API would not take it: sync_source stops reading this source.       *)
Drop ==
    /\ At("shipping") /\ To("done")
    /\ heard' = [heard EXCEPT ![main.at] = "dropped"]
    /\ UNCHANGED <<shared, got>>

Done ==
    /\ At("done") /\ To("draining")
    /\ abandoned' = [abandoned EXCEPT ![main.at] = TRUE]
    /\ UNCHANGED <<queue, stopping, got, heard>>

Drain ==
    /\ At("draining")
    /\ queue' = [queue EXCEPT ![main.at] = <<>>]
    /\ main' = IF main.at = NumUnits THEN [main EXCEPT !.pc = "leaving"]
               ELSE [pc |-> "begin", at |-> main.at + 1]
    /\ UNCHANGED <<abandoned, stopping, got, heard>>

(* begin_sync raises, or the operator interrupts: out of the with block.   *)
Raises ==
    /\ main.pc \in {"begin", "taking", "shipping", "done", "draining"}
    /\ To("leaving")
    /\ UNCHANGED <<shared, got, heard>>

Stop ==
    /\ At("leaving")
    /\ main' = IF NumUnits = 0 THEN [main EXCEPT !.pc = "joining"] ELSE [pc |-> "emptying", at |-> 1]
    /\ stopping' = TRUE
    /\ UNCHANGED <<queue, abandoned, got, heard>>

Empty ==
    /\ At("emptying")
    /\ queue' = [queue EXCEPT ![main.at] = <<>>]
    /\ main' = IF main.at = NumUnits THEN [main EXCEPT !.pc = "joining"]
               ELSE [main EXCEPT !.at = @ + 1]
    /\ UNCHANGED <<abandoned, stopping, got, heard>>

(* shutdown(wait=True): what is left in the backlog is run, to its ends.   *)
Join ==
    /\ At("joining") /\ backlog \notin Plugins /\ \A w \in Workers : worker[w].pc = "idle"
    /\ To("left")
    /\ UNCHANGED <<shared, got, heard>>

Consumes == Begin \/ Take \/ Hear \/ Ship \/ Done \/ Drain \/ Stop \/ Empty \/ Join
Main == (Consumes \/ Drop \/ Raises) /\ UNCHANGED <<backlog, worker, read, ended>>

Over == At("left") /\ UNCHANGED vars

Next == Main \/ (\E w \in Workers : Worker(w)) \/ Over

(* Threads run, a plugin's fetch ends (its requests time out), and the API *)
(* answers or refuses; neither need fail, and nobody need interrupt.       *)
Spec ==
    /\ Init /\ [][Next]_vars
    /\ WF_vars(Consumes /\ UNCHANGED <<backlog, worker, read, ended>>)
    /\ \A w \in Workers : WF_vars(Worker(w))

-----------------------------------------------------------------------------
(* What must hold.                                                         *)

Whole(n) == [i \in 1 .. n |-> i]

(* A sync reads what its plugin yielded, in order, and ends as the plugin  *)
(* did - an error after everything read before it - exactly as if it had   *)
(* been read inline (prefetch.py items, "fails the sync exactly as it did  *)
(* when the fetch was inline").                                            *)
WholeAndInOrder ==
    \A u \in Units :
        /\ got[u] = Whole(Len(got[u]))
        /\ heard[u] \in Ends => Len(got[u]) = read[u] /\ ended[u] = heard[u]

(* Reader and writer never wait on each other for good: every sync ends,   *)
(* and leaving the block leaves no thread behind (prefetch.py:34-37).      *)
EverythingEnds == <>(main.pc = "left")
=============================================================================
