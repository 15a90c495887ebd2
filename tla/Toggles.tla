------------------------------ MODULE Toggles -------------------------------
(***************************************************************************)
(* What a member presses on the catalog page and the browser shows as done *)
(* before the server has heard of it: the two list buttons of every card,  *)
(* and the ticks of the member's own services.  Requests and answers take  *)
(* any time and overtake one another; a request may fail, or only its      *)
(* answer.  An entry is the set of things it says; none is the empty set.  *)
(***************************************************************************)
EXTENDS Naturals, FiniteSets, FiniteSetsExt

CONSTANTS
    Titles,     \* the titles on the page
    Services,
    MaxPresses, MaxFaults, MaxLoads

TogglesAssumption == {MaxPresses, MaxFaults, MaxLoads} \subseteq Nat

Lists == {"want_to_watch", "watched"}
Marks == Lists \cup {"note"}

VARIABLES
    kept,       \* the server's rows
    store,      \* the item store of the page
    painted,    \* what the buttons were last drawn from
    saved, me,  \* the member's services: the server's, and the combo's
    saveToken,
    calls,      \* requests on their way
    had, off,   \* history: all that a row has said, all that was pressed off
    raced,      \* history: the titles and ticks of which two things were under way
    lost,       \* history: what was written of them and the page never heard of
    told,       \* history: the titles whose entries have been read
    presses, faults, loads

vars == <<kept, store, painted, saved, me, saveToken, calls, had, off, raced, lost, told,
          presses, faults, loads>>

(* The first page has just been painted, and its entries are asked for.    *)
Init ==
    /\ kept \in [Titles -> SUBSET Marks]
    /\ store = [t \in Titles |-> {}] /\ painted = store
    /\ saved \in SUBSET Services /\ me = saved /\ saveToken = 0
    /\ calls = {[kind |-> "mine", phase |-> "sent", n |-> 0]}
    /\ had = kept /\ off = [t \in Titles |-> {}]
    /\ raced = {} /\ told = {}
    /\ lost = [x \in Titles \cup {"services"} |-> {}]
    /\ presses = 0 /\ faults = 0 /\ loads = 1

(* The title a call is about, or the ticks.                                *)
Concerns(c) == IF c.kind = "mine" THEN Titles ELSE {c.about}
UnderWay(x) == \E c \in calls : x \in Concerns(c)
Raced(xs) == raced' = raced \cup {x \in xs : UnderWay(x)}

SlipPatchesLost(entry, list, on) == IF on THEN {list} ELSE entry \ {list}

(* merged, and the server's own reading of a patch.                        *)
Patched(entry, list, on) == IF on THEN entry \cup {list} ELSE entry \ {list}

Bounded(n, max) == n < max /\ n' = n + 1

(* loadMineFor, once more for a page that was searched again: which of the *)
(* titles just painted the member keeps.                                   *)
LoadMine ==
    /\ Bounded(loads, MaxLoads)
    /\ painted' = store
    /\ calls' = calls \cup {[kind |-> "mine", phase |-> "sent", n |-> loads]}
    /\ Raced(Titles)
    /\ UNCHANGED <<kept, store, saved, me, saveToken, had, off, lost, told, presses, faults>>

(* A press on a list button: commitItem, up to its request.                *)
Press(t, list) ==
    /\ Bounded(presses, MaxPresses)
    /\ LET on == list \notin painted[t]
           next == Patched(store[t], list, on)
       IN /\ store' = [store EXCEPT ![t] = next]
          /\ painted' = [painted EXCEPT ![t] = next]
          /\ calls' = calls \cup
               {[kind |-> IF next = {} THEN "delete" ELSE "put", phase |-> "sent", n |-> presses,
                 about |-> t, list |-> list, on |-> on, before |-> store[t]]}
          /\ off' = IF on THEN off ELSE [off EXCEPT ![t] = @ \cup {list}]
    /\ Raced({t})
    /\ UNCHANGED <<kept, saved, me, saveToken, had, lost, told, faults, loads>>

(* A tick of the combo while it edits the member's services: saveMine.     *)
Tick(s) ==
    /\ Bounded(presses, MaxPresses)
    /\ me' = SymDiff(me, {s})
    /\ saveToken' = saveToken + 1
    /\ calls' = calls \cup {[kind |-> "save", phase |-> "sent", n |-> presses, about |-> "services",
                             token |-> saveToken', ids |-> me', before |-> me]}
    /\ Raced({"services"})
    /\ UNCHANGED <<kept, store, painted, saved, had, off, lost, told, faults, loads>>

(* The server's part of a call.                                            *)
Serve(c) ==
    /\ c.phase = "sent"
    /\ \/ /\ c.kind = "put"
          /\ kept' = [kept EXCEPT ![c.about] = Patched(@, c.list, c.on)]
          /\ had' = [had EXCEPT ![c.about] = @ \cup kept'[c.about]]
          /\ UNCHANGED saved
       \/ /\ c.kind = "delete"
          /\ kept' = [kept EXCEPT ![c.about] = {}]
          /\ UNCHANGED <<had, saved>>
       \/ c.kind = "save" /\ saved' = c.ids /\ UNCHANGED <<kept, had>>
       \/ c.kind = "mine" /\ UNCHANGED <<kept, had, saved>>
    /\ calls' = (calls \ {c}) \cup
         {IF c.kind = "mine" THEN [kind |-> "mine", phase |-> "served", n |-> c.n, answer |-> kept]
          ELSE [c EXCEPT !.phase = "served"]}
    /\ UNCHANGED <<store, painted, me, saveToken, off, raced, lost, told, presses, faults, loads>>

(* What a write changed that the page knows nothing of: the ticks are      *)
(* written whole, an entry field by field.                                 *)
Written(c, before) == IF c.kind = "save" THEN SymDiff(c.ids, c.before) ELSE before \cup {c.list}

(* The network fails, before the server heard or after it answered: to the *)
(* page both are the same.                                                 *)
Fault(c) ==
    /\ c.phase \in {"sent", "served"}
    /\ Bounded(faults, MaxFaults)
    /\ calls' = (calls \ {c}) \cup {[c EXCEPT !.phase = "failed"]}
    /\ lost' = IF c.phase = "sent" \/ c.kind = "mine" THEN lost
               ELSE [lost EXCEPT ![c.about] = Written(c, @)]
    /\ UNCHANGED <<kept, store, painted, saved, me, saveToken, had, off, raced, told, presses, loads>>

(* The page hears that a write is done: it has shown so all along.         *)
Agrees(c) ==
    /\ c.phase = "served" /\ c.kind \in {"put", "delete"}
    /\ calls' = calls \ {c}
    /\ lost' = [lost EXCEPT ![c.about] = IF c.kind = "put" THEN @ \ {c.list} ELSE {}]
    /\ UNCHANGED <<kept, store, painted, saved, me, saveToken, had, off, raced, told,
                   presses, faults, loads>>

SlipStays(c, entry) == entry

(* items.apply's undo: the whole entry as it was before the press.         *)
Undone(c, entry) == c.before

(* ... or that it failed: the undo, and a repaint.                         *)
RollsBack(c) ==
    /\ c.phase = "failed" /\ c.kind \in {"put", "delete"}
    /\ calls' = calls \ {c}
    /\ store' = [store EXCEPT ![c.about] = Undone(c, @)]
    /\ painted' = [painted EXCEPT ![c.about] = store'[c.about]]
    /\ UNCHANGED <<kept, saved, me, saveToken, had, off, raced, lost, told, presses, faults, loads>>

(* items.merge: what the server has is laid over what the page had, and    *)
(* painted if there is any; that it failed goes unnoticed.                 *)
Merges(c) ==
    /\ c.kind = "mine" /\ c.phase \in {"served", "failed"}
    /\ calls' = calls \ {c}
    /\ LET got == IF c.phase = "failed" THEN {} ELSE {t \in Titles : c.answer[t] # {}} IN
        /\ store' = [t \in Titles |-> IF t \in got THEN c.answer[t] ELSE store[t]]
        /\ painted' = IF got = {} THEN painted ELSE store'
        /\ lost' = [x \in DOMAIN lost |-> IF x \in got THEN {} ELSE lost[x]]
    /\ told' = IF c.phase = "failed" THEN told ELSE Titles
    /\ UNCHANGED <<kept, saved, me, saveToken, had, off, raced, presses, faults, loads>>

SlipUndoesAnyway(c) == TRUE

(* Only the newest save's answer counts.                                   *)
IsNewest(c) == c.token = saveToken

Ticked(c) ==
    /\ c.kind = "save" /\ c.phase \in {"served", "failed"}
    /\ calls' = calls \ {c}
    /\ me' = IF ~IsNewest(c) THEN me ELSE IF c.phase = "served" THEN c.ids ELSE c.before
    /\ lost' = IF c.phase = "served" THEN [lost EXCEPT !["services"] = {}] ELSE lost
    /\ UNCHANGED <<kept, store, painted, saved, saveToken, had, off, raced, told,
                   presses, faults, loads>>

Next ==
    \/ LoadMine
    \/ \E t \in Titles, list \in Lists : Press(t, list)
    \/ \E s \in Services : Tick(s)
    \/ \E c \in calls : Serve(c) \/ Fault(c) \/ Agrees(c) \/ RollsBack(c) \/ Merges(c) \/ Ticked(c)

Spec == Init /\ [][Next]_vars

-----------------------------------------------------------------------------
(* What must hold.                                                         *)

TypeOK ==
    /\ {kept, store, painted, had} \subseteq [Titles -> SUBSET Marks]
    /\ off \in [Titles -> SUBSET Lists]
    /\ {saved, me} \subseteq SUBSET Services
    /\ \A c \in calls : /\ c.kind \in {"mine", "put", "delete", "save"}
                        /\ c.phase \in {"sent", "served", "failed"}
    /\ raced \subseteq Titles \cup {"services"} /\ told \subseteq Titles
    /\ \A x \in DOMAIN lost : lost[x] \subseteq IF x \in Titles THEN Lists ELSE Services

(* Once everything is answered, the page shows what the server has, of all *)
(* that was not pressed while something of it was under way - but for what *)
(* the server wrote and the network then lost the answer to: the page took *)
(* that back, and the two differ by it, and by nothing else, until it is   *)
(* pressed or read again.  So far is it true that "the viewer never sees a *)
(* state the server did not agree to" (account.js commitItem, home.js      *)
(* saveMine).                                                              *)
UnracedPressesAgree ==
    /\ \A t \in told \ raced : ~UnderWay(t) =>
          SymDiff(store[t], kept[t]) \subseteq lost[t] /\ painted[t] = store[t]
    /\ "services" \notin raced /\ ~UnderWay("services") => SymDiff(me, saved) = lost["services"]

(* A row loses nothing that was not pressed off: not reading a member's    *)
(* entries "costs the toggles their state" and no more (account.js).       *)
NothingElseTakenOff == \A t \in Titles : had[t] \ kept[t] \subseteq off[t]
=============================================================================
