------------------------------- MODULE Suggest -------------------------------
(***************************************************************************)
(* The search box of every page: the list of suggestions under it          *)
(* (web/js/suggest.js), and the search of the catalog it makes             *)
(* (buildHeader in web/js/app.js).  Each waits for a pause in the typing   *)
(* by a timer of its own; answers come when they come, or never.           *)
(***************************************************************************)
EXTENDS Naturals

CONSTANTS
    Words,       \* what is typed, trimmed
    Short,       \* those shorter than MIN_LENGTH
    Links,       \* addresses the viewer may go back to
    MaxTyped, MaxBlurs,   \* bounds
    None

SuggestAssumption ==
    /\ Short \subseteq Words /\ "" \in Short /\ None \notin Words
    /\ MaxTyped \in Nat /\ MaxBlurs \in Nat

VARIABLES
    box,        \* input.value
    focused,
    timer,      \* the query that is asked when it rings
    inFlight,   \* the query that is asked
    list,       \* the query whose answer is shown, None where it is hidden
    searching,  \* the query that is searched for when the debounce rings
    address,    \* window.location.hash
    changed,    \* its hashchange is still to come
    blurs,      \* timers that close the list after a blur
    typing,     \* history: what the box says was typed where it stands
    typed       \* keystrokes so far

lists == <<timer, inFlight, list>>
place == <<address, changed>>
vars == <<box, focused, timer, inFlight, list, searching, address, changed, blurs, typing, typed>>

Address == [page : {"home", "other"}, q : Words]

TypeOK ==
    /\ box \in Words /\ {timer, inFlight, list, searching} \subseteq Words \cup {None}
    /\ address \in Address /\ {focused, changed, typing} \subseteq BOOLEAN
    /\ blurs \in 0 .. MaxBlurs /\ typed \in 0 .. MaxTyped

Init ==
    /\ address \in Links /\ box = address.q
    /\ timer = None /\ inFlight = None /\ list = None /\ searching = None
    /\ focused = FALSE /\ changed = FALSE /\ blurs = 0 /\ typing = FALSE /\ typed = 0

-----------------------------------------------------------------------------
(* The box.                                                                *)

Focus ==
    /\ ~focused /\ focused' = TRUE
    /\ UNCHANGED <<box, lists, searching, place, blurs, typing, typed>>

SlipStaysOpen(w) == UNCHANGED list

(* close, of what is too short to guess from.                              *)
Stays(w) == IF w \in Short THEN list' = None ELSE UNCHANGED list

(* Both listeners of the input: onInput of suggest.js, and the debounce.   *)
Type(w) ==
    /\ focused /\ w # box /\ typed < MaxTyped
    /\ box' = w /\ typing' = TRUE /\ typed' = typed + 1
    /\ timer' = IF w \in Short THEN None ELSE w
    /\ inFlight' = IF w \in Short THEN None ELSE inFlight
    /\ Stays(w)
    /\ searching' = w
    /\ UNCHANGED <<focused, place, blurs>>

Escape ==
    /\ focused /\ list # None /\ list' = None
    /\ UNCHANGED <<box, focused, timer, inFlight, searching, place, blurs, typing, typed>>

(* Focus goes elsewhere; the list stays for a click to land.               *)
Blurred == focused' = FALSE /\ typing' = FALSE /\ blurs' = blurs + 1

Blur ==
    /\ focused /\ blurs < MaxBlurs /\ Blurred
    /\ UNCHANGED <<box, lists, searching, place, typed>>

Grace ==
    /\ blurs > 0 /\ blurs' = blurs - 1 /\ list' = None
    /\ UNCHANGED <<box, focused, timer, inFlight, searching, place, typing, typed>>

(* choose, of a title, a person, or the dialog that adds a film: what was  *)
(* typed since is not forgotten, nor what was asked.                       *)
Choose ==
    /\ focused /\ list # None /\ blurs < MaxBlurs /\ Blurred
    /\ list' = None
    /\ \/ address' = [page |-> "other", q |-> ""] /\ changed' = TRUE
       \/ UNCHANGED place
    /\ UNCHANGED <<box, timer, inFlight, searching, typed>>

-----------------------------------------------------------------------------
(* The timers and the server.                                              *)

(* ask: the request before it is aborted, and ends as a failure.           *)
Ask ==
    /\ timer # None
    /\ list' = IF inFlight # None THEN None ELSE list
    /\ inFlight' = timer /\ timer' = None
    /\ UNCHANGED <<box, focused, searching, place, blurs, typing, typed>>

(* An answer to a question that has since changed is not shown.            *)
Answer ==
    /\ inFlight # None /\ inFlight' = None
    /\ list' = IF inFlight = box THEN inFlight ELSE list
    /\ UNCHANGED <<box, focused, timer, searching, place, blurs, typing, typed>>

Fail ==
    /\ inFlight # None /\ inFlight' = None
    /\ list' = None
    /\ UNCHANGED <<box, focused, timer, searching, place, blurs, typing, typed>>

(* On the catalog the query is changed in place, from elsewhere the        *)
(* catalog is gone to.                                                     *)
Search ==
    /\ searching # None /\ searching' = None
    /\ address' = [page |-> "home", q |-> searching]
    /\ changed' = (changed \/ address.page # "home")
    /\ UNCHANGED <<box, focused, lists, blurs, typing, typed>>

-----------------------------------------------------------------------------
(* The address.                                                            *)

(* The back button, a link, another page's doing.                          *)
Go(to) ==
    /\ to # address
    /\ address' = to /\ changed' = TRUE /\ typing' = FALSE
    /\ UNCHANGED <<box, focused, lists, searching, blurs, typed>>

HashChange ==
    /\ changed /\ changed' = FALSE
    /\ box' = IF focused THEN box ELSE address.q
    /\ UNCHANGED <<focused, lists, searching, address, blurs, typing, typed>>

Next ==
    \/ Focus \/ Escape \/ Blur \/ Grace \/ Choose
    \/ Ask \/ Answer \/ Fail \/ Search \/ HashChange
    \/ \E w \in Words : Type(w)
    \/ \E to \in Links : Go(to)

Spec == Init /\ [][Next]_vars

-----------------------------------------------------------------------------

(* Whoever types and stays in the box is caught up with, on both counts: a *)
(* list that answers something else is about to be replaced, and when no   *)
(* search is to come the catalog's address asks for what the box says.     *)
(* (suggest.js: "an answer to a question that has since changed would      *)
(* replace a newer one"; "the two cannot drift".)                          *)
TypistIsAnswered ==
    typing =>
        /\ list \in {None, box} \/ box \in {timer, inFlight}
        /\ searching = box \/ address = [page |-> "home", q |-> box]
=============================================================================
