-------------------------------- MODULE Queue --------------------------------
(***************************************************************************)
(* The review queue as people work through it: the page of the Manage tab  *)
(* (web/js/views/review.js) and the routes it calls                        *)
(* (eifo_api/routers/reviews.py, eifo_core/reviews.py), several pages on   *)
(* one queue.  Which title a ruling gives a listing is Match's; here a     *)
(* ruling is the answer somebody gave, and a request reads, waits and      *)
(* writes.                                                                 *)
(***************************************************************************)
EXTENDS Naturals, FiniteSets

CONSTANTS
    Rows,        \* parked listings, numbered as they were parked
    SourceOf,    \* [Rows -> sources]
    Closeness,   \* [Rows -> Nat], 0 where the matcher suggested no title
    Numbered,    \* those that carry the TMDB id of one film nobody holds
    PageLength,  \* PAGE_SIZE
    Tabs,        \* pages open on the queue
    MaxCalls,    \* bound: requests that are sent
    MaxOpened,   \* bound: pages loaded after the first
    None

QueueAssumption ==
    /\ Rows \subseteq Nat /\ IsFiniteSet(Rows) /\ Numbered \subseteq Rows
    /\ Closeness \in [Rows -> Nat] /\ PageLength \in Nat /\ MaxCalls \in Nat /\ MaxOpened \in Nat
    /\ None \notin Tabs \cup {SourceOf[r] : r \in Rows}

Calls == 1 .. MaxCalls
Orders == {"age", "similarity"}
Decisions == {"attached", "created", "dismissed"}

VARIABLES
    rows,      \* match_reviews: what was decided of each
    titled,    \* rows a title was created from
    tab,       \* the pages
    call,      \* the requests
    opened,
    told,      \* history: what a page was told its own ruling was
    raced      \* history: rows two requests were at together

vars == <<rows, titled, tab, call, opened, told, raced>>

View == [cards : SUBSET Rows, order : Orders,
         done : SUBSET Rows, pressed : SUBSET Rows, ticked : SUBSET Rows, selected : SUBSET Rows,
         bar : {"hidden", "open", "busy", "error"}]
Call == [pc : {"unsent", "sent", "read", "applied", "failed", "over"},
         from : Tabs \cup {None}, bulk : BOOLEAN, ids : SUBSET Rows,
         how : Decisions, found : SUBSET Rows]

TypeOK ==
    /\ rows \in [Rows -> Decisions \cup {"waiting", "gone"}]
    /\ tab \in [Tabs -> View] /\ call \in [Calls -> Call]
    /\ told \in [Rows -> Decisions \cup {None}] /\ raced \subseteq Rows
    /\ titled \subseteq Rows /\ opened \in 0 .. MaxOpened

-----------------------------------------------------------------------------
(* The queue, a page of it at a time.                                      *)

Waiting == {r \in Rows : rows[r] = "waiting"}

(* The order of pending: without a suggestion comes last.                  *)
Before(order, r, s) ==
    IF order = "similarity" /\ Closeness[r] # Closeness[s]
    THEN Closeness[r] > Closeness[s] ELSE r < s

(* pending_query, and the first page of it.                                *)
Listed(source, order) ==
    LET asked == {r \in Waiting : source \in {None, SourceOf[r]}}
    IN  {r \in asked : Cardinality({s \in asked : Before(order, s, r)}) < PageLength}

Fresh(cards, order) ==
    [cards |-> cards, order |-> order, done |-> {}, pressed |-> {}, ticked |-> {},
     selected |-> {}, bar |-> "hidden"]

Unsent == [pc |-> "unsent", from |-> None, bulk |-> FALSE, ids |-> {},
           how |-> "dismissed", found |-> {}]

Init ==
    /\ rows = [r \in Rows |-> "waiting"] /\ titled = {}
    /\ tab = [t \in Tabs |-> Fresh(Listed(None, "age"), "age")]
    /\ call = [c \in Calls |-> Unsent] /\ opened = 0
    /\ told = [r \in Rows |-> None] /\ raced = {}

table == <<rows, titled, raced, told>>

(* A chip, or the page entered again: what was asked before is still       *)
(* answered, and paints nothing.                                           *)
Mount(t, source, order) ==
    /\ opened < MaxOpened /\ opened' = opened + 1
    /\ tab' = [tab EXCEPT ![t] = Fresh(Listed(source, order), order)]
    /\ call' = [c \in Calls |-> IF call[c].from = t THEN [call[c] EXCEPT !.from = None] ELSE call[c]]
    /\ UNCHANGED table

-----------------------------------------------------------------------------
(* What a reviewer does.                                                   *)

Standing(t) == tab[t].cards \ tab[t].done

(* refreshBulk.                                                            *)
Painted(view) == [view EXCEPT !.bar = IF view.selected = {} THEN "hidden" ELSE "open"]

(* The checkbox of a card, one way and the other.                          *)
Tick(t) ==
    /\ \E r \in Standing(t) :
          tab' = [tab EXCEPT ![t] =
             Painted(IF r \in @.ticked
                     THEN [@ EXCEPT !.ticked = @ \ {r}, !.selected = @ \ {r}]
                     ELSE [@ EXCEPT !.ticked = @ \cup {r}, !.selected = @ \cup {r}])]
    /\ UNCHANGED <<table, call, opened>>

(* A card that was ruled on has no checkbox to clear, and the loop over    *)
(* the cards ends there.                                                   *)
Clear(t) ==
    /\ tab[t].bar = "open"
    /\ tab' = [tab EXCEPT ![t] =
          IF @.done = {} THEN [@ EXCEPT !.selected = {}, !.ticked = {}, !.bar = "hidden"]
          ELSE [@ EXCEPT !.selected = {},
                         !.ticked = {r \in @ : \E d \in tab[t].done : Before(tab[t].order, d, r)}]]
    /\ UNCHANGED <<table, call, opened>>

Sends(t, ids, how, bulk) ==
    \E c \in Calls :
        /\ call[c].pc = "unsent" /\ \A o \in 1 .. c - 1 : call[o].pc # "unsent"
        /\ call' = [call EXCEPT ![c] = [pc |-> "sent", from |-> t, bulk |-> bulk, ids |-> ids,
                                        how |-> how, found |-> {}]]

(* One of the three buttons, or 1, 2 or 3: a card is pressed once, and the *)
(* one that says "same" needs a suggestion.                                *)
Press(t) ==
    /\ \E r \in Standing(t) \ tab[t].pressed, how \in Decisions :
          /\ how = "attached" => Closeness[r] # 0
          /\ tab' = [tab EXCEPT ![t].pressed = @ \cup {r}]
          /\ Sends(t, {r}, how, FALSE)
    /\ UNCHANGED <<table, opened>>

(* applyBulk, of what is selected now.                                     *)
ApplyBulk(t) ==
    /\ tab[t].bar = "open"
    /\ \E how \in Decisions \ {"attached"} : Sends(t, tab[t].selected, how, TRUE)
    /\ tab' = [tab EXCEPT ![t].bar = "busy"]
    /\ UNCHANGED <<table, opened>>

-----------------------------------------------------------------------------
(* A request, by whoever serves it.                                        *)

SlipRulesAgain(ids) == {r \in ids : rows[r] # "gone"}

(* _unresolved, and the select of rule_in_bulk.                            *)
Unresolved(ids) == ids \cap Waiting

(* Somebody ruled already: 409, where one row is asked for (404 for a row  *)
(* that has gone); skipped in a selection, which must name a row (422).    *)
Reads(c) ==
    /\ call[c].pc = "sent"
    /\ LET found == Unresolved(call[c].ids)
           others == UNION {call[o].found : o \in {o \in Calls \ {c} : call[o].pc = "read"}}
       IN  /\ call' = [call EXCEPT ![c].found = found,
                  ![c].pc = IF call[c].ids = {} \/ (~call[c].bulk /\ found = {})
                            THEN "failed" ELSE "read"]
           /\ raced' = raced \cup (found \cap others)
    /\ UNCHANGED <<rows, titled, tab, opened, told>>

(* A row swept meanwhile is one update too few, and two titles may not     *)
(* share an id: the whole transaction is refused.                          *)
Refused(found, how) ==
    \/ \E r \in found : rows[r] = "gone"
    \/ how = "created" /\ (\/ found \cap Numbered # {} /\ titled \cap Numbered # {}
                           \/ Cardinality(found \cap Numbered) > 1)

Writes(c) ==
    /\ call[c].pc = "read"
    /\ LET found == call[c].found
           how == call[c].how
       IN  IF Refused(found, how)
           THEN /\ call' = [call EXCEPT ![c].pc = "failed"]
                /\ UNCHANGED <<rows, titled>>
           ELSE /\ call' = [call EXCEPT ![c].pc = "applied"]
                /\ rows' = [r \in Rows |-> IF r \in found THEN how ELSE rows[r]]
                /\ titled' = IF how = "created" THEN titled \cup found ELSE titled
    /\ UNCHANGED <<tab, opened, told, raced>>

(* The connection goes, before the request is served or after.             *)
Lost(c) ==
    /\ call[c].pc \in {"sent", "applied"}
    /\ call' = [call EXCEPT ![c].pc = "failed"]
    /\ UNCHANGED <<table, tab, opened>>

(* settle: a card ruled on keeps its place and nothing else, and stays     *)
(* selected if it was.                                                     *)
Settles(view, ids) == [view EXCEPT !.done = @ \cup (ids \cap view.cards), !.ticked = @ \ ids]

(* The answer: every card that was asked about is settled, the rows that   *)
(* were skipped too, and the selection as it now is is forgotten.          *)
Hears(c) ==
    /\ call[c].pc \in {"applied", "failed"}
    /\ call' = [call EXCEPT ![c] = [Unsent EXCEPT !.pc = "over"]]
    /\ LET t == call[c].from
           ok == call[c].pc = "applied"
       IN  IF t = None THEN UNCHANGED <<tab, told>>
           ELSE /\ tab' = [tab EXCEPT ![t] =
                      CASE ok /\ call[c].bulk ->
                              [Settles(@, call[c].ids) EXCEPT !.selected = {}, !.bar = "hidden"]
                        [] ok /\ ~call[c].bulk -> Settles(@, call[c].ids)
                        [] ~ok /\ call[c].bulk -> [@ EXCEPT !.bar = "error"]
                        [] OTHER -> @]
                /\ told' = [r \in Rows |-> IF ok /\ ~call[c].bulk /\ r \in call[c].ids
                                           THEN call[c].how ELSE told[r]]
    /\ UNCHANGED <<rows, titled, raced, opened>>

(* A sync sweeps a park its listing has left (Sync).                       *)
Sweep ==
    /\ \E r \in Waiting : rows' = [rows EXCEPT ![r] = "gone"]
    /\ UNCHANGED <<titled, tab, call, opened, told, raced>>

Next ==
    \/ \E t \in Tabs :
          \/ Tick(t) \/ Clear(t) \/ Press(t) \/ ApplyBulk(t)
          \/ \E source \in {SourceOf[r] : r \in Rows} \cup {None}, order \in Orders :
                Mount(t, source, order)
    \/ \E c \in Calls : Reads(c) \/ Writes(c) \/ Lost(c) \/ Hears(c)
    \/ Sweep

Spec == Init /\ [][Next]_vars

-----------------------------------------------------------------------------

(* What the page says of a ruling is so, whoever else is at the queue: a   *)
(* card that says it was ruled on, by itself or in a selection, does not   *)
(* wait any more; nothing is selected that is neither ticked nor ruled on; *)
(* and the answer a reviewer gave to one row is the one it keeps, unless   *)
(* two requests were at that row together.  (reviews.py: "two people       *)
(* draining the same queue, or one person with two tabs".)                 *)
ToldIsSo ==
    /\ \A t \in Tabs :
          /\ tab[t].done \cap Waiting = {}
          /\ tab[t].selected \subseteq tab[t].ticked \cup tab[t].done
    /\ \A r \in Rows \ raced : told[r] # None => rows[r] = told[r]
=============================================================================
