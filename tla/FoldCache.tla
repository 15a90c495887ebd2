----------------------------- MODULE FoldCache -----------------------------
(***************************************************************************)
(* The folded catalog the matcher compares names against, kept by the API  *)
(* between requests and shared by those that match a chunk: FoldedTitles,  *)
(* KnownTitles and _Stamp of eifo_core/match.py, used by                   *)
(* eifo_api/routers/syncing.py.                                            *)
(*                                                                         *)
(* Requests are threads of one process, and nothing locks the fold.  They  *)
(* share SQLite's one write lock: a request that has written is alone to   *)
(* write until it ends, and reads its own writes; before that it reads     *)
(* what is committed.  A name is the moment it was given.  One kind of     *)
(* title is enough: the stamp is over all of them.                         *)
(***************************************************************************)
EXTENDS Naturals, FiniteSets, FiniteSetsExt

CONSTANTS
    Chunks,     \* requests that match a chunk, a worker thread each
    Others,     \* what everybody else does to titles: "insert", "rename", "delete"
    MaxAge,     \* match.FOLD_MAX_AGE, in clock ticks
    MaxTitles,  \* bound: title ids
    MaxTime,    \* bound: clock ticks
    None

FoldCacheAssumption ==
    /\ Others \subseteq {"insert", "rename", "delete"}
    /\ MaxAge \in Nat /\ MaxTitles \in Nat \ {0} /\ MaxTime \in Nat
    /\ None \notin Nat /\ None \notin Chunks

TitleIds == 1 .. MaxTitles
Title == [name : Nat, at : Nat]
Tables == [TitleIds -> Title \cup {None}]
Names == [TitleIds -> Nat \cup {None}]
StampOf == [count : Nat, newest : Nat, touched : Nat]

VARIABLES
    now,
    titles,   \* the titles table, committed; at is updated_at
    draft,    \* the same as the holder of the write lock reads it
    writer,   \* the request that holds the write lock
    queued,   \* updated_at of somebody else's write that waits for the lock
    fold,     \* the shared fold: by_kind, None until it is read
    stamp,    \* and its stamp, taken at `taken`
    taken,
    chunk,    \* what each request is at
    since     \* history: when a title's committed name last became what it is

vars == <<now, titles, draft, writer, queued, fold, stamp, taken, chunk, since>>
held == <<fold, stamp, taken>>

Chunk == [pc    : {"idle", "emptying", "stamping", "listing", "folding", "compared",
                   "created", "adopted"},
          rows  : Names \cup {None},   \* of_kind: read, not kept yet
          title : TitleIds \cup {0},   \* written, the fold not told yet
          began : Nat,
          own   : SUBSET TitleIds]     \* history: titles it made or renamed

Between == [pc |-> "idle", rows |-> None, title |-> 0, began |-> 0, own |-> {}]

TypeOK ==
    /\ now \in Nat /\ taken \in Nat
    /\ titles \in Tables /\ draft \in Tables
    /\ writer \in Chunks \cup {None}
    /\ queued \in Nat \cup {None}
    /\ fold \in Names \cup {None}
    /\ stamp \in StampOf \cup {None}
    /\ chunk \in [Chunks -> Chunk]
    /\ since \in [TitleIds -> Nat]

Init ==
    /\ now = 0 /\ taken = 0
    /\ titles = [t \in TitleIds |-> IF t = 1 THEN [name |-> 0, at |-> 0] ELSE None]
    /\ draft = titles
    /\ writer = None /\ queued = None
    /\ fold = None /\ stamp = None
    /\ chunk = [c \in Chunks |-> Between]
    /\ since = [t \in TitleIds |-> 0]

-----------------------------------------------------------------------------
(* What is read.                                                           *)

Existing(table) == {t \in TitleIds : table[t] # None}
Highest(S) == Max(S \cup {0})
NamesIn(table) == [t \in TitleIds |-> IF table[t] = None THEN None ELSE table[t].name]

(* Its own writes if it holds the lock, what is committed otherwise.       *)
Reads(c) == IF writer = c THEN draft ELSE titles

SlipUncounted(table) ==
    [count |-> 0, newest |-> Highest(Existing(table)),
     touched |-> Highest({table[t].at : t \in Existing(table)})]

(* _Stamp.of.                                                              *)
Stamp(table) ==
    [count   |-> Cardinality(Existing(table)),
     newest  |-> Highest(Existing(table)),
     touched |-> Highest({table[t].at : t \in Existing(table)})]

SlipAgeless(c) == stamp # None /\ Stamp(Reads(c)) = stamp

(* usable: young enough, and the table looks as it did.                    *)
Usable(c) == stamp # None /\ now - taken <= MaxAge /\ Stamp(Reads(c)) = stamp

(* saw, on whichever stamp is there by now.                                *)
Saw(s, t, at) ==
    [s EXCEPT !.newest = Highest({@, t}), !.touched = Highest({@, at})]

SlipNotAppended(t, name) == fold

(* A kind that nobody has read yet is left to be read whole.               *)
With(t, name) == IF fold = None THEN None ELSE [fold EXCEPT ![t] = name]

-----------------------------------------------------------------------------
(* A request that matches a chunk.                                         *)

At(c, pc) == chunk[c].pc = pc
To(c, pc) == chunk' = [chunk EXCEPT ![c].pc = pc]

(* KnownTitles: take the shared fold, or start a fresh one.                *)
Begin(c) ==
    /\ At(c, "idle")
    /\ chunk' = [chunk EXCEPT ![c] =
          [Between EXCEPT !.pc = IF Usable(c) THEN "listing" ELSE "emptying", !.began = now]]
    /\ UNCHANGED <<now, titles, draft, writer, queued, held, since>>

(* start, in its two parts: by_kind is emptied before the stamp is read.   *)
Empties(c) ==
    /\ At(c, "emptying") /\ To(c, "stamping")
    /\ fold' = None
    /\ UNCHANGED <<now, titles, draft, writer, queued, stamp, taken, since>>

Stamps(c) ==
    /\ At(c, "stamping") /\ To(c, "listing")
    /\ stamp' = Stamp(Reads(c))
    /\ taken' = chunk[c].began
    /\ UNCHANGED <<now, titles, draft, writer, queued, fold, since>>

(* of_kind: the next listing is compared with every title of its kind, as  *)
(* folded, or as read now and kept when the folding is done.               *)
Compares(c) ==
    /\ At(c, "listing") /\ fold # None
    /\ To(c, "compared")
    /\ UNCHANGED <<now, titles, draft, writer, queued, held, since>>

Rereads(c) ==
    /\ At(c, "listing") /\ fold = None
    /\ chunk' = [chunk EXCEPT ![c].pc = "folding", ![c].rows = NamesIn(Reads(c))]
    /\ UNCHANGED <<now, titles, draft, writer, queued, held, since>>

Keeps(c) ==
    /\ At(c, "folding")
    /\ fold' = chunk[c].rows
    /\ chunk' = [chunk EXCEPT ![c].pc = "compared", ![c].rows = None]
    /\ UNCHANGED <<now, titles, draft, writer, queued, stamp, taken, since>>

(* A write of this request: the first of them takes the lock.              *)
Writes(c, t, title) ==
    /\ writer \in {None, c}
    /\ writer' = c
    /\ now < MaxTime /\ now' = now + 1
    /\ draft' = [Reads(c) EXCEPT ![t] = title]

(* _create_title: flushed, and then the fold is told.                      *)
Creates(c) ==
    /\ At(c, "compared")
    /\ LET t == Highest(Existing(Reads(c))) + 1 IN
        /\ t \in TitleIds
        /\ Writes(c, t, [name |-> now', at |-> now'])
        /\ chunk' = [chunk EXCEPT ![c].pc = "created", ![c].title = t, ![c].own = @ \cup {t}]
    /\ UNCHANGED <<titles, queued, held, since>>

(* add                                                                     *)
Adds(c) ==
    LET t == chunk[c].title IN
    /\ At(c, "created")
    /\ stamp' = Saw([stamp EXCEPT !.count = @ + 1], t, draft[t].at)
    /\ fold' = With(t, draft[t].name)
    /\ chunk' = [chunk EXCEPT ![c].pc = "listing", ![c].title = 0]
    /\ UNCHANGED <<now, titles, draft, writer, queued, taken, since>>

(* _adopt_tmdb_hit, onto a title the comparison found: it gains a name.    *)
Adopts(c) ==
    /\ At(c, "compared")
    /\ \E t \in Existing(Reads(c)) :
        /\ Writes(c, t, [name |-> now', at |-> now'])
        /\ chunk' = [chunk EXCEPT ![c].pc = "adopted", ![c].title = t, ![c].own = @ \cup {t}]
    /\ UNCHANGED <<titles, queued, held, since>>

(* refresh                                                                 *)
Refreshes(c) ==
    LET t == chunk[c].title IN
    /\ At(c, "adopted")
    /\ stamp' = Saw(stamp, t, draft[t].at)
    /\ fold' = With(t, draft[t].name)
    /\ chunk' = [chunk EXCEPT ![c].pc = "listing", ![c].title = 0]
    /\ UNCHANGED <<now, titles, draft, writer, queued, taken, since>>

(* A match that only fills in a poster moves updated_at, and tells nobody. *)
Touches(c) ==
    /\ At(c, "compared") /\ To(c, "listing")
    /\ \E t \in Existing(Reads(c)) : Writes(c, t, [Reads(c)[t] EXCEPT !.at = now'])
    /\ UNCHANGED <<titles, queued, held, since>>

MatchesQuietly(c) ==
    /\ At(c, "compared") /\ To(c, "listing")
    /\ UNCHANGED <<now, titles, draft, writer, queued, held, since>>

Renamed(before, after) == {t \in TitleIds : NamesIn(before)[t] # NamesIn(after)[t]}
Since(changed) == since' = [t \in TitleIds |-> IF t \in changed THEN now ELSE since[t]]

(* The chunk is committed, or the request fails and leaves nothing.        *)
Ends(c) ==
    /\ At(c, "listing")
    /\ \/ titles' = Reads(c)
       \/ UNCHANGED titles
    /\ draft' = IF writer = c THEN titles' ELSE draft
    /\ writer' = IF writer = c THEN None ELSE writer
    /\ Since(Renamed(titles, Reads(c)))
    /\ chunk' = [chunk EXCEPT ![c] = Between]
    /\ UNCHANGED <<now, queued, held>>

-----------------------------------------------------------------------------
(* Everybody else: enrichment, reviewers, the Manage tab.                  *)

(* The ORM dates a write before SQLite lets it through.                    *)
Dates ==
    /\ queued = None /\ now < MaxTime
    /\ now' = now + 1 /\ queued' = now'
    /\ UNCHANGED <<titles, draft, writer, held, chunk, since>>

Done(what) ==
    CASE what = "insert" ->
            {[titles EXCEPT ![t] = [name |-> queued, at |-> queued]] :
                t \in {Highest(Existing(titles)) + 1} \cap TitleIds}
      [] what = "rename" ->
            {[titles EXCEPT ![t] = [name |-> queued, at |-> queued]] : t \in Existing(titles)}
      [] what = "delete" -> {[titles EXCEPT ![t] = None] : t \in Existing(titles)}

Lands ==
    /\ queued # None /\ writer = None
    /\ \E what \in Others : titles' \in Done(what)
    /\ draft' = titles' /\ queued' = None
    /\ Since(Renamed(titles, titles'))
    /\ UNCHANGED <<now, writer, held, chunk>>

Tick ==
    /\ now < MaxTime /\ now' = now + 1
    /\ UNCHANGED <<titles, draft, writer, queued, held, chunk, since>>

Next ==
    \/ \E c \in Chunks :
        \/ Begin(c) \/ Empties(c) \/ Stamps(c)
        \/ Compares(c) \/ Rereads(c) \/ Keeps(c)
        \/ Creates(c) \/ Adds(c) \/ Adopts(c) \/ Refreshes(c)
        \/ Touches(c) \/ MatchesQuietly(c) \/ Ends(c)
    \/ Dates \/ Lands \/ Tick

Spec == Init /\ [][Next]_vars

-----------------------------------------------------------------------------
(* What must hold.                                                         *)

(* The fold is handed over as good, and somebody has read it.              *)
HandedOver(c) == Begin(c) /\ Usable(c) /\ fold # None

(* A fold that is handed over has every title, and no other: count and     *)
(* newest catch anything inserted or deleted (match.py:335-336).           *)
NoTitleMissed ==
    [][\A c \in Chunks : HandedOver(c) =>
          \A t \in TitleIds : fold[t] = None <=> titles[t] = None]_vars

(* A name can be stale for at most FOLD_MAX_AGE, whatever else happens     *)
(* (match.py:325-326): what a chunk is handed has every name that has      *)
(* stood for longer, or the one that the writer is about to commit.        *)
StaleAtMostMaxAge ==
    [][\A c \in Chunks : HandedOver(c) =>
          \A t \in TitleIds : now - since[t] > MaxAge =>
              fold[t] \in {NamesIn(titles)[t], NamesIn(draft)[t]}]_vars

(* A listing is compared with the titles this very chunk has made or named *)
(* before it, under those names, so that one work never becomes two titles *)
(* within a chunk (match.py:496-500).                                      *)
OwnWorkIsSeen ==
    [][\A c \in Chunks : Compares(c) =>
          \A t \in chunk[c].own : fold[t] = NamesIn(Reads(c))[t]]_vars

(* The one thing the stamp cannot see is a write dated before the last of  *)
(* ours that lands after it (match.py:322-324): any other edit, the fold   *)
(* handed over has.  since[t] is when the edit landed, stamp.touched when  *)
(* our last write was made.                                                *)
OnlyLateEditsMissed ==
    [][\A c \in Chunks : HandedOver(c) =>
          \A t \in Existing(titles) :
             fold[t] # titles[t].name => titles[t].at < stamp.touched /\ since[t] >= stamp.touched]_vars
=============================================================================
