------------------------------ MODULE Shelves ------------------------------
(***************************************************************************)
(* What members keep of their own: list entries (PUT and DELETE on         *)
(* /me/items), the handle and the visibility of a profile (PATCH /me), and *)
(* a film a member adds to the catalog (/me/additions), which an           *)
(* administrator may remove again.  eifo_api/routers/me.py, additions.py   *)
(* and admin.py, eifo_core/additions.py.                                   *)
(*                                                                         *)
(* A request loads its row, changes it and commits: an UPDATE names only   *)
(* the columns that differ from what was loaded, and one that finds no row *)
(* raises; a DELETE that finds none does not.  A rating and a note are     *)
(* kept alike, and one film is enough to tell everything apart.            *)
(***************************************************************************)
EXTENDS Naturals, FiniteSets

CONSTANTS
    Members,
    Handles,
    Requests,    \* requests that may be served at one time
    MaxAsked,    \* bound: requests
    None

ShelvesAssumption ==
    /\ MaxAsked \in Nat /\ None \notin Handles \cup Members

Fields == {"want", "watched", "rating"}
Entry == SUBSET Fields                       \* the fields that say something
Changes == UNION {[F -> BOOLEAN] : F \in SUBSET Fields}
Profile == [handle : Handles \cup {None}, public : BOOLEAN]

VARIABLES
    items,    \* user_items of the film, by member: the fields set, or no row
    film,     \* whether the catalog holds it
    listed,   \* whether a service has ever offered it
    profiles,
    req,      \* what each request is at
    asked,
    stray     \* history: a film whose addition failed half way

vars == <<items, film, listed, profiles, req, asked, stray>>

Request == [pc     : {"idle", "put", "patch", "adding", "listing", "found", "removing"},
            who    : Members \cup {None},
            item   : Entry \cup {None},          \* the entry as it was loaded
            change : Changes,
            prof   : Profile,                    \* the account as it was loaded
            ask    : Profile,
            made   : BOOLEAN,   \* whether it put the film into the catalog
            raced  : BOOLEAN]   \* history: another one was committed meanwhile

Blank == [handle |-> None, public |-> FALSE]
Nothing == [f \in {} |-> TRUE]
Idle == [pc |-> "idle", who |-> None, item |-> None, change |-> Nothing,
         prof |-> Blank, ask |-> Blank, made |-> FALSE, raced |-> FALSE]

TypeOK ==
    /\ items \in [Members -> Entry \cup {None}]
    /\ film \in BOOLEAN /\ listed \in BOOLEAN
    /\ ~film => ~listed /\ \A m \in Members : items[m] = None
    /\ profiles \in [Members -> Profile]
    /\ req \in [Requests -> Request]
    /\ asked \in 0 .. MaxAsked /\ stray \in BOOLEAN

Init ==
    /\ film \in BOOLEAN /\ listed \in {FALSE, film}
    /\ items \in [Members -> {None} \cup (IF film THEN Entry \ {{}} ELSE {})]
    /\ profiles = [m \in Members |-> Blank]
    /\ req = [r \in Requests |-> Idle]
    /\ asked = 0 /\ stray = FALSE

-----------------------------------------------------------------------------

At(r, pc) == req[r].pc = pc

Asks(r, state) ==
    /\ At(r, "idle") /\ asked < MaxAsked /\ asked' = asked + 1
    /\ req' = [req EXCEPT ![r] = state]

(* Ends a request, everybody else's reads now being older than its commit. *)
Over(r) ==
    req' = [o \in Requests |->
        IF o = r THEN Idle ELSE IF At(o, "idle") THEN Idle ELSE [req[o] EXCEPT !.raced = TRUE]]

Fails(r) ==
    /\ req' = [req EXCEPT ![r] = Idle]
    /\ UNCHANGED <<items, film, listed, profiles>>

Said(entry) == IF entry = None THEN {} ELSE entry

Changed(entry, change) ==
    {f \in Fields : IF f \in DOMAIN change THEN change[f] ELSE f \in Said(entry)}

(* UserItem.is_empty.                                                      *)
IsEmpty(entry) == entry = {}

(* The columns of the row that are written are those that differ.          *)
Updated(stored, loaded, entry) ==
    {f \in Fields : IF (f \in entry) = (f \in loaded) THEN f \in stored ELSE f \in entry}

(* A commit of m's entry: a new row, an update, or the row goes.           *)
Writes(r, m, entry) ==
    LET loaded == req[r].item IN
    \/ /\ loaded = None /\ ~IsEmpty(entry)
       /\ film /\ items[m] = None
       /\ items' = [items EXCEPT ![m] = entry]
    \/ /\ loaded # None /\ IsEmpty(entry)
       /\ items' = [items EXCEPT ![m] = None]
    \/ /\ loaded # None /\ ~IsEmpty(entry) /\ (items[m] # None \/ entry = loaded)
       /\ items' = IF items[m] = None THEN items
                   ELSE [items EXCEPT ![m] = Updated(items[m], loaded, entry)]

(* A row that is there by now, or gone by now, or one to be deleted that   *)
(* was never stored.                                                       *)
Refused(r, m, entry) ==
    LET loaded == req[r].item IN
    \/ loaded = None /\ (IsEmpty(entry) \/ ~film \/ items[m] # None)
    \/ loaded # None /\ ~IsEmpty(entry) /\ items[m] = None /\ entry # loaded

-----------------------------------------------------------------------------
(* List entries.                                                           *)

Put(r, m) ==
    /\ film
    /\ \E change \in Changes :
          Asks(r, [Idle EXCEPT !.pc = "put", !.who = m, !.item = items[m], !.change = change])
    /\ UNCHANGED <<items, film, listed, profiles, stray>>

(* upsert_my_item.                                                         *)
PutWritten(r) ==
    /\ At(r, "put")
    /\ LET entry == Changed(req[r].item, req[r].change) IN
       \/ /\ Writes(r, req[r].who, entry)
          /\ Over(r)
          /\ UNCHANGED <<film, listed, profiles>>
       \/ Refused(r, req[r].who, entry) /\ Fails(r)
    /\ UNCHANGED <<asked, stray>>

(* delete_my_item.                                                         *)
Delete(r, m) ==
    /\ items[m] # None
    /\ At(r, "idle") /\ asked < MaxAsked /\ asked' = asked + 1
    /\ items' = [items EXCEPT ![m] = None]
    /\ Over(r)
    /\ UNCHANGED <<film, listed, profiles, stray>>

-----------------------------------------------------------------------------
(* The profile.                                                            *)

Patch(r, m) ==
    /\ \E ask \in Profile :
          Asks(r, [Idle EXCEPT !.pc = "patch", !.who = m, !.prof = profiles[m], !.ask = ask])
    /\ UNCHANGED <<items, film, listed, profiles, stray>>

SlipResolves(loaded, ask) == TRUE

(* _claim_handle and _resolve_visibility, the handle first: none is kept   *)
(* by a public profile, and no profile is public without.                  *)
Resolves(loaded, ask) ==
    /\ ask.handle = None => ~loaded.public
    /\ ask.public => ask.handle # None

(* update_me; a handle another account has is refused.                     *)
PatchWritten(r) ==
    /\ At(r, "patch")
    /\ LET m == req[r].who
           loaded == req[r].prof
           ask == req[r].ask
           written == [handle |-> IF ask.handle = loaded.handle
                                  THEN profiles[m].handle ELSE ask.handle,
                       public |-> IF ask.public = loaded.public
                                  THEN profiles[m].public ELSE ask.public]
       IN  IF /\ Resolves(loaded, ask)
              /\ \A o \in Members \ {m} :
                    written.handle # None => profiles[o].handle # written.handle
           THEN /\ profiles' = [profiles EXCEPT ![m] = written]
                /\ Over(r)
                /\ UNCHANGED <<items, film, listed>>
           ELSE Fails(r)
    /\ UNCHANGED <<asked, stray>>

-----------------------------------------------------------------------------
(* Additions.                                                              *)

(* add_film, with TMDB's answer, as far as find_existing; a member over    *)
(* the daily limit is refused, and so is a flood.                          *)
Add(r, m) ==
    /\ \E f \in {"want", "watched"}, rated \in BOOLEAN :
          Asks(r, [Idle EXCEPT !.pc = IF film THEN "listing" ELSE "adding", !.who = m,
                               !.change = [g \in {f} \cup (IF rated THEN {"rating"} ELSE {})
                                              |-> TRUE]])
    /\ UNCHANGED <<items, film, listed, profiles, stray>>

(* _create: releasing the savepoint is a commit, no transaction having     *)
(* been begun around it; if someone was first, theirs is taken.            *)
Creates(r) ==
    /\ At(r, "adding")
    /\ film' = TRUE
    /\ req' = [req EXCEPT ![r].pc = "listing", ![r].made = ~film]
    /\ UNCHANGED <<items, listed, profiles, asked, stray>>

FindsEntry(r) ==
    /\ At(r, "listing")
    /\ req' = [req EXCEPT ![r].pc = "found", ![r].item = items[req[r].who]]
    /\ UNCHANGED <<items, film, listed, profiles, asked, stray>>

(* Nobody vouches for the film any more that r put into the catalog.       *)
Forlorn(r) == req[r].made /\ film /\ ~listed /\ \A m \in Members : items[m] = None

(* The rest of add_to_list.                                                *)
AddWritten(r) ==
    /\ At(r, "found")
    /\ LET entry == Changed(req[r].item, req[r].change) IN
       \/ /\ Writes(r, req[r].who, entry)
          /\ Over(r)
          /\ UNCHANGED <<film, listed, profiles, stray>>
       \/ /\ Refused(r, req[r].who, entry)
          /\ Fails(r)
          /\ stray' = (stray \/ Forlorn(r))
    /\ UNCHANGED asked

(* The server goes down; everything under way is lost.                     *)
Crashes ==
    /\ \E r \in Requests : ~At(r, "idle")
    /\ req' = [r \in Requests |-> Idle]
    /\ stray' = (stray \/ \E r \in Requests : Forlorn(r))
    /\ UNCHANGED <<items, film, listed, profiles, asked>>

(* remove_addition: as long as no service has listed it.                   *)
Remove(r) ==
    /\ film /\ ~listed
    /\ Asks(r, [Idle EXCEPT !.pc = "removing"])
    /\ UNCHANGED <<items, film, listed, profiles, stray>>

RemoveWritten(r) ==
    /\ At(r, "removing")
    /\ film' = FALSE /\ listed' = FALSE
    /\ items' = [m \in Members |-> None]
    /\ stray' = FALSE
    /\ Over(r)
    /\ UNCHANGED <<profiles, asked>>

(* A sync finds the film on a service.                                     *)
Listed ==
    /\ film /\ ~listed
    /\ listed' = TRUE
    /\ req' = [o \in Requests |-> IF At(o, "idle") THEN Idle ELSE [req[o] EXCEPT !.raced = TRUE]]
    /\ UNCHANGED <<items, film, profiles, asked, stray>>

Serves(r) ==
    \/ PutWritten(r) \/ PatchWritten(r) \/ Creates(r) \/ FindsEntry(r) \/ AddWritten(r)
    \/ RemoveWritten(r)

Next ==
    \/ \E r \in Requests, m \in Members : Put(r, m) \/ Delete(r, m) \/ Patch(r, m) \/ Add(r, m)
    \/ \E r \in Requests : Remove(r) \/ Serves(r)
    \/ Crashes \/ Listed

Spec == Init /\ [][Next]_vars

-----------------------------------------------------------------------------

(* A request nobody else was committed under does what it was asked and no *)
(* more: the fields it names change, the others of the entry stay and so   *)
(* does everybody else's, no entry is left that says nothing, a public     *)
(* profile has a handle, and a title some service lists is not deleted.    *)
DoneAsAsked ==
    [][\A r \in Requests :
          ~req[r].raced /\ ~At(r, "idle") /\ req'[r].pc = "idle" =>
             /\ \/ items' = items \/ At(r, "removing")
                \/ \A m \in Members : Said(items'[m]) =
                      IF m = req[r].who THEN Changed(items[m], req[r].change) ELSE Said(items[m])
             /\ \A m \in Members : items'[m] = {} => items[m] = {}
             /\ profiles' # profiles =>
                   \A m \in Members : profiles'[m].public => profiles'[m].handle # None
             /\ film' # film => ~listed]_vars

(* "Setting one leaves the other exactly as it was", whoever set the       *)
(* other, and when (upsert_my_item).                                       *)
FieldsStand ==
    [][\A r \in Requests, f \in Fields :
          At(r, "put") /\ req'[r].pc = "idle" /\ f \notin DOMAIN req[r].change
             => LET m == req[r].who IN (f \in Said(items[m])) = (f \in Said(items'[m]))]_vars

(* "A title nobody has on a list, left behind by a failure between the     *)
(* two, is a stray": one commit is to hold both halves (add_to_list).      *)
NoStrays == ~stray
=============================================================================
