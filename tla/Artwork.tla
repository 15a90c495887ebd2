------------------------------ MODULE Artwork -------------------------------
(***************************************************************************)
(* Posters: a fetcher walks the titles that lack one, downloads what the   *)
(* catalog names for each, and uploads a batch; the server files the       *)
(* renditions under the digest of their bytes and then writes the rows     *)
(* that name them.  Titles come and go meanwhile, and an id that was the   *)
(* highest is given again; uploads of several fetchers overlap.            *)
(***************************************************************************)
EXTENDS Naturals, Sequences, FiniteSets, FiniteSetsExt, SequencesExt

CONSTANTS
    Fetchers,
    Hosts,      \* by film, in the order they are added: what each host has of it
    There,      \* how many of the films the catalog starts with
    Batch,      \* titles per upload
    ByHand,     \* bound: runs started by hand, forced or of one title only
    MaxFaults,  \* bound: uploads given up or refused, runs killed, servers restarted
    None

Places == <<"own", "backup", "tmdb">>

ArtworkAssumption ==
    /\ \A n \in DOMAIN Hosts : Hosts[n] \in [Range(Places) -> {"ok", "refused", "broken", "gone", "down"}]
    /\ There \in 0 .. Len(Hosts) /\ Batch \in Nat \ {0} /\ {ByHand, MaxFaults} \subseteq Nat

VARIABLES
    films,      \* by title id: the film, or None
    entered,    \* how many films have been added
    path,       \* titles.poster_path: the image it names
    files,      \* by id and image, what is on disk: parts of it, or the whole
    rewritten,  \* history: titles whose files were written over, or twice at once
    walk,       \* each fetcher's walk
    uploads,    \* requests the server is at
    ordered, mishaps

vars == <<films, entered, path, files, rewritten, walk, uploads, ordered, mishaps>>

Ids == 1 .. Len(Hosts)
Standing == {id \in Ids : films[id] # None}
Idle == [at |-> "idle", force |-> FALSE, left |-> None, cursor |-> 0, batch |-> <<>>]

Init ==
    /\ films = [id \in Ids |-> IF id <= There THEN id ELSE None]
    /\ entered = There
    /\ path = [id \in Ids |-> None]
    /\ files = {} /\ rewritten = {}
    /\ walk = [f \in Fetchers |-> Idle]
    /\ uploads = {}
    /\ ordered = 0 /\ mishaps = 0

-----------------------------------------------------------------------------
(* The catalog: an addition, or one that is taken back.                    *)

Add ==
    /\ entered < Len(Hosts)
    /\ entered' = entered + 1
    /\ films' = [films EXCEPT ![Max(Standing \cup {0}) + 1] = entered + 1]
    /\ UNCHANGED <<path, files, rewritten, walk, uploads, ordered, mishaps>>

TakeBack(id) ==
    /\ id \in Standing
    /\ films' = [films EXCEPT ![id] = None]
    /\ path' = [path EXCEPT ![id] = None]
    /\ UNCHANGED <<entered, files, rewritten, walk, uploads, ordered, mishaps>>

-----------------------------------------------------------------------------
(* A fetcher.                                                              *)

Begin(f, force, left) ==
    /\ walk[f].at = "idle"
    /\ walk' = [walk EXCEPT ![f] = [Idle EXCEPT !.at = "asking", !.force = force, !.left = left]]
    /\ UNCHANGED <<films, entered, path, files, rewritten, uploads, mishaps>>

(* The night's walk, unless there is nothing left for it to be offered.     *)
Nightly(f) == Begin(f, FALSE, None) /\ UNCHANGED ordered

StartByHand(f) ==
    /\ ordered < ByHand /\ ordered' = ordered + 1
    /\ Begin(f, TRUE, None) \/ Begin(f, FALSE, 1)

(* pending_posters: what lacks a poster, past the cursor, by id.           *)
Pending(r) ==
    LET due == {id \in Standing : id > r.cursor /\ (r.force \/ path[id] = None)}
        want == IF r.left = None THEN Batch ELSE Min({Batch, r.left})
    IN SubSeq(SetToSortSeq(due, LAMBDA a, b : a < b), 1, Min({want, Cardinality(due)}))

(* fetch_missing asks for the next batch, and ends when there is none.     *)
Ask(f) ==
    /\ walk[f].at = "asking"
    /\ LET offered == IF walk[f].left = 0 THEN <<>> ELSE Pending(walk[f]) IN
        walk' = [walk EXCEPT ![f] =
            IF offered = <<>> THEN Idle
            ELSE [@ EXCEPT !.at = "loading",
                    !.batch = [n \in DOMAIN offered |-> [id |-> offered[n], film |-> films[offered[n]]]]]]
    /\ UNCHANGED <<films, entered, path, files, rewritten, uploads, ordered, mishaps>>

(* _download and save_variants: only where an image is gone is the next    *)
(* place asked, and bytes that are no image are the end of it.             *)
Downloaded(film) ==
    LET left == SelectSeq(Places, LAMBDA p : Hosts[film][p] # "gone") IN
    IF left = <<>> \/ Hosts[film][Head(left)] \in {"broken", "down"} THEN None
    ELSE [film |-> film, place |-> Head(left)]

(* _stage for every title of the batch.                                    *)
Staged(batch) ==
    LET got == SelectSeq(batch, LAMBDA b : Downloaded(b.film) # None)
    IN [n \in DOMAIN got |-> [id |-> got[n].id, image |-> Downloaded(got[n].film)]]

(* _pack: the manifest, and what it names, in its order.                   *)
Archive(f, items) == [from |-> f, items |-> items, writing |-> FALSE, noted |-> {}]

SlipStays(r) == r

(* Whatever became of a batch, the walk goes on after it.                  *)
Past(r) ==
    [r EXCEPT !.cursor = Last(r.batch).id,
              !.left = IF @ = None THEN None ELSE @ - Len(r.batch)]
Onward(f) == [Past(walk[f]) EXCEPT !.at = "asking", !.batch = <<>>]

Send(f) ==
    /\ walk[f].at = "loading"
    /\ LET items == Staged(walk[f].batch) IN
        IF items = <<>> THEN walk' = [walk EXCEPT ![f] = Onward(f)] /\ UNCHANGED uploads
        ELSE /\ walk' = [walk EXCEPT ![f].at = "sending"]
             /\ uploads' = uploads \cup {Archive(f, items)}
    /\ UNCHANGED <<films, entered, path, files, rewritten, ordered, mishaps>>

(* _send: stored, rejected or refused, the batch is done with ...          *)
Hear(f) ==
    /\ walk[f].at = "sending" /\ \A u \in uploads : u.from # f
    /\ walk' = [walk EXCEPT ![f] = Onward(f)]
    /\ UNCHANGED <<films, entered, path, files, rewritten, uploads, ordered, mishaps>>

Fault == mishaps < MaxFaults /\ mishaps' = mishaps + 1

(* ... and so it is when no answer comes; the request may go on.           *)
GiveUp(f) ==
    /\ Fault /\ walk[f].at = "sending"
    /\ walk' = [walk EXCEPT ![f] = Onward(f)]
    /\ uploads' = {IF u.from = f THEN [u EXCEPT !.from = None] ELSE u : u \in uploads}
    /\ UNCHANGED <<films, entered, path, files, rewritten, ordered>>

(* The fetcher dies, or cannot ask.                                        *)
Die(f) ==
    /\ Fault /\ walk[f].at # "idle"
    /\ walk' = [walk EXCEPT ![f] = Idle]
    /\ uploads' = {IF u.from = f THEN [u EXCEPT !.from = None] ELSE u : u \in uploads}
    /\ UNCHANGED <<films, entered, path, files, rewritten, ordered>>

-----------------------------------------------------------------------------
(* The server: _file_posters, a title at a time, in one transaction that   *)
(* only begins to write when it commits.                                   *)

Becomes(u, v) == uploads' = (uploads \ {u}) \cup {v}
Rest(u) == [u EXCEPT !.items = Tail(@), !.writing = FALSE]

(* _spooled and _unpack: an archive that is cut off, or is not what it     *)
(* should be, is refused whole, before anything of it is filed.            *)
Refuse(u) ==
    /\ Fault /\ u.noted = {} /\ ~u.writing
    /\ uploads' = uploads \ {u}
    /\ UNCHANGED <<films, entered, path, files, rewritten, walk, ordered>>

SlipRefusesAll(u) == [u EXCEPT !.items = <<>>, !.noted = {}]

(* A title that is not there, or whose renditions _verify will not have.   *)
Rejected(u) == Rest(u)
Skip(u) ==
    /\ u.items # <<>> /\ ~u.writing
    /\ \/ Head(u.items).id \notin Standing
       \/ LET i == Head(u.items).image IN Hosts[i.film][i.place] = "refused"
    /\ Becomes(u, Rejected(u))
    /\ UNCHANGED <<films, entered, path, files, rewritten, walk, ordered, mishaps>>

(* The row is read and its files are opened, which empties them ...        *)
Open(u) ==
    /\ u.items # <<>> /\ ~u.writing
    /\ LET item == Head(u.items)
           whole == [id |-> item.id, image |-> item.image, state |-> "whole"]
       IN /\ item.id \in Standing
          /\ Hosts[item.image.film][item.image.place] # "refused"
          /\ files' = (files \ {whole}) \cup {[whole EXCEPT !.state = "part"]}
          /\ rewritten' = IF whole \in files \/ \E v \in uploads : v.writing /\ Head(v.items) = item
                          THEN rewritten \cup {item.id} ELSE rewritten
          /\ Becomes(u, [u EXCEPT !.writing = TRUE,
                !.noted = @ \cup {[id |-> item.id, image |-> item.image, was |-> path[item.id]]}])
    /\ UNCHANGED <<films, entered, path, walk, ordered, mishaps>>

(* ... and written.                                                        *)
Write(u) ==
    /\ u.writing
    /\ LET part == [id |-> Head(u.items).id, image |-> Head(u.items).image, state |-> "part"] IN
        files' = (files \ {part}) \cup {[part EXCEPT !.state = "whole"]}
    /\ Becomes(u, Rest(u))
    /\ UNCHANGED <<films, entered, path, rewritten, walk, ordered, mishaps>>

SlipCommitsEarly(u) == Len(u.items) <= 1

Filed(u) == u.items = <<>>

(* The commit: only rows whose path changes are written, and one that is   *)
(* gone takes the whole batch with it.                                     *)
Commit(u) ==
    /\ Filed(u)
    /\ uploads' = uploads \ {u}
    /\ LET changed == {n \in u.noted : n.image # n.was} IN
        path' = IF \E n \in changed : n.id \notin Standing THEN path
                ELSE [id \in Ids |-> IF \E n \in changed : n.id = id
                                     THEN (CHOOSE n \in changed : n.id = id).image ELSE path[id]]
    /\ UNCHANGED <<films, entered, files, rewritten, walk, ordered, mishaps>>

Restart ==
    /\ Fault /\ uploads # {}
    /\ uploads' = {}
    /\ UNCHANGED <<films, entered, path, files, rewritten, walk, ordered>>

-----------------------------------------------------------------------------
Fetch(f) == Nightly(f) \/ Ask(f) \/ Send(f) \/ Hear(f)
Serve(u) == Skip(u) \/ Open(u) \/ Write(u) \/ Commit(u)

Next ==
    \/ Add \/ \E id \in Ids : TakeBack(id)
    \/ \E f \in Fetchers : Fetch(f) \/ StartByHand(f) \/ GiveUp(f) \/ Die(f)
    \/ \E u \in uploads : Serve(u) \/ Refuse(u)
    \/ Restart

(* The daemon runs every night, and a request that was begun goes on.      *)
ServeAny == \E u \in uploads : Serve(u)
Fairness == WF_vars(ServeAny) /\ \A f \in Fetchers : WF_vars(Fetch(f))

Spec == Init /\ [][Next]_vars /\ Fairness

-----------------------------------------------------------------------------
(* What must hold.                                                         *)

Images == {[film |-> n, place |-> p] : n \in DOMAIN Hosts, p \in Range(Places)}

TypeOK ==
    /\ films \in [Ids -> DOMAIN Hosts \cup {None}]
    /\ entered \in 0 .. Len(Hosts)
    /\ path \in [Ids -> Images \cup {None}]
    /\ files \subseteq [id : Ids, image : Images, state : {"part", "whole"}]
    /\ rewritten \subseteq Ids
    /\ \A f \in Fetchers : walk[f].at \in {"idle", "asking", "loading", "sending"}
    /\ \A u \in uploads : u.writing => u.items # <<>>

(* A title that has artwork to be had, and keeps it, has it stored in the  *)
(* end: whatever else is in its batch, and whatever becomes of it          *)
(* (images.py: "a title that cannot be stored is passed over for the rest  *)
(* of this run"; store_posters: "leaves the rest of the batch alone").     *)
CanBeHad(film) ==
    Downloaded(film) # None /\ Hosts[film][Downloaded(film).place] = "ok"
EveryPosterComes ==
    \A id \in Ids, film \in DOMAIN Hosts :
        CanBeHad(film) => (<>[](films[id] = film) => <>(path[id] # None))

(* A row names files that are there and whole, whatever was interrupted,   *)
(* as long as none was written over: they are served as immutable          *)
(* (ingest.py: _file_posters before the commit).                           *)
NamedFilesAreWhole ==
    \A id \in Standing \ rewritten :
        path[id] # None => [id |-> id, image |-> path[id], state |-> "whole"] \in files

(* The poster of a title is of that title.                                 *)
PostersAreTheirOwn ==
    \A id \in Standing : path[id] # None => path[id].film = films[id]
=============================================================================
