---------------------------- MODULE MatchProofs ----------------------------
(***************************************************************************)
(* Theorems about Match, for every catalog, likeness and way of offering   *)
(* listings: nothing is dropped between the matcher and the reviewers.     *)
(***************************************************************************)
EXTENDS Match, WellFoundedInduction, TLAPS

-----------------------------------------------------------------------------
(* The least and the greatest of the numbers up to a bound.                *)

LEMMA LeastExists ==
    ASSUME NEW S \in SUBSET Nat, S # {}
    PROVE  Min(S) \in S /\ \A n \in S : Min(S) <= n
<1>1. PICK x \in S : \A y \in S : <<y, x>> \notin OpToRel(<, Nat)
    BY NatLessThanWellFounded, WFMin
<1>2. ASSUME NEW y \in S
      PROVE  x <= y
  <2>1. x \in Nat /\ y \in Nat
    OBVIOUS
  <2>2. y < x => <<y, x>> \in OpToRel(<, Nat)
    BY <2>1 DEF OpToRel
  <2>3. ~(y < x)
    BY <1>1, <2>2
  <2> QED BY <2>1, <2>3
<1> QED BY <1>2 DEF Min

LEMMA GreatestExists ==
    ASSUME NEW b \in Nat, NEW S \in SUBSET (0 .. b), S # {}
    PROVE  Max(S) \in S /\ \A n \in S : Max(S) >= n
<1> DEFINE short == {b - n : n \in S}
<1>1. short \in SUBSET Nat /\ short # {}
  <2>1. \A n \in S : n \in 0 .. b /\ b - n \in Nat
    OBVIOUS
  <2> QED BY <2>1
<1>2. PICK m \in S : Min(short) = b - m
    BY <1>1, LeastExists
<1>3. \A n \in S : b - m <= b - n
    BY <1>1, <1>2, LeastExists
<1>4. \A n \in S : m >= n
    BY <1>3
<1> QED BY <1>4 DEF Max

(* Numbers given to some of 1 .. n are bounded.                            *)
LEMMA GreatestOfSome ==
    ASSUME NEW n \in Nat, NEW S \in SUBSET (1 .. n), S # {}, NEW f \in [S -> Nat]
    PROVE  Max({f[s] : s \in S}) \in Nat
<1> DEFINE Bounds(b, k) == \A s \in S : s <= k => f[s] <= b
           unbounded == {k \in 0 .. n : \A b \in Nat : ~Bounds(b, k)}
<1>1. unbounded = {}
  <2> SUFFICES ASSUME unbounded # {} PROVE FALSE
    OBVIOUS
  <2>1. PICK k \in unbounded : \A m \in unbounded : k <= m
    <3>1. unbounded \in SUBSET Nat
        OBVIOUS
    <3> QED BY <3>1, LeastExists
  <2>2. k \in 0 .. n /\ \A b \in Nat : ~Bounds(b, k)
    OBVIOUS
  <2>3. CASE k = 0
    BY <2>2, <2>3
  <2>4. CASE k # 0
    <3>1. k - 1 \in 0 .. n /\ k - 1 \notin unbounded
      <4>1. k - 1 \in 0 .. n /\ ~(k <= k - 1)
        BY <2>2, <2>4
      <4> QED BY <4>1, <2>1
    <3>2. PICK b \in Nat : Bounds(b, k - 1)
        BY <3>1
    <3> DEFINE both == IF k \in S /\ f[k] > b THEN f[k] ELSE b
    <3>3. both \in Nat /\ b <= both /\ (k \in S => f[k] <= both)
        OBVIOUS
    <3>4. \A s \in S : s <= k => s = k \/ s <= k - 1
        BY <2>2
    <3> HIDE DEF both
    <3>5. ASSUME NEW s \in S, s <= k
          PROVE  f[s] <= both
      <4>1. f[s] \in Nat
        OBVIOUS
      <4>2. CASE s = k
        BY <4>2, <3>3
      <4>3. CASE s <= k - 1
        BY <4>1, <4>3, <3>2, <3>3
      <4> QED BY <4>2, <4>3, <3>4, <3>5
    <3> QED BY <3>3, <3>5, <2>2
  <2> QED BY <2>3, <2>4
<1>2. PICK b \in Nat : Bounds(b, n)
  <2>1. n \in 0 .. n
    OBVIOUS
  <2> QED BY <1>1, <2>1
<1>3. {f[s] : s \in S} \in SUBSET (0 .. b) /\ {f[s] : s \in S} # {}
  <2>1. \A s \in S : f[s] \in Nat /\ f[s] <= b
    BY <1>2
  <2>2. \A s \in S : f[s] \in 0 .. b
    BY <2>1
  <2> QED BY <2>2
<1>4. Max({f[s] : s \in S}) \in {f[s] : s \in S}
    BY <1>3, GreatestExists
<1> QED BY <1>3, <1>4

-----------------------------------------------------------------------------
(* The tables.                                                             *)

Waiting == [TitleIds -> Row \cup {None}]

LEMMA FlushKeeps ==
    ASSUME NEW d \in Tables, NEW w \in Waiting
    PROVE  /\ Flush(d, w) \in Tables /\ Flush(d, w).titles = d.titles
           /\ Flush(d, w).aliases = d.aliases /\ Flush(d, w).reviews = d.reviews
BY DEF Flush, Tables, Waiting

LEMMA FreshIsNew ==
    ASSUME NEW d \in Tables, Existing(d) # TitleIds
    PROVE  Fresh(d) \in TitleIds \ Existing(d)
<1>1. TitleIds \ Existing(d) \in SUBSET Nat /\ TitleIds \ Existing(d) # {}
    BY DEF TitleIds, Existing
<1> QED BY <1>1, LeastExists DEF Fresh

LEMMA CreatedKeeps ==
    ASSUME NEW d \in Tables, Existing(d) # TitleIds,
           NEW name \in Names, NEW id \in TmdbIds \cup {None}
    PROVE  Created(d, name, id) \in Tables /\ Created(d, name, id).reviews = d.reviews
<1>1. Fresh(d) \in TitleIds
    BY FreshIsNew
<1>2. [name |-> name, tmdb |-> id] \in Title
    BY DEF Title
<1> QED BY <1>1, <1>2 DEF Created, Tables

(* A listing that is parked replaces the open parks of its name, and       *)
(* nothing else.                                                           *)
Reparked(d, e, l) ==
    \E id \in ReviewIds :
        /\ e.reviews[id] \in Review /\ e.reviews[id].of = l /\ e.reviews[id].ruled = "open"
        /\ e.reviews[id].title = None
        /\ \A r \in Parks(d) \ OpenParks(d, NameOf[l]) : r # id /\ e.reviews[r] = d.reviews[r]
        /\ \A r \in ReviewIds \ {id} : e.reviews[r] \in {d.reviews[r], None}

LEMMA ParkedKeeps ==
    ASSUME NEW d \in Tables, NEW l \in Listings, NEW t \in TitleIds,
           Max(Parks(d) \cup {0}) < MaxReviews
    PROVE  Parked(d, l, t) \in Tables /\ Reparked(d, Parked(d, l, t), l)
<1> DEFINE left == Parks(d) \ OpenParks(d, NameOf[l])
           id == Max(left \cup {0}) + 1
           new == [of |-> l, closest |-> t, ruled |-> "open", title |-> None, at |-> 0]
           rows == [r \in ReviewIds |-> IF r = id THEN new
                                        ELSE IF r \in left THEN d.reviews[r] ELSE None]
<1>1. MaxReviews \in Nat
    BY MatchAssumption
<1>2. /\ Parks(d) \cup {0} \in SUBSET (0 .. MaxReviews)
      /\ left \cup {0} \in SUBSET (0 .. MaxReviews)
    BY <1>1 DEF Parks, ReviewIds
<1>3. /\ Max(left \cup {0}) \in left \cup {0}
      /\ \A n \in left \cup {0} : Max(left \cup {0}) >= n
    BY <1>1, <1>2, GreatestExists
<1>4. Max(left \cup {0}) <= Max(Parks(d) \cup {0})
    BY <1>1, <1>2, <1>3, GreatestExists
<1>5. Max(left \cup {0}) \in 0 .. MaxReviews /\ Max(Parks(d) \cup {0}) \in 0 .. MaxReviews
    BY <1>1, <1>2, <1>3, GreatestExists
<1>6. id \in ReviewIds /\ id \notin left
    BY <1>1, <1>3, <1>4, <1>5 DEF ReviewIds
<1>7. new \in Review
    BY DEF Review, Rulings
<1>8. Parked(d, l, t) = [d EXCEPT !.reviews = rows]
    BY DEF Parked
<1>9. left \subseteq ReviewIds /\ d.reviews \in [ReviewIds -> Review \cup {None}]
    BY DEF Parks, Tables
<1> HIDE DEF id, left
<1>10. rows \in [ReviewIds -> Review \cup {None}]
    BY <1>7, <1>9
<1>11. Parked(d, l, t).reviews = rows
    BY <1>8 DEF Tables
<1>12. Parked(d, l, t) \in Tables
    BY <1>8, <1>10 DEF Tables
<1>13. rows[id] = new /\ \A r \in left : r # id /\ rows[r] = d.reviews[r]
    BY <1>6, <1>9
<1>14. \A r \in ReviewIds \ {id} : rows[r] \in {d.reviews[r], None}
    OBVIOUS
<1> HIDE DEF rows
<1> QED BY <1>6, <1>7, <1>11, <1>12, <1>13, <1>14 DEF Reparked, left

-----------------------------------------------------------------------------
(* What becomes of a listing: it is filed, parked, handed back, or left    *)
(* out because somebody dismissed it.  All that Match does says this.      *)
Dismissed(d, l) == \E r \in Ruled(d, NameOf[l]) : d.reviews[r].ruled = "dismissed"

Typed == db' \in Tables /\ chunk' \in Chunk

Handled(l) ==
    /\ chunk'.open /\ chunk'.asked = chunk.asked /\ chunk'.took = chunk.took
    /\ chunk'.todo = chunk.todo \ {l}
    /\ chunk.placed \subseteq chunk'.placed /\ chunk.back \subseteq chunk'.back
    /\ (chunk.wrote => chunk'.wrote) /\ (~chunk'.wrote => db' = db)
    /\ \/ /\ db'.reviews = db.reviews
          /\ l \in chunk'.placed \/ (l \in chunk'.back /\ ~chunk.asked) \/ Dismissed(db, l)
       \/ chunk'.wrote /\ \E d \in Tables : d.reviews = db.reviews /\ Reparked(d, db', l)

LEMMA RowForIsRow ==
    ASSUME NEW l \in Listings, NEW row \in Row \cup {None}
    PROVE  RowFor(l, row) \in Row
BY MatchAssumption DEF RowFor, Row

LEMMA PlaceHandles ==
    ASSUME TypeOK, chunk.open, NEW l \in Listings, NEW t \in TitleIds,
           NEW d \in Tables, NEW w \in Waiting, d.reviews = db.reviews, Place(l, t, d, w)
    PROVE  Typed /\ Handled(l)
<1> DEFINE row == RowFor(l, IF w[t] # None THEN w[t] ELSE d.offers[t])
<1>1. row \in Row
  <2>1. w[t] \in Row \cup {None} /\ d.offers[t] \in Row \cup {None}
    BY DEF Waiting, Tables
  <2> QED BY <2>1, RowForIsRow
<1>2. [w EXCEPT ![t] = row] \in Waiting
    BY <1>1 DEF Waiting
<1>3. /\ db' = d
      /\ chunk' = [chunk EXCEPT !.todo = @ \ {l}, !.placed = @ \cup {l}, !.wrote = @ \/ d # db,
                                !.written = [w EXCEPT ![t] = row]]
    BY DEF Place
<1> HIDE DEF row
<1>4. Typed
    BY <1>2, <1>3 DEF Typed, TypeOK, Chunk, Waiting
<1>5. /\ chunk'.open /\ chunk'.asked = chunk.asked /\ chunk'.took = chunk.took
      /\ chunk'.todo = chunk.todo \ {l} /\ chunk'.placed = chunk.placed \cup {l}
      /\ chunk'.back = chunk.back /\ chunk'.wrote = (chunk.wrote \/ d # db)
    BY <1>3 DEF TypeOK, Chunk
<1> QED BY <1>3, <1>4, <1>5 DEF Handled

LEMMA ParkHandles ==
    ASSUME TypeOK, chunk.open, NEW l \in Listings, NEW t \in TitleIds,
           NEW d \in Tables, NEW w \in Waiting, d.reviews = db.reviews, Park(l, t, d, w)
    PROVE  Typed /\ Handled(l)
<1>1. PICK e \in Tables : e = Flush(d, w)
    BY FlushKeeps
<1>2. e.reviews = db.reviews
    BY <1>1, FlushKeeps
<1>3. /\ Max(Parks(e) \cup {0}) < MaxReviews /\ db' = Parked(e, l, t)
      /\ chunk' = [chunk EXCEPT !.todo = @ \ {l}, !.wrote = TRUE, !.written = Unwritten]
    BY <1>1 DEF Park
<1>4. db' \in Tables /\ Reparked(e, db', l)
    BY <1>3, ParkedKeeps
<1>5. Unwritten \in Waiting
    BY DEF Unwritten, Waiting
<1>6. Typed
    BY <1>3, <1>4, <1>5 DEF Typed, TypeOK, Chunk, Waiting
<1>7. /\ chunk'.open /\ chunk'.asked = chunk.asked /\ chunk'.took = chunk.took
      /\ chunk'.todo = chunk.todo \ {l} /\ chunk'.placed = chunk.placed
      /\ chunk'.back = chunk.back /\ chunk'.wrote
    BY <1>3 DEF TypeOK, Chunk
<1> QED BY <1>2, <1>4, <1>6, <1>7 DEF Handled

LEMMA SettleHandles ==
    ASSUME TypeOK, chunk.open, NEW l \in Listings, NEW t \in TitleIds,
           NEW d \in Tables, NEW w \in Waiting, d.reviews = db.reviews, Settle(l, t, d, w)
    PROVE  Typed /\ Handled(l)
BY PlaceHandles, ParkHandles DEF Settle

LEMMA SettleNewHandles ==
    ASSUME TypeOK, chunk.open, NEW l \in Listings, NEW id \in TmdbIds \cup {None},
           SettleNew(l, id)
    PROVE  Typed /\ Handled(l)
<1>1. PICK d \in Tables : d = Flush(db, chunk.written) /\ d.reviews = db.reviews
    BY FlushKeeps DEF TypeOK, Chunk, Waiting
<1>2. /\ Existing(d) # TitleIds
      /\ Settle(l, Fresh(d), Created(d, NameOf[l], id), Unwritten)
    BY <1>1 DEF SettleNew
<1>3. NameOf[l] \in Names
    BY DEF Names
<1>4. Fresh(d) \in TitleIds
    BY <1>2, FreshIsNew
<1>5. Created(d, NameOf[l], id) \in Tables /\ Created(d, NameOf[l], id).reviews = db.reviews
    BY <1>1, <1>2, <1>3, CreatedKeeps
<1>6. Unwritten \in Waiting
    BY DEF Unwritten, Waiting
<1> QED BY <1>2, <1>4, <1>5, <1>6, SettleHandles

(* A ruling that files a listing names a title.                            *)
Named(d) ==
    \A r \in Parks(d) : d.reviews[r].ruled \in {"attached", "created"} => d.reviews[r].title # None

LEMMA MatchHandles ==
    ASSUME TypeOK, Named(db), chunk.open, NEW l \in chunk.todo, Match(l)
    PROVE  Typed /\ Handled(l)
<1>1. l \in Listings /\ db \in Tables /\ chunk.written \in Waiting /\ Unwritten \in Waiting
    BY DEF TypeOK, Chunk, Waiting, Unwritten
<1>2. OwnId[l] \in TmdbIds \cup {None} /\ HitOf[l] \in TmdbIds \cup {None}
    BY <1>1, MatchAssumption
<1>3. PICK d \in Tables : d = Flush(db, chunk.written) /\ d.reviews = db.reviews
    BY <1>1, FlushKeeps
<1>4. \A t \in TitleIds : Settle(l, t, db, chunk.written) => Typed /\ Handled(l)
    BY <1>1, SettleHandles
<1>5. CASE ByRef(l)
  <2>1. PICK t \in TitleIds : Place(l, t, db, chunk.written)
    BY <1>5 DEF ByRef, Bound
  <2> QED BY <2>1, <1>1, PlaceHandles
<1>6. CASE ByOwnId(l)
  <2>1. PICK t \in Known(db, l) : OwnId[l] # None /\ Settle(l, t, db, chunk.written)
    BY <1>6 DEF ByOwnId
  <2>2. t \in TitleIds
    BY <2>1, <1>1, <1>2 DEF Known, Owners, Existing, Tables
  <2> QED BY <2>1, <2>2, <1>4
<1>7. CASE ByNewId(l)
  <2>1. OwnId[l] \in TmdbIds
    BY <1>7, <1>2 DEF ByNewId
  <2>2. CASE \E t \in Best(db, l) :
               Settle(l, t, [Flush(db, chunk.written) EXCEPT !.aliases[OwnId[l]] = t], Unwritten)
    <3>1. PICK t \in TitleIds : Settle(l, t, [d EXCEPT !.aliases[OwnId[l]] = t], Unwritten)
        BY <2>2, <1>3 DEF Best, Like, Existing
    <3>2. /\ [d EXCEPT !.aliases[OwnId[l]] = t] \in Tables
          /\ [d EXCEPT !.aliases[OwnId[l]] = t].reviews = db.reviews
        BY <2>1, <1>3 DEF Tables
    <3> QED BY <3>1, <3>2, <1>1, SettleHandles
  <2>3. CASE SettleNew(l, OwnId[l])
    BY <2>3, <1>1, <1>2, SettleNewHandles
  <2> QED BY <1>7, <2>2, <2>3 DEF ByNewId
<1>8. CASE Defer(l)
  <2>1. /\ ~chunk.asked /\ db' = db
        /\ chunk' = [chunk EXCEPT !.todo = @ \ {l}, !.back = @ \cup {l}]
    BY <1>8 DEF Defer, MustAsk
  <2>2. Typed
    BY <2>1, <1>1 DEF Typed, TypeOK, Chunk
  <2>3. /\ chunk'.open /\ chunk'.asked = chunk.asked /\ chunk'.took = chunk.took
        /\ chunk'.todo = chunk.todo \ {l} /\ chunk'.placed = chunk.placed
        /\ chunk'.back = chunk.back \cup {l} /\ chunk'.wrote = chunk.wrote
    BY <2>1 DEF TypeOK, Chunk
  <2> QED BY <2>1, <2>2, <2>3 DEF Handled
<1>9. CASE ByHit(l)
  <2>1. HitOf[l] \in TmdbIds
    BY <1>9, <1>2 DEF ByHit
  <2>2. CASE \E t \in Owners(db, HitOf[l]) : Settle(l, t, db, chunk.written)
    BY <2>2, <1>4 DEF Owners, Existing
  <2>3. CASE \E t \in Best(db, l) :
               Settle(l, t, [Flush(db, chunk.written) EXCEPT !.titles[t].tmdb = HitOf[l]], Unwritten)
    <3>1. PICK t \in Existing(db) : Settle(l, t, [d EXCEPT !.titles[t].tmdb = HitOf[l]], Unwritten)
        BY <2>3, <1>3 DEF Best, Like
    <3>2. d.titles[t] \in Title
        BY <1>1, <1>3, FlushKeeps DEF Existing, Tables
    <3>3. [d.titles[t] EXCEPT !.tmdb = HitOf[l]] \in Title
        BY <3>2, <2>1 DEF Title
    <3>4. /\ [d EXCEPT !.titles[t].tmdb = HitOf[l]] \in Tables
          /\ [d EXCEPT !.titles[t].tmdb = HitOf[l]].reviews = db.reviews
        BY <3>3, <1>3 DEF Tables, Existing
    <3> QED BY <3>1, <3>4, <1>1, SettleHandles DEF Existing
  <2>4. CASE SettleNew(l, HitOf[l])
    BY <2>4, <1>1, <1>2, SettleNewHandles
  <2> QED BY <1>9, <2>2, <2>3, <2>4 DEF ByHit
<1>10. CASE ByName(l)
    BY <1>10, <1>4 DEF ByName, Best, Like, Existing
<1>11. CASE ByRuling(l)
  <2>1. PICK r \in Decided(db, l) :
          IF db.reviews[r].ruled = "dismissed"
          THEN chunk' = [chunk EXCEPT !.todo = @ \ {l}] /\ UNCHANGED db
          ELSE Place(l, db.reviews[r].title, db, chunk.written)
    BY <1>11 DEF ByRuling
  <2>2. r \in Ruled(db, NameOf[l]) /\ r \in Parks(db) /\ db.reviews[r] \in Review
    BY <1>1 DEF Decided, Ruled, Parks, Tables
  <2>3. CASE db.reviews[r].ruled = "dismissed"
    <3>1. chunk' = [chunk EXCEPT !.todo = @ \ {l}] /\ db' = db
        BY <2>1, <2>3
    <3>2. Typed
        BY <3>1, <1>1 DEF Typed, TypeOK, Chunk
    <3>3. /\ chunk'.open /\ chunk'.asked = chunk.asked /\ chunk'.took = chunk.took
          /\ chunk'.todo = chunk.todo \ {l} /\ chunk'.placed = chunk.placed
          /\ chunk'.back = chunk.back /\ chunk'.wrote = chunk.wrote
        BY <3>1 DEF TypeOK, Chunk
    <3> QED BY <2>2, <2>3, <3>1, <3>2, <3>3 DEF Handled, Dismissed
  <2>4. CASE db.reviews[r].ruled # "dismissed"
    <3>1. db.reviews[r].ruled \in {"attached", "created"}
        BY <2>2, <2>4 DEF Ruled, Review, Rulings
    <3>2. db.reviews[r].title \in TitleIds
        BY <3>1, <2>2 DEF Named, Review
    <3> QED BY <2>1, <2>4, <3>2, <1>1, PlaceHandles
  <2> QED BY <2>3, <2>4
<1>12. CASE ByNobody(l)
  <2>1. CASE \E t \in NearMisses(db, l) : Park(l, t, db, chunk.written)
    BY <2>1, <1>1, ParkHandles DEF NearMisses, Like, Existing
  <2>2. CASE SettleNew(l, None)
    BY <2>2, <1>1, SettleNewHandles
  <2> QED BY <1>12, <2>1, <2>2 DEF ByNobody
<1> QED BY <1>5, <1>6, <1>7, <1>8, <1>9, <1>10, <1>11, <1>12 DEF Match

-----------------------------------------------------------------------------
(* A reviewer's ruling writes one row of the queue.                        *)
Unruled(d, r) == d.reviews[r] = None \/ d.reviews[r].ruled = "open"

RuledOn(d, e, r) ==
    /\ e \in Tables /\ \A s \in ReviewIds \ {r} : e.reviews[s] = d.reviews[s]
    /\ e.reviews[r] \in Review /\ e.reviews[r].of = d.reviews[r].of
    /\ e.reviews[r].ruled \in {"attached", "created"} => e.reviews[r].title # None

AsRuled(v, how, t, n) ==
    [v EXCEPT !.ruled = how, !.at = n, !.title = IF how = "dismissed" THEN v.title ELSE t]

LEMMA RuledRow ==
    ASSUME NEW v \in Review, NEW how \in Rulings, NEW t \in TitleIds \cup {None}, NEW n \in Nat
    PROVE  /\ AsRuled(v, how, t, n) \in Review
           /\ AsRuled(v, how, t, n).of = v.of /\ AsRuled(v, how, t, n).ruled = how
           /\ how # "dismissed" => AsRuled(v, how, t, n).title = t
           /\ AsRuled(v, how, t, n).title \in {t, v.title}
<1> DEFINE title == IF how = "dismissed" THEN v.title ELSE t
<1>1. title \in TitleIds \cup {None}
    BY DEF Review
<1>2. AsRuled(v, how, t, n) = [of |-> v.of, closest |-> v.closest, ruled |-> how, title |-> title, at |-> n]
  <2>1. AsRuled(v, how, t, n) = [v EXCEPT !.ruled = how, !.at = n, !.title = title]
    BY Zenon DEF AsRuled
  <2> HIDE DEF title
  <2> QED BY <2>1 DEF Review
<1>3. v.of \in Listings /\ v.closest \in TitleIds
    BY DEF Review
<1>4. (how # "dismissed" => title = t) /\ title \in {t, v.title}
    OBVIOUS
<1> HIDE DEF title
<1> QED BY <1>1, <1>2, <1>3, <1>4 DEF Review

LEMMA AnsweredRulesOn ==
    ASSUME TypeOK, NEW r \in Parks(committed),
           NEW how \in Rulings, NEW t \in TitleIds \cup {None}, how # "dismissed" => t # None
    PROVE  RuledOn(committed, Answered(r, how, t), r)
           /\ Answered(r, how, t).titles = committed.titles
           /\ Answered(r, how, t).offers = committed.offers
           /\ Answered(r, how, t).aliases = committed.aliases
           /\ Answered(r, how, t).reviews[r].title \in {t, committed.reviews[r].title}
<1> DEFINE last == Max({committed.reviews[s].at : s \in Parks(committed)})
           was == committed.reviews[r]
           new == [was EXCEPT !.ruled = how, !.at = last + 1,
                              !.title = IF how = "dismissed" THEN was.title ELSE t]
<1>1. /\ committed.reviews \in [ReviewIds -> Review \cup {None}] /\ r \in ReviewIds
      /\ Parks(committed) \in SUBSET ReviewIds
      /\ \A s \in Parks(committed) : committed.reviews[s] \in Review
    BY DEF TypeOK, Tables, Parks
<1>2. last \in Nat
  <2> DEFINE at == [s \in Parks(committed) |-> committed.reviews[s].at]
  <2>1. at \in [Parks(committed) -> Nat]
    BY <1>1 DEF Review
  <2>2. {at[s] : s \in Parks(committed)} = {committed.reviews[s].at : s \in Parks(committed)}
    OBVIOUS
  <2>3. MaxReviews \in Nat /\ Parks(committed) \in SUBSET (1 .. MaxReviews)
    BY <1>1, MatchAssumption DEF ReviewIds
  <2> HIDE DEF at
  <2>4. Max({at[s] : s \in Parks(committed)}) \in Nat
    BY <2>1, <2>3, GreatestOfSome
  <2> QED BY <2>2, <2>4
<1> HIDE DEF last
<1>3. was \in Review
    BY <1>1
<1>4. /\ new \in Review /\ new.of = was.of
      /\ new.ruled \in {"attached", "created"} => new.title # None
      /\ new.title \in {t, was.title}
  <2>1. PICK n \in Nat : n = last + 1
    BY <1>2
  <2>2. PICK v \in Review : v = was
    BY <1>3
  <2>3. new = AsRuled(v, how, t, n)
    BY <2>1, <2>2 DEF AsRuled
  <2> HIDE DEF new, was
  <2>4. /\ AsRuled(v, how, t, n) \in Review
        /\ AsRuled(v, how, t, n).of = v.of /\ AsRuled(v, how, t, n).ruled = how
        /\ how # "dismissed" => AsRuled(v, how, t, n).title = t
        /\ AsRuled(v, how, t, n).title \in {t, v.title}
    BY RuledRow
  <2> QED BY <2>2, <2>3, <2>4
<1>5. Answered(r, how, t) = [committed EXCEPT !.reviews = [@ EXCEPT ![r] = new]]
    BY Zenon DEF Answered, last
<1> HIDE DEF new
<1>6. Answered(r, how, t).reviews = [committed.reviews EXCEPT ![r] = new]
    BY <1>5 DEF TypeOK, Tables
<1>7. Answered(r, how, t) \in Tables
    BY <1>1, <1>4, <1>5 DEF TypeOK, Tables
<1> QED BY <1>1, <1>4, <1>5, <1>6, <1>7 DEF RuledOn, new, TypeOK, Tables

(* What Rule does to the queue, and to nothing else of the tables that     *)
(* decides what becomes of a listing.                                      *)
LEMMA RuleRulesOn ==
    ASSUME TypeOK, NEW a \in Admins, Rule(a)
    PROVE  /\ ~chunk.wrote /\ chunk' = chunk /\ ruling' = [ruling EXCEPT ![a] = None]
           /\ ruling[a] # None
           /\ \/ db' = db /\ committed' = committed
              \/ /\ db' = committed' /\ ruling[a].id \in Parks(committed)
                 /\ RuledOn(committed, committed', ruling[a].id)
<1>1. PICK r \in ReviewIds, l \in Listings : r = ruling[a].id /\ l = ruling[a].of
    BY DEF TypeOK, Rule
<1>2. /\ ruling[a] # None /\ ~chunk.wrote /\ chunk' = chunk
      /\ ruling' = [ruling EXCEPT ![a] = None]
    BY DEF Rule
<1>3. CASE committed.reviews[r] = None /\ UNCHANGED <<db, committed>>
    BY <1>2, <1>3
<1>4. CASE committed.reviews[r] # None /\ db' = committed'
  <2>1. r \in Parks(committed) /\ committed \in Tables
    BY <1>4 DEF Parks, TypeOK
  <2>2. ASSUME NEW t \in Existing(committed),
               committed' = [Answered(r, "attached", t) EXCEPT
                                !.offers[t] = IF @ = None THEN [ref |-> None] ELSE @]
        PROVE  RuledOn(committed, committed', r)
    <3>1. t \in TitleIds /\ t # None
        BY MatchAssumption DEF Existing
    <3>2. PICK e \in Tables : e = Answered(r, "attached", t) /\ RuledOn(committed, e, r)
        BY <2>1, <3>1, AnsweredRulesOn DEF Rulings, RuledOn
    <3>3. committed' = [e EXCEPT !.offers[t] = IF @ = None THEN [ref |-> None] ELSE @]
        BY <2>2, <3>2
    <3>4. [ref |-> None] \in Row
        BY DEF Row
    <3>5. committed' \in Tables /\ committed'.reviews = e.reviews
        BY <3>1, <3>3, <3>4 DEF Tables
    <3> QED BY <3>2, <3>5 DEF RuledOn
  <2>3. ASSUME Existing(committed) # TitleIds,
               committed' = [Created(Answered(r, "created", Fresh(committed)), NameOf[l], OwnId[l])
                                EXCEPT !.offers[Fresh(committed)] = [ref |-> None]]
        PROVE  RuledOn(committed, committed', r)
    <3>1. PICK t \in TitleIds : t = Fresh(committed)
        BY <2>1, <2>3, FreshIsNew
    <3>2. t # None
        BY MatchAssumption
    <3>3. PICK e \in Tables : /\ e = Answered(r, "created", t) /\ RuledOn(committed, e, r)
                             /\ e.titles = committed.titles
        BY <2>1, <3>2, AnsweredRulesOn DEF Rulings, RuledOn
    <3>4. Existing(e) # TitleIds
        BY <2>3, <3>3 DEF Existing
    <3>5. NameOf[l] \in Names /\ OwnId[l] \in TmdbIds \cup {None}
        BY MatchAssumption DEF Names
    <3>6. PICK c \in Tables : c = Created(e, NameOf[l], OwnId[l]) /\ c.reviews = e.reviews
        BY <3>4, <3>5, CreatedKeeps
    <3>7. committed' = [c EXCEPT !.offers[t] = [ref |-> None]]
        BY <2>3, <3>1, <3>3, <3>6
    <3>8. [ref |-> None] \in Row
        BY DEF Row
    <3>9. committed' \in Tables /\ committed'.reviews = e.reviews
        BY <3>6, <3>7, <3>8 DEF Tables
    <3> QED BY <3>3, <3>9 DEF RuledOn
  <2>4. ASSUME committed' = Answered(r, "dismissed", None)
        PROVE  RuledOn(committed, committed', r)
    BY <2>1, <2>4, AnsweredRulesOn DEF Rulings
  <2>5. \/ \E t \in Existing(committed) :
              committed' = [Answered(r, "attached", t) EXCEPT
                               !.offers[t] = IF @ = None THEN [ref |-> None] ELSE @]
        \/ /\ Existing(committed) # TitleIds
           /\ committed' = [Created(Answered(r, "created", Fresh(committed)), NameOf[l], OwnId[l])
                                EXCEPT !.offers[Fresh(committed)] = [ref |-> None]]
        \/ committed' = Answered(r, "dismissed", None)
    BY <1>1, <1>4 DEF Rule
  <2>6. RuledOn(committed, committed', r)
    BY <2>2, <2>3, <2>4, <2>5
  <2> QED BY <1>1, <1>2, <1>4, <2>1, <2>6
<1> QED BY <1>1, <1>3, <1>4 DEF Rule

-----------------------------------------------------------------------------
(* The types, and that a ruling which files a listing names a title.       *)
TypeInv == TypeOK /\ Named(db) /\ Named(committed)

LEMMA TypeInit == Init => TypeInv
<1> SUFFICES ASSUME Init PROVE TypeInv
    OBVIOUS
<1>1. \A t \in TitleIds : t \in DOMAIN HeldTitles => HeldTitles[t] \in Title
    BY MatchAssumption
<1>2. \A i \in TmdbIds : i \in DOMAIN HeldAliases => HeldAliases[i] \in TitleIds
    BY MatchAssumption
<1>3. db \in Tables /\ committed \in Tables
    BY <1>1, <1>2 DEF Init, Tables
<1>4. chunk \in Chunk
    BY DEF Init, Between, Chunk, Unwritten
<1>5. ruling \in [Admins -> {None} \cup [id : ReviewIds, of : Listings]]
    BY DEF Init
<1>6. Parks(db) = {} /\ committed = db
    BY DEF Init, Parks
<1> QED BY <1>3, <1>4, <1>5, <1>6 DEF TypeInv, TypeOK, Named

LEMMA HandledStaysNamed ==
    ASSUME db \in Tables, Named(db), NEW l \in Listings, Handled(l)
    PROVE  Named(db')
<1>1. CASE db'.reviews = db.reviews
    BY <1>1 DEF Named, Parks
<1>2. ASSUME NEW d \in Tables, d.reviews = db.reviews, Reparked(d, db', l)
      PROVE  Named(db')
  <2>1. PICK id \in ReviewIds :
            /\ db'.reviews[id].ruled = "open"
            /\ \A r \in ReviewIds \ {id} : db'.reviews[r] \in {db.reviews[r], None}
    BY <1>2 DEF Reparked
  <2> QED BY <2>1 DEF Named, Parks
<1> QED BY <1>1, <1>2 DEF Handled

LEMMA OpenedIsChunk ==
    ASSUME NEW listings \in SUBSET Listings, NEW asked \in BOOLEAN
    PROVE  /\ Opened(listings, asked) \in Chunk
           /\ Opened(listings, asked).open /\ ~Opened(listings, asked).wrote
           /\ Opened(listings, asked).todo = listings /\ Opened(listings, asked).took = listings
BY DEF Opened, Between, Chunk, Unwritten

LEMMA TypeStep == TypeInv /\ [Next]_vars => TypeInv'
<1> SUFFICES ASSUME TypeInv, [Next]_vars PROVE TypeInv'
    OBVIOUS
<1>1. /\ TypeOK /\ Named(db) /\ Named(committed) /\ db \in Tables /\ committed \in Tables
      /\ chunk \in Chunk /\ chunk.written \in Waiting
    BY DEF TypeInv, TypeOK, Chunk, Waiting
<1>2. SUFFICES TypeOK' /\ Named(db') /\ Named(committed')
    BY <1>2 DEF TypeInv, Named, Parks
<1>3. CASE OfferChunk
  <2>1. PICK listings \in Chunks : chunk' = Opened(listings, FALSE)
    BY <1>3 DEF OfferChunk
  <2>2. chunk' \in Chunk
    BY <2>1, OpenedIsChunk, MatchAssumption
  <2> QED BY <1>1, <1>3, <2>2 DEF OfferChunk, TypeOK
<1>4. CASE OfferResolved
  <2>1. chunk.back \in SUBSET Listings /\ chunk' = Opened(chunk.back, TRUE)
    BY <1>1, <1>4 DEF OfferResolved, Chunk
  <2>2. chunk' \in Chunk
    BY <2>1, OpenedIsChunk
  <2> QED BY <1>1, <1>4, <2>2 DEF OfferResolved, TypeOK
<1>5. CASE Commit
  <2>1. PICK e \in Tables : e = Flush(db, chunk.written) /\ e.reviews = db.reviews
    BY <1>1, FlushKeeps
  <2>2. /\ db' = e /\ committed' = e /\ ruling' = ruling
        /\ chunk' = [Between EXCEPT !.back = chunk.back]
    BY <1>5, <2>1 DEF Commit
  <2>3. chunk' \in Chunk
    BY <1>1, <2>2 DEF Between, Chunk, Unwritten
  <2>4. Named(e)
    BY <1>1, <2>1 DEF Named, Parks
  <2> QED BY <1>1, <2>1, <2>2, <2>3, <2>4 DEF TypeOK
<1>6. CASE Rollback
  <2>1. /\ db' = committed /\ committed' = committed /\ ruling' = ruling /\ chunk' = Between
    BY <1>6 DEF Rollback
  <2>2. chunk' \in Chunk
    BY <2>1 DEF Between, Chunk, Unwritten
  <2> QED BY <1>1, <2>1, <2>2 DEF TypeOK
<1>7. ASSUME NEW l \in chunk.todo, Match(l)
      PROVE  TypeOK' /\ Named(db') /\ Named(committed')
  <2>1. committed' = committed /\ ruling' = ruling /\ chunk.open /\ l \in Listings
    BY <1>1, <1>7 DEF Match, Chunk
  <2>2. Typed /\ Handled(l)
    BY <1>1, <1>7, <2>1, MatchHandles
  <2>3. Named(db')
    BY <1>1, <2>1, <2>2, HandledStaysNamed
  <2> QED BY <1>1, <2>1, <2>2, <2>3 DEF Typed, TypeOK
<1>8. ASSUME NEW a \in Admins, OpenReview(a)
      PROVE  TypeOK' /\ Named(db') /\ Named(committed')
  <2>1. PICK r \in Parks(committed) :
            ruling' = [ruling EXCEPT ![a] = [id |-> r, of |-> committed.reviews[r].of]]
    BY <1>8 DEF OpenReview
  <2>2. r \in ReviewIds /\ committed.reviews[r].of \in Listings
    BY <1>1 DEF Parks, Tables, Review
  <2>3. [id |-> r, of |-> committed.reviews[r].of] \in [id : ReviewIds, of : Listings]
    BY <2>2
  <2>4. ruling' \in [Admins -> {None} \cup [id : ReviewIds, of : Listings]]
    BY <1>1, <2>1, <2>3 DEF TypeOK
  <2> QED BY <1>1, <1>8, <2>4 DEF OpenReview, TypeOK
<1>9. ASSUME NEW a \in Admins, Rule(a)
      PROVE  TypeOK' /\ Named(db') /\ Named(committed')
  <2>1. /\ chunk' = chunk /\ ruling' = [ruling EXCEPT ![a] = None]
        /\ \/ db' = db /\ committed' = committed
           \/ db' = committed' /\ RuledOn(committed, committed', ruling[a].id)
    BY <1>1, <1>9, RuleRulesOn
  <2>2. ruling' \in [Admins -> {None} \cup [id : ReviewIds, of : Listings]]
    BY <1>1, <2>1 DEF TypeOK
  <2>3. CASE RuledOn(committed, committed', ruling[a].id) /\ db' = committed'
    <3>1. committed' \in Tables /\ Named(committed')
        BY <1>1, <2>3 DEF RuledOn, Named, Parks
    <3> QED BY <1>1, <2>1, <2>2, <2>3, <3>1 DEF TypeOK
  <2> QED BY <1>1, <2>1, <2>2, <2>3 DEF TypeOK
<1>10. CASE UNCHANGED vars
    BY <1>1, <1>10 DEF vars, TypeOK
<1> QED BY <1>3, <1>4, <1>5, <1>6, <1>7, <1>8, <1>9, <1>10 DEF Next

(* Whatever is offered, and however it is ruled on, the tables, the chunk  *)
(* and the reviewers' requests keep their shape (match.py, reviews.py).    *)
THEOREM TypeCorrect == Spec => []TypeOK
<1>1. TypeInv => TypeOK
    BY DEF TypeInv
<1> QED BY <1>1, TypeInit, TypeStep, PTL DEF Spec

-----------------------------------------------------------------------------
(* Nothing is dropped as long as no two reviewers have read the same row   *)
(* at once: the handlers read the row, and do not look again when they     *)
(* write (routers/reviews.py:143-149).                                     *)
ApartAtWork ==
    \A a, b \in Admins : a # b /\ ruling[a] # None /\ ruling[b] # None
        => ruling[a].id # ruling[b].id

(* Until a chunk writes, it reads what everybody reads.                    *)
Lock == (~chunk.open => ~chunk.wrote) /\ (~chunk.wrote => db = committed)

(* A chunk rules on nothing, and leaves what was ruled on as it is.        *)
Respects(d, c) ==
    \A r \in ReviewIds : IF Unruled(c, r) THEN Unruled(d, r) ELSE d.reviews[r] = c.reviews[r]

(* What a reviewer is about to rule on, nobody has.                        *)
Held(c, ru) == \A a \in Admins : ru[a] # None => Unruled(c, ru[a].id)

(* Every listing the chunk took is still to do or has been dealt with.     *)
Accounted(d, ch) ==
    ch.open => \A l \in ch.took :
        \/ l \in ch.todo \/ l \in ch.placed \/ (l \in ch.back /\ ~ch.asked)
        \/ ch.wrote /\ OpenParks(d, NameOf[l]) # {}
        \/ Dismissed(d, l)

QueueInv ==
    /\ TypeInv /\ Lock
    /\ Respects(db, committed) /\ Held(committed, ruling) /\ Accounted(db, chunk)

LEMMA SameRows ==
    ASSUME NEW d, NEW e, d.reviews = e.reviews
    PROVE  /\ \A r \in ReviewIds : Unruled(d, r) <=> Unruled(e, r)
           /\ \A l \in Listings : Dismissed(d, l) <=> Dismissed(e, l)
           /\ \A n : OpenParks(d, n) = OpenParks(e, n)
BY DEF Unruled, Dismissed, OpenParks, Ruled, Parks

(* A row that is ruled on outlives what leaves ruled rows as they are.     *)
LEMMA DismissedStays ==
    ASSUME NEW d, NEW e, NEW l \in Listings, Dismissed(d, l),
           \A r \in ReviewIds : ~Unruled(d, r) => e.reviews[r] = d.reviews[r]
    PROVE  Dismissed(e, l)
BY DEF Unruled, Dismissed, Ruled, Parks

LEMMA ReparkedKeepsRuled ==
    ASSUME NEW d \in Tables, NEW e, NEW l \in Listings, Reparked(d, e, l)
    PROVE  /\ \A r \in ReviewIds : IF Unruled(d, r) THEN Unruled(e, r)
                                   ELSE e.reviews[r] = d.reviews[r]
           /\ OpenParks(e, NameOf[l]) # {}
           /\ \A k \in Listings : OpenParks(d, NameOf[k]) # {} => OpenParks(e, NameOf[k]) # {}
<1>1. PICK id \in ReviewIds :
        /\ e.reviews[id] \in Review /\ e.reviews[id].of = l /\ e.reviews[id].ruled = "open"
        /\ \A r \in Parks(d) \ OpenParks(d, NameOf[l]) : r # id /\ e.reviews[r] = d.reviews[r]
        /\ \A r \in ReviewIds \ {id} : e.reviews[r] \in {d.reviews[r], None}
    BY DEF Reparked
<1>2. id \in OpenParks(e, NameOf[l])
    BY <1>1, MatchAssumption DEF OpenParks, Parks
<1>3. ASSUME NEW r \in ReviewIds
      PROVE  IF Unruled(d, r) THEN Unruled(e, r) ELSE e.reviews[r] = d.reviews[r]
  <2>1. CASE Unruled(d, r)
    BY <1>1, <2>1 DEF Unruled
  <2>2. CASE ~Unruled(d, r)
    <3>1. r \in Parks(d) \ OpenParks(d, NameOf[l])
        BY <2>2 DEF Unruled, Parks, OpenParks
    <3> QED BY <1>1, <2>2, <3>1
  <2> QED BY <2>1, <2>2
<1>4. ASSUME NEW k \in Listings, OpenParks(d, NameOf[k]) # {}
      PROVE  OpenParks(e, NameOf[k]) # {}
  <2>1. CASE NameOf[k] = NameOf[l]
    BY <1>2, <2>1
  <2>2. CASE NameOf[k] # NameOf[l]
    <3>1. PICK r \in OpenParks(d, NameOf[k]) : TRUE
        BY <1>4
    <3>2. r \in Parks(d) \ OpenParks(d, NameOf[l])
        BY <2>2, <3>1 DEF OpenParks
    <3>3. e.reviews[r] = d.reviews[r]
        BY <1>1, <3>2
    <3>4. r \in OpenParks(e, NameOf[k])
        BY <3>1, <3>3 DEF OpenParks, Parks
    <3> QED BY <3>4
  <2> QED BY <2>1, <2>2
<1> QED BY <1>2, <1>3, <1>4

LEMMA MatchAccounts ==
    ASSUME QueueInv, NEW l \in chunk.todo, Match(l)
    PROVE  Lock' /\ Respects(db', committed) /\ Accounted(db', chunk')
<1>1. /\ chunk.open /\ committed' = committed /\ TypeOK /\ db \in Tables /\ chunk \in Chunk
      /\ l \in Listings /\ chunk.took \in SUBSET Listings /\ chunk.todo \in SUBSET Listings
      /\ Respects(db, committed) /\ Accounted(db, chunk)
    BY DEF QueueInv, TypeInv, TypeOK, Chunk, Match
<1>2. Handled(l)
    BY <1>1, MatchHandles DEF QueueInv, TypeInv
<1>3. Lock'
    BY <1>1, <1>2 DEF QueueInv, Lock, Handled
<1>4. /\ \A r \in ReviewIds : IF Unruled(db, r) THEN Unruled(db', r)
                              ELSE db'.reviews[r] = db.reviews[r]
      /\ \A k \in Listings : OpenParks(db, NameOf[k]) # {} => OpenParks(db', NameOf[k]) # {}
      /\ \/ l \in chunk'.placed \/ (l \in chunk'.back /\ ~chunk'.asked) \/ Dismissed(db', l)
         \/ chunk'.wrote /\ OpenParks(db', NameOf[l]) # {}
  <2>1. CASE /\ db'.reviews = db.reviews
             /\ l \in chunk'.placed \/ (l \in chunk'.back /\ ~chunk.asked) \/ Dismissed(db, l)
    <3>1. /\ \A r \in ReviewIds : Unruled(db, r) <=> Unruled(db', r)
          /\ \A k \in Listings : Dismissed(db, k) <=> Dismissed(db', k)
          /\ \A n : OpenParks(db, n) = OpenParks(db', n)
        BY <2>1, SameRows
    <3>2. chunk'.asked = chunk.asked
        BY <1>2 DEF Handled
    <3> QED BY <1>1, <2>1, <3>1, <3>2
  <2>2. ASSUME chunk'.wrote, NEW d \in Tables, d.reviews = db.reviews, Reparked(d, db', l)
        PROVE  /\ \A r \in ReviewIds : IF Unruled(db, r) THEN Unruled(db', r)
                                       ELSE db'.reviews[r] = db.reviews[r]
               /\ \A k \in Listings : OpenParks(db, NameOf[k]) # {} => OpenParks(db', NameOf[k]) # {}
               /\ OpenParks(db', NameOf[l]) # {}
    <3>1. /\ \A r \in ReviewIds : Unruled(db, r) <=> Unruled(d, r)
          /\ \A n : OpenParks(db, n) = OpenParks(d, n)
        BY <2>2, SameRows
    <3>2. /\ \A r \in ReviewIds : IF Unruled(d, r) THEN Unruled(db', r)
                                  ELSE db'.reviews[r] = d.reviews[r]
          /\ OpenParks(db', NameOf[l]) # {}
          /\ \A k \in Listings : OpenParks(d, NameOf[k]) # {} => OpenParks(db', NameOf[k]) # {}
        BY <1>1, <2>2, ReparkedKeepsRuled
    <3> QED BY <2>2, <3>1, <3>2
  <2> QED BY <1>2, <2>1, <2>2 DEF Handled
<1>5. Respects(db', committed)
    BY <1>1, <1>4 DEF Respects, Unruled
<1>6. ASSUME NEW k \in chunk.took
      PROVE  \/ k \in chunk'.todo \/ k \in chunk'.placed \/ (k \in chunk'.back /\ ~chunk'.asked)
             \/ chunk'.wrote /\ OpenParks(db', NameOf[k]) # {}
             \/ Dismissed(db', k)
  <2>1. CASE k = l
    BY <1>4, <2>1
  <2>2. CASE k # l
    <3>1. /\ chunk'.asked = chunk.asked /\ chunk'.todo = chunk.todo \ {l}
          /\ chunk.placed \subseteq chunk'.placed /\ chunk.back \subseteq chunk'.back
          /\ (chunk.wrote => chunk'.wrote)
        BY <1>2 DEF Handled
    <3>2. Dismissed(db, k) => Dismissed(db', k)
        BY <1>1, <1>4, DismissedStays
    <3>3. \/ k \in chunk.todo \/ k \in chunk.placed \/ (k \in chunk.back /\ ~chunk.asked)
          \/ chunk.wrote /\ OpenParks(db, NameOf[k]) # {}
          \/ Dismissed(db, k)
        BY <1>1 DEF Accounted
    <3> QED BY <1>1, <1>4, <2>2, <3>1, <3>2, <3>3
  <2> QED BY <2>1, <2>2
<1>7. Accounted(db', chunk')
    BY <1>2, <1>6 DEF Accounted, Handled
<1> QED BY <1>3, <1>5, <1>7

LEMMA QueueStep == QueueInv /\ ApartAtWork /\ TypeInv' /\ [Next]_vars => QueueInv'
<1> SUFFICES ASSUME QueueInv, ApartAtWork, TypeInv', [Next]_vars PROVE QueueInv'
    OBVIOUS
<1>1. /\ TypeOK /\ db \in Tables /\ committed \in Tables /\ chunk \in Chunk /\ Lock
      /\ Respects(db, committed) /\ Held(committed, ruling) /\ Accounted(db, chunk)
      /\ chunk.written \in Waiting
    BY DEF QueueInv, TypeInv, TypeOK, Chunk, Waiting
<1> DEFINE Goal == /\ Lock' /\ Respects(db', committed') /\ Held(committed', ruling')
                   /\ Accounted(db', chunk')
<1>2. SUFFICES Goal
    BY <1>2 DEF QueueInv, Respects, Held, Accounted, Unruled, Dismissed, OpenParks, Ruled, Parks
<1>3. ASSUME NEW listings \in SUBSET Listings, NEW asked \in BOOLEAN, ~chunk.open,
             chunk' = Opened(listings, asked), UNCHANGED <<db, committed, ruling>>
      PROVE  Goal
  <2>1. chunk'.open /\ ~chunk'.wrote /\ chunk'.took = chunk'.todo
    BY <1>3, OpenedIsChunk
  <2>2. Lock' /\ Accounted(db', chunk')
    BY <1>1, <1>3, <2>1 DEF Lock, Accounted
  <2> QED BY <1>1, <1>3, <2>2
<1>4. CASE OfferChunk
    BY <1>3, <1>4, MatchAssumption DEF OfferChunk
<1>5. CASE OfferResolved
    BY <1>1, <1>3, <1>5 DEF OfferResolved, Chunk
<1>6. CASE Commit
  <2>1. PICK e \in Tables : e = Flush(db, chunk.written) /\ e.reviews = db.reviews
    BY <1>1, FlushKeeps
  <2>2. /\ db' = e /\ committed' = e /\ ruling' = ruling
        /\ ~chunk'.open /\ ~chunk'.wrote
    BY <1>6, <2>1 DEF Commit, Between
  <2>3. \A r \in ReviewIds : Unruled(committed, r) => Unruled(e, r)
    BY <1>1, <2>1, SameRows DEF Respects
  <2>4. Held(e, ruling)
    BY <1>1, <2>3 DEF Held, TypeOK
  <2> QED BY <2>2, <2>4 DEF Lock, Respects, Accounted
<1>7. CASE Rollback
  <2>1. /\ db' = committed /\ committed' = committed /\ ruling' = ruling
        /\ ~chunk'.open /\ ~chunk'.wrote
    BY <1>7 DEF Rollback, Between
  <2> QED BY <1>1, <2>1 DEF Lock, Respects, Accounted
<1>8. ASSUME NEW l \in chunk.todo, Match(l)
      PROVE  Goal
  <2>1. committed' = committed /\ ruling' = ruling
    BY <1>8 DEF Match
  <2> QED BY <1>1, <1>8, <2>1, MatchAccounts
<1>9. ASSUME NEW a \in Admins, OpenReview(a)
      PROVE  Goal
  <2>1. PICK r \in Parks(committed) :
            /\ committed.reviews[r].ruled = "open"
            /\ ruling' = [ruling EXCEPT ![a] = [id |-> r, of |-> committed.reviews[r].of]]
    BY <1>9 DEF OpenReview
  <2>2. db' = db /\ committed' = committed /\ chunk' = chunk
    BY <1>9 DEF OpenReview
  <2>3. \A b \in Admins : ruling'[b] # None => Unruled(committed, ruling'[b].id)
    BY <1>1, <2>1 DEF Held, Unruled, TypeOK
  <2> QED BY <1>1, <2>2, <2>3 DEF Lock, Held
<1>10. ASSUME NEW a \in Admins, Rule(a)
       PROVE  Goal
  <2>1. /\ ~chunk.wrote /\ chunk' = chunk /\ ruling' = [ruling EXCEPT ![a] = None]
        /\ ruling[a] # None
        /\ \/ db' = db /\ committed' = committed
           \/ db' = committed' /\ RuledOn(committed, committed', ruling[a].id)
    BY <1>1, <1>10, RuleRulesOn
  <2>2. \A b \in Admins : ruling'[b] # None => b # a /\ ruling'[b] = ruling[b]
    BY <1>1, <2>1 DEF TypeOK
  <2>3. db = committed
    BY <1>1, <2>1 DEF Lock
  <2>4. CASE db' = db /\ committed' = committed
    BY <1>1, <2>1, <2>2, <2>4 DEF Lock, Held
  <2>5. CASE db' = committed' /\ RuledOn(committed, committed', ruling[a].id)
    <3>1. \A r \in ReviewIds \ {ruling[a].id} : committed'.reviews[r] = committed.reviews[r]
        BY <2>5 DEF RuledOn
    <3>2. Unruled(committed, ruling[a].id)
        BY <1>1, <2>1 DEF Held
    <3>3. ASSUME NEW b \in Admins, ruling'[b] # None
          PROVE  Unruled(committed', ruling'[b].id)
      <4>1. ruling'[b] = ruling[b] /\ ruling[b].id # ruling[a].id
        BY <2>1, <2>2, <3>3 DEF ApartAtWork
      <4>2. ruling[b].id \in ReviewIds /\ Unruled(committed, ruling[b].id)
        BY <1>1, <3>3, <4>1 DEF TypeOK, Held
      <4> QED BY <3>1, <4>1, <4>2 DEF Unruled
    <3>4. \A r \in ReviewIds : ~Unruled(db, r) => db'.reviews[r] = db.reviews[r]
        BY <2>3, <2>5, <3>1, <3>2
    <3>5. ASSUME NEW l \in Listings, Dismissed(db, l)
          PROVE  Dismissed(db', l)
        BY <3>4, <3>5, DismissedStays
    <3>6. Accounted(db', chunk')
      <4>1. chunk.took \in SUBSET Listings
        BY <1>1 DEF Chunk
      <4> QED BY <1>1, <2>1, <3>5, <4>1 DEF Accounted
    <3>7. Lock' /\ Respects(db', committed')
        BY <1>1, <2>1, <2>5 DEF Lock, Respects
    <3> QED BY <3>3, <3>6, <3>7 DEF Held
  <2> QED BY <2>1, <2>4, <2>5
<1>11. CASE UNCHANGED vars
    BY <1>1, <1>11 DEF vars, Lock
<1> QED BY <1>4, <1>5, <1>6, <1>7, <1>8, <1>9, <1>10, <1>11 DEF Next

LEMMA QueueInit == Init => QueueInv
<1> SUFFICES ASSUME Init PROVE QueueInv
    OBVIOUS
<1>1. TypeInv
    BY TypeInit
<1>2. Lock /\ Respects(db, committed) /\ Held(committed, ruling) /\ Accounted(db, chunk)
    BY DEF Init, Between, Lock, Respects, Held, Accounted
<1> QED BY <1>1, <1>2 DEF QueueInv

LEMMA QueueHolds == Spec /\ []ApartAtWork => []QueueInv
<1>1. QueueInv /\ ApartAtWork /\ [Next]_vars => QueueInv'
    BY TypeStep, QueueStep DEF QueueInv
<1> QED BY <1>1, QueueInit, PTL DEF Spec

LEMMA CommitSettles ==
    ASSUME QueueInv, Commit
    PROVE  \A l \in chunk.took :
              \/ l \in chunk.placed
              \/ l \in chunk.back /\ ~chunk.asked
              \/ OpenParks(committed', NameOf[l]) # {}
              \/ \E r \in Ruled(committed', NameOf[l]) : committed'.reviews[r].ruled = "dismissed"
<1>1. /\ chunk.open /\ chunk.todo = {} /\ Accounted(db, chunk)
      /\ chunk.took \in SUBSET Listings /\ db \in Tables /\ chunk.written \in Waiting
    BY DEF Commit, QueueInv, TypeInv, TypeOK, Chunk, Waiting
<1>2. PICK e \in Tables : e = Flush(db, chunk.written) /\ e.reviews = db.reviews
    BY <1>1, FlushKeeps
<1>3. committed' = e
    BY <1>2 DEF Commit
<1>4. /\ \A l \in Listings : Dismissed(db, l) <=> Dismissed(e, l)
      /\ \A n : OpenParks(db, n) = OpenParks(e, n)
    BY <1>2, SameRows
<1> QED BY <1>1, <1>3, <1>4 DEF Accounted, Dismissed

(* A listing is never quietly dropped, however many reviewers rule while   *)
(* chunks are matched, as long as no two of them hold one row              *)
(* (syncing.py:303-307, match.py, routers/reviews.py).                     *)
THEOREM NothingIsDropped == Spec /\ []ApartAtWork => NothingDropped
<1>1. QueueInv /\ [Next]_vars
      => [Commit => \A l \in chunk.took :
            \/ l \in chunk.placed
            \/ l \in chunk.back /\ ~chunk.asked
            \/ OpenParks(committed', NameOf[l]) # {}
            \/ \E r \in Ruled(committed', NameOf[l]) : committed'.reviews[r].ruled = "dismissed"]_vars
    BY CommitSettles
<1> QED BY <1>1, QueueHolds, PTL DEF Spec, NothingDropped

LEMMA LockStep == TypeInv /\ Lock /\ [Next]_vars => Lock'
<1> SUFFICES ASSUME TypeInv, Lock, [Next]_vars PROVE Lock'
    OBVIOUS
<1>1. ASSUME NEW l \in chunk.todo, Match(l)
      PROVE  Lock'
  <2>1. chunk.open /\ committed' = committed /\ Handled(l)
    BY <1>1, MatchHandles DEF Match, TypeInv
  <2> QED BY <2>1 DEF Lock, Handled
<1>2. ASSUME NEW a \in Admins, OpenReview(a) \/ Rule(a)
      PROVE  Lock'
    BY <1>2, RuleRulesOn DEF TypeInv, OpenReview, Lock
<1>3. ASSUME OfferChunk \/ OfferResolved
      PROVE  Lock'
  <2>1. ~chunk.open /\ db' = db /\ committed' = committed /\ ~chunk'.wrote /\ chunk'.open
    BY <1>3 DEF OfferChunk, OfferResolved, Opened, Between
  <2> QED BY <2>1 DEF Lock
<1>4. ASSUME Commit \/ Rollback
      PROVE  Lock'
    BY <1>4 DEF Commit, Rollback, Between, Lock
<1>5. CASE UNCHANGED vars
    BY <1>5 DEF vars, Lock
<1> QED BY <1>1, <1>2, <1>3, <1>4, <1>5 DEF Next

(* What a chunk does to the rows, whoever else holds one.                  *)
LEMMA MatchRespects ==
    ASSUME TypeInv, Respects(db, committed), NEW l \in chunk.todo, Match(l)
    PROVE  Respects(db', committed)
<1>1. /\ TypeOK /\ Named(db) /\ chunk.open /\ db \in Tables /\ l \in Listings
    BY DEF TypeInv, TypeOK, Chunk, Match
<1>2. Handled(l)
    BY <1>1, MatchHandles
<1>3. CASE db'.reviews = db.reviews
    BY <1>3, SameRows DEF Respects
<1>4. ASSUME NEW d \in Tables, d.reviews = db.reviews, Reparked(d, db', l)
      PROVE  Respects(db', committed)
  <2>1. \A r \in ReviewIds : Unruled(db, r) <=> Unruled(d, r)
    BY <1>4, SameRows
  <2>2. \A r \in ReviewIds : IF Unruled(d, r) THEN Unruled(db', r)
                              ELSE db'.reviews[r] = d.reviews[r]
    BY <1>1, <1>4, ReparkedKeepsRuled
  <2> QED BY <1>4, <2>1, <2>2 DEF Respects, Unruled
<1> QED BY <1>3, <1>4, <1>2 DEF Handled

RowsInv == TypeInv /\ Lock /\ Respects(db, committed)

LEMMA RowsStep == RowsInv /\ TypeInv' /\ Lock' /\ [Next]_vars => RowsInv'
<1> SUFFICES ASSUME RowsInv, TypeInv', Lock', [Next]_vars PROVE RowsInv'
    OBVIOUS
<1>1. /\ TypeInv /\ TypeOK /\ Lock /\ Respects(db, committed)
      /\ db \in Tables /\ committed \in Tables /\ chunk.written \in Waiting
    BY DEF RowsInv, TypeInv, TypeOK, Chunk, Waiting
<1>2. SUFFICES Respects(db', committed')
    BY <1>2 DEF RowsInv, Respects, Unruled
<1>3. ASSUME NEW l \in chunk.todo, Match(l)
      PROVE  Respects(db', committed')
    BY <1>1, <1>3, MatchRespects DEF Match
<1>4. ASSUME NEW a \in Admins, Rule(a)
      PROVE  Respects(db', committed')
    BY <1>1, <1>4, RuleRulesOn DEF Respects
<1>5. CASE Commit \/ Rollback
  <2>1. db' = committed'
    BY <1>5 DEF Commit, Rollback
  <2> QED BY <2>1 DEF Respects
<1>6. CASE \/ OfferChunk \/ OfferResolved \/ UNCHANGED vars
           \/ \E a \in Admins : OpenReview(a)
    BY <1>1, <1>6 DEF OfferChunk, OfferResolved, vars, OpenReview
<1> QED BY <1>3, <1>4, <1>5, <1>6 DEF Next

LEMMA RuledRowsStay ==
    ASSUME RowsInv, [Next]_vars, NEW r \in Parks(committed),
           committed.reviews[r].ruled # "open", committed'.reviews[r] # committed.reviews[r]
    PROVE  \E a \in Admins : ruling[a] # None /\ ruling[a].id = r /\ Rule(a)
<1>1. r \in ReviewIds /\ ~Unruled(committed, r)
    BY DEF Parks, Unruled
<1>2. CASE Commit
  <2>1. db \in Tables /\ chunk.written \in Waiting
    BY DEF RowsInv, TypeInv, TypeOK, Chunk, Waiting
  <2>2. committed'.reviews = db.reviews
    BY <1>2, <2>1, FlushKeeps DEF Commit
  <2> QED BY <1>1, <2>2 DEF RowsInv, Respects
<1>3. ASSUME NEW a \in Admins, Rule(a)
      PROVE  ruling[a] # None /\ ruling[a].id = r
  <2>1. /\ ruling[a] # None
        /\ \/ committed' = committed
           \/ RuledOn(committed, committed', ruling[a].id)
    BY <1>3, RuleRulesOn DEF RowsInv, TypeInv
  <2> QED BY <1>1, <2>1 DEF RuledOn
<1>4. CASE \/ OfferChunk \/ OfferResolved \/ Rollback \/ UNCHANGED vars
           \/ \E l \in chunk.todo : Match(l)
           \/ \E a \in Admins : OpenReview(a)
    BY <1>4 DEF OfferChunk, OfferResolved, Rollback, vars, Match, OpenReview
<1> QED BY <1>2, <1>3, <1>4 DEF Next

(* "A resolved review is never touched" (match.py:999-1001): a ruling is   *)
(* changed by nothing but the request of another reviewer who had the same *)
(* row open.  No chunk replaces it, as it replaces the rows that are open, *)
(* and none under way when it was made undoes it, committed or rolled back.*)
THEOREM RulingsOutliveChunks ==
    Spec => [][\A r \in Parks(committed) :
                  committed.reviews[r].ruled # "open" /\ committed'.reviews[r] # committed.reviews[r]
                  => \E a \in Admins : ruling[a] # None /\ ruling[a].id = r /\ Rule(a)]_vars
<1>1. RowsInv /\ [Next]_vars
      => [\A r \in Parks(committed) :
             committed.reviews[r].ruled # "open" /\ committed'.reviews[r] # committed.reviews[r]
             => \E a \in Admins : ruling[a] # None /\ ruling[a].id = r /\ Rule(a)]_vars
    BY RuledRowsStay
<1>2. Init => RowsInv
    BY QueueInit DEF QueueInv, RowsInv
<1>3. RowsInv /\ [Next]_vars => RowsInv'
    BY TypeStep, LockStep, RowsStep DEF RowsInv
<1> QED BY <1>1, <1>2, <1>3, PTL DEF Spec

-----------------------------------------------------------------------------
(* Which titles offers are on, and what their ids are bound to.            *)
ExistsIn(d, t) == t \in TitleIds /\ d.titles[t] # None

(* Offers, aliases and rulings are of titles there are.                    *)
Pointed(d, w) ==
    /\ \A t \in TitleIds : d.offers[t] # None \/ w[t] # None => ExistsIn(d, t)
    /\ \A i \in TmdbIds : d.aliases[i] # None => ExistsIn(d, d.aliases[i])
    /\ \A r \in Parks(d) : d.reviews[r].title # None => ExistsIn(d, d.reviews[r].title)

(* What is bound in c stays bound in d, once w is flushed.                 *)
Kept(c, d, w) ==
    \A t \in TitleIds : c.offers[t] # None /\ c.offers[t].ref # None =>
        /\ d.offers[t] # None /\ d.offers[t].ref = c.offers[t].ref
        /\ w[t] # None => w[t].ref = c.offers[t].ref

Sound(c, d, w) == Pointed(d, w) /\ Kept(c, d, w)

SameTitles(d, e) == e.titles = d.titles /\ e.aliases = d.aliases

LEMMA FlushSound ==
    ASSUME NEW c \in Tables, NEW d \in Tables, NEW w \in Waiting, Sound(c, d, w)
    PROVE  Sound(c, Flush(d, w), Unwritten)
<1>1. PICK e \in Tables : e = Flush(d, w)
    BY FlushKeeps
<1>2. /\ e.titles = d.titles /\ e.aliases = d.aliases /\ e.reviews = d.reviews
    BY <1>1, FlushKeeps
<1>3. \A t \in TitleIds : e.offers[t] = IF w[t] # None THEN w[t] ELSE d.offers[t]
    BY <1>1 DEF Flush, Tables
<1>4. \A t \in TitleIds : Unwritten[t] = None
    BY DEF Unwritten
<1>5. Pointed(e, Unwritten)
    BY <1>2, <1>3, <1>4 DEF Sound, Pointed, ExistsIn, Parks
<1>6. Kept(c, e, Unwritten)
    BY <1>3, <1>4 DEF Sound, Kept
<1> QED BY <1>1, <1>5, <1>6 DEF Sound

LEMMA PlaceSound ==
    ASSUME TypeOK, NEW l \in Listings, NEW d \in Tables, NEW w \in Waiting, NEW t,
           ExistsIn(d, t), Sound(committed, d, w), ~Claimed(d, l, t), Place(l, t, d, w)
    PROVE  Sound(committed, db', chunk'.written)
<1>1. PICK row \in Row : row = RowFor(l, IF w[t] # None THEN w[t] ELSE d.offers[t])
  <2>1. w[t] \in Row \cup {None} /\ d.offers[t] \in Row \cup {None}
    BY DEF Waiting, Tables, ExistsIn
  <2> QED BY <2>1, RowForIsRow
<1>2. db' = d /\ chunk'.written = [w EXCEPT ![t] = row]
    BY <1>1 DEF Place, TypeOK, Chunk
<1>3. \A s \in TitleIds : chunk'.written[s] = IF s = t THEN row ELSE w[s]
    BY <1>2 DEF Waiting, ExistsIn
<1>4. Pointed(db', chunk'.written)
    BY <1>2, <1>3 DEF Sound, Pointed, ExistsIn
<1>5. ASSUME committed.offers[t] # None, committed.offers[t].ref # None
      PROVE  row.ref = committed.offers[t].ref
  <2>1. /\ d.offers[t] # None /\ d.offers[t].ref = committed.offers[t].ref
        /\ w[t] # None => w[t].ref = committed.offers[t].ref
    BY <1>5 DEF Sound, Kept, ExistsIn
  <2> QED BY <1>1, <1>5, <2>1 DEF RowFor, Claimed
<1>6. Kept(committed, db', chunk'.written)
    BY <1>2, <1>3, <1>5 DEF Sound, Kept
<1> QED BY <1>4, <1>6 DEF Sound

LEMMA ParkSound ==
    ASSUME TypeOK, NEW l \in Listings, NEW d \in Tables, NEW w \in Waiting, NEW t \in TitleIds,
           Sound(committed, d, w), Park(l, t, d, w)
    PROVE  Sound(committed, db', chunk'.written)
<1>1. PICK e \in Tables : e = Flush(d, w)
    BY FlushKeeps
<1>2. Sound(committed, e, Unwritten)
    BY <1>1, FlushSound DEF TypeOK
<1>3. /\ db' = Parked(e, l, t) /\ chunk'.written = Unwritten
      /\ db' \in Tables /\ Reparked(e, db', l)
    BY <1>1, ParkedKeeps DEF Park, TypeOK, Chunk
<1>4. db'.titles = e.titles /\ db'.offers = e.offers /\ db'.aliases = e.aliases
    BY <1>3 DEF Parked, Tables
<1>5. \A r \in ReviewIds : \/ db'.reviews[r] = None \/ db'.reviews[r].title = None
                           \/ db'.reviews[r] = e.reviews[r]
    BY <1>3 DEF Reparked
<1>6. Pointed(db', Unwritten)
    BY <1>2, <1>4, <1>5 DEF Sound, Pointed, ExistsIn, Parks
<1>7. Kept(committed, db', Unwritten)
    BY <1>2, <1>4 DEF Sound, Kept
<1> QED BY <1>3, <1>6, <1>7 DEF Sound

LEMMA SettleSound ==
    ASSUME TypeOK, NEW l \in Listings, NEW d \in Tables, NEW w \in Waiting, NEW t,
           ExistsIn(d, t), Sound(committed, d, w), Settle(l, t, d, w)
    PROVE  Sound(committed, db', chunk'.written)
<1>1. t \in TitleIds
    BY DEF ExistsIn
<1> QED BY <1>1, PlaceSound, ParkSound DEF Settle

(* A title, or an alias, more.                                             *)
LEMMA CreatedSound ==
    ASSUME NEW c \in Tables, NEW d \in Tables, Existing(d) # TitleIds, Sound(c, d, Unwritten),
           NEW name \in Names, NEW id \in TmdbIds \cup {None}
    PROVE  /\ Created(d, name, id) \in Tables /\ Sound(c, Created(d, name, id), Unwritten)
           /\ ExistsIn(Created(d, name, id), Fresh(d))
           /\ Created(d, name, id).aliases = d.aliases
           /\ Created(d, name, id).titles = [d.titles EXCEPT ![Fresh(d)] = [name |-> name, tmdb |-> id]]
<1>1. PICK e \in Tables : e = Created(d, name, id)
    BY CreatedKeeps
<1>2. PICK f \in TitleIds : f = Fresh(d)
    BY FreshIsNew
<1>3. [name |-> name, tmdb |-> id] # None
    BY MatchAssumption DEF Title
<1>4. /\ e.offers = d.offers /\ e.aliases = d.aliases /\ e.reviews = d.reviews
      /\ e.titles = [d.titles EXCEPT ![f] = [name |-> name, tmdb |-> id]]
    BY <1>1, <1>2 DEF Created, Tables
<1>5. e.titles[f] # None /\ \A t \in TitleIds : d.titles[t] # None => e.titles[t] # None
    BY <1>3, <1>4 DEF Tables
<1>6. Pointed(e, Unwritten) /\ Kept(c, e, Unwritten)
    BY <1>4, <1>5 DEF Sound, Pointed, Kept, ExistsIn, Parks
<1> QED BY <1>1, <1>2, <1>4, <1>5, <1>6 DEF Sound, ExistsIn

LEMMA SettleNewSound ==
    ASSUME TypeOK, NEW l \in Listings, NEW id \in TmdbIds \cup {None},
           Sound(committed, db, chunk.written), SettleNew(l, id)
    PROVE  Sound(committed, db', chunk'.written)
<1>1. PICK d \in Tables : d = Flush(db, chunk.written)
    BY FlushKeeps DEF TypeOK, Chunk, Waiting
<1>2. Sound(committed, d, Unwritten)
    BY <1>1, FlushSound DEF TypeOK, Chunk, Waiting
<1>3. Existing(d) # TitleIds /\ Settle(l, Fresh(d), Created(d, NameOf[l], id), Unwritten)
    BY <1>1 DEF SettleNew
<1>4. NameOf[l] \in Names /\ committed \in Tables /\ Unwritten \in Waiting
    BY DEF Names, TypeOK, Unwritten, Waiting
<1>5. PICK e \in Tables : e = Created(d, NameOf[l], id)
    BY <1>3, <1>4, CreatedKeeps
<1>6. Sound(committed, e, Unwritten) /\ ExistsIn(e, Fresh(d))
    BY <1>2, <1>3, <1>4, <1>5, CreatedSound
<1> QED BY <1>3, <1>4, <1>5, <1>6, SettleSound

(* Settling a listing changes no title and no alias but what it is told to. *)
LEMMA SettleSameTitles ==
    ASSUME NEW l \in Listings, NEW d \in Tables, NEW w \in Waiting, NEW t,
           Place(l, t, d, w) \/ Park(l, t, d, w)
    PROVE  SameTitles(d, db')
<1>1. PICK e \in Tables : e = Flush(d, w) /\ SameTitles(d, e)
    BY FlushKeeps DEF SameTitles
<1>2. CASE Park(l, t, d, w)
  <2>1. db' = Parked(e, l, t)
    BY <1>1, <1>2 DEF Park
  <2>2. db'.titles = e.titles /\ db'.aliases = e.aliases
    BY <2>1 DEF Parked, Tables
  <2> QED BY <1>1, <2>2 DEF SameTitles
<1> QED BY <1>2 DEF Place, SameTitles

LEMMA SettleNewTitles ==
    ASSUME TypeOK, NEW l \in Listings, NEW id \in TmdbIds \cup {None}, SettleNew(l, id)
    PROVE  /\ db'.aliases = db.aliases
           /\ \E f \in TitleIds :
                db'.titles = [db.titles EXCEPT ![f] = [name |-> NameOf[l], tmdb |-> id]]
<1>1. PICK d \in Tables : d = Flush(db, chunk.written) /\ SameTitles(db, d)
    BY FlushKeeps DEF TypeOK, Chunk, Waiting, SameTitles
<1>2. Existing(d) # TitleIds /\ Settle(l, Fresh(d), Created(d, NameOf[l], id), Unwritten)
    BY <1>1 DEF SettleNew
<1>3. PICK f \in TitleIds : f = Fresh(d)
    BY <1>2, FreshIsNew
<1>4. NameOf[l] \in Names /\ Unwritten \in Waiting
    BY DEF Names, Unwritten, Waiting
<1>5. PICK e \in Tables : e = Created(d, NameOf[l], id)
    BY <1>2, <1>4, CreatedKeeps
<1>6. /\ e.aliases = d.aliases
      /\ e.titles = [d.titles EXCEPT ![f] = [name |-> NameOf[l], tmdb |-> id]]
    BY <1>3, <1>5 DEF Created, Tables
<1>7. SameTitles(e, db')
    BY <1>2, <1>4, <1>5, SettleSameTitles DEF Settle
<1> QED BY <1>1, <1>6, <1>7 DEF SameTitles

(* A title there is gets an alias, or the record TMDB's search found.      *)
LEMMA AliasedSound ==
    ASSUME NEW c \in Tables, NEW d \in Tables, Sound(c, d, Unwritten),
           NEW i \in TmdbIds, NEW t, ExistsIn(d, t)
    PROVE  /\ [d EXCEPT !.aliases[i] = t] \in Tables
           /\ ExistsIn([d EXCEPT !.aliases[i] = t], t)
           /\ Sound(c, [d EXCEPT !.aliases[i] = t], Unwritten)
<1>1. PICK e : e = [d EXCEPT !.aliases[i] = t]
    OBVIOUS
<1>2. /\ e.titles = d.titles /\ e.offers = d.offers /\ e.reviews = d.reviews
      /\ e.aliases = [d.aliases EXCEPT ![i] = t] /\ e \in Tables
    BY <1>1 DEF Tables, ExistsIn
<1>3. \A j \in TmdbIds : e.aliases[j] \in {d.aliases[j], t}
    BY <1>2 DEF Tables
<1>4. Pointed(e, Unwritten) /\ Kept(c, e, Unwritten)
    BY <1>2, <1>3 DEF Sound, Pointed, Kept, ExistsIn, Parks
<1> QED BY <1>1, <1>2, <1>4 DEF Sound, ExistsIn

LEMMA RecordedSound ==
    ASSUME NEW c \in Tables, NEW d \in Tables, Sound(c, d, Unwritten),
           NEW i \in TmdbIds, NEW t, ExistsIn(d, t)
    PROVE  /\ [d EXCEPT !.titles[t].tmdb = i] \in Tables
           /\ ExistsIn([d EXCEPT !.titles[t].tmdb = i], t)
           /\ Sound(c, [d EXCEPT !.titles[t].tmdb = i], Unwritten)
<1>1. PICK e, v : v = [d.titles[t] EXCEPT !.tmdb = i] /\ e = [d EXCEPT !.titles[t] = v]
    OBVIOUS
<1>2. v \in Title /\ v # None
  <2>1. d.titles[t] \in Title
    BY DEF ExistsIn, Tables
  <2>2. v \in Title
    BY <1>1, <2>1 DEF Title
  <2> QED BY <2>2, MatchAssumption
<1>3. e = [d EXCEPT !.titles[t].tmdb = i]
    BY <1>1
<1>4. /\ e.aliases = d.aliases /\ e.offers = d.offers /\ e.reviews = d.reviews
      /\ e.titles = [d.titles EXCEPT ![t] = v] /\ e \in Tables
    BY <1>1, <1>2 DEF Tables, ExistsIn
<1>5. \A s \in TitleIds : d.titles[s] # None => e.titles[s] # None
    BY <1>2, <1>4 DEF Tables
<1>6. Pointed(e, Unwritten) /\ Kept(c, e, Unwritten)
    BY <1>4, <1>5 DEF Sound, Pointed, Kept, ExistsIn, Parks
<1> QED BY <1>3, <1>4, <1>5, <1>6 DEF Sound, ExistsIn

(* What a ruling says of a listing that another id of the source's has     *)
(* claimed the title from is the one thing the matcher takes as it comes.  *)
TakesNothing(d, l) ==
    \A r \in Decided(d, l) :
        d.reviews[r].ruled # "dismissed" => ~Claimed(d, l, d.reviews[r].title)

LEMMA MatchSound ==
    ASSUME TypeOK, Named(db), Sound(committed, db, chunk.written),
           NEW l \in chunk.todo, Unmatched(l) => TakesNothing(db, l), Match(l)
    PROVE  Sound(committed, db', chunk'.written)
<1>1. /\ l \in Listings /\ db \in Tables /\ committed \in Tables
      /\ chunk.written \in Waiting /\ Unwritten \in Waiting
    BY DEF TypeOK, Chunk, Waiting, Unwritten
<1>2. OwnId[l] \in TmdbIds \cup {None} /\ HitOf[l] \in TmdbIds \cup {None}
    BY <1>1, MatchAssumption
<1>3. PICK d \in Tables : /\ d = Flush(db, chunk.written) /\ d.titles = db.titles
                         /\ Sound(committed, d, Unwritten)
    BY <1>1, FlushKeeps, FlushSound
<1>4. \A t : ExistsIn(db, t) /\ Settle(l, t, db, chunk.written)
             => Sound(committed, db', chunk'.written)
    BY <1>1, SettleSound
<1>5. \A t : t \in Existing(db) => ExistsIn(db, t) /\ ExistsIn(d, t)
    BY <1>3 DEF Existing, ExistsIn
<1>6. Best(db, l) \in SUBSET Existing(db)
    BY DEF Best, Like
<1>7. CASE ByRef(l)
  <2>1. PICK t \in Bound(db, l) : Place(l, t, db, chunk.written)
    BY <1>7 DEF ByRef
  <2>2. ExistsIn(db, t) /\ ~Claimed(db, l, t)
    BY <2>1 DEF Bound, Claimed, Sound, Pointed
  <2> QED BY <1>1, <2>1, <2>2, PlaceSound
<1>8. CASE ByOwnId(l)
  <2>1. PICK t \in Known(db, l) : OwnId[l] # None /\ Settle(l, t, db, chunk.written)
    BY <1>8 DEF ByOwnId
  <2>2. ExistsIn(db, t)
    BY <1>2, <2>1 DEF Known, Owners, Existing, ExistsIn, Sound, Pointed
  <2> QED BY <1>4, <2>1, <2>2
<1>9. CASE ByNewId(l)
  <2>1. OwnId[l] \in TmdbIds
    BY <1>9, <1>2 DEF ByNewId
  <2>2. CASE \E t \in Best(db, l) :
               Settle(l, t, [Flush(db, chunk.written) EXCEPT !.aliases[OwnId[l]] = t], Unwritten)
    <3>1. PICK t \in Existing(db) : Settle(l, t, [d EXCEPT !.aliases[OwnId[l]] = t], Unwritten)
        BY <1>3, <1>6, <2>2
    <3>2. PICK e \in Tables : /\ e = [d EXCEPT !.aliases[OwnId[l]] = t]
                             /\ ExistsIn(e, t) /\ Sound(committed, e, Unwritten)
        BY <1>1, <1>3, <1>5, <2>1, AliasedSound
    <3> QED BY <1>1, <3>1, <3>2, SettleSound
  <2>3. CASE SettleNew(l, OwnId[l])
    BY <2>3, <1>1, <1>2, SettleNewSound
  <2> QED BY <1>9, <2>2, <2>3 DEF ByNewId
<1>10. CASE Defer(l)
  <2>1. db' = db /\ chunk'.written = chunk.written
    BY <1>10 DEF Defer, TypeOK, Chunk
  <2> QED BY <2>1
<1>11. CASE ByHit(l)
  <2>1. HitOf[l] \in TmdbIds
    BY <1>11, <1>2 DEF ByHit
  <2>2. CASE \E t \in Owners(db, HitOf[l]) : Settle(l, t, db, chunk.written)
    BY <2>2, <1>4, <1>5 DEF Owners
  <2>3. CASE \E t \in Best(db, l) :
               Settle(l, t, [Flush(db, chunk.written) EXCEPT !.titles[t].tmdb = HitOf[l]], Unwritten)
    <3>1. PICK t \in Existing(db) : Settle(l, t, [d EXCEPT !.titles[t].tmdb = HitOf[l]], Unwritten)
        BY <1>3, <1>6, <2>3
    <3>2. PICK e \in Tables : /\ e = [d EXCEPT !.titles[t].tmdb = HitOf[l]]
                             /\ ExistsIn(e, t) /\ Sound(committed, e, Unwritten)
        BY <1>1, <1>3, <1>5, <2>1, RecordedSound
    <3> QED BY <1>1, <3>1, <3>2, SettleSound
  <2>4. CASE SettleNew(l, HitOf[l])
    BY <2>4, <1>1, <1>2, SettleNewSound
  <2> QED BY <1>11, <2>2, <2>3, <2>4 DEF ByHit
<1>12. CASE ByName(l)
    BY <1>12, <1>4, <1>5, <1>6 DEF ByName
<1>13. CASE ByRuling(l)
  <2>1. PICK r \in Decided(db, l) :
          IF db.reviews[r].ruled = "dismissed"
          THEN chunk' = [chunk EXCEPT !.todo = @ \ {l}] /\ UNCHANGED db
          ELSE Place(l, db.reviews[r].title, db, chunk.written)
    BY <1>13 DEF ByRuling
  <2>2. CASE db.reviews[r].ruled = "dismissed"
    <3>1. db' = db /\ chunk'.written = chunk.written
        BY <2>1, <2>2 DEF TypeOK, Chunk
    <3> QED BY <3>1
  <2>3. CASE db.reviews[r].ruled # "dismissed"
    <3>1. r \in Parks(db) /\ db.reviews[r] \in Review /\ db.reviews[r].ruled # "open"
        BY <1>1, <2>1 DEF Decided, Ruled, Parks, Tables
    <3>2. db.reviews[r].title # None
        BY <2>3, <3>1 DEF Named, Review, Rulings
    <3>3. ExistsIn(db, db.reviews[r].title)
        BY <3>1, <3>2 DEF Sound, Pointed
    <3>4. ~Claimed(db, l, db.reviews[r].title)
        BY <1>13, <2>1, <2>3 DEF TakesNothing, ByRuling
    <3> QED BY <1>1, <2>1, <2>3, <3>3, <3>4, PlaceSound
  <2> QED BY <2>2, <2>3
<1>14. CASE ByNobody(l)
  <2>1. CASE \E t \in NearMisses(db, l) : Park(l, t, db, chunk.written)
    BY <2>1, <1>1, ParkSound DEF NearMisses, Like, Existing
  <2>2. CASE SettleNew(l, None)
    BY <2>2, <1>1, SettleNewSound
  <2> QED BY <1>14, <2>1, <2>2 DEF ByNobody
<1> QED BY <1>7, <1>8, <1>9, <1>10, <1>11, <1>12, <1>13, <1>14 DEF Match

(* What a ruling writes: an offer with no id on it where there was none,   *)
(* a title that was not there, and the title of the ruling itself.         *)
Adds(d, e, id) ==
    /\ e.aliases = d.aliases
    /\ \A t \in TitleIds : \/ e.titles[t] = d.titles[t]
                           \/ d.titles[t] = None /\ e.titles[t] # None /\ e.titles[t].tmdb = id
    /\ \A t \in TitleIds : \/ e.offers[t] = d.offers[t]
                           \/ /\ d.offers[t] = None \/ d.titles[t] = None
                              /\ e.titles[t] # None /\ e.offers[t] = [ref |-> None]
    /\ \A r \in ReviewIds : \/ e.reviews[r] = d.reviews[r]
                            \/ /\ d.reviews[r] # None
                               /\ \/ e.reviews[r].title \in {None, d.reviews[r].title}
                                  \/ ExistsIn(e, e.reviews[r].title)

LEMMA RuleAdds ==
    ASSUME TypeOK, NEW a \in Admins, Rule(a)
    PROVE  \/ db' = db /\ committed' = committed
           \/ db' = committed' /\ Adds(committed, committed', OwnId[ruling[a].of])
<1>1. PICK r \in ReviewIds, l \in Listings : r = ruling[a].id /\ l = ruling[a].of
    BY DEF TypeOK, Rule
<1>2. CASE UNCHANGED <<db, committed>>
    BY <1>2
<1>3. CASE committed.reviews[r] # None /\ db' = committed'
  <2>1. r \in Parks(committed) /\ committed \in Tables
    BY <1>3 DEF Parks, TypeOK
  <2>2. [ref |-> None] \in Row /\ [ref |-> None] # None
    BY MatchAssumption DEF Row
  <2>3. ASSUME NEW t \in Existing(committed),
               committed' = [Answered(r, "attached", t) EXCEPT
                                !.offers[t] = IF @ = None THEN [ref |-> None] ELSE @]
        PROVE  Adds(committed, committed', OwnId[l])
    <3>1. t \in TitleIds /\ t # None /\ committed.titles[t] # None
        BY MatchAssumption DEF Existing
    <3>2. PICK e \in Tables :
             /\ e = Answered(r, "attached", t) /\ RuledOn(committed, e, r)
             /\ e.titles = committed.titles /\ e.offers = committed.offers
             /\ e.aliases = committed.aliases
             /\ e.reviews[r].title \in {t, committed.reviews[r].title}
        BY <2>1, <3>1, AnsweredRulesOn DEF Rulings, RuledOn
    <3>3. committed' = [e EXCEPT !.offers[t] = IF e.offers[t] = None THEN [ref |-> None] ELSE e.offers[t]]
        BY <2>3, <3>2
    <3>4. /\ committed'.titles = committed.titles /\ committed'.aliases = committed.aliases
          /\ committed'.reviews = e.reviews
          /\ \A u \in TitleIds : committed'.offers[u] =
                IF u = t /\ e.offers[t] = None THEN [ref |-> None] ELSE e.offers[u]
        BY <3>3, <3>2 DEF Tables
    <3>5. \A s \in ReviewIds : \/ committed'.reviews[s] = committed.reviews[s]
                               \/ s = r /\ committed'.reviews[s].title \in {t, committed.reviews[s].title}
        BY <3>2, <3>4 DEF RuledOn
    <3> QED BY <2>1, <3>1, <3>2, <3>4, <3>5 DEF Adds, ExistsIn, Parks
  <2>4. ASSUME Existing(committed) # TitleIds,
               committed' = [Created(Answered(r, "created", Fresh(committed)), NameOf[l], OwnId[l])
                                EXCEPT !.offers[Fresh(committed)] = [ref |-> None]]
        PROVE  Adds(committed, committed', OwnId[l])
    <3>1. PICK t \in TitleIds : t = Fresh(committed) /\ committed.titles[t] = None
        BY <2>1, <2>4, FreshIsNew DEF Existing
    <3>2. t # None
        BY MatchAssumption
    <3>3. PICK e \in Tables :
             /\ e = Answered(r, "created", t) /\ RuledOn(committed, e, r)
             /\ e.titles = committed.titles /\ e.offers = committed.offers
             /\ e.aliases = committed.aliases
             /\ e.reviews[r].title \in {t, committed.reviews[r].title}
        BY <2>1, <3>2, AnsweredRulesOn DEF Rulings, RuledOn
    <3>4. Existing(e) # TitleIds /\ Fresh(e) = t
        BY <2>4, <3>1, <3>3 DEF Existing, Fresh
    <3>5. PICK v \in Title : v = [name |-> NameOf[l], tmdb |-> OwnId[l]] /\ v # None
      <4>1. NameOf[l] \in Names /\ OwnId[l] \in TmdbIds \cup {None}
        BY MatchAssumption DEF Names
      <4>2. [name |-> NameOf[l], tmdb |-> OwnId[l]] \in Title
        BY <4>1 DEF Title
      <4> QED BY <4>2, MatchAssumption
    <3>6. PICK c : c = [e EXCEPT !.titles[t] = v] /\ c = Created(e, NameOf[l], OwnId[l])
        BY <3>4, <3>5 DEF Created
    <3>7. committed' = [c EXCEPT !.offers[t] = [ref |-> None]]
        BY <2>4, <3>1, <3>3, <3>6
    <3>8. /\ c.titles = [e.titles EXCEPT ![t] = v] /\ c.offers = e.offers
          /\ c.aliases = e.aliases /\ c.reviews = e.reviews /\ c \in Tables
        BY <3>6 DEF Tables
    <3>9. /\ committed'.titles = c.titles /\ committed'.aliases = c.aliases
          /\ committed'.reviews = c.reviews
          /\ committed'.offers = [c.offers EXCEPT ![t] = [ref |-> None]]
        BY <3>7, <3>8 DEF Tables
    <3>10. /\ \A u \in TitleIds : committed'.titles[u] = IF u = t THEN v ELSE committed.titles[u]
           /\ \A u \in TitleIds : committed'.offers[u] =
                 IF u = t THEN [ref |-> None] ELSE committed.offers[u]
        BY <3>3, <3>8, <3>9 DEF Tables
    <3>11. \A s \in ReviewIds : \/ committed'.reviews[s] = committed.reviews[s]
                                \/ s = r /\ committed'.reviews[s].title \in {t, committed.reviews[s].title}
        BY <3>3, <3>8, <3>9 DEF RuledOn
    <3>12. v.tmdb = OwnId[l]
        BY <3>5
    <3> QED BY <2>1, <3>1, <3>3, <3>5, <3>8, <3>9, <3>10, <3>11, <3>12 DEF Adds, ExistsIn, Parks
  <2>5. ASSUME committed' = Answered(r, "dismissed", None)
        PROVE  Adds(committed, committed', OwnId[l])
    <3>1. /\ RuledOn(committed, committed', r)
          /\ committed'.titles = committed.titles /\ committed'.offers = committed.offers
          /\ committed'.aliases = committed.aliases
          /\ committed'.reviews[r].title \in {None, committed.reviews[r].title}
        BY <2>1, <2>5, AnsweredRulesOn DEF Rulings
    <3> QED BY <2>1, <3>1 DEF Adds, RuledOn, Parks
  <2>6. \/ \E t \in Existing(committed) :
              committed' = [Answered(r, "attached", t) EXCEPT
                               !.offers[t] = IF @ = None THEN [ref |-> None] ELSE @]
        \/ /\ Existing(committed) # TitleIds
           /\ committed' = [Created(Answered(r, "created", Fresh(committed)), NameOf[l], OwnId[l])
                                EXCEPT !.offers[Fresh(committed)] = [ref |-> None]]
        \/ committed' = Answered(r, "dismissed", None)
    BY <1>1, <1>3 DEF Rule
  <2> QED BY <1>1, <1>3, <2>3, <2>4, <2>5, <2>6
<1> QED BY <1>1, <1>2, <1>3 DEF Rule

RulingsTakeNothing == \A l \in chunk.todo : Unmatched(l) => TakesNothing(db, l)

BindInv ==
    /\ TypeInv /\ Lock
    /\ Sound(committed, db, chunk.written) /\ Pointed(committed, Unwritten)

LEMMA BindInit == Init => BindInv
<1> SUFFICES ASSUME Init PROVE BindInv
    OBVIOUS
<1>1. TypeInv /\ Lock /\ db = committed /\ chunk.written = Unwritten
    BY TypeInit DEF Init, Lock, Between
<1>2. /\ \A t \in TitleIds : db.offers[t] = None
      /\ \A r \in ReviewIds : db.reviews[r] = None
      /\ \A t \in TitleIds : t \in DOMAIN HeldTitles => db.titles[t] \in Title
      /\ \A i \in TmdbIds : db.aliases[i] # None => db.aliases[i] \in DOMAIN HeldTitles
    BY MatchAssumption DEF Init
<1>3. Pointed(db, Unwritten)
    BY <1>2, MatchAssumption DEF Pointed, ExistsIn, Parks, Unwritten
<1>4. Kept(committed, db, Unwritten)
    BY <1>1, <1>2 DEF Kept
<1> QED BY <1>1, <1>3, <1>4 DEF BindInv, Sound

LEMMA BindStep == BindInv /\ RulingsTakeNothing /\ TypeInv' /\ [Next]_vars => BindInv'
<1> SUFFICES ASSUME BindInv, RulingsTakeNothing, TypeInv', [Next]_vars PROVE BindInv'
    OBVIOUS
<1>1. /\ TypeOK /\ Named(db) /\ Lock /\ db \in Tables /\ committed \in Tables
      /\ chunk.written \in Waiting
      /\ Sound(committed, db, chunk.written) /\ Pointed(committed, Unwritten)
    BY DEF BindInv, TypeInv, TypeOK, Chunk, Waiting
<1>2. Lock'
    BY LockStep DEF BindInv
<1> DEFINE Goal == Sound(committed', db', chunk'.written) /\ Pointed(committed', Unwritten)
<1>3. SUFFICES Goal
    BY <1>2, <1>3 DEF BindInv, Sound, Pointed, Kept, ExistsIn, Parks, Unwritten
<1>4. \A c : Pointed(c, Unwritten) => Sound(c, c, Unwritten)
    BY DEF Sound, Kept, Unwritten
<1>5. CASE OfferChunk \/ OfferResolved
  <2>1. db' = db /\ committed' = committed /\ chunk'.written = Unwritten
    BY <1>5 DEF OfferChunk, OfferResolved, Opened, Between
  <2>2. db = committed
    BY <1>1, <1>5 DEF Lock, OfferChunk, OfferResolved
  <2> QED BY <1>1, <1>4, <2>1, <2>2
<1>6. CASE Commit
  <2>1. PICK e \in Tables : e = Flush(db, chunk.written) /\ Sound(committed, e, Unwritten)
    BY <1>1, FlushKeeps, FlushSound
  <2>2. db' = e /\ committed' = e /\ chunk'.written = Unwritten
    BY <1>6, <2>1 DEF Commit, Between
  <2> QED BY <1>4, <2>1, <2>2 DEF Sound
<1>7. CASE Rollback
    BY <1>1, <1>4, <1>7 DEF Rollback, Between
<1>8. ASSUME NEW l \in chunk.todo, Match(l)
      PROVE  Goal
  <2>1. committed' = committed /\ (Unmatched(l) => TakesNothing(db, l))
    BY <1>8 DEF Match, RulingsTakeNothing
  <2> QED BY <1>1, <1>8, <2>1, MatchSound
<1>9. ASSUME NEW a \in Admins, OpenReview(a)
      PROVE  Goal
    BY <1>1, <1>9 DEF OpenReview
<1>10. ASSUME NEW a \in Admins, Rule(a)
       PROVE  Goal
  <2>1. chunk' = chunk /\ db = committed
    BY <1>1, <1>10 DEF Rule, Lock
  <2>2. CASE db' = db /\ committed' = committed
    BY <1>1, <2>1, <2>2
  <2>3. CASE db' = committed' /\ Adds(committed, committed', OwnId[ruling[a].of])
    <3>1. [ref |-> None] # None /\ [ref |-> None].ref = None
        BY MatchAssumption DEF Row
    <3>2. \A t : ExistsIn(committed, t) => ExistsIn(committed', t)
        BY <2>3 DEF Adds, ExistsIn
    <3>3. \A t \in TitleIds : committed'.offers[t] # None => ExistsIn(committed', t)
        BY <1>1, <2>3, <3>2 DEF Adds, Pointed, ExistsIn
    <3>4. \A i \in TmdbIds : committed'.aliases[i] # None => ExistsIn(committed', committed'.aliases[i])
        BY <1>1, <2>3, <3>2 DEF Adds, Pointed
    <3>5. ASSUME NEW r \in Parks(committed'), committed'.reviews[r].title # None
          PROVE  ExistsIn(committed', committed'.reviews[r].title)
        BY <1>1, <2>3, <3>2, <3>5 DEF Adds, Pointed, Parks
    <3>6. \A t \in TitleIds : Unwritten[t] = None
        BY DEF Unwritten
    <3>7. Pointed(committed', Unwritten) /\ Pointed(db', chunk'.written)
        BY <1>1, <2>1, <2>3, <3>2, <3>3, <3>4, <3>5, <3>6 DEF Pointed, Sound
    <3>8. Kept(committed', db', chunk'.written)
      <4>1. ASSUME NEW t \in TitleIds, committed'.offers[t] # None, committed'.offers[t].ref # None
            PROVE  committed'.offers[t] = committed.offers[t]
        BY <2>3, <3>1, <4>1 DEF Adds
      <4> QED BY <1>1, <2>1, <2>3, <4>1 DEF Kept, Sound
    <3> QED BY <3>7, <3>8 DEF Sound
  <2> QED BY <1>1, <1>10, <2>2, <2>3, RuleAdds
<1>11. CASE UNCHANGED vars
    BY <1>1, <1>11 DEF vars
<1> QED BY <1>5, <1>6, <1>7, <1>8, <1>9, <1>10, <1>11 DEF Next

LEMMA BoundStaysBound ==
    ASSUME BindInv, [Next]_vars, NEW t \in TitleIds,
           committed.offers[t] # None, committed.offers[t].ref # None
    PROVE  committed'.offers[t].ref = committed.offers[t].ref
<1>1. /\ TypeOK /\ Kept(committed, db, chunk.written)
      /\ Pointed(committed, Unwritten) /\ db \in Tables /\ chunk.written \in Waiting
    BY DEF BindInv, TypeInv, TypeOK, Sound, Chunk, Waiting
<1>2. CASE Commit
  <2>1. committed'.offers[t] = IF chunk.written[t] # None THEN chunk.written[t] ELSE db.offers[t]
    BY <1>1, <1>2 DEF Commit, Flush, Tables
  <2> QED BY <1>1, <2>1 DEF Kept
<1>3. ASSUME NEW a \in Admins, Rule(a)
      PROVE  committed'.offers[t].ref = committed.offers[t].ref
    BY <1>1, <1>3, RuleAdds DEF Adds, Pointed, ExistsIn
<1>4. CASE \/ OfferChunk \/ OfferResolved \/ Rollback \/ UNCHANGED vars
           \/ \E l \in chunk.todo : Match(l)
           \/ \E a \in Admins : OpenReview(a)
    BY <1>4 DEF OfferChunk, OfferResolved, Rollback, vars, Match, OpenReview
<1> QED BY <1>2, <1>3, <1>4 DEF Next

(* A bound listing stays bound, whatever is offered and in whatever order, *)
(* unless a reviewer's ruling gives its title to another listing of the    *)
(* source: the one write the matcher does not ask _claimed_by_another_     *)
(* listing about (match.py:564-577, 584-587).                              *)
THEOREM BindingsAreKept == Spec /\ []RulingsTakeNothing => BindingsStick
<1>1. BindInv /\ RulingsTakeNothing /\ [Next]_vars => BindInv'
    BY TypeStep, BindStep DEF BindInv
<1>2. BindInv /\ [Next]_vars
      => [\A t \in TitleIds :
            committed.offers[t] # None /\ committed.offers[t].ref # None
            => committed'.offers[t].ref = committed.offers[t].ref]_vars
    BY BoundStaysBound
<1> QED BY <1>1, <1>2, BindInit, PTL DEF Spec, BindingsStick

-----------------------------------------------------------------------------
(* Aliases.                                                                *)
Merged(d, i) == d.aliases[i] # None => Owners(d, i) \subseteq {d.aliases[i]}

(* What matching a listing does to the titles' ids and their aliases.      *)
Aliased(d, e, l) ==
    /\ OwnId[l] \in TmdbIds /\ Owners(d, OwnId[l]) = {} /\ e.titles = d.titles
    /\ \E t \in TitleIds : e.aliases = [d.aliases EXCEPT ![OwnId[l]] = t]

Recorded(d, e, id) ==
    /\ e.aliases = d.aliases
    /\ \E t \in TitleIds, v \in Title : v.tmdb = id /\ e.titles = [d.titles EXCEPT ![t] = v]

LEMMA MatchTitles ==
    ASSUME TypeOK, Named(db), NEW l \in chunk.todo, Match(l)
    PROVE  \/ SameTitles(db, db')
           \/ Aliased(db, db', l)
           \/ \E id \in {None, OwnId[l], HitOf[l]} :
                /\ id # None => db.aliases[id] = None \/ (id = HitOf[l] /\ ByHit(l))
                /\ Recorded(db, db', id)
<1>1. /\ l \in Listings /\ db \in Tables
      /\ chunk.written \in Waiting /\ Unwritten \in Waiting
    BY DEF TypeOK, Chunk, Waiting, Unwritten
<1>2. OwnId[l] \in TmdbIds \cup {None} /\ HitOf[l] \in TmdbIds \cup {None}
    BY <1>1, MatchAssumption
<1>3. PICK d \in Tables : d = Flush(db, chunk.written) /\ SameTitles(db, d)
    BY <1>1, FlushKeeps DEF SameTitles
<1>4. \A t, e, w : e \in Tables /\ w \in Waiting /\ Settle(l, t, e, w) => SameTitles(e, db')
    BY <1>1, SettleSameTitles DEF Settle
<1>5. ASSUME NEW id \in TmdbIds \cup {None}, SettleNew(l, id)
      PROVE  Recorded(db, db', id)
  <2>1. PICK f \in TitleIds :
          /\ db'.aliases = db.aliases
          /\ db'.titles = [db.titles EXCEPT ![f] = [name |-> NameOf[l], tmdb |-> id]]
    BY <1>1, <1>5, SettleNewTitles
  <2>2. [name |-> NameOf[l], tmdb |-> id] \in Title
    BY <1>1 DEF Title, Names
  <2>3. [name |-> NameOf[l], tmdb |-> id].tmdb = id
    OBVIOUS
  <2> QED BY <2>1, <2>2, <2>3 DEF Recorded
<1>6. Best(db, l) \in SUBSET Existing(db)
    BY DEF Best, Like
<1>7. CASE ByRef(l) \/ ByOwnId(l) \/ ByName(l)
  <2>1. \/ \E t : Settle(l, t, db, chunk.written)
        \/ \E t : Place(l, t, db, chunk.written)
    BY <1>7 DEF ByRef, ByOwnId, ByName
  <2> QED BY <1>1, <1>4, <2>1, SettleSameTitles
<1>8. CASE ByNewId(l)
  <2>1. OwnId[l] \in TmdbIds /\ Owners(db, OwnId[l]) = {} /\ db.aliases[OwnId[l]] = None
    BY <1>8, <1>2 DEF ByNewId, Known
  <2>2. CASE \E t \in Best(db, l) :
               Settle(l, t, [Flush(db, chunk.written) EXCEPT !.aliases[OwnId[l]] = t], Unwritten)
    <3>1. PICK t \in TitleIds : Settle(l, t, [d EXCEPT !.aliases[OwnId[l]] = t], Unwritten)
        BY <1>3, <1>6, <2>2 DEF Existing
    <3>2. PICK e : e = [d EXCEPT !.aliases[OwnId[l]] = t]
        OBVIOUS
    <3>3. /\ e \in Tables /\ e.titles = d.titles
          /\ e.aliases = [d.aliases EXCEPT ![OwnId[l]] = t]
        BY <2>1, <3>2 DEF Tables
    <3>4. SameTitles(e, db')
        BY <1>1, <1>4, <3>1, <3>2, <3>3
    <3> QED BY <1>3, <2>1, <3>3, <3>4 DEF SameTitles, Aliased
  <2>3. CASE SettleNew(l, OwnId[l])
    BY <1>2, <1>5, <2>1, <2>3
  <2> QED BY <1>8, <2>2, <2>3 DEF ByNewId
<1>9. CASE Defer(l)
    BY <1>9 DEF Defer, SameTitles
<1>10. CASE ByHit(l)
  <2>1. HitOf[l] \in TmdbIds /\ OwnId[l] = None
    BY <1>10, <1>2 DEF ByHit, Asked
  <2>2. CASE \E t \in Owners(db, HitOf[l]) : Settle(l, t, db, chunk.written)
    BY <2>2, <1>1, <1>4
  <2>3. CASE \E t \in Best(db, l) :
               Settle(l, t, [Flush(db, chunk.written) EXCEPT !.titles[t].tmdb = HitOf[l]], Unwritten)
    <3>1. PICK t \in Existing(db) : Settle(l, t, [d EXCEPT !.titles[t].tmdb = HitOf[l]], Unwritten)
        BY <1>3, <1>6, <2>3
    <3>2. d.titles[t] \in Title /\ t \in TitleIds
        BY <1>1, <1>3, <3>1 DEF Existing, SameTitles, Tables
    <3>3. PICK v \in Title : v = [d.titles[t] EXCEPT !.tmdb = HitOf[l]] /\ v.tmdb = HitOf[l]
      <4>1. /\ [d.titles[t] EXCEPT !.tmdb = HitOf[l]] \in Title
            /\ [d.titles[t] EXCEPT !.tmdb = HitOf[l]].tmdb = HitOf[l]
        BY <2>1, <3>2 DEF Title
      <4> QED BY <4>1
    <3>4. PICK e : e = [d EXCEPT !.titles[t] = v]
        OBVIOUS
    <3>5. e = [d EXCEPT !.titles[t].tmdb = HitOf[l]]
        BY <3>3, <3>4
    <3>6. e \in Tables /\ e.aliases = d.aliases /\ e.titles = [d.titles EXCEPT ![t] = v]
        BY <3>2, <3>4 DEF Tables
    <3>7. SameTitles(e, db')
        BY <1>1, <1>4, <3>1, <3>5, <3>6
    <3>8. db'.aliases = db.aliases /\ db'.titles = [db.titles EXCEPT ![t] = v]
        BY <1>3, <3>6, <3>7 DEF SameTitles
    <3>9. Recorded(db, db', HitOf[l])
        BY <3>2, <3>3, <3>8 DEF Recorded
    <3> QED BY <1>10, <2>1, <3>9
  <2>4. CASE SettleNew(l, HitOf[l])
    BY <1>2, <1>5, <1>10, <2>1, <2>4
  <2> QED BY <1>10, <2>2, <2>3, <2>4 DEF ByHit
<1>11. CASE ByRuling(l)
  <2>1. db' = db \/ \E t : Place(l, t, db, chunk.written)
    BY <1>11 DEF ByRuling
  <2> QED BY <1>1, <2>1, SettleSameTitles DEF SameTitles
<1>12. CASE ByNobody(l)
  <2>1. (\E t : Park(l, t, db, chunk.written)) \/ SettleNew(l, None)
    BY <1>12 DEF ByNobody
  <2> QED BY <1>1, <1>5, <2>1, SettleSameTitles
<1> QED BY <1>7, <1>8, <1>9, <1>10, <1>11, <1>12 DEF Match

LEMMA SameStaysMerged ==
    ASSUME NEW d, NEW e, NEW i, SameTitles(d, e), Merged(d, i)
    PROVE  Merged(e, i)
BY DEF SameTitles, Merged, Owners, Existing

LEMMA AliasedStaysMerged ==
    ASSUME NEW d \in Tables, NEW e, NEW l, NEW i \in TmdbIds, Aliased(d, e, l), Merged(d, i)
    PROVE  Merged(e, i)
<1>1. Owners(e, i) = Owners(d, i) /\ (i # OwnId[l] => e.aliases[i] = d.aliases[i])
    BY DEF Aliased, Owners, Existing, Tables
<1> QED BY <1>1 DEF Merged, Aliased

LEMMA RecordedStaysMerged ==
    ASSUME NEW d \in Tables, NEW e, NEW id, NEW i \in TmdbIds, Recorded(d, e, id), Merged(d, i),
           id = i => d.aliases[i] = None
    PROVE  Merged(e, i)
<1>1. PICK t \in TitleIds, v \in Title : v.tmdb = id /\ e.titles = [d.titles EXCEPT ![t] = v]
    BY DEF Recorded
<1>2. i # id => Owners(e, i) \subseteq Owners(d, i)
    BY <1>1 DEF Owners, Existing, Tables
<1> QED BY <1>2 DEF Merged, Recorded

(* The two places that do not look among the aliases: TMDB's search, which *)
(* settles on record i, and a reviewer's answer on a listing that has it.  *)
Unlooked(i) ==
    \/ \E l \in chunk.todo : Match(l) /\ ByHit(l) /\ HitOf[l] = i
    \/ \E a \in Admins : ruling[a] # None /\ OwnId[ruling[a].of] = i /\ Rule(a)

LEMMA MergeStep ==
    ASSUME TypeInv, Lock, [Next]_vars, NEW i \in TmdbIds,
           Merged(db, i), Merged(committed, i), ~Unlooked(i)
    PROVE  Merged(db', i) /\ Merged(committed', i)
<1>1. /\ TypeOK /\ Named(db) /\ Lock /\ db \in Tables /\ committed \in Tables
      /\ chunk.written \in Waiting
    BY DEF TypeInv, TypeOK, Chunk, Waiting
<1>2. i # None
    BY MatchAssumption
<1>3. ASSUME NEW l \in chunk.todo, Match(l)
      PROVE  Merged(db', i) /\ Merged(committed', i)
  <2>1. committed' = committed
    BY <1>3 DEF Match
  <2>2. ASSUME NEW id \in {None, OwnId[l], HitOf[l]}, Recorded(db, db', id),
               id # None => db.aliases[id] = None \/ (id = HitOf[l] /\ ByHit(l))
        PROVE  Merged(db', i)
    <3>1. id = i => db.aliases[i] = None
        BY <1>2, <1>3, <2>2 DEF Unlooked
    <3> QED BY <1>1, <2>2, <3>1, RecordedStaysMerged
  <2> QED BY <1>1, <1>3, <2>1, <2>2, MatchTitles, SameStaysMerged, AliasedStaysMerged
<1>4. ASSUME NEW a \in Admins, Rule(a)
      PROVE  Merged(db', i) /\ Merged(committed', i)
  <2>1. ruling[a] # None /\ i # OwnId[ruling[a].of]
    BY <1>4 DEF Unlooked, Rule
  <2>2. CASE db' = committed' /\ Adds(committed, committed', OwnId[ruling[a].of])
    <3>1. Owners(committed', i) \subseteq Owners(committed, i)
        BY <2>1, <2>2 DEF Adds, Owners, Existing
    <3> QED BY <2>2, <3>1 DEF Merged, Adds
  <2> QED BY <1>1, <1>4, <2>2, RuleAdds
<1>5. CASE Commit
  <2>1. SameTitles(db, db') /\ committed' = db'
    BY <1>1, <1>5, FlushKeeps DEF Commit, SameTitles
  <2> QED BY <2>1, SameStaysMerged
<1>6. CASE \/ OfferChunk \/ OfferResolved \/ Rollback \/ UNCHANGED vars
           \/ \E a \in Admins : OpenReview(a)
    BY <1>6 DEF OfferChunk, OfferResolved, Rollback, vars, OpenReview
<1> QED BY <1>3, <1>4, <1>5, <1>6 DEF Next

(* A record known for a second of a title held does not become a title of  *)
(* its own again, for what the chunk reads or for what everybody does, in  *)
(* any step but two: TMDB's search settling on that very record, and a     *)
(* reviewer's answer on a listing that carries it - the places that do not *)
(* look among the aliases (match.py:693-703, 749-757, reviews.py:129-174). *)
THEOREM AliasesYieldToTheUnlooked ==
    Spec => [][\A i \in TmdbIds :
                  Merged(db, i) /\ Merged(committed, i) /\ ~Unlooked(i)
                  => Merged(db', i) /\ Merged(committed', i)]_vars
<1>1. TypeInv /\ Lock /\ [Next]_vars
      => [\A i \in TmdbIds :
             Merged(db, i) /\ Merged(committed, i) /\ ~Unlooked(i)
             => Merged(db', i) /\ Merged(committed', i)]_vars
    BY MergeStep
<1>2. Init => TypeInv /\ Lock
    BY QueueInit DEF QueueInv
<1>3. TypeInv /\ Lock /\ [Next]_vars => TypeInv' /\ Lock'
    BY TypeStep, LockStep
<1> QED BY <1>1, <1>2, <1>3, PTL DEF Spec

=============================================================================
