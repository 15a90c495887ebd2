---------------------------- MODULE AccessProofs ----------------------------
(* Theorems about Access, for every set of accounts, apps and requests.    *)
EXTENDS Access, TLAPS

-----------------------------------------------------------------------------
(* Types.  A request that is not idle has an account, and from its lookup  *)
(* on the secret it looked up; what an app holds names the app.            *)
Proper(r) ==
    /\ ~At(r, "idle") => served[r].owner \in Accounts
    /\ served[r].pc \notin {"idle", "admitted"} => served[r].key \in 1 .. handed
    /\ served[r].pc \in {"code", "refresh"} => served[r].app \in Apps
    /\ At(r, "refresh") /\ Stands(served[r].key) => rows[served[r].key].kind = "refresh"
AllProper == \A r \in Requests : Proper(r)

Labelled == \A k \in Keys :
    Stands(k) /\ rows[k].kind \in {"access", "refresh", "code"} => rows[k].app \in Apps

TypeInv == TypeOK /\ AllProper /\ Labelled

LEMMA TypeInit == AccessAssumption /\ Init => TypeInv
  <1> SUFFICES ASSUME AccessAssumption, Init PROVE TypeInv
    OBVIOUS
  <1>1. served \in [Requests -> Request] /\ \A r \in Requests : served[r].pc = "idle"
    BY DEF Init, Idle, Request
  <1>2. rows \in [Keys -> Row \cup {None}] /\ \A k \in Keys : ~Stands(k)
    BY DEF Init, Stands
  <1>3. TypeOK
    BY <1>1, <1>2 DEF Init, TypeOK, AccessAssumption, Stands
  <1>4. QED
    BY <1>1, <1>2, <1>3 DEF TypeInv, AllProper, Proper, Labelled, At

(* What a step may do to a row: leave it, delete it, age it or note that   *)
(* it was traded in.                                                       *)
Carried(k) ==
    /\ Stands(k) /\ rows'[k] \in Row
    /\ rows'[k].kind = rows[k].kind /\ rows'[k].owner = rows[k].owner
    /\ rows'[k].app = rows[k].app /\ rows'[k].raced = rows[k].raced
    /\ rows[k].used => rows'[k].used

(* Or make one, for a request that may have it.                            *)
Made(k, r) ==
    /\ k \in handed + 1 .. handed' /\ rows'[k] \in Row /\ ~rows'[k].used
    /\ rows'[k].owner = served[r].owner /\ rows'[k].owner \in accounts'
    /\ \/ At(r, "admitted") /\ rows'[k].kind = "session" /\ rows'[k].app = None
          /\ rows'[k].raced = served[r].raced
       \/ At(r, "counted") /\ rows'[k].kind = "personal" /\ rows'[k].app = None
          /\ rows'[k].raced = served[r].raced
       \/ At(r, "in") /\ rows'[k].kind = "code" /\ rows'[k].app \in Apps
          /\ <<rows'[k].owner, rows'[k].app>> \in connected'
       \/ served[r].pc \in {"code", "refresh"} /\ rows'[k].kind \in {"access", "refresh"}
          /\ rows'[k].app = served[r].app /\ rows'[k].raced = served[r].raced
          /\ MaySignIn(served[r].owner)

(* Where a request goes: it ends, stays what it is (overtaken, perhaps),   *)
(* or arrives with what it looked up.                                      *)
Stayed(r) ==
    /\ ~At(r, "idle")
    /\ <<served[r].pc, served'[r].pc>> \in
          {<<pc, pc>> : pc \in {"admitted", "renewing", "in", "counted", "code", "refresh"}}
             \cup {<<"renewing", "in">>, <<"in", "counted">>}
    /\ served'[r].owner = served[r].owner /\ served'[r].key = served[r].key
    /\ served'[r].app = served[r].app
    /\ served[r].raced => served'[r].raced

LookedUp(r, k) ==
    /\ Stands(k) /\ k <= handed /\ served'[r].key = k /\ served'[r].owner = rows[k].owner
    /\ served'[r].raced = rows[k].raced
    /\ \/ served'[r].pc \in {"renewing", "in"} /\ rows[k].kind = "session"
       \/ /\ served'[r].pc \in {"code", "refresh"} /\ rows[k].kind = served'[r].pc
          /\ served'[r].app = rows[k].app /\ (served'[r].pc = "refresh" => ~rows[k].used)

Arrived(r) ==
    /\ At(r, "idle")
    /\ \/ /\ served'[r].pc = "admitted" /\ served'[r].owner \in Accounts /\ MaySignIn(served'[r].owner)
       \/ \E k \in Keys : LookedUp(r, k)

Shape ==
    /\ handed' \in handed .. MaxKeys
    /\ \A k \in Keys : rows'[k] = None \/ Carried(k) \/ \E r \in Requests : Made(k, r)
    /\ \A r \in Requests : served'[r].pc = "idle" \/ Stayed(r) \/ Arrived(r)

Typed ==
    /\ members' \subseteq Addresses /\ accounts' \subseteq Accounts
    /\ apps' \in [Apps -> {"none", "new", "stale", "used"}]
    /\ rows' \in [Keys -> Row \cup {None}] /\ turns' \in 0 .. MaxTurns
    /\ \A k \in Keys : Carried(k) => rows'[k].owner \in accounts' \/ rows'[k] = None
    /\ served' \in [Requests -> Request]
    /\ connected' \subseteq Accounts \X Apps
    /\ traded' \subseteq 1 .. handed'

Sound == Shape /\ Typed

LEMMA SoundType == ASSUME AccessAssumption, TypeInv, Sound PROVE TypeInv'
  <1>1. handed \in Nat /\ MaxKeys \in Nat /\ handed' \in 0 .. MaxKeys /\ 1 .. handed \subseteq 1 .. handed'
    BY DEF TypeInv, TypeOK, Sound, Shape, AccessAssumption
  <1>2. \A k \in Keys : rows'[k] # None => k <= handed' /\ rows'[k].owner \in accounts'
    <2>1. ASSUME NEW k \in Keys, rows'[k] # None PROVE k <= handed' /\ rows'[k].owner \in accounts'
      <3>1. CASE Carried(k)
        <4>1. k <= handed /\ k \in Nat
          BY <3>1 DEF Carried, Stands, TypeInv, TypeOK, Keys
        <4>2. QED
          BY <1>1, <2>1, <3>1, <4>1 DEF Sound, Typed
      <3>2. CASE \E r \in Requests : Made(k, r)
        BY <1>1, <3>2 DEF Made
      <3>3. QED
        BY <2>1, <3>1, <3>2 DEF Sound, Shape
    <2>2. QED
      BY <2>1
  <1>3. TypeOK'
    BY <1>1, <1>2 DEF TypeOK, Sound, Typed
  <1>7. \A k \in 1 .. handed : k \in Keys /\ (Stands(k)' => Stands(k) /\ rows'[k].kind = rows[k].kind)
    <2>1. ASSUME NEW k \in 1 .. handed PROVE k \in Keys /\ (Stands(k)' => Stands(k) /\ rows'[k].kind = rows[k].kind)
      <3>1. k \in Keys /\ k \notin handed + 1 .. handed'
        BY <1>1 DEF Keys, TypeInv, TypeOK
      <3>2. rows'[k] = None \/ Carried(k)
        BY <3>1 DEF Sound, Shape, Made
      <3>3. QED
        BY <3>1, <3>2 DEF Carried, Stands
    <2>2. QED
      BY <2>1
  <1>4. AllProper'
    <2>1. ASSUME NEW r \in Requests PROVE Proper(r)'
      <3>1. CASE served'[r].pc = "idle"
        BY <3>1 DEF Proper, At
      <3>2. CASE Stayed(r)
        BY <1>1, <1>7, <3>2 DEF Stayed, Proper, At, TypeInv, AllProper
      <3>3. CASE Arrived(r)
        <4>1. CASE served'[r].pc = "admitted" /\ served'[r].owner \in Accounts
          BY <4>1 DEF Proper, At
        <4>2. CASE \E k \in Keys : LookedUp(r, k)
          <5>1. PICK k \in Keys : LookedUp(r, k)
            BY <4>2
          <5>2. k \in 1 .. handed /\ rows[k] \in Row /\ rows[k].owner \in Accounts
                /\ (rows[k].kind \in {"code", "refresh"} => rows[k].app \in Apps)
            BY <5>1 DEF LookedUp, TypeInv, TypeOK, Labelled, Stands, Keys, Row
          <5>3. QED
            BY <1>1, <1>7, <5>1, <5>2 DEF LookedUp, Proper, At
        <4>3. QED
          BY <3>3, <4>1, <4>2 DEF Arrived
      <3>4. QED
        BY <3>1, <3>2, <3>3 DEF Sound, Shape
    <2>2. QED
      BY <2>1 DEF AllProper
  <1>5. Labelled'
    <2>1. ASSUME NEW k \in Keys, Stands(k)', rows'[k].kind \in {"access", "refresh", "code"}
          PROVE  rows'[k].app \in Apps
      <3>1. CASE Carried(k)
        BY <2>1, <3>1 DEF Carried, TypeInv, Labelled
      <3>2. CASE \E r \in Requests : Made(k, r)
        BY <2>1, <3>2 DEF Made, TypeInv, AllProper, Proper
      <3>3. QED
        BY <2>1, <3>1, <3>2 DEF Sound, Shape, Stands
    <2>2. QED
      BY <2>1 DEF Labelled
  <1>6. QED
    BY <1>3, <1>4, <1>5 DEF TypeInv

-----------------------------------------------------------------------------
(* What requests do, as Shape has it.                                      *)
LEMMA AllIdleOrStay ==
    ASSUME TypeInv, UNCHANGED served
    PROVE  served' \in [Requests -> Request] /\ \A r \in Requests : served'[r].pc = "idle" \/ Stayed(r)
  <1>1. served \in [Requests -> Request]
    BY DEF TypeInv, TypeOK
  <1>2. ASSUME NEW r \in Requests PROVE served'[r].pc = "idle" \/ Stayed(r)
    <2>1. served[r].pc \in {"idle", "admitted", "renewing", "in", "counted", "code", "refresh"}
      BY <1>1 DEF Request
    <2>2. QED
      BY <2>1 DEF Stayed, At
  <1>3. QED
    BY <1>1, <1>2

(* One request goes on, the others stay.                                   *)
LEMMA OneGoes ==
    ASSUME TypeInv, NEW r \in Requests, NEW next \in Request, served' = [served EXCEPT ![r] = next],
           next.pc = "idle" \/ Stayed(r) \/ Arrived(r)
    PROVE  /\ served' \in [Requests -> Request]
           /\ \A o \in Requests : served'[o].pc = "idle" \/ Stayed(o) \/ Arrived(o)
           /\ served'[r] = next
  <1>1. served \in [Requests -> Request]
    BY DEF TypeInv, TypeOK
  <1>2. ASSUME NEW o \in Requests, o # r PROVE served'[o].pc = "idle" \/ Stayed(o)
    <2>1. served'[o] = served[o]
      BY <1>1, <1>2
    <2>2. served[o].pc \in {"idle", "admitted", "renewing", "in", "counted", "code", "refresh"}
      BY <1>1 DEF Request
    <2>3. QED
      BY <2>1, <2>2 DEF Stayed, At
  <1>3. QED
    BY <1>1, <1>2

LEMMA DoneGoes ==
    ASSUME AccessAssumption, TypeInv, NEW r \in Requests, Done(r)
    PROVE  /\ served' \in [Requests -> Request]
           /\ \A o \in Requests : served'[o].pc = "idle" \/ Stayed(o) \/ Arrived(o)
           /\ \A o \in Requests : o # r => served'[o] = served[o]
  <1>1. Idle \in Request /\ Idle.pc = "idle"
    BY DEF Idle, Request
  <1>2. QED
    BY <1>1, OneGoes DEF Done, TypeInv, TypeOK

(* Those a commit overtakes know it, and nobody else does anything.        *)
LEMMA OverGoes ==
    ASSUME AccessAssumption, TypeInv, NEW r \in Requests, NEW over, DoneOver(r, over)
    PROVE  /\ served' \in [Requests -> Request]
           /\ \A o \in Requests : served'[o].pc = "idle" \/ Stayed(o)
           /\ \A o \in over \cap Requests : served'[o].pc = "idle" \/ served'[o].raced
  <1>1. served \in [Requests -> Request] /\ Idle \in Request /\ Idle.pc = "idle"
    BY DEF TypeInv, TypeOK, Idle, Request
  <1>2. \A o \in Requests : served'[o] =
           IF o = r THEN Idle
           ELSE IF ~At(o, "idle") /\ o \in over THEN [served[o] EXCEPT !.raced = TRUE] ELSE served[o]
    BY DEF DoneOver
  <1>3. \A o \in Requests : [served[o] EXCEPT !.raced = TRUE] \in Request
    BY <1>1 DEF Request
  <1>4. served' \in [Requests -> Request]
    BY <1>1, <1>2, <1>3 DEF DoneOver
  <1>5. ASSUME NEW o \in Requests PROVE served'[o].pc = "idle" \/ Stayed(o)
    <2>1. served[o].pc \in {"idle", "admitted", "renewing", "in", "counted", "code", "refresh"}
      BY <1>1 DEF Request
    <2>2. QED
      BY <1>1, <1>2, <2>1 DEF Stayed, At, Request
  <1>6. ASSUME NEW o \in over \cap Requests PROVE served'[o].pc = "idle" \/ served'[o].raced
    BY <1>1, <1>2, <1>6 DEF At, Request
  <1>7. QED
    BY <1>4, <1>5, <1>6

-----------------------------------------------------------------------------
(* What the table may do, as Shape has it.                                 *)
RowsSound ==
    /\ rows' \in [Keys -> Row \cup {None}] /\ handed' \in handed .. MaxKeys
    /\ \A k \in Keys : rows'[k] = None \/ Carried(k) \/ \E r \in Requests : Made(k, r)

LEMMA RowsStand ==
    ASSUME AccessAssumption, TypeInv, UNCHANGED <<rows, handed>> PROVE RowsSound
  <1>1. \A k \in Keys : rows[k] = None \/ Carried(k)
    BY DEF Carried, Stands, TypeInv, TypeOK
  <1>2. handed \in handed .. MaxKeys
    BY DEF TypeInv, TypeOK, AccessAssumption
  <1>3. QED
    BY <1>1, <1>2 DEF RowsSound, TypeInv, TypeOK

LEMMA RowsGo ==
    ASSUME AccessAssumption, TypeInv, NEW K, rows' = Without(K), UNCHANGED handed
    PROVE  RowsSound /\ \A k \in Keys \cap K : rows'[k] = None
  <1>1. rows \in [Keys -> Row \cup {None}] /\ handed \in handed .. MaxKeys
    BY DEF TypeInv, TypeOK, AccessAssumption
  <1>2. \A k \in Keys : rows'[k] = IF k \in K THEN None ELSE rows[k]
    BY DEF Without
  <1>3. rows' \in [Keys -> Row \cup {None}]
    BY <1>1 DEF Without
  <1>4. \A k \in Keys : rows'[k] = None \/ Carried(k)
    BY <1>1, <1>2 DEF Carried, Stands
  <1>5. QED
    BY <1>1, <1>2, <1>3, <1>4 DEF RowsSound

LEMMA RowsGrow ==
    ASSUME AccessAssumption, TypeInv, NEW row \in Row, Hand(row),
           handed' = handed + 1 =>
              (handed + 1 \in Keys /\ rows'[handed + 1] = row
                  => \E r \in Requests : Made(handed + 1, r))
    PROVE  RowsSound
  <1>1. rows \in [Keys -> Row \cup {None}] /\ handed \in Nat /\ MaxKeys \in Nat /\ handed + 1 \in Keys
        /\ handed' = handed + 1 /\ handed' \in handed .. MaxKeys
    BY DEF TypeInv, TypeOK, AccessAssumption, Hand, Keys
  <1>2. rows' \in [Keys -> Row \cup {None}] /\ rows'[handed + 1] = row
    BY <1>1 DEF Hand
  <1>3. \A k \in Keys : k # handed + 1 => rows'[k] = None \/ Carried(k)
    BY <1>1 DEF Hand, Carried, Stands
  <1>4. QED
    BY <1>1, <1>2, <1>3 DEF RowsSound

(* The steps that are somebody's, and change nothing else.                 *)
Bounded ==
    /\ members' \subseteq Addresses /\ accounts' \subseteq Accounts
    /\ apps' \in [Apps -> {"none", "new", "stale", "used"}] /\ turns' \in 0 .. MaxTurns
    /\ \A k \in Keys : Carried(k) => rows'[k].owner \in accounts' \/ rows'[k] = None
    /\ connected' \subseteq Accounts \X Apps
    /\ traded' \subseteq 1 .. handed'

RequestsSound ==
    /\ served' \in [Requests -> Request]
    /\ \A r \in Requests : served'[r].pc = "idle" \/ Stayed(r) \/ Arrived(r)

LEMMA SoundParts == RowsSound /\ RequestsSound /\ Bounded => Sound
  BY DEF RowsSound, RequestsSound, Bounded, Sound, Shape, Typed

LEMMA BoundedStill ==
    ASSUME AccessAssumption, TypeInv, UNCHANGED <<members, accounts, connected, traded>>,
           apps' = apps \/ apps' \in [Apps -> {"none", "new", "stale", "used"}],
           turns' = turns \/ Turn, handed' \in handed .. MaxKeys
    PROVE  Bounded
  <1>1. \A k \in Keys : Carried(k) => rows'[k].owner \in accounts
    BY DEF Carried, Stands, TypeInv, TypeOK
  <1>2. turns' \in 0 .. MaxTurns
    BY DEF Turn, TypeInv, TypeOK, AccessAssumption
  <1>3. traded \subseteq 1 .. handed'
    BY DEF TypeInv, TypeOK, AccessAssumption
  <1>4. QED
    BY <1>1, <1>2, <1>3 DEF Bounded, TypeInv, TypeOK

-----------------------------------------------------------------------------
(* What withdraws something tells everybody that relies on it: an address  *)
(* taken off the list, a connection that is ended, a secret that is spent. *)
Heeded ==
    /\ \A a \in Accounts : MaySignIn(a) /\ ~MaySignIn(a)' =>
          /\ \A k \in Keys : Stands(k)' /\ rows'[k].owner = a
                              => rows'[k].kind \notin {"session", "personal", "access"}
          /\ \A r \in Requests : served'[r].owner = a => served'[r].pc = "idle" \/ served'[r].raced
    /\ \A p \in connected : p \notin connected' =>
          /\ \A k \in Keys : Stands(k)' => <<rows'[k].owner, rows'[k].app>> # p
          /\ \A r \in Requests : <<served'[r].owner, served'[r].app>> = p
                                  => served'[r].pc = "idle" \/ served'[r].raced
    /\ \A k \in traded' : k \notin traded =>
          /\ Stands(k)' => rows'[k].kind = "refresh" /\ rows'[k].used
          /\ \A r \in Requests : served'[r].key = k => served'[r].pc = "idle" \/ served'[r].raced

LEMMA NothingWithdrawn ==
    ASSUME UNCHANGED <<members, traded>>, connected \subseteq connected' PROVE Heeded
  BY DEF Heeded, MaySignIn

-----------------------------------------------------------------------------
(* Every step is sound, and heeded.                                        *)
LEMMA SignsInSound ==
    ASSUME AccessAssumption, TypeInv, NEW r \in Requests, NEW a \in Accounts, SignsIn(r, a)
    PROVE  Sound /\ Heeded
  <1> DEFINE next == [Idle EXCEPT !.pc = "admitted", !.owner = a]
  <1>1. next \in Request /\ next.pc = "admitted" /\ next.owner = a
    BY DEF Idle, Request
  <1>2. served'[r] = next
    BY DEF SignsIn, TypeInv, TypeOK
  <1>3. Arrived(r)
    BY <1>1, <1>2 DEF SignsIn, Arrived, At
  <1>4. RequestsSound
    BY <1>1, <1>3, OneGoes DEF SignsIn, RequestsSound
  <1>5. RowsSound /\ Heeded
    BY RowsStand, NothingWithdrawn DEF SignsIn, people, history
  <1>6. Bounded
    BY <1>5, BoundedStill DEF SignsIn, people, history, RowsSound
  <1>7. QED
    BY <1>4, <1>5, <1>6, SoundParts

LEMMA OpensSessionSound ==
    ASSUME AccessAssumption, TypeInv, NEW r \in Requests, OpensSession(r)
    PROVE  Sound /\ Heeded
  <1> DEFINE row == New("session", served[r].owner, None, served[r].raced)
  <1>1. At(r, "admitted") /\ served[r].owner \in Accounts /\ served[r].raced \in BOOLEAN
    BY DEF OpensSession, TypeInv, TypeOK, AllProper, Proper, At, Request
  <1>2. row \in Row /\ ~row.used /\ row.owner = served[r].owner /\ row.kind = "session"
        /\ row.app = None /\ row.raced = served[r].raced
    BY <1>1 DEF New, Row, Kinds
  <1>3. accounts' = accounts \cup {served[r].owner} /\ Hand(row)
        /\ UNCHANGED <<members, apps, connected, traded, turns>>
    BY DEF OpensSession, history
  <1> HIDE DEF row
  <1>4. RowsSound
    <2>1. ASSUME handed' = handed + 1, handed + 1 \in Keys, rows'[handed + 1] = row
          PROVE  Made(handed + 1, r)
      BY <1>1, <1>2, <1>3, <2>1 DEF Made, TypeInv, TypeOK
    <2>2. QED
      BY <1>2, <1>3, <2>1, RowsGrow
  <1>5. RequestsSound
    BY DoneGoes DEF OpensSession, RequestsSound
  <1>6. Bounded
    <2>1. \A k \in Keys : Carried(k) => rows'[k].owner \in accounts
      BY DEF Carried, Stands, TypeInv, TypeOK
    <2>2. traded \subseteq 1 .. handed'
      BY <1>4 DEF RowsSound, TypeInv, TypeOK
    <2>3. QED
      BY <1>1, <1>3, <2>1, <2>2 DEF Bounded, TypeInv, TypeOK
  <1>7. Heeded
    BY <1>3, NothingWithdrawn
  <1>8. QED
    BY <1>4, <1>5, <1>6, <1>7, SoundParts

LEMMA ShowsCookieSound ==
    ASSUME AccessAssumption, TypeInv, NEW r \in Requests, NEW k \in Keys, ShowsCookie(r, k)
    PROVE  Sound /\ Heeded
  <1>1. UNCHANGED <<people, apps, handed, history, turns>> /\ Heeded
    BY NothingWithdrawn DEF ShowsCookie, people, history
  <1>2. RowsSound
    BY RowsStand, RowsGo DEF ShowsCookie
  <1>3. Bounded
    BY <1>1, <1>2, BoundedStill DEF people, history, RowsSound
  <1>4. RequestsSound
    <2>1. CASE UNCHANGED served
      BY <2>1, AllIdleOrStay DEF RequestsSound
    <2>2. CASE rows[k].age # "expired"
      <3> DEFINE next == [Idle EXCEPT !.pc = IF rows[k].age = "due" THEN "renewing" ELSE "in",
                              !.owner = rows[k].owner, !.key = k, !.raced = rows[k].raced]
      <3>1. rows[k] \in Row /\ k <= handed /\ rows[k].kind = "session" /\ At(r, "idle") /\ Stands(k)
        BY DEF ShowsCookie, Is, Stands, TypeInv, TypeOK
      <3>2. next \in Request /\ next.pc \in {"renewing", "in"} /\ next.owner = rows[k].owner
            /\ next.key = k /\ next.raced = rows[k].raced
        BY <3>1 DEF Idle, Request, Row
      <3>3. served' = [served EXCEPT ![r] = next]
        BY <2>2 DEF ShowsCookie
      <3> HIDE DEF next
      <3>4. served'[r] = next
        BY <3>3 DEF TypeInv, TypeOK
      <3>5. Arrived(r)
        BY <3>1, <3>2, <3>4 DEF Arrived, LookedUp
      <3>6. QED
        BY <3>2, <3>3, <3>5, OneGoes DEF RequestsSound
    <2>3. QED
      BY <2>1, <2>2 DEF ShowsCookie
  <1>5. QED
    BY <1>1, <1>2, <1>3, <1>4, SoundParts

LEMMA RenewsSound ==
    ASSUME AccessAssumption, TypeInv, NEW r \in Requests, Renews(r)
    PROVE  Sound /\ Heeded
  <1> DEFINE k == served[r].key
  <1>1. UNCHANGED <<people, apps, handed, history, turns>> /\ Heeded /\ At(r, "renewing")
    BY NothingWithdrawn DEF Renews, people, history
  <1>2. CASE Stands(k)
    <2>1. k \in Keys /\ rows[k] \in Row
      <3>1. k \in 1 .. handed /\ handed \in 0 .. MaxKeys /\ MaxKeys \in Nat
        BY <1>1 DEF TypeInv, TypeOK, AllProper, Proper, At, AccessAssumption
      <3>2. k \in Keys
        BY <3>1 DEF Keys
      <3>3. QED
        BY <1>2, <3>2 DEF TypeInv, TypeOK, Stands
    <2>2. rows' = [rows EXCEPT ![k].age = "fresh"] /\ served' = [served EXCEPT ![r].pc = "in"]
      BY <1>2 DEF Renews
    <2> HIDE DEF k
    <2>3. [rows[k] EXCEPT !.age = "fresh"] \in Row
      BY <2>1 DEF Row
    <2>4. \A j \in Keys : rows'[j] = IF j = k THEN [rows[k] EXCEPT !.age = "fresh"] ELSE rows[j]
      BY <2>1, <2>2 DEF TypeInv, TypeOK
    <2>5. \A j \in Keys : rows'[j] = None \/ Carried(j)
      BY <1>2, <2>1, <2>3, <2>4 DEF Carried, Stands, TypeInv, TypeOK, Row
    <2>6. rows' \in [Keys -> Row \cup {None}]
      BY <2>1, <2>2, <2>3 DEF TypeInv, TypeOK
    <2>7. RowsSound
      BY <1>1, <2>5, <2>6 DEF RowsSound, TypeInv, TypeOK, AccessAssumption
    <2>8. [served[r] EXCEPT !.pc = "in"] \in Request /\ served[r] \in Request
      BY DEF TypeInv, TypeOK, Request
    <2>9. served'[r] = [served[r] EXCEPT !.pc = "in"]
      BY <2>2 DEF TypeInv, TypeOK
    <2>10. Stayed(r)
      BY <1>1, <2>8, <2>9 DEF Stayed, At, Request
    <2>11. RequestsSound
      BY <2>2, <2>8, <2>10, OneGoes DEF RequestsSound
    <2>12. QED
      BY <1>1, <2>7, <2>11, BoundedStill, SoundParts DEF people, history, RowsSound
  <1>3. CASE ~Stands(k)
    <2>1. RowsSound /\ RequestsSound
      BY <1>1, <1>3, RowsStand, DoneGoes DEF Renews, RequestsSound
    <2>2. QED
      BY <1>1, <2>1, BoundedStill, SoundParts DEF people, history, RowsSound
  <1>4. QED
    BY <1>2, <1>3

(* A request that ends, and at most deletes rows.                          *)
LEMMA EndsSound ==
    ASSUME AccessAssumption, TypeInv, NEW r \in Requests, Done(r),
           NEW K, UNCHANGED rows \/ rows' = Without(K), UNCHANGED <<people, apps, handed, history, turns>>
    PROVE  Sound /\ Heeded
  <1>1. RowsSound /\ Heeded /\ RequestsSound
    BY RowsStand, RowsGo, DoneGoes, NothingWithdrawn DEF people, history, RequestsSound
  <1>2. QED
    BY <1>1, BoundedStill, SoundParts DEF people, history, RowsSound

LEMMA CountsTokensSound ==
    ASSUME AccessAssumption, TypeInv, NEW r \in Requests, CountsTokens(r)
    PROVE  Sound /\ Heeded
  <1>1. /\ UNCHANGED <<people, apps, rows, handed, history>> /\ Turn /\ At(r, "in")
        /\ served' = [served EXCEPT ![r].pc = "counted"]
    BY DEF CountsTokens
  <1>2. RowsSound /\ Heeded
    BY <1>1, RowsStand, NothingWithdrawn DEF people, history
  <1>3. [served[r] EXCEPT !.pc = "counted"] \in Request /\ served[r] \in Request
    BY DEF TypeInv, TypeOK, Request
  <1>4. served'[r] = [served[r] EXCEPT !.pc = "counted"]
    BY <1>1 DEF TypeInv, TypeOK
  <1>5. Stayed(r)
    BY <1>1, <1>3, <1>4 DEF Stayed, At, Request
  <1>6. RequestsSound
    BY <1>1, <1>3, <1>5, OneGoes DEF RequestsSound
  <1>7. QED
    BY <1>1, <1>2, <1>6, BoundedStill, SoundParts DEF people, history, RowsSound

LEMMA MakesTokenSound ==
    ASSUME AccessAssumption, TypeInv, NEW r \in Requests, MakesToken(r)
    PROVE  Sound /\ Heeded
  <1> DEFINE row == New("personal", served[r].owner, None, served[r].raced)
  <1>1. At(r, "counted") /\ served[r].owner \in Accounts /\ served[r].raced \in BOOLEAN
        /\ UNCHANGED <<people, apps, history, turns>> /\ Done(r)
    BY DEF MakesToken, TypeInv, TypeOK, AllProper, Proper, At, Request
  <1>2. row \in Row /\ ~row.used /\ row.owner = served[r].owner /\ row.kind = "personal"
        /\ row.app = None /\ row.raced = served[r].raced
    BY <1>1 DEF New, Row, Kinds
  <1>3. \/ served[r].owner \in accounts /\ Hand(row)
        \/ UNCHANGED <<rows, handed>>
    BY DEF MakesToken
  <1> HIDE DEF row
  <1>4. RowsSound
    <2>1. ASSUME served[r].owner \in accounts, handed' = handed + 1, handed + 1 \in Keys, rows'[handed + 1] = row
          PROVE  Made(handed + 1, r)
      BY <1>1, <1>2, <2>1 DEF Made, TypeInv, TypeOK, people
    <2>2. QED
      BY <1>2, <1>3, <2>1, RowsGrow, RowsStand
  <1>5. RequestsSound /\ Heeded
    BY <1>1, DoneGoes, NothingWithdrawn DEF RequestsSound, people, history
  <1>6. QED
    BY <1>1, <1>4, <1>5, BoundedStill, SoundParts DEF people, history, RowsSound

LEMMA ApprovesSound ==
    ASSUME AccessAssumption, TypeInv, NEW r \in Requests, NEW c \in Apps, Approves(r, c)
    PROVE  Sound /\ Heeded
  <1> DEFINE row == New("code", served[r].owner, c, FALSE)
  <1>1. /\ At(r, "in") /\ served[r].owner \in accounts /\ served[r].owner \in Accounts /\ Hand(row)
        /\ connected' = connected \cup {<<served[r].owner, c>>} /\ apps' = [apps EXCEPT ![c] = "used"]
        /\ UNCHANGED <<members, accounts, traded>> /\ Turn /\ Done(r)
    BY DEF Approves, TypeInv, TypeOK, people
  <1>2. row \in Row /\ ~row.used /\ row.owner = served[r].owner /\ row.kind = "code" /\ row.app = c
    BY <1>1 DEF New, Row, Kinds
  <1> HIDE DEF row
  <1>3. RowsSound
    <2>1. ASSUME handed' = handed + 1, handed + 1 \in Keys, rows'[handed + 1] = row
          PROVE  Made(handed + 1, r)
      BY <1>1, <1>2, <2>1 DEF Made, TypeInv, TypeOK
    <2>2. QED
      BY <1>1, <1>2, <2>1, RowsGrow
  <1>4. RequestsSound /\ Heeded
    BY <1>1, DoneGoes, NothingWithdrawn DEF RequestsSound
  <1>5. Bounded
    <2>1. \A k \in Keys : Carried(k) => rows'[k].owner \in accounts
      BY DEF Carried, Stands, TypeInv, TypeOK
    <2>2. traded \subseteq 1 .. handed'
      BY <1>3 DEF RowsSound, TypeInv, TypeOK
    <2>3. turns' \in 0 .. MaxTurns
      BY <1>1 DEF Turn, TypeInv, TypeOK, AccessAssumption
    <2>4. QED
      BY <1>1, <2>1, <2>2, <2>3 DEF Bounded, TypeInv, TypeOK
  <1>6. QED
    BY <1>3, <1>4, <1>5, SoundParts

(* A connection is ended, by the member, by the app, or by a secret that   *)
(* comes back.                                                             *)
LEMMA DisconnectedSound ==
    ASSUME AccessAssumption, TypeInv, NEW r \in Requests, NEW a \in Accounts, NEW c, Disconnected(r, a, c)
    PROVE  Sound /\ Heeded
  <1> DEFINE over == {o \in Requests : served[o].owner = a /\ served[o].app = c}
  <1>1. /\ rows' = Without(OfConnection(a, c)) /\ connected' = connected \ {<<a, c>>}
        /\ DoneOver(r, over) /\ UNCHANGED <<members, accounts, apps, handed, traded, turns>>
    BY DEF Disconnected, people
  <1>2. RowsSound /\ \A k \in Keys \cap OfConnection(a, c) : rows'[k] = None
    BY <1>1, RowsGo
  <1>3. /\ RequestsSound /\ \A o \in Requests : served'[o].pc = "idle" \/ Stayed(o)
        /\ \A o \in over : served'[o].pc = "idle" \/ served'[o].raced
    BY <1>1, OverGoes DEF RequestsSound
  <1>4. Bounded
    <2>1. \A k \in Keys : Carried(k) => rows'[k].owner \in accounts
      BY DEF Carried, Stands, TypeInv, TypeOK
    <2>2. QED
      BY <1>1, <2>1 DEF Bounded, TypeInv, TypeOK
  <1>5. Heeded
    <2>1. \A k \in Keys : Stands(k)' => Stands(k) /\ rows'[k].owner = rows[k].owner /\ rows'[k].app = rows[k].app
                                      /\ k \notin OfConnection(a, c)
      BY <1>1, <1>2 DEF Without, Stands
    <2>2. \A k \in Keys : Stands(k)' => <<rows'[k].owner, rows'[k].app>> # <<a, c>>
      BY <2>1 DEF OfConnection
    <2>3. \A o \in Requests : <<served'[o].owner, served'[o].app>> = <<a, c>>
                                => served'[o].pc = "idle" \/ served'[o].raced
      BY <1>3 DEF Stayed
    <2>4. \A p \in connected : p \notin connected' => p = <<a, c>>
      BY <1>1
    <2>5. UNCHANGED <<members, traded>>
      BY <1>1
    <2>6. QED
      BY <2>2, <2>3, <2>4, <2>5 DEF Heeded, MaySignIn
  <1>6. QED
    BY <1>2, <1>3, <1>4, <1>5, SoundParts

LEMMA DeletesAccountSound ==
    ASSUME AccessAssumption, TypeInv, NEW r \in Requests, DeletesAccount(r)
    PROVE  Sound /\ Heeded
  <1> DEFINE a == served[r].owner
             K == {k \in Keys : Stands(k) /\ rows[k].owner = a}
             over == {o \in Requests : served[o].owner = a /\ served[o].app # None}
  <1>1. /\ rows' = Without(K) /\ connected' = {p \in connected : p[1] # a} /\ accounts' = accounts \ {a}
        /\ DoneOver(r, over) /\ UNCHANGED <<members, apps, handed, traded, turns>>
    BY DEF DeletesAccount
  <1>2. RowsSound /\ \A k \in Keys \cap K : rows'[k] = None
    BY <1>1, RowsGo
  <1>3. /\ RequestsSound /\ \A o \in Requests : served'[o].pc = "idle" \/ Stayed(o)
        /\ \A o \in over : served'[o].pc = "idle" \/ served'[o].raced
    BY <1>1, OverGoes DEF RequestsSound
  <1>4. \A k \in Keys : Stands(k)' => Stands(k) /\ rows'[k].owner = rows[k].owner /\ rows[k].owner # a
    BY <1>1, <1>2 DEF Without, Stands
  <1>5. Bounded
    <2>1. \A k \in Keys : Stands(k)' => rows'[k].owner \in accounts'
      BY <1>1, <1>4 DEF Stands, TypeInv, TypeOK
    <2>2. QED
      BY <1>1, <2>1 DEF Bounded, TypeInv, TypeOK, Stands
  <1>6. Heeded
    <2>1. \A p \in connected : p \notin connected' => p \in Accounts \X Apps /\ p[1] = a
      BY <1>1 DEF TypeInv, TypeOK
    <2>2. ASSUME NEW p \in connected, p \notin connected'
          PROVE  /\ \A k \in Keys : Stands(k)' => <<rows'[k].owner, rows'[k].app>> # p
                 /\ \A o \in Requests : <<served'[o].owner, served'[o].app>> = p
                                         => served'[o].pc = "idle" \/ served'[o].raced
      <3>1. PICK c \in Apps : p = <<a, c>>
        BY <2>1, <2>2
      <3>2. c # None
        BY DEF AccessAssumption
      <3>3. QED
        BY <1>3, <1>4, <3>1, <3>2 DEF Stayed
    <2>3. UNCHANGED <<members, traded>>
      BY <1>1
    <2>4. QED
      BY <2>2, <2>3 DEF Heeded, MaySignIn
  <1>7. QED
    BY <1>2, <1>3, <1>5, <1>6, SoundParts

(* An app asks with a code, or with a refresh token nobody has used.       *)
LEMMA ShowsSecretSound ==
    ASSUME AccessAssumption, TypeInv, NEW r \in Requests, NEW k \in Keys, NEW pc \in {"code", "refresh"},
           At(r, "idle"), Is(k, pc), pc = "refresh" => ~rows[k].used,
           served' = [served EXCEPT ![r] =
              [pc |-> pc, owner |-> rows[k].owner, key |-> k, app |-> rows[k].app, raced |-> rows[k].raced]],
           UNCHANGED <<people, apps, rows, handed, history, turns>>
    PROVE  Sound /\ Heeded
  <1> DEFINE next == [pc |-> pc, owner |-> rows[k].owner, key |-> k, app |-> rows[k].app, raced |-> rows[k].raced]
  <1>1. rows[k] \in Row /\ k <= handed /\ rows[k].kind = pc /\ Stands(k)
    BY DEF Is, Stands, TypeInv, TypeOK
  <1>2. next \in Request /\ next.pc = pc /\ next.owner = rows[k].owner
        /\ next.key = k /\ next.app = rows[k].app /\ next.raced = rows[k].raced
    BY <1>1 DEF Request, Row
  <1> HIDE DEF next
  <1>3. served' = [served EXCEPT ![r] = next]
    BY DEF next
  <1>4. served'[r] = next
    BY <1>3 DEF TypeInv, TypeOK
  <1>5. Arrived(r)
    BY <1>1, <1>2, <1>4 DEF Arrived, LookedUp
  <1>6. RequestsSound
    BY <1>2, <1>3, <1>5, OneGoes DEF RequestsSound
  <1>7. RowsSound /\ Heeded
    BY RowsStand, NothingWithdrawn DEF people, history
  <1>8. QED
    BY <1>6, <1>7, BoundedStill, SoundParts DEF people, history, RowsSound

(* What is shown is taken out, and a pair is handed out for it.            *)
LEMMA IssuedSound ==
    ASSUME AccessAssumption, TypeInv, NEW r \in Requests, served[r].pc \in {"code", "refresh"}, MayIssue(r),
           NEW table \in [Keys -> Row \cup {None}],
           \A k \in Keys : table[k] # None =>
              /\ Stands(k) /\ table[k].kind = rows[k].kind /\ table[k].owner = rows[k].owner
              /\ table[k].app = rows[k].app /\ table[k].raced = rows[k].raced
              /\ rows[k].used => table[k].used,
           \/ table[served[r].key] = None
           \/ table[served[r].key].kind = "refresh" /\ table[served[r].key].used,
           Issued(r, table), UNCHANGED <<people, apps, connected, turns>>
    PROVE  Sound /\ Heeded
  <1> DEFINE a == served[r].owner
             c == served[r].app
             key == served[r].key
             access == New("access", a, c, served[r].raced)
             refresh == New("refresh", a, c, served[r].raced)
             kept == [k \in Keys |->
                   IF table[k] # None /\ table[k].owner = a /\ table[k].app = c
                      /\ table[k].kind \in {"access", "refresh"} /\ table[k].age = "expired"
                   THEN None ELSE table[k]]
             over == {o \in Requests : served[o].key = key}
  <1>1. /\ handed + 2 <= MaxKeys /\ handed' = handed + 2
        /\ rows' = [kept EXCEPT ![handed + 1] = access, ![handed + 2] = refresh]
        /\ traded' = traded \cup {key} /\ DoneOver(r, over)
    BY DEF Issued
  <1>2. handed \in Nat /\ MaxKeys \in Nat /\ handed + 1 \in Keys /\ handed + 2 \in Keys /\ key \in 1 .. handed
        /\ a \in Accounts /\ c \in Apps /\ served[r].raced \in BOOLEAN /\ a \in accounts /\ MaySignIn(a)
    BY <1>1 DEF TypeInv, TypeOK, AllProper, Proper, At, Request, AccessAssumption, MayIssue, Keys
  <1>3. /\ access \in Row /\ ~access.used /\ access.owner = a /\ access.kind = "access" /\ access.app = c
        /\ access.raced = served[r].raced
        /\ refresh \in Row /\ ~refresh.used /\ refresh.owner = a /\ refresh.kind = "refresh" /\ refresh.app = c
        /\ refresh.raced = served[r].raced
    BY <1>2 DEF New, Row, Kinds
  <1>4. kept \in [Keys -> Row \cup {None}] /\ \A k \in Keys : kept[k] \in {None, table[k]}
    OBVIOUS
  <1> HIDE DEF access, refresh, kept
  <1>5. /\ rows' \in [Keys -> Row \cup {None}] /\ rows'[handed + 1] = access /\ rows'[handed + 2] = refresh
        /\ \A k \in Keys : k # handed + 1 /\ k # handed + 2 => rows'[k] \in {None, table[k]}
    BY <1>1, <1>2, <1>3, <1>4
  <1>6. Made(handed + 1, r) /\ Made(handed + 2, r)
    <2>1. handed + 1 \in handed + 1 .. handed' /\ handed + 2 \in handed + 1 .. handed' /\ a \in accounts'
      BY <1>1, <1>2 DEF people
    <2>2. QED
      BY <1>2, <1>3, <1>5, <2>1 DEF Made
  <1>7. \A k \in Keys : k # handed + 1 /\ k # handed + 2 => rows'[k] = None \/ Carried(k)
    BY <1>5 DEF Carried
  <1>8. RowsSound
    BY <1>1, <1>2, <1>5, <1>6, <1>7 DEF RowsSound
  <1>9. /\ RequestsSound /\ \A o \in Requests : served'[o].pc = "idle" \/ Stayed(o)
        /\ \A o \in over : served'[o].pc = "idle" \/ served'[o].raced
    BY <1>1, OverGoes DEF RequestsSound
  <1>10. Bounded
    <2>1. \A k \in Keys : Carried(k) => rows'[k].owner \in accounts
      BY DEF Carried, Stands, TypeInv, TypeOK
    <2>2. traded' \subseteq 1 .. handed'
      <3>1. traded \subseteq 1 .. handed /\ 1 .. handed \subseteq 1 .. handed'
        BY <1>1, <1>2 DEF TypeInv, TypeOK
      <3>2. QED
        BY <1>1, <1>2, <3>1
    <2>3. QED
      BY <2>1, <2>2 DEF Bounded, TypeInv, TypeOK, people
  <1>11. Heeded
    <2>1. PICK k \in Keys : k = key /\ k # handed + 1 /\ k # handed + 2
      BY <1>2 DEF Keys, TypeInv, TypeOK
    <2>2. Stands(k)' => rows'[k].kind = "refresh" /\ rows'[k].used
      <3>1. rows'[k] \in {None, table[k]}
        BY <1>5, <2>1
      <3>2. Stands(k)' <=> rows'[k] # None
        BY DEF Stands
      <3>3. table[k] = None \/ (table[k].kind = "refresh" /\ table[k].used)
        BY <2>1
      <3>4. QED
        BY <3>1, <3>2, <3>3
    <2>3. \A o \in Requests : served'[o].key = k => served'[o].pc = "idle" \/ served'[o].raced
      BY <1>9, <2>1 DEF Stayed
    <2>4. \A j \in traded' : j \notin traded => j = k
      BY <1>1, <2>1
    <2>5. UNCHANGED <<members, connected>>
      BY DEF people
    <2>6. QED
      BY <2>2, <2>3, <2>4, <2>5 DEF Heeded, MaySignIn
  <1>12. QED
    BY <1>8, <1>9, <1>10, <1>11, SoundParts

LEMMA SpendsCodeSound ==
    ASSUME AccessAssumption, TypeInv, NEW r \in Requests, SpendsCode(r)
    PROVE  Sound /\ Heeded
  <1> DEFINE table == CodeSpent(r)
  <1>1. table \in [Keys -> Row \cup {None}]
        /\ \A k \in Keys : table[k] = IF k = served[r].key THEN None ELSE rows[k]
    BY DEF CodeSpent, Without, TypeInv, TypeOK
  <1>2. served[r].key \in Keys
    BY DEF SpendsCode, At, TypeInv, TypeOK, AllProper, Proper, Keys, AccessAssumption
  <1> HIDE DEF table
  <1>3. CASE MayIssue(r)
    <2>1. Issued(r, table) /\ At(r, "code") /\ UNCHANGED <<people, apps, connected, turns>>
      BY <1>3 DEF SpendsCode, table
    <2>2. table[served[r].key] = None
      BY <1>1, <1>2
    <2>3. \A k \in Keys : table[k] # None => Stands(k) /\ table[k] = rows[k]
      BY <1>1 DEF Stands
    <2>4. QED
      BY <1>1, <1>3, <2>1, <2>2, <2>3, IssuedSound DEF At
  <1>4. CASE ~MayIssue(r)
    BY <1>4, EndsSound DEF SpendsCode, history
  <1>5. QED
    BY <1>3, <1>4

LEMMA TradesRefreshSound ==
    ASSUME AccessAssumption, TypeInv, NEW r \in Requests, TradesRefresh(r)
    PROVE  Sound /\ Heeded
  <1> DEFINE key == served[r].key
             table == [rows EXCEPT ![key].used = TRUE]
  <1>1. CASE Stands(key) /\ MayIssue(r)
    <2>1. key \in 1 .. handed /\ handed \in 0 .. MaxKeys /\ MaxKeys \in Nat
      BY DEF TradesRefresh, At, TypeInv, TypeOK, AllProper, Proper, AccessAssumption
    <2>2. key \in Keys
      BY <2>1 DEF Keys
    <2>3. rows[key] \in Row /\ rows[key].kind = "refresh"
      BY <1>1, <2>2 DEF TradesRefresh, TypeInv, TypeOK, AllProper, Proper, Stands
    <2> DEFINE row == [rows[key] EXCEPT !.used = TRUE]
    <2>4. row \in Row /\ row.used /\ row.kind = "refresh" /\ row.owner = rows[key].owner
          /\ row.app = rows[key].app /\ row.raced = rows[key].raced
      BY <2>3 DEF Row
    <2>5. table = [rows EXCEPT ![key] = row]
      OBVIOUS
    <2>6. Issued(r, table) /\ At(r, "refresh") /\ UNCHANGED <<people, apps, connected, turns>>
      BY <1>1 DEF TradesRefresh
    <2> HIDE DEF key, row, table
    <2>7. table \in [Keys -> Row \cup {None}] /\ table[key] = row
          /\ \A k \in Keys : k # key => table[k] = rows[k]
      BY <2>2, <2>4, <2>5 DEF TypeInv, TypeOK
    <2>8. \A k \in Keys : table[k] # None =>
              /\ Stands(k) /\ table[k].kind = rows[k].kind /\ table[k].owner = rows[k].owner
              /\ table[k].app = rows[k].app /\ table[k].raced = rows[k].raced
              /\ rows[k].used => table[k].used
      BY <1>1, <2>3, <2>4, <2>7 DEF Stands
    <2>9. served[r].pc \in {"code", "refresh"} /\ key = served[r].key
      BY <2>6 DEF At, key
    <2>10. QED
      BY <1>1, <2>4, <2>6, <2>7, <2>8, <2>9, IssuedSound
  <1>2. CASE ~(Stands(key) /\ MayIssue(r))
    BY <1>2, EndsSound DEF TradesRefresh, history
  <1>3. QED
    BY <1>1, <1>2

LEMMA RemovesSound ==
    ASSUME AccessAssumption, TypeInv, NEW p \in Addresses, Removes(p)
    PROVE  Sound /\ Heeded
  <1>1. /\ members' = members \ {p} /\ rows' = Without(HeldBy(p))
        /\ UNCHANGED <<accounts, apps, handed, connected, traded, turns>>
    BY DEF Removes, history
  <1>2. RowsSound /\ \A k \in Keys \cap HeldBy(p) : rows'[k] = None
    BY <1>1, RowsGo
  <1>3. served \in [Requests -> Request] /\ \A o \in Requests : [served[o] EXCEPT !.raced = TRUE] \in Request
    BY DEF TypeInv, TypeOK, Request
  <1>4. \A o \in Requests : served'[o] =
           IF ~At(o, "idle") /\ Email[served[o].owner] = p THEN [served[o] EXCEPT !.raced = TRUE] ELSE served[o]
    BY DEF Removes
  <1>5. served' \in [Requests -> Request]
    BY <1>3 DEF Removes
  <1>6. \A o \in Requests : served'[o].pc = "idle" \/ Stayed(o)
    <2>1. ASSUME NEW o \in Requests PROVE served'[o].pc = "idle" \/ Stayed(o)
      <3>1. served[o].pc \in {"idle", "admitted", "renewing", "in", "counted", "code", "refresh"}
            /\ served[o] \in Request
        BY <1>3 DEF Request
      <3>2. /\ served'[o].pc = served[o].pc /\ served'[o].owner = served[o].owner
            /\ served'[o].key = served[o].key /\ served'[o].app = served[o].app
            /\ served[o].raced => served'[o].raced
        BY <1>4, <3>1 DEF Request
      <3>3. QED
        BY <3>1, <3>2 DEF Stayed, At
    <2>2. QED
      BY <2>1
  <1>7. \A o \in Requests : Email[served'[o].owner] = p => served'[o].pc = "idle" \/ served'[o].raced
    BY <1>3, <1>4 DEF At, Request
  <1>8. Bounded
    <2>1. \A k \in Keys : Carried(k) => rows'[k].owner \in accounts
      BY DEF Carried, Stands, TypeInv, TypeOK
    <2>2. QED
      BY <1>1, <2>1 DEF Bounded, TypeInv, TypeOK
  <1>9. Heeded
    <2>1. \A a \in Accounts : MaySignIn(a) /\ ~MaySignIn(a)' => Email[a] = p
      BY <1>1 DEF MaySignIn
    <2>2. \A k \in Keys : Stands(k)' => Stands(k) /\ rows'[k] = rows[k] /\ k \notin HeldBy(p)
      BY <1>1, <1>2 DEF Without, Stands
    <2>3. \A k \in Keys : Stands(k)' /\ Email[rows'[k].owner] = p
                             => rows'[k].kind \notin {"session", "personal", "access"}
      BY <2>2 DEF HeldBy
    <2>4. UNCHANGED <<connected, traded>>
      BY <1>1
    <2>5. QED
      BY <1>7, <2>1, <2>3, <2>4 DEF Heeded
  <1>10. QED
    BY <1>2, <1>5, <1>6, <1>8, <1>9, SoundParts DEF RequestsSound

LEMMA InvitesSound ==
    ASSUME AccessAssumption, TypeInv, NEW p \in Addresses, Invites(p)
    PROVE  Sound /\ Heeded
  <1>1. /\ members' = members \cup {p} /\ Turn /\ Configured \cup members # {}
        /\ UNCHANGED <<accounts, apps, rows, handed, served, connected, traded>>
    BY DEF Invites, history
  <1>2. RowsSound /\ RequestsSound
    BY <1>1, RowsStand, AllIdleOrStay DEF RequestsSound
  <1>3. Bounded
    <2>1. \A k \in Keys : Carried(k) => rows'[k].owner \in accounts
      BY DEF Carried, Stands, TypeInv, TypeOK
    <2>2. turns' \in 0 .. MaxTurns
      BY <1>1 DEF Turn, TypeInv, TypeOK, AccessAssumption
    <2>3. QED
      BY <1>1, <2>1, <2>2 DEF Bounded, TypeInv, TypeOK
  <1>4. \A a \in Accounts : MaySignIn(a) => MaySignIn(a)'
    BY <1>1 DEF MaySignIn
  <1>5. Heeded
    BY <1>1, <1>4 DEF Heeded
  <1>6. QED
    BY <1>2, <1>3, <1>5, SoundParts

LEMMA AgesSound ==
    ASSUME AccessAssumption, TypeInv, NEW k \in Keys, Ages(k)
    PROVE  Sound /\ Heeded
  <1> DEFINE age == IF rows[k].kind = "session" /\ rows[k].age = "fresh" THEN "due" ELSE "expired"
             row == [rows[k] EXCEPT !.age = age]
  <1>1. /\ Stands(k) /\ rows' = [rows EXCEPT ![k].age = age] /\ Turn
        /\ UNCHANGED <<people, apps, handed, served, history>>
    BY DEF Ages
  <1>2. rows[k] \in Row
    BY <1>1 DEF Stands, TypeInv, TypeOK
  <1>3. row \in Row /\ row.kind = rows[k].kind /\ row.owner = rows[k].owner /\ row.app = rows[k].app
        /\ row.raced = rows[k].raced /\ row.used = rows[k].used
    BY <1>2 DEF Row
  <1>4. rows' = [rows EXCEPT ![k] = row]
    BY <1>1
  <1> HIDE DEF row
  <1>5. rows' \in [Keys -> Row \cup {None}] /\ rows'[k] = row /\ \A j \in Keys : j # k => rows'[j] = rows[j]
    BY <1>3, <1>4 DEF TypeInv, TypeOK
  <1>6. \A j \in Keys : rows'[j] = None \/ Carried(j)
    BY <1>1, <1>3, <1>5 DEF Carried, Stands, TypeInv, TypeOK
  <1>7. RowsSound
    BY <1>1, <1>5, <1>6 DEF RowsSound, TypeInv, TypeOK, AccessAssumption
  <1>8. RequestsSound /\ Heeded
    BY <1>1, AllIdleOrStay, NothingWithdrawn DEF RequestsSound, people, history
  <1>9. Bounded
    BY <1>1, <1>7, BoundedStill DEF people, history, RowsSound
  <1>10. QED
    BY <1>7, <1>8, <1>9, SoundParts

LEMMA AppsSound ==
    ASSUME AccessAssumption, TypeInv, NEW c \in Apps, Registers(c) \/ GoesUnused(c)
    PROVE  Sound /\ Heeded
  <1>1. UNCHANGED <<people, rows, handed, served, history, turns>>
        /\ apps' \in [Apps -> {"none", "new", "stale", "used"}]
    BY DEF Registers, GoesUnused, TypeInv, TypeOK
  <1>2. RowsSound /\ RequestsSound /\ Heeded
    BY <1>1, RowsStand, AllIdleOrStay, NothingWithdrawn DEF RequestsSound, people, history
  <1>3. QED
    BY <1>1, <1>2, BoundedStill, SoundParts DEF people, history, RowsSound

LEMMA ShowsRefreshSound ==
    ASSUME AccessAssumption, TypeInv, NEW r \in Requests, NEW k \in Keys, ShowsRefresh(r, k)
    PROVE  Sound /\ Heeded
  <1>1. rows[k] \in Row /\ rows[k].owner \in Accounts
    BY DEF ShowsRefresh, Is, Stands, TypeInv, TypeOK, Row
  <1>2. CASE Disconnected(r, rows[k].owner, rows[k].app)
    BY <1>1, <1>2, DisconnectedSound
  <1>3. CASE ~Disconnected(r, rows[k].owner, rows[k].app)
    BY <1>3, ShowsSecretSound DEF ShowsRefresh
  <1>4. QED
    BY <1>2, <1>3

LEMMA BrowsesSound ==
    ASSUME AccessAssumption, TypeInv, NEW r \in Requests, Browses(r)
    PROVE  Sound /\ Heeded
  <1>1. CASE Ends(r) \/ LogsOut(r)
    BY <1>1, EndsSound DEF Ends, LogsOut
  <1>2. CASE \E k \in Keys : ShowsCookie(r, k) \/ RevokesToken(r, k)
    BY <1>2, ShowsCookieSound, EndsSound DEF RevokesToken
  <1>3. CASE \E c \in Apps : Approves(r, c) \/ Disconnects(r, c)
    <2>1. ASSUME NEW c \in Apps, Disconnects(r, c) PROVE Sound /\ Heeded
      <3>1. served[r].owner \in Accounts
        BY <2>1 DEF Disconnects, TypeInv, AllProper, Proper, At
      <3>2. QED
        BY <2>1, <3>1, DisconnectedSound DEF Disconnects
    <2>2. QED
      BY <1>3, <2>1, ApprovesSound
  <1>4. QED
    BY <1>1, <1>2, <1>3, SignsInSound, OpensSessionSound, RenewsSound, CountsTokensSound, MakesTokenSound,
       DeletesAccountSound DEF Browses

LEMMA AppAsksSound ==
    ASSUME AccessAssumption, TypeInv, NEW r \in Requests, AppAsks(r)
    PROVE  Sound /\ Heeded
  <1>1. ASSUME NEW k \in Keys, ShowsCode(r, k) PROVE Sound /\ Heeded
    BY <1>1, ShowsSecretSound DEF ShowsCode
  <1>2. ASSUME NEW k \in Keys, AppRevokes(r, k) PROVE Sound /\ Heeded
    <2>1. rows[k].owner \in Accounts
      BY <1>2 DEF AppRevokes, Stands, TypeInv, TypeOK, Row
    <2>2. QED
      BY <1>2, <2>1, DisconnectedSound DEF AppRevokes
  <1>3. QED
    BY <1>1, <1>2, ShowsRefreshSound, SpendsCodeSound, TradesRefreshSound DEF AppAsks

LEMMA StepSound ==
    ASSUME AccessAssumption, TypeInv, Next PROVE Sound /\ Heeded
  BY BrowsesSound, AppAsksSound, AppsSound, InvitesSound, RemovesSound, AgesSound DEF Next

-----------------------------------------------------------------------------
(* What a request relies on holds, unless it was overtaken; and a secret   *)
(* that was traded in is gone, or known to be used.                        *)
LetIn == \A r \in Requests :
    served[r].pc \in {"admitted", "renewing", "in", "counted"} /\ ~served[r].raced
        => MaySignIn(served[r].owner)
Approved == \A r \in Requests :
    served[r].pc \in {"code", "refresh"} /\ ~served[r].raced
        => <<served[r].owner, served[r].app>> \in connected
Spent == \A k \in Keys \cap traded : Stands(k) => rows[k].kind = "refresh" /\ rows[k].used
Unspent == \A r \in Requests :
    served[r].pc \in {"code", "refresh"} /\ ~served[r].raced => served[r].key \notin traded

Inv == /\ TypeInv /\ LetIn /\ Approved /\ Spent /\ Unspent
       /\ RemovedHoldNothing /\ EndedConnectionsHoldNothing

LEMMA InvInit == AccessAssumption /\ Init => Inv
  <1> SUFFICES ASSUME AccessAssumption, Init PROVE Inv
    OBVIOUS
  <1>1. TypeInv /\ (\A r \in Requests : served[r].pc = "idle") /\ \A k \in Keys : ~Stands(k)
    BY TypeInit DEF Init, Idle, Stands
  <1>2. QED
    BY <1>1 DEF Inv, LetIn, Approved, Spent, Unspent, RemovedHoldNothing, EndedConnectionsHoldNothing

LEMMA InvStep == ASSUME AccessAssumption, Inv, Next PROVE Inv'
  <1>1. TypeInv /\ TypeInv' /\ Sound /\ Heeded
    BY StepSound, SoundType DEF Inv
  <1>2. /\ \A k \in Keys : rows'[k] = None \/ Carried(k) \/ \E r \in Requests : Made(k, r)
        /\ \A r \in Requests : served'[r].pc = "idle" \/ Stayed(r) \/ Arrived(r)
    BY <1>1 DEF Sound, Shape
  <1>3. \A r \in Requests : ~At(r, "idle") => served[r].owner \in Accounts
    BY <1>1 DEF TypeInv, AllProper, Proper
  <1>4. ASSUME NEW a \in Accounts, MaySignIn(a), NEW r \in Requests, served'[r].owner = a,
               served'[r].pc # "idle", ~served'[r].raced
        PROVE  MaySignIn(a)'
    BY <1>1, <1>4 DEF Heeded
  <1>5. LetIn'
    <2>1. ASSUME NEW r \in Requests, served'[r].pc \in {"admitted", "renewing", "in", "counted"}, ~served'[r].raced
          PROVE  \E a \in Accounts : a = served'[r].owner /\ MaySignIn(a)'
      <3>1. served'[r].owner \in Accounts /\ MaySignIn(served'[r].owner)
        <4>1. CASE Stayed(r)
          BY <1>3, <2>1, <4>1 DEF Stayed, Inv, LetIn
        <4>2. CASE Arrived(r)
          <5>1. CASE served'[r].owner \in Accounts /\ MaySignIn(served'[r].owner)
            BY <5>1
          <5>2. CASE \E k \in Keys : LookedUp(r, k)
            <6>1. PICK k \in Keys : LookedUp(r, k)
              BY <5>2
            <6>2. rows[k].owner \in Accounts
              BY <1>1, <6>1 DEF LookedUp, Stands, TypeInv, TypeOK, Row
            <6>3. QED
              BY <2>1, <6>1, <6>2 DEF LookedUp, Inv, RemovedHoldNothing
          <5>3. QED
            BY <4>2, <5>1, <5>2 DEF Arrived
        <4>3. QED
          BY <1>2, <2>1, <4>1, <4>2
      <3>2. PICK a \in Accounts : a = served'[r].owner /\ MaySignIn(a)
        BY <3>1
      <3>3. MaySignIn(a)'
        BY <1>4, <2>1, <3>2
      <3>4. QED
        BY <3>2, <3>3
    <2>2. QED
      BY <2>1 DEF LetIn, MaySignIn
  <1>6. RemovedHoldNothing'
    <2>1. ASSUME NEW k \in Keys, rows'[k] # None, rows'[k].kind \in {"session", "personal", "access"}, ~rows'[k].raced
          PROVE  \E a \in Accounts : a = rows'[k].owner /\ MaySignIn(a)'
      <3>1. rows'[k].owner \in Accounts /\ MaySignIn(rows'[k].owner)
        <4>1. CASE Carried(k)
          BY <1>1, <2>1, <4>1 DEF Carried, Inv, RemovedHoldNothing, TypeInv, TypeOK, Row
        <4>2. CASE \E r \in Requests : Made(k, r)
          BY <1>3, <2>1, <4>2 DEF Made, Inv, LetIn, At
        <4>3. QED
          BY <1>2, <2>1, <4>1, <4>2
      <3>2. PICK a \in Accounts : a = rows'[k].owner /\ MaySignIn(a)
        BY <3>1
      <3>3. MaySignIn(a)'
        BY <1>1, <2>1, <3>2 DEF Heeded, Stands
      <3>4. QED
        BY <3>2, <3>3
    <2>2. QED
      BY <2>1 DEF RemovedHoldNothing, MaySignIn, Stands
  <1>7. Approved'
    <2>1. ASSUME NEW r \in Requests, served'[r].pc \in {"code", "refresh"}, ~served'[r].raced
          PROVE  <<served'[r].owner, served'[r].app>> \in connected'
      <3>1. <<served'[r].owner, served'[r].app>> \in connected
        <4>1. CASE Stayed(r)
          BY <2>1, <4>1 DEF Stayed, Inv, Approved
        <4>2. CASE \E k \in Keys : LookedUp(r, k)
          <5>1. PICK k \in Keys : LookedUp(r, k)
            BY <4>2
          <5>2. rows[k].app \in Apps /\ rows[k].app # None
            BY <1>1, <2>1, <5>1 DEF LookedUp, TypeInv, Labelled, AccessAssumption
          <5>3. QED
            BY <2>1, <5>1, <5>2 DEF LookedUp, Inv, EndedConnectionsHoldNothing
        <4>3. QED
          BY <1>2, <2>1, <4>1, <4>2 DEF Arrived
      <3>2. QED
        BY <1>1, <2>1, <3>1 DEF Heeded
    <2>2. QED
      BY <2>1 DEF Approved
  <1>8. EndedConnectionsHoldNothing'
    <2>1. ASSUME NEW k \in Keys, rows'[k] # None, rows'[k].app # None, ~rows'[k].raced
          PROVE  <<rows'[k].owner, rows'[k].app>> \in connected'
      <3>1. <<rows'[k].owner, rows'[k].app>> \in connected \cup connected'
        <4>1. CASE Carried(k)
          BY <2>1, <4>1 DEF Carried, Inv, EndedConnectionsHoldNothing
        <4>2. CASE \E r \in Requests : Made(k, r)
          BY <2>1, <4>2 DEF Made, Inv, Approved
        <4>3. QED
          BY <1>2, <2>1, <4>1, <4>2
      <3>2. QED
        BY <1>1, <2>1, <3>1 DEF Heeded, Stands
    <2>2. QED
      BY <2>1 DEF EndedConnectionsHoldNothing, Stands
  <1>9. Spent'
    <2>1. ASSUME NEW k \in Keys, k \in traded', rows'[k] # None
          PROVE  rows'[k].kind = "refresh" /\ rows'[k].used
      <3>1. CASE k \notin traded
        BY <1>1, <2>1, <3>1 DEF Heeded, Stands
      <3>2. CASE k \in traded
        <4>1. k \notin handed + 1 .. handed'
          BY <1>1, <3>2 DEF TypeInv, TypeOK
        <4>2. Carried(k)
          BY <1>2, <2>1, <4>1 DEF Made
        <4>3. QED
          BY <3>2, <4>2 DEF Carried, Inv, Spent
      <3>3. QED
        BY <3>1, <3>2
    <2>2. QED
      BY <2>1 DEF Spent, Stands
  <1>10. Unspent'
    <2>1. ASSUME NEW r \in Requests, served'[r].pc \in {"code", "refresh"}, ~served'[r].raced
          PROVE  served'[r].key \notin traded'
      <3>1. served'[r].key \notin traded
        <4>1. CASE Stayed(r)
          BY <2>1, <4>1 DEF Stayed, Inv, Unspent
        <4>2. CASE \E k \in Keys : LookedUp(r, k)
          BY <2>1, <4>2 DEF LookedUp, Inv, Spent
        <4>3. QED
          BY <1>2, <2>1, <4>1, <4>2 DEF Arrived
      <3>2. QED
        BY <1>1, <2>1, <3>1 DEF Heeded
    <2>2. QED
      BY <2>1 DEF Unspent
  <1>11. QED
    BY <1>1, <1>5, <1>6, <1>7, <1>8, <1>9, <1>10 DEF Inv

LEMMA InvStill == ASSUME Inv, UNCHANGED vars PROVE Inv'
  <1>1. UNCHANGED <<members, accounts, apps, rows, handed, turns, served, connected, traded>>
    BY DEF vars
  <1>2. TypeInv'
    BY <1>1 DEF Inv, TypeInv, TypeOK, AllProper, Proper, Labelled, At, Stands
  <1>3. (LetIn /\ Approved /\ Spent /\ Unspent)'
    BY <1>1 DEF Inv, LetIn, Approved, Spent, Unspent, MaySignIn, Stands
  <1>4. (RemovedHoldNothing /\ EndedConnectionsHoldNothing)'
    BY <1>1 DEF Inv, RemovedHoldNothing, EndedConnectionsHoldNothing, MaySignIn, Stands
  <1>5. QED
    BY <1>2, <1>3, <1>4 DEF Inv

-----------------------------------------------------------------------------
LEMMA Invariant == AccessAssumption => (Spec => []Inv)
  <1> SUFFICES ASSUME AccessAssumption PROVE Spec => []Inv
    OBVIOUS
  <1>1. Init => Inv
    BY InvInit
  <1>2. Inv /\ [Next]_vars => Inv'
    BY InvStep, InvStill
  <1>3. QED
    BY <1>1, <1>2, PTL DEF Spec

(* Every state of the rows, the requests and the lists is one the code's   *)
(* tables can hold.                                                        *)
THEOREM TypeCorrect == AccessAssumption => (Spec => []TypeOK)
  <1>1. Inv => TypeOK
    BY DEF Inv, TypeInv
  <1>2. QED
    BY <1>1, Invariant, PTL

(* However many requests interleave, nothing stays signed in under an      *)
(* address that was taken off the allowlist (remove_member), but what a    *)
(* request that was being served at that moment makes.                     *)
THEOREM RemovedAreOut == AccessAssumption => (Spec => []RemovedHoldNothing)
  <1>1. Inv => RemovedHoldNothing
    BY DEF Inv
  <1>2. QED
    BY <1>1, Invariant, PTL

(* An ended connection holds nothing (_disconnect), whoever ended it and   *)
(* whatever had come of it, but for an exchange under way at that moment.  *)
THEOREM EndedAreOut == AccessAssumption => (Spec => []EndedConnectionsHoldNothing)
  <1>1. Inv => EndedConnectionsHoldNothing
    BY DEF Inv
  <1>2. QED
    BY <1>1, Invariant, PTL

(* A code or a refresh token gives one pair of tokens (_issue), unless two *)
(* requests had looked it up before either wrote.                          *)
THEOREM OnePair == AccessAssumption => (Spec => GivesOnePair)
  <1> SUFFICES ASSUME AccessAssumption PROVE Spec => GivesOnePair
    OBVIOUS
  <1>1. Inv => \A r \in Requests : ~served[r].raced /\ handed' = handed + 2 /\ served'[r] # served[r]
          /\ served[r].pc \in {"code", "refresh"} => served[r].key \notin traded
    BY DEF Inv, Unspent
  <1>2. QED
    BY <1>1, Invariant, PTL DEF GivesOnePair
=============================================================================
