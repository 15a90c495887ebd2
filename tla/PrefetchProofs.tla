--------------------------- MODULE PrefetchProofs ---------------------------
(* Theorems about Prefetch, for every number of sources, plugins, threads  *)
(* and places in a queue.                                                  *)
EXTENDS Prefetch, WellFoundedInduction, SequenceTheorems, TLAPS

(* Any set of naturals has a least element. *)
LEMMA LeastElement ==
    ASSUME NEW T \in SUBSET Nat, T # {}
    PROVE  \E x \in T : \A y \in T : x <= y
  <1> DEFINE R == OpToRel(<, Nat)
  <1>1. IsWellFoundedOn(R, Nat)
    BY NatLessThanWellFounded
  <1>2. \A x, y \in Nat : y < x <=> <<y, x>> \in R
    BY DEF OpToRel
  <1> HIDE DEF R
  <1>3. PICK x \in T : \A y \in T : ~(<<y, x>> \in R)
    BY <1>1, WFMin, Zenon
  <1>4. \A y \in T : ~(y < x)
    BY <1>2, <1>3
  <1>5. QED
    BY <1>3, <1>4

(* The first source of a plugin is one, and none of its sources is before. *)
LEMMA FirstUnitIsFirst ==
    ASSUME PrefetchAssumption, NEW p \in Plugins
    PROVE  /\ FirstUnit(p) \in Units /\ PluginOf[FirstUnit(p)] = p
           /\ \A u \in Units : PluginOf[u] = p => FirstUnit(p) <= u
  <1> DEFINE T == {u \in Units : PluginOf[u] = p}
  <1>0. T # {}
    BY DEF Plugins
  <1>1. T \in SUBSET Nat
    BY DEF Units, PrefetchAssumption
  <1>2. PICK x \in T : \A y \in T : x <= y
    BY <1>0, <1>1, LeastElement
  <1>3. \A v \in 1 .. x - 1 : PluginOf[v] # p
    BY <1>2 DEF Units, PrefetchAssumption
  <1>4. x \in Units /\ PluginOf[x] = p /\ \A v \in 1 .. x - 1 : PluginOf[v] # p
    BY <1>3
  <1>5. FirstUnit(p) \in Units /\ PluginOf[FirstUnit(p)] = p
        /\ \A v \in 1 .. FirstUnit(p) - 1 : PluginOf[v] # p
    BY <1>4 DEF FirstUnit
  <1>6. QED
    BY <1>5 DEF Units, PrefetchAssumption

-----------------------------------------------------------------------------
(* Types.  While the main thread is at a source, there is one.             *)
Attended == main.pc \in {"begin", "taking", "shipping", "done", "draining", "emptying"}
               => main.at \in Units

(* A worker that is not idle is at a source, of a plugin picked up before. *)
Busy(w) == worker[w].pc # "idle"
Placed == \A w \in Workers :
             Busy(w) => worker[w].at \in Units /\ PluginOf[worker[w].at] < backlog

TypeInv == TypeOK /\ Attended /\ Placed

LEMMA TypeInit == PrefetchAssumption /\ Init => TypeInv
  <1> SUFFICES ASSUME PrefetchAssumption, Init PROVE TypeInv
    OBVIOUS
  <1>1. <<>> \in Seq(Entry) /\ <<>> \in Seq(Nat) /\ Len(<<>>) = 0
    OBVIOUS
  <1>2. queue \in [Units -> Seq(Entry)] /\ got \in [Units -> Seq(Nat)]
        /\ \A u \in Units : Len(queue[u]) <= Buffer
    BY <1>1 DEF Init, PrefetchAssumption
  <1>3. worker \in [Workers -> Thread] /\ Placed
    BY DEF Init, Idle, Thread, Ends, Placed, Busy
  <1>4. /\ abandoned \in [Units -> BOOLEAN] /\ stopping \in BOOLEAN /\ backlog \in Nat
        /\ read \in [Units -> Nat] /\ ended \in [Units -> Ends \cup {"open"}]
        /\ heard \in [Units -> Ends \cup {"nothing", "dropped"}]
    BY DEF Init
  <1>5. main.pc \in {"begin", "leaving"} /\ main.at = 1 /\ Attended
        /\ main \in [pc : {"begin", "taking", "shipping", "done", "draining",
                         "leaving", "emptying", "joining", "left"},
                   at : Units \cup {NumUnits + 1}]
    BY DEF Init, Attended, Units, PrefetchAssumption
  <1>6. QED
    BY <1>2, <1>3, <1>4, <1>5 DEF TypeInv, TypeOK

(* What a worker does next keeps its place. *)
LEMMA NextUnitType ==
    ASSUME PrefetchAssumption, TypeInv, NEW w \in Workers, Busy(w), NextUnit(w),
           UNCHANGED backlog
    PROVE  worker' \in [Workers -> Thread] /\ Placed'
  <1> DEFINE u == worker[w].at
             next == IF u + 1 \in Units /\ PluginOf[u + 1] = PluginOf[u]
                     THEN [pc |-> "starting", at |-> u + 1, mark |-> "end"] ELSE Idle
  <1>1. u \in Units /\ PluginOf[u] < backlog
    BY DEF TypeInv, Placed
  <1>2. next \in Thread
    BY DEF Thread, Idle, Ends
  <1>3. worker' = [worker EXCEPT ![w] = next]
    BY DEF NextUnit
  <1>4. next.pc # "idle" => next.at \in Units /\ PluginOf[next.at] < backlog
    BY <1>1 DEF Idle
  <1> HIDE DEF next
  <1>5. worker' \in [Workers -> Thread]
    BY <1>2, <1>3 DEF TypeInv, TypeOK
  <1>6. \A v \in Workers : worker'[v] = IF v = w THEN next ELSE worker[v]
    BY <1>3 DEF TypeInv, TypeOK
  <1>7. Placed'
    BY <1>4, <1>6 DEF TypeInv, Placed, Busy
  <1>8. QED
    BY <1>5, <1>7

(* The steps that change only where a worker is in its source. *)
LEMMA StepType ==
    ASSUME TypeInv, NEW w \in Workers, Busy(w), NEW pc \in {"reading", "putting", "parked", "closing", "barred"},
           NEW mark \in Ends, worker' = [worker EXCEPT ![w].pc = pc, ![w].mark = mark],
           UNCHANGED backlog
    PROVE  worker' \in [Workers -> Thread] /\ Placed'
  <1>1. [worker[w] EXCEPT !.pc = pc, !.mark = mark] \in Thread
    BY DEF TypeInv, TypeOK, Thread
  <1>2. \A v \in Workers : worker'[v].at = worker[v].at /\ (v # w => worker'[v].pc = worker[v].pc)
    BY DEF TypeInv, TypeOK, Thread
  <1>3. QED
    BY <1>1, <1>2 DEF TypeInv, TypeOK, Placed, Busy

LEMMA GoesType ==
    ASSUME TypeInv, NEW w \in Workers, Busy(w), NEW pc \in {"reading", "putting", "parked", "closing", "barred"},
           Goes(w, pc), UNCHANGED backlog
    PROVE  worker' \in [Workers -> Thread] /\ Placed'
  <1>1. [worker[w] EXCEPT !.pc = pc] \in Thread
    BY DEF TypeInv, TypeOK, Thread
  <1>2. \A v \in Workers : worker'[v].at = worker[v].at /\ (v # w => worker'[v].pc = worker[v].pc)
    BY DEF Goes, TypeInv, TypeOK, Thread
  <1>3. QED
    BY <1>1, <1>2 DEF Goes, TypeInv, TypeOK, Placed, Busy

LEMMA WorkerType ==
    ASSUME PrefetchAssumption, TypeInv, NEW w \in Workers, Worker(w) PROVE TypeInv'
  <1> DEFINE u == worker[w].at
  <1>1. UNCHANGED <<abandoned, stopping, main, got, heard>>
    BY DEF Worker, consumer
  <1>2. Busy(w) => u \in Units
    BY DEF TypeInv, Placed
  <1>3. ASSUME NEW entry \in Entry, Busy(w), HasRoom(u),
               queue' = [queue EXCEPT ![u] = Append(@, entry)]
        PROVE  queue' \in [Units -> Seq(Entry)] /\ \A v \in Units : Len(queue'[v]) <= Buffer
    <2>1. queue[u] \in Seq(Entry) /\ Len(queue[u]) + 1 <= Buffer
      BY <1>2, <1>3, LenProperties DEF TypeInv, TypeOK, HasRoom, PrefetchAssumption
    <2>2. Append(queue[u], entry) \in Seq(Entry) /\ Len(Append(queue[u], entry)) = Len(queue[u]) + 1
      BY <2>1, AppendProperties
    <2>3. QED
      BY <1>2, <1>3, <2>1, <2>2 DEF TypeInv, TypeOK
  <1>4. /\ UNCHANGED queue \/ (queue' \in [Units -> Seq(Entry)] /\ \A v \in Units : Len(queue'[v]) <= Buffer)
        /\ backlog' \in Nat /\ worker' \in [Workers -> Thread] /\ Placed'
        /\ read' \in [Units -> Nat] /\ ended' \in [Units -> Ends \cup {"open"}]
    <2>1. CASE PickUp(w)
      <3>1. FirstUnit(backlog) \in Units /\ PluginOf[FirstUnit(backlog)] = backlog
        BY <2>1, FirstUnitIsFirst DEF PickUp
      <3>2. [pc |-> "starting", at |-> FirstUnit(backlog), mark |-> "end"] \in Thread
        BY <3>1 DEF Thread, Ends
      <3>3. backlog \in Nat /\ \A v \in Workers : Busy(v) => PluginOf[worker[v].at] \in Nat
        BY DEF TypeInv, TypeOK, Placed, PrefetchAssumption
      <3>4. Placed'
        BY <2>1, <3>1, <3>3 DEF PickUp, TypeInv, TypeOK, Placed, Busy
      <3>5. QED
        BY <2>1, <3>2, <3>3, <3>4 DEF PickUp, TypeInv, TypeOK
    <2>2. CASE Start(w)
      <3>1. Busy(w) /\ UNCHANGED backlog
        BY <2>2 DEF Start, Busy
      <3>2. worker' \in [Workers -> Thread] /\ Placed'
        BY <2>2, <3>1, GoesType, StepType DEF Start, Close, Ends
      <3>3. QED
        BY <2>2, <3>2 DEF Start, TypeInv, TypeOK
    <2>3. CASE Yields(w)
      <3>1. Busy(w) /\ UNCHANGED backlog
        BY <2>3 DEF Yields, Busy
      <3>2. worker' \in [Workers -> Thread] /\ Placed'
        BY <2>3, <3>1, GoesType DEF Yields
      <3>3. QED
        BY <2>3, <3>1, <1>2, <3>2 DEF Yields, TypeInv, TypeOK
    <2>4. CASE StreamEnds(w)
      <3>1. Busy(w) /\ UNCHANGED backlog
        BY <2>4 DEF StreamEnds, Busy
      <3>2. PICK how \in Ends : Stopped(w, how)
        BY <2>4 DEF StreamEnds
      <3>3. worker' \in [Workers -> Thread] /\ Placed'
        BY <3>1, <3>2, StepType DEF Stopped
      <3>4. QED
        BY <2>4, <3>2, <3>3 DEF StreamEnds, Stopped, TypeInv, TypeOK
    <2>5. CASE Put(w)
      <3>1. Busy(w) /\ UNCHANGED backlog
        BY <2>5 DEF Put, Busy
      <3>2. worker' \in [Workers -> Thread] /\ Placed'
        BY <2>5, <3>1, GoesType, StepType DEF Put, Close, Ends
      <3>3. QED
        BY <2>5, <3>2 DEF Put, TypeInv, TypeOK
    <2>6. CASE Enters(w)
      <3>1. Busy(w) /\ UNCHANGED backlog
        BY <2>6 DEF Enters, Busy
      <3>2. worker' \in [Workers -> Thread] /\ Placed'
        BY <2>6, <3>1, GoesType DEF Enters
      <3>3. Item(read[u]) \in Entry
        BY <1>2, <3>1 DEF Item, Entry, TypeInv, TypeOK
      <3>4. QED
        BY <1>3, <2>6, <3>1, <3>2, <3>3 DEF Enters, TypeInv, TypeOK
    <2>7. CASE WaitsAgain(w) \/ Barred(w)
      <3>1. Busy(w) /\ UNCHANGED backlog
        BY <2>7 DEF WaitsAgain, Barred, Busy
      <3>2. worker' \in [Workers -> Thread] /\ Placed'
        BY <2>7, <3>1, GoesType DEF WaitsAgain, Barred
      <3>3. QED
        BY <2>7, <3>2 DEF WaitsAgain, Barred, TypeInv, TypeOK
    <2>8. CASE Finish(w)
      <3>1. Busy(w) /\ UNCHANGED backlog
        BY <2>8 DEF Finish, Busy
      <3>2. worker' \in [Workers -> Thread] /\ Placed'
        BY <2>8, <3>1, NextUnitType DEF Finish
      <3>3. Marker(worker[w].mark) \in Entry
        BY DEF Marker, Entry, TypeInv, TypeOK, Thread
      <3>4. QED
        BY <1>3, <2>8, <3>1, <3>2, <3>3 DEF Finish, TypeInv, TypeOK
    <2>9. CASE LooksAround(w)
      <3>1. Busy(w) /\ UNCHANGED backlog
        BY <2>9 DEF LooksAround, Busy
      <3>2. worker' \in [Workers -> Thread] /\ Placed'
        BY <2>9, <3>1, GoesType, NextUnitType DEF LooksAround
      <3>3. QED
        BY <2>9, <3>2 DEF LooksAround, TypeInv, TypeOK
    <2>10. QED
      BY <2>1, <2>2, <2>3, <2>4, <2>5, <2>6, <2>7, <2>8, <2>9 DEF Worker
  <1>5. Attended'
    BY <1>1 DEF TypeInv, Attended
  <1>6. QED
    BY <1>1, <1>4, <1>5 DEF TypeInv, TypeOK

LEMMA MainType ==
    ASSUME PrefetchAssumption, TypeInv, Main PROVE TypeInv'
  <1>1. UNCHANGED <<backlog, worker, read, ended>>
    BY DEF Main
  <1>2. Placed'
    BY <1>1 DEF TypeInv, Placed, Busy
  <1>3. ASSUME Current # <<>>, main.at \in Units
        PROVE  /\ Head(Current) \in Entry /\ Tail(Current) \in Seq(Entry)
               /\ Len(Tail(Current)) <= Buffer
    <2>1. Current \in Seq(Entry) /\ Len(Current) <= Buffer
      BY <1>3 DEF Current, TypeInv, TypeOK
    <2>2. Tail(Current) \in Seq(Entry) /\ Len(Tail(Current)) = Len(Current) - 1 /\ Head(Current) \in Entry
      BY <1>3, <2>1, HeadTailProperties
    <2>3. QED
      BY <2>1, <2>2, LenProperties DEF PrefetchAssumption
  <1>4. PICK empty : empty = <<>> /\ empty \in Seq(Entry) /\ Len(empty) <= Buffer
    <2>1. Buffer \in Nat /\ 0 <= Buffer
      BY DEF PrefetchAssumption
    <2>2. QED
      BY <2>1, EmptySeq
  <1>5. NumUnits \in Nat
    BY DEF PrefetchAssumption
  <1>6. /\ queue' \in [Units -> Seq(Entry)] /\ \A v \in Units : Len(queue'[v]) <= Buffer
        /\ got' \in [Units -> Seq(Nat)]
        /\ abandoned' \in [Units -> BOOLEAN] /\ stopping' \in BOOLEAN
        /\ heard' \in [Units -> Ends \cup {"nothing", "dropped"}]
        /\ main' \in [pc : {"begin", "taking", "shipping", "done", "draining",
                            "leaving", "emptying", "joining", "left"},
                      at : Units \cup {NumUnits + 1}]
        /\ Attended'
    <2>1. CASE Begin \/ Ship \/ Join \/ Raises \/ Drop
      BY <2>1 DEF Begin, Ship, Join, Raises, Drop, At, To, shared, TypeInv, TypeOK, Attended
    <2>2. CASE Take
      <3>1. main.at \in Units /\ Head(Current) \in Entry /\ Tail(Current) \in Seq(Entry)
            /\ Len(Tail(Current)) <= Buffer
        BY <1>3, <2>2 DEF Take, At, TypeInv, Attended
      <3>2. Append(got[main.at], Head(Current).no) \in Seq(Nat)
        BY <3>1 DEF TypeInv, TypeOK, Entry
      <3>3. QED
        BY <2>2, <3>1, <3>2 DEF Take, At, To, Current, TypeInv, TypeOK, Attended
    <2>3. CASE Hear
      <3>1. main.at \in Units /\ Tail(Current) \in Seq(Entry) /\ Len(Tail(Current)) <= Buffer
        BY <1>3, <2>3 DEF Hear, At, TypeInv, Attended
      <3>2. QED
        BY <2>3, <3>1 DEF Hear, At, To, Current, TypeInv, TypeOK, Attended
    <2>4. CASE Done
      BY <2>4 DEF Done, At, To, TypeInv, TypeOK, Attended
    <2>5. CASE Drain \/ Empty
      <3>1. main.at \in Units
        BY <2>5 DEF Drain, Empty, At, TypeInv, Attended
      <3>3. queue' = [queue EXCEPT ![main.at] = empty]
        BY <1>4, <2>5 DEF Drain, Empty
      <3>4. queue' \in [Units -> Seq(Entry)] /\ \A v \in Units : Len(queue'[v]) <= Buffer
        BY <1>4, <3>1, <3>3 DEF TypeInv, TypeOK
      <3>5. main.at # NumUnits => main.at + 1 \in Units
        BY <1>5, <3>1 DEF Units
      <3>6. main' \in [pc : {"begin", "taking", "shipping", "done", "draining",
                           "leaving", "emptying", "joining", "left"},
                     at : Units \cup {NumUnits + 1}] /\ Attended'
        <4>1. CASE main.at = NumUnits
          BY <2>5, <3>1, <4>1 DEF Drain, Empty, At, TypeInv, TypeOK, Attended
        <4>2. CASE main.at # NumUnits
          BY <2>5, <3>1, <3>5, <4>2 DEF Drain, Empty, At, TypeInv, TypeOK, Attended
        <4>3. QED
          BY <4>1, <4>2
      <3>7. QED
        BY <2>5, <3>4, <3>6 DEF Drain, Empty, TypeInv, TypeOK
    <2>6. CASE Stop
      <3>1. NumUnits # 0 => 1 \in Units
        BY <1>5 DEF Units
      <3>2. QED
        BY <2>6, <3>1 DEF Stop, At, TypeInv, TypeOK, Attended
    <2>7. QED
      BY <2>1, <2>2, <2>3, <2>4, <2>5, <2>6 DEF Main, Consumes
  <1>7. QED
    BY <1>1, <1>2, <1>6 DEF TypeInv, TypeOK

LEMMA TypeStep == ASSUME PrefetchAssumption, TypeInv, [Next]_vars PROVE TypeInv'
  <1>1. CASE Main
    BY <1>1, MainType
  <1>2. CASE \E w \in Workers : Worker(w)
    BY <1>2, WorkerType
  <1>3. CASE Over \/ UNCHANGED vars
    <2>1. UNCHANGED vars
      BY <1>3 DEF Over
    <2>2. QED
      BY <2>1 DEF vars, TypeInv, TypeOK, Attended, Placed, Busy
  <1>4. QED
    BY <1>1, <1>2, <1>3 DEF Next

(* Every queue keeps its size, and nobody leaves the sources there are. *)
THEOREM TypeCorrect == PrefetchAssumption => (Spec => []TypeOK)
  <1> SUFFICES ASSUME PrefetchAssumption PROVE Spec => []TypeOK
    OBVIOUS
  <1>1. Init => TypeInv
    BY TypeInit
  <1>2. TypeInv /\ [Next]_vars => TypeInv'
    BY TypeStep
  <1>3. TypeInv => TypeOK
    BY DEF TypeInv
  <1>4. QED
    BY <1>1, <1>2, <1>3, PTL DEF Spec

-----------------------------------------------------------------------------
(* Who is at which source.  A plugin has one thread, which goes through    *)
(* its sources upwards: those ahead of it nobody has touched.              *)
Alone == \A v, w \in Workers :
            Busy(v) /\ Busy(w) /\ v # w => PluginOf[worker[v].at] # PluginOf[worker[w].at]

Ahead(u) ==
    \/ PluginOf[u] >= backlog
    \/ \E w \in Workers : /\ Busy(w) /\ PluginOf[worker[w].at] = PluginOf[u]
                          /\ worker[w].at < u

Untouched == \A u \in Units : Ahead(u) => read[u] = 0 /\ ended[u] = "open" /\ queue[u] = <<>>

(* Where the end of a stream has been put, or heard, its thread is gone.   *)
Marked(u) == \E i \in DOMAIN queue[u] : queue[u][i].kind \in Ends
There(u) == \E w \in Workers : Busy(w) /\ worker[w].at = u
Closed == \A u \in Units : Marked(u) \/ heard[u] \in Ends => ~Ahead(u) /\ ~There(u)

(* Until it is at its end, a stream is open.                               *)
Open == \A w \in Workers :
           worker[w].pc \in {"starting", "reading", "putting", "parked"} => ended[worker[w].at] = "open"

(* The sources the main thread is at or has still to come to.              *)
Coming(u) ==
    \/ main.pc \in {"begin", "taking", "shipping"} /\ main.at <= u
    \/ main.pc \in {"done", "draining"} /\ main.at < u
Unspoilt == \A u \in Units : Coming(u) => ~stopping /\ ~abandoned[u] /\ heard[u] = "nothing"

(* Between what has been taken and what has been read of such a source is  *)
(* what its queue holds, and what its thread is about to put there.        *)
Carried(u) == \E w \in Workers : worker[w].pc \in {"putting", "parked"} /\ worker[w].at = u
Held(u) == Len(got[u]) + Len(queue[u])

Transit(u) ==
    /\ \A i \in DOMAIN queue[u] :
          \/ queue[u][i] = Item(Len(got[u]) + i)
          \/ i = Len(queue[u]) /\ ended[u] \in Ends /\ queue[u][i] = Marker(ended[u])
    /\ Marked(u) => read[u] = Held(u) - 1
    /\ ~Marked(u) /\ Carried(u) => read[u] = Held(u) + 1
    /\ ~Marked(u) /\ ~Carried(u) => read[u] = Held(u)
    /\ \A w \in Workers : worker[w].pc \in {"closing", "barred"} /\ worker[w].at = u
                             => ended[u] = worker[w].mark
InTransit == \A u \in Units : Coming(u) => Transit(u)

Places == Alone /\ Untouched /\ Closed /\ Open
Inv == TypeInv /\ Places /\ Unspoilt /\ InTransit /\ WholeAndInOrder

LEMMA InvInit == PrefetchAssumption /\ Init => Inv
  <1> SUFFICES ASSUME PrefetchAssumption, Init PROVE Inv
    OBVIOUS
  <1>1. TypeInv
    BY TypeInit
  <1>2. /\ \A w \in Workers : worker[w].pc = "idle"
        /\ \A u \in Units : /\ queue[u] = <<>> /\ read[u] = 0 /\ ended[u] = "open"
                            /\ got[u] = <<>> /\ heard[u] = "nothing" /\ ~abandoned[u]
        /\ ~stopping
    BY DEF Init, Idle
  <1>3. \A u \in Units : ~Marked(u) /\ ~Carried(u) /\ DOMAIN queue[u] = {} /\ Held(u) = 0
    <2>1. Len(<<>>) = 0 /\ DOMAIN <<>> = {}
      OBVIOUS
    <2>2. \A u \in Units : ~Marked(u) /\ DOMAIN queue[u] = {}
      BY <1>2, <2>1 DEF Marked
    <2>3. \A u \in Units : ~Carried(u)
      BY <1>2 DEF Carried
    <2>4. ASSUME NEW u \in Units PROVE Held(u) = 0
      <3>1. Len(got[u]) = 0 /\ Len(queue[u]) = 0
        BY <1>2, <2>1
      <3>2. QED
        BY <3>1 DEF Held
    <2>5. QED
      BY <2>2, <2>3, <2>4
  <1>4. Places
    BY <1>2, <1>3 DEF Places, Alone, Untouched, Closed, Open, Busy, Ends
  <1>5. Unspoilt /\ InTransit
    BY <1>2, <1>3 DEF Unspoilt, InTransit, Transit
  <1>6. WholeAndInOrder
    <2>1. Whole(0) = <<>>
      BY DEF Whole
    <2>2. QED
      BY <1>2, <2>1 DEF WholeAndInOrder, Ends
  <1>7. QED
    BY <1>1, <1>4, <1>5, <1>6 DEF Inv

-----------------------------------------------------------------------------
(* What a worker's step does to who is where: those it comes to were ahead *)
(* of everybody, and nobody is ahead of more than before.                  *)
SeatsMove ==
    /\ Alone'
    /\ \A x \in Units : (Ahead(x)' => Ahead(x)) /\ (There(x)' => There(x) \/ Ahead(x))

LEMMA SeatsKept ==
    ASSUME Alone, UNCHANGED backlog,
           \A v \in Workers : worker'[v].at = worker[v].at /\ (Busy(v)' <=> Busy(v))
    PROVE  SeatsMove
  BY DEF SeatsMove, Alone, Ahead, There, Busy

LEMMA PickUpSeats ==
    ASSUME PrefetchAssumption, TypeInv, Alone, NEW w \in Workers, PickUp(w)
    PROVE  SeatsMove
  <1> DEFINE f == FirstUnit(backlog)
  <1>1. f \in Units /\ PluginOf[f] = backlog /\ backlog' = backlog + 1 /\ backlog \in Nat
    BY FirstUnitIsFirst DEF PickUp, TypeInv, TypeOK
  <1>2. /\ worker'[w].at = f /\ Busy(w)' /\ ~Busy(w)
        /\ \A v \in Workers \ {w} : worker'[v] = worker[v]
    BY DEF PickUp, Busy, TypeInv, TypeOK
  <1> HIDE DEF f
  <1>3. \A v \in Workers \ {w} : Busy(v)' => Busy(v) /\ PluginOf[worker[v].at] < backlog
    BY <1>2 DEF Busy, TypeInv, Placed
  <1>4. \A u \in Units : PluginOf[u] \in Nat
    BY DEF PrefetchAssumption
  <1>5. \A v \in Workers : Busy(v) => worker[v].at \in Units
    BY DEF TypeInv, Placed
  <1>6. Alone'
    BY <1>1, <1>2, <1>3, <1>4, <1>5 DEF Alone, Busy
  <1>7. \A x \in Units : Ahead(x)' => Ahead(x)
    BY <1>1, <1>2, <1>3, <1>4 DEF Ahead, Busy
  <1>8. \A x \in Units : There(x)' => There(x) \/ Ahead(x)
    BY <1>1, <1>2 DEF There, Ahead, Busy
  <1>9. QED
    BY <1>6, <1>7, <1>8 DEF SeatsMove

LEMMA NextUnitSeats ==
    ASSUME PrefetchAssumption, TypeInv, Alone, NEW w \in Workers, Busy(w), NextUnit(w),
           UNCHANGED backlog, NEW CONSTANT u, u = worker[w].at
    PROVE  SeatsMove /\ ~Ahead(u)' /\ ~There(u)'
  <1>1. u \in Units /\ u \in Nat /\ PluginOf[u] < backlog /\ PluginOf[u] \in Nat /\ backlog \in Nat
    BY DEF TypeInv, TypeOK, Placed, Units, PrefetchAssumption
  <1>2. /\ \A v \in Workers \ {w} : worker'[v] = worker[v]
        /\ Busy(w)' => worker'[w].at = u + 1 /\ u + 1 \in Units /\ PluginOf[u + 1] = PluginOf[u]
    BY DEF NextUnit, Idle, Busy, TypeInv, TypeOK
  <1>3. \A v \in Workers \ {w} : Busy(v) => PluginOf[worker[v].at] # PluginOf[u]
    BY DEF Alone
  <1>4. Alone'
    BY <1>2, <1>3 DEF Alone, Busy
  <1>5. \A x \in Units : x \in Nat
    BY DEF Units
  <1>6. ASSUME NEW x \in Units, Ahead(x)' PROVE Ahead(x)
    <2>1. CASE PluginOf[x] >= backlog'
      BY <2>1 DEF Ahead
    <2>2. CASE \E v \in Workers : Busy(v)' /\ PluginOf[worker'[v].at] = PluginOf[x] /\ worker'[v].at < x
      <3>1. PICK v \in Workers : Busy(v)' /\ PluginOf[worker'[v].at] = PluginOf[x] /\ worker'[v].at < x
        BY <2>2
      <3>2. CASE v = w
        BY <1>1, <1>2, <1>5, <3>1, <3>2 DEF Ahead
      <3>3. CASE v # w
        BY <1>2, <3>1, <3>3 DEF Ahead, Busy
      <3>4. QED
        BY <3>2, <3>3
    <2>3. QED
      BY <1>6, <2>1, <2>2 DEF Ahead
  <1>7. \A x \in Units : There(x)' => There(x) \/ Ahead(x)
    BY <1>1, <1>2 DEF There, Ahead, Busy
  <1>8. ~Ahead(u)'
    BY <1>1, <1>2, <1>3 DEF Ahead, Busy
  <1>9. ~There(u)'
    BY <1>1, <1>2, <1>3 DEF There, Busy
  <1>10. QED
    BY <1>4, <1>6, <1>7, <1>8, <1>9 DEF SeatsMove

(* Where a worker's step leaves the other workers and the other sources.   *)
Elsewhere(w) ==
    /\ \A v \in Workers \ {w} : worker'[v] = worker[v]
    /\ \A x \in Units : ~(Busy(w) /\ worker[w].at = x)
                           => queue'[x] = queue[x] /\ read'[x] = read[x] /\ ended'[x] = ended[x]
    /\ \/ Busy(w) /\ worker'[w].at = worker[w].at
       \/ worker'[w].pc \in {"idle", "starting"}
    /\ SeatsMove

LEMMA WorkerElsewhere ==
    ASSUME PrefetchAssumption, TypeInv, Alone, NEW w \in Workers, Worker(w)
    PROVE  Elsewhere(w)
  <1>1. \A v \in Workers \ {w} : worker'[v] = worker[v]
    BY DEF Worker, PickUp, Start, Yields, StreamEnds, Put, Enters, WaitsAgain, Finish, Barred,
           LooksAround, Goes, Close, Stopped, NextUnit, TypeInv, TypeOK
  <1>2. Busy(w) => worker[w].at \in Units
    BY DEF TypeInv, Placed
  <1>3. ASSUME NEW x \in Units, ~(Busy(w) /\ worker[w].at = x)
        PROVE  queue'[x] = queue[x] /\ read'[x] = read[x] /\ ended'[x] = ended[x]
    BY <1>2, <1>3 DEF Worker, PickUp, Start, Yields, StreamEnds, Put, Enters, WaitsAgain, Finish, Barred,
           LooksAround, Stopped, Busy, TypeInv, TypeOK
  <1>4. \/ PickUp(w)
        \/ Busy(w) /\ NextUnit(w) /\ UNCHANGED backlog
        \/ /\ Busy(w) /\ Busy(w)' /\ worker'[w].at = worker[w].at /\ UNCHANGED backlog
    <2>1. worker \in [Workers -> Thread]
      BY DEF TypeInv, TypeOK
    <2>2. CASE Start(w) \/ Put(w)
      BY <2>1, <2>2 DEF Start, Put, Goes, Close, Busy, Thread
    <2>3. CASE Yields(w) \/ Enters(w) \/ WaitsAgain(w) \/ Barred(w)
      BY <2>1, <2>3 DEF Yields, Enters, WaitsAgain, Barred, Goes, Busy, Thread
    <2>4. CASE StreamEnds(w)
      BY <2>1, <2>4 DEF StreamEnds, Stopped, Busy, Thread
    <2>5. CASE Finish(w)
      BY <2>5 DEF Finish, Busy
    <2>6. CASE LooksAround(w)
      BY <2>1, <2>6 DEF LooksAround, Goes, Busy, Thread
    <2>7. QED
      BY <2>2, <2>3, <2>4, <2>5, <2>6 DEF Worker
  <1>5. CASE PickUp(w)
    <2>1. worker'[w].pc = "starting"
      BY <1>5 DEF PickUp, TypeInv, TypeOK
    <2>2. QED
      BY <1>1, <1>3, <1>5, <2>1, PickUpSeats DEF Elsewhere
  <1>6. CASE Busy(w) /\ NextUnit(w) /\ UNCHANGED backlog
    <2>1. worker'[w].pc \in {"idle", "starting"}
      BY <1>6 DEF NextUnit, Idle, TypeInv, TypeOK
    <2>2. QED
      BY <1>1, <1>3, <1>6, <2>1, NextUnitSeats DEF Elsewhere
  <1>7. CASE Busy(w) /\ Busy(w)' /\ worker'[w].at = worker[w].at /\ UNCHANGED backlog
    <2>1. SeatsMove
      BY <1>1, <1>7, SeatsKept DEF Busy
    <2>2. QED
      BY <1>1, <1>3, <1>7, <2>1 DEF Elsewhere
  <1>8. QED
    BY <1>4, <1>5, <1>6, <1>7

(* What holds of the source a worker is at. *)
LEMMA AtSource ==
    ASSUME PrefetchAssumption, TypeInv, Places, NEW w \in Workers, Busy(w),
           NEW CONSTANT u, u = worker[w].at
    PROVE  /\ u \in Units /\ ~Ahead(u) /\ ~Marked(u) /\ heard[u] \notin Ends
           /\ \A v \in Workers \ {w} : Busy(v) => worker[v].at # u
  <1>1. u \in Units /\ u \in Nat /\ PluginOf[u] < backlog /\ PluginOf[u] \in Nat /\ backlog \in Nat
    BY DEF TypeInv, TypeOK, Placed, Units, PrefetchAssumption
  <1>2. \A v \in Workers \ {w} : Busy(v) => PluginOf[worker[v].at] # PluginOf[u]
    BY DEF Places, Alone
  <1>3. ~Ahead(u)
    BY <1>1, <1>2 DEF Ahead
  <1>4. There(u)
    BY DEF There
  <1>5. QED
    BY <1>1, <1>2, <1>3, <1>4 DEF Places, Closed

(* What a worker's step has to show of its own source.                     *)
AtOwn(w) ==
    /\ worker'[w].pc \in {"starting", "reading", "putting", "parked"} => ended'[worker'[w].at] = "open"
    /\ \A u \in Units : Busy(w) /\ worker[w].at = u =>
          /\ Marked(u)' => ~There(u)'
          /\ Coming(u) => Transit(u)'

LEMMA WorkerFrame ==
    ASSUME PrefetchAssumption, Inv, NEW w \in Workers, Worker(w), AtOwn(w)
    PROVE  Places' /\ Unspoilt' /\ InTransit' /\ WholeAndInOrder'
  <1>0. Elsewhere(w) /\ UNCHANGED <<abandoned, stopping, main, got, heard>>
    BY WorkerElsewhere DEF Worker, consumer, Inv, Places
  <1>1. ASSUME NEW x \in Units, Busy(w), worker[w].at = x
        PROVE  ~Ahead(x)' /\ ~Marked(x) /\ heard'[x] \notin Ends
    BY <1>0, <1>1, AtSource DEF Inv, Elsewhere, SeatsMove
  <1>2. ASSUME NEW x \in Units, ~(Busy(w) /\ worker[w].at = x)
        PROVE  queue'[x] = queue[x] /\ read'[x] = read[x] /\ ended'[x] = ended[x]
    BY <1>0, <1>2 DEF Elsewhere
  <1>3. \A x \in Units : (Ahead(x)' => Ahead(x)) /\ (There(x)' => There(x) \/ Ahead(x))
    BY <1>0 DEF Elsewhere, SeatsMove
  <1>4. Untouched'
    BY <1>1, <1>2, <1>3 DEF Inv, Places, Untouched
  <1>5. Closed'
    <2>1. ASSUME NEW x \in Units, Marked(x)' \/ heard'[x] \in Ends
          PROVE  ~Ahead(x)' /\ ~There(x)'
      <3>1. CASE Busy(w) /\ worker[w].at = x
        BY <1>1, <2>1, <3>1 DEF AtOwn
      <3>2. CASE ~(Busy(w) /\ worker[w].at = x)
        <4>1. Marked(x) \/ heard[x] \in Ends
          BY <1>0, <1>2, <2>1, <3>2 DEF Marked
        <4>2. QED
          BY <1>3, <4>1 DEF Inv, Places, Closed
      <3>3. QED
        BY <3>1, <3>2
    <2>2. QED
      BY <2>1 DEF Closed
  <1>6. Open'
    <2>1. ASSUME NEW v \in Workers, worker'[v].pc \in {"starting", "reading", "putting", "parked"}
          PROVE  ended'[worker'[v].at] = "open"
      <3>1. CASE v = w
        BY <2>1, <3>1 DEF AtOwn
      <3>2. CASE v # w
        <4>1. worker'[v] = worker[v] /\ Busy(v) /\ worker[v].at \in Units
          BY <1>0, <2>1, <3>2 DEF Elsewhere, Inv, TypeInv, Placed, Busy
        <4>2. ~(Busy(w) /\ worker[w].at = worker[v].at)
          BY <3>2, <4>1 DEF Inv, Places, Alone
        <4>3. QED
          BY <1>2, <2>1, <4>1, <4>2 DEF Inv, Places, Open
      <3>3. QED
        BY <3>1, <3>2
    <2>2. QED
      BY <2>1 DEF Open
  <1>7. Unspoilt'
    BY <1>0 DEF Inv, Unspoilt, Coming
  <1>8. InTransit'
    <2>1. ASSUME NEW x \in Units, Coming(x) PROVE Transit(x)'
      <3>1. CASE Busy(w) /\ worker[w].at = x
        BY <2>1, <3>1 DEF AtOwn
      <3>2. CASE ~(Busy(w) /\ worker[w].at = x)
        <4>1. Marked(x)' = Marked(x) /\ Held(x)' = Held(x)
          BY <1>0, <1>2, <3>2 DEF Marked, Held
        <4>2. \A v \in Workers : /\ worker'[v].pc \in {"putting", "parked", "closing", "barred"} /\ worker'[v].at = x
                                    => worker'[v] = worker[v]
                                 /\ worker[v].pc \in {"putting", "parked", "closing", "barred"} /\ worker[v].at = x
                                    => worker'[v] = worker[v]
          BY <1>0, <3>2 DEF Elsewhere, Busy
        <4>3. Carried(x)' = Carried(x)
          BY <4>2 DEF Carried
        <4>4. Transit(x)
          BY <2>1 DEF Inv, InTransit
        <4>5. QED
          BY <1>0, <1>2, <3>2, <4>1, <4>2, <4>3, <4>4 DEF Transit
      <3>3. QED
        BY <3>1, <3>2
    <2>2. QED
      BY <1>0, <2>1 DEF InTransit, Coming
  <1>9. WholeAndInOrder'
    BY <1>0, <1>1, <1>2 DEF Inv, WholeAndInOrder
  <1>10. QED
    BY <1>0, <1>4, <1>5, <1>6, <1>7, <1>8, <1>9 DEF Places, Elsewhere, SeatsMove

(* A step within a source: the thread goes from pc to next, with mark.     *)
Within(w, u, next) ==
    /\ worker'[w].pc = next /\ worker'[w].at = u
    /\ \A v \in Workers \ {w} : worker'[v] = worker[v]

LEMMA GoesWithin ==
    ASSUME TypeInv, NEW w \in Workers, NEW next, Goes(w, next)
    PROVE  Within(w, worker[w].at, next) /\ worker'[w].mark = worker[w].mark
  BY DEF Goes, Within, TypeInv, TypeOK, Thread

LEMMA CloseWithin ==
    ASSUME TypeInv, NEW w \in Workers, NEW mark,
           worker' = [worker EXCEPT ![w].pc = "closing", ![w].mark = mark]
    PROVE  Within(w, worker[w].at, "closing") /\ worker'[w].mark = mark
  BY DEF Within, TypeInv, TypeOK, Thread

(* What is known of the source of a worker, when its queue may be needed.  *)
LEMMA OwnComing ==
    ASSUME PrefetchAssumption, Inv, NEW w \in Workers, Busy(w),
           NEW CONSTANT u, u = worker[w].at, Coming(u)
    PROVE  /\ ~Unheard(u) /\ heard[u] = "nothing"
           /\ \A i \in DOMAIN queue[u] : queue[u][i] = Item(Len(got[u]) + i)
           /\ worker[w].pc \in {"putting", "parked"} => read[u] = Held(u) + 1
           /\ worker[w].pc \notin {"putting", "parked"} => read[u] = Held(u)
           /\ worker[w].pc \in {"closing", "barred"} => ended[u] = worker[w].mark
           /\ queue[u] \in Seq(Entry) /\ Len(got[u]) \in Nat
  <1>1. u \in Units /\ ~Marked(u) /\ \A v \in Workers \ {w} : Busy(v) => worker[v].at # u
    BY AtSource DEF Inv
  <1>2. Transit(u) /\ ~Unheard(u) /\ heard[u] = "nothing"
    BY <1>1 DEF Inv, InTransit, Unspoilt, Unheard
  <1>3. \A i \in DOMAIN queue[u] : queue[u][i] = Item(Len(got[u]) + i)
    BY <1>1, <1>2 DEF Transit, Marked, Marker
  <1>4. Carried(u) <=> worker[w].pc \in {"putting", "parked"}
    BY <1>1 DEF Carried, Busy
  <1>5. queue[u] \in Seq(Entry) /\ got[u] \in Seq(Nat)
    BY <1>1 DEF Inv, TypeInv, TypeOK
  <1>6. QED
    BY <1>1, <1>2, <1>3, <1>4, <1>5, LenProperties DEF Transit

(* ... and what of it has to hold when the worker stays there.             *)
OwnNext(w, u, next) ==
    /\ \A i \in DOMAIN queue'[u] : queue'[u][i].kind = "item"
    /\ next \in {"reading", "putting", "parked"} => ended'[u] = "open"
    /\ Coming(u) =>
          /\ \A i \in DOMAIN queue'[u] : queue'[u][i] = Item(Len(got[u]) + i)
          /\ next \in {"putting", "parked"} => read'[u] = Len(got[u]) + Len(queue'[u]) + 1
          /\ next \notin {"putting", "parked"} => read'[u] = Len(got[u]) + Len(queue'[u])
          /\ next \in {"closing", "barred"} => ended'[u] = worker'[w].mark

LEMMA OwnWithin ==
    ASSUME PrefetchAssumption, Inv, NEW w \in Workers, Busy(w),
           NEW CONSTANT u, u = worker[w].at, NEW next \in {"reading", "putting", "parked", "closing", "barred"},
           Within(w, u, next), UNCHANGED got, OwnNext(w, u, next)
    PROVE  AtOwn(w)
  <1>1. u \in Units /\ \A v \in Workers \ {w} : Busy(v) => worker[v].at # u
    BY AtSource DEF Inv
  <1>2. ~Marked(u)'
    BY DEF Marked, Ends, OwnNext
  <1>3. \A v \in Workers \ {w} : Busy(v)' => worker'[v].at # u
    BY <1>1 DEF Within, Busy
  <1>4. Carried(u)' <=> next \in {"putting", "parked"}
    BY <1>3 DEF Carried, Within, Busy
  <1>5. Coming(u) => Transit(u)'
    BY <1>2, <1>3, <1>4 DEF Transit, Held, Within, Busy, OwnNext
  <1>6. QED
    BY <1>1, <1>2, <1>5 DEF AtOwn, Within, OwnNext

(* Steps that put nothing in the queue.                                    *)
LEMMA QuietOwn ==
    ASSUME PrefetchAssumption, Inv, NEW w \in Workers, Worker(w),
           Start(w) \/ Yields(w) \/ StreamEnds(w) \/ Put(w) \/ WaitsAgain(w) \/ Barred(w)
           \/ (LooksAround(w) /\ ~Unheard(worker[w].at))
    PROVE  AtOwn(w)
  <1>1. Busy(w) /\ worker[w].at \in Units /\ UNCHANGED <<queue, abandoned, stopping, main, got, heard>>
    BY DEF Worker, consumer, Start, Yields, StreamEnds, Put, WaitsAgain, Barred, LooksAround,
           Busy, Inv, TypeInv, Placed
  <1>2. PICK u \in Units : u = worker[w].at
    BY <1>1
  <1>3. /\ ~Marked(u) /\ TypeInv /\ read[u] \in Nat
        /\ \A i \in DOMAIN queue[u] : queue[u][i].kind = "item"
    <2>1. ~Marked(u) /\ queue[u] \in Seq(Entry) /\ read[u] \in Nat
      BY <1>1, <1>2, AtSource DEF Inv, TypeInv, TypeOK
    <2>2. \A i \in DOMAIN queue[u] : queue[u][i] \in Entry
      BY <2>1
    <2>3. QED
      BY <2>1, <2>2 DEF Marked, Entry, Inv
  <1>4. worker[w].pc \in {"starting", "reading", "putting", "parked"} => ended[u] = "open"
    BY <1>2 DEF Inv, Places, Open
  <1> DEFINE held == Len(got[u]) + Len(queue[u])
  <1>13. held \in Nat
    BY LenProperties DEF Inv, TypeInv, TypeOK
  <1>14. Coming(u) => /\ \A i \in DOMAIN queue'[u] : queue'[u][i] = Item(Len(got[u]) + i)
                      /\ worker[w].pc \in {"putting", "parked"} => read[u] = held + 1
                      /\ worker[w].pc \notin {"putting", "parked"} => read[u] = held
                      /\ worker[w].pc \in {"closing", "barred"} => ended[u] = worker[w].mark
    BY <1>1, <1>2, OwnComing DEF Held
  <1>15. Len(got[u]) + Len(queue'[u]) = held /\ \A i \in DOMAIN queue'[u] : queue'[u][i].kind = "item"
    BY <1>1, <1>3
  <1> HIDE DEF held
  <1>5. CASE Start(w)
    <2>1. UNCHANGED <<read, ended>> /\ worker[w].pc = "starting"
      BY <1>5 DEF Start
    <2>2. CASE stopping
      <3>1. Within(w, u, "closing") /\ ~Coming(u)
        BY <1>2, <1>3, <1>5, <2>2, CloseWithin DEF Start, Close, Inv, Unspoilt
      <3>2. OwnNext(w, u, "closing")
        BY <1>1, <1>2, <1>3, <1>15, <3>1 DEF OwnNext
      <3>3. QED
        BY <1>1, <1>2, <3>2, <3>1, OwnWithin
    <2>3. CASE ~stopping
      <3>1. Within(w, u, "reading")
        BY <1>2, <1>3, <1>5, <2>3, GoesWithin DEF Start
      <3>2. OwnNext(w, u, "reading")
        BY <1>1, <1>2, <1>3, <1>4, <1>13, <1>14, <1>15, <2>1, <3>1 DEF OwnNext
      <3>3. QED
        BY <1>1, <1>2, <3>2, <3>1, OwnWithin
    <2>4. QED
      BY <2>2, <2>3
  <1>6. CASE Yields(w)
    <2>1. UNCHANGED ended /\ worker[w].pc = "reading" /\ read'[u] = read[u] + 1
      BY <1>2, <1>6 DEF Yields, Inv, TypeInv, TypeOK
    <2>2. Within(w, u, "putting")
      BY <1>2, <1>3, <1>6, GoesWithin DEF Yields
    <2>3. OwnNext(w, u, "putting")
      BY <1>1, <1>2, <1>3, <1>4, <1>13, <1>14, <1>15, <2>1, <2>2 DEF OwnNext
    <2>4. QED
      BY <1>1, <1>2, <2>3, <2>2, OwnWithin
  <1>7. CASE StreamEnds(w)
    <2>1. PICK how \in Ends : Stopped(w, how)
      BY <1>7 DEF StreamEnds
    <2>2. UNCHANGED read /\ worker[w].pc = "reading" /\ ended'[u] = how
      BY <1>2, <1>7, <2>1 DEF StreamEnds, Stopped, Inv, TypeInv, TypeOK
    <2>3. Within(w, u, "closing") /\ worker'[w].mark = how
      BY <1>2, <1>3, <2>1, CloseWithin DEF Stopped
    <2>4. OwnNext(w, u, "closing")
      BY <1>1, <1>2, <1>3, <1>13, <1>14, <1>15, <2>2, <2>3 DEF OwnNext
    <2>5. QED
      BY <1>1, <1>2, <2>4, <2>3, OwnWithin
  <1>8. CASE Put(w)
    <2>1. UNCHANGED <<read, ended>> /\ worker[w].pc = "putting"
      BY <1>8 DEF Put
    <2>2. CASE Unheard(u)
      <3>1. Within(w, u, "closing") /\ ~Coming(u)
        BY <1>2, <1>3, <1>8, <2>2, CloseWithin DEF Put, Close, Inv, Unspoilt, Unheard
      <3>2. OwnNext(w, u, "closing")
        BY <1>1, <1>2, <1>3, <1>15, <3>1 DEF OwnNext
      <3>3. QED
        BY <1>1, <1>2, <3>2, <3>1, OwnWithin
    <2>3. CASE ~Unheard(u)
      <3>1. Within(w, u, "parked")
        BY <1>2, <1>3, <1>8, <2>3, GoesWithin DEF Put
      <3>2. OwnNext(w, u, "parked")
        BY <1>1, <1>2, <1>3, <1>4, <1>13, <1>14, <1>15, <2>1, <3>1 DEF OwnNext
      <3>3. QED
        BY <1>1, <1>2, <3>2, <3>1, OwnWithin
    <2>4. QED
      BY <2>2, <2>3
  <1>9. CASE WaitsAgain(w)
    <2>1. UNCHANGED <<read, ended>> /\ worker[w].pc = "parked" /\ Within(w, u, "putting")
      BY <1>2, <1>3, <1>9, GoesWithin DEF WaitsAgain
    <2>2. OwnNext(w, u, "putting")
      BY <1>1, <1>2, <1>3, <1>4, <1>13, <1>14, <1>15, <2>1 DEF OwnNext
    <2>3. QED
      BY <1>1, <1>2, <2>2, <2>1, OwnWithin
  <1>10. CASE Barred(w)
    <2>1. /\ UNCHANGED <<read, ended>> /\ worker[w].pc = "closing"
          /\ Within(w, u, "barred") /\ worker'[w].mark = worker[w].mark
      BY <1>2, <1>3, <1>10, GoesWithin DEF Barred
    <2>2. OwnNext(w, u, "barred")
      BY <1>1, <1>2, <1>3, <1>13, <1>14, <1>15, <2>1 DEF OwnNext
    <2>3. QED
      BY <1>1, <1>2, <2>2, <2>1, OwnWithin
  <1>11. CASE LooksAround(w) /\ ~Unheard(worker[w].at)
    <2>1. /\ UNCHANGED <<read, ended>> /\ worker[w].pc = "barred"
          /\ Within(w, u, "closing") /\ worker'[w].mark = worker[w].mark
      BY <1>2, <1>3, <1>11, GoesWithin DEF LooksAround
    <2>2. OwnNext(w, u, "closing")
      BY <1>1, <1>2, <1>3, <1>13, <1>14, <1>15, <2>1 DEF OwnNext
    <2>3. QED
      BY <1>1, <1>2, <2>2, <2>1, OwnWithin
  <1>12. QED
    BY <1>5, <1>6, <1>7, <1>8, <1>9, <1>10, <1>11

(* An item goes to the end of its source's queue.                          *)
LEMMA EntersOwn ==
    ASSUME PrefetchAssumption, Inv, NEW w \in Workers, Worker(w), Enters(w)
    PROVE  AtOwn(w)
  <1>1. /\ Busy(w) /\ worker[w].at \in Units /\ worker[w].pc = "parked"
        /\ UNCHANGED <<read, ended, main, got, heard>>
    BY DEF Worker, consumer, Enters, Busy, Inv, TypeInv, Placed
  <1>2. PICK u \in Units : u = worker[w].at
    BY <1>1
  <1>3. queue'[u] = Append(queue[u], Item(read[u])) /\ queue[u] \in Seq(Entry) /\ Item(read[u]) \in Entry
    BY <1>2 DEF Enters, Inv, TypeInv, TypeOK, Item, Entry
  <1>4. /\ Len(queue'[u]) = Len(queue[u]) + 1 /\ Len(queue[u]) \in Nat
        /\ DOMAIN queue'[u] = 1 .. Len(queue[u]) + 1 /\ DOMAIN queue[u] = 1 .. Len(queue[u])
        /\ \A i \in DOMAIN queue[u] : queue'[u][i] = queue[u][i]
        /\ queue'[u][Len(queue[u]) + 1] = Item(read[u])
    BY <1>3, AppendProperties, LenProperties
  <1>5. \A i \in DOMAIN queue'[u] : i \in DOMAIN queue[u] \/ i = Len(queue[u]) + 1
    BY <1>4
  <1>6. \A i \in DOMAIN queue[u] : queue[u][i].kind = "item"
    <2>1. ~Marked(u)
      BY <1>1, <1>2, AtSource DEF Inv
    <2>2. \A i \in DOMAIN queue[u] : queue[u][i] \in Entry
      BY <1>3
    <2>3. QED
      BY <2>1, <2>2 DEF Marked, Entry
  <1>7. \A i \in DOMAIN queue'[u] : queue'[u][i].kind = "item"
    BY <1>4, <1>5, <1>6 DEF Item
  <1>8. Within(w, u, "reading") /\ ended'[u] = "open"
    BY <1>1, <1>2, GoesWithin DEF Enters, Inv, Places, Open
  <1>9. ASSUME Coming(u)
        PROVE  /\ \A i \in DOMAIN queue'[u] : queue'[u][i] = Item(Len(got[u]) + i)
               /\ read'[u] = Len(got[u]) + Len(queue'[u])
    <2>1. /\ \A i \in DOMAIN queue[u] : queue[u][i] = Item(Len(got[u]) + i)
          /\ read[u] = Held(u) + 1 /\ Len(got[u]) \in Nat
      BY <1>1, <1>2, <1>9, OwnComing
    <2>2. read[u] = Len(got[u]) + (Len(queue[u]) + 1)
      <3>1. read[u] = Len(got[u]) + Len(queue[u]) + 1
        BY <2>1 DEF Held
      <3>2. \A a, b \in Nat : a + b + 1 = a + (b + 1)
        OBVIOUS
      <3>3. QED
        BY <1>4, <2>1, <3>1, <3>2
    <2>3. QED
      BY <1>1, <1>4, <1>5, <2>1, <2>2
  <1>10. QED
    <2>1. Len(got[u]) \in Nat /\ Len(queue'[u]) \in Nat
      BY <1>2, <1>4, LenProperties DEF Inv, TypeInv, TypeOK
    <2>2. OwnNext(w, u, "reading")
      BY <1>1, <1>2, <1>7, <1>8, <1>9, <2>1 DEF OwnNext
    <2>3. QED
      BY <1>1, <1>2, <2>2, <1>8, OwnWithin

(* The source a plugin's thread goes on to is open.                        *)
LEMMA NextIsOpen ==
    ASSUME PrefetchAssumption, Inv, NEW w \in Workers, Busy(w), NextUnit(w), UNCHANGED <<backlog, ended>>
    PROVE  worker'[w].pc \in {"starting", "reading", "putting", "parked"} => ended'[worker'[w].at] = "open"
  <1>1. PICK u \in Units : u = worker[w].at
    BY DEF Inv, TypeInv, Placed
  <1>2. \/ worker'[w] = Idle
        \/ u + 1 \in Units /\ PluginOf[u + 1] = PluginOf[u] /\ worker'[w].at = u + 1
    BY <1>1 DEF NextUnit, Inv, TypeInv, TypeOK
  <1>3. u < u + 1
    BY DEF Units
  <1>4. u + 1 \in Units /\ PluginOf[u + 1] = PluginOf[u] => Ahead(u + 1)
    BY <1>1, <1>3 DEF Ahead
  <1>5. QED
    BY <1>2, <1>4 DEF Inv, Places, Untouched, Idle

(* Nobody listens any more: the thread goes on without an end marker.      *)
LEMMA LeavesOwn ==
    ASSUME PrefetchAssumption, Inv, NEW w \in Workers, Worker(w), LooksAround(w), Unheard(worker[w].at)
    PROVE  AtOwn(w)
  <1>1. Busy(w) /\ NextUnit(w) /\ UNCHANGED <<queue, backlog, read, ended>>
    BY DEF LooksAround, Busy
  <1>2. ASSUME NEW u \in Units, u = worker[w].at PROVE ~Marked(u)' /\ ~Coming(u)
    <2>1. ~Marked(u)
      BY <1>1, <1>2, AtSource DEF Inv
    <2>2. QED
      BY <1>1, <1>2, <2>1 DEF Marked, Inv, Unspoilt, Unheard
  <1>3. QED
    BY <1>1, <1>2, NextIsOpen DEF AtOwn

(* The end marker goes in behind all the items, and the thread away.       *)
LEMMA FinishOwn ==
    ASSUME PrefetchAssumption, Inv, NEW w \in Workers, Worker(w), Finish(w)
    PROVE  AtOwn(w)
  <1>1. Busy(w) /\ NextUnit(w) /\ worker[w].pc = "closing" /\ UNCHANGED <<backlog, read, ended, main, got>>
    BY DEF Finish, Busy, Worker, consumer
  <1>2. ASSUME NEW u \in Units, u = worker[w].at
        PROVE  ~There(u)' /\ (Coming(u) => Transit(u)')
    <2> DEFINE mark == worker[w].mark
               n == Len(queue[u])
    <2>1. ~There(u)'
      BY <1>1, <1>2, NextUnitSeats DEF Inv, Places
    <2>2. mark \in Ends /\ Marker(mark) \in Entry
      BY DEF Marker, Entry, Inv, TypeInv, TypeOK, Thread
    <2>3. queue'[u] = Append(queue[u], Marker(mark)) /\ queue[u] \in Seq(Entry) /\ n \in Nat
      BY <1>2, LenProperties DEF Finish, Inv, TypeInv, TypeOK
    <2>4. /\ Len(queue'[u]) = n + 1 /\ DOMAIN queue'[u] = 1 .. n + 1 /\ DOMAIN queue[u] = 1 .. n
          /\ \A i \in DOMAIN queue[u] : queue'[u][i] = queue[u][i]
          /\ queue'[u][n + 1] = Marker(mark)
      BY <2>2, <2>3, AppendProperties, LenProperties
    <2> HIDE DEF mark, n
    <2>5. \A i \in DOMAIN queue'[u] : i \in DOMAIN queue[u] \/ i = n + 1
      BY <2>3, <2>4
    <2>6. Marked(u)'
      <3>1. n + 1 \in DOMAIN queue'[u] /\ queue'[u][n + 1].kind \in Ends
        BY <2>2, <2>3, <2>4 DEF Marker
      <3>2. QED
        BY <3>1 DEF Marked
    <2>7. ASSUME Coming(u) PROVE Transit(u)'
      <3>1. /\ \A i \in DOMAIN queue[u] : queue[u][i] = Item(Len(got[u]) + i)
            /\ read[u] = Held(u) /\ ended[u] = mark /\ Len(got[u]) \in Nat
        BY <1>1, <1>2, <2>7, OwnComing DEF mark
      <3>2. read'[u] = Held(u)' - 1
        <4>1. Held(u) = Len(got[u]) + n /\ Held(u)' = Len(got[u]) + (n + 1)
          BY <1>1, <2>4 DEF Held, n
        <4>2. \A a, b \in Nat : a + b = (a + (b + 1)) - 1
          OBVIOUS
        <4>3. QED
          BY <1>1, <2>3, <3>1, <4>1, <4>2
      <3>3. ASSUME NEW i \in DOMAIN queue'[u]
            PROVE  \/ queue'[u][i] = Item(Len(got'[u]) + i)
                   \/ i = Len(queue'[u]) /\ ended'[u] \in Ends /\ queue'[u][i] = Marker(ended'[u])
        BY <1>1, <2>2, <2>4, <2>5, <3>1, <3>3
      <3>4. \A v \in Workers : ~(worker'[v].pc \in {"closing", "barred"} /\ worker'[v].at = u)
        BY <2>1 DEF There, Busy
      <3>5. QED
        BY <2>6, <3>2, <3>3, <3>4 DEF Transit
    <2>8. QED
      BY <2>1, <2>7
  <1>3. QED
    BY <1>1, <1>2, NextIsOpen DEF AtOwn

LEMMA WorkerInv ==
    ASSUME PrefetchAssumption, Inv, NEW w \in Workers, Worker(w) PROVE Inv'
  <1>1. CASE PickUp(w)
    <2>1. FirstUnit(backlog) \in Units /\ Ahead(FirstUnit(backlog))
      BY <1>1, FirstUnitIsFirst DEF PickUp, Ahead, Inv, TypeInv, TypeOK
    <2>2. worker'[w].at = FirstUnit(backlog) /\ ~Busy(w) /\ UNCHANGED ended
      BY <1>1 DEF PickUp, Busy, Inv, TypeInv, TypeOK
    <2>3. AtOwn(w)
      BY <2>1, <2>2 DEF AtOwn, Inv, Places, Untouched
    <2>4. QED
      BY <2>3, WorkerFrame, WorkerType DEF Inv
  <1>2. CASE ~PickUp(w)
    <2>1. AtOwn(w)
      BY <1>2, QuietOwn, EntersOwn, FinishOwn, LeavesOwn DEF Worker
    <2>2. QED
      BY <2>1, WorkerFrame, WorkerType DEF Inv
  <1>3. QED
    BY <1>1, <1>2

-----------------------------------------------------------------------------
(* The main thread takes from the front of one queue, or empties it.       *)
Served(u) ==
    /\ Coming(u)' => Coming(u)
    /\ \/ UNCHANGED <<queue[u], got[u]>>
       \/ queue'[u] = <<>> /\ got'[u] = got[u] /\ ~Coming(u)'
       \/ /\ queue[u] \in Seq(Entry) /\ queue[u] # <<>> /\ queue'[u] = Tail(queue[u])
          /\ \/ got'[u] = got[u] /\ ~Coming(u)'
             \/ /\ Coming(u) /\ Head(queue[u]).kind = "item"
                /\ got'[u] = Append(got[u], Head(queue[u]).no)
    /\ Coming(u)' => ~stopping' /\ ~abandoned'[u] /\ heard'[u] = "nothing"
    /\ \/ heard'[u] = heard[u]
       \/ heard'[u] = "dropped"
       \/ /\ Coming(u) /\ queue[u] # <<>> /\ Head(queue[u]).kind \in Ends
          /\ heard'[u] = Head(queue[u]).kind /\ got'[u] = got[u]

LEMMA MainServes ==
    ASSUME PrefetchAssumption, Inv, Main, NEW u \in Units PROVE Served(u)
  <1>1. /\ main.at \in Units \cup {NumUnits + 1} /\ u \in Nat /\ main.at \in Nat
        /\ queue \in [Units -> Seq(Entry)] /\ got \in [Units -> Seq(Nat)]
        /\ abandoned \in [Units -> BOOLEAN] /\ heard \in [Units -> Ends \cup {"nothing", "dropped"}]
        /\ main.pc \in {"begin", "taking", "shipping", "done", "draining",
                        "leaving", "emptying", "joining", "left"}
        /\ main \in [pc : {"begin", "taking", "shipping", "done", "draining",
                           "leaving", "emptying", "joining", "left"},
                     at : Units \cup {NumUnits + 1}]
    BY DEF Inv, TypeInv, TypeOK, Units, PrefetchAssumption
  <1>2. Coming(u) => ~stopping /\ ~abandoned[u] /\ heard[u] = "nothing"
    BY DEF Inv, Unspoilt
  <1>3. CASE Begin \/ Ship \/ Join \/ Raises
    <2>1. UNCHANGED <<queue, got, heard, abandoned, stopping>>
      BY <1>3 DEF Begin, Ship, Join, Raises, shared
    <2>2. Coming(u)' => Coming(u)
      BY <1>1, <1>3 DEF Begin, Ship, Join, Raises, At, To, Coming
    <2>3. QED
      BY <1>2, <2>1, <2>2 DEF Served
  <1>4. CASE Take
    <2>1. main'.pc = "shipping" /\ main'.at = main.at /\ UNCHANGED <<heard, abandoned, stopping>>
      BY <1>1, <1>4 DEF Take, At, To
    <2>2. (Coming(u)' <=> Coming(u)) /\ (u = main.at => Coming(u))
      BY <1>1, <1>4, <2>1 DEF Coming, Take, At
    <2>3. CASE u = main.at
      BY <1>1, <1>2, <1>4, <2>1, <2>2, <2>3 DEF Served, Take, Current
    <2>4. CASE u # main.at
      <3>1. UNCHANGED <<queue[u], got[u]>>
        BY <1>1, <1>4, <2>4 DEF Take
      <3>2. QED
        BY <1>2, <2>1, <2>2, <3>1 DEF Served
    <2>5. QED
      BY <2>3, <2>4
  <1>5. CASE Hear
    <2>1. main'.pc = "done" /\ main'.at = main.at /\ UNCHANGED <<got, abandoned, stopping>>
      BY <1>1, <1>5 DEF Hear, At, To
    <2>2. (Coming(u)' => Coming(u)) /\ (u = main.at => Coming(u) /\ ~Coming(u)')
      BY <1>1, <1>5, <2>1 DEF Coming, Hear, At
    <2>3. CASE u = main.at
      BY <1>1, <1>2, <1>5, <2>1, <2>2, <2>3 DEF Served, Hear, Current
    <2>4. CASE u # main.at
      <3>1. UNCHANGED <<queue[u], got[u], heard[u]>>
        BY <1>1, <1>5, <2>4 DEF Hear
      <3>2. QED
        BY <1>2, <2>1, <2>2, <3>1 DEF Served
    <2>5. QED
      BY <2>3, <2>4
  <1>6. CASE Drop
    <2>1. main'.pc = "done" /\ main'.at = main.at /\ UNCHANGED <<queue, got, abandoned, stopping>>
      BY <1>1, <1>6 DEF Drop, At, To, shared
    <2>2. (Coming(u)' => Coming(u)) /\ (u = main.at => ~Coming(u)')
      BY <1>1, <1>6, <2>1 DEF Coming, Drop, At
    <2>3. IF u = main.at THEN heard'[u] = "dropped" ELSE heard'[u] = heard[u]
      BY <1>1, <1>6 DEF Drop
    <2>4. QED
      BY <1>2, <2>1, <2>2, <2>3 DEF Served
  <1>7. CASE Done
    <2>1. main'.pc = "draining" /\ main'.at = main.at /\ UNCHANGED <<queue, got, heard, stopping>>
      BY <1>1, <1>7 DEF Done, At, To
    <2>2. (Coming(u)' => Coming(u)) /\ (u = main.at => ~Coming(u)')
      BY <1>1, <1>7, <2>1 DEF Coming, Done, At
    <2>3. u # main.at => abandoned'[u] = abandoned[u]
      BY <1>1, <1>7 DEF Done
    <2>4. QED
      BY <1>2, <2>1, <2>2, <2>3 DEF Served
  <1>8. CASE Drain \/ Empty
    <2>1. UNCHANGED <<got, heard, abandoned, stopping>>
      BY <1>8 DEF Drain, Empty
    <2>2. \/ main'.pc \in {"leaving", "joining", "emptying"}
          \/ main.pc = "draining" /\ main'.pc = "begin" /\ main'.at = main.at + 1
      BY <1>1, <1>8 DEF Drain, Empty, At
    <2>3. (Coming(u)' => Coming(u)) /\ (u = main.at => ~Coming(u)')
      BY <1>1, <2>2 DEF Coming
    <2>4. IF u = main.at THEN queue'[u] = <<>> ELSE queue'[u] = queue[u]
      BY <1>1, <1>8 DEF Drain, Empty
    <2>5. QED
      BY <1>2, <2>1, <2>3, <2>4 DEF Served
  <1>9. CASE Stop
    <2>1. UNCHANGED <<queue, got, heard, abandoned>> /\ main'.pc \in {"joining", "emptying"}
      BY <1>1, <1>9 DEF Stop
    <2>2. ~Coming(u)'
      BY <2>1 DEF Coming
    <2>3. QED
      BY <2>1, <2>2 DEF Served
  <1>10. QED
    BY <1>3, <1>4, <1>5, <1>6, <1>7, <1>8, <1>9 DEF Main, Consumes

(* What is at the front of a queue that is being read.                     *)
LEMMA Front ==
    ASSUME PrefetchAssumption, Inv, NEW u \in Units, Coming(u), queue[u] # <<>>
    PROVE  /\ Head(queue[u]).kind = "item" => Head(queue[u]) = Item(Len(got[u]) + 1)
           /\ Head(queue[u]).kind \in Ends =>
                 Marked(u) /\ read[u] = Len(got[u]) /\ ended[u] = Head(queue[u]).kind
  <1>1. queue[u] \in Seq(Entry) /\ Len(queue[u]) \in Nat /\ Len(queue[u]) # 0 /\ Len(got[u]) \in Nat
    BY LenProperties, EmptySeq DEF Inv, TypeInv, TypeOK
  <1>2. 1 \in DOMAIN queue[u] /\ Head(queue[u]) = queue[u][1]
    BY <1>1, LenProperties, HeadTailProperties
  <1>3. \/ queue[u][1] = Item(Len(got[u]) + 1)
        \/ 1 = Len(queue[u]) /\ ended[u] \in Ends /\ queue[u][1] = Marker(ended[u])
    BY <1>2 DEF Inv, InTransit, Transit
  <1>4. CASE Head(queue[u]).kind \in Ends
    <2>1. Marked(u) /\ 1 = Len(queue[u]) /\ ended[u] = Head(queue[u]).kind
      BY <1>2, <1>3, <1>4 DEF Marked, Item, Marker, Ends
    <2>2. read[u] = Held(u) - 1
      BY <2>1 DEF Inv, InTransit, Transit
    <2>3. read[u] = (Len(got[u]) + 1) - 1
      BY <2>1, <2>2 DEF Held
    <2>4. read[u] = Len(got[u])
      BY <1>1, <2>3
    <2>5. "item" \notin Ends
      BY DEF Ends
    <2>6. QED
      BY <1>4, <2>1, <2>4, <2>5
  <1>5. CASE Head(queue[u]).kind = "item"
    <2>1. "item" \notin Ends
      BY DEF Ends
    <2>2. \A how \in Ends : Marker(how).kind = how
      BY DEF Marker
    <2>3. Head(queue[u]) = Item(Len(got[u]) + 1)
      BY <1>2, <1>3, <1>5, <2>1, <2>2
    <2>4. QED
      BY <1>5, <2>1, <2>3
  <1>6. Head(queue[u]).kind \in Ends \/ Head(queue[u]).kind = "item"
    <2>1. queue[u][1] \in Entry
      BY <1>1, <1>2
    <2>2. QED
      BY <1>2, <2>1 DEF Entry
  <1>7. QED
    BY <1>4, <1>5, <1>6

(* A queue that loses its front, or all of it, gains no end marker.        *)
LEMMA TailEntries ==
    ASSUME NEW q \in Seq(Entry), q # <<>>
    PROVE  /\ Len(q) \in Nat /\ Len(Tail(q)) \in Nat /\ Len(q) = Len(Tail(q)) + 1
           /\ DOMAIN q = 1 .. Len(q) /\ DOMAIN Tail(q) = 1 .. Len(Tail(q))
           /\ Head(q) = q[1] /\ \A i \in DOMAIN Tail(q) : i + 1 \in DOMAIN q /\ Tail(q)[i] = q[i + 1]
           /\ \A j \in DOMAIN q : j = 1 \/ (j - 1 \in DOMAIN Tail(q) /\ Tail(q)[j - 1] = q[j])
  <1>1. Tail(q) \in Seq(Entry) /\ Len(Tail(q)) = Len(q) - 1 /\ Head(q) = q[1]
        /\ \A i \in 1 .. Len(Tail(q)) : Tail(q)[i] = q[i + 1]
    BY HeadTailProperties
  <1>2. Len(q) \in Nat /\ Len(Tail(q)) \in Nat /\ DOMAIN q = 1 .. Len(q) /\ DOMAIN Tail(q) = 1 .. Len(Tail(q))
    BY <1>1, LenProperties
  <1>3. QED
    BY <1>1, <1>2

LEMMA ServedMarks ==
    ASSUME NEW u \in Units, Served(u) PROVE Marked(u)' => Marked(u)
  <1>1. CASE queue'[u] = queue[u]
    BY <1>1 DEF Marked
  <1>2. CASE queue'[u] = <<>>
    <2>1. DOMAIN <<>> = {}
      OBVIOUS
    <2>2. QED
      BY <1>2, <2>1 DEF Marked
  <1>3. CASE queue[u] \in Seq(Entry) /\ queue[u] # <<>> /\ queue'[u] = Tail(queue[u])
    BY <1>3, TailEntries DEF Marked
  <1>4. QED
    BY <1>1, <1>2, <1>3 DEF Served

(* A taken item goes from the queue to what the main thread has got.       *)
LEMMA TakenTransit ==
    ASSUME PrefetchAssumption, Inv, NEW u \in Units, Coming(u), UNCHANGED <<worker, read, ended>>,
           queue[u] # <<>>, Head(queue[u]).kind = "item", queue'[u] = Tail(queue[u]),
           got'[u] = Append(got[u], Head(queue[u]).no)
    PROVE  Transit(u)' /\ got'[u] = Append(got[u], Len(got[u]) + 1)
  <1> DEFINE g == Len(got[u])
             n == Len(Tail(queue[u]))
  <1>1. queue[u] \in Seq(Entry) /\ got[u] \in Seq(Nat) /\ g \in Nat /\ n \in Nat /\ Len(queue[u]) = n + 1
        /\ DOMAIN queue'[u] = 1 .. n
    BY TailEntries, LenProperties DEF Inv, TypeInv, TypeOK
  <1>2. got'[u] = Append(got[u], g + 1)
    <2>1. Head(queue[u]) = Item(g + 1)
      BY Front
    <2>2. Item(g + 1).no = g + 1
      BY DEF Item
    <2>3. QED
      BY <2>1, <2>2
  <1>3. Len(got'[u]) = g + 1
    BY <1>1, <1>2, AppendProperties
  <1>4. Transit(u)
    BY DEF Inv, InTransit
  <1>5. ASSUME NEW i \in DOMAIN queue'[u]
        PROVE  \/ queue'[u][i] = Item(Len(got'[u]) + i)
               \/ i = Len(queue'[u]) /\ ended'[u] \in Ends /\ queue'[u][i] = Marker(ended'[u])
    <2>1. i \in Nat /\ i + 1 \in DOMAIN queue[u] /\ queue'[u][i] = queue[u][i + 1]
      BY <1>1, <1>5, TailEntries
    <2>2. \/ queue[u][i + 1] = Item(g + (i + 1))
          \/ i + 1 = n + 1 /\ ended[u] \in Ends /\ queue[u][i + 1] = Marker(ended[u])
      BY <1>1, <1>4, <2>1 DEF Transit
    <2>3. g + (i + 1) = (g + 1) + i /\ (i + 1 = n + 1 => i = n)
      <3>1. g \in Nat /\ n \in Nat /\ i \in Nat
        BY <1>1, <2>1
      <3> HIDE DEF g, n
      <3>2. QED
        BY <3>1
    <2>4. QED
      BY <1>3, <2>1, <2>2, <2>3
  <1>6. Held(u)' = Held(u)
    <2>1. Held(u)' = (g + 1) + n /\ Held(u) = g + (n + 1)
      BY <1>1, <1>3 DEF Held
    <2>2. g \in Nat /\ n \in Nat
      BY <1>1
    <2> HIDE DEF g, n
    <2>3. QED
      BY <2>1, <2>2
  <1>7. Marked(u)' <=> Marked(u)
    <2>1. "item" \notin Ends
      BY DEF Ends
    <2>2. Marked(u)' => Marked(u)
      BY <1>1, TailEntries DEF Marked
    <2>3. ASSUME NEW j \in DOMAIN queue[u], queue[u][j].kind \in Ends PROVE Marked(u)'
      <3>1. j # 1
        BY <1>1, <2>1, <2>3, TailEntries
      <3>2. j - 1 \in DOMAIN queue'[u] /\ queue'[u][j - 1] = queue[u][j]
        BY <1>1, <3>1, TailEntries
      <3>3. QED
        BY <2>3, <3>2 DEF Marked
    <2>4. QED
      BY <2>2, <2>3 DEF Marked
  <1>8. Carried(u)' <=> Carried(u)
    BY DEF Carried
  <1>9. QED
    BY <1>2, <1>4, <1>5, <1>6, <1>7, <1>8 DEF Transit

LEMMA MainInv ==
    ASSUME PrefetchAssumption, Inv, Main PROVE Inv'
  <1>1. UNCHANGED <<backlog, worker, read, ended>> /\ \A u \in Units : Served(u)
    BY MainServes DEF Main
  <1>2. \A u \in Units : (Ahead(u)' <=> Ahead(u)) /\ (There(u)' <=> There(u)) /\ (Carried(u)' <=> Carried(u))
    BY <1>1 DEF Ahead, There, Carried, Busy
  <1>3. Alone' /\ Open'
    BY <1>1 DEF Inv, Places, Alone, Open, Busy
  <1>4. Untouched'
    BY <1>1, <1>2 DEF Inv, Places, Untouched, Served
  <1>5. ASSUME NEW u \in Units, heard'[u] \in Ends
        PROVE  /\ heard[u] \in Ends \/ Marked(u)
               /\ Len(got'[u]) = read[u] /\ ended[u] = heard'[u]
    <2>1. CASE heard'[u] = heard[u]
      <3>1. Len(got[u]) = read[u] /\ ended[u] = heard[u] /\ heard[u] # "nothing"
        BY <1>5, <2>1 DEF Inv, WholeAndInOrder, Ends
      <3>2. ~Coming(u)
        BY <3>1 DEF Inv, Unspoilt
      <3>3. got'[u] = got[u]
        BY <1>1, <3>2 DEF Served
      <3>4. QED
        BY <1>5, <2>1, <3>1, <3>3
    <2>2. CASE heard'[u] # heard[u]
      <3>1. /\ Coming(u) /\ queue[u] # <<>> /\ Head(queue[u]).kind \in Ends
            /\ heard'[u] = Head(queue[u]).kind /\ got'[u] = got[u]
        BY <1>1, <1>5, <2>2 DEF Served, Ends
      <3>2. QED
        BY <3>1, Front
    <2>3. QED
      BY <2>1, <2>2
  <1>6. Closed'
    BY <1>1, <1>2, <1>5, ServedMarks DEF Inv, Places, Closed
  <1>7. Unspoilt'
    BY <1>1 DEF Unspoilt, Served
  <1>8. ASSUME NEW u \in Units, ~UNCHANGED <<queue[u], got[u]>>, Coming(u)' \/ got'[u] # got[u]
        PROVE  /\ Coming(u) /\ queue[u] # <<>> /\ queue'[u] = Tail(queue[u])
               /\ Head(queue[u]).kind = "item" /\ got'[u] = Append(got[u], Head(queue[u]).no)
    BY <1>1, <1>8 DEF Served
  <1>9. InTransit'
    <2>1. ASSUME NEW u \in Units, Coming(u)' PROVE Transit(u)'
      <3>1. CASE UNCHANGED <<queue[u], got[u]>>
        <4>1. Transit(u)
          BY <1>1, <2>1 DEF Inv, InTransit, Served
        <4>2. (Marked(u)' <=> Marked(u)) /\ Held(u)' = Held(u)
          BY <3>1 DEF Marked, Held
        <4>3. QED
          BY <1>1, <1>2, <3>1, <4>1, <4>2 DEF Transit
      <3>2. CASE ~UNCHANGED <<queue[u], got[u]>>
        BY <1>1, <1>8, <2>1, <3>2, TakenTransit
      <3>3. QED
        BY <3>1, <3>2
    <2>2. QED
      BY <2>1 DEF InTransit
  <1>10. WholeAndInOrder'
    <2>1. ASSUME NEW u \in Units PROVE got'[u] = Whole(Len(got'[u]))
      <3>1. CASE got'[u] = got[u]
        BY <3>1 DEF Inv, WholeAndInOrder
      <3>2. CASE got'[u] # got[u]
        <4> DEFINE g == Len(got[u])
        <4>1. got'[u] = Append(got[u], g + 1) /\ got[u] \in Seq(Nat) /\ g \in Nat /\ got[u] = Whole(g)
          BY <1>1, <1>8, <3>2, TakenTransit, LenProperties DEF Inv, TypeInv, TypeOK, WholeAndInOrder
        <4> HIDE DEF g
        <4>2. Append(got[u], g + 1) = Whole(g + 1) /\ Len(Append(got[u], g + 1)) = g + 1
          <5>1. Len(got[u]) = g
            BY DEF g
          <5>2. /\ Append(got[u], g + 1) \in Seq(Nat) /\ Len(Append(got[u], g + 1)) = g + 1
                /\ \A i \in 1 .. g : Append(got[u], g + 1)[i] = i
                /\ Append(got[u], g + 1)[g + 1] = g + 1
            BY <4>1, <5>1, AppendProperties DEF Whole
          <5>3. \A i \in 1 .. g + 1 : Append(got[u], g + 1)[i] = i
            BY <4>1, <5>2
          <5>4. Append(got[u], g + 1) \in [1 .. g + 1 -> Nat]
            BY <5>2, LenProperties
          <5>5. QED
            BY <5>2, <5>3, <5>4 DEF Whole
        <4>3. QED
          BY <4>1, <4>2
      <3>3. QED
        BY <3>1, <3>2
    <2>2. QED
      BY <1>1, <1>5, <2>1 DEF WholeAndInOrder
  <1>11. QED
    BY <1>3, <1>4, <1>6, <1>7, <1>9, <1>10, MainType DEF Inv, Places

LEMMA InvStep == ASSUME PrefetchAssumption, Inv, [Next]_vars PROVE Inv'
  <1>1. CASE Main
    BY <1>1, MainInv
  <1>2. CASE \E w \in Workers : Worker(w)
    BY <1>2, WorkerInv
  <1>3. CASE Over \/ UNCHANGED vars
    <2>1. UNCHANGED vars /\ TypeInv'
      BY <1>3, TypeStep DEF Over, Inv
    <2>2. \A u \in Units : /\ Ahead(u)' = Ahead(u) /\ Marked(u)' = Marked(u) /\ There(u)' = There(u)
                           /\ Coming(u)' = Coming(u) /\ Carried(u)' = Carried(u) /\ Held(u)' = Held(u)
      BY <2>1 DEF vars, Ahead, Marked, There, Coming, Carried, Held, Busy
    <2>3. Places'
      BY <2>1, <2>2 DEF vars, Inv, Places, Alone, Untouched, Closed, Open, Busy
    <2>4. Unspoilt' /\ WholeAndInOrder'
      BY <2>1, <2>2 DEF vars, Inv, Unspoilt, WholeAndInOrder
    <2>5. \A u \in Units : Transit(u) => Transit(u)'
      BY <2>1, <2>2 DEF vars, Transit
    <2>6. QED
      BY <2>1, <2>2, <2>3, <2>4, <2>5 DEF Inv, InTransit
  <1>4. QED
    BY <1>1, <1>2, <1>3 DEF Next

(* However many threads read ahead, and wherever the block is left, a sync *)
(* is given its catalog whole and in order, and the plugin's own end of it *)
(* (prefetch.py items).                                                    *)
THEOREM ReadsWholeAndInOrder == PrefetchAssumption => (Spec => []WholeAndInOrder)
  <1> SUFFICES ASSUME PrefetchAssumption PROVE Spec => []WholeAndInOrder
    OBVIOUS
  <1>1. Init => Inv
    BY InvInit
  <1>2. Inv /\ [Next]_vars => Inv'
    BY InvStep
  <1>3. Inv => WholeAndInOrder
    BY DEF Inv
  <1>4. QED
    BY <1>1, <1>2, <1>3, PTL DEF Spec

=============================================================================
