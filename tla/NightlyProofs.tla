--------------------------- MODULE NightlyProofs ---------------------------
(***************************************************************************)
(* Proofs about the lock and the asks of the nightly chain: one fetcher at *)
(* a time is past the lock, and an ask goes only when the operator takes   *)
(* it back or when a sync has had its turn at that very source.            *)
(***************************************************************************)
EXTENDS Nightly, SequenceTheorems, FiniteSetTheorems, TLAPS

-----------------------------------------------------------------------------
(* About sequences.                                                        *)

(* A sequence that is not empty is its head and its tail.                  *)
LEMMA HeadAndTail ==
    ASSUME NEW S, NEW s \in Seq(S), s # <<>>
    PROVE  /\ Head(s) \in S /\ Tail(s) \in Seq(S)
           /\ Range(s) = {Head(s)} \cup Range(Tail(s))
<1>1. Head(s) \in S /\ Tail(s) \in Seq(S)
  BY HeadTailProperties
<1>2. /\ Len(s) \in Nat \ {0} /\ DOMAIN s = 1 .. Len(s)
      /\ Len(Tail(s)) = Len(s) - 1 /\ DOMAIN Tail(s) = 1 .. Len(s) - 1
  BY <1>1, HeadTailProperties, LenProperties, EmptySeq
<1>3. Head(s) = s[1] /\ \A i \in 1 .. Len(s) - 1 : Tail(s)[i] = s[i + 1]
  BY <1>2
<1>4. ASSUME NEW x \in Range(s) PROVE x \in {Head(s)} \cup Range(Tail(s))
  <2>1. PICK i \in 1 .. Len(s) : x = s[i]
    BY <1>2 DEF Range
  <2>2. CASE i = 1
    BY <1>3, <2>1, <2>2
  <2>3. CASE i # 1
    <3>1. i - 1 \in 1 .. Len(s) - 1 /\ (i - 1) + 1 = i
      BY <1>2, <2>3
    <3>2. x = Tail(s)[i - 1]
      BY <1>3, <2>1, <3>1
    <3> QED
      BY <1>2, <3>1, <3>2 DEF Range
  <2> QED
    BY <2>2, <2>3
<1>5. ASSUME NEW x \in {Head(s)} \cup Range(Tail(s)) PROVE x \in Range(s)
  <2>1. CASE x = Head(s)
    BY <1>2, <1>3, <2>1 DEF Range
  <2>2. CASE x \in Range(Tail(s))
    <3>1. PICK i \in 1 .. Len(s) - 1 : x = Tail(s)[i]
      BY <1>2, <2>2 DEF Range
    <3>2. i + 1 \in 1 .. Len(s) /\ x = s[i + 1]
      BY <1>2, <1>3, <3>1
    <3> QED
      BY <1>2, <3>2 DEF Range
  <2> QED
    BY <2>1, <2>2
<1> QED
  BY <1>1, <1>4, <1>5

(* A finite set made a sequence has the set's elements and no other.       *)
LEMMA SetMadeSequence ==
    ASSUME NEW S, IsFiniteSet(S)
    PROVE  SetToSeq(S) \in Seq(S) /\ Range(SetToSeq(S)) = S
<1> DEFINE n == Cardinality(S)
<1>1. n \in Nat /\ ExistsBijection(1 .. n, S)
  BY FS_CardinalityType
<1>2. \E f \in [1 .. n -> S] : IsInjective(f)
  BY <1>1 DEF ExistsBijection, Bijection, Injection
<1>3. SetToSeq(S) \in [1 .. n -> S] /\ IsInjective(SetToSeq(S))
  BY <1>2 DEF SetToSeq
<1>4. SetToSeq(S) \in Injection(1 .. n, S)
  BY <1>3 DEF Injection
<1>5. IsFiniteSet(1 .. n) /\ Cardinality(1 .. n) = n
  BY <1>1, FS_Interval
<1>6. SetToSeq(S) \in Surjection(1 .. n, S)
  BY <1>4, <1>5, FS_Injection
<1>7. SetToSeq(S) \in Seq(S)
  BY <1>1, <1>3
<1>8. Range(SetToSeq(S)) = S
  BY <1>3, <1>6 DEF Range, Surjection
<1> QED
  BY <1>7, <1>8

-----------------------------------------------------------------------------
(* The invariant that makes them so.                                       *)

Outside == {"idle", "asking"}
Before == {"idle", "asking", "entering", "posting", "starting"}

(* A job that has begun has a phase to run; what its sync is to fetch was  *)
(* begun or is still in its list, and the unit in hand was begun.          *)
Sound(r) ==
    /\ r.pc # "idle" => r.phases # <<>>
    /\ r.pc \in Before => r.wanted = {}
    /\ r.pc = "choosing" => r.wanted \subseteq r.begun \cup Range(r.left)
    /\ r.pc = "working" =>
          r.left # <<>> /\ r.wanted \subseteq r.begun \cup Range(Tail(r.left))
    /\ r.pc = "clearing" => r.wanted \subseteq r.begun

JobsSound == \A j \in Jobs : Sound(job[j])

ChainInv == TypeOK /\ OneFetcher /\ JobsSound

LEMMA Starting == NightlyAssumption /\ Init => ChainInv
<1> SUFFICES ASSUME NightlyAssumption, Init PROVE ChainInv
  OBVIOUS
<1>1. Idle \in Job /\ Sound(Idle) /\ Idle.pc = "idle"
  BY DEF Idle, Job, Sound, Before
<1>2. job \in [Jobs -> Job] /\ \A j \in Jobs : job[j] = Idle
  BY <1>1 DEF Init
<1>3. TypeOK
  BY <1>2 DEF Init, TypeOK, NightlyAssumption
<1>4. OneFetcher
  BY <1>1, <1>2 DEF Init, OneFetcher, Jobs, NightlyAssumption
<1>5. JobsSound
  BY <1>1, <1>2 DEF JobsSound
<1> QED
  BY <1>3, <1>4, <1>5 DEF ChainInv

(* One job goes from one state to another, and the lock goes with it.      *)
LEMMA OneMoves ==
    ASSUME NightlyAssumption, ChainInv, NEW j \in Jobs, NEW r \in Job, Sound(r),
           job' = [job EXCEPT ![j] = r],
           r.pc \notin Outside => lock \in {None, j} /\ lock' = j,
           r.pc \in Outside => lock' = IF lock = j THEN None ELSE lock
    PROVE  /\ job' \in [Jobs -> Job] /\ lock' \in Jobs \cup {None}
           /\ OneFetcher' /\ JobsSound'
<1>1. job \in [Jobs -> Job] /\ lock \in Jobs \cup {None} /\ None \notin Jobs
  BY DEF ChainInv, TypeOK, NightlyAssumption, Jobs
<1>2. job'[j] = r /\ \A k \in Jobs : k # j => job'[k] = job[k]
  BY <1>1
<1>3. job' \in [Jobs -> Job] /\ lock' \in Jobs \cup {None}
  BY <1>1
<1>4. \A k \in Jobs : job[k].pc \notin Outside <=> lock = k
  BY DEF ChainInv, OneFetcher, Outside
<1>5. \A k \in Jobs : job'[k].pc \notin Outside <=> lock' = k
  <2> TAKE k \in Jobs
  <2>1. CASE k = j
    BY <1>1, <1>2, <2>1
  <2>2. CASE k # j
    BY <1>1, <1>2, <1>4, <2>2
  <2> QED
    BY <2>1, <2>2
<1>6. OneFetcher'
  BY <1>5 DEF OneFetcher, Outside
<1>7. JobsSound'
  BY <1>2 DEF ChainInv, JobsSound
<1> QED
  BY <1>3, <1>6, <1>7

(* The job that holds the lock goes on with its work.                      *)
LEMMA OneGoesOn ==
    ASSUME NightlyAssumption, ChainInv, NEW j \in Jobs, NEW r \in Job, Sound(r),
           job[j].pc \notin Outside, r.pc \notin Outside,
           job' = [job EXCEPT ![j] = r], lock' = lock
    PROVE  /\ job' \in [Jobs -> Job] /\ lock' \in Jobs \cup {None}
           /\ OneFetcher' /\ JobsSound'
<1>1. lock = j
  BY DEF ChainInv, OneFetcher, Outside
<1> QED
  BY <1>1, OneMoves

(* A job leaves a phase for the next one or for good.                      *)
LEMMA LeavingIsSound ==
    ASSUME NightlyAssumption, ChainInv, NEW j \in Jobs,
           job[j].pc \notin Outside, Leaves(j)
    PROVE  /\ job' \in [Jobs -> Job] /\ lock' \in Jobs \cup {None}
           /\ OneFetcher' /\ JobsSound'
<1>1. job[j] \in Job /\ job \in [Jobs -> Job] /\ lock = j
  BY DEF ChainInv, TypeOK, OneFetcher, Outside
<1>2. PICK rest : rest = Tail(job[j].phases)
  OBVIOUS
<1>3. job[j].phases \in Seq(Phases) /\ job[j].phases # <<>>
  BY <1>1 DEF Job, ChainInv, JobsSound, Sound, Outside
<1>4. rest \in Seq(Phases)
  BY <1>2, <1>3, HeadTailProperties
<1>5. CASE rest = <<>>
  <2>1. Idle \in Job /\ Sound(Idle) /\ Idle.pc \in Outside
    BY DEF Idle, Job, Sound, Before, Outside
  <2>2. job' = [job EXCEPT ![j] = Idle] /\ lock' = None
    BY <1>2, <1>5 DEF Leaves
  <2> QED
    BY <1>1, <2>1, <2>2, OneMoves
<1>6. CASE rest # <<>>
  <2>1. PICK r : r = [Idle EXCEPT !.pc = "entering", !.phases = rest]
    OBVIOUS
  <2>2. r \in Job /\ Sound(r) /\ r.pc \notin Outside
    <3>1. r = [pc |-> "entering", phases |-> rest, only |-> {}, wanted |-> {},
               left |-> <<>>, begun |-> {}]
      BY <2>1 DEF Idle
    <3>2. r.pc = "entering" /\ r.phases = rest /\ r.wanted = {}
      BY <3>1
    <3>3. Sound(r) /\ r.pc \notin Outside
      BY <1>6, <3>2 DEF Sound, Outside
    <3>4. <<>> \in Seq(Units)
      BY EmptySeq
    <3> QED
      BY <1>4, <3>1, <3>3, <3>4 DEF Job
  <2>3. job' = [job EXCEPT ![j] = r] /\ lock' = lock
    BY <1>2, <1>6, <2>1 DEF Leaves
  <2> QED
    BY <1>1, <2>2, <2>3, OneGoesOn
<1> QED
  BY <1>5, <1>6

-----------------------------------------------------------------------------
(* The steps.                                                              *)

LEMMA BudgetsAreKept ==
    ASSUME NightlyAssumption, TypeOK, Trouble \/ UNCHANGED budgets
    PROVE  faults' \in 0 .. MaxFaults /\ hands' \in 0 .. MaxByHand
<1>1. MaxFaults \in Nat /\ MaxByHand \in Nat /\ faults \in 0 .. MaxFaults
      /\ hands \in 0 .. MaxByHand
  BY DEF NightlyAssumption, TypeOK
<1> QED
  BY <1>1 DEF Trouble, budgets

(* Rows stay rows, whatever is opened, swept, orphaned or aged.            *)
LEMMA RowsStayRows ==
    ASSUME TypeOK, NEW j \in Jobs, NEW phase \in Phases
    PROVE  /\ OpenRun(j, phase) \subseteq Row /\ BeginRun(j, phase) \subseteq Row
           /\ \A m : rows \ {m} \subseteq Row
           /\ \A js \in SUBSET Jobs : Orphaned(rows, js) \subseteq Row
<1>1. rows \subseteq Row
  BY DEF TypeOK
<1>2. Mine(j, phase) \in Row
  BY DEF Mine, Row
<1>3. \A r \in Row : [r EXCEPT !.owner = "gone"] \in Row
  BY DEF Row
<1>4. \A js \in SUBSET Jobs : Orphaned(rows, js) \subseteq Row
  BY <1>1, <1>3 DEF Orphaned
<1> QED
  BY <1>1, <1>2, <1>4 DEF OpenRun, BeginRun

(* The phase a job at work is in.                                          *)
LEMMA InAPhase ==
    ASSUME ChainInv, NEW j \in Jobs, job[j].pc # "idle"
    PROVE  /\ job[j] \in Job /\ job \in [Jobs -> Job]
           /\ job[j].phases \in Seq(Phases) /\ job[j].phases # <<>>
           /\ Phase(j) \in Phases /\ Sound(job[j])
<1>1. job[j] \in Job /\ job \in [Jobs -> Job] /\ Sound(job[j])
  BY DEF ChainInv, TypeOK, JobsSound
<1>2. job[j].phases \in Seq(Phases) /\ job[j].phases # <<>>
  BY <1>1 DEF Job, Sound
<1> QED
  BY <1>1, <1>2, HeadTailProperties DEF Phase

(* A job takes the lock, to enter its first phase.                         *)
LEMMA TakingIsSound ==
    ASSUME NightlyAssumption, ChainInv, NEW j \in Jobs, NEW only \in SUBSET Sources,
           NEW phases \in {PHASES, <<"sync">>},
           Free(j), lock' = j,
           job' = [job EXCEPT ![j] =
              [Idle EXCEPT !.pc = "entering", !.phases = phases, !.only = only]]
    PROVE  /\ job' \in [Jobs -> Job] /\ lock' \in Jobs \cup {None}
           /\ OneFetcher' /\ JobsSound'
<1>1. PICK r : r = [Idle EXCEPT !.pc = "entering", !.phases = phases, !.only = only]
  OBVIOUS
<1>2. r = [pc |-> "entering", phases |-> phases, only |-> only, wanted |-> {},
           left |-> <<>>, begun |-> {}]
  BY <1>1 DEF Idle
<1>3. phases \in Seq(Phases) /\ phases # <<>>
  <2>1. <<"sync", "enrich", "images">> \in Seq(Phases) /\ <<"sync">> \in Seq(Phases)
    BY DEF Phases
  <2>2. <<"sync", "enrich", "images">> # <<>> /\ <<"sync">> # <<>>
    OBVIOUS
  <2> QED
    BY <2>1, <2>2 DEF PHASES
<1>4. Sound(r) /\ r.pc \notin Outside
  BY <1>2, <1>3 DEF Sound, Outside
<1>5. <<>> \in Seq(Units)
  BY EmptySeq
<1>6. r \in Job
  BY <1>2, <1>3, <1>5 DEF Job
<1>7. lock = None
  BY DEF Free
<1> QED
  BY <1>1, <1>4, <1>6, <1>7, OneMoves

LEMMA BeginningIsSound ==
    ASSUME NightlyAssumption, ChainInv,
           NightlyStarts \/ ByHand \/ PollAsks \/ PollTakes
    PROVE  ChainInv'
<1>1. rows' = rows /\ note' = note /\ on' = on /\ asked' = asked
  BY DEF NightlyStarts, ByHand, PollAsks, PollTakes, Chain, Syncs, switches
<1>2. faults' \in 0 .. MaxFaults /\ hands' \in 0 .. MaxByHand
  <2>1. MaxByHand \in Nat /\ faults \in 0 .. MaxFaults /\ hands \in 0 .. MaxByHand
    BY DEF NightlyAssumption, ChainInv, TypeOK
  <2> QED
    BY <2>1 DEF NightlyStarts, ByHand, PollAsks, PollTakes, budgets
<1>3. /\ job' \in [Jobs -> Job] /\ lock' \in Jobs \cup {None}
      /\ OneFetcher' /\ JobsSound'
  <2>1. ASSUME NEW j \in Jobs, Chain(j)
        PROVE  /\ job' \in [Jobs -> Job] /\ lock' \in Jobs \cup {None}
               /\ OneFetcher' /\ JobsSound'
    <3>1. PICK phases : phases = PHASES
      OBVIOUS
    <3>2. [Idle EXCEPT !.pc = "entering", !.phases = phases]
             = [Idle EXCEPT !.pc = "entering", !.phases = phases, !.only = {}]
      <4>1. PICK r : r = [Idle EXCEPT !.pc = "entering", !.phases = phases]
        OBVIOUS
      <4>2. PICK q : q = [Idle EXCEPT !.pc = "entering", !.phases = phases, !.only = {}]
        OBVIOUS
      <4>3. r = [pc |-> "entering", phases |-> phases, only |-> {}, wanted |-> {},
                    left |-> <<>>, begun |-> {}]
        BY <4>1 DEF Idle
      <4>4. q = [pc |-> "entering", phases |-> phases, only |-> {}, wanted |-> {},
                    left |-> <<>>, begun |-> {}]
        BY <4>2 DEF Idle
      <4> QED
        BY <4>1, <4>2, <4>3, <4>4
    <3>3. Free(j) /\ lock' = j
          /\ job' = [job EXCEPT ![j] =
                [Idle EXCEPT !.pc = "entering", !.phases = phases, !.only = {}]]
      BY <2>1, <3>1, <3>2 DEF Chain
    <3> QED
      BY <3>1, <3>3, TakingIsSound
  <2>2. ASSUME NEW only \in SUBSET Sources, Syncs("byhand", only)
        PROVE  /\ job' \in [Jobs -> Job] /\ lock' \in Jobs \cup {None}
               /\ OneFetcher' /\ JobsSound'
    BY <2>2, TakingIsSound DEF Syncs, Jobs
  <2>3. CASE PollAsks
    <3>1. PICK r : r = [Idle EXCEPT !.pc = "asking", !.phases = <<"sync">>,
                                    !.only = {s \in Sources : asked[s]}]
      OBVIOUS
    <3>2. r = [pc |-> "asking", phases |-> <<"sync">>, only |-> {s \in Sources : asked[s]},
               wanted |-> {}, left |-> <<>>, begun |-> {}]
      BY <3>1 DEF Idle
    <3>3. <<"sync">> \in Seq(Phases) /\ <<"sync">> # <<>> /\ <<>> \in Seq(Units)
      BY DEF Phases
    <3>4. r \in Job
      BY <3>2, <3>3 DEF Job
    <3>5. Sound(r) /\ r.pc \in Outside
      BY <3>2, <3>3 DEF Sound, Outside
    <3>6. lock # "poll" /\ "poll" \in Jobs
      BY <2>3 DEF PollAsks, At, ChainInv, OneFetcher, Jobs
    <3> QED
      BY <2>3, <3>1, <3>4, <3>5, <3>6, OneMoves DEF PollAsks
  <2>4. CASE PollTakes
    <3>0. "poll" \in Jobs /\ job["poll"].pc = "asking" /\ lock # "poll"
      BY <2>4 DEF PollTakes, At, ChainInv, OneFetcher, Jobs
    <3>1. CASE Free("poll")
      <4>1. PICK r : r = [job["poll"] EXCEPT !.pc = "entering"]
        OBVIOUS
      <4>2. job["poll"] \in Job /\ Sound(job["poll"])
        BY <3>0 DEF ChainInv, TypeOK, JobsSound
      <4>3. r \in Job /\ r.pc = "entering" /\ r.wanted = job["poll"].wanted
            /\ r.phases = job["poll"].phases
        BY <4>1, <4>2 DEF Job
      <4>4. Sound(r) /\ r.pc \notin Outside
        BY <3>0, <4>2, <4>3 DEF Sound, Before, Outside
      <4>5. job' = [job EXCEPT !["poll"] = r] /\ lock' = "poll" /\ lock = None
        BY <2>4, <3>0, <3>1, <4>1 DEF PollTakes, To, Free, ChainInv, TypeOK
      <4> QED
        BY <3>0, <4>3, <4>4, <4>5, OneMoves
    <3>2. CASE ~ Free("poll")
      <4>1. Idle \in Job /\ Sound(Idle) /\ Idle.pc \in Outside
        BY DEF Idle, Job, Sound, Before, Outside
      <4> QED
        BY <2>4, <3>0, <3>2, <4>1, OneMoves DEF PollTakes
    <3> QED
      BY <3>1, <3>2
  <2> QED
    BY <2>1, <2>2, <2>3, <2>4 DEF NightlyStarts, ByHand, Jobs
<1> QED
  BY <1>1, <1>2, <1>3 DEF ChainInv, TypeOK

(* The job at work goes to another place, its record otherwise the same.   *)
LEMMA GoingTo ==
    ASSUME NightlyAssumption, ChainInv, NEW j \in Jobs, lock' = lock,
           NEW pc \in {"entering", "posting", "starting", "clearing"}, To(j, pc),
           job[j].pc \notin Outside,
           pc # "clearing" => job[j].pc \in Before,
           pc = "clearing" => job[j].pc = "choosing" /\ job[j].left = <<>>
    PROVE  /\ job' \in [Jobs -> Job] /\ lock' \in Jobs \cup {None}
           /\ OneFetcher' /\ JobsSound'
<1>1. job[j] \in Job /\ Sound(job[j]) /\ job[j].phases # <<>>
  BY InAPhase DEF Outside
<1>2. PICK r : r = [job[j] EXCEPT !.pc = pc]
  OBVIOUS
<1>3. r \in Job /\ r.pc = pc /\ r.wanted = job[j].wanted /\ r.phases = job[j].phases
      /\ r.begun = job[j].begun
  BY <1>1, <1>2 DEF Job
<1>4. job' = [job EXCEPT ![j] = r]
  BY <1>2 DEF To, ChainInv, TypeOK
<1>5. Range(<<>>) = {}
  BY DEF Range
<1>6. Sound(r) /\ r.pc \notin Outside
  BY <1>1, <1>3, <1>5 DEF Sound, Before, Outside
<1> QED
  BY <1>3, <1>4, <1>6, OneGoesOn

LEMMA EnteringIsSound ==
    ASSUME NightlyAssumption, ChainInv, NEW j \in Jobs,
           Enters(j) \/ Posts(j) \/ PostEnds(j)
    PROVE  ChainInv'
<1>1. job[j].pc \in {"entering", "posting"} /\ lock' = lock /\ on' = on /\ asked' = asked
  BY DEF Enters, Posts, PostEnds, At, switches
<1>2. \E pc \in {"posting", "starting"} : To(j, pc)
  BY DEF Enters, Posts, PostEnds
<1>3. /\ job' \in [Jobs -> Job] /\ lock' \in Jobs \cup {None}
      /\ OneFetcher' /\ JobsSound'
  BY <1>1, <1>2, GoingTo DEF Outside, Before
<1>4. note' \in Phases \cup {None}
  BY DEF Enters, Posts, PostEnds, ChainInv, TypeOK
<1>5. faults' \in 0 .. MaxFaults /\ hands' \in 0 .. MaxByHand
  BY BudgetsAreKept DEF Enters, Posts, PostEnds, ChainInv, budgets, Trouble
<1>6. rows' \subseteq Row
  <2>1. rows \subseteq Row /\ note \in Phases \cup {None}
    BY DEF ChainInv, TypeOK
  <2>2. CASE Enters(j)
    BY <2>1, <2>2 DEF Enters
  <2>3. CASE Posts(j)
    <3>1. note \in Phases
      BY <2>1, <2>3 DEF Posts
    <3> QED
      BY <2>1, <2>3, <3>1, RowsStayRows DEF Posts, ChainInv
  <2>4. CASE PostEnds(j)
    BY <2>1, <2>4, RowsStayRows DEF PostEnds, ChainInv, Phases
  <2> QED
    BY <2>2, <2>3, <2>4
<1> QED
  BY <1>1, <1>3, <1>4, <1>5, <1>6 DEF ChainInv, TypeOK

LEMMA StartsIsSound ==
    ASSUME NightlyAssumption, ChainInv, NEW j \in Jobs, Starts(j)
    PROVE  ChainInv'
<1>1. /\ job[j].pc = "starting" /\ lock' = lock /\ rows' = rows /\ note' = note
      /\ on' = on /\ asked' = asked /\ faults' = faults /\ hands' = hands
  BY DEF Starts, At, switches, budgets
<1>2. job[j] \in Job /\ job \in [Jobs -> Job] /\ job[j].phases # <<>> /\ job[j].wanted = {}
  BY <1>1, InAPhase DEF Sound, Before
<1>3. PICK wanted \in SUBSET Sources, left \in Seq(Units) :
         /\ wanted \subseteq Range(left)
         /\ job' = [job EXCEPT ![j].pc = "choosing", ![j].wanted = wanted, ![j].left = left]
  <2>1. CASE Phase(j) = "sync"
    <3>1. PICK chosen : chosen = IF job[j].only = {} THEN Available
                                 ELSE job[j].only \cap Available
      OBVIOUS
    <3>2. chosen \in SUBSET Sources
      BY <3>1 DEF Available, NightlyAssumption
    <3>3. IsFiniteSet(chosen)
      BY <3>2, FS_Subset DEF NightlyAssumption
    <3>4. SetToSeq(chosen) \in Seq(chosen) /\ Range(SetToSeq(chosen)) = chosen
      BY <3>3, SetMadeSequence
    <3>5. SetToSeq(chosen) \in Seq(Units)
      BY <3>2, <3>4, SeqMonotonic DEF Units
    <3> QED
      BY <2>1, <3>1, <3>2, <3>4, <3>5 DEF Starts
  <2>2. ASSUME NEW left \in Seq(Units),
               job' = [job EXCEPT ![j].pc = "choosing", ![j].left = left]
        PROVE  \E wanted \in SUBSET Sources, l \in Seq(Units) :
                  /\ wanted \subseteq Range(l)
                  /\ job' = [job EXCEPT ![j].pc = "choosing", ![j].wanted = wanted,
                                        ![j].left = l]
    <3>1. PICK r : r = [job[j] EXCEPT !.pc = "choosing", !.left = left]
      OBVIOUS
    <3>2. PICK q : q = [job[j] EXCEPT !.pc = "choosing", !.wanted = {}, !.left = left]
      OBVIOUS
    <3>3. r = q
      BY <1>2, <3>1, <3>2 DEF Job
    <3>4. job' = [job EXCEPT ![j] = q]
      BY <1>2, <2>2, <3>1, <3>3
    <3>5. [job EXCEPT ![j].pc = "choosing", ![j].wanted = {}, ![j].left = left]
             = [job EXCEPT ![j] = q]
      BY <1>2, <3>2
    <3>6. {} \in SUBSET Sources /\ {} \subseteq Range(left)
      OBVIOUS
    <3> QED
      BY <3>4, <3>5, <3>6
  <2>3. /\ Passes \in Seq(Units) /\ Tail(Passes) \in Seq(Units)
        /\ <<"images">> \in Seq(Units)
    <3>1. "index" \in Units /\ "titles" \in Units /\ "imdb" \in Units /\ "images" \in Units
      BY DEF Units, Phases
    <3>2. Passes \in Seq(Units) /\ Passes # <<>> /\ <<"images">> \in Seq(Units)
      BY <3>1 DEF Passes
    <3> QED
      BY <3>2, HeadTailProperties
  <2> QED
    BY <2>1, <2>2, <2>3 DEF Starts
<1>4. PICK r : r = [job[j] EXCEPT !.pc = "choosing", !.wanted = wanted, !.left = left]
  OBVIOUS
<1>5. r \in Job /\ r.pc = "choosing" /\ r.wanted = wanted /\ r.left = left
      /\ r.phases = job[j].phases
  BY <1>2, <1>4 DEF Job
<1>6. Sound(r) /\ r.pc \notin Outside
  BY <1>2, <1>3, <1>5 DEF Sound, Before, Outside
<1>7. job' = [job EXCEPT ![j] = r]
  BY <1>2, <1>3, <1>4
<1>8. /\ job' \in [Jobs -> Job] /\ lock' \in Jobs \cup {None}
      /\ OneFetcher' /\ JobsSound'
  BY <1>1, <1>5, <1>6, <1>7, OneGoesOn DEF Outside
<1> QED
  BY <1>1, <1>8 DEF ChainInv, TypeOK

LEMMA OpensIsSound ==
    ASSUME NightlyAssumption, ChainInv, NEW j \in Jobs, Opens(j)
    PROVE  ChainInv'
<1>1. /\ job[j].pc = "choosing" /\ job[j].left # <<>> /\ lock' = lock /\ note' = note
      /\ on' = on /\ asked' = asked /\ faults' = faults /\ hands' = hands
  BY DEF Opens, At, switches, budgets
<1>2. /\ job[j] \in Job /\ job \in [Jobs -> Job] /\ job[j].phases # <<>>
      /\ Phase(j) \in Phases /\ Sound(job[j])
  BY <1>1, InAPhase
<1>3. PICK begun : begun = job[j].begun \cup ({Unit(j)} \cap Sources)
  OBVIOUS
<1>4. PICK r : r = [job[j] EXCEPT !.pc = "working", !.begun = begun]
  OBVIOUS
<1>5. /\ r \in Job /\ r.pc = "working" /\ r.begun = begun /\ r.left = job[j].left
      /\ r.wanted = job[j].wanted /\ r.phases = job[j].phases
  BY <1>2, <1>3, <1>4 DEF Job
<1>6. job' = [job EXCEPT ![j] = r]
  BY <1>2, <1>3, <1>4 DEF Opens
<1>7. Sound(r) /\ r.pc \notin Outside
  <2>1. job[j].left \in Seq(Units) /\ job[j].wanted \subseteq Sources
    BY <1>2 DEF Job
  <2>2. Range(job[j].left) = {Unit(j)} \cup Range(Tail(job[j].left))
    BY <1>1, <2>1, HeadAndTail DEF Unit
  <2>3. job[j].wanted \subseteq job[j].begun \cup Range(job[j].left)
    BY <1>1, <1>2 DEF Sound
  <2>4. job[j].wanted \subseteq begun \cup Range(Tail(job[j].left))
    BY <1>3, <2>1, <2>2, <2>3
  <2> QED
    BY <1>1, <1>2, <1>5, <2>4 DEF Sound, Before, Outside
<1>8. /\ job' \in [Jobs -> Job] /\ lock' \in Jobs \cup {None}
      /\ OneFetcher' /\ JobsSound'
  BY <1>1, <1>5, <1>6, <1>7, OneGoesOn DEF Outside
<1>9. rows' \subseteq Row
  BY <1>2, RowsStayRows DEF Opens, ChainInv
<1> QED
  BY <1>1, <1>8, <1>9 DEF ChainInv, TypeOK

(* On to the next unit, when the one in hand is begun or is no source.     *)
LEMMA OnToTheNext ==
    ASSUME NightlyAssumption, ChainInv, NEW j \in Jobs, NextUnit(j), lock' = lock,
           \/ job[j].pc = "working"
           \/ job[j].pc = "choosing" /\ job[j].left = <<"imdb">>
    PROVE  /\ job' \in [Jobs -> Job] /\ lock' \in Jobs \cup {None}
           /\ OneFetcher' /\ JobsSound'
<1>1. /\ job[j] \in Job /\ job \in [Jobs -> Job] /\ job[j].phases # <<>>
      /\ Sound(job[j])
  BY InAPhase
<1>2. job[j].left \in Seq(Units) /\ job[j].left # <<>> /\ job[j].wanted \subseteq Sources
  <2>1. job[j].left \in Seq(Units) /\ job[j].wanted \subseteq Sources
    BY <1>1 DEF Job
  <2>2. CASE job[j].pc = "working"
    BY <1>1, <2>1, <2>2 DEF Sound
  <2>3. CASE job[j].left = <<"imdb">>
    BY <2>1, <2>3
  <2> QED
    BY <2>1, <2>2, <2>3
<1>3. PICK left : left = Tail(job[j].left)
  OBVIOUS
<1>4. left \in Seq(Units) /\ Range(job[j].left) = {Head(job[j].left)} \cup Range(left)
  BY <1>2, <1>3, HeadAndTail
<1>5. PICK r : r = [job[j] EXCEPT !.pc = "choosing", !.left = left]
  OBVIOUS
<1>6. /\ r \in Job /\ r.pc = "choosing" /\ r.left = left /\ r.begun = job[j].begun
      /\ r.wanted = job[j].wanted /\ r.phases = job[j].phases
  BY <1>1, <1>4, <1>5 DEF Job
<1>7. job' = [job EXCEPT ![j] = r]
  BY <1>1, <1>3, <1>5 DEF NextUnit
<1>8. job[j].wanted \subseteq job[j].begun \cup Range(left)
  <2>1. CASE job[j].pc = "working"
    BY <1>1, <1>3, <2>1 DEF Sound
  <2>2. CASE job[j].pc = "choosing" /\ job[j].left = <<"imdb">>
    <3>1. Head(job[j].left) = "imdb" /\ "imdb" \notin Sources
      BY <2>2 DEF NightlyAssumption
    <3>2. job[j].wanted \subseteq job[j].begun \cup Range(job[j].left)
      BY <1>1, <2>2 DEF Sound
    <3> QED
      BY <1>2, <1>4, <3>1, <3>2
  <2> QED
    BY <2>1, <2>2
<1>9. Sound(r) /\ r.pc \notin Outside
  BY <1>1, <1>6, <1>8 DEF Sound, Before, Outside
<1> QED
  BY <1>6, <1>7, <1>9, OneGoesOn DEF Outside

LEMMA ClosingIsSound ==
    ASSUME NightlyAssumption, ChainInv, NEW j \in Jobs, Closes(j) \/ Forgoes(j)
    PROVE  ChainInv'
<1>1. lock' = lock /\ note' = note /\ on' = on /\ asked' = asked /\ NextUnit(j)
  BY DEF Closes, Forgoes, switches
<1>2. /\ job' \in [Jobs -> Job] /\ lock' \in Jobs \cup {None}
      /\ OneFetcher' /\ JobsSound'
  BY <1>1, OnToTheNext DEF Closes, Forgoes, At
<1>3. faults' \in 0 .. MaxFaults /\ hands' \in 0 .. MaxByHand
  BY BudgetsAreKept DEF Closes, Forgoes, ChainInv
<1>4. rows' \subseteq Row
  <2>1. rows \subseteq Row
    BY DEF ChainInv, TypeOK
  <2> QED
    BY <2>1, RowsStayRows DEF Closes, Forgoes, ChainInv, Phases
<1> QED
  BY <1>1, <1>2, <1>3, <1>4 DEF ChainInv, TypeOK

(* A job ends its phase: refused, broken off, or through with it.          *)
LEMMA EndingIsSound ==
    ASSUME NightlyAssumption, ChainInv, NEW j \in Jobs,
           Barred(j) \/ Breaks(j) \/ ArtworkRaises(j) \/ Tried(j) \/ Clears(j)
    PROVE  ChainInv'
<1>1. on' = on
  BY DEF Barred, Breaks, ArtworkRaises, Tried, Clears, switches
<1>2. asked' \in [Sources -> BOOLEAN]
  BY DEF Barred, Breaks, ArtworkRaises, Tried, Clears, switches, ChainInv, TypeOK
<1>3. faults' \in 0 .. MaxFaults /\ hands' \in 0 .. MaxByHand
  BY BudgetsAreKept DEF Barred, Breaks, ArtworkRaises, Tried, Clears, ChainInv
<1>4. job[j].pc \in {"entering", "starting", "choosing", "clearing", "working"}
  BY DEF Barred, Breaks, ArtworkRaises, Tried, Clears, MayClear, At
<1>5. Phase(j) \in Phases /\ job \in [Jobs -> Job]
  BY <1>4, InAPhase
<1>6. note' \in Phases \cup {None}
  BY <1>5 DEF Barred, Breaks, ArtworkRaises, Tried, Clears, Noted, ChainInv, TypeOK
<1>7. rows' \subseteq Row
  <2>1. rows \subseteq Row
    BY DEF ChainInv, TypeOK
  <2>2. CASE ArtworkRaises(j)
    BY <2>1, <2>2, RowsStayRows DEF ArtworkRaises, ChainInv, Phases
  <2>3. CASE ~ ArtworkRaises(j)
    BY <2>1, <2>3 DEF Barred, Breaks, Tried, Clears
  <2> QED
    BY <2>2, <2>3
<1>8. /\ job' \in [Jobs -> Job] /\ lock' \in Jobs \cup {None}
      /\ OneFetcher' /\ JobsSound'
  <2>1. CASE Leaves(j)
    BY <1>4, <2>1, LeavingIsSound DEF Outside
  <2>2. CASE Tried(j) /\ To(j, "clearing") /\ lock' = lock
    BY <2>2, GoingTo DEF Tried, At, Outside
  <2> QED
    BY <2>1, <2>2 DEF Barred, Breaks, ArtworkRaises, Tried, Clears
<1> QED
  BY <1>1, <1>2, <1>3, <1>6, <1>7, <1>8 DEF ChainInv, TypeOK

(* A process dies and takes its jobs with it, and the lock if it had it.   *)
LEMMA DyingIsSound ==
    ASSUME NightlyAssumption, ChainInv, NEW p \in {"daemon", "shell"}, Dies(p)
    PROVE  ChainInv'
<1> DEFINE dead == {j \in Jobs : Process(j) = p /\ ~At(j, "idle")}
<1>1. /\ job' = [j \in Jobs |-> IF j \in dead THEN Idle ELSE job[j]]
      /\ lock' = IF lock \in dead THEN None ELSE lock
      /\ rows' = Orphaned(rows, dead) /\ Trouble
      /\ note' = note /\ on' = on /\ asked' = asked
  BY DEF Dies, switches
<1>2. dead \in SUBSET Jobs
  OBVIOUS
<1>3. faults' \in 0 .. MaxFaults /\ hands' \in 0 .. MaxByHand
  BY <1>1, BudgetsAreKept DEF ChainInv
<1>4. rows' \subseteq Row
  <2>1. "nightly" \in Jobs /\ "sync" \in Phases
    BY DEF Jobs, Phases
  <2> QED
    BY <1>1, <1>2, <2>1, RowsStayRows DEF ChainInv
<1>5. /\ job \in [Jobs -> Job] /\ lock \in Jobs \cup {None} /\ None \notin Jobs
      /\ \A k \in Jobs : (job[k].pc \notin {"idle", "asking"} <=> lock = k) /\ Sound(job[k])
  BY DEF ChainInv, TypeOK, OneFetcher, JobsSound, NightlyAssumption, Jobs
<1> HIDE DEF dead
<1>6. Idle \in Job /\ Sound(Idle) /\ Idle.pc = "idle"
  BY DEF Idle, Job, Sound, Before
<1>7. \A k \in Jobs : job'[k] = IF k \in dead THEN Idle ELSE job[k]
  BY <1>1
<1>8. job' \in [Jobs -> Job] /\ lock' \in Jobs \cup {None}
  BY <1>1, <1>5, <1>6
<1>9. \A k \in Jobs : (job'[k].pc \notin {"idle", "asking"} <=> lock' = k) /\ Sound(job'[k])
  <2> TAKE k \in Jobs
  <2>1. CASE k \in dead
    BY <1>1, <1>5, <1>6, <1>7, <2>1
  <2>2. CASE k \notin dead
    BY <1>1, <1>5, <1>7, <2>2
  <2> QED
    BY <2>1, <2>2
<1>10. OneFetcher'
  BY <1>9 DEF OneFetcher
<1>11. JobsSound'
  BY <1>9 DEF JobsSound
<1> QED
  BY <1>1, <1>3, <1>4, <1>8, <1>10, <1>11 DEF ChainInv, TypeOK

(* What passes by the jobs.                                                *)
LEMMA PassingByIsSound ==
    ASSUME NightlyAssumption, ChainInv,
           \/ Ages \/ LocalCommand \/ UNCHANGED vars
           \/ \E s \in Sources : Toggle(s)
    PROVE  ChainInv'
<1>1. lock' = lock /\ job' = job /\ note' = note /\ faults' = faults /\ hands' = hands
  BY DEF Ages, LocalCommand, Toggle, vars, budgets
<1>2. on' \in [Sources -> BOOLEAN] /\ asked' \in [Sources -> BOOLEAN]
  BY DEF Ages, LocalCommand, Toggle, vars, switches, ChainInv, TypeOK
<1>3. rows' \subseteq Row
  <2>1. rows \subseteq Row
    BY DEF ChainInv, TypeOK
  <2>2. \A r \in Row : [r EXCEPT !.old = TRUE] \in Row
    BY DEF Row
  <2> QED
    BY <2>1, <2>2 DEF Ages, LocalCommand, Toggle, vars
<1>4. OneFetcher' /\ JobsSound'
  BY <1>1 DEF ChainInv, OneFetcher, JobsSound
<1> QED
  BY <1>1, <1>2, <1>3, <1>4 DEF ChainInv, TypeOK

LEMMA Stepping == NightlyAssumption /\ ChainInv /\ [Next]_vars => ChainInv'
<1> SUFFICES ASSUME NightlyAssumption, ChainInv, [Next]_vars PROVE ChainInv'
  OBVIOUS
<1>1. CASE NightlyStarts \/ ByHand \/ PollAsks \/ PollTakes
  BY <1>1, BeginningIsSound
<1>2. ASSUME NEW j \in Jobs, JobStep(j) PROVE ChainInv'
  BY <1>2, EnteringIsSound, StartsIsSound, OpensIsSound, ClosingIsSound, EndingIsSound
     DEF JobStep
<1>3. CASE \E p \in {"daemon", "shell"} : Dies(p)
  BY <1>3, DyingIsSound
<1>4. CASE Ages \/ LocalCommand \/ (\E s \in Sources : Toggle(s)) \/ UNCHANGED vars
  BY <1>4, PassingByIsSound
<1> QED
  BY <1>1, <1>2, <1>3, <1>4 DEF Next

LEMMA Chained == NightlyAssumption => (Spec => []ChainInv)
<1> SUFFICES ASSUME NightlyAssumption PROVE Spec => []ChainInv
  OBVIOUS
<1>1. Init => ChainInv
  BY Starting
<1>2. ChainInv /\ [Next]_vars => ChainInv'
  BY Stepping
<1> QED
  BY <1>1, <1>2, PTL DEF Spec

-----------------------------------------------------------------------------
(* What follows.                                                           *)

(* Every job, row, note and ask is what it should be.                      *)
THEOREM TypeCorrect == NightlyAssumption => (Spec => []TypeOK)
<1>1. ChainInv => TypeOK
  BY DEF ChainInv
<1> QED
  BY <1>1, Chained, PTL

(* However many jobs wake at once and whatever dies, one fetcher at a time *)
(* is past the lock, and the lock is its own (lock.py, run_daemon).        *)
THEOREM OnlyOneFetches == NightlyAssumption => (Spec => []OneFetcher)
<1>1. ChainInv => OneFetcher
  BY DEF ChainInv
<1> QED
  BY <1>1, Chained, PTL

(* An ask goes only in the step that clears what a sync was to fetch, all  *)
(* of it begun, or by the switch.                                          *)
LEMMA AsksGoRightly ==
    ASSUME NightlyAssumption, ChainInv, [Next]_vars,
           NEW s \in Sources, asked[s], ~asked'[s]
    PROVE  ~on'[s] \/ \E j \in Jobs : s \in job[j].begun
<1>1. asked' # asked
  OBVIOUS
<1>2. CASE \E x \in Sources : Toggle(x)
  <2>1. PICK x \in Sources : Toggle(x)
    BY <1>2
  <2>2. on \in [Sources -> BOOLEAN] /\ asked \in [Sources -> BOOLEAN]
    BY DEF ChainInv, TypeOK
  <2>3. x = s
    BY <2>1, <2>2 DEF Toggle
  <2>4. asked'[s] = ~on[s] /\ on'[s] = ~on[s]
    BY <2>1, <2>2, <2>3 DEF Toggle
  <2> QED
    BY <2>4
<1>3. CASE \E j \in Jobs : Clears(j)
  <2>1. PICK j \in Jobs : Clears(j)
    BY <1>3
  <2>2. job[j].wanted \subseteq job[j].begun
    BY <2>1 DEF Clears, MayClear, At, ChainInv, JobsSound, Sound
  <2>3. s \in job[j].wanted
    BY <2>1 DEF Clears
  <2> QED
    BY <2>2, <2>3
<1>4. (\E x \in Sources : Toggle(x)) \/ (\E j \in Jobs : Clears(j))
  <2>1. \A j \in Jobs : JobStep(j) => Clears(j)
    BY <1>1 DEF JobStep, Enters, Posts, PostEnds, Barred, Starts, Opens, Closes, Forgoes,
                Breaks, ArtworkRaises, Tried, switches
  <2> QED
    BY <1>1, <2>1 DEF Next, NightlyStarts, ByHand, Chain, Syncs, PollAsks, PollTakes, Dies,
                      Ages, LocalCommand, vars, switches
<1> QED
  BY <1>2, <1>3, <1>4

(* However a fetch is refused, broken off or killed, an operator's ask     *)
(* stands until a sync has begun that very source or the operator takes it *)
(* back (runner.py, sync_all; toggle_source).                              *)
THEOREM AsksStand == NightlyAssumption => (Spec => AsksOutliveFailures)
<1> SUFFICES ASSUME NightlyAssumption PROVE Spec => AsksOutliveFailures
  OBVIOUS
<1>1. ChainInv /\ [Next]_vars
        => [\A s \in Sources : asked[s] /\ ~asked'[s] =>
              \/ ~on'[s]
              \/ \E j \in Jobs : s \in job[j].begun]_vars
  BY AsksGoRightly
<1> QED
  BY <1>1, Chained, PTL DEF Spec, AsksOutliveFailures
=============================================================================
