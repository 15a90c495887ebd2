-------------------------- MODULE RateLimitProofs --------------------------
(***************************************************************************)
(* Buckets worked out only when they are used hold what buckets worked out *)
(* at every tick would, for every rate, burst, caller and cap.             *)
(***************************************************************************)
EXTENDS RateLimit, TLAPS

-----------------------------------------------------------------------------
(* What a call draws from.                                                 *)

LEMMA CallersDraw ==
    ASSUME NEW q \in Call
    PROVE  /\ Caller(q) \in Callers /\ <<"addr", q.ip>> \in Callers
           /\ q.credential = None => Caller(q) = <<"addr", q.ip>>
           /\ Caller(q)[1] = IF q.credential # None THEN "cred" ELSE "addr"
BY DEF Call, Caller, Callers

(* No two draws of a call are from one bucket, and the buckets drawn from  *)
(* at a rate that limits callers are those the call counts for.            *)
LEMMA DrawsCount ==
    ASSUME RateLimitAssumption, NEW q \in Call
    PROVE  /\ \A d \in Draws(q) : d.key \in Keys /\ d.rate \in RateNames
           /\ \A d, e \in Draws(q) : d.key = e.key => d = e
           /\ \A d \in Draws(q) : d.key \in Limits => d.rate = RateOf(d.key)
           /\ \A l \in Limits : l \in KeysOf(Draws(q)) <=> CountsFor(q, l)
<1> DEFINE ip == <<"addr", q.ip>>
           c == Caller(q)
           Goal == /\ \A d \in Draws(q) : d.key \in Keys /\ d.rate \in RateNames
                   /\ \A d, e \in Draws(q) : d.key = e.key => d = e
                   /\ \A d \in Draws(q) : d.key \in Limits => d.rate = RateOf(d.key)
                   /\ \A l \in Limits : l \in KeysOf(Draws(q)) <=> CountsFor(q, l)
<1>1. /\ c \in Callers /\ ip \in Callers
      /\ c[1] = IF q.credential # None THEN "cred" ELSE "addr"
    BY CallersDraw
<1>2. /\ q.route \in {"api", "ingest", "sign_in", "mcp", "oauth", "static"} /\ q.route \in Routes
      /\ q.write => q.route \in {"api", "ingest"}
      /\ q.write \in BOOLEAN
    BY DEF Call, RateLimitAssumption
<1> HIDE DEF c
<1>3. CASE q.route = "mcp"
  <2>1. Draws(q) = {Draw("address", ip, "address"), Draw("mcp", c, "assistant")}
    BY <1>3 DEF Draws, c
  <2>2. \A l \in Limits : CountsFor(q, l) <=> l = <<"address", ip>>
    BY <1>3 DEF CountsFor, Limits
  <2> QED BY <1>1, <1>2, <1>3, <2>1, <2>2 DEF Draw, Keys, RateNames, Limits, RateOf, KeysOf
<1>4. CASE q.route \in {"oauth", "sign_in"}
  <2>1. Draws(q) = {Draw(q.route, ip, q.route)}
    BY <1>4 DEF Draws
  <2>2. \A l \in Limits : ~CountsFor(q, l)
    BY <1>4 DEF CountsFor
  <2> QED BY <1>1, <1>2, <1>4, <2>1, <2>2 DEF Draw, Keys, RateNames, Limits, KeysOf
<1>5. CASE q.route = "static" \/ (q.route = "ingest" /\ q.credential # None)
  <2>1. Draws(q) = {}
    BY <1>5 DEF Draws
  <2>2. \A l \in Limits : ~CountsFor(q, l)
    BY <1>5 DEF CountsFor
  <2> QED BY <2>1, <2>2 DEF KeysOf
<1>6. CASE q.route = "api" \/ (q.route = "ingest" /\ q.credential = None)
  <2> DEFINE own == Draw("caller", c, IF q.credential # None THEN "member" ELSE "anonymous")
             addresses == {Draw("address", ip, "address") : x \in {q.ip} \ {InProcess}}
             writes == {Draw("write", c, "writes") : x \in {q.write} \ {FALSE}}
  <2>1. Draws(q) = {own} \cup addresses \cup writes
    BY <1>6 DEF Draws, c
  <2>2. /\ own.key = <<"caller", c>> /\ own.key \in Keys /\ own.key \in Limits
        /\ own.rate \in RateNames /\ own.rate = RateOf(own.key)
    BY <1>1 DEF Draw, Keys, Limits, RateNames, RateOf
  <2>3. \A d \in addresses : /\ d = Draw("address", ip, "address") /\ q.ip # InProcess
                             /\ d.key = <<"address", ip>> /\ d.key \in Keys
                             /\ d.rate \in RateNames /\ d.rate = RateOf(d.key)
    BY <1>1 DEF Draw, Keys, RateNames, RateOf
  <2>4. \A d \in writes : /\ d = Draw("write", c, "writes") /\ q.write
                          /\ d.key = <<"write", c>> /\ d.key \in Keys
                          /\ d.rate \in RateNames /\ d.rate = RateOf(d.key)
    <3>1. \A d \in writes : d = Draw("write", c, "writes") /\ q.write # FALSE
        OBVIOUS
    <3>2. q.write # FALSE => q.write
        BY <1>2
    <3>3. /\ Draw("write", c, "writes").key = <<"write", c>>
          /\ Draw("write", c, "writes").key \in Keys
          /\ Draw("write", c, "writes").rate \in RateNames
          /\ Draw("write", c, "writes").rate = RateOf(Draw("write", c, "writes").key)
        BY <1>1 DEF Draw, Keys, RateNames, RateOf
    <3> QED BY Zenon, <3>1, <3>2, <3>3
  <2>5. /\ q.ip # InProcess => Draw("address", ip, "address") \in addresses
        /\ q.write => Draw("write", c, "writes") \in writes
    OBVIOUS
  <2>6. \A l \in Limits : CountsFor(q, l) <=>
            \/ l = <<"caller", c>>
            \/ l = <<"address", ip>> /\ q.ip # InProcess
            \/ l = <<"write", c>> /\ q.write
    BY <1>1, <1>6 DEF CountsFor, Limits, c
  <2> HIDE DEF own, addresses, writes
  <2>7. \A d \in Draws(q) : d.key \in Keys /\ d.rate \in RateNames /\ d.rate = RateOf(d.key)
    BY <2>1, <2>2, <2>3, <2>4
  <2>8. \A d, e \in Draws(q) : d.key = e.key => d = e
    BY <2>1, <2>2, <2>3, <2>4
  <2>9. \A k : k \in KeysOf(Draws(q)) <=>
            \/ k = <<"caller", c>>
            \/ k = <<"address", ip>> /\ q.ip # InProcess
            \/ k = <<"write", c>> /\ q.write
    <3>1. /\ Draw("address", ip, "address").key = <<"address", ip>>
          /\ Draw("write", c, "writes").key = <<"write", c>>
        BY DEF Draw
    <3> QED BY <2>1, <2>2, <2>3, <2>4, <2>5, <3>1 DEF KeysOf
  <2> QED BY <2>6, <2>7, <2>8, <2>9
<1> QED BY <1>2, <1>3, <1>4, <1>5, <1>6

-----------------------------------------------------------------------------
(* The arithmetic of a bucket.                                             *)

LEMMA Lesser ==
    ASSUME NEW a \in Int, NEW b \in Int
    PROVE  Min({a, b}) = IF a <= b THEN a ELSE b
<1>1. ASSUME NEW x \in {a, b}, NEW y \in {a, b}, \A z \in {a, b} : x <= z /\ y <= z
      PROVE  x = y
    BY <1>1
<1>2. \E x \in {a, b} : \A z \in {a, b} : x <= z
    OBVIOUS
<1> QED BY <1>1, <1>2 DEF Min

(* Filling up a tick later is filling up now and once more.                *)
LEMMA FillsTickByTick ==
    ASSUME NEW top \in Nat, NEW left \in Nat, NEW ticks \in Nat, NEW rate \in Nat
    PROVE  /\ Min({top, left + ticks * rate}) \in Nat
           /\ Min({top, left + ticks * rate}) <= top
           /\ Min({top, left + (ticks + 1) * rate})
                = Min({top, Min({top, left + ticks * rate}) + rate})
<1>1. PICK x \in Nat : x = left + ticks * rate
    OBVIOUS
<1>2. left + (ticks + 1) * rate = x + rate
    BY <1>1
<1>3. Min({top, x}) = IF top <= x THEN top ELSE x
    BY Lesser
<1>4. Min({top, x + rate}) = IF top <= x + rate THEN top ELSE x + rate
    BY Lesser
<1>5. PICK y \in Nat : y = Min({top, x}) /\ y = IF top <= x THEN top ELSE x
    BY <1>3
<1>6. Min({top, y + rate}) = IF top <= y + rate THEN top ELSE y + rate
    BY Lesser
<1>7. Min({top, x + rate}) = Min({top, y + rate})
    BY <1>4, <1>5, <1>6
<1> QED BY <1>1, <1>2, <1>5, <1>7

-----------------------------------------------------------------------------
(* The buckets held.                                                       *)
Bucket == [left : Nat, at : Nat]

HeldInv ==
    /\ clock \in Nat /\ held \in [Keys -> Bucket \cup {None}]
    /\ \A k \in Keys : held[k] # None => held[k].at <= clock
    /\ promised \in [Limits -> Nat]

LEMMA LevelIsWithin ==
    ASSUME RateLimitAssumption, HeldInv, NEW k \in Keys, NEW n \in RateNames
    PROVE  Level(k, n) \in Nat /\ Level(k, n) <= Burst[n]
<1>1. Burst[n] \in Nat /\ PerTick[n] \in Nat
    BY DEF RateLimitAssumption
<1>2. CASE held[k] = None
    BY <1>1, <1>2 DEF Level
<1>3. CASE held[k] # None
  <2>1. held[k].left \in Nat /\ clock - held[k].at \in Nat
    BY <1>3 DEF HeldInv, Bucket
  <2>2. PICK ticks \in Nat : ticks = clock - held[k].at
    BY <2>1
  <2> QED BY <1>1, <1>3, <2>1, <2>2, FillsTickByTick DEF Level
<1> QED BY <1>2, <1>3

LEMMA LimitsAreRated ==
    ASSUME NEW l \in Limits
    PROVE  l \in Keys /\ RateOf(l) \in RateNames
BY DEF Limits, Keys, RateOf, RateNames

(* What storing a call's draws does to one bucket: it is worked out, left  *)
(* as it is, or forgotten.                                                 *)
LEMMA StoredBucket ==
    ASSUME RateLimitAssumption, HeldInv, NEW q \in Call, NEW cost \in Nat,
           \A d \in Draws(q) : Level(d.key, d.rate) >= cost,
           Stored(Draws(q), cost), UNCHANGED clock, NEW k \in Keys
    PROVE  \/ held'[k] = None
           \/ held'[k] = held[k] /\ k \notin KeysOf(Draws(q))
           \/ \E d \in Draws(q) :
                d.key = k /\ held'[k] = [left |-> Level(k, d.rate) - cost, at |-> clock]
<1>1. held'[k] = IF ~Contains(Used(Draws(q)), k) THEN None
                 ELSE IF k \in KeysOf(Draws(q))
                      THEN LET d == CHOOSE d \in Draws(q) : d.key = k
                           IN  [left |-> Level(k, d.rate) - cost, at |-> clock]
                      ELSE held[k]
    BY DEF Stored
<1>2. CASE k \in KeysOf(Draws(q))
  <2>1. \E d \in Draws(q) : d.key = k
    BY <1>2 DEF KeysOf
  <2>2. PICK d \in Draws(q) : d = (CHOOSE e \in Draws(q) : e.key = k) /\ d.key = k
    BY <2>1
  <2> QED BY <1>1, <1>2, <2>2
<1> QED BY <1>1, <1>2

LEMMA StoredIsHeld ==
    ASSUME RateLimitAssumption, HeldInv, NEW q \in Call, NEW cost \in Nat,
           \A d \in Draws(q) : Level(d.key, d.rate) >= cost,
           Stored(Draws(q), cost), UNCHANGED clock
    PROVE  /\ held' \in [Keys -> Bucket \cup {None}]
           /\ \A k \in Keys : held'[k] # None => held'[k].at <= clock
<1>1. ASSUME NEW k \in Keys
      PROVE  /\ held'[k] \in Bucket \cup {None}
             /\ held'[k] # None => held'[k].at <= clock
  <2>1. CASE held'[k] = held[k]
    BY <2>1 DEF HeldInv
  <2>2. ASSUME NEW d \in Draws(q), d.key = k,
               held'[k] = [left |-> Level(k, d.rate) - cost, at |-> clock]
        PROVE  held'[k] \in Bucket /\ held'[k].at <= clock
    <3>1. Level(k, d.rate) \in Nat /\ Level(k, d.rate) >= cost
        BY <2>2, DrawsCount, LevelIsWithin
    <3>2. PICK left \in Nat : left = Level(k, d.rate) - cost
        BY <3>1
    <3> QED BY <2>2, <3>2 DEF HeldInv, Bucket
  <2> QED BY <2>1, <2>2, StoredBucket
<1>2. held' = [k \in Keys |-> held'[k]]
    BY DEF Stored
<1> QED BY <1>1, <1>2

(* A limited bucket afterwards: full and forgotten, or less what the call  *)
(* cost it if the call counts for it.                                      *)
LEMMA StoredLevel ==
    ASSUME RateLimitAssumption, HeldInv, NEW q \in Call, NEW cost \in Nat,
           \A d \in Draws(q) : Level(d.key, d.rate) >= cost,
           Stored(Draws(q), cost), UNCHANGED clock, NEW l \in Limits, held'[l] # None
    PROVE  Level(l, RateOf(l))' = IF CountsFor(q, l) THEN Level(l, RateOf(l)) - cost
                                  ELSE Level(l, RateOf(l))
<1>1. l \in Keys /\ RateOf(l) \in RateNames
    BY LimitsAreRated
<1>2. CASE held'[l] = held[l] /\ l \notin KeysOf(Draws(q))
  <2>1. ~CountsFor(q, l)
    BY <1>2, DrawsCount
  <2> QED BY <1>2, <2>1 DEF Level
<1>3. ASSUME NEW d \in Draws(q), d.key = l,
             held'[l] = [left |-> Level(l, d.rate) - cost, at |-> clock]
      PROVE  CountsFor(q, l) /\ Level(l, RateOf(l))' = Level(l, RateOf(l)) - cost
  <2>1. d.rate = RateOf(l) /\ CountsFor(q, l)
    BY <1>3, DrawsCount DEF KeysOf
  <2>2. PICK x \in Nat : /\ x = Level(l, RateOf(l)) - cost /\ x <= Burst[RateOf(l)]
                         /\ held'[l].left = x /\ held'[l].at = clock
    <3>1. /\ Level(l, RateOf(l)) \in Nat /\ Level(l, RateOf(l)) <= Burst[RateOf(l)]
          /\ Level(l, RateOf(l)) >= cost /\ Burst[RateOf(l)] \in Nat
        BY <1>1, <1>3, <2>1, LevelIsWithin DEF RateLimitAssumption
    <3>2. PICK x \in Nat : x = Level(l, RateOf(l)) - cost
        BY <3>1
    <3> QED BY <1>3, <2>1, <3>1, <3>2
  <2>3. PICK top \in Nat, rate \in Nat : top = Burst[RateOf(l)] /\ rate = PerTick[RateOf(l)]
    BY <1>1 DEF RateLimitAssumption
  <2>4. x + (clock - clock) * rate = x
    BY DEF HeldInv
  <2>5. Min({top, x}) = x
    BY <2>2, <2>3, Lesser
  <2>6. Level(l, RateOf(l))' = Min({top, x + (clock - clock) * rate})
    BY <2>2, <2>3 DEF Level
  <2> QED BY <2>1, <2>2, <2>4, <2>5, <2>6
<1> QED BY <1>1, <1>2, <1>3, StoredBucket

-----------------------------------------------------------------------------
BucketInv == HeldInv /\ BucketsAsPromised

LEMMA BucketInit == RateLimitAssumption /\ Init => BucketInv
<1> SUFFICES ASSUME RateLimitAssumption, Init PROVE BucketInv
    OBVIOUS
<1>1. \A l \in Limits : l \in Keys /\ Burst[RateOf(l)] \in Nat
    BY LimitsAreRated DEF RateLimitAssumption
<1>2. HeldInv
    BY <1>1 DEF Init, HeldInv
<1> QED BY <1>1, <1>2 DEF Init, BucketInv, BucketsAsPromised, Level

LEMMA CallKeeps ==
    ASSUME RateLimitAssumption, BucketInv, NEW q \in Call, Admits(q) \/ Refuses(q)
    PROVE  BucketInv'
<1>1. PICK cost \in Nat :
        /\ \A d \in Draws(q) : Level(d.key, d.rate) >= cost
        /\ Stored(Draws(q), cost) /\ clock' = clock
        /\ promised' = [l \in Limits |->
              IF held'[l] = None THEN Burst[RateOf(l)]
              ELSE IF CountsFor(q, l) THEN promised[l] - cost ELSE promised[l]]
  <2>1. CASE Admits(q)
    BY <2>1 DEF Admits, RateLimitAssumption
  <2>2. CASE Refuses(q)
    <3>1. \A d \in Draws(q) : Level(d.key, d.rate) >= 0
        BY DrawsCount, LevelIsWithin DEF BucketInv
    <3>2. \A l \in Limits : promised[l] - 0 = promised[l]
        BY DEF BucketInv, HeldInv
    <3> QED BY <2>2, <3>1, <3>2 DEF Refuses
  <2> QED BY <2>1, <2>2
<1>2. /\ held' \in [Keys -> Bucket \cup {None}]
      /\ \A k \in Keys : held'[k] # None => held'[k].at <= clock
    BY <1>1, StoredIsHeld DEF BucketInv
<1>3. ASSUME NEW l \in Limits
      PROVE  Level(l, RateOf(l))' = promised'[l] /\ promised'[l] \in Nat
  <2>1. l \in Keys /\ RateOf(l) \in RateNames /\ Burst[RateOf(l)] \in Nat
    BY LimitsAreRated DEF RateLimitAssumption
  <2>2. CASE held'[l] = None
    BY <1>1, <2>1, <2>2 DEF Level
  <2>3. CASE held'[l] # None
    <3>1. Level(l, RateOf(l))' = IF CountsFor(q, l) THEN Level(l, RateOf(l)) - cost
                                 ELSE Level(l, RateOf(l))
        BY <1>1, <2>3, StoredLevel DEF BucketInv
    <3>2. Level(l, RateOf(l)) = promised[l] /\ promised[l] \in Nat
        BY DEF BucketInv, BucketsAsPromised, HeldInv
    <3>3. promised'[l] = IF CountsFor(q, l) THEN promised[l] - cost ELSE promised[l]
        BY <1>1, <2>3
    <3>4. CountsFor(q, l) => promised[l] >= cost
      <4>1. ASSUME CountsFor(q, l)
            PROVE  Level(l, RateOf(l)) >= cost
        <5>1. PICK d \in Draws(q) : d.key = l
            BY <4>1, DrawsCount DEF KeysOf
        <5>2. d.rate = RateOf(l)
            BY <5>1, DrawsCount
        <5> QED BY <1>1, <5>1, <5>2
      <4> QED BY <3>2, <4>1
    <3> QED BY <3>1, <3>2, <3>3, <3>4
  <2> QED BY <2>2, <2>3
<1>4. promised' \in [Limits -> Nat]
    BY <1>1, <1>3
<1> QED BY <1>1, <1>2, <1>3, <1>4 DEF BucketInv, HeldInv, BucketsAsPromised

LEMMA TicksKeep ==
    ASSUME RateLimitAssumption, BucketInv, Ticks
    PROVE  BucketInv'
<1>1. /\ clock' = clock + 1 /\ held' = held
      /\ promised' = [l \in Limits |->
            Min({Burst[RateOf(l)], promised[l] + PerTick[RateOf(l)]})]
    BY DEF Ticks
<1>2. ASSUME NEW l \in Limits
      PROVE  Level(l, RateOf(l))' = promised'[l] /\ promised'[l] \in Nat
  <2>1. PICK top \in Nat, rate \in Nat : top = Burst[RateOf(l)] /\ rate = PerTick[RateOf(l)]
    BY LimitsAreRated DEF RateLimitAssumption
  <2>2. promised'[l] = Min({top, promised[l] + rate})
    BY <1>1, <2>1
  <2>3. promised[l] = Level(l, RateOf(l)) /\ l \in Keys
    BY LimitsAreRated DEF BucketInv, BucketsAsPromised
  <2>4. CASE held[l] = None
    <3>1. promised[l] = top
        BY <2>1, <2>3, <2>4 DEF Level
    <3>2. Min({top, top + rate}) = top
        BY Lesser
    <3> QED BY <1>1, <2>1, <2>2, <2>4, <3>1, <3>2 DEF Level
  <2>5. CASE held[l] # None
    <3>1. PICK left \in Nat, ticks \in Nat : left = held[l].left /\ ticks = clock - held[l].at
        BY <2>3, <2>5 DEF BucketInv, HeldInv, Bucket
    <3>2. (clock + 1) - held[l].at = ticks + 1
        BY <2>3, <2>5, <3>1 DEF BucketInv, HeldInv, Bucket
    <3>3. promised[l] = Min({top, left + ticks * rate})
        BY <2>1, <2>3, <2>5, <3>1 DEF Level
    <3>4. Level(l, RateOf(l))' = Min({top, left + (ticks + 1) * rate})
      <4>1. Level(l, RateOf(l))' = Min({top, held'[l].left + (clock' - held'[l].at) * rate})
        BY <1>1, <2>1, <2>5 DEF Level
      <4>2. held'[l].left = left /\ clock' - held'[l].at = ticks + 1
        BY <1>1, <3>1, <3>2
      <4> QED BY <4>1, <4>2
    <3>5. Level(l, RateOf(l))' = Min({top, promised[l] + rate})
        BY <3>3, <3>4, FillsTickByTick
    <3>6. promised[l] \in Nat
        BY DEF BucketInv, HeldInv
    <3>7. Min({top, promised[l] + rate}) \in Nat
        BY <3>6, Lesser
    <3> QED BY <2>2, <3>5, <3>7
  <2> QED BY <2>4, <2>5
<1>3. promised' \in [Limits -> Nat]
    BY <1>1, <1>2
<1>4. HeldInv'
    BY <1>1, <1>3 DEF BucketInv, HeldInv, Bucket
<1> QED BY <1>2, <1>4 DEF BucketInv, BucketsAsPromised

(* What is left in a bucket worked out when it is used is what the promise *)
(* leaves at every tick, whatever was admitted, refused and forgotten      *)
(* meanwhile (ratelimit.py: _level, _store, take, draws_for).              *)
THEOREM BucketsKeepThePromise == RateLimitAssumption => (Spec => []BucketsAsPromised)
<1> SUFFICES ASSUME RateLimitAssumption PROVE Spec => []BucketsAsPromised
    OBVIOUS
<1>1. BucketInv /\ [Next]_vars => BucketInv'
  <2>1. ASSUME BucketInv, UNCHANGED vars PROVE BucketInv'
    BY <2>1 DEF vars, BucketInv, HeldInv, BucketsAsPromised, Level
  <2> QED BY <2>1, CallKeeps, TicksKeep DEF Next
<1>2. BucketInv => BucketsAsPromised
    BY DEF BucketInv
<1> QED BY <1>1, <1>2, BucketInit, PTL DEF Spec

=============================================================================
