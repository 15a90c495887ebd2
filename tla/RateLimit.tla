----------------------------- MODULE RateLimit -----------------------------
(***************************************************************************)
(* How fast anybody may call the API: eifo_api/ratelimit.py, the buckets   *)
(* of one process and the buckets each request draws from.  The middleware *)
(* runs on the event loop, so a request takes from its buckets in a step.  *)
(*                                                                         *)
(* A token is Unit parts, so that rates are whole numbers of parts a tick. *)
(***************************************************************************)
EXTENDS Integers, FiniteSets, Sequences, SequencesExt, FiniteSetsExt

CONSTANTS
    IPs, InProcess,  \* client addresses, IN_PROCESS perhaps among them
    Routes,          \* kinds of paths
    Credentials,     \* hashes of tokens and session cookies
    Unit,            \* parts of one token
    PerTick, Burst,  \* of each rate: parts a tick, and parts at most
    MaxBuckets,      \* MAX_BUCKETS
    MaxTime,         \* bound: the clock
    None

RateNames == {"member", "anonymous", "address", "writes", "sign_in", "assistant", "oauth"}

RateLimitAssumption ==
    /\ Unit \in Nat \ {0} /\ MaxBuckets \in Nat \ {0} /\ MaxTime \in Nat
    /\ PerTick \in [RateNames -> Nat \ {0}]
    /\ Burst \in [RateNames -> Nat] /\ \A n \in RateNames : Burst[n] >= Unit
    /\ Routes \subseteq {"api", "ingest", "sign_in", "mcp", "oauth", "static"}
    /\ None \notin Credentials \cup [left : Nat, at : Nat]

Call ==
    {q \in [route : Routes, write : BOOLEAN, credential : Credentials \cup {None}, ip : IPs] :
        q.write => q.route \in {"api", "ingest"}}

Callers == {<<"cred", c>> : c \in Credentials} \cup {<<"addr", a>> : a \in IPs}
Keys == ({"address", "caller", "write"} \cup (Routes \ {"api"})) \X Callers

VARIABLES
    clock,
    held,     \* by key: what is left in the bucket, and when that was worked out
    recent,   \* the keys held, the least recently used first
    promised  \* history: what is left by the promise, worked out at every tick

vars == <<clock, held, recent, promised>>

-----------------------------------------------------------------------------
(* The buckets a call draws from.                                          *)

Caller(q) == IF q.credential # None THEN <<"cred", q.credential>> ELSE <<"addr", q.ip>>

Draw(kind, caller, rate) == [key |-> <<kind, caller>>, rate |-> rate]

(* draws_for.                                                              *)
Draws(q) ==
    LET ip == <<"addr", q.ip>> IN
    CASE q.route = "mcp" -> {Draw("address", ip, "address"), Draw("mcp", Caller(q), "assistant")}
      [] q.route = "oauth" -> {Draw("oauth", ip, "oauth")}
      [] q.route = "sign_in" -> {Draw("sign_in", ip, "sign_in")}
      [] q.route = "static" \/ (q.route = "ingest" /\ q.credential # None) -> {}
      [] OTHER ->
            {Draw("caller", Caller(q), IF q.credential # None THEN "member" ELSE "anonymous")}
            \cup {Draw("address", ip, "address") : x \in {q.ip} \ {InProcess}}
            \cup {Draw("write", Caller(q), "writes") : x \in {q.write} \ {FALSE}}

-----------------------------------------------------------------------------
(* The buckets.                                                            *)

SlipUncapped(key, rate) ==
    IF held[key] = None THEN Burst[rate]
    ELSE held[key].left + (clock - held[key].at) * PerTick[rate]

(* _level, at the present moment; a bucket not held is a full one.         *)
Level(key, rate) ==
    IF held[key] = None THEN Burst[rate]
    ELSE Min({Burst[rate], held[key].left + (clock - held[key].at) * PerTick[rate]})

KeysOf(ds) == {d.key : d \in ds}

SlipNeverForgets(ds) ==
    SelectSeq(recent, LAMBDA k : k \notin KeysOf(ds)) \o SetToSeq(KeysOf(ds))

(* The keys held once those of ds were used: the oldest beyond the cap are *)
(* forgotten.                                                              *)
Used(ds) ==
    LET used == SelectSeq(recent, LAMBDA k : k \notin KeysOf(ds)) \o SetToSeq(KeysOf(ds))
    IN  SubSeq(used, Len(used) - Min({Len(used), MaxBuckets}) + 1, Len(used))

(* _store, for each of the draws.                                          *)
Stored(ds, cost) ==
    LET used == Used(ds) IN
    /\ recent' = used
    /\ held' = [k \in Keys |->
          IF ~Contains(used, k) THEN None
          ELSE IF k \in KeysOf(ds)
               THEN LET d == CHOOSE d \in ds : d.key = k
                    IN  [left |-> Level(k, d.rate) - cost, at |-> clock]
               ELSE held[k]]

-----------------------------------------------------------------------------
(* What is promised, said of callers and not of keys.                      *)

Limits == {"address", "caller", "write"} \X Callers

RateOf(l) ==
    CASE l[1] = "address" -> "address"
      [] l[1] = "write" -> "writes"
      [] l[1] = "caller" -> IF l[2][1] = "cred" THEN "member" ELSE "anonymous"

(* A member is one caller wherever they are, and so is a stranger's        *)
(* address; an address has a ceiling over all that is sent from it.        *)
CountsFor(q, l) ==
    /\ q.route \in {"api", "mcp"} \/ (q.route = "ingest" /\ q.credential = None)
    /\ l[1] = "address" => /\ l[2] = <<"addr", q.ip>>
                           /\ q.route # "mcp" => q.ip # InProcess
    /\ l[1] # "address" => /\ q.route # "mcp"
                           /\ l[2] = Caller(q)
    /\ l[1] = "write" => q.write

Init ==
    /\ clock = 0
    /\ held = [k \in Keys |-> None] /\ recent = <<>>
    /\ promised = [l \in Limits |-> Burst[RateOf(l)]]

(* take, when every bucket has a token.                                    *)
Admits(q) ==
    /\ Draws(q) # {}
    /\ \A d \in Draws(q) : Level(d.key, d.rate) >= Unit
    /\ Stored(Draws(q), Unit)
    /\ promised' = [l \in Limits |->
          IF held'[l] = None THEN Burst[RateOf(l)]
          ELSE IF CountsFor(q, l) THEN promised[l] - Unit ELSE promised[l]]
    /\ UNCHANGED clock

(* take, when one of them has not.                                         *)
Refuses(q) ==
    /\ \E d \in Draws(q) : Level(d.key, d.rate) < Unit
    /\ Stored(Draws(q), 0)
    /\ promised' = [l \in Limits |->
          IF held'[l] = None THEN Burst[RateOf(l)] ELSE promised[l]]
    /\ UNCHANGED clock

Ticks ==
    /\ clock < MaxTime /\ clock' = clock + 1
    /\ promised' = [l \in Limits |->
          Min({Burst[RateOf(l)], promised[l] + PerTick[RateOf(l)]})]
    /\ UNCHANGED <<held, recent>>

Next == Ticks \/ \E q \in Call : Admits(q) \/ Refuses(q)

Spec == Init /\ [][Next]_vars

-----------------------------------------------------------------------------

TypeOK ==
    /\ clock \in 0 .. MaxTime
    /\ \A k \in Keys : held[k] # None => /\ held[k].left \in Nat
                                         /\ held[k].at \in 0 .. clock
    /\ IsInjective(recent) /\ Len(recent) <= MaxBuckets
    /\ ToSet(recent) = {k \in Keys : held[k] # None}
    /\ promised \in [Limits -> Nat]

(* What a caller has left is what the calls let through have left of it,   *)
(* whatever was refused meanwhile and whichever credentials were shown:    *)
(* buckets are worked out when they are used, and as right as if they were *)
(* at every moment - until one is forgotten, and then it is full ("holds   *)
(* up to burst requests and refills at per_second", "one caller wherever   *)
(* they are", take: "all or nothing").                                     *)
BucketsAsPromised == \A l \in Limits : Level(l, RateOf(l)) = promised[l]
=============================================================================
