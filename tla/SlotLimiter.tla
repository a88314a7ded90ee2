---------------------------- MODULE SlotLimiter ----------------------------
(***************************************************************************)
(* The Redis-backed counting semaphore of cloud/distributed_limiter.py,    *)
(* for ONE lane of one resource (the lanes share no key).                  *)
(*                                                                         *)
(* Redis keeps a sorted set of member tokens scored with the time their    *)
(* lease ends, and one counter per tenant.  The counter has a time to live *)
(* of its own.  Each Lua script is one atomic step; reading the client's   *)
(* clock, evaluating the acquire script and releasing are separate steps   *)
(* of each caller, which may crash between any two of them.                *)
(*                                                                         *)
(* Times are kept as REMAINING seconds: ttl[k] is the score of k minus the *)
(* clock, never below 0, because every member whose score is not above the *)
(* clock is treated alike (ZREMRANGEBYSCORE -inf now).                     *)
(***************************************************************************)
EXTENDS Integers, FiniteSets

CONSTANTS
    Worker,     \* the threads of all processes that share this lane
    Token,      \* the uuid4 member tokens; one is reusable once nobody knows it
    NoToken,    \* a worker that is not using the limiter has no token
    Tenant,     \* tenant keys, NoTenant included
    NoTenant,   \* the empty tenant key
    LaneMax,    \* _lane_max(resource, lane)
    TenantMax,  \* _tenant_max(resource, lane)
    LeaseTTL,   \* _LEASE_TTL_SECONDS
    Faults      \* which of "crash", "late", "redis" the environment may do

ASSUME LimiterAssumption ==
    /\ IsFiniteSet(Worker)
    /\ IsFiniteSet(Token)
    /\ NoToken \notin Token
    /\ NoTenant \in Tenant
    /\ LaneMax \in Nat \ {0}
    /\ TenantMax \in 1..LaneMax
    /\ LeaseTTL \in Nat \ {0}
    /\ Faults \subseteq {"crash", "late", "redis"}

VARIABLES
    lane,       \* members of the sorted set
    ttl,        \* remaining lease of each token
    count,      \* value of each tenant counter (0 while the key is missing)
    keyTtl,     \* remaining life of each counter key: 0 missing, Forever no expiry
    stage,      \* where each worker is in its use of the limiter
    token,      \* the token of the worker's current request
    tenant,     \* the tenant of the worker's current request
    lease       \* remaining part of the score computed before the acquire script

limiterVars == <<lane, ttl, count, keyTtl, stage, token, tenant, lease>>

Forever == -1

TypeOK ==
    /\ lane \in SUBSET Token
    /\ ttl \in [Token -> 0..LeaseTTL]
    /\ count \in [Tenant -> -1..LaneMax]
    /\ keyTtl \in [Tenant -> {Forever} \cup 0..LeaseTTL]
    /\ stage \in [Worker -> {"idle", "asking", "holding"}]
    /\ token \in [Worker -> Token \cup {NoToken}]
    /\ tenant \in [Worker -> Tenant]
    /\ lease \in [Worker -> 0..LeaseTTL]

Init ==
    /\ lane = {}
    /\ ttl = [k \in Token |-> 0]
    /\ count = [t \in Tenant |-> 0]
    /\ keyTtl = [t \in Tenant |-> 0]
    /\ stage = [w \in Worker |-> "idle"]
    /\ token = [w \in Worker |-> NoToken]
    /\ tenant = [w \in Worker |-> NoTenant]
    /\ lease = [w \in Worker |-> 0]

-----------------------------------------------------------------------------
(* Redis reads *)

\* The members that survive the eviction every script starts with.
Live == {k \in lane : ttl[k] > 0}

\* GET of a counter with the default the script supplies.
Counter(t, default) == IF keyTtl[t] = 0 THEN default ELSE count[t]

\* The sub-cap of a tenant; without tenant context it is the lane's own cap.
SubCap(t) == IF t = NoTenant THEN LaneMax ELSE TenantMax

\* Mutant of HasRoom: no sub-cap.
HasRoomAnyTenant(t) == Cardinality(Live) < LaneMax

HasRoom(t) ==
    /\ Cardinality(Live) < LaneMax
    /\ Counter(t, 0) < SubCap(t)

InUse(k) == k \in lane \/ \E w \in Worker : token[w] = k

Minus1(n) == IF n > 0 THEN n - 1 ELSE n

-----------------------------------------------------------------------------
(* acquire_slot: the client reads its clock and draws a token first ... *)
Ask(w, t) ==
    /\ stage[w] = "idle"
    /\ \E k \in Token : ~InUse(k) /\ token' = [token EXCEPT ![w] = k]
    /\ stage' = [stage EXCEPT ![w] = "asking"]
    /\ tenant' = [tenant EXCEPT ![w] = t]
    /\ lease' = [lease EXCEPT ![w] = LeaseTTL]
    /\ UNCHANGED <<lane, ttl, count, keyTtl>>

\* Mutants of AdmitEffect: EXPIRE only a new counter key; give the whole sorted
\* set one expiry, renewed by every admission, instead of a score per member; no
\* EXPIRE at all.
AdmitExpireOnce(w) ==
    LET t == tenant[w]
    IN  /\ HasRoom(t)
        /\ lane' = Live \cup {token[w]}
        /\ ttl' = [ttl EXCEPT ![token[w]] = lease[w]]
        /\ count' = [count EXCEPT ![t] = Counter(t, 0) + 1]
        /\ keyTtl' = [keyTtl EXCEPT ![t] = IF @ = 0 THEN LeaseTTL ELSE @]
AdmitRenewsLane(w) ==
    LET t == tenant[w]
    IN  /\ HasRoom(t)
        /\ lane' = Live \cup {token[w]}
        /\ ttl' = [k \in Token |-> IF k \in lane' THEN LeaseTTL ELSE 0]
        /\ count' = [count EXCEPT ![t] = Counter(t, 0) + 1]
        /\ keyTtl' = [keyTtl EXCEPT ![t] = LeaseTTL]

AdmitNoExpiry(w) ==
    LET t == tenant[w]
    IN  /\ HasRoom(t)
        /\ lane' = Live \cup {token[w]}
        /\ ttl' = [ttl EXCEPT ![token[w]] = lease[w]]
        /\ count' = [count EXCEPT ![t] = Counter(t, 0) + 1]
        /\ keyTtl' = [keyTtl EXCEPT ![t] = Forever]

(* ... then the script runs.  Its effect when the lane and the tenant have
   room: evict, ZADD, INCR, EXPIRE. *)
AdmitEffect(w) ==
    LET t == tenant[w]
    IN  /\ HasRoom(t)
        /\ lane' = Live \cup {token[w]}
        /\ ttl' = [ttl EXCEPT ![token[w]] = lease[w]]
        /\ count' = [count EXCEPT ![t] = Counter(t, 0) + 1]
        /\ keyTtl' = [keyTtl EXCEPT ![t] = LeaseTTL]

(* Otherwise it answers nil, having evicted the expired members all the same. *)
RefuseEffect(w) ==
    /\ ~HasRoom(tenant[w])
    /\ lane' = Live
    /\ UNCHANGED <<ttl, count, keyTtl>>

(* The worker is done with this request. *)
Leave(w) ==
    /\ stage' = [stage EXCEPT ![w] = "idle"]
    /\ token' = [token EXCEPT ![w] = NoToken]
    /\ tenant' = [tenant EXCEPT ![w] = NoTenant]
    /\ lease' = [lease EXCEPT ![w] = 0]

Grant(w) ==
    /\ stage[w] = "asking"
    /\ AdmitEffect(w)
    /\ stage' = [stage EXCEPT ![w] = "holding"]
    /\ lease' = [lease EXCEPT ![w] = 0]
    /\ UNCHANGED <<token, tenant>>

Refuse(w) ==
    /\ stage[w] = "asking"
    /\ RefuseEffect(w)
    /\ Leave(w)

(* eval raises: acquire_slot answers None, whether or not Redis ran the script. *)
AcquireError(w) ==
    /\ "redis" \in Faults
    /\ stage[w] = "asking"
    /\ \/ AdmitEffect(w)
       \/ RefuseEffect(w)
       \/ UNCHANGED <<lane, ttl, count, keyTtl>>
    /\ Leave(w)

(* AcquiredSlot.release: ZREM, then DECR when the counter, read with default
   "1", is positive.  DECR of a missing key makes a key that never expires. *)
ReleaseEffect(w) ==
    LET t == tenant[w]
    IN  /\ lane' = lane \ {token[w]}
        /\ ttl' = [ttl EXCEPT ![token[w]] = 0]
        /\ IF Counter(t, 1) > 0
             THEN /\ count' = [count EXCEPT ![t] = Counter(t, 0) - 1]
                  /\ keyTtl' = [keyTtl EXCEPT ![t] =
                                   IF @ = 0 THEN Forever ELSE @]
             ELSE UNCHANGED <<count, keyTtl>>

Release(w) ==
    /\ stage[w] = "holding"
    /\ ReleaseEffect(w)
    /\ Leave(w)

(* The release script raises: the exception is swallowed and the slot is
   marked released, so it is never tried again. *)
ReleaseError(w) ==
    /\ "redis" \in Faults
    /\ stage[w] = "holding"
    /\ Leave(w)
    /\ UNCHANGED <<lane, ttl, count, keyTtl>>

(* The process of w dies while it asks or holds a slot. *)
Crash(w) ==
    /\ "crash" \in Faults
    /\ stage[w] # "idle"
    /\ Leave(w)
    /\ UNCHANGED <<lane, ttl, count, keyTtl>>

(* lane_stats evicts too. *)
LaneStats ==
    /\ lane' = Live
    /\ UNCHANGED <<ttl, count, keyTtl, stage, token, tenant, lease>>

(* A caller is prompt when it evaluates and releases before its lease ends. *)
Prompt(w) ==
    /\ stage[w] = "asking" => lease[w] > 1
    /\ stage[w] = "holding" => ttl[token[w]] > 1

(* One second passes; a counter key whose life ends is gone. *)
Tick ==
    /\ "late" \in Faults \/ \A w \in Worker : Prompt(w)
    /\ ttl' = [k \in Token |-> Minus1(ttl[k])]
    /\ lease' = [w \in Worker |-> Minus1(lease[w])]
    /\ keyTtl' = [t \in Tenant |-> Minus1(keyTtl[t])]
    /\ count' = [t \in Tenant |-> IF keyTtl[t] \in {0, 1} THEN 0 ELSE count[t]]
    /\ UNCHANGED <<lane, stage, token, tenant>>

Next ==
    \/ \E w \in Worker :
          \/ \E t \in Tenant : Ask(w, t)
          \/ Grant(w)
          \/ Refuse(w)
          \/ AcquireError(w)
          \/ Release(w)
          \/ ReleaseError(w)
          \/ Crash(w)
    \/ LaneStats
    \/ Tick

Spec == Init /\ [][Next]_limiterVars

(* Time passes and callers get on with what they began; nobody is obliged to
   ask, and nothing obliges a fault. *)
FairSpec ==
    /\ Spec
    /\ WF_limiterVars(Tick)
    /\ \A w \in Worker : WF_limiterVars(Grant(w) \/ Refuse(w))
    /\ \A w \in Worker : WF_limiterVars(Release(w))

-----------------------------------------------------------------------------
(* Properties *)

Holders == {w \in Worker : stage[w] = "holding"}
HoldersOf(t) == {w \in Holders : tenant[w] = t}

(* The sorted set never outgrows the lane's budget, whatever callers do:
   crash, hold a slot beyond its lease, or lose Redis' answer. *)
LaneCap == Cardinality(lane) <= LaneMax

(* While callers finish within their lease and nothing fails, a tenant counter
   equals the number of slots that tenant holds: DECR never meets a missing
   key, and the key outlives the leases it counts. *)
CounterExact == \A t \in Tenant : Counter(t, 0) = Cardinality(HoldersOf(t))

(* With crashes and lost Redis answers a counter may exceed the slots its
   tenant holds, but as long as callers finish within their lease it is never
   below them: no release takes away another holder's count. *)
CounterCovers == \A t \in Tenant : Counter(t, 0) >= Cardinality(HoldersOf(t))

(* The sub-cap bounds the calls one tenant really has in flight. *)
TenantCap == \A t \in Tenant : Cardinality(HoldersOf(t)) <= SubCap(t)

(* The budget bounds the calls really in flight, of all processes together. *)
CallsInFlightCap == Cardinality(Holders) <= LaneMax

(* No counter is below the slots it stands for, in a well-formed state. *)
SlotsSound == TypeOK /\ CounterCovers

(* The three budgets hold together: the sorted set's, the tenants' and that of
   the calls really in flight. *)
CapsHold == LaneCap /\ TenantCap /\ CallsInFlightCap

(* The lease of a slot whose holder crashed ends, however often other callers
   acquire and release: acquiring renews nobody else's member. *)
Abandoned(k) == k \in Live /\ \A w \in Worker : token[w] # k
LaneSelfHeals == \A k \in Token : Abandoned(k) ~> ~Abandoned(k)

(* The share a dead worker left in its tenant's counter goes away too, but only
   once the tenant stops acquiring: every admission renews the counter's life. *)
StopsAcquiring(t) == <>[][count'[t] <= count[t]]_limiterVars
TenantHealsWhenIdle ==
    \A t \in Tenant :
        StopsAcquiring(t) => <>[](Counter(t, 0) <= Cardinality(HoldersOf(t)))
=============================================================================
