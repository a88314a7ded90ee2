------------------------ MODULE CompletionChokeProofs ------------------------
(***************************************************************************)
(* The slot limiter and its callers, for every number of workers, tenants, *)
(* tokens, slots, seconds, attempts, polls and leaks.  First the limiter,  *)
(* whoever calls it: LimiterInv needs nothing of the callers, PromptInv    *)
(* needs them to evaluate and release within their lease.  Then the        *)
(* callers: a step of theirs is a step of the limiter or leaves it alone,  *)
(* so what holds of the limiter holds among them.                          *)
(***************************************************************************)
EXTENDS CompletionChoke, FiniteSetTheorems, TLAPS

(* The values Redis keeps, and the sub-cap as a bound of every counter. *)
RedisTypes ==
    /\ lane \in SUBSET Token
    /\ ttl \in [Token -> 0..LeaseTTL]
    /\ count \in [Tenant -> -1..LaneMax]
    /\ keyTtl \in [Tenant -> {Forever} \cup 0..LeaseTTL]
    /\ \A t \in Tenant : count[t] <= SubCap(t)

(* The values the callers keep. *)
ClientTypes ==
    /\ stage \in [Worker -> {"idle", "asking", "holding"}]
    /\ token \in [Worker -> Token \cup {NoToken}]
    /\ tenant \in [Worker -> Tenant]
    /\ lease \in [Worker -> 0..LeaseTTL]

(* A token belongs to at most one worker, and is not a member before its
   acquire script has run. *)
TokensDistinct ==
    /\ \A w \in Worker : stage[w] # "idle" <=> token[w] # NoToken
    /\ \A v, w \in Worker : token[v] = token[w] /\ token[v] # NoToken => v = w
    /\ \A w \in Worker : stage[w] = "asking" => token[w] \notin lane

LimiterInv == RedisTypes /\ ClientTypes /\ TokensDistinct /\ LaneCap

LEMMA InvTypeOK == LimiterInv => TypeOK
  BY DEF LimiterInv, TypeOK, RedisTypes, ClientTypes

-----------------------------------------------------------------------------
LEMMA AddAtMostOne ==
    ASSUME NEW S, IsFiniteSet(S), NEW x, NEW T, T \subseteq S \cup {x}
    PROVE  Cardinality(T) \in Nat /\ Cardinality(T) <= Cardinality(S) + 1
<1>1. IsFiniteSet(S \cup {x}) /\ Cardinality(S) \in Nat
  BY FS_AddElement, FS_CardinalityType
<1>2. Cardinality(S \cup {x}) = IF x \in S THEN Cardinality(S) ELSE Cardinality(S) + 1
  BY FS_AddElement
<1>3. Cardinality(T) \in Nat /\ Cardinality(T) <= Cardinality(S \cup {x})
  BY <1>1, FS_Subset, FS_CardinalityType
<1> QED
  BY <1>1, <1>2, <1>3

LEMMA LaneFinite ==
    ASSUME TypeOK
    PROVE  /\ IsFiniteSet(lane)
           /\ Cardinality(lane) \in Nat
           /\ IsFiniteSet(Live)
           /\ Cardinality(Live) \in Nat
           /\ Cardinality(Live) <= Cardinality(lane)
<1>1. IsFiniteSet(lane)
  BY FS_Subset, LimiterAssumption DEF TypeOK
<1>2. Live \in SUBSET lane
  BY DEF Live
<1> QED
  BY <1>1, <1>2, FS_Subset, FS_CardinalityType

(* Evicting the expired members never raises the number of members, and an
   admission raises it by at most one, when the lane had room. *)
LEMMA EvictionKeepsCap ==
    ASSUME TypeOK, LaneCap
    PROVE  Cardinality(Live) <= LaneMax
  BY LaneFinite, LimiterAssumption DEF LaneCap

LEMMA AdmissionKeepsCap ==
    ASSUME TypeOK, NEW w \in Worker, AdmitEffect(w)
    PROVE  LaneCap'
<1>1. IsFiniteSet(Live) /\ Cardinality(Live) \in Nat
  BY LaneFinite
<1>2. Cardinality(Live) < LaneMax
  BY DEF AdmitEffect, HasRoom
<1>3. Cardinality(Live \cup {token[w]}) <= Cardinality(Live) + 1
  BY <1>1, FS_AddElement
<1>4. IsFiniteSet(Live \cup {token[w]})
  BY <1>1, FS_AddElement
<1>5. Cardinality(Live \cup {token[w]}) \in Nat
  BY <1>4, FS_CardinalityType
<1>6. Cardinality(Live \cup {token[w]}) <= LaneMax
  BY <1>1, <1>2, <1>3, <1>5, LimiterAssumption
<1> QED
  BY <1>6 DEF AdmitEffect, LaneCap

LEMMA RemovalKeepsCap ==
    ASSUME TypeOK, LaneCap, NEW k, lane' = lane \ {k}
    PROVE  LaneCap'
<1>1. IsFiniteSet(lane) /\ Cardinality(lane) \in Nat
  BY LaneFinite
<1>2. Cardinality(lane \ {k}) <= Cardinality(lane)
  BY <1>1, FS_RemoveElement
<1>3. Cardinality(lane \ {k}) \in Nat
  BY <1>1, FS_RemoveElement, FS_CardinalityType
<1> QED
  BY <1>1, <1>2, <1>3, LimiterAssumption DEF LaneCap

-----------------------------------------------------------------------------
(* Redis' side of every step keeps the types and the sub-cap of the counters. *)
LEMMA SubCapType == \A t : SubCap(t) \in 1..LaneMax
  BY LimiterAssumption DEF SubCap

LEMMA AdmitTypes ==
    ASSUME RedisTypes, ClientTypes, NEW w \in Worker, token[w] \in Token,
           AdmitEffect(w)
    PROVE  RedisTypes'
<1> DEFINE t == tenant[w]
<1>1. t \in Tenant /\ Counter(t, 0) \in -1..(SubCap(t) - 1)
  BY SubCapType DEF RedisTypes, ClientTypes, Counter, AdmitEffect, HasRoom
<1>2. Counter(t, 0) + 1 \in 0..SubCap(t)
  BY <1>1, SubCapType
<1>3. count' \in [Tenant -> -1..LaneMax] /\ \A s \in Tenant : count'[s] <= SubCap(s)
  BY <1>1, <1>2, SubCapType, LimiterAssumption DEF AdmitEffect, RedisTypes
<1>4. lane' \in SUBSET Token /\ ttl' \in [Token -> 0..LeaseTTL]
  BY DEF AdmitEffect, RedisTypes, ClientTypes, Live
<1>5. keyTtl' \in [Tenant -> {Forever} \cup 0..LeaseTTL]
  <2>1. LeaseTTL \in {Forever} \cup 0..LeaseTTL
    BY LimiterAssumption
  <2> QED
    BY <2>1 DEF AdmitEffect, RedisTypes
<1> QED
  BY <1>3, <1>4, <1>5 DEF RedisTypes, SubCap

LEMMA RefuseTypes ==
    ASSUME RedisTypes, NEW w \in Worker, RefuseEffect(w)
    PROVE  RedisTypes'
  BY DEF RefuseEffect, RedisTypes, Live, SubCap

LEMMA ReleaseTypes ==
    ASSUME RedisTypes, ClientTypes, NEW w \in Worker, token[w] \in Token,
           ReleaseEffect(w)
    PROVE  RedisTypes'
<1> DEFINE t == tenant[w]
<1>1. lane' \in SUBSET Token /\ ttl' \in [Token -> 0..LeaseTTL]
  BY LimiterAssumption DEF ReleaseEffect, RedisTypes
<1>2. CASE Counter(t, 1) > 0
  <2>1. t \in Tenant /\ Counter(t, 0) - 1 \in -1..LaneMax /\ Counter(t, 0) - 1 <= SubCap(t)
    BY <1>2, SubCapType, LimiterAssumption DEF RedisTypes, ClientTypes, Counter
  <2>2. count' \in [Tenant -> -1..LaneMax] /\ \A s \in Tenant : count'[s] <= SubCap(s)
    BY <1>2, <2>1 DEF ReleaseEffect, RedisTypes
  <2>3. keyTtl' \in [Tenant -> {Forever} \cup 0..LeaseTTL]
    BY <1>2, LimiterAssumption DEF ReleaseEffect, RedisTypes
  <2> QED
    BY <1>1, <2>2, <2>3 DEF RedisTypes, SubCap
<1>3. CASE ~(Counter(t, 1) > 0)
  BY <1>1, <1>3 DEF ReleaseEffect, RedisTypes, SubCap
<1> QED
  BY <1>2, <1>3

LEMMA LeaveTypes ==
    ASSUME ClientTypes, NEW w \in Worker, Leave(w)
    PROVE  ClientTypes'
  BY LimiterAssumption DEF Leave, ClientTypes

LEMMA TickTypes ==
    ASSUME RedisTypes, ClientTypes, Tick
    PROVE  RedisTypes' /\ ClientTypes'
<1>1. \A n \in 0..LeaseTTL : Minus1(n) \in 0..LeaseTTL
  BY LimiterAssumption DEF Minus1
<1>2. \A n \in {Forever} \cup 0..LeaseTTL : Minus1(n) \in {Forever} \cup 0..LeaseTTL
  BY <1>1 DEF Minus1, Forever
<1>3. lane' \in SUBSET Token /\ ttl' \in [Token -> 0..LeaseTTL]
  BY <1>1 DEF Tick, RedisTypes
<1>4. keyTtl' \in [Tenant -> {Forever} \cup 0..LeaseTTL]
  BY <1>2 DEF Tick, RedisTypes
<1>5. count' \in [Tenant -> -1..LaneMax] /\ \A t \in Tenant : count'[t] <= SubCap(t)
  BY SubCapType, LimiterAssumption DEF Tick, RedisTypes
<1>6. lease' \in [Worker -> 0..LeaseTTL]
  BY <1>1 DEF Tick, ClientTypes
<1> QED
  BY <1>3, <1>4, <1>5, <1>6 DEF RedisTypes, ClientTypes, SubCap, Tick

-----------------------------------------------------------------------------
LEMMA LimiterInit == Init => LimiterInv
<1> SUFFICES ASSUME Init PROVE LimiterInv
  OBVIOUS
<1>1. TypeOK
  BY LimiterAssumption DEF Init, TypeOK, Forever
<1>2. LaneCap
  BY FS_EmptySet, LimiterAssumption DEF Init, LaneCap
<1>3. \A t \in Tenant : count[t] <= SubCap(t)
  BY SubCapType, LimiterAssumption DEF Init
<1> QED
  BY <1>1, <1>2, <1>3
  DEF Init, LimiterInv, TypeOK, RedisTypes, ClientTypes, TokensDistinct

LEMMA LeaveTokens ==
    ASSUME ClientTypes, TokensDistinct, NEW w \in Worker, Leave(w),
           lane' \subseteq lane \cup {token[w]}
    PROVE  TokensDistinct'
  BY LimiterAssumption DEF Leave, ClientTypes, TokensDistinct

LEMMA LimiterStep == LimiterInv /\ [Next]_limiterVars => LimiterInv'
<1> SUFFICES ASSUME LimiterInv, [Next]_limiterVars
             PROVE  LimiterInv'
  OBVIOUS
<1>0. TypeOK /\ RedisTypes /\ ClientTypes /\ TokensDistinct /\ LaneCap
  BY InvTypeOK DEF LimiterInv
<1>a. ASSUME NEW w \in Worker, stage[w] # "idle"
      PROVE  token[w] \in Token
  BY <1>0, <1>a DEF ClientTypes, TokensDistinct
<1>b. ASSUME lane' = Live PROVE LaneCap'
  BY <1>0, <1>b, EvictionKeepsCap DEF LaneCap
<1>1. ASSUME NEW w \in Worker, NEW t \in Tenant, Ask(w, t)
      PROVE  LimiterInv'
  <2>1. PICK k \in Token : ~InUse(k) /\ token' = [token EXCEPT ![w] = k]
    BY <1>1 DEF Ask
  <2>2. RedisTypes' /\ LaneCap'
    BY <1>0, <1>1 DEF Ask, RedisTypes, LaneCap, SubCap
  <2>3. ClientTypes'
    BY <1>0, <1>1, <2>1, LimiterAssumption DEF Ask, ClientTypes
  <2>4. TokensDistinct'
    BY <1>0, <1>1, <2>1, LimiterAssumption DEF Ask, ClientTypes, TokensDistinct, InUse
  <2> QED
    BY <2>2, <2>3, <2>4 DEF LimiterInv
<1>2. ASSUME NEW w \in Worker, Grant(w)
      PROVE  LimiterInv'
  <2>1. AdmitEffect(w) /\ token[w] \in Token
    BY <1>2, <1>a DEF Grant
  <2>2. RedisTypes' /\ LaneCap'
    BY <1>0, <2>1, AdmitTypes, AdmissionKeepsCap
  <2>3. ClientTypes'
    BY <1>0, <1>2, LimiterAssumption DEF Grant, ClientTypes
  <2>4. TokensDistinct'
    BY <1>0, <1>2, <2>1, LimiterAssumption
    DEF Grant, AdmitEffect, ClientTypes, TokensDistinct, Live
  <2> QED
    BY <2>2, <2>3, <2>4 DEF LimiterInv
<1>3. ASSUME NEW w \in Worker, Refuse(w)
      PROVE  LimiterInv'
  <2>1. RedisTypes' /\ LaneCap'
    BY <1>0, <1>3, <1>b, RefuseTypes DEF Refuse, RefuseEffect
  <2>2. ClientTypes' /\ TokensDistinct'
    BY <1>0, <1>3, LeaveTypes, LeaveTokens DEF Refuse, RefuseEffect, Live
  <2> QED
    BY <2>1, <2>2 DEF LimiterInv
<1>4. ASSUME NEW w \in Worker, AcquireError(w)
      PROVE  LimiterInv'
  <2>1. Leave(w) /\ token[w] \in Token
    BY <1>4, <1>a DEF AcquireError
  <2>2. RedisTypes' /\ LaneCap' /\ lane' \subseteq lane \cup {token[w]}
    <3>1. CASE AdmitEffect(w)
      BY <1>0, <2>1, <3>1, AdmitTypes, AdmissionKeepsCap DEF AdmitEffect, Live
    <3>2. CASE RefuseEffect(w)
      BY <1>0, <1>b, <3>2, RefuseTypes DEF RefuseEffect, Live
    <3>3. CASE UNCHANGED <<lane, ttl, count, keyTtl>>
      BY <1>0, <3>3 DEF RedisTypes, LaneCap, SubCap
    <3> QED
      BY <1>4, <3>1, <3>2, <3>3 DEF AcquireError
  <2> QED
    BY <1>0, <2>1, <2>2, LeaveTypes, LeaveTokens DEF LimiterInv
<1>5. ASSUME NEW w \in Worker, Release(w)
      PROVE  LimiterInv'
  <2>1. Leave(w) /\ ReleaseEffect(w) /\ token[w] \in Token
    BY <1>5, <1>a DEF Release
  <2>2. lane' = lane \ {token[w]}
    BY <2>1 DEF ReleaseEffect
  <2>3. RedisTypes' /\ LaneCap'
    BY <1>0, <2>1, <2>2, ReleaseTypes, RemovalKeepsCap
  <2>4. ClientTypes' /\ TokensDistinct'
    BY <1>0, <2>1, <2>2, LeaveTypes, LeaveTokens
  <2> QED
    BY <2>3, <2>4 DEF LimiterInv
<1>6. ASSUME NEW w \in Worker, ReleaseError(w) \/ Crash(w)
      PROVE  LimiterInv'
  <2>1. Leave(w) /\ UNCHANGED <<lane, ttl, count, keyTtl>>
    BY <1>6 DEF ReleaseError, Crash
  <2>2. RedisTypes' /\ LaneCap'
    BY <1>0, <2>1 DEF RedisTypes, LaneCap, SubCap
  <2>3. ClientTypes' /\ TokensDistinct'
    BY <1>0, <2>1, LeaveTypes, LeaveTokens
  <2> QED
    BY <2>2, <2>3 DEF LimiterInv
<1>7. CASE LaneStats
  <2>1. RedisTypes' /\ LaneCap'
    BY <1>0, <1>7, <1>b DEF LaneStats, RedisTypes, Live, SubCap
  <2>2. ClientTypes' /\ TokensDistinct'
    BY <1>0, <1>7 DEF LaneStats, ClientTypes, TokensDistinct, Live
  <2> QED
    BY <2>1, <2>2 DEF LimiterInv
<1>8. CASE Tick
  <2>1. LaneCap' /\ TokensDistinct'
    BY <1>0, <1>8 DEF Tick, LaneCap, TokensDistinct
  <2> QED
    BY <1>0, <1>8, <2>1, TickTypes DEF LimiterInv
<1>9. CASE UNCHANGED limiterVars
  BY <1>0, <1>9
  DEF limiterVars, LimiterInv, RedisTypes, ClientTypes, TokensDistinct, LaneCap, SubCap
<1> QED
  BY <1>1, <1>2, <1>3, <1>4, <1>5, <1>6, <1>7, <1>8, <1>9 DEF Next

(* Every value the limiter and its callers compute stays in its range:
   in particular no counter passes the lane's budget or falls below -1. *)
THEOREM TypeCorrect == Spec => []TypeOK
  BY InvTypeOK, LimiterInit, LimiterStep, PTL DEF Spec

(* The lane's budget holds whatever the callers do. *)
THEOREM LaneCapSafe == Spec => []LaneCap
<1>1. LimiterInv => LaneCap
  BY DEF LimiterInv
<1> QED
  BY <1>1, LimiterInit, LimiterStep, PTL DEF Spec

-----------------------------------------------------------------------------
(* While no caller outlives its lease, every slot in use is a live member
   whose tenant's counter key outlives it. *)
LeasesHold ==
    /\ \A w \in Worker : stage[w] = "asking" => lease[w] > 0
    /\ \A w \in Worker : stage[w] = "holding" =>
          /\ token[w] \in lane
          /\ ttl[token[w]] > 0
          /\ keyTtl[tenant[w]] >= ttl[token[w]]
    /\ \A t \in Tenant : keyTtl[t] >= 0

PromptInv == LimiterInv /\ LeasesHold /\ CounterCovers

LEMMA HoldersFinite ==
    /\ IsFiniteSet(Holders)
    /\ Cardinality(Holders) \in Nat
    /\ \A t : IsFiniteSet(HoldersOf(t)) /\ Cardinality(HoldersOf(t)) \in Nat
<1>1. Holders \in SUBSET Worker /\ \A t : HoldersOf(t) \in SUBSET Worker
  BY DEF Holders, HoldersOf
<1> QED
  BY <1>1, FS_Subset, FS_CardinalityType, LimiterAssumption

LEMMA CounterInt == RedisTypes => \A t \in Tenant : Counter(t, 0) \in Int
  BY LimiterAssumption DEF RedisTypes, Counter

(* An admission counts one more for the tenant, and adds at most one holder. *)
LEMMA AdmitCovers ==
    ASSUME LimiterInv, LeasesHold, CounterCovers, NEW w \in Worker, AdmitEffect(w),
           NEW t \in Tenant,
           HoldersOf(t)' \subseteq (IF t = tenant[w] THEN HoldersOf(t) \cup {w}
                                                    ELSE HoldersOf(t))
    PROVE  Counter(t, 0)' >= Cardinality(HoldersOf(t)')
<1>1. IsFiniteSet(HoldersOf(t)) /\ Cardinality(HoldersOf(t)) \in Nat
  BY HoldersFinite
<1>2. Counter(t, 0) >= Cardinality(HoldersOf(t)) /\ Counter(t, 0) \in Int
  BY CounterInt DEF LimiterInv, CounterCovers
<1>3. CASE t = tenant[w]
  <2>2. Cardinality(HoldersOf(t)') <= Cardinality(HoldersOf(t)) + 1
        /\ Cardinality(HoldersOf(t)') \in Nat
    BY <1>1, <1>3, AddAtMostOne
  <2>3. count'[t] = Counter(t, 0) + 1 /\ keyTtl'[t] = LeaseTTL
    BY <1>3 DEF AdmitEffect, LimiterInv, RedisTypes
  <2>4. Counter(t, 0)' = Counter(t, 0) + 1
    BY <2>3, LimiterAssumption DEF Counter
  <2> QED
    BY <1>1, <1>2, <2>2, <2>4
<1>4. CASE t # tenant[w]
  <2>1. count'[t] = count[t] /\ keyTtl'[t] = keyTtl[t]
    BY <1>4 DEF AdmitEffect, LimiterInv, RedisTypes
  <2>2. Counter(t, 0)' = Counter(t, 0)
    BY <2>1 DEF Counter
  <2>3. Cardinality(HoldersOf(t)') <= Cardinality(HoldersOf(t))
        /\ Cardinality(HoldersOf(t)') \in Nat
    BY <1>1, <1>4, FS_Subset, FS_CardinalityType
  <2> QED
    BY <1>1, <1>2, <2>2, <2>3
<1> QED
  BY <1>3, <1>4

LEMMA PromptInit == Init => PromptInv
<1> SUFFICES ASSUME Init PROVE PromptInv
  OBVIOUS
<1>1. \A t \in Tenant : HoldersOf(t) = {}
  BY DEF Init, HoldersOf, Holders
<1>2. CounterCovers
  BY <1>1, FS_EmptySet DEF Init, CounterCovers, Counter
<1>3. LeasesHold
  BY DEF Init, LeasesHold
<1> QED
  BY <1>2, <1>3, LimiterInit DEF PromptInv

(* An admission takes no live member away from another holder, and the tenant's
   counter key lives at least as long as the new lease. *)
LEMMA AdmitLeases ==
    ASSUME LimiterInv, LeasesHold, NEW w \in Worker, stage[w] = "asking",
           token[w] \in Token, AdmitEffect(w)
    PROVE  /\ \A t \in Tenant : keyTtl'[t] >= 0
           /\ \A v \in Worker : v = w \/ stage[v] = "holding" =>
                 /\ token[v] \in lane'
                 /\ ttl'[token[v]] > 0
                 /\ keyTtl'[tenant[v]] >= ttl'[token[v]]
<1>0. RedisTypes /\ ClientTypes /\ TokensDistinct
  BY DEF LimiterInv
<1>a. keyTtl' = [keyTtl EXCEPT ![tenant[w]] = LeaseTTL] /\ keyTtl \in [Tenant -> Int]
  BY <1>0, LimiterAssumption DEF AdmitEffect, RedisTypes, Forever
<1>1. \A t \in Tenant : keyTtl'[t] >= 0
  BY <1>a, LimiterAssumption DEF LeasesHold
<1>2. lane' = Live \cup {token[w]} /\ ttl' = [ttl EXCEPT ![token[w]] = lease[w]]
  BY DEF AdmitEffect
<1>3. token[w] \in lane' /\ ttl'[token[w]] > 0 /\ keyTtl'[tenant[w]] >= ttl'[token[w]]
  <2>1. lease[w] \in 0..LeaseTTL /\ lease[w] > 0 /\ tenant[w] \in Tenant
    BY <1>0 DEF ClientTypes, LeasesHold
  <2>2. ttl'[token[w]] = lease[w]
    BY <1>0, <1>2 DEF RedisTypes
  <2>3. keyTtl'[tenant[w]] = LeaseTTL /\ LeaseTTL \in Nat
    BY <1>a, <2>1, LimiterAssumption
  <2>4. token[w] \in lane'
    BY <1>2
  <2> QED
    BY <2>1, <2>2, <2>3, <2>4
<1>4. ASSUME NEW v \in Worker, v # w, stage[v] = "holding"
      PROVE  token[v] \in lane' /\ ttl'[token[v]] > 0
             /\ keyTtl'[tenant[v]] >= ttl'[token[v]]
  <2>1. token[v] # token[w] /\ tenant[v] \in Tenant /\ token[v] \in Token
    BY <1>0, <1>4 DEF ClientTypes, TokensDistinct
  <2>2. ttl'[token[v]] = ttl[token[v]] /\ ttl[token[v]] \in 0..LeaseTTL
    BY <1>0, <1>2, <2>1 DEF RedisTypes
  <2>3. token[v] \in Live /\ keyTtl[tenant[v]] >= ttl[token[v]] /\ ttl[token[v]] > 0
    BY <1>4 DEF LeasesHold, Live
  <2>4. token[v] \in lane' /\ ttl'[token[v]] > 0
    BY <1>2, <2>2, <2>3
  <2>5. keyTtl'[tenant[v]] = LeaseTTL \/ keyTtl'[tenant[v]] = keyTtl[tenant[v]]
    BY <1>a, <2>1
  <2>6. keyTtl'[tenant[v]] >= ttl'[token[v]]
    BY <2>2, <2>3, <2>5, LimiterAssumption
  <2> QED
    BY <2>4, <2>6
<1>5. ASSUME NEW v \in Worker, v = w \/ stage[v] = "holding"
      PROVE  token[v] \in lane' /\ ttl'[token[v]] > 0
             /\ keyTtl'[tenant[v]] >= ttl'[token[v]]
  BY <1>3, <1>4, <1>5
<1> QED
  BY <1>1, <1>5

(* Leaving keeps what the other holders rely on. *)
LEMMA LeaveLeases ==
    ASSUME ClientTypes, TokensDistinct, LeasesHold, NEW w \in Worker, Leave(w),
           \A t \in Tenant : keyTtl'[t] >= 0,
           \A v \in Worker : v # w /\ stage[v] = "holding" =>
                 /\ token[v] \in lane'
                 /\ ttl'[token[v]] > 0
                 /\ keyTtl'[tenant[v]] >= ttl'[token[v]]
    PROVE  LeasesHold'
  BY DEF Leave, ClientTypes, LeasesHold

LEMMA LeaveHolders ==
    ASSUME ClientTypes, NEW w \in Worker, Leave(w)
    PROVE  \A t \in Tenant : HoldersOf(t)' = HoldersOf(t) \ {w}
  BY DEF Leave, ClientTypes, Holders, HoldersOf

LEMMA PromptStep ==
    ASSUME "late" \notin Faults
    PROVE  PromptInv /\ [Next]_limiterVars => PromptInv'
<1> SUFFICES ASSUME PromptInv, [Next]_limiterVars
             PROVE  PromptInv'
  OBVIOUS
<1>0. /\ LimiterInv /\ RedisTypes /\ ClientTypes /\ TokensDistinct
      /\ LeasesHold /\ CounterCovers /\ LimiterInv'
  BY LimiterStep DEF PromptInv, LimiterInv
<1>c. /\ \A t \in Tenant : Counter(t, 0) \in Int
      /\ (\A t \in Tenant : Counter(t, 0) \in Int)'
  BY <1>0, CounterInt DEF LimiterInv, RedisTypes, Counter
<1>a. ASSUME NEW w \in Worker, stage[w] # "idle"
      PROVE  token[w] \in Token
  BY <1>0, <1>a DEF ClientTypes, TokensDistinct
<1>b. ASSUME NEW t \in Tenant, HoldersOf(t)' \subseteq HoldersOf(t),
             Counter(t, 0)' >= Counter(t, 0)
      PROVE  Counter(t, 0)' >= Cardinality(HoldersOf(t)')
  <2>1. Cardinality(HoldersOf(t)') <= Cardinality(HoldersOf(t))
        /\ Cardinality(HoldersOf(t)') \in Nat /\ Cardinality(HoldersOf(t)) \in Nat
    BY <1>b, HoldersFinite, FS_Subset, FS_CardinalityType
  <2> QED
    BY <1>0, <1>b, <1>c, <2>1 DEF CounterCovers
<1>1. ASSUME NEW w \in Worker, NEW t \in Tenant, Ask(w, t)
      PROVE  LeasesHold' /\ CounterCovers'
  <2>1. LeasesHold'
    BY <1>0, <1>1, LimiterAssumption DEF Ask, LeasesHold, ClientTypes
  <2>2. \A s \in Tenant : HoldersOf(s)' \subseteq HoldersOf(s)
    BY <1>0, <1>1 DEF Ask, Holders, HoldersOf, ClientTypes
  <2>3. \A s \in Tenant : Counter(s, 0)' >= Counter(s, 0)
    BY <1>1, <1>c DEF Ask, Counter
  <2> QED
    BY <1>b, <2>1, <2>2, <2>3 DEF CounterCovers
<1>2. ASSUME NEW w \in Worker, Grant(w)
      PROVE  LeasesHold' /\ CounterCovers'
  <2>1. AdmitEffect(w) /\ token[w] \in Token /\ stage[w] = "asking"
    BY <1>2, <1>a DEF Grant
  <2>2. LeasesHold'
    BY <1>0, <1>2, <2>1, AdmitLeases DEF Grant, LeasesHold, ClientTypes
  <2>3. \A t \in Tenant : HoldersOf(t)' \subseteq
            (IF t = tenant[w] THEN HoldersOf(t) \cup {w} ELSE HoldersOf(t))
    BY <1>0, <1>2 DEF Grant, Holders, HoldersOf, ClientTypes
  <2> QED
    BY <1>0, <2>1, <2>2, <2>3, AdmitCovers DEF CounterCovers
<1>3. ASSUME NEW w \in Worker, Leave(w), lane' = Live, UNCHANGED <<ttl, count, keyTtl>>
      PROVE  LeasesHold' /\ CounterCovers'
  <2>1. LeasesHold'
    BY <1>0, <1>3, LeaveLeases DEF LeasesHold, Live
  <2>2. \A t \in Tenant : HoldersOf(t)' \subseteq HoldersOf(t)
    BY <1>0, <1>3, LeaveHolders
  <2>3. \A t \in Tenant : Counter(t, 0)' >= Counter(t, 0)
    BY <1>3, <1>c DEF Counter
  <2> QED
    BY <1>b, <2>1, <2>2, <2>3 DEF CounterCovers
<1>4. ASSUME NEW w \in Worker, Leave(w), UNCHANGED <<lane, ttl, count, keyTtl>>
      PROVE  LeasesHold' /\ CounterCovers'
  <2>1. LeasesHold'
    BY <1>0, <1>4, LeaveLeases DEF LeasesHold
  <2>2. \A t \in Tenant : HoldersOf(t)' \subseteq HoldersOf(t)
    BY <1>0, <1>4, LeaveHolders
  <2>3. \A t \in Tenant : Counter(t, 0)' >= Counter(t, 0)
    BY <1>4, <1>c DEF Counter
  <2> QED
    BY <1>b, <2>1, <2>2, <2>3 DEF CounterCovers
<1>5. ASSUME NEW w \in Worker, AcquireError(w)
      PROVE  LeasesHold' /\ CounterCovers'
  <2>1. CASE AdmitEffect(w)
    <3>1. Leave(w) /\ token[w] \in Token /\ stage[w] = "asking"
      BY <1>5, <1>a DEF AcquireError
    <3>2. LeasesHold'
      BY <1>0, <2>1, <3>1, AdmitLeases, LeaveLeases
    <3>3. \A t \in Tenant : HoldersOf(t)' \subseteq
              (IF t = tenant[w] THEN HoldersOf(t) \cup {w} ELSE HoldersOf(t))
      BY <1>0, <3>1, LeaveHolders
    <3> QED
      BY <1>0, <2>1, <3>2, <3>3, AdmitCovers DEF CounterCovers
  <2> QED
    BY <1>3, <1>4, <1>5, <2>1 DEF AcquireError, RefuseEffect
<1>6. ASSUME NEW w \in Worker, Release(w)
      PROVE  LeasesHold' /\ CounterCovers'
  <2>1. /\ Leave(w) /\ ReleaseEffect(w) /\ token[w] \in Token
        /\ stage[w] = "holding" /\ tenant[w] \in Tenant
    BY <1>0, <1>6, <1>a DEF Release, ClientTypes
  <2>2. keyTtl[tenant[w]] > 0 /\ Counter(tenant[w], 0) >= 1
    <3>1. keyTtl[tenant[w]] > 0
      BY <1>0, <2>1, LimiterAssumption DEF LeasesHold, RedisTypes, Forever
    <3>2. w \in HoldersOf(tenant[w])
      BY <2>1 DEF HoldersOf, Holders
    <3>3. Cardinality(HoldersOf(tenant[w])) >= 1
      BY <3>2, HoldersFinite, FS_EmptySet
    <3> QED
      BY <1>0, <1>c, <2>1, <3>1, <3>3, HoldersFinite DEF CounterCovers
  <2>3. Counter(tenant[w], 1) = Counter(tenant[w], 0) /\ keyTtl' = keyTtl
        /\ count' = [count EXCEPT ![tenant[w]] = Counter(tenant[w], 0) - 1]
    BY <1>0, <1>c, <2>1, <2>2 DEF ReleaseEffect, Counter, RedisTypes
  <2>4. LeasesHold'
    <3>1. ASSUME NEW v \in Worker, v # w, stage[v] = "holding"
          PROVE  token[v] \in lane' /\ ttl'[token[v]] = ttl[token[v]]
      <4>1. token[v] # token[w] /\ token[v] \in Token /\ token[v] \in lane
        BY <1>0, <1>a, <2>1, <3>1 DEF TokensDistinct, LeasesHold
      <4> QED
        BY <1>0, <2>1, <4>1 DEF ReleaseEffect, RedisTypes
    <3> QED
      BY <1>0, <2>1, <2>3, <3>1, LeaveLeases DEF LeasesHold
  <2>5. ASSUME NEW t \in Tenant, t = tenant[w]
        PROVE  Counter(t, 0)' >= Cardinality(HoldersOf(t)')
    <3>1. HoldersOf(t)' = HoldersOf(t) \ {w} /\ w \in HoldersOf(t)
      BY <1>0, <2>1, <2>5, LeaveHolders DEF HoldersOf, Holders
    <3>2. Cardinality(HoldersOf(t)') = Cardinality(HoldersOf(t)) - 1
      BY <3>1, HoldersFinite, FS_RemoveElement
    <3>3. Counter(t, 0)' = Counter(t, 0) - 1
      BY <1>0, <2>2, <2>3, <2>5 DEF Counter, RedisTypes
    <3> QED
      BY <1>0, <1>c, <3>2, <3>3, HoldersFinite DEF CounterCovers
  <2>6. ASSUME NEW t \in Tenant, t # tenant[w]
        PROVE  Counter(t, 0)' >= Cardinality(HoldersOf(t)')
    <3>1. HoldersOf(t)' \subseteq HoldersOf(t)
      BY <1>0, <2>1, LeaveHolders
    <3>2. Counter(t, 0)' = Counter(t, 0)
      BY <1>0, <2>3, <2>6 DEF Counter, RedisTypes
    <3> QED
      BY <1>b, <1>c, <3>1, <3>2
  <2> QED
    BY <2>4, <2>5, <2>6 DEF CounterCovers
<1>7. ASSUME lane' = Live \/ lane' = lane,
             UNCHANGED <<ttl, count, keyTtl, stage, token, tenant, lease>>
      PROVE  LeasesHold' /\ CounterCovers'
  <2>1. LeasesHold'
    BY <1>0, <1>7 DEF LeasesHold, Live
  <2>2. CounterCovers'
    BY <1>0, <1>7 DEF CounterCovers, Counter, HoldersOf, Holders
  <2> QED
    BY <2>1, <2>2
<1>8. ASSUME Tick
      PROVE  LeasesHold' /\ CounterCovers'
  <2>1. \A w \in Worker : Prompt(w)
    BY <1>8 DEF Tick
  <2>2. ASSUME NEW w \in Worker, stage[w] = "holding"
        PROVE  /\ token[w] \in lane' /\ ttl'[token[w]] > 0
               /\ keyTtl'[tenant[w]] >= ttl'[token[w]]
               /\ keyTtl[tenant[w]] > 1
    <3>1. token[w] \in Token /\ tenant[w] \in Tenant
      BY <1>0, <1>a, <2>2 DEF ClientTypes
    <3>2. /\ ttl[token[w]] \in 0..LeaseTTL /\ ttl[token[w]] > 1
          /\ keyTtl[tenant[w]] >= ttl[token[w]]
          /\ keyTtl[tenant[w]] \in {Forever} \cup 0..LeaseTTL
      BY <1>0, <2>1, <2>2, <3>1 DEF Prompt, LeasesHold, RedisTypes
    <3>3. /\ ttl'[token[w]] = ttl[token[w]] - 1
          /\ keyTtl'[tenant[w]] = keyTtl[tenant[w]] - 1
      BY <1>8, <3>1, <3>2, LimiterAssumption DEF Tick, Minus1, Forever
    <3> QED
      BY <1>0, <1>8, <2>2, <3>2, <3>3, LimiterAssumption DEF Tick, LeasesHold, Forever
  <2>3. LeasesHold'
    <3>1. \A w \in Worker : stage[w] = "asking" => lease'[w] > 0
      BY <1>0, <1>8, <2>1, LimiterAssumption DEF Tick, Prompt, Minus1, ClientTypes
    <3>2. \A t \in Tenant : keyTtl'[t] >= 0
      BY <1>0, <1>8, LimiterAssumption DEF Tick, Minus1, LeasesHold, RedisTypes, Forever
    <3> QED
      BY <1>8, <2>2, <3>1, <3>2 DEF Tick, LeasesHold
  <2>4. ASSUME NEW t \in Tenant
        PROVE  Counter(t, 0)' >= Cardinality(HoldersOf(t)')
    <3>1. HoldersOf(t)' = HoldersOf(t)
      BY <1>8 DEF Tick, HoldersOf, Holders
    <3>2. CASE HoldersOf(t) = {}
      <4>1. keyTtl[t] \in 0..LeaseTTL /\ count[t] \in Int
        BY <1>0, LimiterAssumption DEF LeasesHold, RedisTypes, Forever
      <4>2. count'[t] = 0 \/ (count'[t] = count[t] /\ keyTtl[t] # 0)
        BY <1>8 DEF Tick
      <4>3. keyTtl[t] # 0 => count[t] >= 0
        BY <1>0, <3>2, FS_EmptySet DEF CounterCovers, Counter
      <4>4. Counter(t, 0)' >= 0
        BY <4>2, <4>3, <4>1 DEF Counter
      <4> QED
        BY <3>1, <3>2, <4>4, FS_EmptySet
    <3>3. CASE HoldersOf(t) # {}
      <4>1. PICK w \in Worker : stage[w] = "holding" /\ tenant[w] = t
        BY <3>3 DEF HoldersOf, Holders
      <4>2. keyTtl[t] > 1 /\ keyTtl[t] \in 0..LeaseTTL
        BY <1>0, <2>2, <4>1, LimiterAssumption DEF RedisTypes, Forever
      <4>3. keyTtl'[t] = keyTtl[t] - 1 /\ count'[t] = count[t]
        BY <1>8, <4>2, LimiterAssumption DEF Tick, Minus1
      <4>4. Counter(t, 0)' = Counter(t, 0)
        BY <4>2, <4>3, LimiterAssumption DEF Counter
      <4> QED
        BY <1>0, <1>b, <1>c, <3>1, <4>4
    <3> QED
      BY <3>2, <3>3
  <2> QED
    BY <2>3, <2>4 DEF CounterCovers
<1>9. ASSUME UNCHANGED limiterVars
      PROVE  LeasesHold' /\ CounterCovers'
  BY <1>7, <1>9 DEF limiterVars
<1>10. LeasesHold' /\ CounterCovers'
  BY <1>1, <1>2, <1>3, <1>4, <1>5, <1>6, <1>7, <1>8, <1>9
  DEF Next, Refuse, RefuseEffect, ReleaseError, Crash, LaneStats
<1> QED
  BY <1>0, <1>10 DEF PromptInv

-----------------------------------------------------------------------------
(* No counter is below the slots in use: a release never takes away the count
   of another holder. *)
THEOREM CountersCoverHolders ==
    ASSUME "late" \notin Faults
    PROVE  Spec => []CounterCovers
<1>1. PromptInv => CounterCovers
  BY DEF PromptInv
<1>2. PromptInv /\ [Next]_limiterVars => PromptInv'
  BY PromptStep
<1> QED
  BY <1>1, <1>2, PromptInit, PTL DEF Spec

(* The sub-cap holds of the calls a tenant has in flight. *)
THEOREM TenantCapSafe ==
    ASSUME "late" \notin Faults
    PROVE  Spec => []TenantCap
<1>1. PromptInv => TenantCap
  <2> SUFFICES ASSUME PromptInv, NEW t \in Tenant
               PROVE  Cardinality(HoldersOf(t)) <= SubCap(t)
    BY DEF TenantCap
  <2>1. Counter(t, 0) <= SubCap(t) /\ Counter(t, 0) \in Int
    BY SubCapType, LimiterAssumption DEF PromptInv, LimiterInv, RedisTypes, Counter
  <2>2. Counter(t, 0) >= Cardinality(HoldersOf(t))
    BY DEF PromptInv, CounterCovers
  <2> QED
    BY <2>1, <2>2, HoldersFinite, SubCapType
<1>2. PromptInv /\ [Next]_limiterVars => PromptInv'
  BY PromptStep
<1> QED
  BY <1>1, <1>2, PromptInit, PTL DEF Spec

(* The lane's budget holds of the calls in flight: every holder has a member
   of its own in the sorted set. *)
THEOREM CallsInFlightSafe ==
    ASSUME "late" \notin Faults
    PROVE  Spec => []CallsInFlightCap
<1>1. PromptInv => CallsInFlightCap
  <2> SUFFICES ASSUME PromptInv
               PROVE  Cardinality(Holders) <= LaneMax
    BY DEF CallsInFlightCap
  <2> DEFINE f == [w \in Holders |-> token[w]]
  <2>1. f \in Injection(Holders, lane)
    BY DEF PromptInv, LimiterInv, LeasesHold, TokensDistinct, Holders, Injection, IsInjective
  <2>2. TypeOK /\ LaneCap
    BY InvTypeOK DEF PromptInv, LimiterInv
  <2>3. Cardinality(Holders) <= Cardinality(lane)
    BY <2>1, <2>2, LaneFinite, FS_Injection
  <2> QED
    BY <2>2, <2>3, LaneFinite, HoldersFinite, LimiterAssumption DEF LaneCap
<1>2. PromptInv /\ [Next]_limiterVars => PromptInv'
  BY PromptStep
<1> QED
  BY <1>1, <1>2, PromptInit, PTL DEF Spec

(* In every well-formed state of callers that keep to their lease no counter is
   below the slots it stands for (the release script's DECR). *)
THEOREM SlotsSoundSafe ==
    ASSUME "late" \notin Faults
    PROVE  Spec => []SlotsSound
BY TypeCorrect, CountersCoverHolders, PTL DEF SlotsSound

(* The three budgets hold together (the acquire script's two comparisons). *)
THEOREM CapsSafe ==
    ASSUME "late" \notin Faults
    PROVE  Spec => []CapsHold
BY LaneCapSafe, TenantCapSafe, CallsInFlightSafe, PTL DEF CapsHold

-----------------------------------------------------------------------------
(* The callers. *)

(* The locals of the requests; a stream that waits with its slot has an attempt
   left. *)
CallTypes ==
    /\ pc \in [Worker -> AtRest \cup {"acquire", "eval", "call", "backoff", "holdBackoff"}]
    /\ attempt \in [Worker -> 0..MaxRetries]
    /\ polls \in [Worker -> 0..MaxPolls]
    /\ caller \in [Worker -> Tenant]
    /\ priority \in {"live", "bulk"}
    /\ kind \in [Worker -> CallKind \cup {"none"}]
    /\ leaks \in 0..MaxLeaks
    /\ \A w \in Worker : pc[w] = "holdBackoff" => attempt[w] < MaxRetries

(* Where a request is says what its caller does with the limiter. *)
StageOfCall ==
    \A w \in Worker :
        /\ stage[w] = "holding" <=> pc[w] \in {"call", "holdBackoff"}
        /\ stage[w] = "asking" <=> pc[w] = "eval"

CallInv == CallTypes /\ StageOfCall

-----------------------------------------------------------------------------
(* What a request does is a step of the limiter or leaves it alone.  An embedding
   call that escapes with its slot does what a crash does, so the limiter has to
   reckon with crashes. *)
LEMMA ChokeStepsAreLimiterSteps ==
    ASSUME "crash" \in Faults
    PROVE  CallInv /\ [ChokeNext]_chokeVars => [Next]_limiterVars
<1> SUFFICES ASSUME CallInv, [ChokeNext]_chokeVars PROVE [Next]_limiterVars
  OBVIOUS
<1>1. ASSUME NEW w \in Worker, TryAcquire(w) PROVE Next
  <2>1. caller[w] \in Tenant /\ Ask(w, caller[w])
    BY <1>1 DEF TryAcquire, CallInv, CallTypes
  <2> QED
    BY <2>1 DEF Next
<1>2. ASSUME NEW w \in Worker, Admitted(w) \/ Rejected(w) \/ Answered(w) \/ CallerDies(w)
      PROVE  Next
  BY <1>2 DEF Admitted, Rejected, Answered, CallerDies, GiveBack, Next
<1>3. ASSUME NEW w \in Worker, CallFailed(w) \/ Rested(w)
      PROVE  [Next]_limiterVars
  BY <1>3 DEF CallFailed, Rested, GiveBack, Next
<1>4. ASSUME NEW w \in Worker, EmbedEscapes(w) PROVE Next
  <2>1. Crash(w)
    BY <1>4 DEF EmbedEscapes, Crash, CallInv, StageOfCall
  <2> QED
    BY <2>1 DEF Next
<1>5. ASSUME NEW w \in Worker, NEW t \in Tenant, NEW k \in CallKind, Begin(w, t, k)
      PROVE  UNCHANGED limiterVars
  BY <1>5 DEF Begin, limiterVars
<1>6. ASSUME ClockTicks PROVE Next
  BY <1>6 DEF ClockTicks, Next
<1>7. ASSUME UNCHANGED chokeVars PROVE UNCHANGED limiterVars
  BY <1>7 DEF chokeVars
<1> QED
  BY <1>1, <1>2, <1>3, <1>4, <1>5, <1>6, <1>7 DEF ChokeNext, Step

-----------------------------------------------------------------------------
LEMMA CallInit == ChokeInit => CallInv
BY LimiterAssumption, ChokeAssumption
DEF ChokeInit, Init, CallInv, CallTypes, StageOfCall, AtRest

LEMMA LeaveStage ==
    ASSUME ClientTypes, NEW w \in Worker, Leave(w)
    PROVE  stage' = [stage EXCEPT ![w] = "idle"]
BY DEF Leave

(* The locals after the next attempt, after the end and after another poll. *)
LEMMA EndTypes ==
    ASSUME CallTypes, NEW w \in Worker, NEW l \in AtRest, End(w, l), leaks' \in 0..MaxLeaks
    PROVE  CallTypes' /\ pc' = [pc EXCEPT ![w] = l]
BY LimiterAssumption, ChokeAssumption DEF CallTypes, End, GoTo, AtRest

LEMMA AttemptTypes ==
    ASSUME CallTypes, NEW w \in Worker, NEW l \in {"acquire", "backoff"},
           NextAttempt(w, l), attempt[w] < MaxRetries, leaks' \in 0..MaxLeaks
    PROVE  CallTypes' /\ pc' = [pc EXCEPT ![w] = l]
BY ChokeAssumption DEF CallTypes, NextAttempt, GoTo

LEMMA MoveTypes ==
    ASSUME CallTypes, NEW w \in Worker,
           NEW l \in {"acquire", "eval", "call", "holdBackoff"}, GoTo(w, l),
           l = "holdBackoff" => attempt[w] < MaxRetries,
           UNCHANGED <<priority, kind, attempt, caller>>,
           polls' \in [Worker -> 0..MaxPolls], leaks' \in 0..MaxLeaks
    PROVE  CallTypes' /\ pc' = [pc EXCEPT ![w] = l]
BY DEF CallTypes, GoTo

LEMMA LeakTypes ==
    ASSUME CallTypes
    PROVE  /\ Leak => leaks' \in 0..MaxLeaks
           /\ UNCHANGED leaks => leaks' \in 0..MaxLeaks
BY ChokeAssumption DEF Leak, CallTypes

LEMMA UnslottedTypes ==
    ASSUME CallTypes, NEW w \in Worker, Unslotted(w), leaks' \in 0..MaxLeaks
    PROVE  /\ CallTypes'
           /\ \E l \in AtRest \cup {"acquire", "backoff"} : pc' = [pc EXCEPT ![w] = l]
<1>1. CASE GoTo(w, "acquire") /\ polls[w] < MaxPolls /\ polls' = [polls EXCEPT ![w] = @ + 1]
           /\ UNCHANGED <<priority, kind, attempt, caller>>
  <2>1. polls' \in [Worker -> 0..MaxPolls]
    BY <1>1, ChokeAssumption DEF CallTypes
  <2> QED
    BY <1>1, <2>1, MoveTypes
<1>2. CASE End(w, "failed")
  BY <1>2, EndTypes DEF AtRest
<1>3. CASE attempt[w] < MaxRetries /\ NextAttempt(w, "backoff")
  BY <1>3, AttemptTypes
<1> QED
  BY <1>1, <1>2, <1>3 DEF Unslotted

(* A step that moves w from where it does not use the limiter to where it does
   not, or that ends its use. *)
LEMMA StageKept ==
    ASSUME CallInv, ClientTypes, NEW w \in Worker,
           NEW l \in AtRest \cup {"acquire", "backoff"}, pc' = [pc EXCEPT ![w] = l],
           \/ Leave(w)
           \/ stage' = stage /\ stage[w] = "idle"
    PROVE  StageOfCall'
BY DEF CallInv, CallTypes, StageOfCall, ClientTypes, Leave, AtRest

LEMMA CallStep ==
    CallInv /\ ClientTypes /\ [ChokeNext]_chokeVars => CallInv'
<1> SUFFICES ASSUME CallInv, ClientTypes, [ChokeNext]_chokeVars PROVE CallInv'
  OBVIOUS
<1>0. CallTypes /\ StageOfCall
  BY DEF CallInv
<1>a. (Leak \/ UNCHANGED leaks) => leaks' \in 0..MaxLeaks
  BY <1>0, LeakTypes
<1>b. polls \in [Worker -> 0..MaxPolls]
  BY <1>0 DEF CallTypes
<1>c. ASSUME NEW w \in Worker
      PROVE  stage[w] \in {"idle", "asking", "holding"}
  BY DEF ClientTypes
<1>d. ASSUME NEW w \in Worker, GiveBack(w)
      PROVE  Leave(w) /\ leaks' \in 0..MaxLeaks
  BY <1>a, <1>d DEF GiveBack, Release, ReleaseError
<1>1. ASSUME NEW w \in Worker, NEW t \in Tenant, NEW k \in CallKind, Begin(w, t, k)
      PROVE  CallInv'
  <2>1. CallTypes' /\ pc' = [pc EXCEPT ![w] = "acquire"]
    BY <1>0, <1>1 DEF Begin, CallTypes, GoTo
  <2>2. stage' = stage /\ stage[w] = "idle"
    BY <1>0, <1>1, <1>c DEF Begin, limiterVars, StageOfCall, AtRest
  <2> QED
    BY <2>1, <2>2, StageKept DEF CallInv
<1>2. ASSUME NEW w \in Worker, TryAcquire(w) PROVE CallInv'
  <2>1. CallTypes' /\ pc' = [pc EXCEPT ![w] = "eval"]
    BY <1>0, <1>2, <1>a, <1>b, MoveTypes DEF TryAcquire
  <2>2. stage' = [stage EXCEPT ![w] = "asking"]
    BY <1>2 DEF TryAcquire, Ask
  <2>3. StageOfCall'
    BY <1>0, <2>1, <2>2 DEF StageOfCall, CallTypes, ClientTypes
  <2> QED
    BY <2>1, <2>3 DEF CallInv
<1>3. ASSUME NEW w \in Worker, Admitted(w) PROVE CallInv'
  <2>1. CallTypes' /\ pc' = [pc EXCEPT ![w] = "call"]
    BY <1>0, <1>3, <1>a, <1>b, MoveTypes DEF Admitted
  <2>2. stage' = [stage EXCEPT ![w] = "holding"]
    BY <1>3 DEF Admitted, Grant
  <2>3. StageOfCall'
    BY <1>0, <2>1, <2>2 DEF StageOfCall, CallTypes, ClientTypes
  <2> QED
    BY <2>1, <2>3 DEF CallInv
<1>4. ASSUME NEW w \in Worker, Rejected(w) PROVE CallInv'
  <2>1. Leave(w) /\ leaks' \in 0..MaxLeaks
    BY <1>4, <1>a DEF Rejected, Refuse, AcquireError
  <2>2. /\ CallTypes'
        /\ \E l \in AtRest \cup {"acquire", "backoff"} : pc' = [pc EXCEPT ![w] = l]
    BY <1>0, <1>4, <2>1, UnslottedTypes DEF Rejected
  <2> QED
    BY <2>1, <2>2, StageKept DEF CallInv
<1>5. ASSUME NEW w \in Worker, NEW l \in AtRest, Leave(w), leaks' \in 0..MaxLeaks, End(w, l)
      PROVE  CallInv'
  BY <1>0, <1>5, EndTypes, StageKept DEF CallInv
<1>6. ASSUME NEW w \in Worker, Answered(w) \/ EmbedEscapes(w) \/ CallerDies(w)
      PROVE  CallInv'
  BY <1>5, <1>6, <1>a, <1>d DEF Answered, EmbedEscapes, CallerDies, Crash, AtRest
<1>7. ASSUME NEW w \in Worker, CallFailed(w) PROVE CallInv'
  <2>1. CASE GiveBack(w) /\ NextAttempt(w, "backoff") /\ attempt[w] < MaxRetries
    <3>1. CallTypes' /\ pc' = [pc EXCEPT ![w] = "backoff"] /\ Leave(w)
      BY <1>0, <1>d, <2>1, AttemptTypes
    <3> QED
      BY <3>1, StageKept DEF CallInv
  <2>2. CASE /\ attempt[w] < MaxRetries /\ GoTo(w, "holdBackoff")
             /\ UNCHANGED <<limiterVars, priority, kind, attempt, polls, caller, leaks>>
    <3>1. CallTypes' /\ pc' = [pc EXCEPT ![w] = "holdBackoff"] /\ stage' = stage
      BY <1>0, <1>a, <1>b, <2>2, MoveTypes DEF limiterVars
    <3>2. StageOfCall'
      BY <1>0, <1>7, <3>1 DEF StageOfCall, CallTypes, CallFailed
    <3> QED
      BY <3>1, <3>2 DEF CallInv
  <2>3. CASE GiveBack(w) /\ End(w, "failed")
    BY <1>5, <1>d, <2>3 DEF AtRest
  <2> QED
    BY <1>7, <2>1, <2>2, <2>3 DEF CallFailed
<1>8. ASSUME NEW w \in Worker, Rested(w) PROVE CallInv'
  <2>1. CASE /\ pc[w] = "backoff" /\ GoTo(w, "acquire")
             /\ UNCHANGED <<limiterVars, priority, kind, attempt, polls, caller, leaks>>
    <3>1. CallTypes' /\ pc' = [pc EXCEPT ![w] = "acquire"] /\ stage' = stage
      BY <1>0, <1>a, <1>b, <2>1, MoveTypes DEF limiterVars
    <3>2. stage[w] = "idle"
      BY <1>0, <1>c, <2>1 DEF StageOfCall
    <3> QED
      BY <3>1, <3>2, StageKept DEF CallInv
  <2>2. CASE pc[w] = "holdBackoff" /\ GiveBack(w) /\ NextAttempt(w, "acquire")
    <3>1. CallTypes' /\ pc' = [pc EXCEPT ![w] = "acquire"] /\ Leave(w)
      BY <1>0, <1>d, <2>2, AttemptTypes DEF CallTypes
    <3> QED
      BY <3>1, StageKept DEF CallInv
  <2> QED
    BY <1>8, <2>1, <2>2 DEF Rested
<1>9. ASSUME ClockTicks \/ UNCHANGED chokeVars PROVE CallInv'
  BY <1>0, <1>9
  DEF ClockTicks, Tick, chokeVars, callVars, limiterVars, CallInv, CallTypes, StageOfCall
<1> QED
  BY <1>1, <1>2, <1>3, <1>4, <1>6, <1>7, <1>8, <1>9 DEF ChokeNext, Step

(* Every behaviour of the callers is one of the limiter: the refinement. *)
THEOREM CallersUseLimiter ==
    ASSUME "crash" \in Faults
    PROVE  ChokeSpec => Spec
<1> DEFINE Inv == CallInv /\ LimiterInv
<1>1. ChokeInit => Init /\ Inv
  BY CallInit, LimiterInit DEF ChokeInit
<1>2. Inv /\ [ChokeNext]_chokeVars => [Next]_limiterVars /\ Inv'
  BY ChokeStepsAreLimiterSteps, LimiterStep, CallStep DEF LimiterInv
<1> QED
  BY <1>1, <1>2, PTL DEF ChokeSpec, Spec

(* The provider sees no more concurrent requests than the lane has slots: a
   request that is at the provider holds a slot. *)
THEOREM ProviderCapSafe ==
    ASSUME "crash" \in Faults, "late" \notin Faults
    PROVE  ChokeSpec => []ProviderCap
<1> DEFINE Calls == {w \in Worker : pc[w] = "call"}
<1>1. CallInv /\ CallsInFlightCap => ProviderCap
  <2> SUFFICES ASSUME CallInv, CallsInFlightCap PROVE Cardinality(Calls) <= LaneMax
    BY DEF ProviderCap
  <2>1. Calls \in SUBSET Holders
    BY DEF CallInv, StageOfCall, Holders
  <2>2. /\ Cardinality(Calls) \in Nat
        /\ Cardinality(Calls) <= Cardinality(Holders)
    BY <2>1, HoldersFinite, FS_Subset, FS_CardinalityType
  <2> QED
    BY <2>2, HoldersFinite, LimiterAssumption DEF CallsInFlightCap
<1>2. CallInv /\ LimiterInv /\ [ChokeNext]_chokeVars => (CallInv /\ LimiterInv)'
  BY ChokeStepsAreLimiterSteps, LimiterStep, CallStep DEF LimiterInv
<1>3. ChokeInit => CallInv /\ LimiterInv
  BY CallInit, LimiterInit DEF ChokeInit
<1>4. Spec => []CallsInFlightCap
  BY CallsInFlightSafe
<1> QED
  BY <1>1, <1>2, <1>3, <1>4, CallersUseLimiter, PTL DEF ChokeSpec

-----------------------------------------------------------------------------
(* While nothing leaked, the members are the tokens of the holders and each
   counter is exact. *)
Exact == CounterExact /\ lane = {token[w] : w \in Holders}
ExactInv == leaks = 0 => Exact

LEMMA CounterNow ==
    ASSUME PromptInv
    PROVE  /\ lane = {token[w] : w \in Holders} => Live = lane
           /\ \A w \in Holders : Counter(tenant[w], 1) = Counter(tenant[w], 0)
                                 /\ keyTtl[tenant[w]] > 0
<1>1. \A w \in Holders : ttl[token[w]] > 0 /\ token[w] \in Token
  BY DEF PromptInv, LimiterInv, LeasesHold, TokensDistinct, ClientTypes, Holders
<1>2. \A w \in Holders : keyTtl[tenant[w]] > 0
  BY <1>1, LimiterAssumption
  DEF PromptInv, LimiterInv, LeasesHold, RedisTypes, ClientTypes, Holders, Forever
<1> QED
  BY <1>1, <1>2 DEF Live, Counter

(* An admission that the caller learns of. *)
LEMMA GrantExact ==
    ASSUME PromptInv, Exact, NEW w \in Worker, Grant(w)
    PROVE  Exact'
<1>0. RedisTypes /\ ClientTypes /\ TokensDistinct
  BY DEF PromptInv, LimiterInv
<1>1. Holders' = Holders \cup {w} /\ w \notin Holders
  BY <1>0 DEF Grant, Holders, ClientTypes
<1>2. lane' = {token'[v] : v \in Holders'}
  BY <1>1, CounterNow DEF Exact, Grant, AdmitEffect
<1>3. ASSUME NEW t \in Tenant
      PROVE  Counter(t, 0)' = Cardinality(HoldersOf(t)')
  <2>1. /\ Counter(t, 0) = Cardinality(HoldersOf(t)) /\ Counter(t, 0) \in Int
    BY <1>0, CounterInt DEF Exact, CounterExact
  <2>2. CASE t = tenant[w]
    <3>1. HoldersOf(t)' = HoldersOf(t) \cup {w} /\ w \notin HoldersOf(t)
      BY <1>1, <2>2 DEF Grant, HoldersOf
    <3>2. Cardinality(HoldersOf(t)') = Cardinality(HoldersOf(t)) + 1
      BY <3>1, HoldersFinite, FS_AddElement
    <3>3. Counter(t, 0)' = Counter(t, 0) + 1
      BY <1>0, <2>2, LimiterAssumption DEF Grant, AdmitEffect, Counter, RedisTypes
    <3> QED
      BY <2>1, <3>2, <3>3
  <2>3. CASE t # tenant[w]
    <3>1. HoldersOf(t)' = HoldersOf(t)
      BY <1>1, <2>3 DEF Grant, HoldersOf
    <3>2. Counter(t, 0)' = Counter(t, 0)
      BY <1>0, <2>3 DEF Grant, AdmitEffect, Counter, RedisTypes
    <3> QED
      BY <2>1, <3>1, <3>2
  <2> QED
    BY <2>2, <2>3
<1> QED
  BY <1>2, <1>3 DEF Exact, CounterExact

(* A release that Redis answers. *)
LEMMA ReleaseExact ==
    ASSUME PromptInv, Exact, NEW w \in Worker, Release(w)
    PROVE  Exact'
<1>0. RedisTypes /\ ClientTypes /\ TokensDistinct
  BY DEF PromptInv, LimiterInv
<1>1. /\ Holders' = Holders \ {w} /\ w \in Holders /\ Leave(w) /\ ReleaseEffect(w)
      /\ \A v \in Holders' : token'[v] = token[v] /\ tenant'[v] = tenant[v]
  BY <1>0 DEF Release, Leave, Holders, ClientTypes
<1>2. lane' = {token'[v] : v \in Holders'}
  <2>1. \A v \in Holders : v # w => token[v] # token[w]
    BY <1>0, <1>1 DEF TokensDistinct, Holders
  <2>2. lane' = {token[v] : v \in Holders'}
    BY <1>1, <2>1 DEF Exact, ReleaseEffect
  <2> QED
    BY <1>1, <2>2
<1>3. tenant[w] \in Tenant
  BY <1>0 DEF ClientTypes
<1>4. Counter(tenant[w], 0) >= 1 /\ Counter(tenant[w], 0) \in Int
  <2>1. w \in HoldersOf(tenant[w])
    BY <1>1 DEF HoldersOf
  <2>2. Cardinality(HoldersOf(tenant[w])) >= 1
    BY <2>1, HoldersFinite, FS_EmptySet
  <2> QED
    BY <1>0, <1>3, <2>2, CounterInt DEF Exact, CounterExact
<1>5. /\ keyTtl' = keyTtl /\ keyTtl[tenant[w]] > 0
      /\ count' = [count EXCEPT ![tenant[w]] = Counter(tenant[w], 0) - 1]
  <2>1. keyTtl[tenant[w]] > 0 /\ Counter(tenant[w], 1) > 0
    BY <1>1, <1>4, CounterNow
  <2> QED
    BY <1>0, <1>1, <1>3, <2>1 DEF ReleaseEffect, RedisTypes
<1>6. ASSUME NEW t \in Tenant
      PROVE  Counter(t, 0)' = Cardinality(HoldersOf(t)')
  <2>1. /\ Counter(t, 0) = Cardinality(HoldersOf(t))
        /\ HoldersOf(t)' = HoldersOf(t) \ {w}
    BY <1>0, <1>1, LeaveHolders DEF Exact, CounterExact
  <2>2. CASE t = tenant[w]
    <3>0. w \in HoldersOf(t)
      BY <1>1, <2>2 DEF HoldersOf
    <3>1. Cardinality(HoldersOf(t)') = Cardinality(HoldersOf(t)) - 1
      BY <2>1, <3>0, HoldersFinite, FS_RemoveElement
    <3>2. Counter(t, 0)' = Counter(t, 0) - 1
      BY <1>0, <1>5, <2>2 DEF Counter, RedisTypes
    <3> QED
      BY <2>1, <3>1, <3>2
  <2>3. CASE t # tenant[w]
    <3>1. HoldersOf(t)' = HoldersOf(t)
      BY <2>1, <2>3 DEF HoldersOf
    <3>2. Counter(t, 0)' = Counter(t, 0)
      BY <1>0, <1>5, <2>3 DEF Counter, RedisTypes
    <3> QED
      BY <2>1, <3>1, <3>2
  <2> QED
    BY <2>2, <2>3
<1> QED
  BY <1>2, <1>6 DEF Exact, CounterExact

(* No counter key ends before the leases it counts. *)
LEMMA TickExact ==
    ASSUME PromptInv, Exact, Tick, "late" \notin Faults
    PROVE  Exact'
<1>0. RedisTypes /\ ClientTypes /\ LeasesHold
  BY DEF PromptInv, LimiterInv
<1>1. Holders' = Holders /\ lane' = lane /\ token' = token /\ tenant' = tenant
      /\ \A t : HoldersOf(t)' = HoldersOf(t)
  BY DEF Tick, Holders, HoldersOf
<1>2. ASSUME NEW t \in Tenant
      PROVE  Counter(t, 0)' = Counter(t, 0)
  <2>1. /\ keyTtl[t] \in 0..LeaseTTL /\ count[t] \in Int
        /\ keyTtl'[t] = Minus1(keyTtl[t])
        /\ count'[t] = IF keyTtl[t] \in {0, 1} THEN 0 ELSE count[t]
    BY <1>0, LimiterAssumption DEF LeasesHold, RedisTypes, Tick, Forever
  <2>2. CASE keyTtl[t] = 1
    <3>1. HoldersOf(t) = {}
      <4> SUFFICES ASSUME NEW w \in HoldersOf(t) PROVE FALSE
        OBVIOUS
      <4>1. w \in Worker /\ stage[w] = "holding" /\ tenant[w] = t
        BY DEF HoldersOf, Holders
      <4>2. ttl[token[w]] > 1 /\ keyTtl[t] >= ttl[token[w]] /\ token[w] \in Token
        BY <1>0, <4>1 DEF Tick, Prompt, LeasesHold, PromptInv, LimiterInv,
                          TokensDistinct, ClientTypes
      <4> QED
        BY <1>0, <2>2, <4>2, LimiterAssumption DEF RedisTypes
    <3>2. Counter(t, 0) = 0
      BY <3>1, FS_EmptySet DEF Exact, CounterExact
    <3> QED
      BY <2>1, <2>2, <3>2, LimiterAssumption DEF Counter, Minus1
  <2>3. CASE keyTtl[t] # 1
    BY <2>1, <2>3, LimiterAssumption DEF Counter, Minus1
  <2> QED
    BY <2>2, <2>3
<1> QED
  BY <1>1, <1>2 DEF Exact, CounterExact

(* Nothing changes hands. *)
LEMMA StillExact ==
    ASSUME PromptInv, Exact, lane' \in {lane, Live}, UNCHANGED <<count, keyTtl>>,
           Holders' = Holders,
           \A w \in Holders : token'[w] = token[w] /\ tenant'[w] = tenant[w]
    PROVE  Exact'
<1>1. lane' = lane
  BY CounterNow DEF Exact
<1>2. \A t \in Tenant : HoldersOf(t)' = HoldersOf(t) /\ Counter(t, 0)' = Counter(t, 0)
  BY DEF HoldersOf, Counter
<1> QED
  BY <1>1, <1>2 DEF Exact, CounterExact

LEMMA ExactStep ==
    ASSUME "late" \notin Faults
    PROVE  CallInv /\ PromptInv /\ ExactInv /\ [ChokeNext]_chokeVars => ExactInv'
<1> SUFFICES ASSUME CallInv, PromptInv, ExactInv, [ChokeNext]_chokeVars, leaks' = 0
             PROVE  Exact'
  BY DEF ExactInv
<1>0. ClientTypes /\ CallTypes /\ StageOfCall
  BY DEF PromptInv, LimiterInv, CallInv
<1>1. ~Leak
  BY <1>0, ChokeAssumption DEF Leak, CallTypes
<1>2. Exact
  BY <1>0, <1>1 DEF ExactInv, ChokeNext, Step, Begin, TryAcquire, Admitted, Rejected,
     Answered, CallFailed, EmbedEscapes, Rested, CallerDies, GiveBack, ClockTicks,
     chokeVars, callVars
<1>3. ASSUME NEW w \in Worker, TryAcquire(w) PROVE Exact'
  <2>1. /\ Holders' = Holders /\ UNCHANGED <<lane, count, keyTtl>>
        /\ \A v \in Holders : token'[v] = token[v] /\ tenant'[v] = tenant[v]
    BY <1>0, <1>3 DEF TryAcquire, Ask, Holders, ClientTypes
  <2> QED
    BY <1>2, <2>1, StillExact
<1>4. ASSUME NEW w \in Worker, Refuse(w) PROVE Exact'
  <2>1. /\ Holders' = Holders /\ lane' = Live /\ UNCHANGED <<count, keyTtl>>
        /\ \A v \in Holders : token'[v] = token[v] /\ tenant'[v] = tenant[v]
    BY <1>0, <1>4 DEF Refuse, RefuseEffect, Leave, Holders, ClientTypes
  <2> QED
    BY <1>2, <2>1, StillExact
<1>5. ASSUME NEW w \in Worker, Grant(w) \/ GiveBack(w) PROVE Exact'
  BY <1>1, <1>2, <1>5, GrantExact, ReleaseExact DEF GiveBack
<1>6. ASSUME UNCHANGED limiterVars PROVE Exact'
  <2>1. Holders' = Holders /\ UNCHANGED <<lane, count, keyTtl, token, tenant>>
    BY <1>6 DEF limiterVars, Holders
  <2> QED
    BY <1>2, <2>1, StillExact
<1>7. ASSUME ClockTicks PROVE Exact'
  BY <1>2, <1>7, TickExact DEF ClockTicks
<1>8. ASSUME NEW w \in Worker, Step(w) PROVE Exact'
  BY <1>1, <1>3, <1>4, <1>5, <1>6, <1>8
  DEF Step, Admitted, Rejected, Answered, CallFailed, EmbedEscapes, Rested, limiterVars
<1>9. ASSUME NEW w \in Worker, NEW t \in Tenant, NEW k \in CallKind, Begin(w, t, k)
      PROVE  Exact'
  BY <1>6, <1>9 DEF Begin
<1>10. \A w \in Worker : ~CallerDies(w)
  BY <1>1 DEF CallerDies
<1>11. ASSUME UNCHANGED chokeVars PROVE Exact'
  <2>1. UNCHANGED limiterVars
    BY <1>11 DEF chokeVars
  <2> QED
    BY <1>6, <2>1
<1> QED
  BY <1>7, <1>8, <1>9, <1>10, <1>11 DEF ChokeNext

(* The slots are held by the callers at the provider or in a stream's pause, and
   as long as nothing leaked the sorted set and the counters say just that. *)
THEOREM CallsSoundSafe ==
    ASSUME "crash" \in Faults, "late" \notin Faults
    PROVE  ChokeSpec => []CallsSound
<1> DEFINE Inv == CallInv /\ PromptInv /\ ExactInv
<1>1. Inv => CallsSound
  BY InvTypeOK DEF CallsSound, CallTypeOK, SlotsMatchCalls, CountersMatchCalls, ExactInv,
     Exact, CallInv, CallTypes, StageOfCall, PromptInv, AtRest
<1>2. ChokeInit => Inv
  <2> SUFFICES ASSUME ChokeInit PROVE Inv
    OBVIOUS
  <2>1. Holders = {} /\ lane = {} /\ \A t \in Tenant : Counter(t, 0) = 0 /\ HoldersOf(t) = {}
    BY DEF ChokeInit, Init, Holders, HoldersOf, Counter
  <2>2. Exact
    BY <2>1, FS_EmptySet DEF Exact, CounterExact
  <2> QED
    BY <2>2, CallInit, PromptInit DEF ChokeInit, ExactInv
<1>3. Inv /\ [ChokeNext]_chokeVars => Inv'
  <2>1. PromptInv /\ [Next]_limiterVars => PromptInv'
    BY PromptStep
  <2> QED
    BY <2>1, ChokeStepsAreLimiterSteps, CallStep, ExactStep DEF PromptInv, LimiterInv
<1> QED
  BY <1>1, <1>2, <1>3, PTL DEF ChokeSpec
==============================================================================
