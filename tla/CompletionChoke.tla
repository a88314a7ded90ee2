-------------------------- MODULE CompletionChoke --------------------------
(***************************************************************************)
(* The three callers of the slot limiter, on one lane: invoke_with_limiter *)
(* and stream_with_limiter of cloud/llm/completion_choke.py, and           *)
(* _call_api of the embedding provider, with acquire_with_retry.           *)
(*                                                                         *)
(* A request makes up to MaxRetries + 1 attempts.  An attempt acquires a   *)
(* slot (polling on the live lane), calls the provider, and gives the slot *)
(* back on every way out, except where the code has none.                  *)
(***************************************************************************)
EXTENDS SlotLimiter

CONSTANTS
    MaxRetries,  \* _MAX_RETRIES
    MaxPolls,    \* how often acquire_with_retry polls before its deadline
    MaxLeaks     \* bound on the events that may cost a slot

ASSUME ChokeAssumption ==
    /\ MaxRetries \in Nat
    /\ MaxPolls \in Nat
    /\ MaxLeaks \in Nat

VARIABLES
    priority, \* which lane this is: "live" or "bulk"
    kind,     \* the kind of call each request makes
    pc,       \* where the request of each caller is
    attempt,  \* its attempt number
    polls,    \* polls made in this attempt
    caller,   \* the tenant it asks for
    leaks     \* history: crashes, Redis errors and escapes that may have cost a slot

callVars == <<priority, kind, pc, attempt, polls, caller, leaks>>
chokeVars == <<limiterVars, callVars>>

AtRest == {"idle", "done", "failed"}
CallKind == {"invoke", "stream", "embed"}

CallTypeOK ==
    /\ TypeOK
    /\ pc \in [Worker -> AtRest \cup {"acquire", "eval", "call", "backoff", "holdBackoff"}]
    /\ attempt \in [Worker -> 0..MaxRetries]
    /\ polls \in [Worker -> 0..MaxPolls]
    /\ caller \in [Worker -> Tenant]
    /\ priority \in {"live", "bulk"}
    /\ kind \in [Worker -> CallKind \cup {"none"}]
    /\ leaks \in 0..MaxLeaks

ChokeInit ==
    /\ Init
    /\ priority \in {"live", "bulk"}
    /\ kind = [w \in Worker |-> "none"]
    /\ leaks = 0
    /\ pc = [w \in Worker |-> "idle"]
    /\ attempt = [w \in Worker |-> 0]
    /\ polls = [w \in Worker |-> 0]
    /\ caller = [w \in Worker |-> NoTenant]

Leak == leaks < MaxLeaks /\ leaks' = leaks + 1

GoTo(w, l) == pc' = [pc EXCEPT ![w] = l]

(* The request is over; its locals are gone. *)
End(w, l) ==
    /\ GoTo(w, l)
    /\ attempt' = [attempt EXCEPT ![w] = 0]
    /\ polls' = [polls EXCEPT ![w] = 0]
    /\ caller' = [caller EXCEPT ![w] = NoTenant]
    /\ kind' = [kind EXCEPT ![w] = "none"]
    /\ UNCHANGED priority

(* The next attempt, after the pause the caller makes at l. *)
NextAttempt(w, l) ==
    /\ GoTo(w, l)
    /\ attempt' = [attempt EXCEPT ![w] = @ + 1]
    /\ polls' = [polls EXCEPT ![w] = 0]
    /\ UNCHANGED <<priority, kind, caller>>

Begin(w, t, k) ==
    /\ pc[w] \in AtRest
    /\ kind' = [kind EXCEPT ![w] = k]
    /\ GoTo(w, "acquire")
    /\ caller' = [caller EXCEPT ![w] = t]
    /\ UNCHANGED <<limiterVars, priority, attempt, polls, leaks>>

TryAcquire(w) ==
    /\ pc[w] = "acquire"
    /\ Ask(w, caller[w])
    /\ GoTo(w, "eval")
    /\ UNCHANGED <<priority, kind, attempt, polls, caller, leaks>>

Admitted(w) ==
    /\ pc[w] = "eval"
    /\ Grant(w)
    /\ GoTo(w, "call")
    /\ UNCHANGED <<priority, kind, attempt, polls, caller, leaks>>

(* acquire_with_retry polls again before its deadline; without a slot the live
   caller gives up, the bulk caller backs off while it has attempts left. *)
Unslotted(w) ==
    \/ /\ priority = "live"
       /\ polls[w] < MaxPolls
       /\ GoTo(w, "acquire")
       /\ polls' = [polls EXCEPT ![w] = @ + 1]
       /\ UNCHANGED <<priority, kind, attempt, caller>>
    \/ /\ priority = "live"
       /\ End(w, "failed")
    \/ /\ priority = "bulk"
       /\ attempt[w] < MaxRetries
       /\ NextAttempt(w, "backoff")
    \/ /\ priority = "bulk"
       /\ attempt[w] = MaxRetries
       /\ End(w, "failed")

\* Mutant of Rejected: an error of the limiter lets the call through.
RejectedFailOpen(w) ==
    /\ pc[w] = "eval"
    /\ \/ Refuse(w) /\ Unslotted(w) /\ UNCHANGED leaks
       \/ /\ AcquireError(w)
          /\ Leak
          /\ GoTo(w, "call")
          /\ UNCHANGED <<priority, kind, attempt, polls, caller>>

Rejected(w) ==
    /\ pc[w] = "eval"
    /\ \/ Refuse(w) /\ UNCHANGED leaks
       \/ AcquireError(w) /\ Leak
    /\ Unslotted(w)

GiveBack(w) ==
    \/ Release(w) /\ UNCHANGED leaks
    \/ ReleaseError(w) /\ Leak

(* The provider answers; a stream may also be closed by its consumer. *)
Answered(w) ==
    /\ pc[w] = "call"
    /\ GiveBack(w)
    /\ End(w, "done")

\* Mutant of CallFailed: the slot is kept when the error is final.
CallFailedKeepsSlot(w) ==
    /\ pc[w] = "call"
    /\ \/ /\ kind[w] # "stream"
          /\ attempt[w] < MaxRetries
          /\ GiveBack(w)
          /\ NextAttempt(w, "backoff")
       \/ /\ kind[w] = "stream"
          /\ attempt[w] < MaxRetries
          /\ GoTo(w, "holdBackoff")
          /\ UNCHANGED <<limiterVars, priority, kind, attempt, polls, caller, leaks>>
       \/ /\ stage[w] = "holding"
          /\ Leave(w)
          /\ UNCHANGED <<lane, ttl, count, keyTtl, leaks>>
          /\ End(w, "failed")

(* The provider fails.  A retryable error with attempts left is retried after
   a pause: invoke and embed give the slot back first, a stream gives it back
   in the finally clause, after the pause.  Any other error is raised. *)
CallFailed(w) ==
    /\ pc[w] = "call"
    /\ \/ /\ kind[w] # "stream"
          /\ attempt[w] < MaxRetries
          /\ GiveBack(w)
          /\ NextAttempt(w, "backoff")
       \/ /\ kind[w] = "stream"
          /\ attempt[w] < MaxRetries
          /\ GoTo(w, "holdBackoff")
          /\ UNCHANGED <<limiterVars, priority, kind, attempt, polls, caller, leaks>>
       \/ /\ GiveBack(w)
          /\ End(w, "failed")

(* _call_api catches only transport errors: anything else httpx raises leaves
   the function with the slot still taken. *)
EmbedEscapes(w) ==
    /\ pc[w] = "call"
    /\ kind[w] = "embed"
    /\ Leave(w)
    /\ Leak
    /\ UNCHANGED <<lane, ttl, count, keyTtl>>
    /\ End(w, "failed")

\* Mutant of Rested: the stream's retry forgets which attempt it was.
RestedForgets(w) ==
    \/ /\ pc[w] = "backoff"
       /\ GoTo(w, "acquire")
       /\ UNCHANGED <<limiterVars, priority, kind, attempt, polls, caller, leaks>>
    \/ /\ pc[w] = "holdBackoff"
       /\ GiveBack(w)
       /\ GoTo(w, "acquire")
       /\ polls' = [polls EXCEPT ![w] = 0]
       /\ UNCHANGED <<priority, kind, attempt, caller>>

Rested(w) ==
    \/ /\ pc[w] = "backoff"
       /\ GoTo(w, "acquire")
       /\ UNCHANGED <<limiterVars, priority, kind, attempt, polls, caller, leaks>>
    \/ /\ pc[w] = "holdBackoff"
       /\ GiveBack(w)
       /\ NextAttempt(w, "acquire")

CallerDies(w) ==
    /\ Crash(w)
    /\ Leak
    /\ End(w, "idle")

ClockTicks == Tick /\ UNCHANGED callVars

Step(w) == TryAcquire(w) \/ Admitted(w) \/ Rejected(w) \/ Answered(w)
           \/ CallFailed(w) \/ EmbedEscapes(w) \/ Rested(w)

ChokeNext ==
    \/ \E w \in Worker : (\E t \in Tenant, k \in CallKind : Begin(w, t, k)) \/ Step(w) \/ CallerDies(w)
    \/ ClockTicks

(* A thread that has begun a request runs on: the provider call ends by its
   own timeout, a pause ends. *)
ChokeSpec == ChokeInit /\ [][ChokeNext]_chokeVars /\ \A w \in Worker : WF_chokeVars(Step(w))

-----------------------------------------------------------------------------
(* The provider never sees more concurrent requests than the lane's budget,
   retries, crashes and lost Redis answers included. *)
ProviderCap == Cardinality({w \in Worker : pc[w] = "call"}) <= LaneMax

(* A slot is held by exactly the callers inside a provider call or a stream's
   pause: no way out of a call keeps one, but the escape of an embedding call
   and the faults of the environment. *)
SlotsMatchCalls ==
    /\ \A w \in Worker : stage[w] = "holding" <=> pc[w] \in {"call", "holdBackoff"}
    /\ leaks = 0 => lane = {token[w] : w \in Holders}

(* As long as nothing was lost, retries and refusals leave every tenant counter
   equal to the slots the tenant's calls hold. *)
CountersMatchCalls == leaks = 0 => CounterExact

(* The slots, the counters and the calls agree, in a well-formed state. *)
CallsSound == CallTypeOK /\ SlotsMatchCalls /\ CountersMatchCalls

(* Every request comes to an end, however crowded the lane is. *)
RequestsEnd == \A w \in Worker : pc[w] = "acquire" ~> pc[w] \in AtRest
=============================================================================
