--------------------------- MODULE GenerationWorker ---------------------------
(***************************************************************************)
(* The chat worker: the queue of workers/worker.py (policy GET_NEXT_ITEM)  *)
(* under BaseLLMWorker, with its set of conversations in flight, its       *)
(* interrupt flag and its deferred unload.                                 *)
(*                                                                         *)
(* Threads that serve requests add messages, one thread unloads, and the   *)
(* worker's own thread takes messages out and at times adds one.  Nothing  *)
(* but the set is guarded by a lock.  A step is what a thread does between *)
(* two calls: CPython switches threads at calls, not between assignments.  *)
(***************************************************************************)
EXTENDS Integers, Sequences, FiniteSets

CONSTANTS
    Sender,      \* threads that serve chat requests
    Unloader,    \* a thread that serves an unload request
    Worker,      \* the thread of the worker
    Conv,        \* conversations
    NoMsg,
    Unload,      \* the message that asks for an unload
    MaxChats,    \* bound on the chat messages accepted
    MaxUnloads,  \* bound on the unload requests
    Faults       \* which of "escape", "empty" may happen

ASSUME WorkerAssumption ==
    /\ IsFiniteSet(Sender)
    /\ Unloader \notin Sender /\ Worker \notin Sender /\ Worker # Unloader
    /\ MaxChats \in Nat /\ MaxUnloads \in Nat
    /\ NoMsg # Unload
    /\ NoMsg \notin Conv \X Nat /\ Unload \notin Conv \X Nat
    /\ Faults \subseteq {"escape", "empty"}

Thread == Sender \cup {Unloader, Worker}
Chat == Conv \X (1..MaxChats)  \* numbered, as no two are the same
Message == Chat \cup {Unload}
Index == 0..MaxChats + MaxUnloads

VARIABLES
    fifo,         \* queue: the indices that were put
    items,        \* items: the message of each index
    owners,       \* _item_account_ids and _item_tenant_keys: whose it is,
                  \* an account being named by the message it sent
    index,        \* current_index
    inFlight,     \* _IN_FLIGHT_CONVERSATION_IDS
    interrupted,  \* _interrupted
    generating,   \* _pending_llm_request is not None
    unload,       \* _pending_unload_request is not None
    at,           \* where each thread is
    adds,         \* the message each thread is adding, or about to
    taken,        \* what the worker has taken: index, owner, message
    sent,         \* chat messages accepted so far
    unloads,      \* unload requests so far
    owed,         \* history: an unload was requested and none was done since
    seen          \* history: what has gone wrong so far

queueVars == <<fifo, items, owners, index>>
flagVars == <<interrupted, generating, unload>>
countVars == <<sent, unloads, owed, seen>>
workerVars == <<queueVars, flagVars, countVars, inFlight, at, adds, taken>>

Adding == {"store", "tag", "put", "bump"}
Troubles == {"overlap", "dropped", "escape", "empty"}
Nothing == [index |-> 0, owner |-> NoMsg, msg |-> NoMsg]

WorkerTypeOK ==
    /\ fifo \in Seq(Index)
    /\ items \in [Index -> Message \cup {NoMsg}]
    /\ owners \in [Index -> Message \cup {NoMsg}]
    /\ index \in Index
    /\ inFlight \in SUBSET Conv
    /\ interrupted \in BOOLEAN /\ generating \in BOOLEAN /\ unload \in BOOLEAN
    /\ at \in [Thread -> Adding \cup {"idle", "check", "clearQueue", "defer", "look",
                                      "unload", "item", "handle", "start", "run", "free"}]
    /\ adds \in [Thread -> Message \cup {NoMsg}]
    /\ taken \in [index : Index, owner : Message \cup {NoMsg}, msg : Message \cup {NoMsg}]
    /\ sent \in 0..MaxChats /\ unloads \in 0..MaxUnloads
    /\ owed \in BOOLEAN
    /\ seen \in SUBSET Troubles

Init ==
    /\ fifo = <<>>
    /\ items = [i \in Index |-> NoMsg]
    /\ owners = [i \in Index |-> NoMsg]
    /\ index = 0
    /\ inFlight = {}
    /\ interrupted = FALSE /\ generating = FALSE /\ unload = FALSE
    /\ at = [t \in Thread |-> "idle"]
    /\ adds = [t \in Thread |-> NoMsg]
    /\ taken = Nothing
    /\ sent = 0 /\ unloads = 0
    /\ owed = FALSE
    /\ seen = {}

GoTo(t, l) == at' = [at EXCEPT ![t] = l]
Trouble(cond, what) == seen' = IF cond THEN seen \cup {what} ELSE seen

(* At most one of the faults happens, and before any other trouble: a bound. *)
Happens(fault) ==
    /\ fault \in Faults
    /\ seen = {}
    /\ seen' = seen \cup {fault}

-----------------------------------------------------------------------------
(* add_to_queue, by whichever thread; every step reads current_index anew. *)

(* The worker that added its deferred unload before it freed the conversation
   does so now. *)
After(t) == IF t = Worker /\ taken.msg # NoMsg THEN "free" ELSE "idle"

Store(t) ==
    /\ at[t] = "store"
    /\ items' = [items EXCEPT ![index] = adds[t]]
    /\ GoTo(t, "tag")
    /\ Trouble(\E u \in Thread : at[u] \in {"tag", "put", "bump"}, "overlap")
    /\ UNCHANGED <<fifo, owners, index, flagVars, inFlight, adds, taken, sent,
                   unloads, owed>>

Tag(t) ==
    /\ at[t] = "tag"
    /\ owners' = [owners EXCEPT ![index] = adds[t]]
    /\ GoTo(t, "put")
    /\ UNCHANGED <<fifo, items, index, flagVars, countVars, inFlight, adds, taken>>

Put(t) ==
    /\ at[t] = "put"
    /\ fifo' = Append(fifo, index)
    /\ GoTo(t, "bump")
    /\ UNCHANGED <<items, owners, index, flagVars, countVars, inFlight, adds, taken>>

\* Mutant of Bump: the index is kept.
BumpNothing(t) ==
    /\ at[t] = "bump"
    /\ GoTo(t, After(t))
    /\ adds' = [adds EXCEPT ![t] = NoMsg]
    /\ UNCHANGED <<queueVars, flagVars, countVars, inFlight, taken>>

Bump(t) ==
    /\ at[t] = "bump"
    /\ index' = index + 1
    /\ GoTo(t, After(t))
    /\ adds' = [adds EXCEPT ![t] = NoMsg]
    /\ UNCHANGED <<fifo, items, owners, flagVars, countVars, inFlight, taken>>

-----------------------------------------------------------------------------
(* on_llm_request_signal: a new message ends an interruption ... *)
Request(s, c) ==
    /\ at[s] = "idle"
    /\ sent + Cardinality({u \in Sender : at[u] = "check"}) < MaxChats
    /\ interrupted' = FALSE
    /\ adds' = [adds EXCEPT ![s] = <<c, MaxChats>>]  \* numbered when accepted
    /\ GoTo(s, "check")
    /\ UNCHANGED <<queueVars, generating, unload, countVars, inFlight, taken>>

\* Mutant of Accept: the conversation is marked without looking.
AcceptAny(s) ==
    LET c == adds[s][1]
    IN  /\ at[s] = "check"
        /\ inFlight' = inFlight \cup {c}
        /\ sent' = sent + 1
        /\ adds' = [adds EXCEPT ![s] = <<c, sent'>>]
        /\ GoTo(s, "store")
        /\ UNCHANGED <<queueVars, flagVars, taken, unloads, owed, seen>>

(* ... and is accepted, under the lock, unless its conversation is in flight. *)
Accept(s) ==
    LET c == adds[s][1]
    IN  /\ at[s] = "check"
        /\ c \notin inFlight
        /\ inFlight' = inFlight \cup {c}
        /\ sent' = sent + 1
        /\ adds' = [adds EXCEPT ![s] = <<c, sent'>>]
        /\ GoTo(s, "store")
        /\ UNCHANGED <<queueVars, flagVars, taken, unloads, owed, seen>>

StillWorking(s) ==
    /\ at[s] = "check"
    /\ adds[s][1] \in inFlight
    /\ adds' = [adds EXCEPT ![s] = NoMsg]
    /\ GoTo(s, "idle")
    /\ UNCHANGED <<queueVars, flagVars, countVars, inFlight, taken>>

-----------------------------------------------------------------------------
(* request_unload_after_interrupt: the flag, the queue, the deferred unload. *)
Interrupt ==
    /\ at[Unloader] = "idle"
    /\ unloads < MaxUnloads
    /\ unloads' = unloads + 1
    /\ interrupted' = TRUE
    /\ GoTo(Unloader, "clearQueue")
    /\ UNCHANGED <<queueVars, generating, unload, inFlight, adds, taken, sent, owed, seen>>

(* clear_queue drops the indices and nothing else: neither the items nor the
   conversations in flight. *)
ClearQueue ==
    /\ at[Unloader] = "clearQueue"
    /\ fifo' = <<>>
    /\ GoTo(Unloader, "defer")
    /\ Trouble(\E i \in 1..Len(fifo) : items[fifo[i]] \in Chat, "dropped")
    /\ UNCHANGED <<items, owners, index, flagVars, inFlight, adds, taken, sent,
                   unloads, owed>>

Defer ==
    /\ at[Unloader] = "defer"
    /\ unload' = TRUE
    /\ owed' = TRUE
    /\ GoTo(Unloader, "look")
    /\ UNCHANGED <<queueVars, interrupted, generating, inFlight, adds, taken, sent,
                   unloads, seen>>

(* While a request is pending the worker is to queue the unload at its end. *)
Look ==
    /\ at[Unloader] = "look"
    /\ GoTo(Unloader, IF generating THEN "idle" ELSE "unload")
    /\ UNCHANGED <<queueVars, flagVars, countVars, inFlight, adds, taken>>

(* _queue_pending_unload_request, by either thread. *)
QueueUnload(t) ==
    /\ at[t] = "unload"
    /\ unload' = FALSE
    /\ IF unload
         THEN /\ adds' = [adds EXCEPT ![t] = Unload]
              /\ GoTo(t, "store")
         ELSE /\ GoTo(t, After(t))
              /\ UNCHANGED adds
    /\ UNCHANGED <<queueVars, interrupted, generating, countVars, inFlight, taken>>

-----------------------------------------------------------------------------
(* run_thread: get_next_item, the index and then its entries, and handle_message. *)
Take ==
    /\ at[Worker] = "idle"
    /\ fifo # <<>>
    /\ fifo' = Tail(fifo)
    /\ taken' = [Nothing EXCEPT !.index = Head(fifo)]
    /\ GoTo(Worker, "item")
    /\ UNCHANGED <<items, owners, index, flagVars, countVars, inFlight, adds>>

TakeItem ==
    LET i == taken.index
    IN  /\ at[Worker] = "item"
        /\ items' = [items EXCEPT ![i] = NoMsg]
        /\ owners' = [owners EXCEPT ![i] = NoMsg]
        /\ IF items[i] = NoMsg
             THEN /\ taken' = Nothing
                  /\ GoTo(Worker, "idle")
             ELSE /\ taken' = [taken EXCEPT !.owner = owners[i], !.msg = items[i]]
                  /\ GoTo(Worker, "handle")
        /\ UNCHANGED <<fifo, index, flagVars, countVars, inFlight, adds>>

(* The conversation of the message is free again. *)
Frees == inFlight' = inFlight \ {taken.msg[1]}

HandleUnload ==
    /\ at[Worker] = "handle"
    /\ taken.msg = Unload
    /\ owed' = FALSE
    /\ taken' = Nothing
    /\ GoTo(Worker, "idle")
    /\ UNCHANGED <<queueVars, flagVars, inFlight, adds, sent, unloads, seen>>

Skip ==
    /\ at[Worker] = "handle"
    /\ taken.msg \in Chat
    /\ interrupted
    /\ Frees
    /\ taken' = Nothing
    /\ GoTo(Worker, "idle")
    /\ UNCHANGED <<queueVars, flagVars, countVars, adds>>

(* The interruption is looked at once, and may come before the request is stored. *)
Proceed ==
    /\ at[Worker] = "handle"
    /\ taken.msg \in Chat
    /\ ~interrupted
    /\ GoTo(Worker, "start")
    /\ UNCHANGED <<queueVars, flagVars, countVars, inFlight, adds, taken>>

Start ==
    /\ at[Worker] = "start"
    /\ generating' = TRUE
    /\ GoTo(Worker, "run")
    /\ UNCHANGED <<queueVars, interrupted, unload, countVars, inFlight, adds, taken>>

\* Mutant of Finish: the finished request stays pending.
FinishStaysPending ==
    /\ at[Worker] = "run"
    /\ Frees
    /\ taken' = Nothing
    /\ GoTo(Worker, "unload")
    /\ UNCHANGED <<queueVars, flagVars, countVars, adds>>

(* _finalize_generation: no longer pending, then free, then the unload. *)
Finish ==
    /\ at[Worker] = "run"
    /\ generating' = FALSE
    /\ Frees
    /\ taken' = Nothing
    /\ GoTo(Worker, "unload")
    /\ UNCHANGED <<queueVars, interrupted, unload, countVars, adds>>

(* _handle_generation_error: no longer pending, then the unload, then free. *)
Fail ==
    /\ at[Worker] = "run"
    /\ generating' = FALSE
    /\ GoTo(Worker, "unload")
    /\ UNCHANGED <<queueVars, interrupted, unload, countVars, inFlight, adds, taken>>

\* Mutant of Free: the failed conversation stays in flight.
FreeNothing ==
    /\ at[Worker] = "free"
    /\ taken' = Nothing
    /\ GoTo(Worker, "idle")
    /\ UNCHANGED <<queueVars, flagVars, countVars, inFlight, adds>>

Free ==
    /\ at[Worker] = "free"
    /\ Frees
    /\ taken' = Nothing
    /\ GoTo(Worker, "idle")
    /\ UNCHANGED <<queueVars, flagVars, countVars, adds>>

(* No result: the conversation is freed, the request stays pending and the
   unload is not looked for. *)
EmptyResult ==
    /\ Happens("empty")
    /\ at[Worker] = "run"
    /\ Frees
    /\ taken' = Nothing
    /\ GoTo(Worker, "idle")
    /\ UNCHANGED <<queueVars, flagVars, adds, sent, unloads, owed>>

(* An exception before the try block ends in run_thread, which logs it. *)
Escape ==
    /\ Happens("escape")
    /\ at[Worker] = "run"
    /\ taken' = Nothing
    /\ GoTo(Worker, "idle")
    /\ UNCHANGED <<queueVars, flagVars, inFlight, adds, sent, unloads, owed>>

Add(t) == Store(t) \/ Tag(t) \/ Put(t) \/ Bump(t) \/ QueueUnload(t)
SenderStep(s) == Add(s) \/ Accept(s) \/ StillWorking(s)
UnloaderStep == Add(Unloader) \/ ClearQueue \/ Defer \/ Look
WorkerStep ==
    \/ Add(Worker) \/ Take \/ TakeItem
    \/ HandleUnload \/ Skip \/ Proceed \/ Start
    \/ Finish \/ Fail \/ Free \/ EmptyResult \/ Escape

Next ==
    \/ \E s \in Sender : SenderStep(s) \/ \E c \in Conv : Request(s, c)
    \/ Interrupt \/ UnloaderStep \/ WorkerStep

(* A thread that has begun goes on; the worker's loop runs.  Nobody has to send
   or to unload. *)
Spec == Init /\ [][Next]_workerVars
FairSpec ==
    /\ Spec
    /\ \A s \in Sender : WF_workerVars(SenderStep(s))
    /\ WF_workerVars(UnloaderStep) /\ WF_workerVars(WorkerStep)

-----------------------------------------------------------------------------
(* A message that is being added, waits where the worker will find it, or is
   being handled. *)
Alive(m) ==
    \/ \E t \in Thread : at[t] = "store" /\ adds[t] = m
    \/ (\E t \in Thread : at[t] \in {"tag", "put"}) /\ items[index] = m
    \/ \E i \in 1..Len(fifo) : items[fifo[i]] = m
    \/ at[Worker] = "item" /\ items[taken.index] = m
    \/ taken.msg = m

(* test_duplicate_generation_prevention.py: a conversation never has two
   generations to pay for, queued or running, however requests race with each
   other, with an interruption and with the end of a generation. *)
OnePerConversation ==
    \A m, n \in Chat : Alive(m) /\ Alive(n) /\ m[1] = n[1] => m = n

(* No second generation is queued or running for a conversation that has one
   (_try_mark_in_flight), and the indices, items and owners of the queue are
   well formed: every index that was put is one that add_to_queue has used. *)
WorkerSound == WorkerTypeOK /\ OnePerConversation

(* worker.py: the tenant and the account captured at enqueue time are those
   applied while the item is handled, unless two threads added at once: they
   use the same index. *)
HandledAsSender ==
    "overlap" \notin seen /\ taken.msg # NoMsg => taken.owner = taken.msg

(* A conversation does not stay in flight: its next request is not rejected for
   ever.  Two adds at once, an interruption that drops a queued request and an
   exception before the try block do that. *)
ConversationFreed ==
    \A c \in Conv :
        c \in inFlight ~> c \notin inFlight \/ seen \cap {"overlap", "dropped", "escape"} # {}

(* An unload that was requested is done, by the requester's message or by the
   worker's, whichever looks first: unless the request that was pending ended
   without a result or with an exception. *)
UnloadDone == owed ~> ~owed \/ seen \cap {"overlap", "escape", "empty"} # {}
=============================================================================
