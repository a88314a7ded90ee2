--------------------------- MODULE CodeModeSwitch ---------------------------
(***************************************************************************)
(* Code mode and the two local GGUF daemons: set_code_mode of              *)
(* code_mode_service.py, the Celery task of tasks/gpu_inference_tasks.py,  *)
(* and apply_code_mode of gpu_inference_mode.py over the Docker client.    *)
(*                                                                         *)
(* A toggle stores the flag of its conversation and enqueues a task, in    *)
(* two steps.  The task stops one container, starts the other and waits    *)
(* for it; Pool of them run at a time, a failed one is retried later, one  *)
(* whose worker dies is delivered again.  Moods are written to the same    *)
(* user_data object by reading it, changing a key and storing it whole.    *)
(***************************************************************************)
EXTENDS Integers, FiniteSets

CONSTANTS
    Conv,        \* conversations
    NoConv,
    Rpc,         \* threads that serve toggles
    MoodWriter,  \* threads that persist a mood
    Task,        \* the switches that may be enqueued: 1..n, a bound
    Pool,        \* processes of the worker that serves the default queue
    MaxRetries,  \* max_retries of the task
    MaxFaults,   \* bound on the faults
    Faults       \* which of "docker", "slow", "crash", "broker" may happen

ASSUME SwitchAssumption ==
    /\ NoConv \notin Conv
    /\ Task \subseteq Nat \ {0}
    /\ Pool \in Nat \ {0}
    /\ MaxRetries \in Nat \ {0}
    /\ MaxFaults \in Nat
    /\ Faults \subseteq {"docker", "slow", "crash", "broker"}

VARIABLES
    shared,  \* _same_daemon(): chat and code use one container
    up,      \* which daemon containers run
    mode,    \* user_data["code_mode"] of each conversation
    rpc,     \* the toggle each RPC thread is in
    mood,    \* the user_data snapshot each mood writer holds
    task,    \* the switch tasks
    last,    \* history: the conversation toggled last, and the mode it got
    seen,    \* history: what has gone wrong so far
    faults   \* how many faults have happened

switchVars == <<shared, up, mode, rpc, mood, task, last, seen, faults>>

Daemon == {"chat", "code"}
Target(on) == IF on THEN "code" ELSE "chat"
Other(on) == IF on THEN "chat" ELSE "code"

Active == {"stop", "start", "wait"}
Ended == {"none", "ok", "error"}

Troubles == {"overlap", "stopFailed", "contested", "torn", "lost"}

SwitchTypeOK ==
    /\ shared \in BOOLEAN
    /\ up \in [Daemon -> BOOLEAN]
    /\ mode \in [Conv -> BOOLEAN]
    /\ rpc \in [Rpc -> [pc : {"idle", "enqueue"}, on : BOOLEAN]]
    /\ mood \in [MoodWriter -> [conv : Conv \cup {NoConv}, on : BOOLEAN]]
    /\ task \in [Task -> [st : Ended \cup Active \cup {"queued", "retry"},
                          on : BOOLEAN, tries : 0..MaxRetries - 1]]
    /\ last \in [conv : Conv \cup {NoConv}, on : BOOLEAN]
    /\ seen \in SUBSET Troubles
    /\ faults \in 0..MaxFaults

Init ==
    /\ shared \in BOOLEAN
    /\ up = [d \in Daemon |-> d = "chat"]
    /\ mode = [c \in Conv |-> FALSE]
    /\ rpc = [r \in Rpc |-> [pc |-> "idle", on |-> FALSE]]
    /\ mood = [m \in MoodWriter |-> [conv |-> NoConv, on |-> FALSE]]
    /\ task = [t \in Task |-> [st |-> "none", on |-> FALSE, tries |-> 0]]
    /\ last = [conv |-> NoConv, on |-> FALSE]
    /\ seen = {}
    /\ faults = 0

Fault(kind) ==
    /\ kind \in Faults
    /\ faults < MaxFaults
    /\ faults' = faults + 1

SeenIf(cond, trouble) == seen' = IF cond THEN seen \cup {trouble} ELSE seen

Unused == {t \in Task : task[t].st = "none"}
Enqueuing == {r \in Rpc : rpc[r].pc = "enqueue"}
Pending == {t \in Task : task[t].st \notin Ended}
ActiveTasks == {t \in Task : task[t].st \in Active}

-----------------------------------------------------------------------------
(* set_code_mode: store the flag ... *)
Toggle(r, c, on) ==
    /\ rpc[r].pc = "idle"
    /\ Cardinality(Enqueuing) < Cardinality(Unused)
    /\ mode' = [mode EXCEPT ![c] = on]
    /\ rpc' = [rpc EXCEPT ![r] = [pc |-> "enqueue", on |-> on]]
    /\ last' = [conv |-> c, on |-> on]
    /\ SeenIf(Enqueuing # {} \/ Pending # {}, "contested")
    /\ UNCHANGED <<shared, up, mood, task, faults>>

(* ... then enqueue the switch; the broker may refuse it, which is swallowed. *)
EnqueueSwitch(r) ==
    /\ rpc[r].pc = "enqueue"
    /\ rpc' = [rpc EXCEPT ![r].pc = "idle"]
    /\ \/ /\ \E t \in Unused :
                /\ \A u \in Unused : t <= u
                /\ task' = [task EXCEPT ![t] = [st |-> "queued", on |-> rpc[r].on,
                                                tries |-> 0]]
          /\ UNCHANGED <<seen, faults>>
       \/ /\ Fault("broker")
          /\ SeenIf(TRUE, "lost")
          /\ UNCHANGED task
    /\ UNCHANGED <<shared, up, mode, mood, last>>

(* A mood writer loads the conversation ... *)
MoodRead(m, c) ==
    /\ mood[m].conv = NoConv
    /\ mood' = [mood EXCEPT ![m] = [conv |-> c, on |-> mode[c]]]
    /\ UNCHANGED <<shared, up, mode, rpc, task, last, seen, faults>>

(* ... and stores its whole user_data, the code_mode it read included. *)
MoodWrite(m) ==
    LET c == mood[m].conv
    IN  /\ c # NoConv
        /\ mode' = [mode EXCEPT ![c] = mood[m].on]
        /\ mood' = [mood EXCEPT ![m] = [conv |-> NoConv, on |-> FALSE]]
        /\ SeenIf(mode[c] # mood[m].on, "torn")
        /\ UNCHANGED <<shared, up, rpc, task, last, faults>>

-----------------------------------------------------------------------------
MoveTo(t, st) == task' = [task EXCEPT ![t].st = st]

(* A pool process takes a task; with one container for both it is done. *)
Begin(t) ==
    /\ task[t].st = "queued"
    /\ Cardinality(ActiveTasks) < Pool
    /\ MoveTo(t, IF shared THEN "ok" ELSE "stop")
    /\ SeenIf(ActiveTasks # {}, "overlap")
    /\ UNCHANGED <<shared, up, mode, rpc, mood, last, faults>>

\* Mutant of StopOther: the other daemon is left running.
StopNothing(t) ==
    /\ task[t].st = "stop"
    /\ MoveTo(t, "start")
    /\ UNCHANGED <<shared, up, mode, rpc, mood, last, seen, faults>>

(* _stop_container, whose result nobody looks at. *)
StopOther(t) ==
    /\ task[t].st = "stop"
    /\ MoveTo(t, "start")
    /\ \/ /\ up' = [up EXCEPT ![Other(task[t].on)] = FALSE]
          /\ UNCHANGED <<seen, faults>>
       \/ /\ Fault("docker")
          /\ SeenIf(up[Other(task[t].on)], "stopFailed")
          /\ UNCHANGED up
    /\ UNCHANGED <<shared, mode, rpc, mood, last>>

\* Mutant of Fails: the first failure is taken for a success.
FailsSilently(t) == MoveTo(t, "ok")

(* apply_code_mode answers False: retried while attempts are left. *)
Fails(t) ==
    \/ /\ task[t].tries + 1 < MaxRetries
       /\ task' = [task EXCEPT ![t].st = "retry", ![t].tries = @ + 1]
    \/ /\ task[t].tries + 1 = MaxRetries
       /\ MoveTo(t, "error")

(* _start_container: running before or after the call counts as started; a
   call that fails may have started the container all the same. *)
StartTarget(t) ==
    /\ task[t].st = "start"
    /\ \/ /\ up' = [up EXCEPT ![Target(task[t].on)] = TRUE]
          /\ MoveTo(t, "wait")
          /\ UNCHANGED faults
       \/ /\ Fault("docker")
          /\ Fails(t)
          /\ \/ UNCHANGED up
             \/ up' = [up EXCEPT ![Target(task[t].on)] = TRUE]
    /\ UNCHANGED <<shared, mode, rpc, mood, last, seen>>

\* Mutant of WaitForDaemon: no deadline.
WaitForEver(t) ==
    /\ task[t].st = "wait"
    /\ \/ up[Target(task[t].on)] /\ MoveTo(t, "ok") /\ UNCHANGED faults
       \/ Fault("slow") /\ Fails(t)
    /\ UNCHANGED <<shared, up, mode, rpc, mood, last, seen>>

(* _wait_for_daemon: a container that runs answers unless it is slow; the
   deadline ends the wait for one that another task has stopped. *)
WaitForDaemon(t) ==
    /\ task[t].st = "wait"
    /\ \/ up[Target(task[t].on)] /\ MoveTo(t, "ok") /\ UNCHANGED faults
       \/ ~up[Target(task[t].on)] /\ Fails(t) /\ UNCHANGED faults
       \/ Fault("slow") /\ Fails(t)
    /\ UNCHANGED <<shared, up, mode, rpc, mood, last, seen>>

CountdownEnds(t) ==
    /\ task[t].st = "retry"
    /\ MoveTo(t, "queued")
    /\ UNCHANGED <<shared, up, mode, rpc, mood, last, seen, faults>>

\* Mutant of WorkerDies: the result is stored before the work is done.
WorkerDiesAcked(t) ==
    /\ task[t].st \in Active
    /\ Fault("crash")
    /\ MoveTo(t, "ok")
    /\ UNCHANGED <<shared, up, mode, rpc, mood, last, seen>>

(* acks_late: when the worker dies as a whole its task is delivered again.  When
   only the pool process dies (the container has a memory limit) the worker
   records a failure and acknowledges, as task_reject_on_worker_lost is not set. *)
WorkerDies(t) ==
    /\ task[t].st \in Active
    /\ Fault("crash")
    /\ MoveTo(t, "queued") \/ MoveTo(t, "error")
    /\ UNCHANGED <<shared, up, mode, rpc, mood, last, seen>>

Run(t) == Begin(t) \/ StopOther(t) \/ StartTarget(t) \/ WaitForDaemon(t) \/ CountdownEnds(t)

Next ==
    \/ \E r \in Rpc : EnqueueSwitch(r) \/ \E c \in Conv, on \in BOOLEAN : Toggle(r, c, on)
    \/ \E m \in MoodWriter : MoodWrite(m) \/ \E c \in Conv : MoodRead(m, c)
    \/ \E t \in Task : Run(t) \/ WorkerDies(t)

Spec == Init /\ [][Next]_switchVars

(* Workers go on with what they have; every wait has a deadline. *)
FairSpec == Spec /\ \A t \in Task : WF_switchVars(Run(t))

-----------------------------------------------------------------------------
(* The 16 GB card holds one model: while no two switches run at once and no
   stop fails, the two daemons never run together, between the steps of a
   switch, across its retries and after a worker died in the middle. *)
OneDaemon ==
    seen \cap {"overlap", "stopFailed"} = {} => ~(up["chat"] /\ up["code"])

(* However toggles race, overlap, are retried or redelivered: when every
   switch has ended and none of them gave up, some daemon runs. *)
NeverDark ==
    (\A t \in Task : task[t].st \in {"none", "ok"}) => \E d \in Daemon : up[d]

(* A well-formed state in which the card is not left without a daemon. *)
SwitchSound == SwitchTypeOK /\ NeverDark

Settled == Pending = {} /\ Enqueuing = {}

(* A toggle made while nothing else is under way is what the card and the
   database end up with, crashes and retries in between included. *)
AgreesAtRest ==
    /\ Settled /\ seen = {} /\ ~shared
    /\ last.conv # NoConv
    /\ \A t \in Task : task[t].st # "error"
    => /\ mode[last.conv] = last.on
       /\ up[Target(last.on)]
       /\ ~up[Other(last.on)]

(* Every switch that was enqueued comes to an end. *)
SwitchesEnd == \A t \in Task : task[t].st = "queued" ~> task[t].st \in Ended
=============================================================================
