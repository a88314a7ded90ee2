------------------------ MODULE CodeModeSwitchProofs ------------------------
(***************************************************************************)
(* Proofs about CodeModeSwitch: type correctness, that racing switches     *)
(* never leave the card without a daemon, that without overlap the two     *)
(* daemons never run together, and that a toggle nothing disturbs is what  *)
(* the card and the database end up with.                                  *)
(***************************************************************************)
EXTENDS CodeModeSwitch, TLAPS

LEMMA RolesDiffer ==
    \A on \in BOOLEAN : /\ Target(on) \in Daemon
                        /\ Other(on) \in Daemon
                        /\ Target(on) # Other(on)
                        /\ \A d \in Daemon : d = Target(on) \/ d = Other(on)
BY DEF Target, Other, Daemon

(* A failed attempt moves its task to a retry or to its end, and no other. *)
LEMMA FailsKeepsType ==
    ASSUME SwitchTypeOK, NEW t \in Task, Fails(t)
    PROVE  /\ task' \in [Task -> [st : Ended \cup Active \cup {"queued", "retry"},
                                  on : BOOLEAN, tries : 0..MaxRetries - 1]]
           /\ \A u \in Task \ {t} : task'[u] = task[u]
           /\ task'[t].st \in {"retry", "error"}
           /\ task'[t].on = task[t].on
<1>1. CASE /\ task[t].tries + 1 < MaxRetries
           /\ task' = [task EXCEPT ![t].st = "retry", ![t].tries = @ + 1]
  <2>1. task[t].tries + 1 \in 0..MaxRetries - 1
    BY <1>1, SwitchAssumption DEF SwitchTypeOK
  <2> QED BY <1>1, <2>1 DEF SwitchTypeOK, Ended, Active
<1>2. CASE MoveTo(t, "error")
  BY <1>2 DEF SwitchTypeOK, MoveTo, Ended, Active
<1> QED BY <1>1, <1>2 DEF Fails

LEMMA MoveKeepsType ==
    ASSUME SwitchTypeOK, NEW t \in Task,
           NEW st \in Ended \cup Active \cup {"queued", "retry"}, MoveTo(t, st)
    PROVE  /\ task' \in [Task -> [st : Ended \cup Active \cup {"queued", "retry"},
                                  on : BOOLEAN, tries : 0..MaxRetries - 1]]
           /\ \A u \in Task \ {t} : task'[u] = task[u]
           /\ task'[t].st = st
           /\ task'[t].on = task[t].on
BY DEF SwitchTypeOK, MoveTo

(* SwitchTypeOK is inductive: the retry count stays below the task's budget. *)
THEOREM SwitchTypeCorrect == Spec => []SwitchTypeOK
<1>1. Init => SwitchTypeOK
  BY SwitchAssumption
  DEF Init, SwitchTypeOK, Daemon, Ended, Active, Troubles
<1>2. SwitchTypeOK /\ [Next]_switchVars => SwitchTypeOK'
  <2> SUFFICES ASSUME SwitchTypeOK, [Next]_switchVars
               PROVE  SwitchTypeOK'
    OBVIOUS
  <2> USE SwitchAssumption
  <2>1. ASSUME NEW r \in Rpc, NEW c \in Conv, NEW on \in BOOLEAN, Toggle(r, c, on)
        PROVE  SwitchTypeOK'
    BY <2>1 DEF Toggle, SwitchTypeOK, SeenIf, Troubles
  <2>2. ASSUME NEW r \in Rpc, EnqueueSwitch(r)
        PROVE  SwitchTypeOK'
    <3>1. task' \in [Task -> [st : Ended \cup Active \cup {"queued", "retry"},
                              on : BOOLEAN, tries : 0..MaxRetries - 1]]
      <4> DEFINE Stage == Ended \cup Active \cup {"queued", "retry"}
      <4>1. "queued" \in Stage /\ 0 \in 0..MaxRetries - 1 /\ rpc[r].on \in BOOLEAN
        BY DEF SwitchTypeOK
      <4> HIDE DEF Stage
      <4>2. task \in [Task -> [st : Stage, on : BOOLEAN, tries : 0..MaxRetries - 1]]
        BY DEF SwitchTypeOK, Stage
      <4>3. CASE UNCHANGED task
        BY <4>2, <4>3 DEF Stage
      <4>4. ASSUME NEW t \in Unused,
                   task' = [task EXCEPT ![t] = [st |-> "queued", on |-> rpc[r].on,
                                                tries |-> 0]]
            PROVE  task' \in [Task -> [st : Stage, on : BOOLEAN, tries : 0..MaxRetries - 1]]
        BY <4>1, <4>2, <4>4 DEF Unused
      <4> QED BY <2>2, <4>3, <4>4 DEF EnqueueSwitch, Stage
    <3> QED BY <2>2, <3>1 DEF EnqueueSwitch, SwitchTypeOK, SeenIf, Fault, Troubles
  <2>3. ASSUME NEW m \in MoodWriter, NEW c \in Conv, MoodRead(m, c)
        PROVE  SwitchTypeOK'
    BY <2>3 DEF MoodRead, SwitchTypeOK
  <2>4. ASSUME NEW m \in MoodWriter, MoodWrite(m)
        PROVE  SwitchTypeOK'
    BY <2>4 DEF MoodWrite, SwitchTypeOK, SeenIf, Troubles
  <2>5. ASSUME NEW t \in Task, Begin(t)
        PROVE  SwitchTypeOK'
    <3>1. (IF shared THEN "ok" ELSE "stop") \in Ended \cup Active \cup {"queued", "retry"}
      BY DEF Ended, Active
    <3> QED BY <2>5, <3>1, MoveKeepsType DEF Begin, SwitchTypeOK, SeenIf, Troubles
  <2>6. ASSUME NEW t \in Task, StopOther(t)
        PROVE  SwitchTypeOK'
    <3>1. "start" \in Ended \cup Active \cup {"queued", "retry"}
      BY DEF Active
    <3>2. up' \in [Daemon -> BOOLEAN]
      BY <2>6 DEF StopOther, SwitchTypeOK
    <3>3. /\ seen' \in SUBSET Troubles
          /\ faults' \in 0..MaxFaults
      <4>1. CASE UNCHANGED <<seen, faults>>
        BY <4>1 DEF SwitchTypeOK
      <4>2. CASE Fault("docker") /\ SeenIf(up[Other(task[t].on)], "stopFailed")
        <5>1. faults' \in 0..MaxFaults
          BY <4>2 DEF Fault, SwitchTypeOK
        <5>2. seen' = seen \/ seen' = seen \cup {"stopFailed"}
          BY <4>2 DEF SeenIf
        <5> QED BY <5>1, <5>2 DEF SwitchTypeOK, Troubles
      <4> QED BY <2>6, <4>1, <4>2 DEF StopOther
    <3> QED BY <2>6, <3>1, <3>2, <3>3, MoveKeepsType DEF StopOther, SwitchTypeOK
  <2>7. ASSUME NEW t \in Task, StartTarget(t)
        PROVE  SwitchTypeOK'
    <3>1. "wait" \in Ended \cup Active \cup {"queued", "retry"}
      BY DEF Active
    <3>2. up' \in [Daemon -> BOOLEAN]
      BY <2>7 DEF StartTarget, SwitchTypeOK
    <3>3. faults' \in 0..MaxFaults
      BY <2>7 DEF StartTarget, SwitchTypeOK, Fault
    <3>4. task' \in [Task -> [st : Ended \cup Active \cup {"queued", "retry"},
                              on : BOOLEAN, tries : 0..MaxRetries - 1]]
      BY <2>7, <3>1, MoveKeepsType, FailsKeepsType DEF StartTarget
    <3> QED BY <2>7, <3>2, <3>3, <3>4 DEF StartTarget, SwitchTypeOK
  <2>8. ASSUME NEW t \in Task, WaitForDaemon(t)
        PROVE  SwitchTypeOK'
    <3>1. "ok" \in Ended \cup Active \cup {"queued", "retry"}
      BY DEF Ended
    <3> QED BY <2>8, <3>1, MoveKeepsType, FailsKeepsType
            DEF WaitForDaemon, SwitchTypeOK, Fault
  <2>9. ASSUME NEW t \in Task, CountdownEnds(t)
        PROVE  SwitchTypeOK'
    <3>1. "queued" \in Ended \cup Active \cup {"queued", "retry"}
      OBVIOUS
    <3> QED BY <2>9, <3>1, MoveKeepsType DEF CountdownEnds, SwitchTypeOK
  <2>10. ASSUME NEW t \in Task, WorkerDies(t)
         PROVE  SwitchTypeOK'
    <3>1. {"queued", "error"} \subseteq Ended \cup Active \cup {"queued", "retry"}
      BY DEF Ended
    <3> QED BY <2>10, <3>1, MoveKeepsType DEF WorkerDies, SwitchTypeOK, Fault
  <2>11. CASE UNCHANGED switchVars
    BY <2>11 DEF switchVars, SwitchTypeOK
  <2> QED
    BY <2>1, <2>2, <2>3, <2>4, <2>5, <2>6, <2>7, <2>8, <2>9, <2>10, <2>11
    DEF Next, Run
<1> QED BY <1>1, <1>2, PTL DEF Spec

-----------------------------------------------------------------------------
(* A card without a daemon has a task that has yet to start one: the task   *)
(* that stopped the last one is at its start step, or will be run again.    *)
WillLight == {"queued", "retry", "stop", "start", "error"}
Lit ==
    /\ shared => /\ up["chat"]
                 /\ \A t \in Task : task[t].st \in {"none", "queued", "ok"}
    /\ \/ \E d \in Daemon : up[d]
       \/ \E t \in Task : task[t].st \in WillLight

(* While no switch has overlapped another and no stop has failed, at most   *)
(* one task is at work, and from its stop on the other daemon is down.      *)
Sole ==
    /\ "overlap" \notin seen => \A t, u \in ActiveTasks : t = u
    /\ seen \cap {"overlap", "stopFailed"} = {} =>
          /\ ~(up["chat"] /\ up["code"])
          /\ \A t \in Task : task[t].st = "start" => ~up[Other(task[t].on)]

LEMMA LitInductive ==
    ASSUME SwitchTypeOK, Lit, [Next]_switchVars
    PROVE  Lit'
<1>1. ASSUME NEW r \in Rpc, NEW c \in Conv, NEW on \in BOOLEAN, Toggle(r, c, on)
      PROVE  Lit'
  BY <1>1 DEF Toggle, Lit
<1>2. ASSUME NEW r \in Rpc, EnqueueSwitch(r)
      PROVE  Lit'
  <2>1. CASE UNCHANGED task
    BY <1>2, <2>1 DEF EnqueueSwitch, Lit
  <2>2. ASSUME NEW t \in Unused,
               task' = [task EXCEPT ![t] = [st |-> "queued", on |-> rpc[r].on,
                                            tries |-> 0]]
        PROVE  Lit'
    <3>1. /\ t \in Task
          /\ task'[t].st = "queued"
          /\ \A u \in Task \ {t} : task'[u] = task[u]
      BY <2>2 DEF Unused, SwitchTypeOK
    <3> QED BY <1>2, <3>1 DEF EnqueueSwitch, Lit, WillLight
  <2> QED BY <1>2, <2>1, <2>2 DEF EnqueueSwitch
<1>3. ASSUME NEW m \in MoodWriter, (\E c \in Conv : MoodRead(m, c)) \/ MoodWrite(m)
      PROVE  Lit'
  BY <1>3 DEF MoodRead, MoodWrite, Lit
<1>4. ASSUME NEW t \in Task, Begin(t)
      PROVE  Lit'
  <2>1. /\ \A u \in Task \ {t} : task'[u] = task[u]
        /\ task'[t].st = IF shared THEN "ok" ELSE "stop"
    <3>1. (IF shared THEN "ok" ELSE "stop") \in Ended \cup Active \cup {"queued", "retry"}
      BY DEF Ended, Active
    <3> QED BY <1>4, <3>1, MoveKeepsType DEF Begin
  <2>2. CASE shared
    BY <1>4, <2>1, <2>2 DEF Begin, Lit, Daemon
  <2>3. CASE ~shared
    BY <1>4, <2>1, <2>3 DEF Begin, Lit, WillLight
  <2> QED BY <2>2, <2>3
<1>5. ASSUME NEW t \in Task, StopOther(t)
      PROVE  Lit'
  <2>1. /\ \A u \in Task \ {t} : task'[u] = task[u]
        /\ task'[t].st = "start"
    BY <1>5, MoveKeepsType DEF StopOther, Active
  <2>2. ~shared
    BY <1>5 DEF StopOther, Lit
  <2> QED BY <1>5, <2>1, <2>2 DEF StopOther, Lit, WillLight
<1>6. ASSUME NEW t \in Task, StartTarget(t)
      PROVE  Lit'
  <2>1. ~shared
    BY <1>6 DEF StartTarget, Lit
  <2>2. CASE up' = [up EXCEPT ![Target(task[t].on)] = TRUE]
    <3>1. Target(task[t].on) \in Daemon
      BY RolesDiffer DEF SwitchTypeOK
    <3> QED BY <1>6, <2>1, <2>2, <3>1 DEF StartTarget, Lit, SwitchTypeOK
  <2>3. CASE Fails(t) /\ UNCHANGED up
    <3>1. /\ \A u \in Task \ {t} : task'[u] = task[u]
          /\ task'[t].st \in {"retry", "error"}
      BY <2>3, FailsKeepsType
    <3> QED BY <1>6, <2>1, <2>3, <3>1 DEF StartTarget, Lit, WillLight
  <2> QED BY <1>6, <2>2, <2>3 DEF StartTarget
<1>7. ASSUME NEW t \in Task, WaitForDaemon(t)
      PROVE  Lit'
  <2>1. ~shared /\ task[t].st = "wait"
    BY <1>7 DEF WaitForDaemon, Lit
  <2>2. \A u \in Task \ {t} : task'[u] = task[u]
    BY <1>7, MoveKeepsType, FailsKeepsType DEF WaitForDaemon, Ended
  <2> QED BY <1>7, <2>1, <2>2 DEF WaitForDaemon, Lit, WillLight
<1>8. ASSUME NEW t \in Task, CountdownEnds(t) \/ WorkerDies(t)
      PROVE  Lit'
  <2>1. /\ \A u \in Task \ {t} : task'[u] = task[u]
        /\ task'[t].st \in {"queued", "error"}
    BY <1>8, MoveKeepsType DEF CountdownEnds, WorkerDies, Ended
  <2>2. ~shared
    BY <1>8 DEF CountdownEnds, WorkerDies, Active, Lit
  <2> QED BY <1>8, <2>1, <2>2 DEF CountdownEnds, WorkerDies, Lit, WillLight
<1>9. CASE UNCHANGED switchVars
  BY <1>9 DEF switchVars, Lit
<1> QED
  BY <1>1, <1>2, <1>3, <1>4, <1>5, <1>6, <1>7, <1>8, <1>9 DEF Next, Run

(* However switches race, overlap, are retried or redelivered: when every
   switch has ended and none gave up, some daemon runs. *)
THEOREM NeverDarkSafe == Spec => []NeverDark
<1>1. Init => Lit
  <2> SUFFICES ASSUME Init PROVE Lit
    OBVIOUS
  <2>1. up["chat"] /\ "chat" \in Daemon
    BY DEF Init, Daemon
  <2>2. \A t \in Task : task[t].st = "none"
    BY DEF Init
  <2> QED BY <2>1, <2>2 DEF Lit
<1>2. Lit => NeverDark
  BY DEF Lit, NeverDark, WillLight
<1> QED BY <1>1, <1>2, LitInductive, SwitchTypeCorrect, PTL DEF Spec

(* The state is well formed and the card has a daemon when all switches are
   done (set_code_mode, apply_code_mode). *)
THEOREM SwitchSoundSafe == Spec => []SwitchSound
BY SwitchTypeCorrect, NeverDarkSafe, PTL DEF SwitchSound

(* Sole is inductive: a second task that starts is an overlap, and only the
   task between its stop and its start relies on the other daemon's state. *)
LEMMA SoleInductive ==
    ASSUME SwitchTypeOK, Sole, [Next]_switchVars
    PROVE  Sole'
<1> DEFINE Clean == seen \cap {"overlap", "stopFailed"} = {}
<1>0. Clean => /\ \A t, u \in Task : task[t].st \in Active /\ task[u].st \in Active => t = u
               /\ ~(up["chat"] /\ up["code"])
               /\ \A t \in Task : task[t].st = "start" => ~up[Other(task[t].on)]
  BY DEF Sole, ActiveTasks
<1>a. "overlap" \notin seen =>
          \A t, u \in Task : task[t].st \in Active /\ task[u].st \in Active => t = u
  BY DEF Sole, ActiveTasks
<1>1. ASSUME UNCHANGED <<up, task>>, seen \subseteq seen'
      PROVE  Sole'
  BY <1>1, <1>0, <1>a DEF Sole, ActiveTasks
<1>2. ASSUME NEW t \in Task,
             task[t].st \in Active \/ task'[t].st \notin Active,
             \A u \in Task \ {t} : task'[u] = task[u],
             seen \subseteq seen'
      PROVE  "overlap" \notin seen' =>
                 \A u, v \in Task :
                     task'[u].st \in Active /\ task'[v].st \in Active => u = v
  BY <1>2, <1>a
<1>3. ASSUME NEW r \in Rpc, NEW c \in Conv, NEW on \in BOOLEAN, Toggle(r, c, on)
      PROVE  Sole'
  BY <1>1, <1>3 DEF Toggle, SeenIf
<1>4. ASSUME NEW r \in Rpc, EnqueueSwitch(r)
      PROVE  Sole'
  <2>1. seen \subseteq seen'
    BY <1>4 DEF EnqueueSwitch, SeenIf
  <2>2. CASE UNCHANGED task
    BY <1>4, <1>1, <2>1, <2>2 DEF EnqueueSwitch
  <2>3. ASSUME NEW t \in Unused,
               task' = [task EXCEPT ![t] = [st |-> "queued", on |-> rpc[r].on,
                                            tries |-> 0]]
        PROVE  Sole'
    <3>1. /\ t \in Task
          /\ task'[t].st = "queued"
          /\ \A u \in Task \ {t} : task'[u] = task[u]
      BY <2>3 DEF Unused, SwitchTypeOK
    <3>2. task'[t].st \notin Active
      BY <3>1 DEF Active
    <3>3. UNCHANGED up
      BY <1>4 DEF EnqueueSwitch
    <3> QED BY <1>0, <1>2, <2>1, <3>1, <3>2, <3>3 DEF Sole, ActiveTasks
  <2> QED BY <1>4, <2>2, <2>3 DEF EnqueueSwitch
<1>5. ASSUME NEW m \in MoodWriter, (\E c \in Conv : MoodRead(m, c)) \/ MoodWrite(m)
      PROVE  Sole'
  BY <1>5, <1>1 DEF MoodRead, MoodWrite, SeenIf
<1>6. ASSUME NEW t \in Task, Begin(t)
      PROVE  Sole'
  <2>1. /\ \A u \in Task \ {t} : task'[u] = task[u]
        /\ task'[t].st \in {"ok", "stop"}
    <3>1. (IF shared THEN "ok" ELSE "stop") \in Ended \cup Active \cup {"queued", "retry"}
      BY DEF Ended, Active
    <3> QED BY <1>6, <3>1, MoveKeepsType DEF Begin
  <2>2. seen \subseteq seen' /\ UNCHANGED up
    BY <1>6 DEF Begin, SeenIf
  <2>3. "overlap" \notin seen' => \A u \in Task : task[u].st \notin Active
    BY <1>6 DEF Begin, SeenIf, ActiveTasks
  <2> QED BY <1>0, <2>1, <2>2, <2>3 DEF Sole, ActiveTasks
<1>7. ASSUME NEW t \in Task, StopOther(t)
      PROVE  Sole'
  <2>1. /\ \A u \in Task \ {t} : task'[u] = task[u]
        /\ task'[t].st = "start"
        /\ task'[t].on = task[t].on
    BY <1>7, MoveKeepsType DEF StopOther, Active
  <2>2. task[t].st \in Active /\ task[t].on \in BOOLEAN
    BY <1>7 DEF StopOther, Active, SwitchTypeOK
  <2>3. seen \subseteq seen'
    BY <1>7 DEF StopOther, SeenIf
  <2>4. "overlap" \notin seen' =>
            \A u, v \in Task : task'[u].st \in Active /\ task'[v].st \in Active => u = v
    BY <1>2, <2>1, <2>2, <2>3
  <2>5. Clean' => ~up'[Other(task[t].on)]
    BY <1>7, <2>2, RolesDiffer DEF StopOther, SeenIf, SwitchTypeOK
  <2>6. ~(up["chat"] /\ up["code"]) => ~(up'["chat"] /\ up'["code"])
    BY <1>7 DEF StopOther, SwitchTypeOK, Daemon
  <2>7. ASSUME Clean', NEW u \in Task, task'[u].st = "start"
        PROVE  u = t
    BY <2>1, <2>4, <2>7 DEF Active
  <2> QED BY <1>0, <2>1, <2>3, <2>4, <2>5, <2>6, <2>7 DEF Sole, ActiveTasks
<1>8. ASSUME NEW t \in Task, StartTarget(t)
      PROVE  Sole'
  <2>1. /\ \A u \in Task \ {t} : task'[u] = task[u]
        /\ task'[t].st # "start"
    BY <1>8, MoveKeepsType, FailsKeepsType DEF StartTarget, Active
  <2>2. task[t].st = "start" /\ task[t].st \in Active /\ task[t].on \in BOOLEAN
    BY <1>8 DEF StartTarget, Active, SwitchTypeOK
  <2>3. UNCHANGED seen
    BY <1>8 DEF StartTarget
  <2>4. "overlap" \notin seen' =>
            \A u, v \in Task : task'[u].st \in Active /\ task'[v].st \in Active => u = v
    BY <1>2, <2>1, <2>2, <2>3
  <2>5. ASSUME Clean
        PROVE  ~(up'["chat"] /\ up'["code"])
    <3>1. ~up[Other(task[t].on)]
      BY <1>0, <2>2, <2>5
    <3>2. ~up'[Other(task[t].on)]
      BY <1>8, <2>2, <3>1, RolesDiffer DEF StartTarget, SwitchTypeOK
    <3>3. Other(task[t].on) \in {"chat", "code"}
      BY <2>2, RolesDiffer DEF Daemon
    <3> QED BY <3>2, <3>3
  <2>6. ASSUME Clean, NEW u \in Task, task'[u].st = "start"
        PROVE  FALSE
    <3>1. u # t /\ task[u].st = "start"
      BY <2>1, <2>6
    <3> QED BY <1>0, <2>2, <2>6, <3>1 DEF Active
  <2> QED BY <2>3, <2>4, <2>5, <2>6 DEF Sole, ActiveTasks
<1>9. ASSUME NEW t \in Task, WaitForDaemon(t) \/ CountdownEnds(t) \/ WorkerDies(t)
      PROVE  Sole'
  <2>1. /\ \A u \in Task \ {t} : task'[u] = task[u]
        /\ task'[t].st \notin Active
    BY <1>9, MoveKeepsType, FailsKeepsType
    DEF WaitForDaemon, CountdownEnds, WorkerDies, Ended, Active
  <2>2. UNCHANGED <<up, seen>>
    BY <1>9 DEF WaitForDaemon, CountdownEnds, WorkerDies
  <2>3. \A u \in Task : task'[u].st = "start" => u # t
    BY <2>1 DEF Active
  <2> QED BY <1>0, <1>2, <2>1, <2>2, <2>3 DEF Sole, ActiveTasks
<1>10. CASE UNCHANGED switchVars
  BY <1>1, <1>10 DEF switchVars
<1> QED
  BY <1>3, <1>4, <1>5, <1>6, <1>7, <1>8, <1>9, <1>10 DEF Next, Run

(* The card holds one model: without an overlap and a failed stop the two
   daemons never run together, whatever retries and crashes happen. *)
THEOREM OneDaemonSafe == Spec => []OneDaemon
<1>1. Init => Sole
  <2> SUFFICES ASSUME Init PROVE Sole
    OBVIOUS
  <2>1. ~up["code"]
    BY DEF Init, Daemon
  <2>2. \A t \in Task : task[t].st = "none"
    BY DEF Init
  <2>3. ActiveTasks = {}
    BY <2>2 DEF ActiveTasks, Active
  <2> QED BY <2>1, <2>2, <2>3 DEF Sole
<1>2. Sole => OneDaemon
  BY DEF Sole, OneDaemon
<1> QED BY <1>1, <1>2, SoleInductive, SwitchTypeCorrect, PTL DEF Spec

-----------------------------------------------------------------------------
(* As long as nothing has gone wrong and the daemons are two, the last toggle has
   the last word: it is the only thing under way, as a toggle that still has to be
   enqueued or as one task that carries its mode, and when it has gone through,
   the daemons are the ones it asked for. *)
Quiet == seen = {} /\ ~shared

LastWord ==
    Quiet =>
        /\ \A r \in Rpc : rpc[r].pc = "enqueue" =>
              /\ rpc[r].on = last.on /\ last.conv # NoConv
              /\ \A q \in Rpc : rpc[q].pc = "enqueue" => q = r
              /\ \A t \in Task : task[t].st \in Ended
        /\ \A t \in Task : task[t].st \notin Ended =>
              /\ task[t].on = last.on /\ last.conv # NoConv
              /\ \A u \in Task : task[u].st \notin Ended => u = t
        /\ last.conv # NoConv => mode[last.conv] = last.on
        /\ \A t \in Task : task[t].st \in {"start", "wait"} => ~up[Other(task[t].on)]
        /\ Settled /\ last.conv # NoConv /\ (\A t \in Task : task[t].st # "error")
              => up[Target(last.on)] /\ ~up[Other(last.on)]

(* What is left to show of the step of a task: the daemons. *)
LEMMA TaskMoves ==
    ASSUME SwitchTypeOK, LastWord, NEW t \in Task,
           task[t].st \notin Ended,
           \A u \in Task \ {t} : task'[u] = task[u],
           task'[t].on = task[t].on,
           UNCHANGED <<shared, mode, rpc, last>>,
           seen \subseteq seen',
           Quiet' /\ task'[t].st \in {"start", "wait"} => ~up'[Other(task[t].on)],
           Quiet' /\ task'[t].st \in {"none", "ok"}
               => up'[Target(task[t].on)] /\ ~up'[Other(task[t].on)]
    PROVE  LastWord'
<1> SUFFICES ASSUME Quiet' PROVE LastWord'
  BY DEF LastWord
<1>1. Quiet
  BY DEF Quiet
<1>2. /\ task[t].on = last.on /\ last.conv # NoConv
      /\ \A u \in Task : task[u].st \notin Ended => u = t
      /\ \A r \in Rpc : rpc[r].pc # "enqueue"
      /\ mode[last.conv] = last.on
  BY <1>1 DEF LastWord
<1>3. \A u \in Task \ {t} : task'[u].st \in Ended
  BY <1>2
<1>4. \A u \in Task : task'[u].st \in {"start", "wait"} => u = t
  BY <1>3 DEF Ended
<1>5. \A u \in Task : task'[u].st \in {"start", "wait"} => ~up'[Other(task'[u].on)]
  BY <1>4
<1>6. ASSUME Settled', \A u \in Task : task'[u].st # "error"
      PROVE  up'[Target(last'.on)] /\ ~up'[Other(last'.on)]
  <2>1. task'[t].st \in Ended
    BY <1>6 DEF Settled, Pending
  <2> QED BY <2>1, <1>2, <1>6 DEF Ended
<1> QED BY <1>2, <1>3, <1>5, <1>6 DEF LastWord

LEMMA LastWordInductive ==
    ASSUME SwitchTypeOK, LastWord, [Next]_switchVars
    PROVE  LastWord'
<1>1. ASSUME NEW r \in Rpc, NEW c \in Conv, NEW on \in BOOLEAN, Toggle(r, c, on)
      PROVE  LastWord'
  <2> SUFFICES ASSUME Quiet' PROVE LastWord'
    BY DEF LastWord
  <2>1. /\ \A q \in Rpc : rpc[q].pc # "enqueue"
        /\ \A t \in Task : task[t].st \in Ended
    BY <1>1 DEF Toggle, SeenIf, Quiet, Enqueuing, Pending
  <2>2. /\ last'.conv = c /\ last'.on = on /\ c # NoConv
        /\ mode'[c] = on
        /\ UNCHANGED <<task, up>>
    BY <1>1, SwitchAssumption DEF Toggle, SwitchTypeOK
  <2>3. /\ rpc'[r].pc = "enqueue" /\ rpc'[r].on = on
        /\ \A q \in Rpc : rpc'[q].pc = "enqueue" => q = r
    BY <1>1, <2>1 DEF Toggle, SwitchTypeOK
  <2>4. ~Settled'
    BY <2>3 DEF Settled, Enqueuing
  <2>5. \A t \in Task : task'[t].st \notin {"start", "wait"}
    BY <2>1, <2>2 DEF Ended
  <2> QED BY <2>1, <2>2, <2>3, <2>4, <2>5 DEF LastWord
<1>2. ASSUME NEW r \in Rpc, EnqueueSwitch(r)
      PROVE  LastWord'
  <2> SUFFICES ASSUME Quiet' PROVE LastWord'
    BY DEF LastWord
  <2>1. UNCHANGED <<shared, up, mode, last, seen>>
    BY <1>2 DEF EnqueueSwitch, SeenIf, Quiet
  <2>2. /\ rpc[r].on = last.on /\ last.conv # NoConv
        /\ mode[last.conv] = last.on
        /\ \A q \in Rpc : rpc[q].pc = "enqueue" => q = r
        /\ \A t \in Task : task[t].st \in Ended
    BY <1>2, <2>1 DEF LastWord, Quiet, EnqueueSwitch
  <2>3. \A q \in Rpc : rpc'[q].pc # "enqueue"
    BY <1>2, <2>2 DEF EnqueueSwitch, SwitchTypeOK
  <2>4. PICK t \in Task : task' = [task EXCEPT ![t] = [st |-> "queued", on |-> rpc[r].on,
                                                       tries |-> 0]]
    BY <1>2, <2>1 DEF EnqueueSwitch, SeenIf, Quiet, Unused
  <2>5. /\ task'[t].st = "queued" /\ task'[t].on = last.on
        /\ \A u \in Task \ {t} : task'[u] = task[u]
    BY <2>2, <2>4 DEF SwitchTypeOK
  <2>6. \A u \in Task : task'[u].st \notin Ended => u = t
    BY <2>2, <2>5
  <2>7. ~Settled'
    BY <2>5 DEF Settled, Pending, Ended
  <2>8. \A u \in Task : task'[u].st \notin {"start", "wait"}
    BY <2>2, <2>5 DEF Ended
  <2> QED BY <2>1, <2>2, <2>3, <2>5, <2>6, <2>7, <2>8 DEF LastWord
<1>3. ASSUME UNCHANGED <<shared, up, rpc, task, last>>, seen \subseteq seen',
             Quiet' => UNCHANGED mode
      PROVE  LastWord'
  BY <1>3 DEF LastWord, Quiet, Settled, Pending, Enqueuing
<1>4. ASSUME NEW m \in MoodWriter, NEW c \in Conv, MoodRead(m, c)
      PROVE  LastWord'
  BY <1>3, <1>4 DEF MoodRead
<1>5. ASSUME NEW m \in MoodWriter, MoodWrite(m)
      PROVE  LastWord'
  <2>1. UNCHANGED <<shared, up, rpc, task, last>> /\ seen \subseteq seen'
    BY <1>5 DEF MoodWrite, SeenIf
  <2>2. Quiet' => mode[mood[m].conv] = mood[m].on
    BY <1>5 DEF MoodWrite, SeenIf, Quiet
  <2>3. Quiet' => UNCHANGED mode
    BY <1>5, <2>2 DEF MoodWrite, SwitchTypeOK
  <2> QED BY <1>3, <2>1, <2>3
<1>6. ASSUME NEW t \in Task, Begin(t)
      PROVE  LastWord'
  <2> DEFINE next == IF shared THEN "ok" ELSE "stop"
  <2>1. next \in Ended \cup Active \cup {"queued", "retry"}
    BY DEF Ended, Active
  <2>2. /\ \A u \in Task \ {t} : task'[u] = task[u]
        /\ task'[t].st = next
        /\ task'[t].on = task[t].on
    BY <1>6, <2>1, MoveKeepsType DEF Begin
  <2>3. Quiet' => task'[t].st = "stop"
    BY <1>6, <2>2 DEF Begin, Quiet
  <2>4. task[t].st \notin Ended
    BY <1>6 DEF Begin, Ended
  <2>5. UNCHANGED <<shared, mode, rpc, last>> /\ seen \subseteq seen'
    BY <1>6 DEF Begin, SeenIf
  <2> QED BY <2>2, <2>3, <2>4, <2>5, TaskMoves
<1>7. ASSUME NEW t \in Task, StopOther(t)
      PROVE  LastWord'
  <2>1. /\ \A u \in Task \ {t} : task'[u] = task[u]
        /\ task'[t].st = "start"
        /\ task'[t].on = task[t].on
    BY <1>7, MoveKeepsType DEF StopOther, Active
  <2>2. task[t].st \notin Ended /\ task[t].on \in BOOLEAN
    BY <1>7 DEF StopOther, Ended, SwitchTypeOK
  <2>3. UNCHANGED <<shared, mode, rpc, last>> /\ seen \subseteq seen'
    BY <1>7 DEF StopOther, SeenIf
  <2>4. Quiet' => ~up'[Other(task[t].on)]
    BY <1>7, <2>2, RolesDiffer DEF StopOther, SeenIf, SwitchTypeOK, Quiet
  <2> QED BY <2>1, <2>2, <2>3, <2>4, TaskMoves
<1>8. ASSUME NEW t \in Task, StartTarget(t)
      PROVE  LastWord'
  <2>1. /\ \A u \in Task \ {t} : task'[u] = task[u]
        /\ task'[t].st \in {"wait", "retry", "error"}
        /\ task'[t].on = task[t].on
    BY <1>8, MoveKeepsType, FailsKeepsType DEF StartTarget, Active
  <2>2. task[t].st \notin Ended /\ task[t].on \in BOOLEAN
    BY <1>8 DEF StartTarget, Ended, SwitchTypeOK
  <2>3. UNCHANGED <<shared, mode, rpc, last, seen>>
    BY <1>8 DEF StartTarget
  <2>4. Quiet => ~up[Other(task[t].on)]
    BY <1>8 DEF LastWord, StartTarget
  <2>5. Quiet' => ~up'[Other(task[t].on)]
    BY <1>8, <2>2, <2>3, <2>4, RolesDiffer DEF StartTarget, SwitchTypeOK, Quiet
  <2> QED BY <2>1, <2>2, <2>3, <2>5, TaskMoves
<1>9. ASSUME NEW t \in Task, WaitForDaemon(t)
      PROVE  LastWord'
  <2>1. /\ \A u \in Task \ {t} : task'[u] = task[u]
        /\ \/ task'[t].st = "ok" /\ up[Target(task[t].on)]
           \/ task'[t].st \in {"retry", "error"}
        /\ task'[t].on = task[t].on
    BY <1>9, MoveKeepsType, FailsKeepsType DEF WaitForDaemon, Ended
  <2>2. task[t].st \notin Ended
    BY <1>9 DEF WaitForDaemon, Ended
  <2>3. UNCHANGED <<shared, up, mode, rpc, last, seen>>
    BY <1>9 DEF WaitForDaemon
  <2>4. Quiet' => ~up'[Other(task[t].on)]
    BY <1>9, <2>3 DEF LastWord, WaitForDaemon, Quiet
  <2> QED BY <2>1, <2>2, <2>3, <2>4, TaskMoves
<1>10. ASSUME NEW t \in Task, CountdownEnds(t) \/ WorkerDies(t)
       PROVE  LastWord'
  <2>1. /\ \A u \in Task \ {t} : task'[u] = task[u]
        /\ task'[t].st \in {"queued", "error"}
        /\ task'[t].on = task[t].on
    BY <1>10, MoveKeepsType DEF CountdownEnds, WorkerDies, Ended
  <2>2. task[t].st \notin Ended
    BY <1>10 DEF CountdownEnds, WorkerDies, Ended, Active
  <2>3. UNCHANGED <<shared, mode, rpc, last, seen>>
    BY <1>10 DEF CountdownEnds, WorkerDies
  <2> QED BY <2>1, <2>2, <2>3, TaskMoves
<1>11. CASE UNCHANGED switchVars
  BY <1>3, <1>11 DEF switchVars
<1> QED
  BY <1>1, <1>2, <1>4, <1>5, <1>6, <1>7, <1>8, <1>9, <1>10, <1>11 DEF Next, Run

(* A toggle made while nothing else is under way is what the card and the database
   end up with, however often its task fails, is retried or delivered again, and
   whatever moods are written meanwhile without taking the flag back. *)
THEOREM AgreesAtRestSafe == Spec => []AgreesAtRest
<1>1. Init => LastWord
  <2> SUFFICES ASSUME Init PROVE LastWord
    OBVIOUS
  <2>1. /\ \A t \in Task : task[t].st = "none"
        /\ \A r \in Rpc : rpc[r].pc = "idle"
        /\ last.conv = NoConv
    BY DEF Init
  <2> QED BY <2>1 DEF LastWord, Ended
<1>2. LastWord => AgreesAtRest
  BY DEF LastWord, AgreesAtRest, Quiet
<1> QED BY <1>1, <1>2, LastWordInductive, SwitchTypeCorrect, PTL DEF Spec
=============================================================================
