----------------------- MODULE MailboxBackfillProofs -----------------------
(***************************************************************************)
(* MailboxBackfill for every number of executions, mailboxes, messages,    *)
(* syncs and faults, in three parts that build on one another: the mailbox *)
(* lock; the types and what the pages look like; what is stored and what   *)
(* the task promises (module Backfill).                                    *)
(***************************************************************************)
EXTENDS MailboxBackfill, SequenceTheorems, FiniteSetTheorems, TLAPS

(* Part 1.  The mailbox lock: who is behind it, and that nobody else works on
   the mailbox.  What is paged does not matter here, so the invariant types of an
   execution only its step and its task. *)

Steps == {"rest", "lock"} \cup Holding

(* The executions and the lock keys. *)
LockTypes ==
    /\ DOMAIN run = Run
    /\ \A r \in Run :
          /\ {"at", "task"} \subseteq DOMAIN run[r]
          /\ run[r].at \in Steps
          /\ IF run[r].at = "rest" THEN run[r].task = Free ELSE run[r].task \in Task
    /\ lock \in [Mailbox -> Task \cup {Free}]
    /\ holder \in [Mailbox -> Run \cup {NoRun}]

(* Until a lock lapses, an execution past the lock is the one that set it. *)
HoldersLock ==
    Safe({"lapse"}) =>
        \A r \in Run : run[r].at \in Holding =>
            holder[MailboxOf(r)] = r /\ lock[MailboxOf(r)] = run[r].task

(* Until one lapses or an execution dies, a lock that is set has such a holder. *)
LocksHolder ==
    Safe({"lapse", "crash"}) =>
        \A m \in Mailbox : lock[m] # Free =>
            /\ holder[m] \in Run
            /\ run[holder[m]].at \in Holding
            /\ run[holder[m]].task = lock[m]
            /\ lock[m][2] = m

LockInv == LockTypes /\ HoldersLock /\ LocksHolder

-----------------------------------------------------------------------------
(* What the steps do to executions and locks *)

(* Everybody but r is where it was. *)
OnlyMoves(r) == DOMAIN run' = DOMAIN run /\ \A s \in Run \ {r} : run'[s] = run[s]

(* r is past the lock and stays there. *)
Works(r) ==
    /\ OnlyMoves(r)
    /\ {"at", "task"} \subseteq DOMAIN run'[r]
    /\ run[r].at \in Holding /\ run'[r].at \in Holding
    /\ run'[r].task = run[r].task
    /\ lock' = lock /\ holder' = holder /\ happened' = happened

(* Locks and executions stay as they are. *)
Elsewhere == run' = run /\ lock' = lock /\ holder' = holder /\ happened \subseteq happened'

LEMMA TaskMailbox == \A t \in Task : t[2] \in Mailbox /\ t # Free
  BY BackfillAssumption DEF Task

LEMMA GoesWorks ==
    ASSUME LockTypes, NEW r \in Run, NEW step \in Holding,
           run[r].at \in Holding, Goes(r, step),
           lock' = lock, holder' = holder, happened' = happened
    PROVE  Works(r)
  BY DEF LockTypes, Goes, Works, OnlyMoves

LEMMA StepWorks ==
    ASSUME LockTypes, NEW r \in Run,
           \/ ReadCheckpoint(r) \/ ReportAlready(r) \/ EnsureRow(r) \/ ReadToken(r)
           \/ FetchPage(r) \/ CheckExisting(r) \/ InsertRows(r)
           \/ SaveCheckpoint(r) \/ ReportPage(r) \/ MarkComplete(r) \/ Abandon(r)
    PROVE  Works(r)
<1> USE DEF Holding, Paging, lockVars, faultVars
<1>1. CASE ReadCheckpoint(r)
  BY <1>1 DEF ReadCheckpoint, LockTypes, Works, OnlyMoves
<1>2. CASE ReportAlready(r)
  BY <1>2, GoesWorks DEF ReportAlready
<1>3. CASE EnsureRow(r)
  BY <1>3, GoesWorks DEF EnsureRow
<1>4. CASE ReadToken(r)
  BY <1>4, GoesWorks DEF ReadToken
<1>5. CASE FetchPage(r)
  BY <1>5 DEF FetchPage, LockTypes, Works, OnlyMoves
<1>6. CASE CheckExisting(r)
  BY <1>6 DEF CheckExisting, LockTypes, Works, OnlyMoves
<1>7. CASE InsertRows(r)
  BY <1>7, GoesWorks DEF InsertRows
<1>8. CASE SaveCheckpoint(r)
  BY <1>8 DEF SaveCheckpoint, LockTypes, Works, OnlyMoves
<1>9. CASE ReportPage(r)
  BY <1>9 DEF ReportPage, LockTypes, Works, OnlyMoves
<1>10. CASE MarkComplete(r)
  BY <1>10, GoesWorks DEF MarkComplete
<1>11. CASE Abandon(r)
  BY <1>11, GoesWorks DEF Abandon
<1> QED
  BY <1>1, <1>2, <1>3, <1>4, <1>5, <1>6, <1>7, <1>8, <1>9, <1>10, <1>11

LEMMA WorksKeeps ==
    ASSUME LockInv, NEW r \in Run, Works(r)
    PROVE  LockInv'
<1>1. LockTypes'
  BY DEF LockInv, LockTypes, Works, OnlyMoves, Steps, Holding, Paging
<1>2. \A s \in Run : /\ run'[s].task = run[s].task
                     /\ run'[s].at \in Holding <=> run[s].at \in Holding
  BY DEF Works, OnlyMoves
<1>3. lock' = lock /\ holder' = holder /\ happened' = happened
  BY DEF Works
<1>4. HoldersLock'
  BY <1>2, <1>3 DEF LockInv, HoldersLock, Safe, MailboxOf
<1>5. LocksHolder'
  BY <1>2, <1>3 DEF LockInv, LocksHolder, Safe
<1> QED
  BY <1>1, <1>4, <1>5 DEF LockInv

LEMMA ElsewhereKeeps ==
    ASSUME LockInv, Elsewhere
    PROVE  LockInv'
<1>1. LockTypes'
  BY DEF LockInv, LockTypes, Elsewhere
<1>2. HoldersLock'
  BY DEF LockInv, HoldersLock, Elsewhere, Safe, MailboxOf
<1>3. LocksHolder'
  BY DEF LockInv, LocksHolder, Elsewhere, Safe
<1> QED
  BY <1>1, <1>2, <1>3 DEF LockInv

-----------------------------------------------------------------------------
(* The steps that do touch the lock, or who works *)

LEMMA TakeKeeps ==
    ASSUME LockInv, NEW r \in Run, NEW t \in Task, Take(r, t)
    PROVE  LockInv'
<1>1. OnlyMoves(r) /\ {"at", "task"} \subseteq DOMAIN run'[r]
      /\ run[r].at = "rest" /\ run'[r].at = "lock" /\ run'[r].task = t
  BY DEF LockInv, LockTypes, OnlyMoves, Take
<1>2. lock' = lock /\ holder' = holder /\ happened' = happened
  BY DEF Take, lockVars, faultVars
<1>3. \A s \in Run : /\ run'[s].at \in Holding <=> run[s].at \in Holding
                     /\ run[s].at \in Holding => run'[s] = run[s]
  BY <1>1 DEF OnlyMoves, Holding, Paging
<1>4. LockTypes'
  BY <1>1, <1>2 DEF LockInv, LockTypes, OnlyMoves, Steps
<1>5. HoldersLock'
  BY <1>2, <1>3 DEF LockInv, HoldersLock, Safe, MailboxOf
<1>6. LocksHolder'
  BY <1>2, <1>3 DEF LockInv, LocksHolder, Safe
<1> QED
  BY <1>4, <1>5, <1>6 DEF LockInv

(* SET NX: nobody was past this lock, so the new holder is alone. *)
LEMMA AcquireKeeps ==
    ASSUME LockInv, NEW r \in Run, Acquire(r)
    PROVE  LockInv'
<1> DEFINE m == MailboxOf(r)
<1>1. run[r].task \in Task /\ m \in Mailbox /\ m = run[r].task[2]
  BY TaskMailbox DEF LockInv, LockTypes, Acquire, MailboxOf
<1>2. OnlyMoves(r) /\ {"at", "task"} \subseteq DOMAIN run'[r]
      /\ run'[r].at = "read" /\ run'[r].task = run[r].task
  BY DEF LockInv, LockTypes, OnlyMoves, Acquire, Goes
<1>3. /\ lock[m] = Free
      /\ lock' = [lock EXCEPT ![m] = run[r].task]
      /\ holder' = [holder EXCEPT ![m] = r]
      /\ happened' = happened
  BY DEF Acquire, faultVars
<1>4. LockTypes'
  BY <1>1, <1>2, <1>3 DEF LockInv, LockTypes, OnlyMoves, Steps, Holding, Paging
<1>5. HoldersLock'
  <2> SUFFICES ASSUME Safe({"lapse"}), NEW s \in Run, run'[s].at \in Holding
               PROVE  holder'[run'[s].task[2]] = s /\ lock'[run'[s].task[2]] = run'[s].task
    BY <1>3 DEF HoldersLock, Safe, MailboxOf
  <2>1. CASE s = r
    BY <2>1, <1>1, <1>2, <1>3 DEF LockInv, LockTypes
  <2>2. CASE s # r
    <3>1. run'[s] = run[s] /\ run[s].task \in Task
      BY <2>2, <1>2 DEF OnlyMoves, LockInv, LockTypes, Holding, Paging
    <3>2. holder[run[s].task[2]] = s /\ lock[run[s].task[2]] = run[s].task
      BY <3>1 DEF LockInv, HoldersLock, MailboxOf
    <3>3. run[s].task[2] # m
      BY <3>1, <3>2, <1>3, TaskMailbox
    <3> QED
      BY <3>1, <3>2, <3>3, <1>3 DEF LockInv, LockTypes
  <2> QED
    BY <2>1, <2>2
<1>6. LocksHolder'
  <2> SUFFICES ASSUME Safe({"lapse", "crash"}), NEW n \in Mailbox, lock'[n] # Free
               PROVE  /\ holder'[n] \in Run
                      /\ run'[holder'[n]].at \in Holding
                      /\ run'[holder'[n]].task = lock'[n]
                      /\ lock'[n][2] = n
    BY <1>3 DEF LocksHolder, Safe
  <2>1. CASE n = m
    BY <2>1, <1>1, <1>2, <1>3 DEF LockInv, LockTypes, Holding
  <2>2. CASE n # m
    <3>1. lock'[n] = lock[n] /\ holder'[n] = holder[n]
      BY <2>2, <1>3 DEF LockInv, LockTypes
    <3>2. /\ holder[n] \in Run /\ run[holder[n]].at \in Holding
          /\ run[holder[n]].task = lock[n] /\ lock[n][2] = n
      BY <3>1 DEF LockInv, LocksHolder
    <3>3. holder[n] # r
      BY <3>2 DEF Acquire, Holding, Paging
    <3> QED
      BY <3>1, <3>2, <3>3, <1>2 DEF OnlyMoves
  <2> QED
    BY <2>1, <2>2
<1> QED
  BY <1>4, <1>5, <1>6 DEF LockInv

(* An execution that is done is at rest, the others go on. *)
LEMMA Leaves ==
    ASSUME LockInv, NEW r \in Run, run' = [run EXCEPT ![r] = Resting]
    PROVE  /\ OnlyMoves(r)
           /\ {"at", "task"} \subseteq DOMAIN run'[r]
           /\ run'[r].at = "rest" /\ run'[r].task = Free
           /\ \A s \in Run : run'[s].at \in Holding =>
                 s # r /\ run'[s] = run[s]
<1>1. OnlyMoves(r) /\ run'[r] = Resting
  BY DEF LockInv, LockTypes, OnlyMoves
<1>2. {"at", "task"} \subseteq DOMAIN Resting /\ Resting.at = "rest" /\ Resting.task = Free
  BY DEF Resting
<1>3. "rest" \notin Holding
  BY DEF Holding, Paging
<1> QED
  BY <1>1, <1>2, <1>3 DEF OnlyMoves

LEMMA SkipKeeps ==
    ASSUME LockInv, NEW r \in Run, SkipDuplicate(r)
    PROVE  LockInv'
<1>1. /\ run[r].at = "lock" /\ run' = [run EXCEPT ![r] = Resting]
      /\ lock' = lock /\ holder' = holder /\ happened' = happened
  BY DEF SkipDuplicate, lockVars, faultVars
<1>2. LockTypes'
  BY <1>1, Leaves DEF LockInv, LockTypes, OnlyMoves, Steps
<1>3. HoldersLock'
  <2> SUFFICES ASSUME Safe({"lapse"}), NEW s \in Run, run'[s].at \in Holding
               PROVE  holder'[run'[s].task[2]] = s /\ lock'[run'[s].task[2]] = run'[s].task
    BY <1>1 DEF HoldersLock, Safe, MailboxOf
  <2>1. run'[s] = run[s]
    BY <1>1, Leaves
  <2> QED
    BY <1>1, <2>1 DEF LockInv, HoldersLock, MailboxOf
<1>4. \A s \in Run : run[s].at \in Holding => run'[s] = run[s]
  BY <1>1, Leaves DEF OnlyMoves, Holding, Paging
<1>5. LocksHolder'
  BY <1>1, <1>4 DEF LockInv, LocksHolder, Safe
<1> QED
  BY <1>2, <1>3, <1>5 DEF LockInv

LEMMA CrashKeeps ==
    ASSUME LockInv, NEW r \in Run, WorkerDies(r)
    PROVE  LockInv'
<1>1. /\ run' = [run EXCEPT ![r] = Resting]
      /\ lock' = lock /\ holder' = holder /\ happened' = happened \cup {"crash"}
  BY DEF WorkerDies, Happens, lockVars
<1>2. LockTypes'
  BY <1>1, Leaves DEF LockInv, LockTypes, OnlyMoves, Steps
<1>3. HoldersLock'
  BY <1>1, Leaves DEF LockInv, HoldersLock, Safe, MailboxOf
<1>4. LocksHolder'
  BY <1>1 DEF LocksHolder, Safe
<1> QED
  BY <1>2, <1>3, <1>4 DEF LockInv

LEMMA LapseKeeps ==
    ASSUME LockInv, NEW m \in Mailbox, LockLapses(m)
    PROVE  LockInv'
<1>1. /\ lock' = [lock EXCEPT ![m] = Free] /\ holder' = [holder EXCEPT ![m] = NoRun]
      /\ run' = run /\ happened' = happened \cup {"lapse"}
  BY DEF LockLapses
<1>2. LockTypes'
  BY <1>1 DEF LockInv, LockTypes
<1>3. HoldersLock' /\ LocksHolder'
  BY <1>1 DEF HoldersLock, LocksHolder, Safe
<1> QED
  BY <1>2, <1>3 DEF LockInv

(* The token is that of the task, so a release gives back the lock of the mailbox;
   nobody else was past it. *)
LEMMA ReleaseKeeps ==
    ASSUME LockInv, NEW r \in Run, Release(r)
    PROVE  LockInv'
<1> DEFINE m == MailboxOf(r)
<1>1. /\ run[r].at = "release" /\ run[r].task \in Task /\ m \in Mailbox
      /\ m = run[r].task[2]
  BY TaskMailbox DEF LockInv, LockTypes, Release, MailboxOf
<1>2. /\ run' = [run EXCEPT ![r] = Resting] /\ happened' = happened
      /\ IF lock[m] = run[r].task
         THEN lock' = [lock EXCEPT ![m] = Free] /\ holder' = [holder EXCEPT ![m] = NoRun]
         ELSE lock' = lock /\ holder' = holder
  BY DEF Release, faultVars
<1>3. LockTypes'
  BY <1>1, <1>2, Leaves DEF LockInv, LockTypes, OnlyMoves, Steps
<1>4. HoldersLock'
  <2> SUFFICES ASSUME Safe({"lapse"}), NEW s \in Run, run'[s].at \in Holding
               PROVE  holder'[run'[s].task[2]] = s /\ lock'[run'[s].task[2]] = run'[s].task
    BY <1>2 DEF HoldersLock, Safe, MailboxOf
  <2>1. s # r /\ run'[s] = run[s]
    BY <1>2, Leaves
  <2>2. holder[run[s].task[2]] = s /\ lock[run[s].task[2]] = run[s].task
    BY <2>1 DEF LockInv, HoldersLock, MailboxOf
  <2>3. holder[m] = r
    BY <1>1 DEF LockInv, HoldersLock, Holding
  <2>4. run[s].task[2] # m
    BY <2>1, <2>2, <2>3
  <2>5. run[s].task \in Task /\ run[s].task[2] \in Mailbox
    BY <2>1, TaskMailbox DEF LockInv, LockTypes, Holding, Paging
  <2>6. lock'[run[s].task[2]] = lock[run[s].task[2]]
    BY <1>2, <2>4, <2>5 DEF LockInv, LockTypes
  <2>7. holder'[run[s].task[2]] = holder[run[s].task[2]]
    BY <1>2, <2>4, <2>5 DEF LockInv, LockTypes
  <2> QED
    BY <2>1, <2>2, <2>6, <2>7
<1>5. LocksHolder'
  <2> SUFFICES ASSUME Safe({"lapse", "crash"}), NEW n \in Mailbox, lock'[n] # Free
               PROVE  /\ holder'[n] \in Run
                      /\ run'[holder'[n]].at \in Holding
                      /\ run'[holder'[n]].task = lock'[n]
                      /\ lock'[n][2] = n
    BY <1>2 DEF LocksHolder, Safe
  <2>1. holder[m] = r /\ lock[m] = run[r].task
    BY <1>1 DEF LockInv, HoldersLock, Holding, Safe
  <2>2. n # m /\ lock'[n] = lock[n] /\ holder'[n] = holder[n]
    BY <2>1, <1>1, <1>2 DEF LockInv, LockTypes
  <2>3. /\ holder[n] \in Run /\ run[holder[n]].at \in Holding
        /\ run[holder[n]].task = lock[n] /\ lock[n][2] = n
    BY <2>2 DEF LockInv, LocksHolder
  <2>4. holder[n] # r
    BY <2>2, <2>3, <1>1
  <2> QED
    BY <1>2, <2>2, <2>3, <2>4, Leaves DEF OnlyMoves
<1> QED
  BY <1>3, <1>4, <1>5 DEF LockInv

-----------------------------------------------------------------------------
(* The invariant *)

LEMMA LockInit == MailboxInit => LockInv
<1> SUFFICES ASSUME MailboxInit PROVE LockInv
  OBVIOUS
<1>1. \A r \in Run : run[r].at = "rest" /\ run[r].task = Free
                     /\ {"at", "task"} \subseteq DOMAIN run[r]
  BY DEF MailboxInit, Resting
<1>2. LockTypes
  BY <1>1 DEF MailboxInit, LockTypes, Steps
<1>3. HoldersLock /\ LocksHolder
  BY <1>1 DEF MailboxInit, HoldersLock, LocksHolder, Holding, Paging
<1> QED
  BY <1>2, <1>3 DEF LockInv

LEMMA LockStep == LockInv /\ [MailboxNext]_mailboxVars => LockInv'
<1> SUFFICES ASSUME LockInv, [MailboxNext]_mailboxVars PROVE LockInv'
  OBVIOUS
<1>1. ASSUME NEW r \in Run, RunStep(r) PROVE LockInv'
  <2>1. ASSUME NEW t \in Task, Take(r, t) PROVE LockInv'
    BY <2>1, TakeKeeps
  <2>2. CASE Acquire(r)
    BY <2>2, AcquireKeeps
  <2>3. CASE SkipDuplicate(r)
    BY <2>3, SkipKeeps
  <2>4. CASE Release(r)
    BY <2>4, ReleaseKeeps
  <2>5. CASE \/ ReadCheckpoint(r) \/ ReportAlready(r) \/ EnsureRow(r) \/ ReadToken(r)
             \/ FetchPage(r) \/ CheckExisting(r) \/ InsertRows(r)
             \/ SaveCheckpoint(r) \/ ReportPage(r) \/ MarkComplete(r)
    BY <2>5, StepWorks, WorksKeeps DEF LockInv
  <2> QED
    BY <1>1, <2>1, <2>2, <2>3, <2>4, <2>5 DEF RunStep
<1>2. ASSUME NEW r \in Run, Abandon(r) PROVE LockInv'
  BY <1>2, StepWorks, WorksKeeps DEF LockInv
<1>3. ASSUME NEW r \in Run, WorkerDies(r) PROVE LockInv'
  BY <1>3, CrashKeeps
<1>4. ASSUME NEW m \in Mailbox, LockLapses(m) PROVE LockInv'
  BY <1>4, LapseKeeps
<1>5. CASE SyncStarts
  BY <1>5, ElsewhereKeeps DEF SyncStarts, Elsewhere, lockVars, faultVars
<1>6. ASSUME NEW r \in Run, Redelivered(r) PROVE LockInv'
  BY <1>6, ElsewhereKeeps DEF Redelivered, Happens, Elsewhere, lockVars
<1>7. ASSUME NEW m \in Mailbox, NEW msg \in Message, MailArrives(m, msg) PROVE LockInv'
  BY <1>7, ElsewhereKeeps DEF MailArrives, Elsewhere, lockVars
<1>8. CASE Disconnect
  BY <1>8, ElsewhereKeeps DEF Disconnect, Happens, Elsewhere, lockVars
<1>9. CASE UNCHANGED mailboxVars
  BY <1>9, ElsewhereKeeps DEF mailboxVars, Elsewhere
<1> QED
  BY <1>1, <1>2, <1>3, <1>4, <1>5, <1>6, <1>7, <1>8, <1>9 DEF MailboxNext, Environment

LEMMA LockInvariant == MailboxSpec => []LockInv
  BY LockInit, LockStep, PTL DEF MailboxSpec

(* Until a lock outlives its hour no two executions of _sync_one_mailbox work on
   one mailbox, however many copies of its task are delivered and whichever die. *)
THEOREM OneExecutionPerMailbox == MailboxSpec => []LockExclusive
<1>1. LockInv => LockExclusive
  BY DEF LockInv, HoldersLock, LockExclusive
<1> QED
  BY <1>1, LockInvariant, PTL

(* Without lapses and deaths a lock that is set belongs to an execution under way
   on that mailbox: every way out of _sync_one_mailbox gives it back. *)
THEOREM EveryLockHasHolder == MailboxSpec => []LockHasLiveHolder
<1>1. LockInv => LockHasLiveHolder
  BY DEF LockInv, LocksHolder, LockHasLiveHolder
<1> QED
  BY <1>1, LockInvariant, PTL

-----------------------------------------------------------------------------
(* Part 2.  The types, and the pages: no cursor and no execution passes the end of
   its mailbox, whatever mail arrives. *)

Due(m) == ToSet(Contents[m])

(* The stages between the query of a page and its rows; those at which the
   position counts. *)
Looking == {"check", "insert"}
Reading == {"ensure", "token"} \cup Paging

(* How far an execution is once the page in its hands is dealt with. *)
Reach(x) ==
    IF x.at \in Looking \cup {"save"} THEN x.position + Len(x.page) ELSE x.position

(* An execution never looks past the mailbox it pages. *)
RunShape(x, box) ==
    /\ x.at \in Reading => Reach(x) <= Len(box)
    /\ x.at \in Looking => ToSet(x.page) \subseteq ToSet(box)
    /\ x.at = "ensure" /\ ~x.row => x.position = 0

Shape ==
    /\ \A r \in Run : RunShape(run[r], listing[MailboxOf(r)])
    /\ \A m \in Mailbox :
          /\ checkpoint[m].status = "none" => checkpoint[m].position = 0
          /\ Due(m) \subseteq ToSet(listing[m])

TypeInv == MailboxTypeOK /\ Shape

-----------------------------------------------------------------------------
(* Sequences *)

LEMMA InSet ==
    ASSUME NEW S, NEW s \in Seq(S)
    PROVE  /\ ToSet(s) \subseteq S
           /\ \A x : x \in ToSet(s) <=> \E i \in 1..Len(s) : s[i] = x
<1>1. DOMAIN s = 1..Len(s) /\ \A i \in 1..Len(s) : s[i] \in S
  BY LenProperties
<1> QED
  BY <1>1 DEF ToSet

LEMMA Arrives ==
    ASSUME NEW box \in Seq(Message), NEW msg \in Message
    PROVE  /\ <<msg>> \o box \in Seq(Message)
           /\ Len(<<msg>> \o box) = Len(box) + 1
           /\ (<<msg>> \o box)[1] = msg
           /\ \A i \in 1..Len(box) : (<<msg>> \o box)[i + 1] = box[i]
           /\ ToSet(box) \subseteq ToSet(<<msg>> \o box)
<1>1. <<msg>> \in Seq(Message) /\ Len(<<msg>>) = 1 /\ <<msg>>[1] = msg /\ Len(box) \in Nat
  OBVIOUS
<1>2. /\ <<msg>> \o box \in Seq(Message)
      /\ Len(<<msg>> \o box) = Len(box) + 1
      /\ (<<msg>> \o box)[1] = msg
      /\ \A i \in 1..Len(box) : (<<msg>> \o box)[i + 1] = box[i]
  BY <1>1, ConcatProperties
<1>3. \A i \in 1..Len(box) : i + 1 \in 1..Len(<<msg>> \o box)
  BY <1>1, <1>2
<1>4. /\ \A x : x \in ToSet(box) <=> \E i \in 1..Len(box) : box[i] = x
      /\ \A x : x \in ToSet(<<msg>> \o box) <=>
                 \E i \in 1..Len(<<msg>> \o box) : (<<msg>> \o box)[i] = x
  BY <1>2, InSet
<1>5. ToSet(box) \subseteq ToSet(<<msg>> \o box)
  BY <1>2, <1>3, <1>4
<1> QED
  BY <1>2, <1>5

LEMMA Least ==
    ASSUME NEW a \in Int, NEW b \in Int
    PROVE  /\ Min({a, b}) \in {a, b}
           /\ Min({a, b}) <= a /\ Min({a, b}) <= b
<1>1. \E x \in {a, b} : \A y \in {a, b} : x <= y
  <2>1. CASE a <= b
    BY <2>1
  <2>2. CASE ~(a <= b)
    BY <2>2
  <2> QED
    BY <2>1, <2>2
<1> QED
  BY <1>1 DEF Min

(* What is listed from one position up to another. *)
LEMMA Part ==
    ASSUME NEW box, NEW first \in Int, NEW upto \in Int,
           \A i \in first..upto : box[i] \in Message
    PROVE  \E page \in Seq(Message) :
              /\ page = SubSeq(box, first, upto)
              /\ Len(page) = IF first <= upto THEN upto - first + 1 ELSE 0
              /\ \A i \in 1..(upto - first + 1) : page[i] = box[first + i - 1]
<1>1. /\ SubSeq(box, first, upto) \in Seq(Message)
      /\ Len(SubSeq(box, first, upto)) = IF first <= upto THEN upto - first + 1 ELSE 0
      /\ \A i \in 1..(upto - first + 1) : SubSeq(box, first, upto)[i] = box[first + i - 1]
  BY SubSeqProperties
<1> WITNESS SubSeq(box, first, upto) \in Seq(Message)
<1> QED
  BY <1>1, Zenon

(* A page is what follows the position, up to the end of the page or the box. *)
LEMMA PageOf ==
    ASSUME NEW box \in Seq(Message), NEW from \in Nat
    PROVE  \E upto \in Nat, page \in Seq(Message) :
              /\ upto = Min({from + BatchSize, Len(box)})
              /\ page = SubSeq(box, from + 1, upto)
              /\ ToSet(page) \subseteq ToSet(box)
              /\ from < Len(box) =>
                    /\ from + Len(page) = upto /\ upto <= Len(box)
                    /\ \A i \in 1..Len(box) : from < i /\ i <= upto => box[i] \in ToSet(page)
<1> DEFINE upto == Min({from + BatchSize, Len(box)})
<1>0. BatchSize \in Nat /\ BatchSize > 0 /\ Len(box) \in Nat
  BY BackfillAssumption
<1>1. /\ upto \in {from + BatchSize, Len(box)}
      /\ upto <= from + BatchSize /\ upto <= Len(box)
  <2>1. from + BatchSize \in Int /\ Len(box) \in Int
    BY <1>0
  <2> QED
    BY <2>1, Least
<1>2. /\ upto \in Nat /\ upto \in Int /\ (from < Len(box) => upto > from)
      /\ from + 1 \in Int
  BY <1>0, <1>1
<1> HIDE DEF upto
<1>3. \A i \in (from + 1)..upto : i \in 1..Len(box) /\ box[i] \in Message
  BY <1>0, <1>1, <1>2
<1>4. PICK page \in Seq(Message) :
              /\ page = SubSeq(box, from + 1, upto)
              /\ Len(page) = IF from + 1 <= upto THEN upto - (from + 1) + 1 ELSE 0
              /\ \A i \in 1..(upto - (from + 1) + 1) : page[i] = box[from + 1 + i - 1]
  BY <1>2, <1>3, Part, Zenon
<1>a. page = SubSeq(box, from + 1, upto)
  BY <1>4, Zenon
<1>b. /\ Len(page) = IF from + 1 <= upto THEN upto - (from + 1) + 1 ELSE 0
      /\ \A i \in 1..(upto - (from + 1) + 1) : page[i] = box[from + 1 + i - 1]
  BY <1>4, Zenon
<1>5. \A i \in 1..Len(page) : from + i \in 1..Len(box) /\ page[i] = box[from + i]
  BY <1>0, <1>1, <1>2, <1>b
<1>6. /\ \A x : x \in ToSet(box) <=> \E i \in 1..Len(box) : box[i] = x
      /\ \A x : x \in ToSet(page) <=> \E i \in 1..Len(page) : page[i] = x
  BY InSet
<1>7. ASSUME NEW i \in 1..Len(box), from < i, i <= upto PROVE box[i] \in ToSet(page)
  <2>1. i - from \in 1..Len(page) /\ from + (i - from) = i
    BY <1>0, <1>1, <1>2, <1>b, <1>7
  <2> QED
    BY <2>1, <1>5, <1>6
<1>8. ToSet(page) \subseteq ToSet(box)
  BY <1>5, <1>6
<1>9. from < Len(box) => from + Len(page) = upto /\ upto <= Len(box)
  BY <1>0, <1>1, <1>2, <1>b
<1> QED
  BY <1>2, <1>7, <1>8, <1>9, <1>a, Zenon DEF upto

-----------------------------------------------------------------------------
(* Types *)

RunState ==
    [at : {"rest", "lock"} \cup Holding, task : Task \cup {Free},
     position : Nat, processed : Nat, page : Seq(Message),
     known : SUBSET Message, count : Nat, row : BOOLEAN]

RunTypes ==
    /\ run \in [Run -> RunState]
    /\ \A r \in Run : (run[r].task = Free) <=> (run[r].at = "rest")

LockKeys ==
    /\ lock \in [Mailbox -> Task \cup {Free}]
    /\ holder \in [Mailbox -> Run \cup {NoRun}]
    /\ \A m \in Mailbox : (lock[m] = Free) <=> (holder[m] = NoRun)

DataTypes ==
    /\ checkpoint \in [Mailbox -> Row]
    /\ \A m \in Mailbox : checkpoint[m].position <= Len(listing[m])
    /\ rows \in [Message -> Nat]

OtherTypes ==
    /\ listing \in [Mailbox -> Seq(Message)]
    /\ syncs \in 0..MaxSyncs
    /\ queued \in [Task -> Nat]
    /\ current \in Nat /\ total \in [Mailbox -> Nat]
    /\ faults \in 0..MaxFaults
    /\ happened \subseteq Faults

LEMMA Types == MailboxTypeOK <=> RunTypes /\ LockKeys /\ DataTypes /\ OtherTypes
  BY DEF MailboxTypeOK, RunTypes, RunState, LockKeys, DataTypes, OtherTypes

LEMMA Placed ==
    ASSUME TypeInv, NEW r \in Run, run[r].at # "rest"
    PROVE  /\ run[r].task \in Task /\ MailboxOf(r) \in Mailbox
           /\ listing[MailboxOf(r)] \in Seq(Message)
           /\ Len(listing[MailboxOf(r)]) \in Nat
<1>1. run[r].task \in Task
  BY DEF TypeInv, MailboxTypeOK
<1>2. MailboxOf(r) \in Mailbox
  BY <1>1, TaskMailbox DEF MailboxOf
<1> QED
  BY <1>1, <1>2 DEF TypeInv, MailboxTypeOK

LEMMA RunsTyped == TypeInv /\ [MailboxNext]_mailboxVars => RunTypes'
<1> SUFFICES ASSUME TypeInv, [MailboxNext]_mailboxVars PROVE RunTypes'
  OBVIOUS
<1>0. RunTypes /\ LockKeys /\ DataTypes /\ OtherTypes /\ Shape
  BY Types DEF TypeInv
<1>a. Resting \in RunState /\ Resting.task = Free /\ Resting.at = "rest"
  <2>1. <<>> \in Seq(Message)
    OBVIOUS
  <2> QED
    BY <2>1 DEF Resting, RunState
<1>b. ASSUME NEW r \in Run, NEW x \in RunState, run' = [run EXCEPT ![r] = x],
             (x.task = Free) <=> (x.at = "rest")
      PROVE  RunTypes'
  BY <1>0, <1>b DEF RunTypes
<1>c. ASSUME NEW r \in Run, NEW step \in Holding, run[r].at # "rest", Goes(r, step)
      PROVE  RunTypes'
  <2> DEFINE x == [run[r] EXCEPT !.at = step]
  <2>1. x \in RunState /\ ((x.task = Free) <=> (x.at = "rest"))
    BY <1>0, <1>c DEF RunTypes, RunState, Holding, Paging
  <2>2. run' = [run EXCEPT ![r] = x]
    BY <1>c DEF Goes
  <2> QED
    BY <1>b, <2>1, <2>2
<1>1. ASSUME NEW r \in Run, NEW t \in Task, Take(r, t) PROVE RunTypes'
  <2>1. t # Free
    BY TaskMailbox
  <2> QED
    BY <1>0, <1>1, <2>1 DEF Take, RunTypes, RunState
<1>2. ASSUME NEW r \in Run, SkipDuplicate(r) \/ Release(r) \/ WorkerDies(r) PROVE RunTypes'
  <2>1. run' = [run EXCEPT ![r] = Resting]
    BY <1>2 DEF SkipDuplicate, Release, WorkerDies
  <2> QED
    BY <1>a, <1>b, <2>1
<1>3. ASSUME NEW r \in Run,
             \/ Acquire(r) \/ ReportAlready(r) \/ EnsureRow(r) \/ ReadToken(r)
             \/ InsertRows(r) \/ MarkComplete(r) \/ Abandon(r)
      PROVE  RunTypes'
  <2>1. run[r].at # "rest" /\ \E step \in Holding : Goes(r, step)
    BY <1>3 DEF Acquire, ReportAlready, EnsureRow, ReadToken, InsertRows, MarkComplete,
       Abandon, Holding, Paging
  <2> QED
    BY <1>c, <2>1
<1>4. ASSUME NEW r \in Run, ReadCheckpoint(r) PROVE RunTypes'
  <2> DEFINE cp == checkpoint[MailboxOf(r)]
             x == [run[r] EXCEPT !.at = IF cp.status = "completed" THEN "already" ELSE "ensure",
                                 !.row = cp.status # "none",
                                 !.position = cp.position, !.processed = cp.processed]
  <2>1. MailboxOf(r) \in Mailbox /\ run[r].at = "read"
    BY <1>4, Placed DEF ReadCheckpoint
  <2>2. cp \in Row
    BY <1>0, <2>1 DEF DataTypes
  <2>3. x \in RunState /\ ((x.task = Free) <=> (x.at = "rest"))
    <3> HIDE DEF cp
    <3> QED
      BY <1>0, <2>1, <2>2 DEF RunTypes, RunState, Row, Holding
  <2>4. run' = [run EXCEPT ![r] = x]
    BY <1>4 DEF ReadCheckpoint
  <2> QED
    BY <1>b, <2>3, <2>4
<1>5. ASSUME NEW r \in Run, FetchPage(r) PROVE RunTypes'
  <2>0. run[r].at = "page" /\ run[r].position \in Nat
    BY <1>0, <1>5 DEF FetchPage, RunTypes, RunState
  <2> DEFINE box == listing[MailboxOf(r)]
             from == run[r].position
  <2>1. box \in Seq(Message) /\ Len(box) \in Nat
    BY <2>0, Placed
  <2>2. PICK page \in Seq(Message) :
           page = SubSeq(box, from + 1, Min({from + BatchSize, Len(box)}))
    BY <2>0, <2>1, PageOf
  <2>3. run' = [run EXCEPT ![r].at = IF from < Len(box) THEN "check" ELSE "complete",
                           ![r].page = page, ![r].count = Len(box)]
    BY <1>5, <2>2, Zenon DEF FetchPage
  <2> DEFINE x == [run[r] EXCEPT !.at = IF from < Len(box) THEN "check" ELSE "complete",
                                 !.page = page, !.count = Len(box)]
  <2>4. run' = [run EXCEPT ![r] = x]
    BY <2>3
  <2> HIDE DEF box, from
  <2>5. x \in RunState /\ ((x.task = Free) <=> (x.at = "rest"))
    BY <1>0, <2>0, <2>1 DEF RunTypes, RunState, Holding, Paging
  <2> QED
    BY <1>b, <2>4, <2>5
<1>6. ASSUME NEW r \in Run, CheckExisting(r) PROVE RunTypes'
  <2> DEFINE x == [run[r] EXCEPT !.at = "insert", !.known = ToSet(run[r].page) \cap Stored]
  <2>1. Stored \subseteq Message /\ run[r].at = "check"
    BY <1>6 DEF Stored, CheckExisting
  <2>2. x \in RunState /\ ((x.task = Free) <=> (x.at = "rest"))
    BY <1>0, <2>1 DEF RunTypes, RunState, Holding, Paging
  <2>3. run' = [run EXCEPT ![r] = x]
    BY <1>6 DEF CheckExisting
  <2> QED
    BY <1>b, <2>2, <2>3
<1>7. ASSUME NEW r \in Run, SaveCheckpoint(r) PROVE RunTypes'
  <2> DEFINE x == [run[r] EXCEPT !.at = "report", !.position = @ + Len(run[r].page),
                                 !.processed = @ + Len(run[r].page), !.known = {}]
  <2>1. /\ run[r].position + Len(run[r].page) \in Nat
        /\ run[r].processed + Len(run[r].page) \in Nat /\ run[r].at = "save"
    <3>1. Len(run[r].page) \in Nat /\ run[r].position \in Nat /\ run[r].processed \in Nat
      BY <1>0 DEF RunTypes, RunState
    <3> QED
      BY <1>7, <3>1 DEF SaveCheckpoint
  <2>2. x \in RunState /\ ((x.task = Free) <=> (x.at = "rest"))
    BY <1>0, <2>1 DEF RunTypes, RunState, Holding, Paging
  <2>3. run' = [run EXCEPT ![r] = x]
    BY <1>7 DEF SaveCheckpoint
  <2> QED
    BY <1>b, <2>2, <2>3
<1>8. ASSUME NEW r \in Run, ReportPage(r) PROVE RunTypes'
  <2> DEFINE x == [run[r] EXCEPT !.at = IF run[r].position < run[r].count
                                         THEN "page" ELSE "complete",
                                 !.page = <<>>, !.count = 0]
  <2>1. <<>> \in Seq(Message) /\ run[r].at = "report"
    BY <1>8 DEF ReportPage
  <2>2. x \in RunState /\ ((x.task = Free) <=> (x.at = "rest"))
    BY <1>0, <2>1 DEF RunTypes, RunState, Holding, Paging
  <2>3. run' = [run EXCEPT ![r] = x]
    BY <1>8 DEF ReportPage
  <2> QED
    BY <1>b, <2>2, <2>3
<1>9. ASSUME run' = run PROVE RunTypes'
  BY <1>0, <1>9 DEF RunTypes
<1> QED
  BY <1>1, <1>2, <1>3, <1>4, <1>5, <1>6, <1>7, <1>8, <1>9
  DEF MailboxNext, RunStep, Environment, SyncStarts, Redelivered, LockLapses, MailArrives,
      Disconnect, mailboxVars

LEMMA LocksTyped == TypeInv /\ [MailboxNext]_mailboxVars => LockKeys'
<1> SUFFICES ASSUME TypeInv, [MailboxNext]_mailboxVars PROVE LockKeys'
  OBVIOUS
<1>0. LockKeys /\ RunTypes
  BY Types DEF TypeInv
<1>1. ASSUME NEW r \in Run, Acquire(r) PROVE LockKeys'
  <2>1. run[r].task \in Task /\ run[r].task # Free /\ r # NoRun
    BY <1>1, Placed, TaskMailbox, BackfillAssumption DEF Acquire
  <2> QED
    BY <1>0, <1>1, <2>1 DEF Acquire, LockKeys
<1>2. ASSUME NEW r \in Run, Release(r) PROVE LockKeys'
  BY <1>0, <1>2 DEF Release, LockKeys
<1>3. ASSUME NEW m \in Mailbox, LockLapses(m) PROVE LockKeys'
  BY <1>0, <1>3 DEF LockLapses, LockKeys
<1>4. ASSUME lock' = lock, holder' = holder PROVE LockKeys'
  BY <1>0, <1>4 DEF LockKeys
<1> QED
  BY <1>1, <1>2, <1>3, <1>4
  DEF MailboxNext, RunStep, Environment, lockVars, mailboxVars, Take, SkipDuplicate,
      ReadCheckpoint, ReportAlready, EnsureRow, ReadToken, Abandon, FetchPage, CheckExisting,
      InsertRows, SaveCheckpoint, ReportPage, MarkComplete, SyncStarts, Redelivered, WorkerDies,
      MailArrives, Disconnect

LEMMA DataTyped == TypeInv /\ [MailboxNext]_mailboxVars => DataTypes'
<1> SUFFICES ASSUME TypeInv, [MailboxNext]_mailboxVars PROVE DataTypes'
  OBVIOUS
<1>0. DataTypes /\ RunTypes /\ OtherTypes /\ Shape
  BY Types DEF TypeInv
<1>a. NoRow \in Row /\ NoRow.position = 0
  BY DEF NoRow, Row
<1>b. \A m \in Mailbox : Len(listing[m]) \in Nat
  BY <1>0 DEF OtherTypes
<1>c. ASSUME NEW m \in Mailbox, NEW x \in Row, checkpoint' = [checkpoint EXCEPT ![m] = x],
             x.position <= Len(listing[m]), listing' = listing, rows' = rows
      PROVE  DataTypes'
  BY <1>0, <1>c DEF DataTypes
<1>d. ASSUME checkpoint' = checkpoint, listing' = listing, rows' = rows PROVE DataTypes'
  BY <1>0, <1>d DEF DataTypes
<1>1. ASSUME NEW r \in Run, EnsureRow(r) PROVE DataTypes'
  <2> DEFINE cp == checkpoint[MailboxOf(r)]
             x == IF ~run[r].row THEN [NoRow EXCEPT !.status = "in_progress"]
                  ELSE IF cp.status # "none" THEN [cp EXCEPT !.status = "in_progress"] ELSE cp
  <2>1. MailboxOf(r) \in Mailbox
    BY <1>1, Placed DEF EnsureRow
  <2>2. cp \in Row /\ cp.position <= Len(listing[MailboxOf(r)])
    BY <1>0, <2>1 DEF DataTypes
  <2>3. x \in Row /\ x.position <= Len(listing[MailboxOf(r)])
    <3> HIDE DEF cp
    <3> QED
      BY <1>b, <2>1, <2>2 DEF Row, NoRow
  <2>4. checkpoint' = [checkpoint EXCEPT ![MailboxOf(r)] = x] /\ listing' = listing /\ rows' = rows
    BY <1>1 DEF EnsureRow, mailVars
  <2> QED
    BY <1>c, <2>1, <2>3, <2>4
<1>2. ASSUME NEW r \in Run, SaveCheckpoint(r) PROVE DataTypes'
  <2> DEFINE cp == checkpoint[MailboxOf(r)]
             position == run[r].position + Len(run[r].page)
             processed == run[r].processed + Len(run[r].page)
             x == IF cp.status = "none" THEN cp
                  ELSE [cp EXCEPT !.position = position, !.processed = processed]
  <2>1. MailboxOf(r) \in Mailbox
    BY <1>2, Placed DEF SaveCheckpoint
  <2>2. cp \in Row /\ cp.position <= Len(listing[MailboxOf(r)])
    BY <1>0, <2>1 DEF DataTypes
  <2>3. position \in Nat /\ processed \in Nat
    <3>1. Len(run[r].page) \in Nat /\ run[r].position \in Nat /\ run[r].processed \in Nat
      BY <1>0 DEF RunTypes, RunState
    <3> QED
      BY <3>1
  <2>4. position <= Len(listing[MailboxOf(r)])
    BY <1>0, <1>2 DEF Shape, RunShape, Reach, Reading, Looking, Paging, SaveCheckpoint
  <2>5. x \in Row /\ x.position <= Len(listing[MailboxOf(r)])
    <3> HIDE DEF cp, position, processed
    <3> QED
      BY <2>2, <2>3, <2>4 DEF Row
  <2>6. checkpoint' = [checkpoint EXCEPT ![MailboxOf(r)] = x] /\ listing' = listing /\ rows' = rows
    BY <1>2 DEF SaveCheckpoint, mailVars
  <2> QED
    BY <1>c, <2>1, <2>5, <2>6
<1>3. ASSUME NEW r \in Run, MarkComplete(r) PROVE DataTypes'
  <2> DEFINE cp == checkpoint[MailboxOf(r)]
             x == IF cp.status = "none" THEN cp
                  ELSE [cp EXCEPT !.status = "completed", !.processed = run[r].processed]
  <2>1. MailboxOf(r) \in Mailbox
    BY <1>3, Placed DEF MarkComplete
  <2>2. cp \in Row /\ cp.position <= Len(listing[MailboxOf(r)])
    BY <1>0, <2>1 DEF DataTypes
  <2>3. run[r].processed \in Nat
    BY <1>0 DEF RunTypes, RunState
  <2>4. x \in Row /\ x.position <= Len(listing[MailboxOf(r)])
    <3> HIDE DEF cp
    <3> QED
      BY <2>2, <2>3 DEF Row
  <2>5. checkpoint' = [checkpoint EXCEPT ![MailboxOf(r)] = x] /\ listing' = listing /\ rows' = rows
    BY <1>3 DEF MarkComplete, mailVars
  <2> QED
    BY <1>c, <2>1, <2>4, <2>5
<1>4. ASSUME NEW r \in Run, InsertRows(r) PROVE DataTypes'
  <2>1. checkpoint' = checkpoint /\ listing' = listing
    BY <1>4 DEF InsertRows, mailVars
  <2>2. rows' \in [Message -> Nat]
    BY <1>0, <1>4 DEF InsertRows, DataTypes
  <2> QED
    BY <1>0, <2>1, <2>2 DEF DataTypes
<1>5. ASSUME NEW m \in Mailbox, NEW msg \in Message, MailArrives(m, msg) PROVE DataTypes'
  <2>1. listing[m] \in Seq(Message)
    BY <1>0 DEF OtherTypes
  <2>2. Len(<<msg>> \o listing[m]) = Len(listing[m]) + 1
    BY <2>1, Arrives
  <2>3. listing' = [listing EXCEPT ![m] = <<msg>> \o @] /\ checkpoint' = checkpoint /\ rows' = rows
    BY <1>5 DEF MailArrives, dataVars
  <2>4. \A n \in Mailbox : Len(listing'[n]) >= Len(listing[n]) /\ Len(listing'[n]) \in Nat
    BY <1>0, <1>b, <2>2, <2>3 DEF OtherTypes
  <2>5. \A n \in Mailbox : checkpoint[n].position \in Nat
    BY <1>0 DEF DataTypes, Row
  <2> QED
    BY <1>0, <1>b, <2>3, <2>4, <2>5 DEF DataTypes
<1>6. ASSUME Disconnect PROVE DataTypes'
  <2>1. /\ listing' = listing /\ rows' = [msg \in Message |-> 0]
        /\ checkpoint' = [m \in Mailbox |-> NoRow]
    BY <1>6 DEF Disconnect, mailVars
  <2> QED
    BY <1>a, <1>b, <2>1 DEF DataTypes
<1> QED
  BY <1>d, <1>1, <1>2, <1>3, <1>4, <1>5, <1>6
  DEF MailboxNext, RunStep, Environment, dataVars, mailVars, mailboxVars, Take, Acquire, SkipDuplicate,
      ReadCheckpoint, ReportAlready, ReadToken, Abandon, FetchPage, CheckExisting,
      ReportPage, Release, SyncStarts, Redelivered, WorkerDies, LockLapses

LEMMA OthersTyped == TypeInv /\ [MailboxNext]_mailboxVars => OtherTypes'
<1> SUFFICES ASSUME TypeInv, [MailboxNext]_mailboxVars PROVE OtherTypes'
  OBVIOUS
<1>0. OtherTypes /\ RunTypes
  BY Types DEF TypeInv
<1>a. MaxSyncs \in Nat /\ MaxFaults \in Nat
  BY BackfillAssumption
<1>b. ASSUME NEW kind, Happens(kind) PROVE faults' \in 0..MaxFaults /\ happened' \subseteq Faults
  BY <1>0, <1>a, <1>b DEF Happens, OtherTypes
<1>1. ASSUME NEW r \in Run, NEW t \in Task, Take(r, t) PROVE OtherTypes'
  <2>1. queued' \in [Task -> Nat]
    BY <1>0, <1>1 DEF Take, OtherTypes
  <2> QED
    BY <1>0, <1>1, <2>1 DEF Take, OtherTypes, mailVars, countVars, faultVars
<1>2. ASSUME SyncStarts PROVE OtherTypes'
  <2>1. syncs' \in 0..MaxSyncs /\ queued' \in [Task -> Nat]
    BY <1>0, <1>2, <1>a DEF SyncStarts, OtherTypes
  <2>2. current' \in Nat /\ total' \in [Mailbox -> Nat]
    <3>1. \A m \in Mailbox : Len(listing[m]) \in Nat
      BY <1>0 DEF OtherTypes
    <3> QED
      BY <1>2, <3>1 DEF SyncStarts
  <2> QED
    BY <1>0, <1>2, <2>1, <2>2 DEF SyncStarts, OtherTypes, faultVars
<1>3. ASSUME NEW r \in Run, Redelivered(r) \/ WorkerDies(r) PROVE OtherTypes'
  <2>1. run[r].task \in Task
    BY <1>3, Placed DEF Redelivered, WorkerDies
  <2>2. queued' \in [Task -> Nat]
    <3>1. queued' = [queued EXCEPT ![run[r].task] = @ + 1] \/ queued' = queued
      BY <1>3 DEF Redelivered, WorkerDies
    <3>2. queued \in [Task -> Nat]
      BY <1>0 DEF OtherTypes
    <3>3. queued[run[r].task] + 1 \in Nat
      BY <2>1, <3>2
    <3> QED
      BY <3>1, <3>2, <3>3
  <2>3. faults' \in 0..MaxFaults /\ happened' \subseteq Faults
    BY <1>3, <1>b DEF Redelivered, WorkerDies
  <2> QED
    BY <1>0, <1>3, <2>2, <2>3 DEF Redelivered, WorkerDies, OtherTypes, mailVars, countVars
<1>4. ASSUME NEW r \in Run, ReportAlready(r) \/ ReportPage(r) PROVE OtherTypes'
  <2>1. run[r].processed \in Nat /\ Len(run[r].page) \in Nat
    BY <1>0 DEF RunTypes, RunState
  <2>2. current' \in Nat
    BY <1>0, <1>4, <2>1 DEF ReportAlready, ReportPage, OtherTypes
  <2> QED
    BY <1>0, <1>4, <2>2 DEF ReportAlready, ReportPage, OtherTypes, mailVars, faultVars
<1>5. ASSUME NEW m \in Mailbox, LockLapses(m) PROVE OtherTypes'
  BY <1>0, <1>5 DEF LockLapses, OtherTypes, mailVars, countVars
<1>6. ASSUME NEW m \in Mailbox, NEW msg \in Message, MailArrives(m, msg) PROVE OtherTypes'
  <2>1. listing[m] \in Seq(Message)
    BY <1>0 DEF OtherTypes
  <2>2. <<msg>> \o listing[m] \in Seq(Message)
    BY <2>1, Arrives
  <2>3. listing' \in [Mailbox -> Seq(Message)]
    BY <1>0, <1>6, <2>2 DEF MailArrives, OtherTypes
  <2> QED
    BY <1>0, <1>6, <2>3 DEF MailArrives, OtherTypes, countVars
<1>7. ASSUME Disconnect PROVE OtherTypes'
  <2>1. faults' \in 0..MaxFaults /\ happened' \subseteq Faults
    BY <1>7, <1>b DEF Disconnect
  <2> QED
    BY <1>0, <1>7, <2>1 DEF Disconnect, OtherTypes, mailVars, countVars
<1>8. ASSUME UNCHANGED <<listing, syncs, queued, countVars, faultVars>> PROVE OtherTypes'
  BY <1>0, <1>8 DEF OtherTypes, countVars, faultVars
<1> QED
  BY <1>1, <1>2, <1>3, <1>4, <1>5, <1>6, <1>7, <1>8
  DEF MailboxNext, RunStep, Environment, dataVars, mailVars, mailboxVars, faultVars, countVars,
      Acquire, SkipDuplicate, ReadCheckpoint, EnsureRow, ReadToken, Abandon, FetchPage,
      CheckExisting, InsertRows, SaveCheckpoint, MarkComplete, Release

(* The executions keep their shape as long as what they page stays listed. *)
LEMMA RunsShaped ==
    ASSUME TypeInv, [MailboxNext]_mailboxVars
    PROVE  \A r \in Run : RunShape(run'[r], listing'[run'[r].task[2]])
<1>0. RunTypes /\ DataTypes /\ OtherTypes /\ Shape
  BY Types DEF TypeInv
<1>a. \A r \in Run : RunShape(run[r], listing[run[r].task[2]])
  BY <1>0 DEF Shape, MailboxOf
<1> DEFINE Kept == \A r \in Run : RunShape(run'[r], listing'[run'[r].task[2]])
<1>b. ASSUME NEW r \in Run, NEW x, run' = [run EXCEPT ![r] = x], listing' = listing,
             RunShape(x, listing[x.task[2]])
      PROVE  Kept
  BY <1>0, <1>a, <1>b DEF RunTypes
<1>c. ASSUME NEW r \in Run, NEW x \in RunState, run' = [run EXCEPT ![r] = x], listing' = listing,
             x.at \notin Reading
      PROVE  Kept
  <2>1. RunShape(x, listing[x.task[2]])
    BY <1>c DEF RunShape, Reading, Paging, Looking
  <2> QED
    BY <1>b, <1>c, <2>1
<1> HIDE DEF Kept
<1>d. ASSUME NEW r \in Run, NEW step, Goes(r, step), listing' = listing, step \notin Reading
      PROVE  Kept
  <2> DEFINE x == [run[r] EXCEPT !.at = step]
  <2>1. x.at = step
    BY <1>0 DEF RunTypes, RunState
  <2>2. RunShape(x, listing[x.task[2]])
    BY <1>d, <2>1 DEF RunShape, Reading, Paging, Looking
  <2>3. run' = [run EXCEPT ![r] = x]
    BY <1>d DEF Goes
  <2> QED
    BY <1>b, <1>d, <2>2, <2>3
<1>e. ASSUME NEW r \in Run, NEW step \in {"token", "page", "save"}, Goes(r, step),
             listing' = listing,
             IF step = "save" THEN run[r].at = "insert" ELSE run[r].at \in {"ensure", "token"}
      PROVE  Kept
  <2> DEFINE x == [run[r] EXCEPT !.at = step]
  <2>1. run[r] \in RunState
    BY <1>0 DEF RunTypes
  <2>2. x.task = run[r].task /\ x.at = step
        /\ x.position = run[r].position /\ x.page = run[r].page
    BY <2>1 DEF RunState
  <2>3. Reach(x) = Reach(run[r])
    BY <1>e, <2>2 DEF Reach, Looking
  <2>4. run[r].at \in Reading
    BY <1>e DEF Reading, Paging
  <2>5. RunShape(x, listing[x.task[2]])
    BY <1>a, <1>e, <2>2, <2>3, <2>4 DEF RunShape, Looking
  <2>6. run' = [run EXCEPT ![r] = x]
    BY <1>e DEF Goes
  <2> QED
    BY <1>b, <1>e, <2>5, <2>6
<1>1. ASSUME NEW r \in Run, \E t \in Task : Take(r, t) PROVE Kept
  <2>1. PICK t \in Task : Take(r, t)
    BY <1>1
  <2> DEFINE x == [run[r] EXCEPT !.at = "lock", !.task = t]
  <2>2. run[r] \in RunState
    BY <1>0 DEF RunTypes
  <2>3. x \in RunState /\ x.at = "lock"
    BY <2>2 DEF RunState
  <2>4. run' = [run EXCEPT ![r] = x] /\ listing' = listing
    BY <2>1 DEF Take, mailVars
  <2> QED
    BY <1>c, <2>3, <2>4 DEF Reading, Paging
<1>2. ASSUME NEW r \in Run, SkipDuplicate(r) \/ Release(r) \/ WorkerDies(r) PROVE Kept
  <2>1. Resting \in RunState /\ Resting.at = "rest"
    <3>1. <<>> \in Seq(Message)
      OBVIOUS
    <3> QED
      BY <3>1 DEF Resting, RunState
  <2>2. run' = [run EXCEPT ![r] = Resting] /\ listing' = listing
    BY <1>2 DEF SkipDuplicate, Release, WorkerDies, mailVars
  <2> QED
    BY <1>c, <2>1, <2>2 DEF Reading, Paging
<1>3. ASSUME NEW r \in Run,
             Acquire(r) \/ ReportAlready(r) \/ MarkComplete(r) \/ Abandon(r)
      PROVE  Kept
  <2>1. listing' = listing /\ \E step : step \notin Reading /\ Goes(r, step)
    BY <1>3 DEF Acquire, ReportAlready, MarkComplete, Abandon, mailVars, Reading, Paging
  <2> QED
    BY <1>d, <2>1
<1>4. ASSUME NEW r \in Run, EnsureRow(r) \/ ReadToken(r) \/ InsertRows(r) PROVE Kept
  <2>1. listing' = listing
    BY <1>4 DEF EnsureRow, ReadToken, InsertRows, mailVars
  <2>2. CASE EnsureRow(r)
    BY <1>e, <2>1, <2>2 DEF EnsureRow
  <2>3. CASE ReadToken(r)
    BY <1>e, <2>1, <2>3 DEF ReadToken
  <2>4. CASE InsertRows(r)
    BY <1>e, <2>1, <2>4 DEF InsertRows
  <2> QED
    BY <1>4, <2>2, <2>3, <2>4
<1>5. ASSUME NEW r \in Run, ReadCheckpoint(r) PROVE Kept
  <2> DEFINE cp == checkpoint[MailboxOf(r)]
             x == [run[r] EXCEPT !.at = IF cp.status = "completed" THEN "already" ELSE "ensure",
                                 !.row = cp.status # "none",
                                 !.position = cp.position, !.processed = cp.processed]
  <2>1. MailboxOf(r) \in Mailbox /\ run[r] \in RunState
    BY <1>0, <1>5, Placed DEF ReadCheckpoint, RunTypes
  <2>2. cp \in Row /\ cp.position <= Len(listing[MailboxOf(r)])
        /\ (cp.status = "none" => cp.position = 0)
    BY <1>0, <2>1 DEF DataTypes, Shape
  <2>3. run' = [run EXCEPT ![r] = x] /\ listing' = listing
    BY <1>5 DEF ReadCheckpoint, mailVars
  <2> HIDE DEF cp
  <2>4. x.at \in {"already", "ensure"} /\ x.task[2] = MailboxOf(r)
        /\ x.position = cp.position /\ x.row = (cp.status # "none")
    BY <2>1 DEF RunState, MailboxOf
  <2>5. RunShape(x, listing[x.task[2]])
    BY <2>2, <2>4 DEF RunShape, Reach, Looking, Reading, Paging
  <2> QED
    BY <1>b, <2>3, <2>5
<1>6. ASSUME NEW r \in Run, FetchPage(r) PROVE Kept
  <2>0. run[r].at = "page" /\ run[r].position \in Nat /\ run[r] \in RunState
    BY <1>0, <1>6 DEF FetchPage, RunTypes, RunState
  <2> DEFINE box == listing[MailboxOf(r)]
             from == run[r].position
  <2>1. box \in Seq(Message) /\ Len(box) \in Nat
    BY <2>0, Placed
  <2>2. PICK upto \in Nat, page \in Seq(Message) :
              /\ upto = Min({from + BatchSize, Len(box)})
              /\ page = SubSeq(box, from + 1, upto)
              /\ ToSet(page) \subseteq ToSet(box)
              /\ from < Len(box) =>
                    /\ from + Len(page) = upto /\ upto <= Len(box)
                    /\ \A i \in 1..Len(box) : from < i /\ i <= upto => box[i] \in ToSet(page)
    BY <2>0, <2>1, PageOf, Zenon
  <2>a. page = SubSeq(box, from + 1, Min({from + BatchSize, Len(box)}))
    BY <2>2, Zenon
  <2>b. /\ ToSet(page) \subseteq ToSet(box)
        /\ from < Len(box) => from + Len(page) <= Len(box)
    BY <2>2, Zenon
  <2>3. run' = [run EXCEPT ![r].at = IF from < Len(box) THEN "check" ELSE "complete",
                           ![r].page = page, ![r].count = Len(box)]
        /\ listing' = listing
    BY <1>6, <2>a, Zenon DEF FetchPage, mailVars
  <2> DEFINE x == [run[r] EXCEPT !.at = IF from < Len(box) THEN "check" ELSE "complete",
                                 !.page = page, !.count = Len(box)]
  <2>4. run' = [run EXCEPT ![r] = x]
    BY <2>3
  <2>5. x.position = from /\ x.page = page /\ listing[x.task[2]] = box
        /\ x.at = IF from < Len(box) THEN "check" ELSE "complete"
    BY <2>0 DEF RunState, MailboxOf
  <2> HIDE DEF box, from
  <2>6. RunShape(x, box)
    BY <2>b, <2>5 DEF RunShape, Reach, Reading, Paging, Looking
  <2> HIDE DEF x
  <2>7. RunShape(x, listing[x.task[2]]) /\ listing' = listing
    BY <2>3, <2>5, <2>6
  <2> QED
    BY <1>b, <2>4, <2>7, Zenon
<1>7. ASSUME NEW r \in Run, CheckExisting(r) PROVE Kept
  <2> DEFINE x == [run[r] EXCEPT !.at = "insert", !.known = ToSet(run[r].page) \cap Stored]
  <2>1. run[r].at = "check" /\ run[r] \in RunState
    BY <1>0, <1>7 DEF CheckExisting, RunTypes
  <2>2. x.at = "insert" /\ x.position = run[r].position /\ x.page = run[r].page
        /\ x.task = run[r].task
    BY <2>1 DEF RunState
  <2>3. RunShape(x, listing[x.task[2]])
    BY <1>a, <2>1, <2>2 DEF RunShape, Reach, Reading, Paging, Looking
  <2>4. run' = [run EXCEPT ![r] = x] /\ listing' = listing
    BY <1>7 DEF CheckExisting, mailVars
  <2> QED
    BY <1>b, <2>3, <2>4
<1>8. ASSUME NEW r \in Run, SaveCheckpoint(r) PROVE Kept
  <2> DEFINE x == [run[r] EXCEPT !.at = "report", !.position = @ + Len(run[r].page),
                                 !.processed = @ + Len(run[r].page), !.known = {}]
  <2>1. run[r].at = "save" /\ run[r] \in RunState
    BY <1>0, <1>8 DEF SaveCheckpoint, RunTypes
  <2>2. x.at = "report" /\ x.position = run[r].position + Len(run[r].page)
        /\ x.task = run[r].task
    BY <2>1 DEF RunState
  <2>3. RunShape(x, listing[x.task[2]])
    BY <1>a, <2>1, <2>2 DEF RunShape, Reach, Reading, Paging, Looking
  <2>4. run' = [run EXCEPT ![r] = x] /\ listing' = listing
    BY <1>8 DEF SaveCheckpoint, mailVars
  <2> QED
    BY <1>b, <2>3, <2>4
<1>9. ASSUME NEW r \in Run, ReportPage(r) PROVE Kept
  <2> DEFINE x == [run[r] EXCEPT !.at = IF run[r].position < run[r].count
                                         THEN "page" ELSE "complete",
                                 !.page = <<>>, !.count = 0]
  <2>1. run[r].at = "report" /\ run[r] \in RunState
    BY <1>0, <1>9 DEF ReportPage, RunTypes
  <2>2. x.at \in {"page", "complete"} /\ x.position = run[r].position /\ x.task = run[r].task
    BY <2>1 DEF RunState
  <2>3. RunShape(x, listing[x.task[2]])
    BY <1>a, <2>1, <2>2 DEF RunShape, Reach, Reading, Paging, Looking
  <2>4. run' = [run EXCEPT ![r] = x] /\ listing' = listing
    BY <1>9 DEF ReportPage, mailVars
  <2> QED
    BY <1>b, <2>3, <2>4
<1>10. ASSUME NEW m \in Mailbox, NEW msg \in Message, MailArrives(m, msg) PROVE Kept
  <2>1. listing[m] \in Seq(Message)
    BY <1>0 DEF OtherTypes
  <2>2. /\ Len(<<msg>> \o listing[m]) = Len(listing[m]) + 1
        /\ ToSet(listing[m]) \subseteq ToSet(<<msg>> \o listing[m])
    BY <2>1, Arrives
  <2>3. listing' = [listing EXCEPT ![m] = <<msg>> \o @] /\ run' = run
    BY <1>10 DEF MailArrives
  <2>4. \A n \in Mailbox : /\ Len(listing[n]) \in Nat /\ Len(listing'[n]) \in Nat
                           /\ Len(listing[n]) <= Len(listing'[n])
                           /\ ToSet(listing[n]) \subseteq ToSet(listing'[n])
    <3> SUFFICES ASSUME NEW n \in Mailbox
                 PROVE  /\ Len(listing[n]) \in Nat /\ Len(listing'[n]) \in Nat
                        /\ Len(listing[n]) <= Len(listing'[n])
                        /\ ToSet(listing[n]) \subseteq ToSet(listing'[n])
      OBVIOUS
    <3>1. Len(listing[n]) \in Nat /\ Len(listing[m]) \in Nat
      BY <1>0 DEF OtherTypes
    <3>2. listing'[n] = IF n = m THEN <<msg>> \o listing[m] ELSE listing[n]
      BY <1>0, <2>3 DEF OtherTypes
    <3>3. CASE n = m
      BY <2>2, <3>1, <3>2, <3>3
    <3>4. CASE n # m
      BY <3>1, <3>2, <3>4
    <3> QED
      BY <3>3, <3>4
  <2>5. ASSUME NEW r \in Run PROVE RunShape(run[r], listing'[run[r].task[2]])
    <3>1. CASE run[r].at = "rest"
      BY <3>1 DEF RunShape, Reading, Paging, Looking
    <3>2. CASE run[r].at # "rest"
      <4>1. run[r].task[2] \in Mailbox
        BY <3>2, Placed DEF MailboxOf
      <4>2. run[r].position \in Nat /\ Len(run[r].page) \in Nat
        BY <1>0 DEF RunTypes, RunState
      <4>3. Reach(run[r]) \in Nat
        BY <4>2 DEF Reach
      <4>4. RunShape(run[r], listing[run[r].task[2]])
        BY <1>a
      <4>5. /\ Len(listing[run[r].task[2]]) \in Nat /\ Len(listing'[run[r].task[2]]) \in Nat
            /\ Len(listing[run[r].task[2]]) <= Len(listing'[run[r].task[2]])
            /\ ToSet(listing[run[r].task[2]]) \subseteq ToSet(listing'[run[r].task[2]])
        BY <2>4, <4>1
      <4> HIDE DEF Reach
      <4> QED
        BY <4>3, <4>4, <4>5 DEF RunShape
    <3> QED
      BY <3>1, <3>2
  <2> QED
    BY <2>3, <2>5 DEF Kept
<1>11. ASSUME run' = run, listing' = listing PROVE Kept
  BY <1>a, <1>11 DEF Kept
<1>12. Kept
  BY <1>1, <1>2, <1>3, <1>4, <1>5, <1>6, <1>7, <1>8, <1>9, <1>10, <1>11
  DEF MailboxNext, RunStep, Environment, SyncStarts, Redelivered, LockLapses, Disconnect,
      mailVars, mailboxVars
<1> QED
  BY <1>12 DEF Kept

(* What is listed once stays listed. *)
LEMMA ListingGrows ==
    ASSUME TypeInv, [MailboxNext]_mailboxVars
    PROVE  \A m \in Mailbox : ToSet(listing[m]) \subseteq ToSet(listing'[m])
<1>0. OtherTypes
  BY Types DEF TypeInv
<1>1. listing' = listing \/ \E m \in Mailbox, msg \in Message : MailArrives(m, msg)
  BY DEF MailboxNext, RunStep, Environment, mailVars, mailboxVars, Take, Acquire, SkipDuplicate,
      ReadCheckpoint, ReportAlready, EnsureRow, ReadToken, Abandon, FetchPage, CheckExisting,
      InsertRows, SaveCheckpoint, ReportPage, MarkComplete, Release, SyncStarts, Redelivered,
      WorkerDies, LockLapses, Disconnect
<1>2. \A m \in Mailbox : ToSet(listing[m]) \subseteq ToSet(listing'[m])
  <2>1. CASE listing' = listing
    BY <2>1
  <2>2. ASSUME NEW m \in Mailbox, NEW msg \in Message, MailArrives(m, msg)
        PROVE  \A n \in Mailbox : ToSet(listing[n]) \subseteq ToSet(listing'[n])
    <3>1. ToSet(listing[m]) \subseteq ToSet(<<msg>> \o listing[m])
      BY <1>0, Arrives DEF OtherTypes
    <3>2. \A n \in Mailbox : listing'[n] = IF n = m THEN <<msg>> \o listing[m] ELSE listing[n]
      BY <1>0, <2>2 DEF MailArrives, OtherTypes
    <3> QED
      BY <3>1, <3>2
  <2> QED
    BY <1>1, <2>1, <2>2
<1> QED
  BY <1>2

(* No cursor without a row; what a mailbox held at first stays in it. *)
LEMMA RowsShaped ==
    ASSUME TypeInv, [MailboxNext]_mailboxVars
    PROVE  \A m \in Mailbox :
              /\ checkpoint'[m].status = "none" => checkpoint'[m].position = 0
              /\ Due(m) \subseteq ToSet(listing'[m])
<1>0. DataTypes /\ OtherTypes /\ Shape
  BY Types DEF TypeInv
<1> DEFINE Bare(cp) == cp.status = "none" => cp.position = 0
           Bares == \A m \in Mailbox : Bare(checkpoint'[m])
<1>a. \A m \in Mailbox : Bare(checkpoint[m])
  BY <1>0 DEF Shape
<1>b. ASSUME NEW m \in Mailbox, NEW cp \in Row, checkpoint' = [checkpoint EXCEPT ![m] = cp],
             Bare(cp)
      PROVE  Bares
  <2> HIDE DEF Bare
  <2> QED
    BY <1>0, <1>a, <1>b DEF DataTypes
<1>c. ASSUME checkpoint' = checkpoint PROVE Bares
  BY <1>a, <1>c
<1>d. \A r \in Run : run[r].at # "rest" => MailboxOf(r) \in Mailbox
  BY Placed
<1>e. \A r \in Run : run[r].position \in Nat /\ run[r].processed \in Nat /\ Len(run[r].page) \in Nat
  BY Types DEF TypeInv, RunTypes, RunState
<1>f. \A m \in Mailbox : checkpoint[m] \in Row
  BY <1>0 DEF DataTypes
<1> HIDE DEF Bares
<1>1. ASSUME NEW r \in Run, EnsureRow(r) PROVE Bares
  <2> DEFINE cp == checkpoint[MailboxOf(r)]
             x == IF ~run[r].row THEN [NoRow EXCEPT !.status = "in_progress"]
                  ELSE IF cp.status # "none" THEN [cp EXCEPT !.status = "in_progress"] ELSE cp
  <2>1. MailboxOf(r) \in Mailbox /\ cp \in Row /\ Bare(cp)
    BY <1>1, <1>a, <1>d, <1>f DEF EnsureRow
  <2>2. checkpoint' = [checkpoint EXCEPT ![MailboxOf(r)] = x]
    BY <1>1 DEF EnsureRow
  <2> HIDE DEF cp
  <2>3. x \in Row /\ Bare(x)
    BY <2>1 DEF Row, NoRow
  <2> QED
    BY <1>b, <2>1, <2>2, <2>3
<1>2. ASSUME NEW r \in Run, SaveCheckpoint(r) PROVE Bares
  <2> DEFINE cp == checkpoint[MailboxOf(r)]
             position == run[r].position + Len(run[r].page)
             processed == run[r].processed + Len(run[r].page)
             x == IF cp.status = "none" THEN cp
                  ELSE [cp EXCEPT !.position = position, !.processed = processed]
  <2>1. MailboxOf(r) \in Mailbox /\ cp \in Row /\ Bare(cp)
    BY <1>2, <1>a, <1>d, <1>f DEF SaveCheckpoint
  <2>2. checkpoint' = [checkpoint EXCEPT ![MailboxOf(r)] = x]
    BY <1>2 DEF SaveCheckpoint
  <2>3. position \in Nat /\ processed \in Nat
    BY <1>e
  <2> HIDE DEF cp, position, processed
  <2>4. x \in Row /\ Bare(x)
    BY <2>1, <2>3 DEF Row
  <2> QED
    BY <1>b, <2>1, <2>2, <2>4
<1>3. ASSUME NEW r \in Run, MarkComplete(r) PROVE Bares
  <2> DEFINE cp == checkpoint[MailboxOf(r)]
             x == IF cp.status = "none" THEN cp
                  ELSE [cp EXCEPT !.status = "completed", !.processed = run[r].processed]
  <2>1. MailboxOf(r) \in Mailbox /\ cp \in Row /\ Bare(cp) /\ run[r].processed \in Nat
    BY <1>3, <1>a, <1>d, <1>e, <1>f DEF MarkComplete
  <2>2. checkpoint' = [checkpoint EXCEPT ![MailboxOf(r)] = x]
    BY <1>3 DEF MarkComplete
  <2> HIDE DEF cp
  <2>3. x \in Row /\ Bare(x)
    BY <2>1 DEF Row
  <2> QED
    BY <1>b, <2>1, <2>2, <2>3
<1>4. ASSUME Disconnect PROVE Bares
  BY <1>4 DEF Disconnect, NoRow, Bares
<1>5. Bares
  BY <1>c, <1>1, <1>2, <1>3, <1>4
  DEF MailboxNext, RunStep, Environment, dataVars, mailVars, mailboxVars, Take, Acquire, SkipDuplicate,
      ReadCheckpoint, ReportAlready, ReadToken, Abandon, FetchPage, CheckExisting, InsertRows,
      ReportPage, Release, SyncStarts, Redelivered, WorkerDies, LockLapses, MailArrives
<1>6. \A m \in Mailbox : Due(m) \subseteq ToSet(listing[m])
  BY <1>0 DEF Shape
<1> QED
  BY <1>5, <1>6, ListingGrows DEF Bares

-----------------------------------------------------------------------------
(* The types and shape of every reachable state *)

LEMMA TypeInit == MailboxInit => TypeInv
<1> SUFFICES ASSUME MailboxInit PROVE TypeInv
  OBVIOUS
<1>1. MaxSyncs \in Nat /\ MaxFaults \in Nat /\ Contents \in [Mailbox -> Seq(Message)]
  BY BackfillAssumption
<1>2. \A m \in Mailbox : Len(Contents[m]) \in Nat
  BY <1>1
<1>3. Resting \in RunState /\ Resting.task = Free /\ Resting.at = "rest"
  <2>1. <<>> \in Seq(Message)
    OBVIOUS
  <2> QED
    BY <2>1 DEF Resting, RunState
<1>4. RunTypes
  BY <1>3 DEF RunTypes, MailboxInit
<1>5. LockKeys
  BY DEF LockKeys, MailboxInit
<1>6. NoRow \in Row /\ NoRow.position = 0
  BY DEF NoRow, Row
<1>7. DataTypes
  BY <1>2, <1>6 DEF DataTypes, MailboxInit
<1>8. OtherTypes
  BY <1>1 DEF OtherTypes, MailboxInit
<1>9. Shape
  <2>1. \A r \in Run : run[r].at = "rest"
    BY <1>3 DEF MailboxInit
  <2>2. \A r \in Run : RunShape(run[r], listing[MailboxOf(r)])
    BY <2>1 DEF RunShape, Reading, Paging, Looking
  <2> QED
    BY <1>6, <2>2 DEF Shape, MailboxInit, Due
<1> QED
  BY <1>4, <1>5, <1>7, <1>8, <1>9, Types DEF TypeInv

LEMMA TypeStep == TypeInv /\ [MailboxNext]_mailboxVars => TypeInv'
<1> SUFFICES ASSUME TypeInv, [MailboxNext]_mailboxVars PROVE TypeInv'
  OBVIOUS
<1>1. RunTypes' /\ LockKeys' /\ DataTypes' /\ OtherTypes'
  BY RunsTyped, LocksTyped, DataTyped, OthersTyped
<1>2. MailboxTypeOK'
  BY <1>1 DEF MailboxTypeOK, RunTypes, RunState, LockKeys, DataTypes, OtherTypes
<1>3. Shape'
  BY RunsShaped, RowsShaped DEF Shape, MailboxOf
<1> QED
  BY <1>2, <1>3 DEF TypeInv

(* The variables keep their types and no cursor passes the end of its mailbox,
   whatever mail arrives while it is paged. *)
THEOREM MailboxTypesSafe == MailboxSpec => []MailboxTypeOK
<1>1. MailboxSpec => []TypeInv
  BY TypeInit, TypeStep, PTL DEF MailboxSpec
<1> QED
  BY <1>1, PTL DEF TypeInv

-----------------------------------------------------------------------------
(* Part 3.  The data: no message is missed by a cursor or by a mailbox that is
   done, none is written twice by the executions of one mailbox, and the task
   implements module Backfill. *)

(* Every message of due listed in box up to position p is in st. *)
Covered(box, due, st, p) ==
    \A i \in 1..Len(box) : i <= p /\ box[i] \in due => box[i] \in st

(* What is stored once the rows of the page in hand are. *)
Seen(x, st) == IF x.at \in Looking THEN st \cup ToSet(x.page) ELSE st

(* What an execution x paging box relies on. *)
Sound(x, box, due, st) ==
    /\ x.at \in Reading => Covered(box, due, Seen(x, st), Reach(x))
    /\ x.at \in Looking \cup {"save", "report"} /\ Reach(x) >= x.count
          => due \subseteq Seen(x, st)
    /\ x.at = "insert" => x.known \subseteq st
    /\ x.at = "complete" => due \subseteq st

(* Disconnecting takes the rows, so that an execution it did not stop relies on
   nothing; without a checkpoint row it saves nothing either. *)
Sure(r) == Safe({"disconnect"}) \/ checkpoint[MailboxOf(r)].status # "none"

CursorOK(m) ==
    /\ Covered(listing[m], Due(m), Stored, checkpoint[m].position)
    /\ checkpoint[m].status = "completed" => Due(m) \subseteq Stored

WorkOK(r) == Sure(r) => Sound(run[r], listing[MailboxOf(r)], Due(MailboxOf(r)), Stored)

DataInv ==
    Intact => (\A m \in Mailbox : CursorOK(m)) /\ (\A r \in Run : WorkOK(r))

-----------------------------------------------------------------------------
(* Storing more never hurts *)

LEMMA CoveredGrows ==
    ASSUME NEW box, NEW due, NEW st, NEW more, NEW p, st \subseteq more,
           Covered(box, due, st, p)
    PROVE  Covered(box, due, more, p)
  BY DEF Covered

LEMMA SoundGrows ==
    ASSUME NEW x, NEW box, NEW due, NEW st, NEW more, st \subseteq more,
           Sound(x, box, due, st)
    PROVE  Sound(x, box, due, more)
<1>1. Seen(x, st) \subseteq Seen(x, more)
  BY DEF Seen
<1>2. x.at \in Reading => Covered(box, due, Seen(x, more), Reach(x))
  <2> HIDE DEF Seen, Reach
  <2> QED
    BY <1>1, CoveredGrows DEF Sound
<1> QED
  <2> HIDE DEF Seen, Reach
  <2> QED
    BY <1>1, <1>2 DEF Sound

(* At its other steps an execution relies on nothing. *)
LEMMA Idle ==
    ASSUME NEW x, NEW box, NEW due, NEW st, x.at \notin Reading \cup {"complete"}
    PROVE  Sound(x, box, due, st)
  BY DEF Sound, Reading, Paging, Looking

LEMMA CoveredArrives ==
    ASSUME NEW box \in Seq(Message), NEW msg \in Message, NEW due, NEW st, NEW p \in Nat,
           msg \notin due, Covered(box, due, st, p)
    PROVE  Covered(<<msg>> \o box, due, st, p)
<1> DEFINE new == <<msg>> \o box
<1>0. Len(box) \in Nat
  OBVIOUS
<1>1. Len(new) = Len(box) + 1 /\ new[1] = msg
      /\ \A i \in 1..Len(box) : new[i + 1] = box[i]
  BY Arrives
<1> HIDE DEF new
<1>2. ASSUME NEW i \in 1..Len(new), i <= p, new[i] \in due PROVE new[i] \in st
  <2>1. i # 1
    BY <1>1, <1>2
  <2>2. i - 1 \in 1..Len(box) /\ i - 1 <= p /\ i - 1 + 1 = i
    BY <1>0, <1>1, <1>2, <2>1
  <2>3. new[i] = box[i - 1]
    BY <1>1, <2>2
  <2> QED
    BY <1>2, <2>2, <2>3 DEF Covered
<1> QED
  BY <1>2 DEF Covered, new

LEMMA SoundArrives ==
    ASSUME NEW x, NEW box \in Seq(Message), NEW msg \in Message, NEW due, NEW st,
           Reach(x) \in Nat, msg \notin due, Sound(x, box, due, st)
    PROVE  Sound(x, <<msg>> \o box, due, st)
<1>1. x.at \in Reading => Covered(<<msg>> \o box, due, Seen(x, st), Reach(x))
  <2> HIDE DEF Seen, Reach
  <2> QED
    BY CoveredArrives DEF Sound
<1> QED
  BY <1>1 DEF Sound

-----------------------------------------------------------------------------
(* An execution moves *)

LEMMA Grown ==
    ASSUME [MailboxNext]_mailboxVars
    PROVE  happened \subseteq happened'
  BY DEF MailboxNext, RunStep, Environment, mailboxVars, faultVars, Happens, Take, Acquire,
      SkipDuplicate, ReadCheckpoint, ReportAlready, EnsureRow, ReadToken, Abandon, FetchPage,
      CheckExisting, InsertRows, SaveCheckpoint, ReportPage, MarkComplete, Release, SyncStarts,
      Redelivered, WorkerDies, LockLapses, MailArrives, Disconnect

(* It leaves the checkpoints alone. *)
LEMMA Moves ==
    ASSUME TypeInv, DataInv, happened \subseteq happened', NEW r \in Run, NEW x,
           run' = [run EXCEPT ![r] = x], listing' = listing, checkpoint' = checkpoint,
           Stored \subseteq Stored',
           \/ x.at \notin Reading \cup {"complete"}
           \/ x.task = run[r].task
              /\ (Intact /\ Sure(r)
                    => Sound(x, listing[MailboxOf(r)], Due(MailboxOf(r)), Stored'))
    PROVE  DataInv'
<1>0. run \in [Run -> RunState]
  BY Types DEF TypeInv, RunTypes
<1> SUFFICES ASSUME Intact' PROVE (\A m \in Mailbox : CursorOK(m)') /\ (\A s \in Run : WorkOK(s)')
  BY DEF DataInv
<1>1. Intact
  BY DEF Intact, Safe
<1>2. ASSUME NEW m \in Mailbox PROVE CursorOK(m)'
  <2>1. CursorOK(m)
    BY <1>1 DEF DataInv
  <2>2. Covered(listing[m], Due(m), Stored', checkpoint[m].position)
    BY <2>1, CoveredGrows DEF CursorOK
  <2> QED
    BY <2>1, <2>2 DEF CursorOK
<1>3. ASSUME NEW s \in Run, Sure(s)'
      PROVE  Sound(run'[s], listing[run'[s].task[2]], Due(run'[s].task[2]), Stored')
  <2>1. CASE run'[s].task = run[s].task /\ s # r
    <3>1. run'[s] = run[s] /\ Sure(s)
      BY <1>0, <1>3, <2>1 DEF Sure, Safe, MailboxOf
    <3>2. Sound(run[s], listing[MailboxOf(s)], Due(MailboxOf(s)), Stored)
      BY <1>1, <3>1 DEF DataInv, WorkOK
    <3> QED
      BY <3>1, <3>2, SoundGrows DEF MailboxOf
  <2>2. CASE s = r
    <3>1. run'[s] = x
      BY <1>0, <2>2
    <3>2. CASE x.at \notin Reading \cup {"complete"}
      BY <3>1, <3>2, Idle
    <3>3. CASE x.task = run[r].task
               /\ (Intact /\ Sure(r)
                    => Sound(x, listing[MailboxOf(r)], Due(MailboxOf(r)), Stored'))
      <4>1. Sure(r)
        BY <1>3, <2>2, <3>1, <3>3 DEF Sure, Safe, MailboxOf
      <4> QED
        BY <1>1, <2>2, <3>1, <3>3, <4>1 DEF MailboxOf
    <3> QED
      BY <3>2, <3>3
  <2> QED
    BY <1>0, <2>1, <2>2
<1> QED
  BY <1>2, <1>3 DEF WorkOK, MailboxOf

(* It changes the checkpoint of its mailbox. *)
LEMMA Writes ==
    ASSUME LockInv, TypeInv, DataInv, happened' = happened, NEW r \in Run, NEW x, NEW cp \in Row,
           run[r].at \in Holding, run' = [run EXCEPT ![r] = x], x.task = run[r].task,
           listing' = listing, rows' = rows,
           checkpoint' = [checkpoint EXCEPT ![MailboxOf(r)] = cp],
           Intact =>
              /\ Covered(listing[MailboxOf(r)], Due(MailboxOf(r)), Stored, cp.position)
              /\ cp.status = "completed" => Due(MailboxOf(r)) \subseteq Stored
              /\ Safe({"disconnect"}) \/ cp.status # "none"
                    => Sound(x, listing[MailboxOf(r)], Due(MailboxOf(r)), Stored)
    PROVE  DataInv'
<1>0. run \in [Run -> RunState] /\ checkpoint \in [Mailbox -> Row]
  BY Types DEF TypeInv, RunTypes, DataTypes
<1> SUFFICES ASSUME Intact' PROVE (\A m \in Mailbox : CursorOK(m)') /\ (\A s \in Run : WorkOK(s)')
  BY DEF DataInv
<1>1. Intact /\ Stored' = Stored /\ MailboxOf(r) \in Mailbox
  BY Placed DEF Intact, Safe, Stored, Holding, Paging
<1>2. ASSUME NEW m \in Mailbox PROVE CursorOK(m)'
  <2>1. CursorOK(m)
    BY <1>1 DEF DataInv
  <2>2. CASE m = MailboxOf(r)
    <3>1. checkpoint'[m] = cp
      BY <1>0, <2>2
    <3> QED
      BY <1>1, <2>2, <3>1 DEF CursorOK
  <2>3. CASE m # MailboxOf(r)
    <3>1. checkpoint'[m] = checkpoint[m]
      BY <1>0, <2>3
    <3> QED
      BY <1>1, <2>1, <3>1 DEF CursorOK
  <2> QED
    BY <2>2, <2>3
<1>3. ASSUME NEW s \in Run, Sure(s)'
      PROVE  Sound(run'[s], listing[run'[s].task[2]], Due(run'[s].task[2]), Stored)
  <2>1. CASE s = r
    <3>1. run'[s] = x
      BY <1>0, <2>1
    <3>2. Safe({"disconnect"}) \/ cp.status # "none"
      BY <1>0, <1>1, <1>3, <2>1, <3>1 DEF Sure, Safe, MailboxOf
    <3> QED
      BY <1>1, <3>1, <3>2 DEF MailboxOf
  <2>2. CASE s # r
    <3>1. run'[s] = run[s]
      BY <1>0, <2>2
    <3>2. CASE run[s].at \notin Reading \cup {"complete"}
      BY <3>1, <3>2, Idle
    <3>3. CASE run[s].at \in Reading \cup {"complete"} /\ Sure(s)
      BY <1>1, <3>1, <3>3 DEF DataInv, WorkOK, MailboxOf
    <3>4. CASE run[s].at \in Reading \cup {"complete"} /\ ~Sure(s)
      <4>1. Safe({"lapse"}) /\ run[s].at \in Holding /\ checkpoint'[MailboxOf(s)] # checkpoint[MailboxOf(s)]
        BY <1>1, <1>3, <3>1, <3>4 DEF Sure, Safe, Intact, MailboxOf, Reading, Holding, Paging
      <4>2. MailboxOf(s) = MailboxOf(r)
        BY <1>0, <4>1
      <4> QED
        BY <2>2, <4>1, <4>2 DEF LockInv, HoldersLock
    <3> QED
      BY <3>2, <3>3, <3>4
  <2> QED
    BY <2>1, <2>2
<1> QED
  BY <1>1, <1>2, <1>3 DEF WorkOK, MailboxOf

-----------------------------------------------------------------------------
(* The steps of an execution *)

LEMMA DataRest ==
    ASSUME TypeInv, DataInv, happened \subseteq happened', NEW r \in Run,
           \/ \E t \in Task : Take(r, t)
           \/ SkipDuplicate(r) \/ Release(r) \/ WorkerDies(r)
           \/ Acquire(r) \/ ReportAlready(r) \/ Abandon(r)
    PROVE  DataInv'
<1>0. run[r] \in RunState
  BY Types DEF TypeInv, RunTypes
<1>1. checkpoint' = checkpoint /\ listing' = listing /\ rows' = rows
  BY DEF Take, SkipDuplicate, Release, WorkerDies, Acquire, ReportAlready, Abandon, dataVars, mailVars
<1>2. Stored' = Stored
  BY <1>1 DEF Stored
<1>3. \E x : run' = [run EXCEPT ![r] = x] /\ x.at \notin Reading \cup {"complete"}
  <2>1. ASSUME NEW t \in Task, Take(r, t)
        PROVE  \E x : run' = [run EXCEPT ![r] = x] /\ x.at \notin Reading \cup {"complete"}
    <3> DEFINE x == [run[r] EXCEPT !.at = "lock", !.task = t]
    <3>1. run' = [run EXCEPT ![r] = x] /\ x.at = "lock"
      BY <1>0, <2>1 DEF Take, RunState
    <3> HIDE DEF x
    <3> QED
      BY <3>1 DEF Reading, Paging
  <2>2. ASSUME NEW step \in {"read", "release"}, Goes(r, step)
        PROVE  \E x : run' = [run EXCEPT ![r] = x] /\ x.at \notin Reading \cup {"complete"}
    <3> DEFINE x == [run[r] EXCEPT !.at = step]
    <3>1. run' = [run EXCEPT ![r] = x] /\ x.at = step
      BY <1>0, <2>2 DEF Goes, RunState
    <3> HIDE DEF x
    <3> QED
      BY <3>1 DEF Reading, Paging
  <2>3. CASE SkipDuplicate(r) \/ Release(r) \/ WorkerDies(r)
    <3>1. run' = [run EXCEPT ![r] = Resting] /\ Resting.at = "rest"
      BY <2>3 DEF SkipDuplicate, Release, WorkerDies, Resting
    <3> QED
      BY <3>1 DEF Reading, Paging
  <2>4. CASE Acquire(r) \/ ReportAlready(r) \/ Abandon(r)
    BY <2>2, <2>4 DEF Acquire, ReportAlready, Abandon
  <2> QED
    BY <2>1, <2>3, <2>4
<1> QED
  BY <1>1, <1>2, <1>3, Moves

LEMMA DataResume ==
    ASSUME TypeInv, DataInv, happened \subseteq happened', NEW r \in Run,
           ReadCheckpoint(r) \/ ReadToken(r) \/ CheckExisting(r) \/ InsertRows(r) \/ ReportPage(r)
    PROVE  DataInv'
<1>0. run[r] \in RunState /\ run \in [Run -> RunState] /\ rows \in [Message -> Nat]
  BY Types DEF TypeInv, RunTypes, DataTypes
<1>a. MailboxOf(r) \in Mailbox
  BY Placed DEF ReadCheckpoint, ReadToken, CheckExisting, InsertRows, ReportPage
<1> DEFINE m == MailboxOf(r)
           Known == Intact /\ Sure(r)
<1>b. /\ Known => Sound(run[r], listing[m], Due(m), Stored)
      /\ Intact => CursorOK(m)
  BY <1>a DEF DataInv, WorkOK
<1> HIDE DEF Known
<1>c. ASSUME NEW x, run' = [run EXCEPT ![r] = x], listing' = listing, checkpoint' = checkpoint,
             Stored \subseteq Stored', x.task = run[r].task,
             Known => Sound(x, listing[m], Due(m), Stored')
      PROVE  DataInv'
  BY <1>c, Moves DEF Known
<1>1. CASE ReadCheckpoint(r)
  <2> DEFINE cp == checkpoint[MailboxOf(r)]
             x == [run[r] EXCEPT !.at = IF cp.status = "completed" THEN "already" ELSE "ensure",
                                 !.row = cp.status # "none",
                                 !.position = cp.position, !.processed = cp.processed]
  <2>1. /\ run' = [run EXCEPT ![r] = x] /\ listing' = listing /\ checkpoint' = checkpoint
        /\ Stored' = Stored
    BY <1>1 DEF ReadCheckpoint, mailVars, dataVars, Stored
  <2>2. Intact => Covered(listing[m], Due(m), Stored, cp.position)
    BY <1>b DEF CursorOK
  <2> HIDE DEF cp
  <2>3. x.at \in {"already", "ensure"} /\ x.position = cp.position /\ x.task = run[r].task
    BY <1>0 DEF RunState
  <2>4. Intact => Sound(x, listing[m], Due(m), Stored)
    BY <2>2, <2>3 DEF Sound, Reading, Looking, Paging, Reach, Seen
  <2> HIDE DEF x
  <2> QED
    BY <1>c, <2>1, <2>3, <2>4 DEF Known
<1>2. CASE ReadToken(r)
  <2> DEFINE x == [run[r] EXCEPT !.at = "page"]
  <2>1. /\ run' = [run EXCEPT ![r] = x] /\ listing' = listing /\ checkpoint' = checkpoint
        /\ Stored' = Stored /\ run[r].at = "token"
    BY <1>2 DEF ReadToken, Goes, mailVars, dataVars, Stored
  <2>2. x.at = "page" /\ x.position = run[r].position /\ x.task = run[r].task
    BY <1>0 DEF RunState
  <2>3. Known => Sound(x, listing[m], Due(m), Stored)
    BY <1>b, <2>1, <2>2 DEF Sound, Reading, Looking, Paging, Reach, Seen
  <2> HIDE DEF x
  <2> QED
    BY <1>c, <2>1, <2>2, <2>3
<1>3. CASE CheckExisting(r)
  <2> DEFINE x == [run[r] EXCEPT !.at = "insert", !.known = ToSet(run[r].page) \cap Stored]
  <2>1. /\ run' = [run EXCEPT ![r] = x] /\ listing' = listing /\ checkpoint' = checkpoint
        /\ Stored' = Stored /\ run[r].at = "check"
    BY <1>3 DEF CheckExisting, mailVars, dataVars, Stored
  <2>2. /\ x.at = "insert" /\ x.position = run[r].position /\ x.task = run[r].task
        /\ x.page = run[r].page /\ x.known \subseteq Stored /\ x.count = run[r].count
    BY <1>0 DEF RunState
  <2>3. Known => Sound(x, listing[m], Due(m), Stored)
    BY <1>b, <2>1, <2>2 DEF Sound, Reading, Looking, Paging, Reach, Seen
  <2> HIDE DEF x
  <2> QED
    BY <1>c, <2>1, <2>2, <2>3
<1>4. CASE InsertRows(r)
  <2> DEFINE x == [run[r] EXCEPT !.at = "save"]
  <2>1. /\ run' = [run EXCEPT ![r] = x] /\ listing' = listing /\ checkpoint' = checkpoint
        /\ run[r].at = "insert"
    BY <1>4 DEF InsertRows, Goes, mailVars
  <2>2. /\ x.at = "save" /\ x.position = run[r].position /\ x.task = run[r].task
        /\ x.page = run[r].page /\ x.count = run[r].count
    BY <1>0 DEF RunState
  <2>3. \A msg \in Message :
           rows'[msg] = IF msg \in ToSet(run[r].page) \ run[r].known
                        THEN rows[msg] + 1 ELSE rows[msg]
    BY <1>4 DEF InsertRows
  <2>4. ToSet(run[r].page) \subseteq Message
    BY <1>0, InSet DEF RunState
  <2>5. Stored' = Stored \cup (ToSet(run[r].page) \ run[r].known)
    BY <1>0, <2>3, <2>4 DEF Stored
  <2>6. Known => Seen(run[r], Stored) \subseteq Stored'
    BY <1>b, <2>1, <2>5 DEF Sound, Seen, Looking
  <2>7. Known => Sound(x, listing[m], Due(m), Stored')
    <3>1. Reach(x) = Reach(run[r]) /\ Seen(x, Stored') = Stored'
      BY <2>1, <2>2 DEF Reach, Seen, Looking
    <3>2. Known => Covered(listing[m], Due(m), Stored', Reach(x))
      BY <1>b, <2>1, <2>6, <3>1, CoveredGrows DEF Sound, Reading, Paging
    <3>3. Known /\ Reach(x) >= x.count => Due(m) \subseteq Stored'
      BY <1>b, <2>1, <2>2, <2>6, <3>1 DEF Sound, Looking
    <3> HIDE DEF x
    <3> QED
      BY <2>2, <3>1, <3>2, <3>3 DEF Sound
  <2> HIDE DEF x
  <2> QED
    BY <1>c, <2>1, <2>2, <2>5, <2>7
<1>5. CASE ReportPage(r)
  <2> DEFINE x == [run[r] EXCEPT !.at = IF run[r].position < run[r].count
                                         THEN "page" ELSE "complete",
                                 !.page = <<>>, !.count = 0]
  <2>1. /\ run' = [run EXCEPT ![r] = x] /\ listing' = listing /\ checkpoint' = checkpoint
        /\ Stored' = Stored /\ run[r].at = "report"
    BY <1>5 DEF ReportPage, mailVars, dataVars, Stored
  <2>2. /\ x.at = IF run[r].position < run[r].count THEN "page" ELSE "complete"
        /\ x.position = run[r].position /\ x.task = run[r].task
    BY <1>0 DEF RunState
  <2>3. run[r].position \in Nat /\ run[r].count \in Nat
    BY <1>0 DEF RunState
  <2>4. Known => /\ Covered(listing[m], Due(m), Stored, run[r].position)
                 /\ run[r].position >= run[r].count => Due(m) \subseteq Stored
    BY <1>b, <2>1 DEF Sound, Reading, Looking, Paging, Reach, Seen
  <2> HIDE DEF x
  <2>5. Known => Sound(x, listing[m], Due(m), Stored)
    BY <2>2, <2>3, <2>4 DEF Sound, Reading, Looking, Paging, Reach, Seen
  <2> QED
    BY <1>c, <2>1, <2>2, <2>5
<1> QED
  BY <1>1, <1>2, <1>3, <1>4, <1>5

LEMMA DataFetch ==
    ASSUME TypeInv, DataInv, happened \subseteq happened', NEW r \in Run, FetchPage(r)
    PROVE  DataInv'
<1>0. run[r] \in RunState /\ run[r].position \in Nat /\ run[r].at = "page"
  BY Types DEF TypeInv, RunTypes, RunState, FetchPage
<1> DEFINE m == MailboxOf(r)
           box == listing[m]
           from == run[r].position
<1>1. m \in Mailbox /\ box \in Seq(Message) /\ Len(box) \in Nat
  BY <1>0, Placed
<1>2. PICK upto \in Nat, page \in Seq(Message) :
            /\ upto = Min({from + BatchSize, Len(box)})
            /\ page = SubSeq(box, from + 1, upto)
            /\ ToSet(page) \subseteq ToSet(box)
            /\ from < Len(box) =>
                  /\ from + Len(page) = upto /\ upto <= Len(box)
                  /\ \A i \in 1..Len(box) : from < i /\ i <= upto => box[i] \in ToSet(page)
  BY <1>0, <1>1, PageOf, Zenon
<1>a. page = SubSeq(box, from + 1, Min({from + BatchSize, Len(box)}))
  BY <1>2, Zenon
<1>b. from < Len(box) =>
          /\ from + Len(page) = upto
          /\ \A i \in 1..Len(box) : from < i /\ i <= upto => box[i] \in ToSet(page)
  BY <1>2, Zenon
<1>3. run' = [run EXCEPT ![r].at = IF from < Len(box) THEN "check" ELSE "complete",
                         ![r].page = page, ![r].count = Len(box)]
      /\ listing' = listing /\ checkpoint' = checkpoint /\ rows' = rows
  BY <1>a, Zenon DEF FetchPage, mailVars, dataVars
<1> DEFINE x == [run[r] EXCEPT !.at = IF from < Len(box) THEN "check" ELSE "complete",
                               !.page = page, !.count = Len(box)]
<1>4. run' = [run EXCEPT ![r] = x]
  BY <1>3
<1>5. /\ x.position = from /\ x.page = page /\ x.task = run[r].task /\ x.count = Len(box)
      /\ x.at = IF from < Len(box) THEN "check" ELSE "complete"
  BY <1>0 DEF RunState
<1> DEFINE Known == Intact /\ Sure(r)
<1>6. Known => Covered(box, Due(m), Stored, from)
  BY <1>0 DEF DataInv, WorkOK, Sound, Reading, Looking, Paging, Reach, Seen
<1>7. /\ Due(m) \subseteq ToSet(box)
      /\ \A y : y \in ToSet(box) <=> \E i \in 1..Len(box) : box[i] = y
  BY <1>1, InSet, Types DEF TypeInv, Shape
<1> HIDE DEF x, box, from, Known, m
<1>8. Known => Sound(x, box, Due(m), Stored)
  <2>1. CASE from < Len(box)
    <3>1. x.at = "check" /\ Seen(x, Stored) = Stored \cup ToSet(page) /\ Reach(x) = upto
      BY <1>5, <1>b, <2>1 DEF Seen, Reach, Looking
    <3>2. ASSUME Known PROVE Covered(box, Due(m), Stored \cup ToSet(page), upto)
      BY <1>0, <1>1, <1>6, <1>b, <2>1, <3>2 DEF Covered, from
    <3>3. ASSUME Known, upto >= Len(box) PROVE Due(m) \subseteq Stored \cup ToSet(page)
      BY <1>1, <1>7, <3>2, <3>3 DEF Covered
    <3> HIDE DEF Seen, Reach
    <3> QED
      BY <1>5, <3>1, <3>2, <3>3 DEF Sound
  <2>2. CASE ~(from < Len(box))
    <3>1. x.at = "complete" /\ x.at \notin Reading \cup Looking \cup {"save", "report", "insert"}
      BY <1>5, <2>2 DEF Reading, Paging, Looking
    <3>2. from \in Nat
      BY <1>0 DEF from
    <3>3. Known => Due(m) \subseteq Stored
      BY <1>1, <1>6, <1>7, <2>2, <3>2 DEF Covered
    <3> QED
      BY <3>1, <3>3 DEF Sound
  <2> QED
    BY <2>1, <2>2
<1>9. Stored' = Stored
  BY <1>3 DEF Stored
<1> QED
  BY <1>3, <1>4, <1>5, <1>8, <1>9, Moves DEF Known, m, box

LEMMA DataSave ==
    ASSUME LockInv, TypeInv, DataInv, happened' = happened, NEW r \in Run,
           EnsureRow(r) \/ SaveCheckpoint(r) \/ MarkComplete(r)
    PROVE  DataInv'
<1>0. run[r] \in RunState /\ checkpoint \in [Mailbox -> Row]
  BY Types DEF TypeInv, RunTypes, DataTypes
<1> DEFINE m == MailboxOf(r)
           cp == checkpoint[m]
<1>1. m \in Mailbox /\ run[r].at \in Holding
  BY Placed DEF EnsureRow, SaveCheckpoint, MarkComplete, Holding, Paging
<1>2. cp \in Row
  BY <1>0, <1>1
<1>3. /\ Intact /\ Sure(r) => Sound(run[r], listing[m], Due(m), Stored)
      /\ Intact => CursorOK(m)
  BY <1>1 DEF DataInv, WorkOK
<1>4. Sure(r) <=> (Safe({"disconnect"}) \/ cp.status # "none")
  BY DEF Sure
<1>5. /\ run[r].position \in Nat /\ run[r].processed \in Nat /\ Len(run[r].page) \in Nat
      /\ Len(listing[m]) \in Nat
  BY <1>0, <1>1, Placed DEF RunState, Holding, Paging
<1>6. RunShape(run[r], listing[m]) /\ (Intact => Covered(listing[m], Due(m), Stored, cp.position))
  BY <1>3 DEF TypeInv, Shape, CursorOK
<1>7. Intact /\ cp.status = "completed" => Due(m) \subseteq Stored
  BY <1>3 DEF CursorOK
<1>8. CASE EnsureRow(r)
  <2> DEFINE x == [run[r] EXCEPT !.at = "token"]
             new == IF ~run[r].row THEN [NoRow EXCEPT !.status = "in_progress"]
                    ELSE IF cp.status # "none" THEN [cp EXCEPT !.status = "in_progress"] ELSE cp
  <2>1. /\ run' = [run EXCEPT ![r] = x] /\ listing' = listing /\ rows' = rows
        /\ checkpoint' = [checkpoint EXCEPT ![m] = new] /\ run[r].at = "ensure"
    BY <1>8 DEF EnsureRow, Goes, mailVars
  <2>2. x.at = "token" /\ x.position = run[r].position /\ x.task = run[r].task
    BY <1>0 DEF RunState
  <2> HIDE DEF x, cp
  <2>3. /\ new.status = "completed" => cp.status = "completed"
        /\ \/ new.position = 0
           \/ new.position = cp.position
        /\ run[r].row => (new.status = "none" <=> cp.status = "none")
    BY <1>2 DEF Row, NoRow
  <2>4. new \in Row
    BY <1>2 DEF Row, NoRow
  <2>5. Covered(listing[m], Due(m), Stored, 0)
    BY DEF Covered
  <2>6. ~run[r].row => run[r].position = 0
    BY <1>6, <2>1 DEF RunShape
  <2> HIDE DEF new, m
  <2>7. Intact /\ (Safe({"disconnect"}) \/ new.status # "none") =>
            Covered(listing[m], Due(m), Stored, run[r].position)
    <3>1. Intact /\ Sure(r) => Covered(listing[m], Due(m), Stored, run[r].position)
      BY <1>3, <2>1 DEF Sound, Reading, Looking, Paging, Seen, Reach
    <3> QED
      BY <1>4, <2>3, <2>5, <2>6, <3>1
  <2>8. Intact /\ (Safe({"disconnect"}) \/ new.status # "none") =>
            Sound(x, listing[m], Due(m), Stored)
    BY <2>2, <2>7 DEF Sound, Reading, Looking, Paging, Seen, Reach
  <2>9. Intact => /\ Covered(listing[m], Due(m), Stored, new.position)
                  /\ new.status = "completed" => Due(m) \subseteq Stored
    BY <1>6, <1>7, <2>3, <2>5
  <2> QED
    BY <1>1, <2>1, <2>2, <2>4, <2>8, <2>9, Writes DEF m
<1>9. CASE SaveCheckpoint(r)
  <2> DEFINE position == run[r].position + Len(run[r].page)
             processed == run[r].processed + Len(run[r].page)
             x == [run[r] EXCEPT !.at = "report", !.position = position,
                                 !.processed = processed, !.known = {}]
             new == IF cp.status = "none" THEN cp
                    ELSE [cp EXCEPT !.position = position, !.processed = processed]
  <2>1. /\ run' = [run EXCEPT ![r] = x] /\ listing' = listing /\ rows' = rows
        /\ checkpoint' = [checkpoint EXCEPT ![m] = new] /\ run[r].at = "save"
    BY <1>9 DEF SaveCheckpoint, mailVars
  <2>2. x.at = "report" /\ x.position = position /\ x.task = run[r].task /\ x.count = run[r].count
    BY <1>0 DEF RunState
  <2>3. position \in Nat /\ processed \in Nat /\ Reach(run[r]) = position /\ Seen(run[r], Stored) = Stored
    BY <1>5, <2>1 DEF Reach, Seen, Looking
  <2> HIDE DEF x, cp, position, processed
  <2>4. /\ new \in Row /\ new.status = cp.status
        /\ new.position = IF cp.status = "none" THEN cp.position ELSE position
    BY <1>2, <2>3 DEF Row
  <2> HIDE DEF new, m
  <2>5. Intact /\ Sure(r) =>
            /\ Covered(listing[m], Due(m), Stored, position)
            /\ position >= run[r].count => Due(m) \subseteq Stored
    BY <1>3, <2>1, <2>3 DEF Sound, Reading, Paging
  <2>6. Intact /\ Sure(r) => Sound(x, listing[m], Due(m), Stored)
    BY <2>2, <2>5 DEF Sound, Reading, Looking, Paging, Seen, Reach
  <2>7. Intact => /\ Covered(listing[m], Due(m), Stored, new.position)
                  /\ new.status = "completed" => Due(m) \subseteq Stored
    BY <1>4, <1>6, <1>7, <2>4, <2>5
  <2> QED
    BY <1>1, <1>4, <2>1, <2>2, <2>4, <2>6, <2>7, Writes DEF m
<1>10. CASE MarkComplete(r)
  <2> DEFINE x == [run[r] EXCEPT !.at = "release"]
             new == IF cp.status = "none" THEN cp
                    ELSE [cp EXCEPT !.status = "completed", !.processed = run[r].processed]
  <2>1. /\ run' = [run EXCEPT ![r] = x] /\ listing' = listing /\ rows' = rows
        /\ checkpoint' = [checkpoint EXCEPT ![m] = new] /\ run[r].at = "complete"
    BY <1>10 DEF MarkComplete, Goes, mailVars
  <2>2. x.at = "release" /\ x.task = run[r].task
    BY <1>0 DEF RunState
  <2> HIDE DEF x, cp
  <2>3. new \in Row /\ new.position = cp.position /\ (new.status = "none" <=> cp.status = "none")
    BY <1>2, <1>5 DEF Row
  <2>4. Intact /\ Sure(r) => Due(m) \subseteq Stored
    BY <1>3, <2>1 DEF Sound
  <2>5. Sound(x, listing[m], Due(m), Stored)
    BY <2>2, Idle DEF Reading, Paging
  <2>6. Intact => /\ Covered(listing[m], Due(m), Stored, new.position)
                  /\ new.status = "completed" => Due(m) \subseteq Stored
    BY <1>4, <1>6, <2>3, <2>4
  <2> HIDE DEF new
  <2> QED
    BY <1>1, <2>1, <2>2, <2>3, <2>5, <2>6, Writes
<1> QED
  BY <1>8, <1>9, <1>10

-----------------------------------------------------------------------------
(* What the environment does *)

LEMMA DataArrive ==
    ASSUME TypeInv, DataInv, NEW m \in Mailbox, NEW msg \in Message, MailArrives(m, msg)
    PROVE  DataInv'
<1>0. RunTypes /\ DataTypes /\ OtherTypes /\ Shape
  BY Types DEF TypeInv
<1>1. /\ run' = run /\ checkpoint' = checkpoint /\ rows' = rows
      /\ happened \subseteq happened' /\ happened' \subseteq happened \cup {"arrive"}
      /\ listing' = [listing EXCEPT ![m] = <<msg>> \o @]
      /\ \A n \in Mailbox : msg \notin ToSet(listing[n])
  BY DEF MailArrives, dataVars
<1> SUFFICES ASSUME Intact' PROVE (\A n \in Mailbox : CursorOK(n)') /\ (\A s \in Run : WorkOK(s)')
  BY DEF DataInv
<1>2. Intact /\ Stored' = Stored
  BY <1>1 DEF Intact, Safe, Stored
<1>3. \A n \in Mailbox : listing[n] \in Seq(Message) /\ msg \notin Due(n)
                         /\ listing'[n] = IF n = m THEN <<msg>> \o listing[n] ELSE listing[n]
  BY <1>0, <1>1 DEF OtherTypes, Shape
<1>4. ASSUME NEW n \in Mailbox PROVE CursorOK(n)'
  <2>1. CursorOK(n) /\ checkpoint[n].position \in Nat
    BY <1>0, <1>2 DEF DataInv, DataTypes, Row
  <2>2. Covered(listing'[n], Due(n), Stored, checkpoint[n].position)
    <3>1. CASE n = m
      BY <1>3, <2>1, <3>1, CoveredArrives DEF CursorOK
    <3>2. CASE n # m
      BY <1>3, <2>1, <3>2 DEF CursorOK
    <3> QED
      BY <3>1, <3>2
  <2> QED
    BY <1>1, <1>2, <2>1, <2>2 DEF CursorOK
<1>5. ASSUME NEW s \in Run, Sure(s)'
      PROVE  Sound(run[s], listing'[MailboxOf(s)], Due(MailboxOf(s)), Stored)
  <2>1. CASE run[s].at = "rest"
    BY <2>1, Idle DEF Reading, Paging
  <2>2. CASE run[s].at # "rest"
    <3>1. MailboxOf(s) \in Mailbox
      BY <2>2, Placed
    <3>2. Sure(s)
      BY <1>1, <1>5 DEF Sure, Safe, MailboxOf
    <3>3. Sound(run[s], listing[MailboxOf(s)], Due(MailboxOf(s)), Stored)
      BY <1>2, <3>2 DEF DataInv, WorkOK
    <3>4. run[s].position \in Nat /\ Len(run[s].page) \in Nat
      BY <1>0 DEF RunTypes, RunState
    <3>5. Reach(run[s]) \in Nat
      BY <3>4 DEF Reach
    <3>6. CASE MailboxOf(s) = m
      BY <1>3, <3>1, <3>3, <3>5, <3>6, SoundArrives
    <3>7. CASE MailboxOf(s) # m
      BY <1>3, <3>1, <3>3, <3>7
    <3> QED
      BY <3>6, <3>7
  <2> QED
    BY <2>1, <2>2
<1> QED
  BY <1>1, <1>2, <1>4, <1>5 DEF WorkOK, MailboxOf

(* No cursor is left that says anything is stored, and no execution is sure. *)
LEMMA DataDisconnect ==
    ASSUME TypeInv, Disconnect
    PROVE  DataInv'
<1>1. "disconnect" \in happened' /\ checkpoint' = [m \in Mailbox |-> NoRow] /\ run' = run
  BY DEF Disconnect, Happens
<1>2. ASSUME NEW m \in Mailbox PROVE CursorOK(m)'
  <2>1. checkpoint'[m].position = 0 /\ checkpoint'[m].status = "none"
    BY <1>1 DEF NoRow
  <2> QED
    BY <2>1 DEF CursorOK, Covered
<1>3. ASSUME NEW r \in Run PROVE WorkOK(r)'
  <2>1. CASE run[r].at = "rest"
    <3>1. run'[r].at \notin Reading \cup {"complete"}
      BY <1>1, <2>1 DEF Reading, Paging
    <3> QED
      BY <3>1, Idle DEF WorkOK
  <2>2. CASE run[r].at # "rest"
    <3>1. MailboxOf(r) \in Mailbox
      BY <2>2, Placed
    <3>2. checkpoint'[MailboxOf(r)].status = "none"
      BY <1>1, <3>1 DEF NoRow
    <3> QED
      BY <1>1, <3>2 DEF WorkOK, Sure, Safe, MailboxOf
  <2> QED
    BY <2>1, <2>2
<1> QED
  BY <1>2, <1>3 DEF DataInv

LEMMA DataElsewhere ==
    ASSUME DataInv, happened \subseteq happened',
           run' = run, listing' = listing, checkpoint' = checkpoint, rows' = rows
    PROVE  DataInv'
<1> SUFFICES ASSUME Intact' PROVE (\A m \in Mailbox : CursorOK(m)') /\ (\A r \in Run : WorkOK(r)')
  BY DEF DataInv
<1>1. Intact /\ Stored' = Stored
  BY DEF Intact, Safe, Stored
<1>2. \A r \in Run : Sure(r)' => Sure(r)
  BY DEF Sure, Safe, MailboxOf
<1> QED
  BY <1>1, <1>2 DEF DataInv, CursorOK, WorkOK, MailboxOf

-----------------------------------------------------------------------------
(* Nothing is missed *)

LEMMA DataInit == MailboxInit => DataInv
<1> SUFFICES ASSUME MailboxInit PROVE DataInv
  OBVIOUS
<1>1. ASSUME NEW m \in Mailbox PROVE CursorOK(m)
  <2>1. checkpoint[m].position = 0 /\ checkpoint[m].status = "none"
    BY DEF MailboxInit, NoRow
  <2> QED
    BY <2>1 DEF CursorOK, Covered
<1>2. ASSUME NEW r \in Run PROVE WorkOK(r)
  <2>1. run[r].at \notin Reading \cup {"complete"}
    BY DEF MailboxInit, Resting, Reading, Paging
  <2> QED
    BY <2>1, Idle DEF WorkOK
<1> QED
  BY <1>1, <1>2 DEF DataInv

LEMMA DataStep == LockInv /\ TypeInv /\ DataInv /\ [MailboxNext]_mailboxVars => DataInv'
<1> SUFFICES ASSUME LockInv, TypeInv, DataInv, [MailboxNext]_mailboxVars PROVE DataInv'
  OBVIOUS
<1>0. happened \subseteq happened'
  BY Grown
<1>1. ASSUME NEW r \in Run,
             \/ \E t \in Task : Take(r, t)
             \/ SkipDuplicate(r) \/ Release(r) \/ WorkerDies(r)
             \/ Acquire(r) \/ ReportAlready(r) \/ Abandon(r)
      PROVE  DataInv'
  BY <1>0, <1>1, DataRest
<1>2. ASSUME NEW r \in Run,
             \/ ReadCheckpoint(r) \/ ReadToken(r) \/ CheckExisting(r)
             \/ InsertRows(r) \/ ReportPage(r)
      PROVE  DataInv'
  BY <1>0, <1>2, DataResume
<1>3. ASSUME NEW r \in Run, FetchPage(r) PROVE DataInv'
  BY <1>0, <1>3, DataFetch
<1>4. ASSUME NEW r \in Run, EnsureRow(r) \/ SaveCheckpoint(r) \/ MarkComplete(r) PROVE DataInv'
  <2>1. happened' = happened
    BY <1>4 DEF EnsureRow, SaveCheckpoint, MarkComplete, faultVars
  <2> QED
    BY <1>4, <2>1, DataSave
<1>5. ASSUME NEW m \in Mailbox, NEW msg \in Message, MailArrives(m, msg) PROVE DataInv'
  BY <1>5, DataArrive
<1>6. CASE Disconnect
  BY <1>6, DataDisconnect
<1>7. ASSUME NEW r \in Run, Redelivered(r) PROVE DataInv'
  BY <1>0, <1>7, DataElsewhere DEF Redelivered, mailVars, dataVars
<1>8. ASSUME NEW m \in Mailbox, LockLapses(m) PROVE DataInv'
  BY <1>0, <1>8, DataElsewhere DEF LockLapses, mailVars, dataVars
<1>9. CASE SyncStarts
  BY <1>0, <1>9, DataElsewhere DEF SyncStarts, dataVars
<1>10. CASE UNCHANGED mailboxVars
  BY <1>0, <1>10, DataElsewhere DEF mailboxVars
<1> QED
  BY <1>1, <1>2, <1>3, <1>4, <1>5, <1>6, <1>7, <1>8, <1>9, <1>10
  DEF MailboxNext, RunStep, Environment

LEMMA DataInvariant == MailboxSpec => [](LockInv /\ TypeInv /\ DataInv)
<1>1. MailboxInit => LockInv /\ TypeInv /\ DataInv
  BY LockInit, TypeInit, DataInit
<1>2. LockInv /\ TypeInv /\ DataInv /\ [MailboxNext]_mailboxVars
          => (LockInv /\ TypeInv /\ DataInv)'
  BY LockStep, TypeStep, DataStep
<1> QED
  BY <1>1, <1>2, PTL DEF MailboxSpec

(* A mailbox whose checkpoint says "completed" has a row for every message it held
   at first, and a later execution of _sync_one_mailbox goes on behind what is
   stored: through redeliveries, deaths, failures, arriving mail, and disconnects
   or lapsed locks. *)
THEOREM NothingMissedSafe == MailboxSpec => []NothingMissed
<1>1. TypeInv /\ DataInv => NothingMissed
  <2> SUFFICES ASSUME TypeInv, DataInv, Intact PROVE
          /\ \A m \in Done : ToSet(Contents[m]) \subseteq Stored
          /\ \A m \in Mailbox : \A i \in DOMAIN listing[m] :
                i <= checkpoint[m].position /\ listing[m][i] \in ToSet(Contents[m])
                    => listing[m][i] \in Stored
    BY DEF NothingMissed, CompletedMeansStored, CheckpointCovers
  <2>1. \A m \in Mailbox : CursorOK(m) /\ DOMAIN listing[m] = 1..Len(listing[m])
    BY DEF DataInv, TypeInv, MailboxTypeOK
  <2> QED
    BY <2>1 DEF CursorOK, Covered, Due, Done
<1> QED
  BY <1>1, DataInvariant, PTL

-----------------------------------------------------------------------------
(* The task implements module Backfill *)

(* While no lock lapses a mailbox that is done is not opened again. *)
OpenInv ==
    Safe({"lapse"}) =>
        \A r \in Run : run[r].at = "ensure" => checkpoint[MailboxOf(r)].status # "completed"

(* How an execution comes to these two steps, if it is not there already. *)
LEMMA Comes ==
    ASSUME TypeInv, [MailboxNext]_mailboxVars, NEW s \in Run, run'[s].at \in {"ensure", "insert"}
    PROVE  \/ run'[s] = run[s]
           \/ ReadCheckpoint(s) /\ run'[s].at = "ensure"
           \/ CheckExisting(s) /\ run'[s].at = "insert"
<1>0. run \in [Run -> RunState]
  BY Types DEF TypeInv, RunTypes
<1>1. ASSUME NEW r \in Run, NEW x, run' = [run EXCEPT ![r] = x], x.at \notin {"ensure", "insert"}
      PROVE  run'[s] = run[s]
  BY <1>0, <1>1
<1>2. ASSUME NEW r \in Run, NEW step, Goes(r, step), step \notin {"ensure", "insert"}
      PROVE  run'[s] = run[s]
  BY <1>0, <1>2 DEF Goes, RunState
<1>3. ASSUME NEW r \in Run, \E t \in Task : Take(r, t) PROVE run'[s] = run[s]
  BY <1>0, <1>3 DEF Take, RunState
<1>4. ASSUME NEW r \in Run, SkipDuplicate(r) \/ Release(r) \/ WorkerDies(r)
      PROVE  run'[s] = run[s]
  <2>1. run' = [run EXCEPT ![r] = Resting]
    BY <1>4 DEF SkipDuplicate, Release, WorkerDies
  <2>2. Resting.at \notin {"ensure", "insert"}
    BY DEF Resting
  <2> QED
    BY <1>1, <2>1, <2>2
<1>5. ASSUME NEW r \in Run,
             \/ Acquire(r) \/ ReportAlready(r) \/ EnsureRow(r) \/ ReadToken(r)
             \/ InsertRows(r) \/ MarkComplete(r) \/ Abandon(r)
      PROVE  run'[s] = run[s]
  BY <1>2, <1>5 DEF Acquire, ReportAlready, EnsureRow, ReadToken, InsertRows, MarkComplete, Abandon
<1>6. ASSUME NEW r \in Run, FetchPage(r) PROVE run'[s] = run[s]
  <2>1. \E page, count : \E step \in {"check", "complete"} :
           run' = [run EXCEPT ![r].at = step, ![r].page = page, ![r].count = count]
    BY <1>6, Zenon DEF FetchPage
  <2> QED
    BY <1>0, <2>1 DEF RunState
<1>7. ASSUME NEW r \in Run, SaveCheckpoint(r) PROVE run'[s] = run[s]
  BY <1>0, <1>7 DEF SaveCheckpoint, RunState
<1>8. ASSUME NEW r \in Run, ReportPage(r) PROVE run'[s] = run[s]
  BY <1>0, <1>8 DEF ReportPage, RunState
<1>9. ASSUME NEW r \in Run, ReadCheckpoint(r)
      PROVE  IF s = r THEN run'[s].at # "insert" ELSE run'[s] = run[s]
  BY <1>0, <1>9 DEF ReadCheckpoint, RunState
<1>10. ASSUME NEW r \in Run, CheckExisting(r)
      PROVE  IF s = r THEN run'[s].at # "ensure" ELSE run'[s] = run[s]
  BY <1>0, <1>10 DEF CheckExisting, RunState
<1>11. ASSUME run' = run PROVE run'[s] = run[s]
  BY <1>11
<1> QED
  BY <1>3, <1>4, <1>5, <1>6, <1>7, <1>8, <1>9, <1>10, <1>11
  DEF MailboxNext, RunStep, Environment, SyncStarts, Redelivered, LockLapses, MailArrives,
      Disconnect, mailboxVars

(* Only MarkComplete completes a mailbox; while it is open nothing else does. *)
LEMMA Completes ==
    ASSUME TypeInv, [MailboxNext]_mailboxVars, NEW m \in Mailbox,
           checkpoint'[m].status = "completed", checkpoint[m].status # "completed"
    PROVE  \E r \in Run : MarkComplete(r) /\ MailboxOf(r) = m
<1>0. checkpoint \in [Mailbox -> Row]
  BY Types DEF TypeInv, DataTypes
<1>1. ASSUME checkpoint' = checkpoint PROVE FALSE
  BY <1>1
<1>2. ASSUME NEW r \in Run, EnsureRow(r) PROVE FALSE
  BY <1>0, <1>2 DEF EnsureRow, Row, NoRow
<1>3. ASSUME NEW r \in Run, SaveCheckpoint(r) PROVE FALSE
  BY <1>0, <1>3 DEF SaveCheckpoint, Row
<1>4. ASSUME NEW r \in Run, MarkComplete(r), MailboxOf(r) # m PROVE FALSE
  BY <1>0, <1>4 DEF MarkComplete
<1>5. ASSUME Disconnect PROVE FALSE
  BY <1>5 DEF Disconnect, NoRow
<1> QED
  BY <1>1, <1>2, <1>3, <1>4, <1>5
  DEF MailboxNext, RunStep, Environment, dataVars, mailVars, mailboxVars, Take, Acquire, SkipDuplicate,
      ReadCheckpoint, ReportAlready, ReadToken, Abandon, FetchPage, CheckExisting, InsertRows,
      ReportPage, Release, SyncStarts, Redelivered, WorkerDies, LockLapses, MailArrives

LEMMA OpenStep == LockInv /\ TypeInv /\ OpenInv /\ [MailboxNext]_mailboxVars => OpenInv'
<1> SUFFICES ASSUME LockInv, TypeInv, OpenInv, [MailboxNext]_mailboxVars, Safe({"lapse"})',
                    NEW r \in Run, run'[r].at = "ensure",
                    checkpoint'[run'[r].task[2]].status = "completed"
             PROVE  FALSE
  BY DEF OpenInv, MailboxOf
<1>0. Safe({"lapse"}) /\ run \in [Run -> RunState]
  BY Grown, Types DEF Safe, TypeInv, RunTypes
<1>1. CASE ReadCheckpoint(r)
  BY <1>0, <1>1 DEF ReadCheckpoint, dataVars, RunState, MailboxOf
<1>2. CASE run'[r] = run[r]
  <2>1. MailboxOf(r) \in Mailbox /\ MailboxOf(r) = run'[r].task[2]
    BY <1>2, Placed DEF MailboxOf
  <2>2. checkpoint[MailboxOf(r)].status # "completed"
    BY <1>0, <1>2 DEF OpenInv
  <2>3. PICK s \in Run : MarkComplete(s) /\ MailboxOf(s) = MailboxOf(r)
    BY <2>1, <2>2, Completes
  <2>4. s # r /\ run[s].at \in Holding /\ run[r].at \in Holding
    BY <1>2, <2>3 DEF MarkComplete, Holding
  <2> QED
    BY <1>0, <2>3, <2>4 DEF LockInv, HoldersLock
<1> QED
  BY <1>1, <1>2, Comes

(* What a step stores and completes. *)
LEMMA PromiseStep ==
    ASSUME LockInv, TypeInv, DataInv, OpenInv, [MailboxNext]_mailboxVars, Safe({"lapse"})
    PROVE  [Promise!Next]_<<Stored, Done>>
<1>0. /\ checkpoint \in [Mailbox -> Row] /\ rows \in [Message -> Nat]
      /\ \A r \in Run : run[r] \in RunState
  BY Types DEF TypeInv, DataTypes, RunTypes
<1>1. ASSUME checkpoint' = checkpoint, rows' = rows PROVE UNCHANGED <<Stored, Done>>
  BY <1>1 DEF Stored, Done
<1>2. ASSUME rows' = rows, \A m \in Mailbox : checkpoint'[m].status = "completed"
                                               <=> checkpoint[m].status = "completed"
      PROVE  UNCHANGED <<Stored, Done>>
  BY <1>2 DEF Stored, Done
<1>3. ASSUME NEW r \in Run, EnsureRow(r) PROVE UNCHANGED <<Stored, Done>>
  <2>1. checkpoint[MailboxOf(r)].status # "completed" /\ MailboxOf(r) \in Mailbox
    BY <1>3, Placed DEF OpenInv, EnsureRow
  <2>2. \A m \in Mailbox : checkpoint'[m].status = "completed"
                             <=> checkpoint[m].status = "completed"
    BY <1>0, <1>3, <2>1 DEF EnsureRow, Row, NoRow
  <2> QED
    BY <1>2, <1>3, <2>2 DEF EnsureRow
<1>4. ASSUME NEW r \in Run, SaveCheckpoint(r) PROVE UNCHANGED <<Stored, Done>>
  <2>1. \A m \in Mailbox : checkpoint'[m].status = "completed"
                             <=> checkpoint[m].status = "completed"
    BY <1>0, <1>4 DEF SaveCheckpoint, Row
  <2> QED
    BY <1>2, <1>4, <2>1 DEF SaveCheckpoint
<1>5. ASSUME NEW r \in Run, MarkComplete(r) PROVE [Promise!Next]_<<Stored, Done>>
  <2>1. MailboxOf(r) \in Mailbox /\ rows' = rows
    BY <1>5, Placed DEF MarkComplete
  <2>2. CASE checkpoint[MailboxOf(r)].status = "none"
    <3>1. checkpoint' = checkpoint
      BY <1>0, <1>5, <2>1, <2>2 DEF MarkComplete
    <3> QED
      BY <1>1, <2>1, <3>1
  <2>3. CASE checkpoint[MailboxOf(r)].status # "none"
    <3>1. Sure(r) /\ Intact
      BY <2>3 DEF Sure, Intact
    <3>2. Due(MailboxOf(r)) \subseteq Stored
      BY <1>5, <3>1 DEF DataInv, WorkOK, Sound, MarkComplete
    <3>3. \A m \in Mailbox : checkpoint'[m].status = "completed"
                               <=> (m = MailboxOf(r) \/ checkpoint[m].status = "completed")
      BY <1>0, <1>5, <2>1, <2>3 DEF MarkComplete, Row
    <3>4. Done' = Done \cup {MailboxOf(r)} /\ Stored' = Stored
      BY <2>1, <3>3 DEF Done, Stored
    <3>5. Promise!Finish(MailboxOf(r))
      BY <2>1, <3>2, <3>4 DEF Promise!Finish, Due
    <3> QED
      BY <2>1, <3>5 DEF Promise!Next
  <2> QED
    BY <2>2, <2>3
<1>6. ASSUME NEW r \in Run, InsertRows(r) PROVE Promise!Next
  <2> DEFINE new == ToSet(run[r].page) \ run[r].known
  <2>1. run[r].page \in Seq(Message)
    BY <1>0 DEF RunState
  <2>2. new \subseteq Message
    BY <2>1, InSet
  <2>3. /\ \A msg \in Message : rows'[msg] = IF msg \in new THEN rows[msg] + 1 ELSE rows[msg]
        /\ checkpoint' = checkpoint
    BY <1>6 DEF InsertRows
  <2> HIDE DEF new
  <2>4. Stored' = Stored \cup new /\ Done' = Done
    BY <1>0, <2>2, <2>3 DEF Stored, Done
  <2>5. Promise!Store(new)
    BY <2>4 DEF Promise!Store
  <2> QED
    BY <2>2, <2>5 DEF Promise!Next
<1>7. ASSUME Disconnect PROVE Promise!Next
  <2>1. Stored' = {} /\ Done' = {}
    BY <1>7 DEF Disconnect, Stored, Done, NoRow
  <2> QED
    BY <2>1 DEF Promise!Next, Promise!Disconnect
<1> QED
  BY <1>1, <1>3, <1>4, <1>5, <1>6, <1>7
  DEF MailboxNext, RunStep, Environment, dataVars, mailVars, mailboxVars, Take, Acquire, SkipDuplicate,
      ReadCheckpoint, ReportAlready, ReadToken, Abandon, FetchPage, CheckExisting,
      ReportPage, Release, SyncStarts, Redelivered, WorkerDies, LockLapses, MailArrives

(* As long as no lock lapses _sync_one_mailbox does what module Backfill says:
   a mailbox is declared done only when what it held is stored, and only
   disconnecting takes it or a row back. *)
THEOREM BackfillKeepsPromise == MailboxSpec => KeepsPromise
<1>1. MailboxInit => OpenInv
  BY DEF MailboxInit, OpenInv, Resting
<1>2. MailboxSpec => [](LockInv /\ TypeInv /\ DataInv /\ OpenInv)
  BY <1>1, DataInvariant, OpenStep, PTL DEF MailboxSpec
<1>3. MailboxInit => Promise!Init
  BY DEF MailboxInit, Promise!Init, Stored, Done, NoRow
<1>4. LockInv /\ TypeInv /\ DataInv /\ OpenInv /\ [MailboxNext]_mailboxVars
          => [Safe({"lapse"}) => [Promise!Next]_<<Stored, Done>>]_mailboxVars
  BY PromiseStep
<1> QED
  BY <1>2, <1>3, <1>4, PTL DEF MailboxSpec, KeepsPromise

-----------------------------------------------------------------------------
(* Nothing is written twice *)

(* The executions about to insert a row of msg. *)
Pending(msg) ==
    {r \in Run : run[r].at = "insert" /\ msg \in ToSet(run[r].page) \ run[r].known}

(* The rows there are and those to come, until a lock lapses. *)
OnceInv ==
    Safe({"lapse"}) =>
        \A msg \in Message : rows[msg] + Cardinality(Pending(msg)) <= Cardinality(ListedIn(msg))

LEMMA Finite ==
    ASSUME NEW msg
    PROVE  /\ IsFiniteSet(Pending(msg)) /\ Cardinality(Pending(msg)) \in Nat
           /\ IsFiniteSet(Pending(msg)') /\ Cardinality(Pending(msg)') \in Nat
           /\ IsFiniteSet(ListedIn(msg)) /\ Cardinality(ListedIn(msg)) \in Nat
           /\ IsFiniteSet(ListedIn(msg)') /\ Cardinality(ListedIn(msg)') \in Nat
<1>1. /\ Pending(msg) \in SUBSET Run /\ Pending(msg)' \in SUBSET Run
      /\ ListedIn(msg) \in SUBSET Mailbox /\ ListedIn(msg)' \in SUBSET Mailbox
  BY DEF Pending, ListedIn
<1>2. IsFiniteSet(Run) /\ IsFiniteSet(Mailbox)
  BY BackfillAssumption
<1>3. /\ IsFiniteSet(Pending(msg)) /\ IsFiniteSet(Pending(msg)')
      /\ IsFiniteSet(ListedIn(msg)) /\ IsFiniteSet(ListedIn(msg)')
  BY <1>1, <1>2, FS_Subset
<1> QED
  BY <1>3, FS_CardinalityType

(* The mailboxes that list a message stay, and so does the bound. *)
LEMMA OnceFewer ==
    ASSUME TypeInv, [MailboxNext]_mailboxVars, NEW msg \in Message, Pending(msg)' \subseteq Pending(msg),
           rows'[msg] \in Nat, rows'[msg] <= rows[msg],
           rows[msg] + Cardinality(Pending(msg)) <= Cardinality(ListedIn(msg))
    PROVE  rows'[msg] + Cardinality(Pending(msg)') <= Cardinality(ListedIn(msg)')
<1>1. ListedIn(msg) \subseteq ListedIn(msg)'
  BY ListingGrows DEF ListedIn
<1>2. Cardinality(ListedIn(msg)) <= Cardinality(ListedIn(msg)')
  BY <1>1, Finite, FS_Subset
<1>3. Cardinality(Pending(msg)') <= Cardinality(Pending(msg))
  BY Finite, FS_Subset
<1>4. rows[msg] \in Nat
  BY Types DEF TypeInv, DataTypes
<1> QED
  BY <1>2, <1>3, <1>4, Finite

(* The executions that hold a page with the message are in different mailboxes,
   each of which lists it. *)
LEMMA OnceEach ==
    ASSUME LockInv', TypeInv', Safe({"lapse"})', NEW msg \in Message
    PROVE  Cardinality(Pending(msg)') <= Cardinality(ListedIn(msg)')
<1> DEFINE S == Pending(msg)'
           T == ListedIn(msg)'
           f == [r \in S |-> run'[r].task[2]]
<1>1. ASSUME NEW r \in S PROVE run'[r].task[2] \in T /\ run'[r].at \in Holding
  <2>1. run'[r].at = "insert" /\ msg \in ToSet(run'[r].page) /\ r \in Run
    BY <1>1 DEF Pending
  <2>2. run'[r].task \in Task /\ run'[r].task[2] \in Mailbox
    BY <2>1, TaskMailbox DEF TypeInv, MailboxTypeOK
  <2>3. RunShape(run'[r], listing'[run'[r].task[2]])
    BY <2>1 DEF TypeInv, Shape, MailboxOf
  <2>4. msg \in ToSet(listing'[run'[r].task[2]])
    BY <2>1, <2>3 DEF RunShape, Looking
  <2> QED
    BY <2>1, <2>2, <2>4 DEF ListedIn, Holding, Paging
<1>2. ASSUME NEW r \in S, NEW s \in S, run'[r].task[2] = run'[s].task[2] PROVE r = s
  <2>1. r \in Run /\ s \in Run
    BY DEF Pending
  <2> QED
    BY <1>1, <1>2, <2>1 DEF LockInv, HoldersLock, MailboxOf
<1> HIDE DEF S, T
<1>3. f \in Injection(S, T)
  BY <1>1, <1>2 DEF Injection, IsInjective
<1>4. IsFiniteSet(T)
  BY Finite DEF T
<1>5. Cardinality(S) <= Cardinality(T)
  BY <1>3, <1>4, FS_Injection
<1> QED
  BY <1>5 DEF S, T

LEMMA OnceStep ==
    LockInv /\ TypeInv /\ OnceInv /\ [MailboxNext]_mailboxVars => OnceInv'
<1> SUFFICES ASSUME LockInv, TypeInv, OnceInv, [MailboxNext]_mailboxVars, Safe({"lapse"})',
                    NEW msg \in Message
             PROVE  rows'[msg] + Cardinality(Pending(msg)') <= Cardinality(ListedIn(msg)')
  BY DEF OnceInv
<1>0. /\ Safe({"lapse"})
      /\ rows \in [Message -> Nat] /\ rows' \in [Message -> Nat] /\ run \in [Run -> RunState]
      /\ LockInv' /\ TypeInv'
  BY Grown, Types, DataTyped, LockStep, TypeStep DEF Safe, TypeInv, DataTypes, RunTypes
<1>1. rows[msg] + Cardinality(Pending(msg)) <= Cardinality(ListedIn(msg))
  BY <1>0 DEF OnceInv
<1>2. ASSUME NEW r \in Run, CheckExisting(r) PROVE
          rows'[msg] + Cardinality(Pending(msg)') <= Cardinality(ListedIn(msg)')
  <2>1. rows' = rows
    BY <1>2 DEF CheckExisting, dataVars
  <2>2. CASE rows[msg] = 0
    BY <1>0, <2>1, <2>2, OnceEach, Finite
  <2>3. CASE rows[msg] > 0
    <3>1. ASSUME NEW s \in Pending(msg)' PROVE s \in Pending(msg)
      <4>1. s \in Run /\ run'[s].at = "insert" /\ msg \in ToSet(run'[s].page) \ run'[s].known
        BY <3>1 DEF Pending
      <4>2. s # r
        BY <1>0, <1>2, <2>3, <4>1 DEF CheckExisting, RunState, Stored
      <4>3. run'[s] = run[s]
        BY <1>0, <1>2, <4>1, <4>2 DEF CheckExisting
      <4> QED
        BY <4>1, <4>3 DEF Pending
    <3> QED
      BY <1>0, <1>1, <2>1, <3>1, OnceFewer
  <2> QED
    BY <1>0, <2>2, <2>3
<1>3. ASSUME NEW r \in Run, InsertRows(r) PROVE
          rows'[msg] + Cardinality(Pending(msg)') <= Cardinality(ListedIn(msg)')
  <2>1. /\ rows'[msg] = IF r \in Pending(msg) THEN rows[msg] + 1 ELSE rows[msg]
        /\ listing' = listing /\ run[r].at = "insert"
    BY <1>3 DEF InsertRows, Pending, mailVars
  <2>2. Pending(msg)' = Pending(msg) \ {r}
    <3>1. \A s \in Run : IF s = r THEN run'[s].at = "save" ELSE run'[s] = run[s]
      BY <1>0, <1>3 DEF InsertRows, Goes, RunState
    <3> QED
      BY <3>1 DEF Pending
  <2>3. Cardinality(Pending(msg)') =
            IF r \in Pending(msg) THEN Cardinality(Pending(msg)) - 1 ELSE Cardinality(Pending(msg))
    BY <2>2, Finite, FS_RemoveElement
  <2>4. ListedIn(msg)' = ListedIn(msg)
    BY <2>1 DEF ListedIn
  <2> QED
    BY <1>0, <1>1, <2>1, <2>3, <2>4, Finite
<1>4. ASSUME \A r \in Run : ~CheckExisting(r) /\ ~InsertRows(r) PROVE
          rows'[msg] + Cardinality(Pending(msg)') <= Cardinality(ListedIn(msg)')
  <2>1. Pending(msg)' \subseteq Pending(msg)
    <3> SUFFICES ASSUME NEW s \in Pending(msg)' PROVE s \in Pending(msg)
      OBVIOUS
    <3>1. s \in Run /\ run'[s].at = "insert" /\ msg \in ToSet(run'[s].page) \ run'[s].known
      BY DEF Pending
    <3>2. run'[s] = run[s]
      BY <1>4, <3>1, Comes
    <3> QED
      BY <3>1, <3>2 DEF Pending
  <2>2. rows' = rows \/ Disconnect
    BY <1>4 DEF MailboxNext, RunStep, Environment, dataVars, mailboxVars, Take, Acquire,
      SkipDuplicate, ReadCheckpoint, ReportAlready, EnsureRow, ReadToken, Abandon, FetchPage,
      SaveCheckpoint, ReportPage, MarkComplete, Release, SyncStarts, Redelivered, WorkerDies,
      LockLapses, MailArrives
  <2>3. rows'[msg] <= rows[msg] /\ rows'[msg] \in Nat
    BY <1>0, <2>2 DEF Disconnect
  <2> QED
    BY <1>1, <2>1, <2>3, OnceFewer
<1> QED
  BY <1>2, <1>3, <1>4

(* The state is well formed, and as long as no lock lapses a message has at most
   one row for each mailbox that lists it, although persist_email_metadata looks
   before it inserts and no unique constraint stands behind it: the executions of
   one mailbox exclude each other, those of two mailboxes need not. *)
THEOREM MailboxSoundSafe == MailboxSpec => []MailboxSound
<1>1. MailboxInit => OnceInv
  <2> SUFFICES ASSUME MailboxInit, NEW msg \in Message
               PROVE  rows[msg] + Cardinality(Pending(msg)) <= Cardinality(ListedIn(msg))
    BY DEF OnceInv
  <2>1. rows[msg] = 0 /\ Pending(msg) = {}
    BY DEF MailboxInit, Pending, Resting
  <2> QED
    BY <2>1, Finite, FS_EmptySet
<1>2. MailboxSpec => [](LockInv /\ TypeInv /\ OnceInv)
  BY <1>1, LockInit, LockStep, TypeInit, TypeStep, OnceStep, PTL DEF MailboxSpec
<1>3. TypeInv /\ OnceInv => MailboxSound
  <2> SUFFICES ASSUME TypeInv, OnceInv, Safe({"lapse"}), NEW msg \in Message
               PROVE  rows[msg] <= Cardinality(ListedIn(msg))
    BY DEF TypeInv, MailboxSound, NoDuplicateRows
  <2>1. rows[msg] + Cardinality(Pending(msg)) <= Cardinality(ListedIn(msg)) /\ rows[msg] \in Nat
    BY Types DEF OnceInv, TypeInv, DataTypes
  <2> QED
    BY <2>1, Finite
<1> QED
  BY <1>2, <1>3, PTL
=============================================================================
