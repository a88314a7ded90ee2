-------------------------- MODULE MailboxBackfill --------------------------
(***************************************************************************)
(* The per-mailbox Celery task of tasks/email_tasks.py, _sync_one_mailbox, *)
(* with the Redis lock of email/sync_mailbox_lock.py that keeps a second   *)
(* execution out, the EmailSyncCheckpoint row it resumes from, the message *)
(* rows it writes and the progress counter it shares with the other        *)
(* mailboxes of the account.                                               *)
(*                                                                         *)
(* A task is delivered at least once: Celery acknowledges late, so the     *)
(* broker hands out another copy of a task that takes too long or whose    *)
(* worker died.  Every copy carries the SAME task id, which is the token   *)
(* it locks with.  The page loop never looks at the cancel flag.           *)
(***************************************************************************)
EXTENDS Integers, Sequences, FiniteSets, SequencesExt, FiniteSetsExt

CONSTANTS
    Run,        \* slots of the sync workers: at most this many executions
    NoRun,      \* nobody set the lock
    Mailbox,    \* the mailboxes of one account
    Message,    \* provider message ids
    Contents,   \* [Mailbox -> Seq(Message)] at first, newest message first
    BatchSize,  \* _BATCH_SIZE
    Free,       \* the lock key is missing
    MaxSyncs,   \* bound: syncs of the account that are ever started
    MaxFaults,  \* bound: redeliveries, crashes and disconnects together
    Faults      \* which of the faults below the environment may do

ASSUME BackfillAssumption ==
    /\ IsFiniteSet(Run) /\ IsFiniteSet(Mailbox)
    /\ NoRun \notin Run
    /\ Contents \in [Mailbox -> Seq(Message)]
    /\ \A m \in Mailbox : IsInjective(Contents[m])
    /\ BatchSize \in Nat \ {0}
    /\ MaxSyncs \in Nat /\ MaxFaults \in Nat
    /\ Free \notin (1..MaxSyncs) \X Mailbox
    /\ Faults \subseteq
          {"redeliver", "crash", "lapse", "fail", "arrive", "disconnect"}

VARIABLES
    listing,    \* the mailboxes at the provider, newest message first
    syncs,      \* number of syncs started so far
    queued,     \* copies of each task waiting in the broker
    run,        \* the executions
    lock,       \* the token each mailbox lock holds
    holder,     \* history: the execution that set it
    checkpoint, \* the EmailSyncCheckpoint row of each mailbox
    rows,       \* EmailMessage rows of each message
    current,    \* the counter of the progress hash
    total,      \* its total: what each mailbox adds to it
    faults,     \* faults so far
    happened    \* history: the kinds of fault so far

mailboxVars == <<listing, syncs, queued, run, lock, holder, checkpoint, rows,
                 current, total, faults, happened>>

mailVars == <<listing, syncs>>
lockVars == <<lock, holder>>
dataVars == <<checkpoint, rows>>
countVars == <<current, total>>
faultVars == <<faults, happened>>

-----------------------------------------------------------------------------
(* Tasks, executions and rows *)

\* One task per mailbox and sync; its id is the token of the lock.
Task == (1..MaxSyncs) \X Mailbox

NoRow == [status |-> "none", position |-> 0, processed |-> 0]
Row == [status : {"none", "in_progress", "completed"},
        position : Nat, processed : Nat]

Resting == [at |-> "rest", task |-> Free, position |-> 0, processed |-> 0,
            page |-> <<>>, known |-> {}, count |-> 0, row |-> FALSE]

\* The steps between taking the lock and giving it back; those of the page loop.
Paging == {"page", "check", "insert", "save", "report"}
Holding == {"read", "already", "ensure", "token", "complete", "release"} \cup Paging

MailboxOf(r) == run[r].task[2]
Goes(r, step) == run' = [run EXCEPT ![r].at = step]

Stored == {msg \in Message : rows[msg] > 0}
Done == {m \in Mailbox : checkpoint[m].status = "completed"}

MailboxTypeOK ==
    /\ listing \in [Mailbox -> Seq(Message)]
    /\ syncs \in 0..MaxSyncs
    /\ queued \in [Task -> Nat]
    /\ run \in [Run -> [at : {"rest", "lock"} \cup Holding, task : Task \cup {Free},
                        position : Nat, processed : Nat, page : Seq(Message),
                        known : SUBSET Message, count : Nat, row : BOOLEAN]]
    /\ \A r \in Run : (run[r].task = Free) <=> (run[r].at = "rest")
    /\ lock \in [Mailbox -> Task \cup {Free}]
    /\ holder \in [Mailbox -> Run \cup {NoRun}]
    /\ \A m \in Mailbox : (lock[m] = Free) <=> (holder[m] = NoRun)
    /\ checkpoint \in [Mailbox -> Row]
    /\ \A m \in Mailbox : checkpoint[m].position <= Len(listing[m])
    /\ rows \in [Message -> Nat]
    /\ current \in Nat /\ total \in [Mailbox -> Nat]
    /\ faults \in 0..MaxFaults
    /\ happened \subseteq Faults

MailboxInit ==
    /\ listing = Contents
    /\ syncs = 0
    /\ queued = [t \in Task |-> 0]
    /\ run = [r \in Run |-> Resting]
    /\ lock = [m \in Mailbox |-> Free]
    /\ holder = [m \in Mailbox |-> NoRun]
    /\ checkpoint = [m \in Mailbox |-> NoRow]
    /\ rows = [msg \in Message |-> 0]
    /\ current = 0 /\ total = [m \in Mailbox |-> 0]
    /\ faults = 0
    /\ happened = {}

-----------------------------------------------------------------------------
(* Starting a sync and taking a task *)

\* A sync resets the progress hash, sets the total to what the mailboxes hold and
\* enqueues one task per mailbox (the steps in between are those of module
\* EmailSync).
SyncStarts ==
    /\ syncs < MaxSyncs
    /\ syncs' = syncs + 1
    /\ queued' = [t \in Task |-> IF t[1] = syncs + 1 THEN 1 ELSE queued[t]]
    /\ current' = 0
    /\ total' = [m \in Mailbox |-> Len(listing[m])]
    /\ UNCHANGED <<listing, run, lockVars, dataVars, faultVars>>

Take(r, t) ==
    /\ run[r].at = "rest"
    /\ queued[t] > 0
    /\ queued' = [queued EXCEPT ![t] = @ - 1]
    /\ run' = [run EXCEPT ![r].at = "lock", ![r].task = t]
    /\ UNCHANGED <<mailVars, lockVars, dataVars, countVars, faultVars>>

\* SET NX EX: the winner goes on.
Acquire(r) ==
    /\ run[r].at = "lock"
    /\ lock[MailboxOf(r)] = Free
    /\ lock' = [lock EXCEPT ![MailboxOf(r)] = run[r].task]
    /\ holder' = [holder EXCEPT ![MailboxOf(r)] = r]
    /\ Goes(r, "read")
    /\ UNCHANGED <<mailVars, queued, dataVars, countVars, faultVars>>

\* Mutant of SkipDuplicate: the early return moved inside the try block, so
\* that the finally clause runs.
SkipDuplicateInsideTry(r) ==
    /\ run[r].at = "lock"
    /\ lock[MailboxOf(r)] # Free
    /\ Goes(r, "release")
    /\ UNCHANGED <<mailVars, queued, lockVars, dataVars, countVars, faultVars>>

\* Somebody has the lock: return before the try block, and the task is done.
SkipDuplicate(r) ==
    /\ run[r].at = "lock"
    /\ lock[MailboxOf(r)] # Free
    /\ run' = [run EXCEPT ![r] = Resting]
    /\ UNCHANGED <<mailVars, queued, lockVars, dataVars, countVars, faultVars>>

-----------------------------------------------------------------------------
(* Resuming from the checkpoint *)

ReadCheckpoint(r) ==
    LET cp == checkpoint[MailboxOf(r)] IN
    /\ run[r].at = "read"
    /\ run' = [run EXCEPT ![r].at = IF cp.status = "completed"
                                      THEN "already" ELSE "ensure",
                          ![r].row = cp.status # "none",
                          ![r].position = cp.position,
                          ![r].processed = cp.processed]
    /\ UNCHANGED <<mailVars, queued, lockVars, dataVars, countVars, faultVars>>

\* A mailbox synced before reports everything it holds, then returns.
ReportAlready(r) ==
    /\ run[r].at = "already"
    /\ current' = current + run[r].processed
    /\ Goes(r, "release")
    /\ UNCHANGED <<mailVars, queued, lockVars, dataVars, total, faultVars>>

\* Mutant of EnsureRow: a row is only ever updated.
EnsureRowUpdates(r) ==
    LET m == MailboxOf(r) IN
    /\ run[r].at = "ensure"
    /\ checkpoint' = [checkpoint EXCEPT ![m] =
          IF @.status # "none" THEN [@ EXCEPT !.status = "in_progress"] ELSE @]
    /\ Goes(r, "token")
    /\ UNCHANGED <<mailVars, queued, lockVars, rows, countVars, faultVars>>

\* Insert the row when none was READ; otherwise update it if it still exists.
EnsureRow(r) ==
    LET m == MailboxOf(r) IN
    /\ run[r].at = "ensure"
    /\ checkpoint' = [checkpoint EXCEPT ![m] =
          IF ~run[r].row THEN [NoRow EXCEPT !.status = "in_progress"]
          ELSE IF @.status # "none" THEN [@ EXCEPT !.status = "in_progress"]
          ELSE @]
    /\ Goes(r, "token")
    /\ UNCHANGED <<mailVars, queued, lockVars, rows, countVars, faultVars>>

\* The relay holds the key and the account a credential.
ReadToken(r) ==
    /\ run[r].at = "token"
    /\ Goes(r, "page")
    /\ UNCHANGED <<mailVars, queued, lockVars, dataVars, countVars, faultVars>>

\* No key, no credential, or the provider raises: through the finally clause.
Abandon(r) ==
    /\ "fail" \in Faults
    /\ run[r].at \in {"token", "page"}
    /\ Goes(r, "release")
    /\ UNCHANGED <<mailVars, queued, lockVars, dataVars, countVars, faultVars>>

-----------------------------------------------------------------------------
(* The page loop *)

\* Query and fetch one page.  An empty page ends the loop.
FetchPage(r) ==
    LET box == listing[MailboxOf(r)]
        from == run[r].position
        upto == Min({from + BatchSize, Len(box)})
    IN  /\ run[r].at = "page"
        /\ run' = [run EXCEPT ![r].at = IF from < Len(box)
                                          THEN "check" ELSE "complete",
                              ![r].page = SubSeq(box, from + 1, upto),
                              ![r].count = Len(box)]
        /\ UNCHANGED <<mailVars, queued, lockVars, dataVars, countVars, faultVars>>

\* persist_email_metadata first selects the messages that have a row...
CheckExisting(r) ==
    /\ run[r].at = "check"
    /\ run' = [run EXCEPT ![r].at = "insert",
                          ![r].known = ToSet(run[r].page) \cap Stored]
    /\ UNCHANGED <<mailVars, queued, lockVars, dataVars, countVars, faultVars>>

\* Mutant of InsertRows: rows for every message.
InsertRowsUnchecked(r) ==
    /\ run[r].at = "insert"
    /\ rows' = [msg \in Message |->
                   IF msg \in ToSet(run[r].page) THEN rows[msg] + 1 ELSE rows[msg]]
    /\ Goes(r, "save")
    /\ UNCHANGED <<mailVars, queued, lockVars, checkpoint, countVars, faultVars>>

\* ... then inserts the others.  No unique constraint stands behind it.
InsertRows(r) ==
    /\ run[r].at = "insert"
    /\ rows' = [msg \in Message |-> IF msg \in ToSet(run[r].page) \ run[r].known
                                    THEN rows[msg] + 1 ELSE rows[msg]]
    /\ Goes(r, "save")
    /\ UNCHANGED <<mailVars, queued, lockVars, checkpoint, countVars, faultVars>>

\* Advance the cursor, and the row if it still exists.
SaveCheckpoint(r) ==
    LET m == MailboxOf(r)
        position == run[r].position + Len(run[r].page)
        processed == run[r].processed + Len(run[r].page)
    IN  /\ run[r].at = "save"
        /\ run' = [run EXCEPT ![r].at = "report", ![r].position = position,
                              ![r].processed = processed, ![r].known = {}]
        /\ checkpoint' = [checkpoint EXCEPT ![m] =
              IF @.status = "none" THEN @
              ELSE [@ EXCEPT !.position = position, !.processed = processed]]
        /\ UNCHANGED <<mailVars, queued, lockVars, rows, countVars, faultVars>>

\* HINCRBY the shared counter; leave the loop at the total of this page.
ReportPage(r) ==
    /\ run[r].at = "report"
    /\ current' = current + Len(run[r].page)
    /\ run' = [run EXCEPT ![r].at = IF run[r].position < run[r].count
                                      THEN "page" ELSE "complete",
                          ![r].page = <<>>, ![r].count = 0]
    /\ UNCHANGED <<mailVars, queued, lockVars, dataVars, total, faultVars>>

\* Mutant of MarkComplete: the row of a disconnected account is put back.
MarkCompleteUpsert(r) ==
    LET m == MailboxOf(r) IN
    /\ run[r].at = "complete"
    /\ checkpoint' = [checkpoint EXCEPT ![m] =
          [@ EXCEPT !.status = "completed", !.processed = run[r].processed]]
    /\ Goes(r, "release")
    /\ UNCHANGED <<mailVars, queued, lockVars, rows, countVars, faultVars>>

MarkComplete(r) ==
    LET m == MailboxOf(r) IN
    /\ run[r].at = "complete"
    /\ checkpoint' = [checkpoint EXCEPT ![m] =
          IF @.status = "none" THEN @
          ELSE [@ EXCEPT !.status = "completed", !.processed = run[r].processed]]
    /\ Goes(r, "release")
    /\ UNCHANGED <<mailVars, queued, lockVars, rows, countVars, faultVars>>

\* Mutant of Release: an early return without the finally clause.
ReleaseForgets(r) ==
    /\ run[r].at = "release"
    /\ run' = [run EXCEPT ![r] = Resting]
    /\ UNCHANGED <<mailVars, queued, lockVars, dataVars, countVars, faultVars>>

\* Delete the key if it still holds this TOKEN, and acknowledge the task.
Release(r) ==
    LET m == MailboxOf(r)
        mine == lock[m] = run[r].task
    IN  /\ run[r].at = "release"
        /\ lock' = IF mine THEN [lock EXCEPT ![m] = Free] ELSE lock
        /\ holder' = IF mine THEN [holder EXCEPT ![m] = NoRun] ELSE holder
        /\ run' = [run EXCEPT ![r] = Resting]
        /\ UNCHANGED <<mailVars, queued, dataVars, countVars, faultVars>>

-----------------------------------------------------------------------------
(* The environment *)

Happens(kind) ==
    /\ kind \in Faults /\ faults < MaxFaults
    /\ faults' = faults + 1
    /\ happened' = happened \cup {kind}

\* The broker gives up on an execution that is still going on.
Redelivered(r) ==
    /\ Happens("redeliver")
    /\ run[r].at # "rest"
    /\ queued' = [queued EXCEPT ![run[r].task] = @ + 1]
    /\ UNCHANGED <<mailVars, run, lockVars, dataVars, countVars>>

\* A worker dies and its task goes back to the queue, or only the process in its
\* pool, and the task is acknowledged.  The lock stays.
WorkerDies(r) ==
    /\ Happens("crash")
    /\ run[r].at # "rest"
    /\ queued' = [queued EXCEPT ![run[r].task] = @ + 1] \/ UNCHANGED queued
    /\ run' = [run EXCEPT ![r] = Resting]
    /\ UNCHANGED <<mailVars, lockVars, dataVars, countVars>>

\* The lock outlives its hour: under an execution that is still paging (every
\* other step is one statement), or after the death of the one that set it.
LockLapses(m) ==
    /\ "lapse" \in Faults
    /\ lock[m] # Free
    /\ run[holder[m]].task = lock[m] => run[holder[m]].at \in Paging
    /\ lock' = [lock EXCEPT ![m] = Free]
    /\ holder' = [holder EXCEPT ![m] = NoRun]
    /\ happened' = happened \cup {"lapse"}
    /\ UNCHANGED <<mailVars, queued, run, dataVars, countVars, faults>>

\* New mail is listed first and shifts every position.
MailArrives(m, msg) ==
    /\ "arrive" \in Faults
    /\ \A n \in Mailbox : msg \notin ToSet(listing[n])
    /\ listing' = [listing EXCEPT ![m] = <<msg>> \o @]
    /\ happened' = happened \cup {"arrive"}
    /\ UNCHANGED <<syncs, queued, run, lockVars, dataVars, countVars, faults>>

\* Mutant of Disconnect: the checkpoints are left behind.
DisconnectKeepsCheckpoints ==
    /\ Happens("disconnect")
    /\ rows' = [msg \in Message |-> 0]
    /\ UNCHANGED <<mailVars, queued, run, lockVars, checkpoint, countVars>>

\* Disconnecting deletes rows and checkpoints in one transaction.  It also sets
\* the cancel flag, which no step of this task reads.
Disconnect ==
    /\ Happens("disconnect")
    /\ rows' = [msg \in Message |-> 0]
    /\ checkpoint' = [m \in Mailbox |-> NoRow]
    /\ UNCHANGED <<mailVars, queued, run, lockVars, countVars>>

-----------------------------------------------------------------------------

RunStep(r) ==
    \/ \E t \in Task : Take(r, t)
    \/ Acquire(r) \/ SkipDuplicate(r)
    \/ ReadCheckpoint(r) \/ ReportAlready(r) \/ EnsureRow(r) \/ ReadToken(r)
    \/ FetchPage(r) \/ CheckExisting(r) \/ InsertRows(r)
    \/ SaveCheckpoint(r) \/ ReportPage(r) \/ MarkComplete(r)
    \/ Release(r)

Environment ==
    \/ SyncStarts
    \/ \E r \in Run : Abandon(r) \/ Redelivered(r) \/ WorkerDies(r)
    \/ \E m \in Mailbox : LockLapses(m)
    \/ \E m \in Mailbox, msg \in Message : MailArrives(m, msg)
    \/ Disconnect

MailboxNext == (\E r \in Run : RunStep(r)) \/ Environment

MailboxSpec == MailboxInit /\ [][MailboxNext]_mailboxVars

\* A worker goes on with what it does and takes the next task when it is done.
FairMailboxSpec == MailboxSpec /\ \A r \in Run : WF_mailboxVars(RunStep(r))

-----------------------------------------------------------------------------
(* Properties.  Several hold only while some kind of fault has not happened:
   the condition names it. *)

Safe(kinds) == happened \cap kinds = {}

\* sync_mailbox_lock.py: no two executions work on one mailbox, as long as no
\* lock outlives its hour.
LockExclusive ==
    Safe({"lapse"}) =>
        \A r, s \in Run :
            r # s /\ run[r].at \in Holding /\ run[s].at \in Holding
                => MailboxOf(r) # MailboxOf(s)

\* The finally clause of _sync_one_mailbox: a lock that is set belongs to an
\* execution that is under way, whichever way the ones before it ended, as long
\* as no execution crashed.
LockHasLiveHolder ==
    Safe({"lapse", "crash"}) =>
        \A m \in Mailbox : lock[m] # Free =>
            run[holder[m]].at \in Holding /\ run[holder[m]].task = lock[m]

\* The cursor and the rows survive redeliveries, crashes, resumptions, arriving
\* mail and lapsed locks, and also disconnects, but not a lapsed lock AND a
\* disconnect: then the execution that lost its lock moves the cursor of the row
\* that the next sync made.
Intact == Safe({"lapse"}) \/ Safe({"disconnect"})

\* A mailbox whose checkpoint says "completed" has a row for every message it
\* held at first.  Nothing ever backfills a completed mailbox again, so a
\* message missing here is missing for good.
CompletedMeansStored ==
    Intact => \A m \in Done : ToSet(Contents[m]) \subseteq Stored

\* Resuming is sound: everything listed before the saved position is stored,
\* but for mail that arrived since.
CheckpointCovers ==
    Intact =>
        \A m \in Mailbox : \A i \in DOMAIN listing[m] :
            i <= checkpoint[m].position /\ listing[m][i] \in ToSet(Contents[m])
                => listing[m][i] \in Stored

\* The mailboxes that list a message: a provider message may be in several.
ListedIn(msg) == {m \in Mailbox : msg \in ToSet(listing[m])}

\* persist_email_metadata looks, then inserts, without a unique constraint.  The
\* executions of one mailbox never write a message twice while they exclude each
\* other; those of two mailboxes that both list it may each write it once.
NoDuplicateRows ==
    Safe({"lapse"}) => \A msg \in Message : rows[msg] <= Cardinality(ListedIn(msg))

\* As many rows of a message as mailboxes, in a well-formed state.
MailboxSound == MailboxTypeOK /\ NoDuplicateRows

\* No message is missed: not by a mailbox that is done and not by a cursor that
\* a later execution will go on from.
NothingMissed == CompletedMeansStored /\ CheckpointCovers

\* Without crashes and errors every mailbox is completed once a sync started:
\* the copies that skip never leave the work to nobody.
BackfillEnds == syncs > 0 ~> Done = Mailbox

Promise == INSTANCE Backfill WITH
    Due <- [m \in Mailbox |-> ToSet(Contents[m])], stored <- Stored, done <- Done

\* As long as no lock lapses the task implements module Backfill: a mailbox is
\* declared done only when it is stored, and it and its rows stay, disconnecting
\* aside.
KeepsPromise ==
    /\ Promise!Init
    /\ [][Safe({"lapse"}) => [Promise!Next]_<<Stored, Done>>]_mailboxVars
=============================================================================
