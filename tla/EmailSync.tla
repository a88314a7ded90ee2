------------------------------ MODULE EmailSync ------------------------------
(***************************************************************************)
(* One sync of an email account, from the click to the searchable mailbox: *)
(* a chain of Celery tasks that know of each other only through Redis and  *)
(* the database.  email/sync_engine.py starts it, tasks/email_tasks.py is  *)
(* the parent, its children, the watchdog and the callback,                *)
(* tasks/email_indexing_tasks.py the indexing job behind it.               *)
(*                                                                         *)
(* The accounts are those of ONE user: they share one relayed key, which   *)
(* every task of the chain peeks at and the indexing job takes away.       *)
(* What a child does with its mailbox is module MailboxBackfill.           *)
(***************************************************************************)
EXTENDS Integers, FiniteSets

CONSTANTS
    Account,    \* the email accounts of one user
    Mailbox,    \* mailboxes of an account
    Legacy,     \* accounts synced before indexing_status existed
    Worlds,     \* bound: what the accounts may look like at first
    MaxSyncs,   \* bound: connects, Beat ticks and logins together
    MaxPolls,   \* _MAX_POLL_ATTEMPTS
    MaxFaults,  \* bound: the faults below together, logins aside
    Faults      \* which of the faults below the environment may do

ASSUME EmailAssumption ==
    /\ IsFiniteSet(Account) /\ Account # {}
    /\ IsFiniteSet(Mailbox)
    /\ Legacy \subseteq Account
    /\ Worlds \subseteq [boxes : [Account -> SUBSET Mailbox],
                        chunks : [Account -> SUBSET Mailbox], sparse : SUBSET Legacy]
    /\ \A w \in Worlds : \A a \in Account \ Legacy : w.chunks[a] = {}
    /\ MaxSyncs \in Nat /\ MaxPolls \in Nat /\ MaxFaults \in Nat
    /\ Faults \subseteq {"crash", "kill", "fail", "lapse", "disconnect", "login"}

VARIABLES
    boxes,      \* the mailboxes the provider lists for each account
    linked,     \* the EmailAccount row exists and is not deleted
    cancel,     \* the cancel flag of each account
    bar,        \* the progress hash: what its last writer said
    key,        \* the relay holds the user's key
    cp,         \* EmailSyncCheckpoint.status of each mailbox
    mail,       \* mailboxes with EmailMessage rows
    chunks,     \* mailboxes whose threads all have body chunks
    sparse,     \* accounts with chunks for some threads of another mailbox
    indexing,   \* EmailAccount.indexing_status
    tasks,      \* tasks and handlers that are waiting or under way
    syncs,      \* syncs and logins so far
    runs,       \* history: those that concerned each account
    settled,    \* history: its callback, or a login, recorded it
    faults,     \* faults so far
    happened,   \* history: the faults so far, stalls, cleared cancel flags, and
                \*   accounts that a login took for complete although they were not
    overtaken   \* history: mailboxes whose chunks were being written when a
                \*   disconnect of their account set the flag

emailVars == <<boxes, linked, cancel, bar, key, cp, mail, chunks, sparse, indexing,
               tasks, syncs, runs, settled, faults, happened, overtaken>>

accountVars == <<boxes, linked, sparse, overtaken>>
mailVars == <<cp, mail>>
indexVars == <<chunks, indexing>>
startVars == <<syncs, runs>>
faultVars == <<faults, happened>>

-----------------------------------------------------------------------------
(* Tasks *)

\* serial: the sync or login a task belongs to; copy: how often it was handed
\* out again; of: its mailboxes, or the accounts a disconnect found; writes: those
\* whose chunks are in an open transaction; polls: the attempts of a watchdog.
Tasks ==
    [kind : {"signal", "parent", "child", "watchdog", "callback", "index", "retry",
             "login", "disconnect"},
     acct : Account, serial : 0..MaxSyncs, copy : 0..MaxFaults,
     of : SUBSET (Mailbox \cup Account), writes : SUBSET Mailbox,
     polls : 0..MaxPolls,
     at : {"queued", "enqueue", "list", "fetch", "complete", "process", "recheck",
           "finish", "plan", "embed", "persist"}]

NewTask(kind, a, serial, copy, of) ==
    [kind |-> kind, acct |-> a, serial |-> serial, copy |-> copy, of |-> of,
     writes |-> {}, polls |-> 0, at |-> "queued"]

Becomes(t, new) == tasks' = (tasks \ {t}) \cup new
Goes(t, step) == Becomes(t, {[t EXCEPT !.at = step]})
Ends(t) == Becomes(t, {})

Is(t, kind, step) == t.kind = kind /\ t.at = step
Indexes(t) == t.kind \in {"index", "retry"}

Completed(a) == {m \in Mailbox : cp[a][m] = "completed"}
Searchable(a) == mail[a] \subseteq chunks[a]

\* finish_sync clears the cancel flag, whoever set it and for whatever sync.
ClearsFlag(a) == cancel' = [cancel EXCEPT ![a] = FALSE]
FinishSync(a) ==
    /\ ClearsFlag(a)
    /\ happened' = IF cancel[a] THEN happened \cup {"cleared"} ELSE happened
Says(a, state) == bar' = [bar EXCEPT ![a] = state]
MarksPending(a) == indexing' = [indexing EXCEPT ![a] = "pending"]

\* _retry_pending_indexing: one job for every pending account of the user.
Retries(t) ==
    {NewTask("retry", a, t.serial, t.copy, {}) :
        a \in {b \in Account : indexing[b] = "pending" /\ linked[b]}}

Happens(kind) ==
    /\ kind \in Faults /\ faults < MaxFaults
    /\ faults' = faults + 1
    /\ happened' = happened \cup {kind}

EmailTypeOK ==
    /\ boxes \in [Account -> SUBSET Mailbox]
    /\ linked \in [Account -> BOOLEAN]
    /\ cancel \in [Account -> BOOLEAN]
    /\ bar \in [Account -> {"idle", "active", "ok", "failed"}]
    /\ key \in BOOLEAN
    /\ cp \in [Account -> [Mailbox -> {"none", "in_progress", "completed"}]]
    /\ mail \in [Account -> SUBSET Mailbox]
    /\ chunks \in [Account -> SUBSET Mailbox]
    /\ sparse \subseteq Account
    /\ indexing \in [Account -> {"none", "pending", "complete"}]
    /\ tasks \subseteq Tasks
    /\ syncs \in 0..MaxSyncs
    /\ runs \in [Account -> 0..MaxSyncs]
    /\ settled \in [Account -> BOOLEAN]
    /\ faults \in 0..MaxFaults
    /\ happened \subseteq Faults \cup {"stall", "cleared", "waived"}
    /\ overtaken \in [Account -> SUBSET Mailbox]

EmailInit ==
    /\ \E w \in Worlds : boxes = w.boxes /\ chunks = w.chunks /\ sparse = w.sparse
    /\ linked = [a \in Account |-> a \in Legacy]
    /\ cancel = [a \in Account |-> FALSE]
    /\ bar = [a \in Account |-> "idle"]
    /\ key = FALSE
    /\ cp = [a \in Account |-> [m \in Mailbox |->
                IF a \in Legacy /\ m \in boxes[a] THEN "completed" ELSE "none"]]
    /\ mail = [a \in Account |-> IF a \in Legacy THEN boxes[a] ELSE {}]
    /\ indexing = [a \in Account |-> "none"]
    /\ tasks = {}
    /\ syncs = 0
    /\ runs = [a \in Account |-> 0]
    /\ settled = [a \in Account |-> FALSE]
    /\ faults = 0
    /\ happened = {}
    /\ overtaken = [a \in Account |-> {}]

-----------------------------------------------------------------------------
(* Starting: the connect signal, the Beat tick, the login *)

Begins(kind, concerned, a, of) ==
    /\ syncs < MaxSyncs
    /\ syncs' = syncs + 1
    /\ runs' = [b \in Account |-> IF b \in concerned THEN runs[b] + 1 ELSE runs[b]]
    /\ tasks' = tasks \cup {NewTask(kind, a, syncs, 0, of)}

\* The row is inserted, or a deleted one reactivated: indexing_status stays.  Then
\* the signal handler clears a stale cancellation, resets the progress and relays
\* the key, if the session still has it.
Connect(a) ==
    /\ Begins("signal", {a}, a, {})
    /\ linked' = [linked EXCEPT ![a] = TRUE]
    /\ settled' = [settled EXCEPT ![a] = FALSE]
    /\ FinishSync(a)
    /\ Says(a, "active")
    /\ \E live \in BOOLEAN : key' = (key \/ live)
    /\ UNCHANGED <<boxes, sparse, overtaken, mailVars, indexVars, faults>>

SignalEnqueues(t) ==
    /\ Is(t, "signal", "queued")
    /\ Becomes(t, {NewTask("parent", t.acct, t.serial, 0, {})} \cup Retries(t))
    /\ UNCHANGED <<accountVars, cancel, bar, key, mailVars, indexVars, startVars,
                   settled, faultVars>>

\* The periodic trigger has no key and enqueues the parent alone.
BeatTick(a) ==
    /\ linked[a]
    /\ Begins("parent", {a}, a, {})
    /\ UNCHANGED <<accountVars, cancel, bar, key, mailVars, indexVars, settled,
                   faultVars>>

\* The threads that have chunks against nine tenths of those that have messages:
\* with only some of them indexed it may go either way.
Recovered(a) ==
    IF Searchable(a) THEN {"complete"}
    ELSE IF a \in sparse \/ mail[a] \cap chunks[a] # {} THEN {"pending", "complete"}
    ELSE {"pending"}

\* A login with linked accounts: those without an indexing_status get one, and the
\* key is relayed...
LoginRecovers ==
    LET unknown == {a \in Account : linked[a] /\ indexing[a] = "none"} IN
    /\ "login" \in Faults
    /\ \E a \in Account : linked[a]
    /\ Begins("login", Account, CHOOSE a \in Account : TRUE, {})
    /\ indexing' \in [Account -> {"none", "pending", "complete"}]
    /\ \A a \in Account :
          indexing'[a] \in IF a \in unknown THEN Recovered(a) ELSE {indexing[a]}
    /\ key' = TRUE
    /\ settled' = [a \in Account |-> settled[a] \/ a \in unknown]
    /\ happened' = happened \cup {"login"} \cup
          IF \E a \in unknown : indexing'[a] = "complete" /\ ~Searchable(a)
          THEN {"waived"} ELSE {}
    /\ UNCHANGED <<accountVars, cancel, bar, mailVars, chunks, faults>>

\* ... then whatever is pending is retried.
LoginEnqueues(t) ==
    /\ Is(t, "login", "queued")
    /\ Becomes(t, Retries(t))
    /\ UNCHANGED <<accountVars, cancel, bar, key, mailVars, indexVars, startVars,
                   settled, faultVars>>

-----------------------------------------------------------------------------
(* The parent: sync_email_account *)

\* No key: not a failure, so the progress is left as it is.
ParentSkips(t) ==
    /\ Is(t, "parent", "queued")
    /\ ~key
    /\ FinishSync(t.acct)
    /\ Ends(t)
    /\ UNCHANGED <<accountVars, bar, key, mailVars, indexVars, startVars, settled,
                   faults>>

\* Nothing downstream will consume the key: it is deleted here.
ParentFindsDeleted(t) ==
    /\ Is(t, "parent", "queued")
    /\ key /\ ~linked[t.acct]
    /\ Says(t.acct, "failed")
    /\ FinishSync(t.acct)
    /\ key' = FALSE
    /\ Ends(t)
    /\ UNCHANGED <<accountVars, mailVars, indexVars, startVars, settled, faults>>

ParentBegins(t) ==
    /\ Is(t, "parent", "queued")
    /\ key /\ linked[t.acct]
    /\ Goes(t, "list")
    /\ UNCHANGED <<accountVars, cancel, bar, key, mailVars, indexVars, startVars,
                   settled, faultVars>>

ParentFindsNoMailboxes(t) ==
    /\ Is(t, "parent", "list")
    /\ boxes[t.acct] = {}
    /\ Says(t.acct, "ok")
    /\ FinishSync(t.acct)
    /\ key' = FALSE
    /\ Ends(t)
    /\ UNCHANGED <<accountVars, mailVars, indexVars, startVars, settled, faults>>

Children(t, some) ==
    {NewTask("child", t.acct, t.serial, t.copy, {m}) : m \in some}

\* Probe and announce the total, then enqueue one child per mailbox and the
\* watchdog, which is told how many there are.  One step, unless the parent is
\* stopped in between (Dies, Raises).
ParentDispatches(t) ==
    LET all == boxes[t.acct] IN
    /\ Is(t, "parent", "list")
    /\ all # {}
    /\ Says(t.acct, "active")
    /\ Becomes(t, Children(t, all)
                  \cup {NewTask("watchdog", t.acct, t.serial, t.copy, all)})
    /\ UNCHANGED <<accountVars, cancel, key, mailVars, indexVars, startVars, settled,
                   faultVars>>

-----------------------------------------------------------------------------
(* The children: _sync_one_mailbox, in outline *)

MailboxOf(t) == CHOOSE m \in t.of : TRUE

ChildAlreadyDone(t) ==
    /\ Is(t, "child", "queued")
    /\ cp[t.acct][MailboxOf(t)] = "completed"
    /\ Says(t.acct, "active")
    /\ Ends(t)
    /\ UNCHANGED <<accountVars, cancel, key, mailVars, indexVars, startVars, settled,
                   faultVars>>

\* No key: the checkpoint row is there, the mailbox stays unfinished.
ChildFindsNoKey(t) ==
    /\ Is(t, "child", "queued")
    /\ cp[t.acct][MailboxOf(t)] # "completed"
    /\ ~key
    /\ cp' = [cp EXCEPT ![t.acct][MailboxOf(t)] = "in_progress"]
    /\ Ends(t)
    /\ UNCHANGED <<accountVars, cancel, bar, key, mail, indexVars, startVars, settled,
                   faultVars>>

\* A deleted account keeps its credential: the child does not notice.
ChildBegins(t) ==
    /\ Is(t, "child", "queued")
    /\ cp[t.acct][MailboxOf(t)] # "completed"
    /\ key
    /\ cp' = [cp EXCEPT ![t.acct][MailboxOf(t)] = "in_progress"]
    /\ Goes(t, "fetch")
    /\ UNCHANGED <<accountVars, cancel, bar, key, mail, indexVars, startVars, settled,
                   faultVars>>

\* The pages; nothing here looks at the cancel flag.
ChildFetches(t) ==
    /\ Is(t, "child", "fetch")
    /\ mail' = [mail EXCEPT ![t.acct] = @ \cup t.of]
    /\ Says(t.acct, "active")
    /\ Goes(t, "complete")
    /\ UNCHANGED <<accountVars, cancel, key, cp, indexVars, startVars, settled,
                   faultVars>>

\* The checkpoint is completed if it still exists.
ChildCompletes(t) ==
    /\ Is(t, "child", "complete")
    /\ cp' = [cp EXCEPT ![t.acct][MailboxOf(t)] =
                 IF @ = "none" THEN @ ELSE "completed"]
    /\ Ends(t)
    /\ UNCHANGED <<accountVars, cancel, bar, key, mail, indexVars, startVars, settled,
                   faultVars>>

-----------------------------------------------------------------------------
(* The watchdog: _await_mailbox_sync *)

WatchdogStops(t) ==
    /\ Is(t, "watchdog", "queued")
    /\ cancel[t.acct]
    /\ FinishSync(t.acct)
    /\ Ends(t)
    /\ UNCHANGED <<accountVars, bar, key, mailVars, indexVars, startVars, settled,
                   faults>>

\* Mutant of WatchdogDispatches: every checkpoint counts, whatever its status.
WatchdogCountsRows(t) ==
    /\ Is(t, "watchdog", "queued")
    /\ ~cancel[t.acct]
    /\ Cardinality({m \in Mailbox : cp[t.acct][m] # "none"}) >= Cardinality(t.of)
    /\ Becomes(t, {NewTask("callback", t.acct, t.serial, t.copy, t.of)})
    /\ UNCHANGED <<accountVars, cancel, bar, key, mailVars, indexVars, startVars,
                   settled, faultVars>>

\* It compares two numbers: the checkpoints of the account that are completed,
\* and the mailboxes the parent found.
WatchdogDispatches(t) ==
    /\ Is(t, "watchdog", "queued")
    /\ ~cancel[t.acct]
    /\ Cardinality(Completed(t.acct)) >= Cardinality(t.of)
    /\ Becomes(t, {NewTask("callback", t.acct, t.serial, t.copy, t.of)})
    /\ UNCHANGED <<accountVars, cancel, bar, key, mailVars, indexVars, startVars,
                   settled, faultVars>>

\* Mutant of WatchdogPolls: the attempt is not counted.
WatchdogForgetsAttempt(t) ==
    /\ Is(t, "watchdog", "queued")
    /\ ~cancel[t.acct]
    /\ Cardinality(Completed(t.acct)) < Cardinality(t.of)
    /\ Becomes(t, {t})
    /\ UNCHANGED <<accountVars, cancel, bar, key, mailVars, indexVars, startVars,
                   settled, faultVars>>

WatchdogPolls(t) ==
    /\ Is(t, "watchdog", "queued")
    /\ ~cancel[t.acct]
    /\ Cardinality(Completed(t.acct)) < Cardinality(t.of)
    /\ t.polls < MaxPolls
    /\ Becomes(t, {[t EXCEPT !.polls = @ + 1]})
    /\ UNCHANGED <<accountVars, cancel, bar, key, mailVars, indexVars, startVars,
                   settled, faultVars>>

\* The last attempt failed: the sync stalled.
WatchdogGivesUp(t) ==
    /\ Is(t, "watchdog", "queued")
    /\ ~cancel[t.acct]
    /\ Cardinality(Completed(t.acct)) < Cardinality(t.of)
    /\ t.polls >= MaxPolls
    /\ Says(t.acct, "failed")
    /\ ClearsFlag(t.acct)
    /\ Ends(t)
    /\ happened' = happened \cup {"stall"}
    /\ UNCHANGED <<accountVars, key, mailVars, indexVars, startVars, settled, faults>>

-----------------------------------------------------------------------------
(* The callback: _sync_callback *)

\* No key: indexing is left to a later session.
CallbackFindsNoKey(t) ==
    /\ Is(t, "callback", "queued")
    /\ ~key
    /\ MarksPending(t.acct)
    /\ FinishSync(t.acct)
    /\ Ends(t)
    /\ UNCHANGED <<accountVars, bar, key, mailVars, chunks, startVars, settled,
                   faults>>

\* Mutant of CallbackBegins: the key is consumed (the default of task_dek_scope).
CallbackConsumesKey(t) ==
    /\ Is(t, "callback", "queued")
    /\ key
    /\ key' = FALSE
    /\ Goes(t, "process")
    /\ UNCHANGED <<accountVars, cancel, bar, mailVars, indexVars, startVars, settled,
                   faultVars>>

CallbackBegins(t) ==
    /\ Is(t, "callback", "queued")
    /\ key
    /\ Goes(t, "process")
    /\ UNCHANGED <<accountVars, cancel, bar, key, mailVars, indexVars, startVars,
                   settled, faultVars>>

\* The pipeline reports progress; a cancel flag cuts it short.
CallbackProcesses(t) ==
    /\ Is(t, "callback", "process")
    /\ bar' = IF mail[t.acct] # {} /\ ~cancel[t.acct]
              THEN [bar EXCEPT ![t.acct] = "active"] ELSE bar
    /\ Goes(t, "recheck")
    /\ UNCHANGED <<accountVars, cancel, key, mailVars, indexVars, startVars, settled,
                   faultVars>>

CallbackFindsGone(t) ==
    /\ Is(t, "callback", "recheck")
    /\ ~linked[t.acct] \/ cancel[t.acct]
    /\ FinishSync(t.acct)
    /\ Ends(t)
    /\ UNCHANGED <<accountVars, bar, key, mailVars, indexVars, startVars, settled,
                   faults>>

\* Re-check, mark connected and commit: one transaction.
CallbackCommits(t) ==
    /\ Is(t, "callback", "recheck")
    /\ linked[t.acct] /\ ~cancel[t.acct]
    /\ settled' = [settled EXCEPT ![t.acct] = TRUE]
    /\ Goes(t, "enqueue")
    /\ UNCHANGED <<accountVars, cancel, bar, key, mailVars, indexVars, startVars,
                   faultVars>>

\* Indexing is enqueued before the result is reported.
CallbackEnqueues(t) ==
    /\ Is(t, "callback", "enqueue")
    /\ Becomes(t, {[t EXCEPT !.at = "finish"],
                   NewTask("index", t.acct, t.serial, t.copy, {})})
    /\ UNCHANGED <<accountVars, cancel, bar, key, mailVars, indexVars, startVars,
                   settled, faultVars>>

CallbackFinishes(t) ==
    /\ Is(t, "callback", "finish")
    /\ Says(t.acct, "ok")
    /\ FinishSync(t.acct)
    /\ Ends(t)
    /\ UNCHANGED <<accountVars, key, mailVars, indexVars, startVars, settled,
                   faults>>

-----------------------------------------------------------------------------
(* The indexing job: _index_email_bodies_background *)

\* Mutant of IndexFindsNoKey: the account is not marked.
IndexGivesUp(t) ==
    /\ Indexes(t) /\ t.at = "queued"
    /\ ~key
    /\ Ends(t)
    /\ UNCHANGED <<accountVars, cancel, bar, key, mailVars, indexVars, startVars,
                   settled, faultVars>>

IndexFindsNoKey(t) ==
    /\ Indexes(t) /\ t.at = "queued"
    /\ ~key
    /\ MarksPending(t.acct)
    /\ Ends(t)
    /\ UNCHANGED <<accountVars, cancel, bar, key, mailVars, chunks, startVars, settled,
                   faultVars>>

\* Mutant of IndexTakesKey: a peek.
IndexPeeks(t) ==
    /\ Indexes(t) /\ t.at = "queued"
    /\ key
    /\ IF linked[t.acct] THEN Goes(t, "plan") ELSE Ends(t)
    /\ UNCHANGED <<accountVars, cancel, bar, key, mailVars, indexVars, startVars,
                   settled, faultVars>>

\* The key is read and deleted before anything else is looked at.
IndexTakesKey(t) ==
    /\ Indexes(t) /\ t.at = "queued"
    /\ key
    /\ key' = FALSE
    /\ IF linked[t.acct] THEN Goes(t, "plan") ELSE Ends(t)
    /\ UNCHANGED <<accountVars, cancel, bar, mailVars, indexVars, startVars, settled,
                   faultVars>>

\* Nothing to index: indexing_status stays as it is.
IndexFindsNothing(t) ==
    /\ Indexes(t) /\ t.at = "plan"
    /\ Searchable(t.acct)
    /\ Ends(t)
    /\ UNCHANGED <<accountVars, cancel, bar, key, mailVars, indexVars, startVars,
                   settled, faultVars>>

\* The threads to index are selected once; the job reports on the same progress
\* hash as the sync.
IndexPlans(t) ==
    /\ Indexes(t) /\ t.at = "plan"
    /\ ~Searchable(t.acct)
    /\ Says(t.acct, "active")
    /\ Becomes(t, {[t EXCEPT !.at = "embed",
                             !.of = mail[t.acct] \ chunks[t.acct]]})
    /\ UNCHANGED <<accountVars, cancel, key, mailVars, indexVars, startVars, settled,
                   faultVars>>

\* The batches are submitted unless cancelled; each fetches the bodies of the
\* messages that still have rows.
IndexFetches(t) ==
    /\ Indexes(t) /\ t.at = "embed"
    /\ Becomes(t, {[t EXCEPT !.at = "persist",
                             !.of = IF cancel[t.acct] THEN {} ELSE @ \cap mail[t.acct]]})
    /\ UNCHANGED <<accountVars, cancel, bar, key, mailVars, indexVars, startVars,
                   settled, faultVars>>

\* Mutant of IndexWrites: the flag is not looked at between threads.
IndexWritesAnyway(t, m) ==
    /\ Indexes(t) /\ t.at = "persist"
    /\ m \in t.of
    /\ Becomes(t, {[t EXCEPT !.of = @ \ {m}, !.writes = @ \cup {m}]})
    /\ Says(t.acct, "active")
    /\ UNCHANGED <<accountVars, cancel, key, mailVars, indexVars, startVars, settled,
                   faultVars>>

\* A batch is embedded and its chunks are added to a transaction, thread by
\* thread, unless the flag is set.  Nothing looks at the account.
IndexWrites(t, m) ==
    /\ Indexes(t) /\ t.at = "persist"
    /\ m \in t.of
    /\ IF cancel[t.acct]
       THEN Becomes(t, {[t EXCEPT !.of = @ \ {m}]}) /\ UNCHANGED bar
       ELSE /\ Becomes(t, {[t EXCEPT !.of = @ \ {m}, !.writes = @ \cup {m}]})
            /\ Says(t.acct, "active")
    /\ UNCHANGED <<accountVars, cancel, key, mailVars, indexVars, startVars, settled,
                   faultVars>>

\* The transaction of a batch commits, whatever became of the flag meanwhile.
IndexCommits(t, m) ==
    /\ Indexes(t) /\ t.at = "persist"
    /\ m \in t.writes
    /\ Becomes(t, {[t EXCEPT !.writes = @ \ {m}]})
    /\ chunks' = [chunks EXCEPT ![t.acct] = @ \cup {m}]
    /\ UNCHANGED <<accountVars, cancel, bar, key, mailVars, indexing, startVars,
                   settled, faultVars>>

\* The exception of a batch is logged and swallowed.
IndexSwallows(t, m) ==
    /\ Happens("fail")
    /\ Indexes(t) /\ t.at = "persist"
    /\ m \in t.of \cup t.writes
    /\ Becomes(t, {[t EXCEPT !.of = @ \ {m}, !.writes = @ \ {m}]})
    /\ UNCHANGED <<accountVars, cancel, bar, key, mailVars, indexVars, startVars,
                   settled>>

\* Whatever became of the batches, the account is marked complete.
IndexEnds(t) ==
    /\ Indexes(t) /\ t.at = "persist"
    /\ t.of = {} /\ t.writes = {}
    /\ Says(t.acct, "active")
    /\ indexing' = [indexing EXCEPT ![t.acct] = "complete"]
    /\ Ends(t)
    /\ UNCHANGED <<accountVars, cancel, key, mailVars, chunks, startVars, settled,
                   faultVars>>

-----------------------------------------------------------------------------
(* Disconnecting, and the environment *)

Writing(a) == UNION {t.writes : t \in {u \in tasks : u.acct = a}}

Disconnect(a) ==
    /\ Happens("disconnect")
    /\ linked[a]
    /\ tasks' = tasks \cup {NewTask("disconnect", a, syncs, 0,
                                    {b \in Account : linked[b]})}
    /\ cancel' = [b \in Account |-> cancel[b] \/ linked[b]]
    /\ overtaken' = [b \in Account |->
          IF linked[b] THEN overtaken[b] \cup Writing(b) ELSE overtaken[b]]
    /\ UNCHANGED <<boxes, linked, sparse, bar, key, mailVars, indexVars, startVars, settled>>

\* The rows go in one transaction, some time after the flags were set.
DisconnectCommits(t) ==
    /\ Is(t, "disconnect", "queued")
    /\ linked' = [a \in Account |-> linked[a] /\ a \notin t.of]
    /\ cp' = [a \in Account |->
                 IF a \in t.of THEN [m \in Mailbox |-> "none"] ELSE cp[a]]
    /\ mail' = [a \in Account |-> IF a \in t.of THEN {} ELSE mail[a]]
    /\ chunks' = [a \in Account |-> IF a \in t.of THEN {} ELSE chunks[a]]
    /\ Ends(t)
    /\ sparse' = sparse \ t.of
    /\ UNCHANGED <<boxes, overtaken, cancel, bar, key, indexing, startVars, settled,
                   faultVars>>

\* The relayed key outlives its ten minutes.
KeyLapses ==
    /\ Happens("lapse")
    /\ key
    /\ key' = FALSE
    /\ UNCHANGED <<accountVars, cancel, bar, mailVars, indexVars, tasks, startVars,
                   settled>>

\* A parent that is stopped while it enqueues its children one by one leaves some
\* of them behind.  Everybody else leaves nothing.
Leaves(t, new) ==
    \/ Becomes(t, new) /\ UNCHANGED bar
    \/ /\ Is(t, "parent", "list")
       /\ \E some \in SUBSET boxes[t.acct] : Becomes(t, new \cup Children(t, some))
       /\ Says(t.acct, "active")

InServer(t) == t.kind \in {"signal", "login", "disconnect"}

\* A worker dies as a whole: the broker hands the task out again.  An API server
\* dies: its handler is gone, and what a disconnect has not committed is kept.
Dies(t) ==
    /\ Happens("crash")
    /\ InServer(t) \/ t.at # "queued"
    /\ Leaves(t, IF InServer(t) THEN {}
                 ELSE {[t EXCEPT !.at = "queued", !.copy = @ + 1, !.writes = {},
                                 !.of = IF Indexes(t) THEN {} ELSE @]})
    /\ UNCHANGED <<accountVars, cancel, key, mailVars, indexVars, startVars, settled>>

\* Only the process in a worker's pool is killed: the worker acknowledges the task.
IsKilled(t) ==
    /\ Happens("kill")
    /\ ~InServer(t) /\ t.at # "queued"
    /\ Leaves(t, {})
    /\ UNCHANGED <<accountVars, cancel, key, mailVars, indexVars, startVars, settled>>

\* The provider or the broker raises: the parent while it lists mailboxes and
\* enqueues, the callback while it lists mail, a child while it fetches, an
\* indexing job while it plans.
Raises(t) ==
    /\ Happens("fail")
    /\ \/ Is(t, "parent", "list") \/ Is(t, "child", "fetch")
       \/ Is(t, "callback", "process") \/ (Indexes(t) /\ t.at = "plan")
    /\ Leaves(t, {})
    /\ UNCHANGED <<accountVars, cancel, key, mailVars, indexVars, startVars, settled>>

\* The pipeline raises: this is reported.
PipelineFails(t) ==
    /\ Happens("fail")
    /\ Is(t, "callback", "process")
    /\ Says(t.acct, "failed")
    /\ ClearsFlag(t.acct)
    /\ Ends(t)
    /\ UNCHANGED <<accountVars, key, mailVars, indexVars, startVars, settled>>

-----------------------------------------------------------------------------

TaskStep(t) ==
    \/ SignalEnqueues(t) \/ LoginEnqueues(t)
    \/ ParentSkips(t) \/ ParentFindsDeleted(t) \/ ParentBegins(t)
    \/ ParentFindsNoMailboxes(t) \/ ParentDispatches(t)
    \/ ChildAlreadyDone(t) \/ ChildFindsNoKey(t) \/ ChildBegins(t)
    \/ ChildFetches(t) \/ ChildCompletes(t)
    \/ WatchdogStops(t) \/ WatchdogDispatches(t) \/ WatchdogPolls(t)
    \/ WatchdogGivesUp(t)
    \/ CallbackFindsNoKey(t) \/ CallbackBegins(t) \/ CallbackProcesses(t)
    \/ CallbackFindsGone(t) \/ CallbackCommits(t) \/ CallbackEnqueues(t)
    \/ CallbackFinishes(t)
    \/ IndexFindsNoKey(t) \/ IndexTakesKey(t) \/ IndexFindsNothing(t)
    \/ IndexPlans(t) \/ IndexFetches(t) \/ IndexEnds(t)
    \/ (\E m \in t.of : IndexWrites(t, m)) \/ (\E m \in t.writes : IndexCommits(t, m))
    \/ DisconnectCommits(t)

EmailEnvironment ==
    \/ \E a \in Account : Connect(a) \/ BeatTick(a) \/ Disconnect(a)
    \/ LoginRecovers
    \/ KeyLapses
    \/ \E t \in tasks : Dies(t) \/ IsKilled(t) \/ Raises(t) \/ PipelineFails(t)
    \/ \E t \in tasks, m \in Mailbox : IndexSwallows(t, m)

EmailNext == (\E t \in tasks : TaskStep(t)) \/ EmailEnvironment

EmailSpec == EmailInit /\ [][EmailNext]_emailVars

\* The workers do not rest while a task waits, whichever they take; every step of
\* theirs changes the set of tasks.
FairEmailSpec == EmailSpec /\ WF_tasks(\E t \in tasks : TaskStep(t))

-----------------------------------------------------------------------------
(* Properties.  Several hold only while something has not happened: the
   condition names it. *)

Safe(kinds) == happened \cap kinds = {}

\* email_tasks.py: every consumer before the indexing job peeks at the key, so
\* the tasks behind the parent all find it, unless it expires, a task is run
\* twice or the account is disconnected: so much the code keeps, but only for a
\* first sync.
FirstSyncKeepsKey ==
    [][syncs = 1 /\ Safe({"lapse", "crash", "disconnect", "login"}) =>
          ~\E t \in tasks : \/ ChildFindsNoKey(t) \/ CallbackFindsNoKey(t)
                            \/ IndexFindsNoKey(t)]_emailVars

\* The indexing job "is the true last consumer": when a first sync is over, the
\* key is gone from the relay, if nothing went wrong.
KeyConsumed ==
    syncs = 1 /\ Safe({"fail", "crash", "kill", "disconnect", "login", "stall"})
        => (tasks = {} => ~key)

\* A sync that succeeded, or a login that found an old account, does not forget
\* mail that is not searchable: once no task is left the account is pending, so
\* that a later session takes it up.  A login gives up the rest of an account that
\* has most of its chunks.  Of one sync or login at a time.
IndexingNotForgotten ==
    \A a \in Account :
        /\ linked[a] /\ settled[a] /\ runs[a] <= 1
        /\ Safe({"fail", "kill"}) /\ (Safe({"crash"}) \/ Safe({"disconnect"}))
        /\ \A t \in tasks : t.acct # a /\ t.kind # "disconnect"
        /\ ~Searchable(a)
        => indexing[a] = "pending" \/ ("waived" \in happened /\ (a \in sparse \/ chunks[a] # {}))

\* A sync reports success only when every mailbox of the account is completed,
\* whatever crashed, stalled, lapsed or ran at the same time.
SuccessIsEarned ==
    Safe({"disconnect"}) =>
        \A a \in Account : bar[a] = "ok" => boxes[a] \subseteq Completed(a)

\* The reports are true, in a well-formed state.
EmailSound == EmailTypeOK /\ SuccessIsEarned

\* The watchdog "self-reschedules" but gives up: whatever failed, the tasks of a
\* sync come to an end.
SyncsEnd == []<>(tasks = {})

\* _index_email_bodies_background "respects is_cancelled between threads so a
\* disconnect stops indexing promptly": an account whose rows are purged keeps no
\* chunk but those that were being written when the disconnect set its flag,
\* unless a task that ended cleared that flag.
IndexStopsOnDisconnect ==
    Safe({"cleared", "fail"}) =>
        \A a \in Account : ~linked[a] => chunks[a] \subseteq overtaken[a]
=============================================================================
