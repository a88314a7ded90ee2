---------------------------- MODULE CodeSessions ----------------------------
(***************************************************************************)
(* Headless coding sessions: one user asks again and again for the same    *)
(* piece of work.  A confirmed request becomes a Celery task that starts a *)
(* session at an external dashboard (tasks/headlesscode_tasks.py), the     *)
(* session writes a feed of events, poll tasks enqueued every two seconds  *)
(* copy the feed into the database and follow the session's status         *)
(* (tasks/headlesscode_poll_tasks.py, headlesscode_polling.py), and the    *)
(* poll that sees the end debits the cost from prepaid credits             *)
(* (code_credits_service.py).  An operator may reconcile the cost by hand. *)
(*                                                                         *)
(* Nothing keeps two polls of one session apart: the row is read without a *)
(* lock, and the debit checks and then applies in two transactions.        *)
(*                                                                         *)
(* Every event costs one unit, so the cost of a session so far is the      *)
(* length of its feed.  Forwarding events to the browser is not modelled,  *)
(* nor are the sessions on the user's own daemon, which cost nothing.      *)
(***************************************************************************)
EXTENDS Integers, Sequences, FiniteSets, SequencesExt, FiniteSetsExt

CONSTANTS
    Launcher,    \* worker slots that run launch tasks
    Poller,      \* worker slots that run poll tasks
    Script,      \* the feed every session goes through
    Prepaid,     \* the credits topped up beforehand
    MaxRequests, \* bound: requests the user confirms
    MaxOverlaps, \* bound: polls that start while another of the row is open
    MaxFaults,   \* bound: the other faults together
    Faults       \* which faults the environment may do

ASSUME SessionsAssumption ==
    /\ IsFiniteSet(Launcher) /\ IsFiniteSet(Poller)
    /\ Script \in Seq({"turn", "paused", "resumed", "end"}) /\ Script # <<>>
    /\ \A i \in DOMAIN Script : Script[i] = "end" <=> i = Len(Script)
    /\ Prepaid \in Int
    /\ MaxRequests \in Nat /\ MaxOverlaps \in Nat
    /\ MaxFaults \in 0..2     \* max_retries of the launch is never used up
    /\ Faults \subseteq {"fail", "crash", "kill", "timeout", "orphan", "lapse",
                         "overlap", "unsettled", "reconcile", "delete"}

VARIABLES
    asked,      \* the Redis mark that the user was asked to confirm
    confirmed,  \* requests confirmed so far
    waiting,    \* launch tasks in the broker
    launch,     \* the executions of the launch task
    marker,     \* the session recorded under the idempotency key, 0 if none
    emitted,    \* of each session at the dashboard, the length of its feed
    rows,       \* the headlesscode_sessions rows, with their stored events
    poll,       \* the executions of the poll task
    audit,      \* the operator's reconciler
    debited,    \* of each session, the sum of its session_debit rows
    deleted,    \* the project is deleted
    lost,       \* history: the sessions whose launch was cut off
    overlaps, faults,
    happened    \* history: the kinds of fault so far, and "race": two debits of
                \* one session were checked before either was applied

sessionsVars == <<asked, confirmed, waiting, launch, marker, emitted, rows,
                  poll, audit, debited, deleted, lost, overlaps, faults, happened>>

requestVars == <<asked, confirmed>>
launchVars == <<waiting, launch, marker, lost>>
moneyVars == <<audit, debited>>
faultVars == <<overlaps, faults, happened>>

-----------------------------------------------------------------------------
(* Sessions, rows, executions *)

Active == {"running", "paused"}
Terminal == {"completed"}     \* or failed

Session == DOMAIN emitted
RowId == DOMAIN rows

Ended(s) == emitted[s] = Len(Script)

\* The account's balance: a column updated with the ledger in one transaction.
Balance == Prepaid - FoldSeq(+, 0, debited)

RestingLaunch == [at |-> "rest", session |-> 0]
RestingPoll == [at |-> "rest", row |-> 0, status |-> "running", offset |-> 0, upto |-> 0]
RestingAudit == [at |-> "rest", session |-> 0, delta |-> 0]

\* The steps of a poll inside its transaction; those after the commit.
Open == {"fetch", "commit"}
Settling == {"check", "debit"}

LaunchGoes(l, step, s) == launch' = [launch EXCEPT ![l] = [at |-> step, session |-> s]]

\* A poll that goes on to settle keeps its row only, one that is done nothing.
PollGoes(p, step) ==
    poll' = [poll EXCEPT ![p] = IF step = "rest" THEN RestingPoll
                               ELSE [RestingPoll EXCEPT !.at = step, !.row = poll[p].row]]

Safe(kinds) == happened \cap kinds = {}

SessionsTypeOK ==
    /\ asked \in BOOLEAN /\ deleted \in BOOLEAN
    /\ confirmed \in 0..MaxRequests
    /\ waiting \in Nat
    /\ emitted \in Seq(0..Len(Script))
    /\ launch \in [Launcher -> [at : {"rest", "recover", "start", "mark", "persist", "card"},
                                session : {0} \cup Session]]
    /\ marker \in {0} \cup Session
    /\ lost \subseteq Session
    /\ rows \in Seq([session : Session, status : Active \cup Terminal,
                     offset : 0..Len(Script), stored : Seq(1..Len(Script))])
    /\ poll \in [Poller -> [at : {"rest"} \cup Open \cup Settling,
                            row : {0} \cup RowId, status : Active,
                            offset : 0..Len(Script), upto : 0..Len(Script)]]
    /\ \A p \in Poller : poll[p].at # "rest" => poll[p].row # 0
    /\ audit \in [at : {"rest", "debit"}, session : {0} \cup Session, delta : 0..Len(Script)]
    /\ debited \in Seq(Nat) /\ Len(debited) = Len(emitted)
    /\ overlaps \in 0..MaxOverlaps /\ faults \in 0..MaxFaults
    /\ happened \subseteq Faults \cup {"race"}

SessionsInit ==
    /\ asked = FALSE /\ deleted = FALSE
    /\ confirmed = 0
    /\ waiting = 0
    /\ launch = [l \in Launcher |-> RestingLaunch]
    /\ marker = 0
    /\ lost = {}
    /\ emitted = <<>>
    /\ rows = <<>>
    /\ poll = [p \in Poller |-> RestingPoll]
    /\ audit = RestingAudit
    /\ debited = <<>>
    /\ overlaps = 0 /\ faults = 0
    /\ happened = {}

Happens(kind) ==
    /\ kind \in Faults
    /\ faults < MaxFaults
    /\ faults' = faults + 1
    /\ happened' = happened \cup {kind}
    /\ UNCHANGED overlaps

-----------------------------------------------------------------------------
(* Asking and launching *)

\* The tool's first call marks that the user is being asked (MaxRequests bounds it).
Ask ==
    /\ Balance > 0
    /\ confirmed < MaxRequests
    /\ asked' = TRUE
    /\ UNCHANGED <<confirmed, launchVars, emitted, rows, poll, moneyVars, deleted, faultVars>>

\* The confirmed call passes the credit check, consumes the mark and enqueues.
Confirm ==
    /\ Balance > 0
    /\ asked
    /\ asked' = FALSE
    /\ confirmed' = confirmed + 1
    /\ waiting' = waiting + 1
    /\ UNCHANGED <<launch, marker, lost, emitted, rows, poll, moneyVars, deleted, faultVars>>

\* The task reads the project, or gives up.
LaunchTakes(l) ==
    /\ launch[l].at = "rest"
    /\ waiting > 0
    /\ waiting' = waiting - 1
    /\ LaunchGoes(l, IF deleted THEN "rest" ELSE "recover", 0)
    /\ UNCHANGED <<requestVars, marker, lost, emitted, rows, poll, moneyVars, deleted, faultVars>>

\* Mutant of LaunchRecovers: the launch does not look for the marker.
LaunchRecoversBlind(l) ==
    /\ launch[l].at = "recover"
    /\ LaunchGoes(l, "start", 0)
    /\ UNCHANGED <<requestVars, waiting, marker, lost, emitted, rows, poll, moneyVars,
                   deleted, faultVars>>

\* It reuses the session an earlier attempt recorded, if any.
LaunchRecovers(l) ==
    /\ launch[l].at = "recover"
    /\ LaunchGoes(l, IF marker # 0 THEN "persist" ELSE "start", marker)
    /\ UNCHANGED <<requestVars, waiting, marker, lost, emitted, rows, poll, moneyVars,
                   deleted, faultVars>>

\* The dashboard starts a session.
StartSession ==
    /\ emitted' = Append(emitted, 0)
    /\ debited' = Append(debited, 0)

LaunchStarts(l) ==
    /\ launch[l].at = "start"
    /\ StartSession
    /\ LaunchGoes(l, "mark", Len(emitted) + 1)
    /\ UNCHANGED <<requestVars, waiting, marker, lost, rows, poll, audit, deleted, faultVars>>

\* Mutant of LaunchMarks: the session is not recorded.
LaunchMarksNothing(l) ==
    /\ launch[l].at = "mark"
    /\ LaunchGoes(l, "persist", launch[l].session)
    /\ UNCHANGED <<requestVars, waiting, marker, lost, emitted, rows, poll, moneyVars,
                   deleted, faultVars>>

LaunchMarks(l) ==
    /\ launch[l].at = "mark"
    /\ marker' = launch[l].session
    /\ LaunchGoes(l, "persist", launch[l].session)
    /\ UNCHANGED <<requestVars, waiting, lost, emitted, rows, poll, moneyVars, deleted, faultVars>>

LaunchPersists(l) ==
    /\ launch[l].at = "persist"
    /\ rows' = Append(rows, [session |-> launch[l].session, status |-> "running",
                             offset |-> 0, stored |-> <<>>])
    /\ LaunchGoes(l, "card", launch[l].session)
    /\ UNCHANGED <<requestVars, waiting, marker, lost, emitted, poll, moneyVars, deleted, faultVars>>

\* It writes the card of the conversation and is acknowledged.
LaunchEnds(l) ==
    /\ launch[l].at = "card"
    /\ LaunchGoes(l, "rest", 0)
    /\ UNCHANGED <<requestVars, waiting, marker, lost, emitted, rows, poll, moneyVars,
                   deleted, faultVars>>

\* An attempt is over and the task goes back to the broker.
LaunchAgain(l) ==
    /\ LaunchGoes(l, "rest", 0)
    /\ waiting' = waiting + 1
    /\ UNCHANGED <<requestVars, marker, rows, poll, audit, deleted>>

\* Redis or the dashboard fails before a session is started: retried.
LaunchRetries(l) ==
    /\ launch[l].at \in {"recover", "start"}
    /\ Happens("fail")
    /\ LaunchAgain(l)
    /\ UNCHANGED <<lost, emitted, debited>>

\* The dashboard answers without a session: the task ends in an error.
LaunchRefused(l) ==
    /\ launch[l].at = "start"
    /\ Happens("fail")
    /\ LaunchGoes(l, "rest", 0)
    /\ UNCHANGED <<requestVars, waiting, marker, lost, emitted, rows, poll, moneyVars, deleted>>

\* A worker dies as a whole: its task was not acknowledged and is delivered again.
LaunchCrashes(l) ==
    /\ launch[l].at \notin {"rest", "mark"}
    /\ Happens("crash")
    /\ LaunchAgain(l)
    /\ UNCHANGED <<lost, emitted, debited>>

Loses(s) == lost' = lost \cup {s}

\* The session was started, but the answer, the worker or the mark is lost:
\* the next attempt cannot know of it.
LaunchTimesOut(l) ==
    /\ Happens("timeout")
    /\ LaunchAgain(l)
    /\ \/ launch[l].at = "start" /\ StartSession /\ Loses(Len(emitted) + 1)
       \/ /\ launch[l].at = "mark" /\ Loses(launch[l].session)
          /\ UNCHANGED <<emitted, debited>>

\* Only the process in a worker's pool is killed: the worker acknowledges the
\* task, and the session it was starting or had started has no row.
LaunchKilled(l) ==
    /\ Happens("kill")
    /\ LaunchGoes(l, "rest", 0)
    /\ \/ launch[l].at = "start" /\ StartSession /\ Loses(Len(emitted) + 1)
       \/ /\ launch[l].at \in {"mark", "persist"} /\ Loses(launch[l].session)
          /\ UNCHANGED <<emitted, debited>>
       \/ /\ launch[l].at \in {"recover", "start", "card"}
          /\ UNCHANGED <<lost, emitted, debited>>
    /\ UNCHANGED <<requestVars, waiting, marker, rows, poll, audit, deleted>>

\* The row cannot be written: nothing catches the error, the task has failed.
PersistFails(l) ==
    /\ launch[l].at = "persist"
    /\ Happens("orphan")
    /\ LaunchGoes(l, "rest", 0)
    /\ Loses(launch[l].session)
    /\ UNCHANGED <<requestVars, waiting, marker, emitted, rows, poll, moneyVars, deleted>>

MarkerLapses ==
    /\ marker # 0
    /\ Happens("lapse")
    /\ marker' = 0
    /\ UNCHANGED <<requestVars, waiting, launch, lost, emitted, rows, poll, moneyVars, deleted>>

-----------------------------------------------------------------------------
(* Polling *)

\* The session does one more step of its script.
Emit(s) ==
    /\ ~Ended(s)
    /\ emitted' = [emitted EXCEPT ![s] = @ + 1]
    /\ UNCHANGED <<requestVars, launchVars, rows, poll, moneyVars, deleted, faultVars>>

\* Mutant of StartPoll: only running sessions are polled.
StartPollRunning(p, r) ==
    /\ poll[p].at = "rest"
    /\ rows[r].status = "running"
    /\ ~deleted
    /\ poll' = [poll EXCEPT ![p] = [at |-> "fetch", row |-> r, status |-> rows[r].status,
                                    offset |-> rows[r].offset, upto |-> 0]]
    /\ IF \E q \in Poller : poll[q].row = r /\ poll[q].at \in Open
       THEN /\ "overlap" \in Faults /\ overlaps < MaxOverlaps
            /\ overlaps' = overlaps + 1
            /\ happened' = happened \cup {"overlap"}
            /\ UNCHANGED faults
       ELSE UNCHANGED faultVars
    /\ UNCHANGED <<requestVars, launchVars, emitted, rows, moneyVars, deleted>>

\* A poll reads an active row.  Beat enqueues one for every active row every
\* two seconds, whether or not an earlier one is done; one that comes too late,
\* or whose project is gone, reads and returns.
StartPoll(p, r) ==
    /\ poll[p].at = "rest"
    /\ rows[r].status \in Active
    /\ ~deleted
    /\ poll' = [poll EXCEPT ![p] = [at |-> "fetch", row |-> r, status |-> rows[r].status,
                                    offset |-> rows[r].offset, upto |-> 0]]
    /\ IF \E q \in Poller : poll[q].row = r /\ poll[q].at \in Open
       THEN /\ "overlap" \in Faults /\ overlaps < MaxOverlaps
            /\ overlaps' = overlaps + 1
            /\ happened' = happened \cup {"overlap"}
            /\ UNCHANGED faults
       ELSE UNCHANGED faultVars
    /\ UNCHANGED <<requestVars, launchVars, emitted, rows, moneyVars, deleted>>

Fetch(p) ==
    /\ poll[p].at = "fetch"
    /\ poll' = [poll EXCEPT ![p].at = "commit", ![p].upto = emitted[rows[poll[p].row].session]]
    /\ UNCHANGED <<requestVars, launchVars, emitted, rows, moneyVars, deleted, faultVars>>

\* apply_status_transitions, one event.
Transition(status, event) ==
    CASE event = "paused" /\ status = "running" -> "paused"
      [] event = "resumed" /\ status = "paused" -> "running"
      [] event = "end" -> "completed"
      [] OTHER -> status

\* What the poll writes: its new events, and of the row the columns whose
\* value is no longer the one it read.
NewEvents(p) == [i \in 1..(poll[p].upto - poll[p].offset) |-> poll[p].offset + i]

\* The status after each event of the feed, of a row read at offset with status.
StatusAlong(status, offset) ==
    LET after[i \in 0..Len(Script)] ==
            IF i <= offset THEN status ELSE Transition(after[i - 1], Script[i])
    IN  after

NewStatus(p) == StatusAlong(poll[p].status, poll[p].offset)[poll[p].upto]

Commit(p) ==
    LET row == rows[poll[p].row] IN
    /\ poll[p].at = "commit"
    /\ rows' = [rows EXCEPT ![poll[p].row] =
                  [row EXCEPT !.stored = @ \o NewEvents(p),
                              !.status = IF NewStatus(p) = poll[p].status THEN @ ELSE NewStatus(p),
                              !.offset = IF poll[p].upto = poll[p].offset THEN @ ELSE poll[p].upto]]
    /\ PollGoes(p, IF NewStatus(p) \in Terminal THEN "check" ELSE "rest")
    /\ UNCHANGED <<requestVars, launchVars, emitted, moneyVars, deleted, faultVars>>

\* Mutant of PollFails: the events are committed before the cursor and the status.
PollFailsHalfway(p) ==
    /\ poll[p].at \in Open
    /\ Happens("fail")
    /\ rows' = [rows EXCEPT ![poll[p].row].stored = @ \o NewEvents(p)]
    /\ PollGoes(p, "rest")
    /\ UNCHANGED <<requestVars, launchVars, emitted, moneyVars, deleted>>

\* The dashboard or the database fails, or the worker dies: rolled back.
PollFails(p) ==
    /\ poll[p].at \in Open
    /\ Happens("fail")
    /\ PollGoes(p, "rest")
    /\ UNCHANGED <<requestVars, launchVars, emitted, rows, moneyVars, deleted>>

-----------------------------------------------------------------------------
(* Settling the cost *)

SessionOf(p) == rows[poll[p].row].session

\* Somebody decided to debit the session and has not done it yet.
DebitPending(s) ==
    \/ \E p \in Poller : poll[p].at = "debit" /\ SessionOf(p) = s
    \/ audit.session = s

Race(s) == IF DebitPending(s) THEN {"race"} ELSE {}

\* Mutant of CheckDebit: the debit does not look for earlier ones.
CheckDebitBlind(p) ==
    /\ poll[p].at = "check"
    /\ PollGoes(p, "debit")
    /\ happened' = happened \cup Race(SessionOf(p))
    /\ UNCHANGED <<requestVars, launchVars, emitted, rows, moneyVars, deleted,
                   overlaps, faults>>

\* debit_session_usage: any debit of the session means it was settled.
CheckDebit(p) ==
    /\ poll[p].at = "check"
    /\ IF debited[SessionOf(p)] > 0
       THEN PollGoes(p, "rest") /\ UNCHANGED happened
       ELSE PollGoes(p, "debit") /\ happened' = happened \cup Race(SessionOf(p))
    /\ UNCHANGED <<requestVars, launchVars, emitted, rows, moneyVars, deleted,
                   overlaps, faults>>

ApplyDebit(p) ==
    /\ poll[p].at = "debit"
    /\ debited' = [debited EXCEPT ![SessionOf(p)] = @ + Len(Script)]
    /\ PollGoes(p, "rest")
    /\ UNCHANGED <<requestVars, launchVars, emitted, rows, audit, deleted, faultVars>>

\* An error or a crash after the commit: the row is terminal, nobody polls it.
SettleFails(p) ==
    /\ poll[p].at \in Settling
    /\ Happens("unsettled")
    /\ PollGoes(p, "rest")
    /\ UNCHANGED <<requestVars, launchVars, emitted, rows, moneyVars, deleted>>

\* The operator's reconciler reads the cost so far and what was debited.
Reconcile(s) ==
    /\ audit.at = "rest"
    /\ emitted[s] > debited[s]
    /\ "reconcile" \in Faults /\ faults < MaxFaults
    /\ faults' = faults + 1
    /\ happened' = happened \cup {"reconcile"} \cup Race(s)
    /\ audit' = [at |-> "debit", session |-> s, delta |-> emitted[s] - debited[s]]
    /\ UNCHANGED <<requestVars, launchVars, emitted, rows, poll, debited, deleted, overlaps>>

ReconcileDebits ==
    /\ audit.at = "debit"
    /\ debited' = [debited EXCEPT ![audit.session] = @ + audit.delta]
    /\ audit' = RestingAudit
    /\ UNCHANGED <<requestVars, launchVars, emitted, rows, poll, deleted, faultVars>>

DeleteProject ==
    /\ ~deleted
    /\ Happens("delete")
    /\ deleted' = TRUE
    /\ UNCHANGED <<requestVars, launchVars, emitted, rows, poll, moneyVars>>

-----------------------------------------------------------------------------
LaunchStep(l) ==
    LaunchTakes(l) \/ LaunchRecovers(l) \/ LaunchStarts(l) \/ LaunchMarks(l)
    \/ LaunchPersists(l) \/ LaunchEnds(l)

PollStep(p) == Fetch(p) \/ Commit(p) \/ CheckDebit(p) \/ ApplyDebit(p)

Trouble ==
    \/ \E l \in Launcher : LaunchRetries(l) \/ LaunchRefused(l) \/ LaunchCrashes(l)
                           \/ LaunchTimesOut(l) \/ LaunchKilled(l) \/ PersistFails(l)
    \/ \E p \in Poller : PollFails(p) \/ SettleFails(p)
    \/ MarkerLapses \/ DeleteProject
    \/ \E s \in Session : Reconcile(s)

SessionsNext ==
    \/ Ask \/ Confirm
    \/ \E l \in Launcher : LaunchStep(l)
    \/ \E s \in Session : Emit(s)
    \/ \E p \in Poller, r \in RowId : StartPoll(p, r)
    \/ \E p \in Poller : PollStep(p)
    \/ ReconcileDebits
    \/ Trouble

\* Every worker goes on with its task, and the broker's queue is first in, first
\* out: an active row's next poll is not put off for ever by those of others.
\* Nobody has to ask, and the dashboard need not get on with a session.
SessionsFairness ==
    /\ \A l \in Launcher : WF_sessionsVars(LaunchStep(l))
    /\ \A p \in Poller : WF_sessionsVars(PollStep(p))
    /\ \A r \in 1..(MaxRequests + MaxFaults) :
           SF_sessionsVars(r \in RowId /\ \E p \in Poller : StartPoll(p, r))

SessionsSpec == SessionsInit /\ [][SessionsNext]_sessionsVars
SessionsFairSpec == SessionsSpec /\ SessionsFairness

-----------------------------------------------------------------------------
(* Properties *)

\* What the first n events of the feed make of a new session.
StatusAfter(n) ==
    CASE n = Len(Script) -> "completed"
      [] n < Len(Script) /\ \E i \in 1..n : /\ Script[i] = "paused"
                                          /\ \A j \in i..n : Script[j] # "resumed" -> "paused"
      [] OTHER -> "running"

\* A row's transcript is its session's feed up to the cursor, in order, with
\* nothing missing and nothing twice, and its status is what those events say,
\* whatever fails or dies in between, as long as no two polls of the row are open
\* at once (persist_new_events, apply_status_transitions, safe_next_offset).
RowMatchesFeed ==
    Safe({"overlap"}) =>
        \A r \in RowId :
            /\ rows[r].stored = [i \in 1..rows[r].offset |-> i]
            /\ rows[r].offset <= emitted[rows[r].session]
            /\ rows[r].status = StatusAfter(rows[r].offset)

\* A session is never charged more than it cost (debit_session_usage), although
\* two rows may follow it, a slow poll may make a finished row active again and
\* the operator may have debited part of it: unless a second debit is decided on
\* before the first is in the ledger.
NeverOvercharged ==
    Safe({"race"}) => \A s \in Session : debited[s] <= emitted[s]

\* The ledger is within the sessions' costs, in a well-formed state.
SessionsSound == SessionsTypeOK /\ NeverOvercharged

\* A confirmed request starts at most one session, whatever is retried or
\* redelivered, unless the id of a started session is lost before it is marked
\* (the "known residual risk" of headlesscode_tasks) or the mark expires first.
OneSessionPerRequest ==
    Safe({"timeout"}) /\ (Safe({"lapse"}) \/ Safe({"crash"})) => Len(emitted) <= confirmed

\* Every started session has a row, or an execution that will write one, or
\* waits under the marker for the next attempt, or was lost with its execution:
\* whatever else fails, nobody pays for a session that nothing watches.  A crash
\* while two requests run breaks it, since the second overwrites the marker of
\* the first, and so does a copy that does not live to look for the marker.
SessionsAreWatched ==
    Safe({"crash"}) \/ (confirmed <= 1 /\ Safe({"kill", "lapse", "delete"})) =>
        \A s \in Session :
            \/ \E r \in RowId : rows[r].session = s
            \/ \E l \in Launcher : launch[l].session = s
            \/ marker = s /\ (waiting > 0 \/ \E l \in Launcher : launch[l].at = "recover")
            \/ s \in lost

Charged(r) == r \in RowId /\ debited[rows[r].session] >= Len(Script)

\* The cost of a session that ended and has a row is charged in the end, even
\* when polls overlap and one of them takes back a terminal status: the row is
\* then polled to its end again.  A poll that dies between its commit and the
\* debit, a reconciler's partial debit and a deleted project prevent it.
EventuallyCharged ==
    \A r \in 1..(MaxRequests + MaxFaults) :
        (r \in RowId /\ Ended(rows[r].session))
            ~> (Charged(r) \/ ~Safe({"unsettled", "reconcile", "delete"}))
=============================================================================
