# Models of AI Runner / UwUChat services

This directory holds TLA+ models of the parts of this repository whose
correctness depends on the order in which several actors act: worker processes
that share a Redis instance, Celery tasks that are delivered again, HTTP handlers
and pollers that write the same row, threads that share a queue, callers that die
between two steps. TLC checks them on small instances, TLAPS proves some results
for every size.

In the paths below `S = src/server/src/airunner_services`,
`U = src/projects/uwuchat/server` and `C = src/client/src`.

## 1. The system

The repository is a framework (`server/`, `client/`, `extensions/`) and a hosted
product built on it (`projects/uwuchat`). An API server (FastAPI) serves the
client over HTTP and one WebSocket, model work runs in threads with queues inside
it, longer work runs in Celery workers. PostgreSQL holds one schema per tenant,
Redis is the broker, the cache, and the place of locks, counters and short-lived
marks. Every task is acknowledged late (`S/tasks/celery_app.py:107`): a worker that
dies as a whole, or is slow for too long, makes the broker deliver the task again. When
only a process of the worker's pool is killed (the containers have a memory limit), the
worker acknowledges the task as failed, because `task_reject_on_worker_lost` is not set.

### Parts that are modelled

| Part | State | Operations | Interacts through | What is hard |
|---|---|---|---|---|
| Slot limiter, `S/cloud/distributed_limiter.py` | sorted set of a lane, counter per tenant, their lifetimes | acquire and release (Lua), lane statistics | Redis, shared by all processes | a holder dies; a call outlives its lease; the answer of a script is lost; the counter's lifetime is not that of the slots it counts |
| Completion choke, `S/cloud/llm/completion_choke.py`, `U/embedding_provider.py` | attempt, polls, slot of a request | invoke, stream, embed with retry | the limiter | every way out of a call has to give the slot back once; a full lane must not retry for ever |
| Mailbox backfill, `U/tasks/email_tasks.py` (`_sync_one_mailbox`), `U/email/sync_mailbox_lock.py`, `U/email/sync_persist.py` | Redis lock per mailbox, checkpoint row, message rows, progress counter | acquire, page, persist, save cursor, complete, release | one task per mailbox, several workers | redelivered copies have the same lock token; the lock expires; a crash between any two writes; mail arrives while positions are in use |
| Email sync chain, the rest of `U/tasks/email_tasks.py`, `U/tasks/email_indexing_tasks.py`, `U/email/sync_engine.py`, `U/tasks/periodic_tasks.py`, `U/email/routes.py` | account row, relayed key, cancel flag, progress, indexing mark, chunks | connect, Beat tick, login recovery, parent, children, watchdog, callback, indexing, disconnect | Celery tasks that enqueue each other, one Redis key that several of them read and one deletes | a disconnect between any two of them; a key that expires; who is the last consumer of the key |
| Coding sessions and credits, `U/tasks/headlesscode_tasks.py`, `U/tasks/headlesscode_poll_tasks.py`, `U/headlesscode_polling.py`, `U/code_credits_service.py`, `U/code_credits_reconciler.py` | confirmation mark, launch marker, session row, transcript, ledger | ask, confirm, launch, poll, settle, reconcile, delete project | the external dashboard, Beat, PostgreSQL | polls of one row overlap; check and debit are two transactions; a started session costs money whether or not its row was written |
| Code mode and the GPU daemons, `U/code_mode_service.py`, `U/tasks/gpu_inference_tasks.py`, `U/gpu_inference_mode.py`, `U/daemon_docker_client.py`, `S/llm/mood/persistence.py` | mode of each conversation, queued and running switches, the two containers | toggle, enqueue, stop one daemon, start the other, wait, retry, redeliver, store moods | Celery, the Docker socket, one JSON object of the conversation | the daemons do not fit on the card together; stop, start and wait may each fail or be interrupted; the mode is a key of an object that another thread stores whole |
| Worker queue and chat worker, `S/workers/worker.py` and the generation mixins of the LLM worker | FIFO of indices, items, their tenant and account, conversations in flight, interrupt, deferred unload | add (four steps), take, handle, interrupt and clear, unload, the ends of a generation | one queue, request threads, an unloading thread and the worker's own | only the in-flight set has a lock; an add reads the current index anew at each step; what an interrupt forgets |
| Download jobs, `S/downloads/` | job rows on the disk, the runner, one thread per file, cancel event, the tracker's lock, temporary and final files | start, list, fetch, cancel, complete, fail, restart | threads, an event loop per thread, rows reloaded after a restart | a file thread outlives its job; a cancellation races the end; partial files are met again; the process dies in a write |
| WebSocket client, `C/` (`WsApiClient`) with the events endpoint of `S/api/routes/` | sockets, pending calls, send queue, token, draining sockets, bootstrap payload | call, token change, drain, reconnect, JSON, header and binary answers, close | frames of a connection that may end at any time | a token changes while calls are queued or pending; several sockets share the pending calls; a binary answer is two frames |

### Parts that are not modelled

| Part | Why |
|---|---|
| Signal mediator, `S/utils/application/signal_mediator.py` | a handler table; `GenerationWorker` starts where a signal has reached its handler |
| Model resource manager, `S/edge/model_management/` | decisions on memory numbers read from the GPU: what is true of them is the hardware's, not the code's; the switch of the two daemons is modelled |
| Event bus and rate limiter, `S/api/routes/events_bus.py`, `S/api/ws_rate_limiter.py` | fan-out to bounded subscriber queues, events may be dropped by design, so that no property relates what is sent to what arrives |
| DEK cache, `S/utils/crypto/dek_cache.py` | only its use: EmailSync knows whether a live key is there |
| Job tracker, `S/utils/job_tracker.py` | records of one process; the tracker with recovery is in `DownloadJobs` |
| LLM sessions and rolling compression, `S/llm/` | prompt text and bookkeeping around one conversation, serialised by the worker queue |
| Quota and billing, `U/quota_service.py` | counters read before and written after a model call, and an external payment provider; prepaid code credits are modelled |
| Email delta sync, classification, body fetching | nothing sets `sync_cursor`, so delta sync never runs (section 6); the others are model calls and JMAP I/O, one step where a chain contains them |
| Newspaper, embedding recovery | batch jobs around model calls and a container restart; admission of embedding calls is modelled |
| Authentication extension | handlers of one database transaction each; what a changed token does to the client is modelled |
| Session event outbox and dashboard controls | a Redis list with one forwarder, at most once by design; the controls are passed through to the dashboard |
| Conversation inspector, object storage | read-only inspection, pass-through to a store |
| React pages, bootstrap, database schema, art, TTS, STT, tools | user interface, generated or numerical code, plumbing: most of the lines of this repository, and no state that two actors change |

Within the modelled parts, left out: requests and vectors of the choke; messages
destroyed at the provider during a backfill; mailboxes that come and go during a sync;
credentials that are missing and the login cooldown; top-ups during a coding session and
sessions on the user's own daemon, which cost nothing; the queue policy `GET_LAST_ITEM`,
`empty_queue`, `cancel` and the replay of a request after a model download; the
other kinds of download (GGUF, zip, single files, CivitAI, URL, NLTK), progress
numbers and the hourly cleanup of rows; subscriptions and `force_logout` of the
WebSocket.

## 2. Modules

| Module | Models | Corresponds to |
|---|---|---|
| `SlotLimiter` | one lane of one resource | `Ask` is the client's clock and token, `Grant` and `Refuse` the acquire script, `Release` the release script; each script is one step. Times are remaining seconds, `Tick` is one second |
| `CompletionChoke` (EXTENDS `SlotLimiter`) | the three callers on one lane | `TryAcquire`, `Admitted`, `Rejected`, `Answered`, `CallFailed`, `EmbedEscapes`, `Rested` are the steps of one attempt; each is a step of the limiter or leaves it alone |
| `Backfill` | the promise of a backfill: stored mail, finished mailboxes | abstract |
| `MailboxBackfill` | the mailbox task | one action per call of `_sync_one_mailbox` that reads or writes something shared; implements `Backfill` |
| `EmailSync` | the chain around it, for one user | `tasks` holds the queued and running tasks and handlers; every action takes one of them a step further. The children are an outline of `MailboxBackfill` |
| `CodeSessions` | sessions of one user for one piece of work | launch steps, poll steps and settlement; a poll's transaction is read at `StartPoll` and written at `Commit` |
| `CodeModeSwitch` | toggles and the switch of the daemons | a request thread toggles and then enqueues; a task goes through stop, start and wait, one action each, with the failures each call can report; a mood writer reads the object and stores it |
| `GenerationWorker` | the worker's queue and its threads | `add_to_queue` is `Store`, `Tag`, `Put`, `Bump`; a thread's step is what it does between two calls |
| `DownloadJobs` | jobs of one model, one after the other | the runner's stages, the stages of each file's thread, the watcher of the cancel event, the tracker with its lock and its rows, what stays on the disk |
| `WsApiClient` | the shared client and the server's end of it | handlers of the client are single steps, as JavaScript runs them; sockets have one queue of frames in each direction |
| `CompletionChokeProofs`, `MailboxBackfillProofs`, `EmailSyncProofs`, `CodeSessionsProofs`, `CodeModeSwitchProofs`, `GenerationWorkerProofs`, `DownloadJobsProofs`, `WsApiClientProofs` | theorems about the module they EXTEND; the first is also about `SlotLimiter` | |
| `MCSlotLimiter`, `MCMailboxBackfill`, `MCEmailSync`, `MCCodeSessions` | mailbox contents, accounts, feeds and symmetry for TLC; the other modules are run as they are | |

Conventions. `Faults` (a constant) says what the environment may do in a run, a
bound limits how often, and a history variable (`happened`, `seen`) remembers what
went wrong. A property that some event breaks says so: `Safe({"lapse"}) => ...`
holds as long as no lock lapsed. So one run with every fault checks each property
in all the circumstances in which the code keeps it, and the condition documents
what the code does not survive. Each condition was found by dropping it and
looking at the counterexample. An operator preceded by "Mutant of X" is not part
of the model: it is a plausible mistake in X that makes one of the properties fail.

Modelling decisions worth knowing:

- *Tokens* of the limiter are uuid4 values; a token nobody knows may be drawn
  again, which keeps the set finite.
- *Redelivery.* A copy of a Celery task has the id of the first, and ids are lock
  tokens. A worker that dies has its task queued again; a killed process of its pool has
  it acknowledged: `Dies` and `IsKilled` in `EmailSync`, `LaunchCrashes` and
  `LaunchKilled` in `CodeSessions`, both outcomes of `WorkerDies` in `CodeModeSwitch`
  (where the task is recorded as failed) and in `MailboxBackfill`. A handler of an API
  server that dies is lost.
- *EmailSync* has the accounts of one user. `Connect` merges the commit of the row
  with the first half of the signal handler, `LoginRecovers` merges
  reconciliation and the relay of the key. The batches of an indexing job add the chunks
  of a mailbox to a transaction after a look at the cancel flag (`IndexWrites`) and commit
  it later (`IndexCommits`); `overtaken` remembers what was in such a transaction
  when a disconnect set the flag. The parent enqueues its children and the watchdog in one
  step, unless it is stopped in between, which leaves any subset of the children
  (`Leaves`). A login compares threads with chunks against nine tenths of those with
  messages: for an account with some chunks (`sparse`, or a mailbox of several) either
  answer is possible (`Recovered`), and the history has "waived" when mail was given up.
- *CodeSessions* has one idempotency key: requests for other work share nothing
  with it but the balance. A poll writes only the columns whose value changed, as
  the ORM does, and that decides what a late poll overwrites. An event costs one
  unit, so cost, cursor and feed are lengths. `completed` stands for `failed` too.
  `lost` remembers the sessions whose launch ended without a row and without another
  attempt. The task gives up after two retries; since `MaxFaults` is at most 2
  (`SessionsAssumption`), no launch gets that far and `LaunchRetries` has no counter.
- *GenerationWorker* takes an account to be named by the message it sent: the
  tenant and the account of an item are one value, `owners`.
- *DownloadJobs* abstracts a file's content to none, part or whole. A file whose
  size the listing does not give (`Unsized`) cannot be told whole from part, except that
  the bootstrap listing takes a small one for short. The two listings are two actions:
  `ListFromApi` lists what is missing or short, `ListFromBootstrap` only what it could
  remove first, that is what is short; `skipped` remembers the missing files of known
  size that a job did not list, and the weights it removed because nobody wants them. A
  file's thread may find that the partial file it is about to rename is gone (`FileMoves`).
- *MailboxBackfill* has the progress counter of the account, for the sake of the
  handler's control; no property is about it.
- *WsApiClient* names accounts by their tokens, and answers by the call they
  belong to.

## 3. Runs

All runs take two workers and stay within five minutes. States are distinct
states.

| Run | Question | Properties | Bounds, and why they are enough | States |
|---|---|---|---|---|
| `limiter_faults` | do both caps bound the calls really in flight, with crashes and lost answers, when callers finish within their lease? | `SlotsSound`, `CapsHold` | 3 workers, 2 slots, a tenant with sub-cap 1 and the empty one, lease of 2 s: a full lane, a full tenant in a lane with room, a leaked slot that expires while others are held; 4 tokens so that a dead member and three callers coexist | 4.6 k |
| `limiter_heal` | are the slot of a dead holder and its tenant's share reclaimed? | `LaneSelfHeals`, `TenantHealsWhenIdle` | 2 workers and 3 tokens, late callers too; liveness, so no symmetry | 5.8 k |
| `choke` | do slots match calls, does the provider ever see more calls than the lane allows, does every request end? | `CallsSound`, `ProviderCap`, `RequestsEnd` | two callers of any kind on a live or a bulk lane of one slot, so that one is refused; a poll and a retry each, one leak | 147 k |
| `backfill_faults` | what do lock, cursor, rows and counter keep, and does the task implement `Backfill`? | `MailboxSound`, `LockExclusive`, `LockHasLiveHolder`, `NothingMissed`, `KeepsPromise` | two executions, one sync of two mailboxes that share a message, three messages in pages of two, two faults of five kinds and a lapse at any time: a redelivery behind a lapse, a crash before a disconnect, two tasks at the shared message | 644 k |
| `backfill_ends` | does every mailbox of a started sync get done? | `BackfillEnds` | two mailboxes, redelivery, mail arriving between two pages | 332 k |
| `email_sync` | who gets the key, what does success mean, what is not forgotten, what stops at a disconnect, does every chain end? | `EmailSound`, `KeyConsumed`, `IndexingNotForgotten`, `IndexStopsOnDisconnect`, `FirstSyncKeepsKey`, `SyncsEnd` | an account with earlier mail and a new one; either both have a mailbox and nothing is indexed, or the old one is indexed in part and the new one has no mailbox (`MCWorlds`); two starts (connect, Beat tick or login), one fault of any other kind, one poll of the watchdog before its ceiling | 1.2 M |
| `code_sessions` | how many sessions are started, watched and charged? | `SessionsSound`, `OneSessionPerRequest`, `SessionsAreWatched` | two requests, two launch workers, two pollers, one overlap of polls and one fault of any kind, among them a killed pool process | 2.4 M |
| `code_sessions_settle` | does a row agree with its feed, is an ended session charged? | `RowMatchesFeed`, `EventuallyCharged` | one request, two overlaps, feed with a pause and a resume: what a late poll can take back | 123 k |
| `code_mode` | which daemons run, do card and database agree, does a switch end? | `SwitchSound`, `OneDaemon`, `AgreesAtRest`, `SwitchesEnd` | two toggles from two threads on a pool of two, a mood writer, three attempts, three faults of four kinds: a retry after a crash while the other switch runs | 982 k |
| `generation_worker` | is there ever a second generation, whose identity is applied, is anything forgotten? | `WorkerSound`, `HandledAsSender`, `ConversationFreed`, `UnloadDone` | two senders, two conversations, two messages and an unload, one generation that escapes or ends empty: two adds at once, an interrupt between any two steps of an add | 855 k |
| `download_jobs` | what does a completed job mean, does it stay completed, do jobs end? | `DownloadSound`, `CompletedMeansFetched`, `CompletedStays`, `JobsEnd` | two jobs, so that the second meets the files and threads of the first and a restart; a sized and an unsized file, either listing; one network fault, jam or crash apart | 810 k |
| `ws_client` | whose answer does a call get, under which account does it run, do promises settle? | `ClientSound`, `RightAccount`, `DrainHasWork`, `CallsSettle` | two JSON calls and a binary one, three tokens, four sockets: two drain while a third is used and one ends | 555 k |

Deadlock is not checked where the system may stop: when every task, request or
job has ended and the bounds allow no other.

Fairness. `FairSpec` of the limiter: time passes, a caller evaluates its script
and releases, as a thread that runs does; nobody has to ask, no fault has to
happen. `ChokeSpec`: a request that was begun runs on, since calls end by their own
timeout. `FairMailboxSpec`: a worker goes on with its task and takes another.
`FairEmailSpec`: the workers do not rest while a task waits, so some task goes on; which
one is not said. The subscript of its `WF` is `tasks`, since each such step changes that
set. The ceiling of the watchdog is what makes `SyncsEnd` true. `SessionsFairSpec`:
weak fairness of each worker's task, and strong fairness of polling each active
row, because the broker's queue is first in, first out and Beat enqueues every
active row every two seconds; the dashboard need not make progress.
`CodeModeSwitch`: each task is run, and each of its waits has a deadline
(`_wait_for_daemon`); nobody has to toggle. `GenerationWorker`: each thread that
began goes on, by the operating system's scheduling, and the worker's loop never
ends. `DownloadJobs`: the runner, the watcher, a cancellation and each file's
thread go on; that a stream in the end gets its last chunk, or fails, is strong
fairness, because the request has a timeout of 30 seconds per read and a file is
finite. `WsApiClient`: while a timer, a connection attempt, an answer, a delivery
or a close is outstanding, one of them happens; which one is not said, since each
happens a bounded number of times.

## 4. What holds

*Limiter and callers.* The sorted set never exceeds the lane's budget, whatever
callers do (`LaneCap`). If callers finish within their lease, a tenant's counter
is never below the slots it holds, despite crashes and lost answers
(`CounterCovers`), therefore the sub-cap (`TenantCap`) and the lane
(`CallsInFlightCap`) bound calls in flight. A dead holder's slot is reclaimed
however busy the lane (`LaneSelfHeals`), its tenant's share only once the tenant
is idle (`TenantHealsWhenIdle`). A slot is held by exactly the callers in a
provider call or a stream's pause, and without leaks the counters are exact
(`CallsSound`); the provider never sees more calls than the lane has slots
(`ProviderCap`), and requests end (`RequestsEnd`).

*Mailbox backfill.* One execution per mailbox until a lock outlives its hour
(`LockExclusive`), and without crashes a lock always belongs to a running
execution (`LockHasLiveHolder`). Until a lock lapses a message has at most one
row per mailbox that lists it (`MailboxSound`): not one row altogether, because
the tasks of two mailboxes look and insert independently. Everything before the
cursor is stored and a completed mailbox has all the mail it had at first
(`NothingMissed`), through crashes, redelivery, resumption, arriving mail and
lapsed locks. `KeepsPromise` is the refinement: every step of the task is a step
of `Backfill` or changes nothing it sees. Without crashes and errors every
mailbox gets done (`BackfillEnds`).

*Email sync.* In a first sync no task finds the key gone (`FirstSyncKeepsKey`),
and at its end nobody left it behind (`KeyConsumed`). Success is reported only
when all mailboxes are completed (`EmailSound`). Mail that is not searchable leaves its
account pending (`IndexingNotForgotten`), unless a login found most of the account
indexed and gave up the rest. After a disconnect a purged account has no chunk but
those that were in an open transaction when its flag was set, unless another task
cleared that flag (`IndexStopsOnDisconnect`). Every chain of tasks ends (`SyncsEnd`).

*Coding sessions.* A request starts at most one session (`OneSessionPerRequest`),
unless a session's answer is lost or a marker expires. A started session has a row, will
get one, or was lost by its launch: the answer did not arrive, the row could not be
written, or the process was killed (`SessionsAreWatched`). A row is a prefix of its feed, and its
status what those events say, while polls do not overlap (`RowMatchesFeed`). When
they do, a late poll may take back a terminal status, but the session is then
polled to its end again, and it is charged (`EventuallyCharged`) and never
charged more than it cost, unless two debits were both checked before either was
applied (`SessionsSound`).

*Code mode.* When every switch that ended succeeded, some daemon runs
(`SwitchSound`); while switches do not overlap and no stop fails, never both
(`OneDaemon`), across retries, redeliveries and crashes between stop and start. A
toggle made while nothing else is under way is what card and database end up with
(`AgreesAtRest`), and every switch ends (`SwitchesEnd`).

*Chat worker.* A conversation never has two generations queued or running,
however adds, interrupts and the ends of a generation interleave (`WorkerSound`).
A message is handled under the identity it was sent with, unless two threads were
adding at once (`HandledAsSender`). A conversation leaves the in-flight set and a
requested unload is done, unless one of the events of section 6 happens
(`ConversationFreed`, `UnloadDone`).

*Downloads.* When a job is completed, every file of known size that it listed or found is
whole, whatever earlier jobs left, and what it left out although it was missing is not
there in part (`CompletedMeansFetched`); that a completed job has fetched everything is
true of the API listing only (section 6). A completed job stays completed, or
its row is torn by a crash (`CompletedStays`). A running job has a runner
(`DownloadSound`) and ends (`JobsEnd`), each unless something named there happens.

*WebSocket client.* A call never gets another call's answer (`ClientSound`), runs
under the account that issued it, and the cached bootstrap payload is of the
account connected (`RightAccount`); a socket drains only while it has work
(`DrainHasWork`); every promise settles (`CallsSettle`). Each has the exceptions of
section 6.

## 5. What is proved

Each proof module EXTENDS the module it is about. Nothing is assumed but the
named ASSUME of that module and, where the table says so, which faults the
environment has. Theorems whose property a run checks are listed in
`PROJECT.json`; the run shows the property on a small instance, the theorem for
every value of the constants.

| Theorem | States | Needs of the environment |
|---|---|---|
| `CompletionChokeProofs!TypeCorrect` | `Spec => []TypeOK`, of the limiter | nothing |
| `LaneCapSafe` | `Spec => []LaneCap` | nothing |
| `CountersCoverHolders` | `Spec => []CounterCovers` | no late caller (`"late" \notin Faults`) |
| `TenantCapSafe`, `CallsInFlightSafe` | the two parts of `CapsHold` | the same |
| `SlotsSoundSafe`, `CapsSafe` | `Spec => []SlotsSound`, `Spec => []CapsHold` | the same |
| `CallersUseLimiter` | `ChokeSpec => Spec`: the callers' loops implement the limiter's environment | callers may die (`"crash" \in Faults`) |
| `ProviderCapSafe`, `CallsSoundSafe` | `ChokeSpec => []ProviderCap`, `ChokeSpec => []CallsSound` | the same, and no late caller |
| `MailboxBackfillProofs!OneExecutionPerMailbox` | `MailboxSpec => []LockExclusive` | in the property: no lock has lapsed |
| `EveryLockHasHolder` | `MailboxSpec => []LockHasLiveHolder` | in the property: no lapse, no crash |
| `MailboxTypesSafe`, `MailboxSoundSafe` | `MailboxSpec => []MailboxTypeOK`, `MailboxSpec => []MailboxSound` | for the rows, in the property: no lock has lapsed |
| `NothingMissedSafe` | `MailboxSpec => []NothingMissed` | in the property: not both a lapse and a disconnect |
| `BackfillKeepsPromise` | `MailboxSpec => KeepsPromise`, the refinement of `Backfill` | in the property: no lock has lapsed |
| `EmailSyncProofs!EmailSoundSafe` | `EmailSpec => []EmailSound` | in the property: no disconnect |
| `IndexStopsOnDisconnectSafe` | `EmailSpec => []IndexStopsOnDisconnect` | in the property: no task cleared the cancel flag, no task failed; what was being written at the disconnect is excepted |
| `KeyConsumedSafe` | `EmailSpec => []KeyConsumed` | in the property: a first sync, nothing went wrong |
| `FirstSyncKeepsKeySafe` | `EmailSpec => FirstSyncKeepsKey`, an action property | in the property: a first sync, no lapse, crash, disconnect or login |
| `IndexingNotForgottenSafe` | `EmailSpec => []IndexingNotForgotten` | in the property: one sync or login of the account, no failed or killed task, not both a crash and a disconnect; what a login gave up is excepted |
| `CodeSessionsProofs!SessionsSoundSafe` | `SessionsSpec => []SessionsSound` | for the charge, in the property: no two debits raced |
| `OneSessionPerRequestSafe` | `SessionsSpec => []OneSessionPerRequest` | in the property: no lost answer of a start, no crash under an expired marker |
| `SessionsAreWatchedSafe` | `SessionsSpec => []SessionsAreWatched` | in the property: no crash; or one request, and no killed process, expired marker or deletion |
| `RowMatchesFeedSafe` | `SessionsSpec => []RowMatchesFeed`, for every feed | in the property: no two polls of a row are open at once |
| `CodeModeSwitchProofs!SwitchTypeCorrect`, `NeverDarkSafe`, `SwitchSoundSafe` | `SwitchSound` and its two parts | nothing |
| `OneDaemonSafe` | `Spec => []OneDaemon` | in the property: no overlap, no failed stop |
| `AgreesAtRestSafe` | `Spec => []AgreesAtRest` | in the property: nothing was under way at the toggle, nothing went wrong |
| `GenerationWorkerProofs!WorkerSoundSafe` | `Spec => []WorkerSound` | nothing |
| `HandledAsSenderSafe` | `Spec => []HandledAsSender` | in the property: no two threads have added at once |
| `DownloadJobsProofs!CompletedMeansFetchedSafe`, `CompletedStaysSafe`, `DownloadSoundSafe` | `CompletedMeansFetched`, `CompletedStays`, `DownloadSound` | nothing but what the properties name; sized files that a listing left out are excepted in the first |
| `WsApiClientProofs!ClientSoundSafe` | `Spec => []ClientSound` | in the property: no binary call shared its socket, no two sockets drained at once, no rejected call was still queued |
| `RightAccountSafe` | `Spec => []RightAccount` | in the property: the token did not change with calls queued, or before the reconnect timer |
| `DrainHasWorkSafe` | `Spec => []DrainHasWork` | in the property: no two sockets drained at once, the socket in use did not end while calls were draining |

*The limiter.* `LaneCap` is not inductive by itself: an admission adds the
caller's token, and the set stays small only because the script evicts first and
finds room. `LimiterInv` adds the types, the bound of each counter and
`TokensDistinct` (a token belongs to one worker and is not a member before its
script ran). `PromptInv`, for callers that finish within their lease, adds that a
holder's token is a live member, that a counter key outlives the leases it counts,
and that the counter is at least the number of holders: a release then finds the
key and takes away only its own share. `CallsInFlightSafe` follows because
distinct holders have distinct members in a set that `LaneCap` bounds.

*The callers.* `CallInv` says at which stage of its loop a caller has which of the
limiter's states. With it each step of `CompletionChoke` is a step of the limiter
or a stutter, so `ProviderCap` follows from `CallsInFlightSafe`: a caller at the
provider is a holder. An embedding call whose exception escapes keeps its slot,
which to the limiter is a dead holder; that is why the refinement needs `"crash"`.
`ExactInv` makes the limiter's inequality an equality as long as nothing leaked:
the members of the lane are the tokens of the holders, and a counter their number.

*The mailbox lock.* `LockExclusive` says nothing of the lock, so it is not
inductive: two executions could pass it in turn. `LockInv` says that an execution
past the lock is the one that set it, with the token of its own task
(`HoldersLock`), and that a set lock has such an execution behind it
(`LocksHolder`). The token is shared by all copies of a task; a release is harmless
not because tokens differ but because no copy gets past the lock while it is set.

*The mailbox data.* `Shape` keeps every execution within the mailbox it pages, and
is what makes the types inductive: a cursor is saved from an execution's position.
`NothingMissed` speaks of cursors and finished mailboxes only; `DataInv` adds what
each execution relies on at each step (`Sound`): everything up to where its page
ends is stored or in its hands, everything due once it has reached the number of
messages it read with the page. Arriving mail shifts positions away from what is
due, never towards it. A disconnect takes all of this back under executions it does
not stop; they are excused (`Sure`) until a row exists again, and then the lock
makes sure that it is not theirs. That is where a lapse together with a disconnect
breaks the property. For the refinement `OpenInv` adds that a mailbox is not opened
again once done. For the rows `OnceInv` counts with the rows the executions about
to insert one (`Pending`): they are in different mailboxes, all of which list the
message, and when one of them is added none is stored yet.

*The sync chain.* `EmailNext` has more than thirty actions, most of which leave most of
the state alone, so the proofs first say per variable who changes it and how, and reason
about those lemmas afterwards. `Earned` says that until a disconnect a callback exists
only for an account whose mailboxes are completed: the watchdog compares two
cardinalities, and equal ones of a set and its finite superset make the sets equal.
`Stops` follows the purge: the flag is up as long as the disconnect is under way and as
long as an indexing job of the purged account runs, so that such a job adds nothing to
its transactions, and whatever is in them was there when the flag went up. `Consumed`
says that a key has a task that carries it. For `FirstSyncKeepsKey` that is not enough:
`Single` says that the carrier is the only one, that what indexes finds all mailboxes
completed, and that when the key is gone no child is left that needs it, so that whoever
still looks has consumed it himself. `IndexingNotForgotten` needs to know where in the
chain an account is (`Phases`: before its sync an account is as it was left, `Fresh`;
from the callback on all its mailboxes are completed, and what is completed has been
downloaded, `Fetched`, so that no child adds mail behind the indexing job); `Remembered`
then says that after its first success an account is searchable, marked pending, about
to be purged, given up by a login (`Waived`), or in the hands of a task that indexes or
leads to one, and that what is missing is among what a job has chosen or has in a
transaction.

*Sessions.* `Counted` bounds the sessions by the confirmed requests by counting what
may still become one: tasks waiting, launches before their start, and sessions started;
a redelivered task counts twice until it finds the marker. `Watched` says of each
session who holds it: a row, an execution, the marker with a task behind it, or `lost`.
The marker needs that nobody else writes it. `OneTaskEach` counts tasks, waiting and under
way, against confirmed requests, so with one request there is one task and it finds its
own marker (`PersistMarked`). `OneDebit` says that whoever has decided to debit a session
is alone and that the ledger is still as he saw it; without it a check and a debit in
two transactions prove nothing. `FollowInv` says that an open poll still knows its row
as it is, so what it appends continues what is stored. The status after n events is a
recursive function of the feed; that its values are statuses, and that computing from a
cursor continues computing from the beginning, is an induction over n, done by taking a
least counterexample (`WFMin` of the library, as its induction theorems cannot be
instantiated).

*The daemons.* `Lit` ties a card without a daemon to a task that has yet to start
one: it is queued, waits for its retry or stands before its start. `Sole` says that
while no switches overlapped at most one task is at work, and that a task before
its start has already stopped the other daemon. `LastWord` says, as long as nothing has
gone wrong, that the last toggle is the only thing under way, either as a thread that
has yet to enqueue it or as one task that carries its mode, and that the database
already has it. None of the properties is inductive without the step each task stands
at.

*The chat worker.* `OnePerConversation` is about messages that a thread carries,
that wait in `items`, or that the worker has taken. `Places` says that each of them
has its conversation in flight and that no two places hold the same conversation.
That an index is in range is itself an invariant (`Counted`): each index was used
by an accepted message or by a requested unload, and those under way have theirs
still to come, counted with the cardinalities of the sets of threads. `Orderly`
holds while no two threads have added at once: at most one thread is between
storing and incrementing, every index put is at or below the current one, and only
the step that puts the owner stands between an item and its owner.

*Downloads.* `Contents` follows a sized file from its last chunk over the temporary file
to the model directory and on to the completed job, as `Served` by that job: whole, or
left out and absent; later jobs leave what was fetched alone (`Kept`). `Quiet` says that
no thread of a completed job is left that would touch its row, `Shape` ties the runner,
its list and the files' threads together. The three theorems rest on their conjunction.

*The WebSocket client.* The internal functions of the client are operators on a record
of its state, so the invariant is stated of such records and each function is shown to
keep it, before any action is. It has four layers, each with its own condition.
`Struct` needs none: the socket in use is the one with the live handlers, whatever is
queued or carried by a socket was issued, no call is pending twice, and the queue and
the socket in use carry no call that is being drained. `Account` says that what waits
on a socket, or in the queue, was issued under the token it will run under. `Clean`
says, until calls are mixed, that a binary call is alone on its side, that each side
carries only calls of its own, each of them once, and that a binary frame comes only of
a binary call: then the first pending call of that side is the one the frame is for.
`Calm` says that what a draining socket waits for is pending. The calls without those
that ended are a recursive function of the sequence, treated like the feeds above.

Only model-checked: liveness, that is `LaneSelfHeals`, `TenantHealsWhenIdle`,
`RequestsEnd`, `BackfillEnds`, `SyncsEnd`, `EventuallyCharged`, `SwitchesEnd`,
`ConversationFreed`, `UnloadDone`, `JobsEnd` and `CallsSettle`. The prover does not
treat fairness and ENABLED. All invariants and all other action properties of the runs
are theorems.

## 6. Observations

What the models, or reading the code for them, brought to light. No run is
dedicated to these: they are the conditions of the properties above, the
counterexamples found when such a condition is dropped, or lie beyond the models.

- *Killed processes.* The comment on `task_acks_late` says that "a worker crash re-queues
  in-flight work" (`S/tasks/celery_app.py:104-106`). The workers run a pool of processes in
  containers with a memory limit (`docker-compose.yml`), and the task of a killed process
  is acknowledged as failed: a launch killed between the start and the row leaves a
  session that nobody watches, an indexing job killed after it took the key leaves its
  account without the pending mark, and a mailbox waits for another sync.
- *Limiter.* The docstring says "slots self-heal if a worker crashes"
  (`S/cloud/distributed_limiter.py:4-6`). A lane does; the tenant's counter does
  not while its tenant keeps acquiring, because each acquisition renews the
  counter's expiry and nothing takes the dead worker's share away (164). The
  release script reads a missing counter as "1" and then decrements: the counter
  becomes -1 and never expires, against "floor at 0" (170). `TypeOK` has -1 for
  this reason.
- *Embedding.* An exception of `_call_api` that is not of the kinds it catches
  leaves the slot taken until its lease ends (`leaks` in `CompletionChoke`).
- *Mailbox lock.* Redelivered copies share the token, so an execution that lost its
  lock can release its copy's. A copy that starts after the first execution ended
  takes the "already synced" branch and counts the mailbox twice. Rows are
  checked, then inserted, without a constraint: a message listed in two mailboxes
  can get a row from each task, without any fault. With a lapse, a disconnect and a
  reconnect, an old execution moves the new row's cursor and mail is missing from
  a completed mailbox. The page loop never looks at the cancel flag. When an
  execution dies its lock stays, and its redelivery is skipped as a duplicate and
  acknowledged (`U/tasks/email_tasks.py:281`): the mailbox waits for another sync,
  although a crash is meant to re-queue work in flight.
- *Backfill.* A message destroyed at the provider between two pages pulls another
  one under the cursor, which is then skipped. `sync_cursor` is never set, so delta
  sync never runs and a completed mailbox is not fetched again.
- *Email sync.* `finish_sync` of one task clears the cancel flag that a disconnect
  set for the others (`U/tasks/email_tasks.py:761`), and the indexing job then
  stores chunks for an account whose rows are gone. Without that, the chunks that were
  added to a transaction before the flag was set are committed after the purge
  (`U/email/email_body_indexer.py:181` and `232`; nothing looks at the account). At a login
  an account with nine tenths of its threads indexed is called complete, and the rest is
  never indexed (`U/email/sync_engine.py:425-429`). Indexing jobs that are retried
  when a sync starts, or at login, delete the key that was relayed for the others.
  Of two indexing jobs of one account the later one overwrites "pending" with
  "complete". Three early exits leave the progress active until it expires. Batches
  that fail are swallowed and the index is still called complete. The watchdog
  compares numbers of mailboxes, so checkpoints of mailboxes that are gone count.
  Beat's keyless parent also clears cancel flags. New connects are switched off at
  present (`EMAIL_CONNECT_DISABLED`, `U/email/routes.py:41`).
- *Coding sessions.* Two polls that see the end together can both pass the check of
  `debit_session_usage` and charge the session twice, although "a repeat call
  no-ops" (`U/code_credits_service.py:121-124`). A poll that dies after its commit
  leaves an ended session uncharged: terminal rows are not polled. A debit of the
  reconciler before the end makes the final settlement do nothing. A row that
  cannot be written is not retried, although the docstring speaks of that retry
  (`U/tasks/headlesscode_tasks.py:18-26`): the session runs unwatched. The marker
  belongs to the kind of work for an hour, so a second confirmed request gets the
  first request's session and a second row. Deleting the project stops polling, and
  the cost is never charged.
- *Code mode.* Two toggles in opposite directions can leave both daemons running,
  or the older one winning: their switches run at once and the result of a stop is
  ignored. The mode is a flag of each conversation while the daemons are shared by
  all. A mood writer that read the conversation's data before a toggle stores the
  old mode back. A toggle whose enqueue is lost has no switch, since nothing
  compares the mode with the daemons later, while the task says that "the
  switch itself self-heals" (`U/tasks/gpu_inference_tasks.py:12-13`).
- *Chat worker.* Two threads in `add_to_queue` at once may both use the same index:
  one message is lost, its conversation stays in flight, or it is handled under the
  other's tenant and account. An interruption clears the queue but not the
  conversations of what was queued. An exception raised before the `try` of the
  generation leaves its conversation in flight; a falsy result frees the
  conversation but leaves the request pending, so that a deferred unload waits for
  a generation that is over.
- *Downloads.* For art, STT, TTS and RMBG models a missing file is never fetched: the
  bootstrap listing calls `remove_file` before it lists a file, `unlink` raises for one
  that is not there, and the file is skipped
  (`S/downloads/huggingface_download_worker/_huggingface_download_worker.py:235-244`);
  with an empty list the job is completed at once (149-152). The RPC endpoints pass
  methods that are coroutines to `asyncio.to_thread` and never await them
  (`S/api/routes/rpc_downloads.py:46-105`). The waiting services compare `job.status is
  JobStatus.COMPLETED` with a different Enum
  (`S/downloads/service_download_worker.py:107-121`). A partial file of unknown size
  left by a cancellation or a crash is taken for complete. A file that is marked while
  the runner looks at its thread is counted twice, and the runner then waits for ever. A
  file thread that outlives its job puts the ended job back to running, and
  `complete_job` overrides a cancellation. The tracker's `asyncio.Lock` is entered from
  an event loop per thread: a thread that has to wait is not woken, although the tracker
  is called safe to call from background threads. A row is written in place, so a crash
  tears it; a job that was pending at a restart stays pending.
- *WebSocket client.* A binary frame is given to the first pending call, not to the
  first that expects one, and a header puts its call's id back at the end. When one
  socket ends, all pending calls are rejected, those of draining sockets included, and a
  queued call that was rejected is still sent later. A queued call goes out under the
  token of the moment it is sent. Two rotations in a row leave a draining socket behind.
  The proof of `OwnAnswer` showed a case beyond the bounds of the run: all pending calls
  are rejected while an old socket still drains, the next call's socket is rotated too,
  and the old socket's binary frame settles that call, since `_drainingRpcIds` is shared
  by all draining sockets. A socket that is closing when `connect` runs loses its close
  handler, and its calls never settle. A reconnect by the timer keeps the bootstrap
  payload of the previous account. Beyond the model: an anonymous subscription with one
  forbidden channel is rejected whole; the coding card reads `events` where the push
  says `event`; an answer fetched by HTTP may overwrite a newer pushed status.

## 7. Running

    tlc -workers 2 -config limiter_faults.cfg MCSlotLimiter
    tlc -workers 2 -config limiter_heal.cfg MCSlotLimiter
    tlc -workers 2 -config choke.cfg CompletionChoke
    tlc -workers 2 -config backfill_faults.cfg MCMailboxBackfill
    tlc -workers 2 -config backfill_ends.cfg MCMailboxBackfill
    tlc -workers 2 -config email_sync.cfg MCEmailSync
    tlc -workers 2 -config code_sessions.cfg MCCodeSessions
    tlc -workers 2 -config code_sessions_settle.cfg MCCodeSessions
    tlc -workers 2 -config code_mode.cfg CodeModeSwitch
    tlc -workers 2 -config generation_worker.cfg GenerationWorker
    tlc -workers 2 -config download_jobs.cfg DownloadJobs
    tlc -workers 2 -config ws_client.cfg WsApiClient

    tlapm CompletionChokeProofs.tla      # and the other seven *Proofs modules

`PROJECT.json` lists components, runs, mutants, the source lines of each
definition, hazards and theorems.
