---------------------------- MODULE DownloadJobs ----------------------------
(***************************************************************************)
(* The HuggingFace download jobs: one model is fetched, file by file, into *)
(* the model directory.  A job has a runner thread, one thread per file, a *)
(* thread that watches for a cancellation, and a row in the file-backed    *)
(* job tracker (downloads/persistent_job_tracker.py, downloads/job_service *)
(* and downloads/huggingface_download_worker).                             *)
(*                                                                         *)
(* A process runs one job of the model: the clients in the process poll a  *)
(* job with "is" against the members of another JobStatus and never see it *)
(* end (service_download_worker.py:107-121), so they start no second one.  *)
(* After a restart the next job finds what the last one left on the disk.  *)
(***************************************************************************)
EXTENDS Naturals, FiniteSets

CONSTANTS File,     \* the files of the model (or those a caller says are missing)
          Unsized,  \* those whose size the listing does not tell (size 0)
          Jobs,     \* how many jobs are started, each in a process of its own
          MaxFaults \* bound: network failures

ASSUME DownloadAssumption ==
  /\ IsFiniteSet(File) /\ Unsized \subseteq File
  /\ Jobs \in Nat \ {0} /\ MaxFaults \in Nat

VARIABLES
  job,        \* the job of this process, counted from 1; 0: none so far
  alive,      \* the process has the job (its threads and its registry)
  status,     \* the status the tracker has for each job (_jobs)
  runner,     \* where the job's runner thread is
  verdict,    \* what the runner will report: completion, failure or nothing
  cancelled,  \* worker.is_cancelled
  event,      \* the job's cancel event
  watching,   \* the cancel watcher is in its loop
  cancelling, \* a cancel() call set the event and has not told the tracker
  todo,       \* the files the runner has listed
  fetching,   \* where each file's thread is
  got,        \* what the file's thread has received, while it needs to know
  temp,       \* the content of .downloading/<file>
  final,      \* the content of <model directory>/<file>
  completed,  \* _completed_files
  failed,     \* _failed_files
  suspect,    \* files the runner saw unmarked, before it asks is_alive()
  skipped,    \* history: sized files that were missing and that a job did not list
  faults,     \* network failures so far
  happened    \* events the code has no answer to: see Next

vars == <<job, alive, status, runner, verdict, cancelled, event, watching,
          cancelling, todo, fetching, got, temp, final, completed, failed,
          suspect, skipped, faults, happened>>

worker == <<cancelled, todo, fetching, got, completed, failed, suspect>>
disk   == <<temp, final>>
trace  == <<skipped, happened>>

Content  == {"none", "part", "whole"}
Active   == {"pending", "running", "interrupted"}
Ended    == {"completed", "failed", "cancelled", "interrupted"}
Sized    == File \ Unsized
Jammed   == "jam" \in happened

Working  == {"open", "move", "stream", "report", "finalize", "mark"}
\* Thread.is_alive()
Lives(f) == fetching[f] \in Working \cup {"log", "hung"}

\* A file may be there in part, copied by hand or left by an older version.
Init ==
  /\ job = 0 /\ alive = FALSE
  /\ status = [j \in 1..Jobs |-> "none"]
  /\ runner = "none" /\ verdict = "none"
  /\ cancelled = FALSE /\ event = FALSE /\ watching = FALSE /\ cancelling = FALSE
  /\ todo = {} /\ completed = {} /\ failed = {} /\ suspect = {}
  /\ fetching = [f \in File |-> "none"] /\ got = [f \in File |-> "none"]
  /\ temp = [f \in File |-> "none"] /\ final \in [File -> {"none", "part"}]
  /\ faults = 0 /\ happened = {} /\ skipped = [j \in 1..Jobs |-> {}]

\* One call of the tracker.  Its asyncio.Lock is shared by the event loops of
\* all threads: once a thread has had to wait for it (LockJams), every further
\* call raises RuntimeError and changes nothing.
Track(s) == status' = IF Jammed THEN status ELSE [status EXCEPT ![job] = s]

Note(e, cond) == happened' = IF cond THEN happened \cup {e} ELSE happened

(***************************************************************************)
(* The runner.                                                             *)
(***************************************************************************)

\* _start_job: the tracker's row, the registry entry and the thread.
StartJob ==
  /\ ~alive /\ job < Jobs
  /\ job' = job + 1 /\ alive' = TRUE
  /\ status' = [status EXCEPT ![job + 1] = "pending"]
  /\ runner' = "new"
  /\ UNCHANGED <<verdict, cancelled, event, watching, cancelling, todo,
                 fetching, got, completed, failed, suspect, disk, faults,
                 trace>>

\* The first update is before the try block: when it raises, the thread is
\* gone and the job stays registered.  A cancelled job becomes running again.
RunnerStarts ==
  /\ runner = "new"
  /\ Track("running")
  /\ runner' = IF Jammed THEN "gone" ELSE "reset"
  /\ watching' = ~Jammed
  /\ UNCHANGED <<job, alive, verdict, event, cancelling, worker, disk, faults,
                 trace>>

WatcherSees ==
  /\ watching /\ event
  /\ cancelled' = TRUE /\ watching' = FALSE
  /\ UNCHANGED <<job, alive, status, runner, verdict, event, cancelling, todo,
                 fetching, got, completed, failed, suspect, disk, faults,
                 trace>>

\* _cleanup_temp_files: the whole directory, whoever is writing in it.
EmptyDir == temp' = [f \in File |-> "none"]

\* _download_model forgets a cancellation the watcher has passed on already, and
\* empties a temp directory that has not changed for long.
RunnerResets ==
  /\ runner = "reset"
  /\ cancelled' = FALSE
  /\ runner' = "list"
  /\ EmptyDir \/ UNCHANGED temp
  /\ UNCHANGED <<job, alive, status, verdict, event, watching, cancelling,
                 todo, fetching, got, completed, failed, suspect, final, faults,
                 trace>>

Absent == {f \in File : final[f] = "none"}
Short  == {f \in Sized : final[f] = "part"}

\* Without files to fetch the job is done.
Listed(files, removed) ==
  /\ todo' = files
  /\ final' = [f \in File |-> IF f \in removed THEN "none" ELSE final[f]]
  /\ IF files = {} THEN runner' = "decide" /\ verdict' = "complete"
                   ELSE runner' = "spawn" /\ UNCHANGED verdict
  /\ UNCHANGED <<job, alive, status, cancelled, event, watching, cancelling,
                 fetching, got, completed, failed, suspect, temp, faults,
                 happened>>

\* _build_from_api: a file is fetched unless it is there; a short one is removed,
\* but of an unsized one nobody can tell whether it is short.
ListFromApi ==
  /\ runner = "list" /\ ~Jammed
  /\ Listed(Absent \cup Short, Short)
  /\ UNCHANGED skipped

\* _build_from_bootstrap (art, STT, TTS, RMBG): remove_file() has to succeed before
\* a file is listed, and of a file that is not there it does not.  A small file
\* without a size counts as short.  Weights that nobody wants are removed only.
ListFromBootstrap ==
  /\ runner = "list" /\ ~Jammed
  /\ \E small \in SUBSET (Unsized \ Absent), unwanted \in SUBSET Short :
       /\ Listed((Short \ unwanted) \cup small, Short \cup small)
       /\ skipped' = [skipped EXCEPT ![job] = (Absent \cap Sized) \cup unwanted]

\* The network, or the log line before the listing.
ListFails ==
  /\ runner = "list"
  /\ IF Jammed THEN UNCHANGED faults
               ELSE faults < MaxFaults /\ faults' = faults + 1
  /\ verdict' = "fail" /\ runner' = "decide"
  /\ UNCHANGED <<job, alive, status, cancelled, event, watching, cancelling,
                 todo, fetching, got, completed, failed, suspect, disk,
                 trace>>

\* Each file's thread is preceded by a look at is_cancelled and by a log line;
\* a runner that stops here leaves the threads it has started.
Spawn(f) ==
  /\ runner = "spawn" /\ ~cancelled
  /\ f \in todo /\ fetching[f] = "none"
  /\ IF Jammed
       THEN verdict' = "fail" /\ runner' = "decide" /\ UNCHANGED fetching
       ELSE /\ fetching' = [fetching EXCEPT ![f] = "open"]
            /\ runner' = IF \A g \in todo \ {f} : fetching[g] # "none"
                           THEN "wait" ELSE "spawn"
            /\ UNCHANGED verdict
  /\ UNCHANGED <<job, alive, status, cancelled, event, watching, cancelling,
                 todo, got, completed, failed, suspect, disk, faults, trace>>

SpawnStops ==
  /\ runner = "spawn" /\ cancelled
  /\ runner' = "decide"
  /\ UNCHANGED <<job, alive, status, verdict, event, watching, cancelling,
                 worker, disk, faults, trace>>

\* The loop of _wait_for_completion.  _mark_orphaned_threads_failed looks at the
\* two sets first ...
Peek ==
  /\ runner = "wait" /\ ~cancelled
  /\ suspect' = todo \ (completed \cup failed)
  /\ runner' = "sweep"
  /\ UNCHANGED <<job, alive, status, verdict, cancelled, event, watching,
                 cancelling, todo, fetching, got, completed, failed, disk,
                 faults, trace>>

\* ... and asks is_alive() afterwards: a thread that completed its file and
\* ended in between is marked as failed too ("double").
Sweep ==
  /\ runner = "sweep"
  /\ LET orphans == {f \in suspect : ~Lives(f)} IN
       IF Jammed /\ orphans # {}
         THEN verdict' = "fail" /\ runner' = "decide" /\ UNCHANGED <<failed, happened>>
         ELSE /\ failed' = failed \cup orphans /\ runner' = "check"
              /\ Note("double", orphans \cap completed # {})
              /\ UNCHANGED verdict
  /\ suspect' = {}
  /\ UNCHANGED <<job, alive, status, cancelled, event, watching, cancelling,
                 todo, fetching, got, completed, disk, skipped, faults>>

AllDone == Cardinality(completed) + Cardinality(failed) = Cardinality(todo)

WaitOn ==
  /\ runner = "check" /\ ~AllDone
  /\ runner' = "wait"
  /\ UNCHANGED <<job, alive, status, verdict, event, watching, cancelling,
                 worker, disk, faults, trace>>

\* Mutant of WaitEnds: a failed file does not fail the job
WaitEndsAnyway ==
  /\ runner = "check" /\ ~cancelled /\ AllDone
  /\ verdict' = "complete"
  /\ EmptyDir
  /\ runner' = "decide"
  /\ UNCHANGED <<job, alive, status, event, watching, cancelling, worker, final,
                 faults, trace>>

WaitEnds ==
  /\ runner = "check" /\ ~cancelled /\ AllDone
  /\ verdict' = IF failed = {} THEN "complete" ELSE "fail"
  /\ IF failed = {} THEN EmptyDir ELSE UNCHANGED temp
  /\ runner' = "decide"
  /\ UNCHANGED <<job, alive, status, event, watching, cancelling, worker, final,
                 faults, trace>>

WaitCancelled ==
  /\ cancelled
  /\ runner = "wait" \/ (runner = "check" /\ AllDone)
  /\ IF Jammed THEN UNCHANGED temp ELSE EmptyDir
  /\ runner' = "decide"
  /\ UNCHANGED <<job, alive, status, verdict, event, watching, cancelling,
                 worker, final, faults, trace>>

\* After handle_message: a cancellation comes before what was signalled.
RunnerDecides ==
  /\ runner = "decide"
  /\ runner' = "tell"
  /\ verdict' = CASE event \/ cancelled       -> "cancel"
                  [] verdict = "none"         -> "fail"
                  [] OTHER                    -> verdict
  /\ UNCHANGED <<job, alive, status, cancelled, event, watching, cancelling,
                 todo, fetching, got, completed, failed, suspect, disk, faults,
                 trace>>

\* Mutant of RunnerTells: a verdict other than completion is not reported
RunnerTellsSuccess ==
  /\ runner = "tell"
  /\ IF verdict = "complete" THEN Track("completed") ELSE UNCHANGED status
  /\ runner' = "over" /\ watching' = FALSE
  /\ UNCHANGED <<job, alive, verdict, event, cancelling, worker, disk, faults,
                 trace>>

\* complete_job and fail_job overwrite any status, cancel_job only an active
\* one; then the job is forgotten (its cancel event with it).
RunnerTells ==
  /\ runner = "tell"
  /\ CASE verdict = "complete" -> Track("completed")
       [] verdict = "fail"     -> Track("failed")
       [] verdict = "cancel"   -> IF status[job] \in Active
                                    THEN Track("cancelled") ELSE UNCHANGED status
  /\ runner' = "over" /\ watching' = FALSE
  /\ UNCHANGED <<job, alive, verdict, event, cancelling, worker, disk, faults,
                 trace>>

(***************************************************************************)
(* A file's thread.                                                        *)
(***************************************************************************)

\* What every step of a file's thread leaves alone.
Others == UNCHANGED <<job, alive, runner, verdict, event, watching, cancelling,
                      cancelled, todo, suspect, skipped>>

Goto(f, pc) == fetching' = [fetching EXCEPT ![f] = pc]

\* The temp file is as long as the listing says: it is moved as it is.  With
\* no size in the listing any temp file is long enough.
Enough(f) == temp[f] = "whole" \/ (temp[f] = "part" /\ f \in Unsized)

\* _check_resume finds a finished temp file or opens it to go on.
FileOpens(f) ==
  /\ fetching[f] = "open"
  /\ IF Enough(f)
       THEN Goto(f, "move") /\ UNCHANGED <<got, temp>>
       ELSE /\ got' = [got EXCEPT ![f] = "part"]
            /\ temp' = [temp EXCEPT ![f] = "part"]
            /\ Goto(f, "stream")
  /\ UNCHANGED <<status, final, completed, failed, faults, happened>> /\ Others

Forgets(f) == got' = [got EXCEPT ![f] = "none"]

\* The old file in the model directory is removed, then the temp file takes its
\* place.  rename() raises when the temp directory has been emptied, and the
\* thread ends without a mark.
Moves(f) ==
  /\ final' = [final EXCEPT ![f] = temp[f]]
  /\ temp' = [temp EXCEPT ![f] = "none"]
  /\ Goto(f, IF temp[f] = "none" THEN "dead" ELSE "mark")
  /\ Forgets(f)

FileMoves(f) ==
  /\ fetching[f] = "move"
  /\ Moves(f)
  /\ UNCHANGED <<status, completed, failed, faults, happened>> /\ Others

\* A chunk is written (to nowhere, when the directory has been removed) and
\* reported at every megabyte; the last one always is.
FileWrites(f) ==
  /\ fetching[f] = "stream" /\ ~cancelled
  /\ \E c \in {"part", "whole"} :
       /\ got' = [got EXCEPT ![f] = c]
       /\ temp' = [temp EXCEPT ![f] = IF @ = "none" THEN "none" ELSE c]
  /\ Goto(f, "report")
  /\ UNCHANGED <<status, final, completed, failed, faults, happened>> /\ Others

\* The stream ends here for a cancelled download, without the last report.
FileStops(f) ==
  /\ fetching[f] = "stream" /\ cancelled
  /\ Goto(f, "finalize")
  /\ UNCHANGED <<status, got, disk, completed, failed, faults, happened>> /\ Others

\* Mutant of FileReports: the last report comes after the file is in place
FileReportsLate(f) ==
  \/ /\ fetching[f] = "report" /\ got[f] = "part"
     /\ Track("running")
     /\ Goto(f, IF Jammed THEN "dead" ELSE "stream")
     /\ UNCHANGED <<got, disk, completed, failed, faults, happened>> /\ Others
  \/ /\ fetching[f] = "report" /\ got[f] = "whole"
     /\ Goto(f, "finalize")
     /\ UNCHANGED <<status, got, disk, completed, failed, faults, happened>> /\ Others
  \/ /\ fetching[f] = "log"
     /\ Track("running")
     /\ Goto(f, "dead")
     /\ UNCHANGED <<got, disk, completed, failed, faults, happened>> /\ Others

\* update_progress(job, progress, RUNNING) whatever the status was: a job that
\* had ended by then is running again, and no one is left to end it.
FileReports(f) ==
  /\ fetching[f] = "report"
  /\ Track("running")
  /\ Note("straggle", ~Jammed /\ (runner = "over" \/ status[job] \in Ended))
  /\ Goto(f, CASE Jammed           -> "dead"
               [] got[f] = "whole" -> "finalize"
               [] OTHER            -> "stream")
  /\ UNCHANGED <<got, disk, completed, failed, faults>> /\ Others

\* A RequestException: a log line, then the file is marked as failed.
FileFails(f) ==
  /\ fetching[f] \in {"open", "stream"} /\ faults < MaxFaults
  /\ faults' = faults + 1
  /\ failed' = IF Jammed THEN failed ELSE failed \cup {f}
  /\ Goto(f, "dead") /\ Forgets(f)
  /\ UNCHANGED <<status, disk, completed, happened>> /\ Others

\* A short file fails, if its size is known; another one is moved.
FileFinalizes(f) ==
  /\ fetching[f] = "finalize"
  /\ IF f \in Sized /\ got[f] # "whole"
       THEN /\ failed' = failed \cup {f}
            /\ Goto(f, "dead") /\ Forgets(f) /\ UNCHANGED disk
       ELSE Moves(f) /\ UNCHANGED failed
  /\ UNCHANGED <<status, completed, faults, happened>> /\ Others

\* _mark_file_complete: the set, then a log line in the tracker's row.
FileMarks(f) ==
  /\ fetching[f] = "mark"
  /\ completed' = completed \cup {f}
  /\ Goto(f, "log")
  /\ UNCHANGED <<status, got, disk, failed, faults, happened>> /\ Others

FileLogs(f) ==
  /\ fetching[f] = "log"
  /\ Goto(f, "dead")
  /\ UNCHANGED <<status, got, disk, completed, failed, faults, happened>> /\ Others

(***************************************************************************)
(* Cancellation, the tracker's lock, the process.                          *)
(***************************************************************************)

\* cancel(): the event of a registered job, then the tracker.  Once per job while
\* it is registered: a bound.
Cancel ==
  /\ alive /\ ~cancelling /\ ~event
  /\ event' = (event \/ runner # "over") /\ cancelling' = TRUE
  /\ UNCHANGED <<job, alive, status, runner, verdict, watching, worker, disk,
                 faults, trace>>

CancelTracked ==
  /\ cancelling
  /\ cancelling' = FALSE
  /\ IF status[job] \in Active THEN Track("cancelled") ELSE UNCHANGED status
  /\ UNCHANGED <<job, alive, runner, verdict, event, watching, worker, disk,
                 faults, trace>>

\* A row a restart left is cancelled in the tracker alone.
CancelOld(j) ==
  /\ j < job \/ ~alive
  /\ status[j] \in Active \ {"running"} /\ ~Jammed
  /\ status' = [status EXCEPT ![j] = "cancelled"]
  /\ UNCHANGED <<job, alive, runner, verdict, event, watching, cancelling,
                 worker, disk, faults, trace>>

\* The threads that may be in the tracker.
InTracker == {f \in File : fetching[f] \in {"report", "log"}}
RunnerCalls ==
  \/ runner \in {"new", "list", "spawn", "tell"}
  \/ runner = "sweep" /\ \E f \in suspect : ~Lives(f)
  \/ runner = "wait" /\ cancelled
InTrackerCount ==
  Cardinality(InTracker) + (IF RunnerCalls THEN 1 ELSE 0) + (IF cancelling THEN 1 ELSE 0)

\* Two threads in the tracker at once: one of them waits for the asyncio.Lock on
\* an event loop of its own, which release() in the other thread cannot wake.
LockJams ==
  /\ ~Jammed /\ InTrackerCount > 1
  /\ happened' = happened \cup {"jam"}
  /\ \/ \E f \in InTracker : Goto(f, "hung") /\ UNCHANGED <<runner, cancelling>>
     \/ RunnerCalls /\ runner' = "hung" /\ UNCHANGED <<fetching, cancelling>>
     \/ cancelling /\ cancelling' = FALSE /\ UNCHANGED <<runner, fetching>>
  /\ UNCHANGED <<job, alive, status, verdict, cancelled, event, watching,
                 todo, got, disk, completed, failed, suspect, skipped, faults>>

\* Mutant of Reloaded: the rows are taken as they are
ReloadedAsSaved(s) == s

\* _reload_from_disk.  A pending job stays pending; nobody starts it.
Reloaded(s) == IF s = "running" THEN "interrupted" ELSE s

\* The process dies; the next one reloads the tracker.  A row that was being
\* written is torn, and a torn row is unlinked.
Crash ==
  /\ alive
  /\ alive' = FALSE
  /\ \E torn \in BOOLEAN :
       /\ torn => RunnerCalls \/ cancelling \/ InTracker # {}
       /\ status' = [j \in 1..Jobs |-> IF torn /\ j = job THEN "gone"
                                                          ELSE Reloaded(status[j])]
  /\ happened' = (happened \cap {"stranded"})
                  \cup (IF status[job] = "pending" THEN {"stranded"} ELSE {})
  /\ runner' = "none" /\ verdict' = "none" /\ cancelled' = FALSE
  /\ event' = FALSE /\ watching' = FALSE /\ cancelling' = FALSE
  /\ todo' = {} /\ completed' = {} /\ failed' = {} /\ suspect' = {}
  /\ fetching' = [f \in File |-> "none"] /\ got' = [f \in File |-> "none"]
  /\ UNCHANGED <<job, disk, skipped, faults>>

Runner ==
  \/ RunnerStarts \/ RunnerResets \/ ListFails
  \/ ListFromApi \/ ListFromBootstrap
  \/ SpawnStops \/ Peek \/ Sweep \/ WaitOn \/ WaitEnds \/ WaitCancelled
  \/ RunnerDecides \/ RunnerTells
  \/ \E f \in File : Spawn(f)

Fetch(f) ==
  \/ FileOpens(f) \/ FileMoves(f) \/ FileWrites(f) \/ FileStops(f) \/ FileReports(f)
  \/ FileFails(f) \/ FileFinalizes(f) \/ FileMarks(f)
  \/ FileLogs(f)

Next ==
  \/ StartJob \/ Runner \/ WatcherSees \/ Cancel \/ CancelTracked
  \/ LockJams \/ Crash
  \/ \E f \in File : Fetch(f)
  \/ \E j \in 1..Jobs : CancelOld(j)

\* The operating system runs the threads and the network answers or times out
\* (requests.get(timeout = 30)), so that a response has a last chunk; nobody has
\* to cancel, start a job or crash.
Spec == Init /\ [][Next]_vars

FairSpec ==
  /\ Spec
  /\ WF_vars(Runner) /\ WF_vars(WatcherSees) /\ WF_vars(CancelTracked)
  /\ \A f \in File : /\ WF_vars(FileOpens(f) \/ FileMoves(f) \/ FileStops(f) \/ FileReports(f)
                                 \/ FileFinalizes(f) \/ FileMarks(f) \/ FileLogs(f))
                     /\ SF_vars(FileWrites(f) /\ got'[f] = "whole")

(***************************************************************************)
(* Properties.                                                             *)
(***************************************************************************)

\* Every variable has a value of its kind.
DownloadTypeOK ==
  /\ job \in 0..Jobs /\ alive \in BOOLEAN
  /\ status \in [1..Jobs -> {"none", "gone"} \cup Active \cup Ended]
  /\ runner \in {"none", "new", "reset", "list", "spawn", "wait", "sweep", "check",
                 "decide", "tell", "over", "gone", "hung"}
  /\ verdict \in {"none", "complete", "fail", "cancel"}
  /\ {cancelled, event, watching, cancelling} \subseteq BOOLEAN
  /\ todo \subseteq File /\ suspect \subseteq todo
  /\ completed \subseteq todo /\ failed \subseteq todo
  /\ fetching \in [File -> Working \cup {"none", "log", "dead", "hung"}]
  /\ got \in [File -> Content]
  /\ temp \in [File -> Content] /\ final \in [File -> Content]
  /\ skipped \in [1..Jobs -> SUBSET Sized] /\ faults \in 0..MaxFaults
  /\ happened \subseteq {"jam", "straggle", "double", "stranded"}

\* A file of known size that a completed job listed, or found, is whole in the
\* model directory, whatever earlier jobs left there or in the temp directory; one
\* that the job did not list although it was missing is not there in part either
\* (_finalize, _check_resume, _build_from_api, _build_from_bootstrap,
\* _wait_for_completion).
CompletedMeansFetched ==
  \A j \in 1..Jobs : status[j] = "completed" =>
     \A f \in Sized : \/ final[f] = "whole"
                       \/ (f \in skipped[j] /\ final[f] = "none")

\* No late report of a file's thread and no cancellation takes a completed job
\* back, and no restart: all threads have reported by then.  A crash that tears
\* the row loses it (_stream_to_disk, _mark_file_complete, cancel_job,
\* _reload_from_disk; a row is kept for an hour).
CompletedStays ==
  [][\A j \in 1..Jobs : status[j] = "completed" => status'[j] \in {"completed", "gone"}]_vars

\* A job the tracker shows as running has a runner that will end it, or one of
\* its file threads reported after the end or the tracker's lock is jammed; a
\* restart leaves none (_run_huggingface_job, _reload_from_disk).
RunningHasRunner ==
  \A j \in 1..Jobs : status[j] = "running" =>
     \/ j = job /\ runner \notin {"none", "over", "gone"}
     \/ happened \cap {"straggle", "jam"} # {}

\* A running job has a runner, as above, and the worker's sets are those of its
\* list: only listed files are suspected, completed or failed.
DownloadSound == DownloadTypeOK /\ RunningHasRunner

\* Every job that is started ends (_wait_for_completion), unless a file is
\* counted twice, a thread reports after the end, the lock jams or the process
\* dies before the job's first update.
JobsEnd ==
  \A j \in 1..Jobs :
     status[j] \in {"pending", "running"} ~> (status[j] \in Ended \cup {"gone"} \/ happened # {})

=============================================================================
