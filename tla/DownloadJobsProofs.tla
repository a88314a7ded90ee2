-------------------------- MODULE DownloadJobsProofs --------------------------
(***************************************************************************)
(* Proofs about DownloadJobs: what a completed job means, that it stays    *)
(* completed, and that a running job has a runner, for every set of files  *)
(* and every number of jobs and failures.                                  *)
(***************************************************************************)
EXTENDS DownloadJobs, FiniteSetTheorems, TLAPS

Past == {"none", "log", "dead", "hung"}
Busy == {"none", "new", "reset", "list", "spawn", "wait", "sweep", "check"}

\* The runner, its list and the files' threads belong together.
Shape ==
  /\ IF alive THEN job \in 1..Jobs ELSE runner = "none"
  /\ runner \in {"none", "new", "reset", "list"} =>
       todo = {} /\ \A f \in File : fetching[f] = "none"
  /\ \A f \in File \ todo : fetching[f] = "none"
  /\ \A f \in completed : fetching[f] \in {"log", "dead", "hung"}
  /\ verdict = "complete" =>
       runner \notin Busy /\ \A f \in File : fetching[f] \in Past
  /\ runner = "tell" => verdict # "none"
  /\ runner = "gone" => Jammed
  /\ \A j \in 1..Jobs : j > job => status[j] = "none"

\* The file is as job j left it: fetched, or missing and not listed.
Served(f, j) == final[f] = "whole" \/ (f \in skipped[j] /\ final[f] = "none")

\* A completed job's files are served, and no later thread touches those it
\* listed or found.
Kept(f) ==
  \A j \in 1..Jobs : status[j] = "completed" =>
    /\ Served(f, j)
    /\ f \notin skipped[j] => /\ fetching[f] \notin Working
                              /\ runner = "spawn" => f \notin todo

\* What is known of the content of a file whose size is known, from the last
\* chunk to the completed job.
FileContents(f) ==
  /\ fetching[f] \in {"stream", "report", "finalize"} /\ got[f] = "whole" =>
       temp[f] \in {"whole", "none"}
  /\ fetching[f] = "move" => temp[f] \in {"whole", "none"}
  /\ fetching[f] = "mark" \/ f \in completed => final[f] = "whole"
  /\ f \notin todo /\ runner \in {"spawn", "wait", "sweep", "check"} => Served(f, job)
  /\ verdict = "complete" => Served(f, job)
  /\ Kept(f)

Contents == \A f \in Sized : FileContents(f)

\* A job that completed has no thread left that would touch its row.
Quiet ==
  alive /\ job \in 1..Jobs /\ status[job] = "completed" =>
    runner = "over" /\ \A f \in File : fetching[f] \in Past

LEMMA InitSound == Init => DownloadTypeOK /\ Shape /\ Contents /\ Quiet
<1> SUFFICES ASSUME Init PROVE DownloadTypeOK /\ Shape /\ Contents /\ Quiet
  OBVIOUS
<1> USE DownloadAssumption DEF trace, Init
<1>1. DownloadTypeOK
  <2>1. status \in [1..Jobs -> {"none", "gone"} \cup Active \cup Ended]
    OBVIOUS
  <2>2. /\ fetching \in [File -> Working \cup {"none", "dead", "hung"}]
        /\ got \in [File -> Content]
        /\ temp \in [File -> Content] /\ final \in [File -> Content]
    BY DEF Content
  <2>3. job \in 0..Jobs /\ faults \in 0..MaxFaults
    OBVIOUS
  <2> QED BY <2>1, <2>2, <2>3 DEF DownloadTypeOK
<1>2. Shape
  BY DEF Shape, Past, Busy
<1>3. Contents
  BY DEF Contents, FileContents, Kept, Working, Sized
<1>4. Quiet
  BY DEF Quiet
<1> QED BY <1>1, <1>2, <1>3, <1>4

\* The job is over when each listed file is completed: then none is left out.
LEMMA AllCompleted ==
  ASSUME DownloadTypeOK, AllDone, failed = {}
  PROVE  completed = todo
<1>1. IsFiniteSet(todo) /\ completed \in SUBSET todo
  BY DownloadAssumption, FS_Subset DEF DownloadTypeOK
<1>2. Cardinality(completed) \in Nat
  BY <1>1, FS_Subset, FS_CardinalityType
<1>3. Cardinality(completed) = Cardinality(todo)
  BY <1>2, FS_EmptySet DEF AllDone
<1> QED BY <1>1, <1>3, FS_Subset

LEMMA TypeStep == DownloadTypeOK /\ Shape /\ [Next]_vars => DownloadTypeOK'
<1> SUFFICES ASSUME DownloadTypeOK, Shape, [Next]_vars PROVE DownloadTypeOK'
  OBVIOUS
<1> USE DownloadAssumption DEF trace, DownloadTypeOK, Content, Working, Active, Ended
<1>1. CASE StartJob
  BY <1>1 DEF StartJob, disk
<1>2. CASE RunnerStarts
  BY <1>2 DEF RunnerStarts, Track, worker, disk
<1>3. CASE WatcherSees
  BY <1>3 DEF WatcherSees, disk
<1>4. CASE RunnerResets
  BY <1>4 DEF RunnerResets, EmptyDir
<1>5. CASE ListFromApi \/ ListFromBootstrap
  <2>1. /\ todo' \subseteq File /\ final' \in [File -> Content]
        /\ runner' \in {"decide", "spawn"} /\ verdict' \in {verdict, "complete"}
    BY <1>5 DEF ListFromApi, ListFromBootstrap, Listed, Absent, Short, Sized
  <2>2. skipped' \in [1..Jobs -> SUBSET Sized]
    <3>1. CASE ListFromApi
      BY <3>1 DEF ListFromApi
    <3>2. ASSUME NEW unwanted \in SUBSET Short,
                 skipped' = [skipped EXCEPT ![job] = (Absent \cap Sized) \cup unwanted]
          PROVE  skipped' \in [1..Jobs -> SUBSET Sized]
      <4>1. (Absent \cap Sized) \cup unwanted \in SUBSET Sized
        BY <3>2 DEF Short
      <4> QED BY <3>2, <4>1
    <3> QED BY <1>5, <3>1, <3>2 DEF ListFromBootstrap
  <2>3. UNCHANGED <<job, alive, status, cancelled, event, watching, cancelling, fetching,
                    got, completed, failed, suspect, temp, faults, happened>>
    BY <1>5 DEF ListFromApi, ListFromBootstrap, Listed
  <2>4. completed = {} /\ failed = {} /\ suspect = {}
    BY <1>5 DEF Shape, ListFromApi, ListFromBootstrap
  <2> QED BY <2>1, <2>2, <2>3, <2>4
<1>6. CASE ListFails
  BY <1>6 DEF ListFails, disk
<1>7. ASSUME NEW f \in File, Spawn(f) PROVE DownloadTypeOK'
  BY <1>7 DEF Spawn, disk
<1>8. CASE SpawnStops \/ Peek \/ Sweep \/ WaitOn
  BY <1>8 DEF SpawnStops, Peek, Sweep, WaitOn, Note, worker, disk
<1>9. CASE WaitEnds \/ WaitCancelled
  BY <1>9 DEF WaitEnds, WaitCancelled, EmptyDir, worker, disk
<1>10. CASE RunnerDecides
  BY <1>10 DEF RunnerDecides, disk
<1>11. CASE RunnerTells
  <2>1. status' \in [1..Jobs -> {"none", "gone"} \cup Active \cup Ended]
    <3>1. CASE verdict = "complete"
      BY <1>11, <3>1 DEF RunnerTells, Track
    <3>2. CASE verdict = "fail"
      BY <1>11, <3>2 DEF RunnerTells, Track
    <3>3. CASE verdict = "cancel"
      BY <1>11, <3>3 DEF RunnerTells, Track
    <3> QED BY <1>11, <3>1, <3>2, <3>3 DEF RunnerTells, Shape
  <2> QED BY <1>11, <2>1 DEF RunnerTells, worker, disk
<1>12. ASSUME NEW f \in File, FileOpens(f) \/ FileMoves(f) PROVE DownloadTypeOK'
  BY <1>12 DEF FileOpens, FileMoves, Moves, Forgets, Goto, Others
<1>13. ASSUME NEW f \in File, FileWrites(f) PROVE DownloadTypeOK'
  BY <1>13 DEF FileWrites, Goto, Others
<1>14. ASSUME NEW f \in File, FileStops(f) PROVE DownloadTypeOK'
  BY <1>14 DEF FileStops, Goto, Others, disk
<1>15. ASSUME NEW f \in File, FileReports(f) PROVE DownloadTypeOK'
  BY <1>15 DEF FileReports, Goto, Others, Track, Note, disk
<1>16. ASSUME NEW f \in File, FileFails(f) \/ FileFinalizes(f) \/ FileMarks(f) \/ FileLogs(f)
       PROVE  DownloadTypeOK'
  <2>1. f \in todo
    BY <1>16 DEF Shape, FileFails, FileFinalizes, Moves, Forgets, FileMarks, FileLogs
  <2>2. CASE FileFails(f)
    BY <2>1, <2>2 DEF FileFails, Forgets, Goto, Others, disk
  <2>3. CASE FileFinalizes(f)
    BY <2>1, <2>3 DEF FileFinalizes, Moves, Forgets, Goto, Others, disk
  <2>4. CASE FileMarks(f) \/ FileLogs(f)
    BY <2>1, <2>4 DEF FileMarks, FileLogs, Goto, Others, disk
  <2> QED BY <1>16, <2>2, <2>3, <2>4
<1>17. CASE Cancel \/ CancelTracked
  BY <1>17 DEF Cancel, CancelTracked, Track, worker, disk
<1>18. ASSUME NEW j \in 1..Jobs, CancelOld(j) PROVE DownloadTypeOK'
  BY <1>18 DEF CancelOld, worker, disk
<1>19. CASE LockJams
  BY <1>19 DEF LockJams, Goto, disk
<1>20. CASE Crash
  <2>1. status' \in [1..Jobs -> {"none", "gone"} \cup Active \cup Ended]
    BY <1>20 DEF Crash, Reloaded
  <2>2. happened' \subseteq {"jam", "straggle", "double", "stranded"}
    BY <1>20 DEF Crash
  <2> QED BY <1>20, <2>1, <2>2 DEF Crash, disk
<1>21. CASE UNCHANGED vars
  BY <1>21 DEF vars
<1> QED
  BY <1>1, <1>2, <1>3, <1>4, <1>5, <1>6, <1>7, <1>8, <1>9, <1>10, <1>11, <1>12,
     <1>13, <1>14, <1>15, <1>16, <1>17, <1>18, <1>19, <1>20, <1>21
  DEF Next, Runner, Fetch

LEMMA ShapeStep == DownloadTypeOK /\ Shape /\ [Next]_vars => Shape'
<1> SUFFICES ASSUME DownloadTypeOK, Shape, [Next]_vars PROVE Shape'
  OBVIOUS
<1> USE DownloadAssumption DEF trace, DownloadTypeOK, Shape, Past, Working, Busy, Jammed
<1>1. CASE StartJob
  BY <1>1 DEF StartJob, disk
<1>2. CASE RunnerStarts
  BY <1>2 DEF RunnerStarts, Track, worker, disk
<1>3. CASE WatcherSees
  BY <1>3 DEF WatcherSees, disk
<1>4. CASE RunnerResets
  BY <1>4 DEF RunnerResets, EmptyDir
<1>5. CASE ListFromApi \/ ListFromBootstrap
  BY <1>5 DEF ListFromApi, ListFromBootstrap, Listed
<1>6. CASE ListFails
  BY <1>6 DEF ListFails, disk
<1>7. ASSUME NEW f \in File, Spawn(f) PROVE Shape'
  BY <1>7 DEF Spawn, disk
<1>8. CASE SpawnStops \/ Peek \/ Sweep \/ WaitOn
  BY <1>8 DEF SpawnStops, Peek, Sweep, WaitOn, Note, worker, disk
<1>9. CASE WaitEnds
  <2>1. failed = {} => completed = todo
    BY <1>9, AllCompleted DEF WaitEnds
  <2> QED BY <1>9, <2>1 DEF WaitEnds, worker
<1>10. CASE WaitCancelled
  BY <1>10 DEF WaitCancelled, worker
<1>11. CASE RunnerDecides
  BY <1>11 DEF RunnerDecides, disk
<1>12. CASE RunnerTells
  <2>1. \A j \in 1..Jobs : j # job => status'[j] = status[j]
    <3>1. CASE verdict = "complete"
      BY <1>12, <3>1 DEF RunnerTells, Track
    <3>2. CASE verdict = "fail"
      BY <1>12, <3>2 DEF RunnerTells, Track
    <3>3. CASE verdict = "cancel"
      BY <1>12, <3>3 DEF RunnerTells, Track
    <3> QED BY <1>12, <3>1, <3>2, <3>3 DEF RunnerTells
  <2> QED BY <1>12, <2>1 DEF RunnerTells, worker, disk
<1>13. ASSUME NEW f \in File, FileOpens(f) \/ FileMoves(f) \/ FileWrites(f) \/ FileStops(f)
       PROVE  Shape'
  BY <1>13 DEF FileOpens, FileMoves, Moves, Forgets, FileWrites, FileStops, Goto, Others, disk
<1>14. ASSUME NEW f \in File, FileReports(f) PROVE Shape'
  BY <1>14 DEF FileReports, Goto, Others, Track, Note, disk
<1>15. ASSUME NEW f \in File, FileFails(f) \/ FileFinalizes(f) \/ FileMarks(f) \/ FileLogs(f)
       PROVE  Shape'
  BY <1>15 DEF FileFails, FileFinalizes, Moves, Forgets, FileMarks, FileLogs, Goto, Others, disk
<1>16. CASE Cancel \/ CancelTracked
  BY <1>16 DEF Cancel, CancelTracked, Track, worker, disk
<1>17. ASSUME NEW j \in 1..Jobs, CancelOld(j) PROVE Shape'
  BY <1>17 DEF CancelOld, worker, disk, Active
<1>18. CASE LockJams
  <2>1. ASSUME NEW f \in InTracker, Goto(f, "hung"), UNCHANGED runner PROVE Shape'
    <3>1. f \in File /\ fetching[f] \in {"report", "log"}
      BY <2>1 DEF InTracker
    <3> QED BY <1>18, <2>1, <3>1 DEF LockJams, Goto, disk
  <2>2. CASE RunnerCalls /\ runner' = "hung" /\ UNCHANGED fetching
    <3>1. alive
      BY <2>2 DEF RunnerCalls
    <3> QED BY <1>18, <2>2, <3>1 DEF LockJams, disk
  <2>3. CASE UNCHANGED <<runner, fetching>>
    BY <1>18, <2>3 DEF LockJams, disk
  <2> QED BY <1>18, <2>1, <2>2, <2>3 DEF LockJams
<1>19. CASE Crash
  BY <1>19 DEF Crash, Reloaded, disk
<1>20. CASE UNCHANGED vars
  BY <1>20 DEF vars
<1> QED
  BY <1>1, <1>2, <1>3, <1>4, <1>5, <1>6, <1>7, <1>8, <1>9, <1>10, <1>11, <1>12,
     <1>13, <1>14, <1>15, <1>16, <1>17, <1>18, <1>19, <1>20
  DEF Next, Runner, Fetch

NoneCompletes == \A j \in 1..Jobs : status'[j] = "completed" => status[j] = "completed"

LEMMA ContentsStep ==
  DownloadTypeOK /\ Shape /\ Contents /\ Quiet /\ [Next]_vars => Contents'
<1> SUFFICES ASSUME DownloadTypeOK, Shape, Contents, Quiet, [Next]_vars,
                    NEW s \in Sized
             PROVE  FileContents(s)'
  BY DEF Contents, Sized
<1>0. FileContents(s) /\ s \in File /\ s \notin Unsized
  BY DEF Contents, Sized
<1> USE DownloadAssumption, <1>0 DEF trace, DownloadTypeOK, Shape, FileContents, Kept, Served, Past, Busy,
        Working, Content
<1>a. ASSUME NoneCompletes, UNCHANGED <<job, runner, verdict, skipped>>,
             UNCHANGED <<todo, completed, fetching, got, temp, final>>
      PROVE  FileContents(s)'
  BY <1>a DEF NoneCompletes
<1>1. CASE StartJob
  <2>1. NoneCompletes
    BY <1>1 DEF StartJob, NoneCompletes
  <2> QED BY <1>1, <2>1 DEF StartJob, NoneCompletes, disk
<1>2. CASE RunnerStarts
  <2>1. NoneCompletes
    BY <1>2 DEF RunnerStarts, Track, NoneCompletes
  <2> QED BY <1>2, <2>1 DEF RunnerStarts, NoneCompletes, worker, disk
<1>3. CASE WatcherSees
  BY <1>3, <1>a DEF WatcherSees, NoneCompletes, disk
<1>4. CASE RunnerResets
  BY <1>4 DEF RunnerResets, EmptyDir, NoneCompletes
<1>5. CASE ListFromApi \/ ListFromBootstrap
  <2>1. /\ runner = "list" /\ alive /\ todo = {} /\ \A f \in File : fetching[f] = "none"
        /\ runner' \in {"decide", "spawn"} /\ verdict # "complete"
        /\ UNCHANGED <<status, job, fetching, got, completed, temp>>
    BY <1>5 DEF ListFromApi, ListFromBootstrap, Listed
  <2>2. \A j \in 1..Jobs : j # job => skipped'[j] = skipped[j]
    BY <1>5 DEF ListFromApi, ListFromBootstrap
  <2>3. job \in 1..Jobs => status[job] # "completed"
    BY <2>1 DEF Quiet
  <2>4. final[s] # "part" => final'[s] = final[s]
    BY <1>5 DEF ListFromApi, ListFromBootstrap, Listed, Absent, Short
  <2>5. s \notin todo' => Served(s, job)'
    <3>1. CASE ListFromApi
      BY <3>1 DEF ListFromApi, Listed, Absent, Short
    <3>2. CASE ListFromBootstrap
      <4>1. PICK small \in SUBSET (Unsized \ Absent), unwanted \in SUBSET Short :
              /\ Listed((Short \ unwanted) \cup small, Short \cup small)
              /\ skipped' = [skipped EXCEPT ![job] = (Absent \cap Sized) \cup unwanted]
        BY <3>2 DEF ListFromBootstrap
      <4>2. job \in 1..Jobs
        BY <2>1
      <4>3. s \notin todo' => final[s] = "whole" \/ s \in Absent \/ s \in unwanted
        BY <4>1 DEF Listed, Absent, Short
      <4>4. s \in Absent \cup unwanted => s \in skipped'[job] /\ final'[s] = "none"
        BY <4>1, <4>2 DEF Listed, Absent, Short
      <4> QED BY <2>1, <2>4, <4>3, <4>4
    <3> QED BY <1>5, <3>1, <3>2
  <2>6. Kept(s)'
    <3>1. final[s] = "whole" => s \notin todo'
      BY <1>5 DEF ListFromApi, ListFromBootstrap, Listed, Absent, Short
    <3> QED BY <2>1, <2>2, <2>3, <2>4, <3>1
  <2>7. verdict' = "complete" => todo' = {}
    BY <1>5, <2>1 DEF ListFromApi, ListFromBootstrap, Listed
  <2> QED BY <2>1, <2>5, <2>6, <2>7
<1>6. CASE ListFails
  BY <1>6 DEF ListFails, NoneCompletes, disk
<1>7. ASSUME NEW f \in File, Spawn(f) PROVE FileContents(s)'
  BY <1>7 DEF Spawn, NoneCompletes, disk
<1>8. CASE SpawnStops \/ Peek \/ Sweep \/ WaitOn
  BY <1>8 DEF SpawnStops, Peek, Sweep, WaitOn, Note, NoneCompletes, worker, disk
<1>9. CASE WaitEnds
  <2>1. failed = {} => completed = todo
    BY <1>9, AllCompleted DEF WaitEnds
  <2> QED BY <1>9, <2>1 DEF WaitEnds, EmptyDir, NoneCompletes, worker
<1>10. CASE WaitCancelled
  BY <1>10 DEF WaitCancelled, EmptyDir, NoneCompletes, worker
<1>11. CASE RunnerDecides
  BY <1>11 DEF RunnerDecides, NoneCompletes, disk
<1>12. CASE RunnerTells
  <2>1. \A j \in 1..Jobs : status'[j] = "completed" =>
           status[j] = "completed" \/ (j = job /\ verdict = "complete")
    <3>1. CASE verdict = "complete"
      BY <1>12, <3>1 DEF RunnerTells, Track
    <3>2. CASE verdict = "fail"
      BY <1>12, <3>2 DEF RunnerTells, Track, NoneCompletes
    <3>3. CASE verdict = "cancel"
      BY <1>12, <3>3 DEF RunnerTells, Track, NoneCompletes
    <3> QED BY <1>12, <3>1, <3>2, <3>3 DEF RunnerTells
  <2> QED BY <1>12, <2>1 DEF RunnerTells, worker, disk
<1>13. ASSUME NEW f \in File, FileOpens(f) \/ FileMoves(f) \/ FileWrites(f) \/ FileStops(f)
       PROVE  FileContents(s)'
  BY <1>13 DEF FileOpens, FileMoves, Moves, Forgets, Enough, FileWrites, FileStops, Goto, Others, NoneCompletes, disk
<1>14. ASSUME NEW f \in File, FileReports(f) PROVE FileContents(s)'
  <2>1. NoneCompletes
    BY <1>14 DEF FileReports, Track, NoneCompletes
  <2> QED BY <1>14, <2>1 DEF FileReports, Goto, Others, NoneCompletes, disk
<1>15. ASSUME NEW f \in File, FileFails(f) \/ FileFinalizes(f) \/ FileMarks(f) \/ FileLogs(f)
       PROVE  FileContents(s)'
  BY <1>15 DEF FileFails, FileFinalizes, Moves, Forgets, FileMarks, FileLogs, Goto, Others, Sized, NoneCompletes, disk
<1>16. CASE Cancel \/ CancelTracked
  <2>1. NoneCompletes
    BY <1>16 DEF Cancel, CancelTracked, Track, NoneCompletes
  <2> QED BY <1>16, <1>a, <2>1 DEF Cancel, CancelTracked, worker, disk
<1>17. ASSUME NEW j \in 1..Jobs, CancelOld(j) PROVE FileContents(s)'
  <2>1. NoneCompletes
    BY <1>17 DEF CancelOld, NoneCompletes
  <2> QED BY <1>17, <1>a, <2>1 DEF CancelOld, worker, disk
<1>18. CASE LockJams
  BY <1>18 DEF LockJams, Goto, NoneCompletes, disk
<1>19. CASE Crash
  <2>1. NoneCompletes
    BY <1>19 DEF Crash, Reloaded, NoneCompletes
  <2> QED BY <1>19, <2>1 DEF Crash, NoneCompletes, disk
<1>20. CASE UNCHANGED vars
  BY <1>20, <1>a DEF vars, NoneCompletes
<1> QED
  BY <1>1, <1>2, <1>3, <1>4, <1>5, <1>6, <1>7, <1>8, <1>9, <1>10, <1>11, <1>12,
     <1>13, <1>14, <1>15, <1>16, <1>17, <1>18, <1>19, <1>20
  DEF Next, Runner, Fetch

LEMMA QuietStep ==
  DownloadTypeOK /\ Shape /\ Quiet /\ [Next]_vars => Quiet'
<1> SUFFICES ASSUME DownloadTypeOK, Shape, Quiet, [Next]_vars,
                    alive', job' \in 1..Jobs, status'[job'] = "completed"
             PROVE  /\ runner' = "over"
                    /\ \A f \in File : fetching'[f] \in Past
  BY DEF Quiet
<1> USE DownloadAssumption DEF trace, DownloadTypeOK, Shape, Quiet, Past, Busy, Working
<1>1. CASE StartJob \/ RunnerStarts
  BY <1>1 DEF StartJob, RunnerStarts, Track, worker, disk
<1>2. CASE WatcherSees \/ RunnerResets \/ ListFromApi \/ ListFromBootstrap \/ ListFails
  BY <1>2 DEF WatcherSees, RunnerResets, ListFromApi, ListFromBootstrap, Listed, ListFails, disk
<1>3. ASSUME NEW f \in File, Spawn(f) PROVE FALSE
  BY <1>3 DEF Spawn, disk
<1>4. CASE SpawnStops \/ Peek \/ Sweep \/ WaitOn \/ WaitEnds \/ WaitCancelled
  BY <1>4 DEF SpawnStops, Peek, Sweep, WaitOn, WaitEnds, WaitCancelled, worker, disk
<1>5. CASE RunnerDecides
  BY <1>5 DEF RunnerDecides, disk
<1>6. CASE RunnerTells
  BY <1>6 DEF RunnerTells, Track, Active, worker, disk
<1>7. ASSUME NEW f \in File, Fetch(f), ~FileLogs(f) PROVE FALSE
  <2>1. fetching[f] \in Working
    BY <1>7 DEF Fetch, FileOpens, FileMoves, Moves, Forgets, FileWrites, FileStops, FileReports, FileFails,
                FileFinalizes, Moves, Forgets, FileMarks
  <2>2. job' = job /\ alive
    BY <1>7, <2>1 DEF Fetch, FileOpens, FileMoves, Moves, Forgets, FileWrites, FileStops, FileReports, FileFails,
                      FileFinalizes, Moves, Forgets, FileMarks, Others
  <2>3. status[job] # "completed"
    BY <2>1, <2>2
  <2> QED BY <1>7, <2>2, <2>3 DEF Fetch, FileOpens, FileMoves, Moves, Forgets, FileWrites, FileStops, FileReports,
                FileFails, FileFinalizes, Moves, Forgets, FileMarks, Track
<1>7a. ASSUME NEW f \in File, FileLogs(f)
       PROVE  runner' = "over" /\ \A g \in File : fetching'[g] \in Past
  BY <1>7a DEF FileLogs, Goto, Others, disk
<1>8. CASE Cancel \/ CancelTracked
  BY <1>8 DEF Cancel, CancelTracked, Track, worker, disk
<1>9. ASSUME NEW j \in 1..Jobs, CancelOld(j)
      PROVE  runner' = "over" /\ \A f \in File : fetching'[f] \in Past
  BY <1>9 DEF CancelOld, worker, disk
<1>10. CASE LockJams
  <2>1. alive /\ job \in 1..Jobs /\ status[job] = "completed"
    BY <1>10 DEF LockJams
  <2>2. ~RunnerCalls
    BY <2>1 DEF RunnerCalls
  <2> QED BY <1>10, <2>1, <2>2 DEF LockJams, Goto
<1>11. CASE Crash
  BY <1>11 DEF Crash
<1>12. CASE UNCHANGED vars
  BY <1>12 DEF vars
<1> QED
  BY <1>1, <1>2, <1>3, <1>4, <1>5, <1>6, <1>7, <1>7a, <1>8, <1>9, <1>10, <1>11, <1>12
  DEF Next, Runner

LEMMA RunnerStep ==
  DownloadTypeOK /\ Shape /\ RunningHasRunner /\ [Next]_vars => RunningHasRunner'
<1> SUFFICES ASSUME DownloadTypeOK, Shape, RunningHasRunner, [Next]_vars,
                    NEW j \in 1..Jobs, status'[j] = "running",
                    happened' \cap {"straggle", "jam"} = {}
             PROVE  j = job' /\ runner' \notin {"none", "over", "gone"}
  BY DEF RunningHasRunner
<1>0. /\ status[j] = "running" => \/ j = job /\ runner \notin {"none", "over", "gone"}
                                  \/ happened \cap {"straggle", "jam"} # {}
  BY DEF RunningHasRunner
<1> USE DownloadAssumption, <1>0 DEF trace, DownloadTypeOK, Shape, Jammed, Working
<1>1. CASE StartJob \/ RunnerStarts
  BY <1>1 DEF StartJob, RunnerStarts, Track, worker, disk
<1>2. CASE WatcherSees \/ RunnerResets \/ ListFromApi \/ ListFromBootstrap \/ ListFails
  BY <1>2 DEF WatcherSees, RunnerResets, ListFromApi, ListFromBootstrap, Listed, ListFails, disk
<1>3. ASSUME NEW f \in File, Spawn(f)
      PROVE  j = job' /\ runner' \notin {"none", "over", "gone"}
  BY <1>3 DEF Spawn, disk
<1>4. CASE SpawnStops \/ Peek \/ Sweep \/ WaitOn \/ WaitEnds \/ WaitCancelled
  BY <1>4 DEF SpawnStops, Peek, Sweep, Note, WaitOn, WaitEnds, WaitCancelled, worker, disk
<1>5. CASE RunnerDecides
  BY <1>5 DEF RunnerDecides, disk
<1>6. CASE RunnerTells
  BY <1>6 DEF RunnerTells, Track, Active, worker, disk
<1>7. ASSUME NEW f \in File, FileReports(f)
      PROVE  j = job' /\ runner' \notin {"none", "over", "gone"}
  BY <1>7 DEF FileReports, Track, Note, Others, disk
<1>8. ASSUME NEW f \in File,
             FileOpens(f) \/ FileMoves(f) \/ FileWrites(f) \/ FileStops(f) \/ FileFails(f)
               \/ FileFinalizes(f) \/ FileMarks(f) \/ FileLogs(f)
      PROVE  j = job' /\ runner' \notin {"none", "over", "gone"}
  BY <1>8 DEF FileOpens, FileMoves, Moves, Forgets, FileWrites, FileStops, FileFails, FileFinalizes, Moves, Forgets, FileMarks, FileLogs,
              Others, disk
<1>9. CASE Cancel \/ CancelTracked
  BY <1>9 DEF Cancel, CancelTracked, Track, worker, disk
<1>10. ASSUME NEW k \in 1..Jobs, CancelOld(k)
       PROVE  j = job' /\ runner' \notin {"none", "over", "gone"}
  BY <1>10 DEF CancelOld, worker, disk
<1>11. CASE LockJams
  BY <1>11 DEF LockJams, disk
<1>12. CASE Crash
  BY <1>12 DEF Crash, Reloaded
<1>13. CASE UNCHANGED vars
  BY <1>13 DEF vars
<1> QED
  BY <1>1, <1>2, <1>3, <1>4, <1>5, <1>6, <1>7, <1>8, <1>9, <1>10, <1>11, <1>12, <1>13
  DEF Next, Runner, Fetch

\* A completed job's row is left alone by every step: by reports and
\* cancellations, as its threads have made their last report and its status is
\* not an active one; a crash may tear the row.
LEMMA CompletedStep ==
  ASSUME DownloadTypeOK, Shape, Quiet, [Next]_vars,
         NEW j \in 1..Jobs, status[j] = "completed"
  PROVE  status'[j] \in {"completed", "gone"}
<1> USE DownloadAssumption DEF trace, DownloadTypeOK, Shape, Quiet, Past, Busy, Working
<1>1. CASE StartJob \/ RunnerStarts
  BY <1>1 DEF StartJob, RunnerStarts, Track
<1>2. CASE WatcherSees \/ RunnerResets \/ ListFromApi \/ ListFromBootstrap \/ ListFails
  BY <1>2 DEF WatcherSees, RunnerResets, ListFromApi, ListFromBootstrap, Listed, ListFails
<1>3. ASSUME NEW f \in File, Spawn(f) PROVE status'[j] \in {"completed", "gone"}
  BY <1>3 DEF Spawn
<1>4. CASE SpawnStops \/ Peek \/ Sweep \/ WaitOn \/ WaitEnds \/ WaitCancelled
              \/ RunnerDecides
  BY <1>4 DEF SpawnStops, Peek, Sweep, WaitOn, WaitEnds, WaitCancelled, RunnerDecides
<1>5. CASE RunnerTells
  BY <1>5 DEF RunnerTells, Track
<1>6. ASSUME NEW f \in File, FileReports(f) PROVE status'[j] \in {"completed", "gone"}
  BY <1>6 DEF FileReports, Track
<1>7. ASSUME NEW f \in File,
             FileOpens(f) \/ FileMoves(f) \/ FileWrites(f) \/ FileStops(f) \/ FileFails(f)
               \/ FileFinalizes(f) \/ FileMarks(f) \/ FileLogs(f)
      PROVE  status'[j] \in {"completed", "gone"}
  BY <1>7 DEF FileOpens, FileMoves, Moves, Forgets, FileWrites, FileStops, FileFails, FileFinalizes, Moves, Forgets, FileMarks, FileLogs
<1>8. CASE Cancel \/ CancelTracked
  BY <1>8 DEF Cancel, CancelTracked, Track, Active
<1>9. ASSUME NEW k \in 1..Jobs, CancelOld(k) PROVE status'[j] \in {"completed", "gone"}
  BY <1>9 DEF CancelOld, Active
<1>10. CASE LockJams
  BY <1>10 DEF LockJams
<1>11. CASE Crash
  BY <1>11 DEF Crash, Reloaded
<1>12. CASE UNCHANGED vars
  BY <1>12 DEF vars
<1> QED
  BY <1>1, <1>2, <1>3, <1>4, <1>5, <1>6, <1>7, <1>8, <1>9, <1>10, <1>11, <1>12
  DEF Next, Runner, Fetch

\* What all the theorems rest on.
Sound == DownloadTypeOK /\ Shape /\ Contents /\ Quiet

LEMMA AlwaysSound == Spec => []Sound
<1>1. Init => Sound
  BY InitSound DEF Sound
<1>2. Sound /\ [Next]_vars => Sound'
  BY TypeStep, ShapeStep, ContentsStep, QuietStep DEF Sound
<1> QED BY <1>1, <1>2, PTL DEF Spec

\* When the tracker shows a job as completed, every file of a known size that the
\* job listed or found there is whole in the model directory, and one it left out
\* although it was missing is not there in part: for any number of files, jobs,
\* failures, cancellations and crashes (_finalize, _check_resume,
\* _build_from_bootstrap, _wait_for_completion).
THEOREM CompletedMeansFetchedSafe == Spec => []CompletedMeansFetched
<1>1. Sound => CompletedMeansFetched
  BY DEF Sound, Contents, FileContents, Kept, Served, CompletedMeansFetched
<1> QED BY <1>1, AlwaysSound, PTL

\* No step takes a completed job back, but for a torn row (_stream_to_disk, cancel_job,
\* _reload_from_disk).
THEOREM CompletedStaysSafe == Spec => CompletedStays
<1>1. Sound /\ [Next]_vars =>
        [\A j \in 1..Jobs :
            status[j] = "completed" => status'[j] \in {"completed", "gone"}]_vars
  BY CompletedStep DEF Sound
<1> QED BY <1>1, AlwaysSound, PTL DEF Spec, CompletedStays

\* The state is well formed, and a running job has a runner unless a thread
\* reported late or the tracker's lock is jammed (_run_huggingface_job).
THEOREM DownloadSoundSafe == Spec => []DownloadSound
<1>1. Init => RunningHasRunner
  BY DEF Init, RunningHasRunner
<1>2. Sound /\ RunningHasRunner /\ [Next]_vars => RunningHasRunner'
  BY RunnerStep DEF Sound
<1>3. Sound => DownloadTypeOK
  BY DEF Sound
<1> QED BY <1>1, <1>2, <1>3, AlwaysSound, PTL DEF Spec, DownloadSound

=============================================================================
