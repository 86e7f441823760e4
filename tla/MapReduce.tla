------------------------------ MODULE MapReduce ------------------------------
(***************************************************************************)
(* The coordinator of mr/coordinator.go and the workers of mr/worker.go,   *)
(* over the queue of JobQueue, with the files they share.                  *)
(*                                                                         *)
(* A GetTask call blocks in the coordinator until a job can be taken.  A   *)
(* worker that dies leaves such a call behind (an orphan): it takes a job  *)
(* and answers nobody.  TaskDone only starts a goroutine, so a report is   *)
(* finished some time after the worker has gone on.  The test scripts      *)
(* start another worker for one that dies while the coordinator runs.      *)
(***************************************************************************)
EXTENDS JobQueue

CONSTANTS
  Worker,
  Emits,       \* the pairs <<m, r>> for which map m produces something
  MaxRetries,  \* bound on the timeouts of watchJob
  MaxCrashes,  \* bound on the workers that die
  MaxLost      \* bound on the intermediate files that disappear

ASSUME EmitsAssumption == Emits \subseteq MapTask \X ReduceTask
ASSUME BoundsAssumption == MaxRetries \in Nat /\ MaxCrashes \in Nat /\ MaxLost \in Nat

VARIABLES
  worker,     \* what each worker does: a record with its place in the code
  orphans,    \* GetTask calls of workers that died
  watching,   \* watchJob goroutines, per job
  finishing,  \* onTaskFinish goroutines, per id
  doneCh,     \* closed by the GetTask that takes the last job
  exited,     \* main has returned
  files,      \* the intermediate files mr-m-r
  out,        \* the maps whose pairs mr-out-r holds; Absent before it is created
  retries, crashes, lost,  \* counters for the bounds
  overtaken,  \* the unfinished jobs of which a report was dropped, and whether they were sent
  torn        \* the reduces of which a worker died between creating the output and writing it

coordinatorVars == <<orphans, watching, finishing, doneCh, exited>>
fileVars == <<files, out, lost, torn>>
vars == <<queueVars, coordinatorVars, fileVars, worker, retries, crashes, overtaken>>

Absent == {NoJob}
Asking == [pc |-> "ask"]
Gone   == [pc |-> "gone"]
Mapping(m, r)       == [pc |-> "map", m |-> m, r |-> r]
Renamed(m, r)       == [pc |-> "renamed", m |-> m, r |-> r]
Opening(r, names)   == [pc |-> "open", r |-> r, maps |-> names]
Reducing(pc, r, ms, bad) == [pc |-> pc, r |-> r, maps |-> ms, bad |-> bad]

WorkerState ==
  {Asking, Gone}
  \cup [pc : {"map"}, m : MapTask, r : 0 .. NReduce]
  \cup [pc : {"renamed"}, m : MapTask, r : ReduceTask]
  \cup [pc : {"open"}, r : ReduceTask, maps : SUBSET MapTask]
  \cup [pc : {"report failure", "create", "write", "report"}, r : ReduceTask,
        maps : SUBSET MapTask, bad : SUBSET MapTask]

Up == ~exited /\ ~panicked

\* What the output of reduce r has to hold.
Whole(r) == {m \in MapTask : <<m, r>> \in Emits}

-----------------------------------------------------------------------------
(* The coordinator *)

\* The task as the reply of GetTask describes it: a reduce gets the names of the files
\* its dependencies were reported with.
TaskOf(j) ==
  CASE j.Jobtype = "map"    -> Mapping(CHOOSE m \in MapTask : Itoa[m] = j.Key, 0)
    [] j.Jobtype = "reduce" -> LET r == CHOOSE x \in ReduceTask : Itoa[x] = j.Key IN
                               Opening(r, {m \in MapTask : PseudoJob(m, r) \in Deps(j) \cap Output})
    [] OTHER                -> Asking

\* GetTask takes a job.  The caller is a worker or, when there are orphans, nobody.
Waits == orphans > 0 \/ \E w \in Worker : worker[w] = Asking

Take(j) ==
  /\ Up /\ jobCh # <<>> /\ j = Head(jobCh)
  /\ jobCh' = Tail(jobCh)
  /\ UNCHANGED <<jobs, closed, Output, waiting, storing, panicked, finishing, exited,
                 fileVars, retries, crashes, overtaken>>

\* Pseudo jobs are dropped.
SkipPseudo(j) ==
  /\ j.Jobtype = "pseudo" /\ Waits /\ Take(j)
  /\ UNCHANGED <<watching, doneCh, worker, orphans>>

\* The others are watched, and the last one ends the run.
Watch(j) ==
  /\ j.Jobtype # "pseudo" /\ Take(j)
  /\ watching' = [watching EXCEPT ![j] = @ + 1]
  /\ doneCh'   = (doneCh \/ j = DoneJob)

GetTask(w, j) ==
  /\ worker[w] = Asking /\ Watch(j)
  /\ worker' = [worker EXCEPT ![w] = TaskOf(j)]
  /\ UNCHANGED orphans

GetTaskOfOrphan(j) ==
  /\ orphans > 0 /\ Watch(j)
  /\ orphans' = orphans - 1
  /\ UNCHANGED worker

\* Faulty: a job that times out is not queued again.
DropJob(j) ==
  /\ Up /\ watching[j] > 0 /\ j \notin closed /\ j # DoneJob /\ retries < MaxRetries
  /\ watching' = [watching EXCEPT ![j] = @ - 1]
  /\ UNCHANGED <<queueVars, orphans, finishing, doneCh, exited, fileVars, worker, retries, crashes, overtaken>>

\* watchJob after ten seconds.  A finished job is not watched any more, and main returns
\* within a second of the last job being taken.
watchJob(j) ==
  /\ Up /\ watching[j] > 0 /\ j \notin closed /\ j # DoneJob /\ retries < MaxRetries
  /\ watching' = [watching EXCEPT ![j] = @ - 1]
  /\ SubmitJobs({j})
  /\ retries' = retries + 1
  /\ UNCHANGED <<jobCh, jobs, closed, Output, storing, panicked, orphans, finishing, doneCh, exited,
                 fileVars, worker, crashes, overtaken>>

\* The goroutine of TaskDone.  A pseudo job that was reported with a file gets its name.
onTaskFinish(i) ==
  LET named == \E e \in Emits : i = id(PseudoJob(e[1], e[2])) IN
  /\ Up /\ finishing[i] > 0
  /\ finishing' = [finishing EXCEPT ![i] = @ - 1]
  /\ Finish(i, named)
  /\ overtaken' = IF jobs[i] # NoJob THEN overtaken ELSE overtaken \cup
       {[job |-> j, sent |-> storing[j] > 0] : j \in {k \in Initial \ closed : id(k) = i}}
  /\ UNCHANGED <<orphans, watching, doneCh, exited, fileVars, worker, retries, crashes>>

\* The rest of mrcoordinator's main, a second after the last job was taken.
Exit ==
  /\ Up /\ doneCh
  /\ exited' = TRUE
  /\ UNCHANGED <<queueVars, orphans, watching, finishing, doneCh, fileVars, worker, retries, crashes, overtaken>>

-----------------------------------------------------------------------------
(* The workers *)

\* reportDone: TaskDone starts onTaskFinish.  A worker that cannot reach the coordinator
\* ends itself.  One whose call was under way when the coordinator ended goes on, as it
\* does when the coordinator ends just after the call.
reportDone(w, i, next) ==
  /\ IF Up THEN worker' = [worker EXCEPT ![w] = next] /\ finishing' = [finishing EXCEPT ![i] = @ + 1]
     ELSE worker' = [worker EXCEPT ![w] = Gone] /\ UNCHANGED finishing
  /\ UNCHANGED <<queueVars, orphans, watching, doneCh, exited, fileVars, retries, crashes, overtaken>>

\* mapTask: the part for the next reduce, if there is one, gets its name in one step.
RenamePart(w) ==
  LET s == worker[w] IN
  /\ s.pc = "map" /\ <<s.m, s.r>> \in Emits
  /\ files'  = files \cup {<<s.m, s.r>>}
  /\ worker' = [worker EXCEPT ![w] = Renamed(s.m, s.r)]
  /\ UNCHANGED <<queueVars, coordinatorVars, out, lost, torn, retries, crashes, overtaken>>

\* Faulty: the part is reported under a name that it never gets.
ReportUnnamed(w) ==
  LET s == worker[w] IN
  /\ s.pc = "map" /\ s.r < NReduce
  /\ reportDone(w, id(PseudoJob(s.m, s.r)), Mapping(s.m, s.r + 1))

ReportPart(w) ==
  LET s == worker[w] IN
  /\ s.pc = "renamed" \/ (s.pc = "map" /\ s.r < NReduce /\ <<s.m, s.r>> \notin Emits)
  /\ reportDone(w, id(PseudoJob(s.m, s.r)), Mapping(s.m, s.r + 1))

ReportMap(w) ==
  LET s == worker[w] IN
  /\ s.pc = "map" /\ s.r = NReduce
  /\ reportDone(w, id(MapJob(s.m)), Asking)

\* reduceTask: the named files are opened, and read.
OpenFiles(w) ==
  LET s   == worker[w]
      bad == {m \in s.maps : <<m, s.r>> \notin files} IN
  /\ s.pc = "open"
  /\ worker' = [worker EXCEPT ![w] =
       Reducing(IF bad = {} THEN "create" ELSE "report failure", s.r, s.maps \ bad, bad)]
  /\ UNCHANGED <<queueVars, coordinatorVars, fileVars, retries, crashes, overtaken>>

\* reportMapFailure and ReportMapFailure.  The worker goes on with the files it has.
ReportMapFailure(w) ==
  LET s == worker[w] IN
  /\ s.pc = "report failure"
  /\ IF Up THEN /\ SubmitJobs({Bare(MapJob(m)) : m \in s.bad} \cup {Bare(ReduceJob(s.r))})
                /\ worker' = [worker EXCEPT ![w].pc = "create"]
     ELSE worker' = [worker EXCEPT ![w] = Gone] /\ UNCHANGED waiting
  /\ UNCHANGED <<jobCh, jobs, closed, Output, storing, panicked,
                 coordinatorVars, fileVars, retries, crashes, overtaken>>

\* os.Create truncates the output.
CreateOutput(w) ==
  LET s == worker[w] IN
  /\ s.pc = "create"
  /\ out'    = [out EXCEPT ![s.r] = {}]
  /\ worker' = [worker EXCEPT ![w].pc = "write"]
  /\ UNCHANGED <<queueVars, coordinatorVars, files, lost, torn, retries, crashes, overtaken>>

WriteOutput(w) ==
  LET s == worker[w] IN
  /\ s.pc = "write"
  /\ out'    = [out EXCEPT ![s.r] = s.maps]
  /\ torn'   = torn \ {s.r}
  /\ worker' = [worker EXCEPT ![w].pc = "report"]
  /\ UNCHANGED <<queueVars, coordinatorVars, files, lost, retries, crashes, overtaken>>

\* Faulty: the reduce is reported before its output is written.
ReportEarly(w) ==
  LET s == worker[w] IN
  /\ s.pc = "create"
  /\ reportDone(w, id(ReduceJob(s.r)), Asking)

ReportReduce(w) ==
  LET s == worker[w] IN
  /\ s.pc = "report"
  /\ reportDone(w, id(ReduceJob(s.r)), Asking)

\* requestTask fails when the coordinator is gone, and Worker returns.
LeaveLoop(w) ==
  /\ ~Up /\ worker[w] = Asking
  /\ worker' = [worker EXCEPT ![w] = Gone]
  /\ UNCHANGED <<queueVars, coordinatorVars, fileVars, retries, crashes, overtaken>>

\* A worker dies.  Its place is taken by a new one while there is a coordinator.
Crash(w) ==
  /\ worker[w] # Gone /\ crashes < MaxCrashes
  /\ worker'  = [worker EXCEPT ![w] = IF Up THEN Asking ELSE Gone]
  /\ orphans' = IF Up /\ worker[w] = Asking THEN orphans + 1 ELSE orphans
  /\ crashes' = crashes + 1
  /\ torn'    = IF worker[w].pc = "write" THEN torn \cup {worker[w].r} ELSE torn
  /\ UNCHANGED <<queueVars, watching, finishing, doneCh, exited, files, out, lost, retries, overtaken>>

\* An intermediate file disappears, as the application wcfail makes it do.
LoseFile(f) ==
  /\ lost < MaxLost
  /\ files' = files \ {f}
  /\ lost'  = lost + 1
  /\ UNCHANGED <<queueVars, coordinatorVars, out, torn, worker, retries, crashes, overtaken>>

-----------------------------------------------------------------------------

Init ==
  /\ QueueInit
  /\ worker = [w \in Worker |-> Asking] /\ orphans = 0
  /\ watching = [j \in Job |-> 0] /\ finishing = [i \in Id |-> 0]
  /\ doneCh = FALSE /\ exited = FALSE
  /\ files = {} /\ out = [r \in ReduceTask |-> Absent]
  /\ retries = 0 /\ crashes = 0 /\ lost = 0 /\ overtaken = {} /\ torn = {}

\* The two halves of scheduleJob.
Send(j) ==
  /\ Up /\ SendJob(j)
  /\ UNCHANGED <<coordinatorVars, fileVars, worker, retries, crashes, overtaken>>

Store(j) ==
  /\ Up /\ StoreJob(j)
  /\ UNCHANGED <<coordinatorVars, fileVars, worker, retries, crashes, overtaken>>

Answer(j) == SkipPseudo(j) \/ GetTaskOfOrphan(j) \/ \E w \in Worker : GetTask(w, j)

mapTask(w) == RenamePart(w) \/ ReportPart(w) \/ ReportMap(w)

reduceTask(w) ==
  OpenFiles(w) \/ ReportMapFailure(w) \/ CreateOutput(w) \/ WriteOutput(w) \/ ReportReduce(w)

\* What the goroutines of the coordinator and the workers do by themselves.
Progress ==
  \/ \E j \in Job : Send(j) \/ Store(j) \/ watchJob(j) \/ Answer(j)
  \/ \E i \in Id : onTaskFinish(i)
  \/ Exit
  \/ \E w \in Worker : mapTask(w) \/ reduceTask(w) \/ LeaveLoop(w)

Next ==
  \/ Progress
  \/ \E w \in Worker : Crash(w)
  \/ \E f \in files : LoseFile(f)

Spec == Init /\ [][Next]_vars

-----------------------------------------------------------------------------
(* Properties *)

\* The queue never holds more jobs than its channel has room for, and what the
\* coordinator, the workers and the files hold has its type.
TypeOK ==
  /\ QueueTypeOK
  /\ worker \in [Worker -> WorkerState]
  /\ orphans \in Nat /\ watching \in [Job -> Nat] /\ finishing \in [Id -> Nat]
  /\ doneCh \in BOOLEAN /\ exited \in BOOLEAN
  /\ files \subseteq Emits /\ out \in [ReduceTask -> (SUBSET MapTask) \cup {Absent}]
  /\ retries \in 0 .. MaxRetries /\ crashes \in 0 .. MaxCrashes /\ lost \in 0 .. MaxLost
  /\ overtaken \subseteq [job : Initial, sent : BOOLEAN] /\ torn \subseteq ReduceTask

\* A worker that runs a reduce was given every file the maps make for it: scheduleJob
\* waits for all dependencies, and GetTask reads their outputs after that.  Only a reduce
\* that ReportMapFailure queued, after a file was lost, has no dependencies and gets none.
ReduceHasInputs ==
  \A w \in Worker : worker[w].pc = "open" =>
    worker[w].maps = Whole(worker[w].r) \/ (lost > 0 /\ worker[w].maps = {})

\* While no file is lost no reduce finds one missing, whatever attempt wrote it: a part is
\* reported only after its rename.
NoFailureReported ==
  lost = 0 => \A w \in Worker : worker[w].pc # "report failure"

\* When the last job has been taken every output is whole, whatever workers died.  After
\* a timeout there are two exceptions, for os.Create truncates what an earlier attempt
\* wrote: another worker is between creating and writing the output again, or one died
\* there and nobody has written the output since.
OutputReady ==
  doneCh /\ lost = 0 =>
    \A r \in ReduceTask :
      \/ out[r] = Whole(r)
      \/ retries > 0 /\ (r \in torn \/ \E w \in Worker : worker[w].pc = "write" /\ worker[w].r = r)

\* "a process has exited. this means that the output should be finalized": when main has
\* returned every output is whole.
OutputFinal == exited => \A r \in ReduceTask : out[r] = Whole(r)

\* The guards of Progress: what a worker or a goroutine of the coordinator can go on with.
CanGoOn ==
  \/ \E w \in Worker : worker[w] # Gone /\ ~(worker[w] = Asking /\ Up)
  \/ Up /\ \/ \E j \in Job : waiting[j] > 0 /\ Ready(j) /\ HasRoom
           \/ \E j \in Job : storing[j] > 0
           \/ \E j \in Job : watching[j] > 0 /\ j \notin closed /\ j # DoneJob /\ retries < MaxRetries
           \/ \E i \in Id : finishing[i] > 0
           \/ jobCh # <<>> /\ Waits
           \/ doneCh

\* Nobody is left waiting: when no goroutine and no worker can go on, the coordinator has
\* ended (main has returned, or Finish panicked) and every worker has stopped, whatever
\* workers died.  The exceptions are the report of a part that was dropped because it came
\* before the queue knew the part, and a timeout that the bound denies to some watchJob.
NeverStuck ==
  ~CanGoOn =>
    \/ ~Up /\ \A w \in Worker : worker[w] = Gone
    \/ \E o \in overtaken : o.job.Jobtype = "pseudo"
    \/ retries = MaxRetries /\ \E j \in Job : watching[j] > 0 /\ j \notin closed
=============================================================================
