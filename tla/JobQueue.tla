------------------------------ MODULE JobQueue ------------------------------
(***************************************************************************)
(* The job queue of mr/jobqueue.go: jobs with dependencies, a bounded      *)
(* channel, and the map from which a report finds the job it finishes.     *)
(*                                                                         *)
(* Every SubmitJob starts a goroutine of its own (scheduleJob), which      *)
(* waits for the dependencies, sends the job and only then stores it.      *)
(* The goroutines are counted per job: those that have not sent yet, and   *)
(* those between the send and the store.                                   *)
(***************************************************************************)
EXTENDS Naturals, Sequences, FiniteSets

CONSTANTS
  NMap,       \* the input files: map tasks 0 .. NMap - 1
  NReduce,    \* reduce tasks 0 .. NReduce - 1
  QueueSize,  \* the capacity of jobCh
  NoJob       \* no entry in the map jobs

ASSUME TaskAssumption == NMap \in Nat /\ NReduce \in Nat /\ QueueSize \in Nat \ {0}

MapTask    == 0 .. NMap - 1
ReduceTask == 0 .. NReduce - 1

\* strconv.Itoa and the %d of Sprintf, as the sequence of digits.
Itoa[n \in Nat] == IF n < 10 THEN <<n>> ELSE Append(Itoa[n \div 10], n % 10)

PseudoKey(m, r) == Itoa[m] \o Itoa[r]

\* Jobs are told apart by their fields.  A bare job is one that ReportMapFailure makes:
\* it has no dependencies and, like the job that ends the run, a nil Done channel.
MapJob(m)       == [Jobtype |-> "map", Key |-> Itoa[m], bare |-> FALSE]
PseudoJob(m, r) == [Jobtype |-> "pseudo", Key |-> PseudoKey(m, r), bare |-> FALSE]
ReduceJob(r)    == [Jobtype |-> "reduce", Key |-> Itoa[r], bare |-> FALSE]
DoneJob         == [Jobtype |-> "done", Key |-> <<>>, bare |-> TRUE]
Bare(j)         == [j EXCEPT !.bare = TRUE]

MapJobs    == {MapJob(m) : m \in MapTask}
PseudoJobs == {PseudoJob(m, r) : m \in MapTask, r \in ReduceTask}
ReduceJobs == {ReduceJob(r) : r \in ReduceTask}
Initial    == MapJobs \cup PseudoJobs \cup ReduceJobs \cup {DoneJob}
Job        == Initial \cup {Bare(j) : j \in MapJobs \cup ReduceJobs}

id(j) == [Jobtype |-> j.Jobtype, Key |-> j.Key]
Id    == {id(j) : j \in Job}

\* A reduce job waits for the parts all maps make for it, the last job for the reduces.
Deps(j) ==
  IF j = DoneJob THEN ReduceJobs
  ELSE {PseudoJob(m, r) : m \in MapTask, r \in {x \in ReduceTask : j = ReduceJob(x)}}

\* The keys tell the tasks apart.  Those of the parts are two numbers without a separator:
\* with twelve maps and eleven reduces, parts 1, 10 and 11, 0 have one key.  Up to ten
\* reduces, which is what mrcoordinator starts, the last digit is the reduce.
KeysDiffer ==
  /\ \A m, n \in MapTask : Itoa[m] = Itoa[n] => m = n
  /\ \A r, s \in ReduceTask : Itoa[r] = Itoa[s] => r = s
  /\ \A m, n \in MapTask, r, s \in ReduceTask : PseudoKey(m, r) = PseudoKey(n, s) => m = n /\ r = s

VARIABLES
  jobCh,    \* the channel
  jobs,     \* the map from ids to running jobs
  closed,   \* the jobs whose Done channel is closed
  Output,   \* the pseudo jobs whose Output names a file
  waiting,  \* goroutines of scheduleJob before the send, per job
  storing,  \* goroutines of scheduleJob between the send and the store, per job
  panicked  \* a channel was closed twice, or a nil channel closed

queueVars == <<jobCh, jobs, closed, Output, waiting, storing, panicked>>

\* What the queue holds has its type.
QueueTypeOK ==
  /\ jobCh \in Seq(Job) /\ Len(jobCh) <= QueueSize
  /\ jobs \in [Id -> Job \cup {NoJob}]
  /\ closed \subseteq Job /\ Output \subseteq PseudoJobs
  /\ waiting \in [Job -> Nat] /\ storing \in [Job -> Nat]
  /\ panicked \in BOOLEAN

QueueInit ==
  /\ jobCh = <<>> /\ jobs = [i \in Id |-> NoJob]
  /\ closed = {} /\ Output = {}
  /\ waiting = [j \in Job |-> IF j \in Initial THEN 1 ELSE 0]
  /\ storing = [j \in Job |-> 0]
  /\ panicked = FALSE

SubmitJobs(S) == waiting' = [j \in Job |-> IF j \in S THEN waiting[j] + 1 ELSE waiting[j]]

\* Faulty: the dependencies are not waited for.
HastyReady(j) == TRUE

Ready(j) == Deps(j) \subseteq closed

\* Faulty: a channel without a bound.
Unbounded == TRUE

HasRoom == Len(jobCh) < QueueSize

\* scheduleJob: the send, which blocks while the channel is full.
SendJob(j) ==
  /\ ~panicked /\ waiting[j] > 0 /\ Ready(j) /\ HasRoom
  /\ waiting' = [waiting EXCEPT ![j] = @ - 1]
  /\ jobCh'   = Append(jobCh, j)
  /\ storing' = [storing EXCEPT ![j] = @ + 1]
  /\ UNCHANGED <<jobs, closed, Output, panicked>>

\* scheduleJob: the store after it.
StoreJob(j) ==
  /\ ~panicked /\ storing[j] > 0
  /\ storing' = [storing EXCEPT ![j] = @ - 1]
  /\ jobs'    = [jobs EXCEPT ![id(j)] = j]
  /\ UNCHANGED <<jobCh, closed, Output, waiting, panicked>>

\* Finish: the entry is loaded and deleted, its output set and its Done closed.
Finish(i, named) ==
  LET job == jobs[i] IN
  /\ jobs' = [jobs EXCEPT ![i] = NoJob]
  /\ IF job = NoJob THEN UNCHANGED <<closed, Output, panicked>>
     ELSE /\ Output'   = IF named THEN Output \cup {job} ELSE Output \ {job}
          /\ panicked' = (job.bare \/ job \in closed)
          /\ closed'   = IF job.bare THEN closed ELSE closed \cup {job}
  /\ UNCHANGED <<jobCh, waiting, storing>>
=============================================================================
