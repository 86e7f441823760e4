--------------------------- MODULE MapReduceProofs ---------------------------
(***************************************************************************)
(* What holds of the coordinator and the workers for every number of       *)
(* files, reduces and workers and every bound on the faults.  Where it     *)
(* matters that the keys of the jobs tell them apart, KeysDiffer is a      *)
(* hypothesis.                                                             *)
(***************************************************************************)
EXTENDS MapReduce, SequenceTheorems, TLAPS

-----------------------------------------------------------------------------
(* Jobs *)

\* The jobs of the run, by their type.
LEMMA JobKinds ==
  ASSUME NEW j \in Job
  PROVE  /\ j.Jobtype \in {"map", "pseudo", "reduce", "done"}
         /\ j.Jobtype = "map" => \E m \in MapTask : j \in {MapJob(m), Bare(MapJob(m))}
         /\ j.Jobtype = "pseudo" => j \in PseudoJobs
         /\ j.Jobtype = "reduce" => \E r \in ReduceTask : j \in {ReduceJob(r), Bare(ReduceJob(r))}
         /\ j.Jobtype = "done" => j = DoneJob
<1>1. CASE j \in MapJobs
  BY <1>1 DEF MapJobs, MapJob
<1>2. CASE j \in PseudoJobs
  BY <1>2 DEF PseudoJobs, PseudoJob
<1>3. CASE j \in ReduceJobs
  BY <1>3 DEF ReduceJobs, ReduceJob
<1>4. CASE j = DoneJob
  BY <1>4 DEF DoneJob
<1>5. ASSUME NEW m \in MapTask, j = Bare(MapJob(m)) PROVE j.Jobtype = "map"
  BY <1>5 DEF Bare, MapJob
<1>6. ASSUME NEW r \in ReduceTask, j = Bare(ReduceJob(r)) PROVE j.Jobtype = "reduce"
  BY <1>6 DEF Bare, ReduceJob
<1>7. CASE \E m \in MapTask : j = Bare(MapJob(m))
  BY Zenon, <1>5, <1>7
<1>8. CASE \E r \in ReduceTask : j = Bare(ReduceJob(r))
  BY Zenon, <1>6, <1>8
<1>9. QED
  BY <1>1, <1>2, <1>3, <1>4, <1>7, <1>8 DEF Job, Initial, MapJobs, ReduceJobs

LEMMA JobFields ==
  /\ \A m \in MapTask : MapJob(m) \in Job /\ MapJob(m) \in Initial /\ Bare(MapJob(m)) \in Job
                        /\ MapJob(m).Jobtype = "map" /\ MapJob(m).Key = Itoa[m] /\ ~MapJob(m).bare
                        /\ Bare(MapJob(m)).Jobtype = "map" /\ Bare(MapJob(m)).Key = Itoa[m] /\ Bare(MapJob(m)).bare
  /\ \A r \in ReduceTask : ReduceJob(r) \in Job /\ ReduceJob(r) \in Initial /\ Bare(ReduceJob(r)) \in Job
                        /\ ReduceJob(r).Jobtype = "reduce" /\ ReduceJob(r).Key = Itoa[r] /\ ~ReduceJob(r).bare
                        /\ Bare(ReduceJob(r)).Jobtype = "reduce" /\ Bare(ReduceJob(r)).Key = Itoa[r]
                        /\ Bare(ReduceJob(r)).bare
  /\ \A m \in MapTask, r \in ReduceTask :
       PseudoJob(m, r) \in PseudoJobs /\ PseudoJob(m, r) \in Job /\ PseudoJob(m, r) \in Initial
       /\ PseudoJob(m, r).Jobtype = "pseudo" /\ PseudoJob(m, r).Key = PseudoKey(m, r) /\ ~PseudoJob(m, r).bare
  /\ DoneJob \in Job /\ DoneJob \in Initial /\ DoneJob.Jobtype = "done" /\ DoneJob.bare
<1>1. \A m \in MapTask : MapJob(m).Jobtype = "map" /\ MapJob(m).Key = Itoa[m] /\ ~MapJob(m).bare
                         /\ Bare(MapJob(m)).Jobtype = "map" /\ Bare(MapJob(m)).Key = Itoa[m] /\ Bare(MapJob(m)).bare
  BY DEF MapJob, Bare
<1>2. \A r \in ReduceTask : ReduceJob(r).Jobtype = "reduce" /\ ReduceJob(r).Key = Itoa[r] /\ ~ReduceJob(r).bare
                            /\ Bare(ReduceJob(r)).Jobtype = "reduce" /\ Bare(ReduceJob(r)).Key = Itoa[r]
                            /\ Bare(ReduceJob(r)).bare
  BY DEF ReduceJob, Bare
<1>3. \A m \in MapTask, r \in ReduceTask :
        PseudoJob(m, r).Jobtype = "pseudo" /\ PseudoJob(m, r).Key = PseudoKey(m, r) /\ ~PseudoJob(m, r).bare
  BY DEF PseudoJob
<1>4. DoneJob.Jobtype = "done" /\ DoneJob.bare
  BY DEF DoneJob
<1>5. \A m \in MapTask : MapJob(m) \in MapJobs
  BY Zenon DEF MapJobs
<1>6. \A r \in ReduceTask : ReduceJob(r) \in ReduceJobs
  BY Zenon DEF ReduceJobs
<1>7. \A m \in MapTask, r \in ReduceTask : PseudoJob(m, r) \in PseudoJobs
  BY SMT DEF PseudoJobs
<1>8. QED
  BY Zenon, <1>1, <1>2, <1>3, <1>4, <1>5, <1>6, <1>7 DEF Job, Initial

LEMMA IdOfJob ==
  ASSUME NEW j \in Job
  PROVE  id(j) \in Id /\ id(j).Jobtype = j.Jobtype /\ id(j).Key = j.Key
BY DEF id, Id

\* What a worker is doing says which fields its record has.
LEMMA WorkerFields ==
  ASSUME NEW s \in WorkerState
  PROVE  /\ s.pc \in {"ask", "gone", "map", "renamed", "open", "report failure", "create", "write", "report"}
         /\ s.pc = "ask" => s = Asking
         /\ s.pc = "gone" => s = Gone
         /\ s.pc = "map" => s.m \in MapTask /\ s.r \in 0 .. NReduce
         /\ s.pc = "renamed" => s.m \in MapTask /\ s.r \in ReduceTask
         /\ s.pc = "open" => s.r \in ReduceTask /\ s.maps \in SUBSET MapTask
         /\ s.pc \in {"report failure", "create", "write", "report"} =>
              /\ s.r \in ReduceTask /\ s.maps \in SUBSET MapTask /\ s.bad \in SUBSET MapTask
              /\ s = Reducing(s.pc, s.r, s.maps, s.bad)
<1>1. CASE s = Asking
  BY <1>1 DEF Asking
<1>2. CASE s = Gone
  BY <1>2 DEF Gone
<1>3. CASE s \in [pc : {"map"}, m : MapTask, r : 0 .. NReduce]
  BY Zenon, <1>3
<1>4. CASE s \in [pc : {"renamed"}, m : MapTask, r : ReduceTask]
  BY Zenon, <1>4
<1>5. CASE s \in [pc : {"open"}, r : ReduceTask, maps : SUBSET MapTask]
  BY Zenon, <1>5
<1>6. CASE s \in [pc : {"report failure", "create", "write", "report"}, r : ReduceTask,
                  maps : SUBSET MapTask, bad : SUBSET MapTask]
  BY Zenon, <1>6 DEF Reducing
<1>7. QED
  BY Zenon, <1>1, <1>2, <1>3, <1>4, <1>5, <1>6 DEF WorkerState

-----------------------------------------------------------------------------
(* Types *)

Switches == panicked \in BOOLEAN /\ doneCh \in BOOLEAN /\ exited \in BOOLEAN

QueueTypes ==
  /\ jobCh \in Seq(Job) /\ Len(jobCh) <= QueueSize
  /\ jobs \in [Id -> Job \cup {NoJob}]
  /\ closed \subseteq Job /\ Output \subseteq PseudoJobs
  /\ waiting \in [Job -> Nat] /\ storing \in [Job -> Nat]

RestTypes ==
  /\ worker \in [Worker -> WorkerState]
  /\ orphans \in Nat /\ watching \in [Job -> Nat] /\ finishing \in [Id -> Nat]
  /\ files \subseteq Emits /\ out \in [ReduceTask -> (SUBSET MapTask) \cup {Absent}]
  /\ retries \in 0 .. MaxRetries /\ crashes \in 0 .. MaxCrashes /\ lost \in 0 .. MaxLost
  /\ overtaken \subseteq [job : Initial, sent : BOOLEAN] /\ torn \subseteq ReduceTask

\* The entry of the map jobs under an id is the job of that id.
JobsStored == \A i \in Id : jobs[i] # NoJob => id(jobs[i]) = i

TypeInv == Switches /\ QueueTypes /\ RestTypes /\ JobsStored

LEMMA TypeInvType == TypeInv => TypeOK
BY Zenon DEF TypeInv, Switches, QueueTypes, RestTypes, TypeOK, QueueTypeOK

LEMMA InitTypes == Init => TypeInv
<1> SUFFICES ASSUME Init PROVE TypeInv
  OBVIOUS
<1>1. Switches
  BY Zenon DEF Init, QueueInit, Switches
<1>2. QueueTypes
  <2>1. Len(jobCh) = 0 /\ jobCh \in Seq(Job)
    BY DEF Init, QueueInit
  <2>2. 0 <= QueueSize
    BY TaskAssumption
  <2>3. jobs \in [Id -> Job \cup {NoJob}] /\ closed \subseteq Job /\ Output \subseteq PseudoJobs
    BY DEF Init, QueueInit
  <2>4. waiting \in [Job -> Nat] /\ storing \in [Job -> Nat]
    BY DEF Init, QueueInit
  <2>5. QED
    BY <2>1, <2>2, <2>3, <2>4 DEF QueueTypes
<1>3. RestTypes
  <2>1. worker \in [Worker -> WorkerState] /\ orphans \in Nat
    BY DEF Init, WorkerState
  <2>2. watching \in [Job -> Nat] /\ finishing \in [Id -> Nat]
    BY DEF Init
  <2>3. /\ files \subseteq Emits /\ torn \subseteq ReduceTask
        /\ overtaken \subseteq [job : Initial, sent : BOOLEAN]
        /\ out \in [ReduceTask -> (SUBSET MapTask) \cup {Absent}]
    <3>1. files = {} /\ torn = {} /\ overtaken = {} /\ out = [r \in ReduceTask |-> Absent]
      BY Zenon DEF Init
    <3>2. out \in [ReduceTask -> (SUBSET MapTask) \cup {Absent}]
      BY <3>1
    <3>3. QED
      BY Zenon, <3>1, <3>2
  <2>4. retries \in 0 .. MaxRetries /\ crashes \in 0 .. MaxCrashes /\ lost \in 0 .. MaxLost
    BY BoundsAssumption DEF Init
  <2>5. QED
    BY <2>1, <2>2, <2>3, <2>4 DEF RestTypes
<1>4. JobsStored
  BY DEF Init, QueueInit, JobsStored
<1>5. QED
  BY <1>1, <1>2, <1>3, <1>4 DEF TypeInv

\* The task a job is answered with.
LEMMA TaskType ==
  ASSUME NEW j \in Job
  PROVE  /\ TaskOf(j) \in WorkerState
         /\ j.Jobtype = "map" => TaskOf(j).pc = "map" /\ TaskOf(j).r = 0
         /\ j.Jobtype \notin {"map", "reduce"} => TaskOf(j) = Asking
         /\ j.Jobtype = "reduce" => \E r \in ReduceTask :
              /\ Itoa[r] = j.Key
              /\ TaskOf(j) = Opening(r, {m \in MapTask : PseudoJob(m, r) \in Deps(j) \cap Output})
<1>1. CASE j.Jobtype = "map"
  <2> DEFINE m == CHOOSE m \in MapTask : Itoa[m] = j.Key
  <2>1. \E n \in MapTask : Itoa[n] = j.Key
    <3>1. PICK n \in MapTask : j \in {MapJob(n), Bare(MapJob(n))}
      BY <1>1, JobKinds
    <3>2. QED
      BY <3>1, JobFields
  <2>2. m \in MapTask
    BY Zenon, <2>1
  <2>3. TaskOf(j) = Mapping(m, 0)
    BY <1>1 DEF TaskOf
  <2> HIDE DEF m
  <2>4. Mapping(m, 0) \in [pc : {"map"}, m : MapTask, r : 0 .. NReduce]
    BY <2>2, TaskAssumption DEF Mapping
  <2>5. Mapping(m, 0).pc = "map" /\ Mapping(m, 0).r = 0
    BY DEF Mapping
  <2>6. QED
    BY Zenon, <1>1, <2>3, <2>4, <2>5 DEF WorkerState
<1>2. CASE j.Jobtype = "reduce"
  <2> DEFINE r == CHOOSE x \in ReduceTask : Itoa[x] = j.Key
             names == {m \in MapTask : PseudoJob(m, r) \in Deps(j) \cap Output}
  <2>1. \E n \in ReduceTask : Itoa[n] = j.Key
    <3>1. PICK n \in ReduceTask : j \in {ReduceJob(n), Bare(ReduceJob(n))}
      BY <1>2, JobKinds
    <3>2. QED
      BY <3>1, JobFields
  <2>2. r \in ReduceTask /\ Itoa[r] = j.Key
    BY Zenon, <2>1
  <2>3. TaskOf(j) = Opening(r, names)
    BY <1>2 DEF TaskOf
  <2>4. Opening(r, names) \in [pc : {"open"}, r : ReduceTask, maps : SUBSET MapTask]
    <3>1. names \in SUBSET MapTask
      BY Zenon
    <3> HIDE DEF r, names
    <3>2. QED
      BY <2>2, <3>1 DEF Opening
  <2>5. TaskOf(j) \in WorkerState
    BY Zenon, <2>3, <2>4 DEF WorkerState
  <2>6. QED
    BY Zenon, <1>2, <2>2, <2>3, <2>5
<1>3. CASE j.Jobtype \notin {"map", "reduce"}
  BY Zenon, <1>3 DEF TaskOf, WorkerState
<1>4. QED
  BY Zenon, <1>1, <1>2, <1>3

\* The steps of scheduleJob and watchJob.
LEMMA QueueStepTypes ==
  ASSUME TypeInv, NEW j \in Job, Send(j) \/ Store(j) \/ watchJob(j)
  PROVE  TypeInv'
<1>0. Switches /\ QueueTypes /\ RestTypes /\ JobsStored
  BY DEF TypeInv
<1>1. CASE Send(j)
  <2>1. /\ waiting[j] > 0 /\ Len(jobCh) < QueueSize /\ waiting' = [waiting EXCEPT ![j] = waiting[j] - 1]
        /\ jobCh' = Append(jobCh, j) /\ storing' = [storing EXCEPT ![j] = storing[j] + 1]
        /\ UNCHANGED <<jobs, closed, Output, panicked, coordinatorVars, fileVars, worker, retries, crashes, overtaken>>
    BY Zenon, <1>1 DEF Send, SendJob, HasRoom
  <2>2. jobCh' \in Seq(Job) /\ Len(jobCh') <= QueueSize
    BY <1>0, <2>1, TaskAssumption DEF QueueTypes
  <2>3. waiting' \in [Job -> Nat] /\ storing' \in [Job -> Nat]
    BY <1>0, <2>1 DEF QueueTypes
  <2>4. QueueTypes' /\ JobsStored'
    BY <1>0, <2>1, <2>2, <2>3 DEF QueueTypes, JobsStored
  <2>5. Switches' /\ RestTypes'
    BY Zenon, <1>0, <2>1 DEF Switches, RestTypes, coordinatorVars, fileVars
  <2>6. QED
    BY <2>4, <2>5 DEF TypeInv
<1>2. CASE Store(j)
  <2>1. /\ storing[j] > 0 /\ storing' = [storing EXCEPT ![j] = storing[j] - 1] /\ jobs' = [jobs EXCEPT ![id(j)] = j]
        /\ UNCHANGED <<jobCh, waiting, closed, Output, panicked, coordinatorVars, fileVars, worker, retries, crashes, overtaken>>
    BY Zenon, <1>2 DEF Store, StoreJob
  <2>2. storing' \in [Job -> Nat]
    BY <1>0, <2>1 DEF QueueTypes
  <2>3. jobs' \in [Id -> Job \cup {NoJob}]
    BY <1>0, <2>1, IdOfJob DEF QueueTypes
  <2>4. QueueTypes'
    BY <1>0, <2>1, <2>2, <2>3 DEF QueueTypes
  <2>5. JobsStored'
    BY <1>0, <2>1, IdOfJob DEF QueueTypes, JobsStored
  <2>6. Switches' /\ RestTypes'
    BY Zenon, <1>0, <2>1 DEF Switches, RestTypes, coordinatorVars, fileVars
  <2>7. QED
    BY <2>4, <2>5, <2>6 DEF TypeInv
<1>3. CASE watchJob(j)
  <2>1. /\ watching[j] > 0 /\ retries < MaxRetries /\ watching' = [watching EXCEPT ![j] = watching[j] - 1]
        /\ SubmitJobs({j}) /\ retries' = retries + 1
        /\ UNCHANGED <<jobCh, jobs, closed, Output, storing, panicked, orphans, finishing, doneCh, exited,
                       fileVars, worker, crashes, overtaken>>
    BY Zenon, <1>3 DEF watchJob
  <2>2. waiting' \in [Job -> Nat]
    BY <1>0, <2>1 DEF QueueTypes, SubmitJobs
  <2>3. watching' \in [Job -> Nat]
    BY <1>0, <2>1 DEF RestTypes
  <2>4. retries' \in 0 .. MaxRetries
    BY <1>0, <2>1, BoundsAssumption DEF RestTypes
  <2>5. QueueTypes' /\ JobsStored'
    BY <1>0, <2>1, <2>2 DEF QueueTypes, JobsStored
  <2>6. Switches' /\ RestTypes'
    BY Zenon, <1>0, <2>1, <2>3, <2>4 DEF Switches, RestTypes, fileVars
  <2>7. QED
    BY <2>5, <2>6 DEF TypeInv
<1>4. QED
  BY <1>1, <1>2, <1>3

\* GetTask, for a worker or for an orphan.
LEMMA AnswerTypes ==
  ASSUME TypeInv, NEW j \in Job, Answer(j)
  PROVE  TypeInv'
<1>0. Switches /\ QueueTypes /\ RestTypes /\ JobsStored
  BY DEF TypeInv
<1>1. Take(j)
  BY Zenon DEF Answer, SkipPseudo, GetTaskOfOrphan, GetTask, Watch
<1>2. /\ jobCh # <<>> /\ jobCh' = Tail(jobCh)
      /\ UNCHANGED <<jobs, closed, Output, waiting, storing, panicked, finishing, exited,
                     fileVars, retries, crashes, overtaken>>
  BY Zenon, <1>1 DEF Take
<1>3. jobCh' \in Seq(Job) /\ Len(jobCh') <= QueueSize
  BY <1>0, <1>2, TaskAssumption DEF QueueTypes
<1>4. QueueTypes' /\ JobsStored'
  BY <1>0, <1>2, <1>3 DEF QueueTypes, JobsStored
<1>5. doneCh' \in BOOLEAN
  BY Zenon, <1>0 DEF Answer, SkipPseudo, GetTaskOfOrphan, GetTask, Watch, Switches
<1>6. watching' \in [Job -> Nat]
  <2>1. watching' = watching \/ watching' = [watching EXCEPT ![j] = watching[j] + 1]
    BY Zenon DEF Answer, SkipPseudo, GetTaskOfOrphan, GetTask, Watch
  <2>2. QED
    BY <1>0, <2>1 DEF RestTypes
<1>7. orphans' \in Nat
  <2>1. orphans' = orphans \/ (orphans > 0 /\ orphans' = orphans - 1)
    BY Zenon DEF Answer, SkipPseudo, GetTaskOfOrphan, GetTask
  <2>2. QED
    BY <1>0, <2>1 DEF RestTypes
<1>8. worker' \in [Worker -> WorkerState]
  <2>1. worker' = worker \/ \E w \in Worker : worker' = [worker EXCEPT ![w] = TaskOf(j)]
    BY Zenon DEF Answer, SkipPseudo, GetTaskOfOrphan, GetTask
  <2>2. TaskOf(j) \in WorkerState
    BY TaskType
  <2>3. QED
    BY <1>0, <2>1, <2>2 DEF RestTypes
<1>9. Switches' /\ RestTypes'
  BY Zenon, <1>0, <1>2, <1>5, <1>6, <1>7, <1>8 DEF Switches, RestTypes, fileVars
<1>10. QED
  BY <1>4, <1>9 DEF TypeInv

\* The id of the job that a report finishes.
LEMMA FinishedJob ==
  ASSUME TypeInv, NEW i \in Id, jobs[i] # NoJob
  PROVE  /\ jobs[i] \in Job /\ id(jobs[i]) = i /\ jobs[i].Jobtype = i.Jobtype /\ jobs[i].Key = i.Key
<1>1. jobs[i] \in Job /\ id(jobs[i]) = i
  BY DEF TypeInv, QueueTypes, JobsStored
<1>2. jobs[i].Jobtype = i.Jobtype /\ jobs[i].Key = i.Key
  BY <1>1, IdOfJob
<1>3. QED
  BY <1>1, <1>2

LEMMA FinishTypes ==
  ASSUME TypeInv, NEW i \in Id, onTaskFinish(i)
  PROVE  TypeInv'
<1> DEFINE named == \E e \in Emits : i = id(PseudoJob(e[1], e[2]))
           late  == {[job |-> j, sent |-> storing[j] > 0] : j \in {k \in Initial \ closed : id(k) = i}}
<1>0. Switches /\ QueueTypes /\ RestTypes /\ JobsStored
  BY DEF TypeInv
<1>1. /\ finishing[i] > 0 /\ finishing' = [finishing EXCEPT ![i] = finishing[i] - 1] /\ Finish(i, named)
      /\ overtaken' = (IF jobs[i] # NoJob THEN overtaken ELSE overtaken \cup late)
      /\ UNCHANGED <<orphans, watching, doneCh, exited, fileVars, worker, retries, crashes>>
  BY Zenon DEF onTaskFinish
<1>2. late \subseteq [job : Initial, sent : BOOLEAN]
  <2>1. ASSUME NEW j \in Initial
        PROVE  [job |-> j, sent |-> storing[j] > 0] \in [job : Initial, sent : BOOLEAN]
    <3>1. (storing[j] > 0) \in BOOLEAN
      OBVIOUS
    <3>2. QED
      BY <3>1
  <2>2. QED
    BY Zenon, <2>1
<1> HIDE DEF late
<1>3. overtaken' \subseteq [job : Initial, sent : BOOLEAN]
  BY <1>0, <1>1, <1>2 DEF RestTypes
<1>4. finishing' \in [Id -> Nat]
  BY <1>0, <1>1 DEF RestTypes
<1>5. /\ jobs' = [jobs EXCEPT ![i] = NoJob] /\ UNCHANGED <<jobCh, waiting, storing>>
      /\ jobs[i] = NoJob => UNCHANGED <<closed, Output, panicked>>
      /\ jobs[i] # NoJob => /\ Output' = IF named THEN Output \cup {jobs[i]} ELSE Output \ {jobs[i]}
                            /\ closed' = IF jobs[i].bare THEN closed ELSE closed \cup {jobs[i]}
  BY Zenon, <1>1 DEF Finish
<1>6. panicked' \in BOOLEAN
  BY Zenon, <1>0, <1>1 DEF Finish, Switches
<1>7. named => i.Jobtype = "pseudo"
  <2> SUFFICES ASSUME NEW e \in Emits, i = id(PseudoJob(e[1], e[2])) PROVE i.Jobtype = "pseudo"
    OBVIOUS
  <2>1. e[1] \in MapTask /\ e[2] \in ReduceTask
    BY EmitsAssumption
  <2>2. QED
    BY <2>1, JobFields, IdOfJob
<1> HIDE DEF named
<1>8. closed' \subseteq Job /\ Output' \subseteq PseudoJobs
  BY SMTT(30), <1>0, <1>5, <1>7, FinishedJob, JobKinds DEF QueueTypes
<1>9. jobs' \in [Id -> Job \cup {NoJob}] /\ JobsStored'
  BY <1>0, <1>5 DEF QueueTypes, JobsStored
<1>10. QueueTypes'
  BY <1>0, <1>5, <1>8, <1>9 DEF QueueTypes
<1>11. Switches' /\ RestTypes'
  BY Zenon, <1>0, <1>1, <1>3, <1>4, <1>6 DEF Switches, RestTypes, fileVars
<1>12. QED
  BY <1>9, <1>10, <1>11 DEF TypeInv

\* reportDone, with the id of a job and a state the worker can go on in.
LEMMA ReportTypes ==
  ASSUME TypeInv, NEW w \in Worker, NEW i \in Id, NEW next \in WorkerState, reportDone(w, i, next)
  PROVE  TypeInv'
<1>0. Switches /\ QueueTypes /\ RestTypes /\ JobsStored
  BY DEF TypeInv
<1>1. /\ worker' = [worker EXCEPT ![w] = next] \/ worker' = [worker EXCEPT ![w] = Gone]
      /\ finishing' = finishing \/ finishing' = [finishing EXCEPT ![i] = finishing[i] + 1]
      /\ UNCHANGED <<queueVars, orphans, watching, doneCh, exited, fileVars, retries, crashes, overtaken>>
  BY Zenon DEF reportDone
<1>2. worker' \in [Worker -> WorkerState]
  BY Zenon, <1>0, <1>1 DEF RestTypes, WorkerState
<1>3. finishing' \in [Id -> Nat]
  BY <1>0, <1>1 DEF RestTypes
<1>4. Switches' /\ QueueTypes' /\ RestTypes' /\ JobsStored'
  BY Zenon, <1>0, <1>1, <1>2, <1>3 DEF Switches, QueueTypes, RestTypes, JobsStored, queueVars, fileVars
<1>5. QED
  BY <1>4 DEF TypeInv

\* A worker goes on without the coordinator.
LEMMA LocalTypes ==
  ASSUME TypeInv, NEW w \in Worker, NEW next \in WorkerState, worker' = [worker EXCEPT ![w] = next],
         files' \subseteq Emits, out' \in [ReduceTask -> (SUBSET MapTask) \cup {Absent}],
         torn' \subseteq ReduceTask, waiting' \in [Job -> Nat],
         UNCHANGED <<jobCh, jobs, closed, Output, storing, panicked, coordinatorVars, lost, retries, crashes, overtaken>>
  PROVE  TypeInv'
<1>0. Switches /\ QueueTypes /\ RestTypes /\ JobsStored
  BY DEF TypeInv
<1>1. worker' \in [Worker -> WorkerState]
  BY <1>0 DEF RestTypes
<1>2. Switches' /\ QueueTypes' /\ RestTypes' /\ JobsStored'
  BY Zenon, <1>0, <1>1 DEF Switches, QueueTypes, RestTypes, JobsStored, coordinatorVars
<1>3. QED
  BY <1>2 DEF TypeInv

LEMMA MapTypes ==
  ASSUME TypeInv, NEW w \in Worker, mapTask(w)
  PROVE  TypeInv'
<1>0. RestTypes /\ QueueTypes /\ worker[w] \in WorkerState
  BY DEF TypeInv, RestTypes
<1>1. PICK s \in WorkerState : s = worker[w]
  BY <1>0
<1>2. CASE RenamePart(w)
  <2>1. /\ s.pc = "map" /\ <<s.m, s.r>> \in Emits /\ files' = files \cup {<<s.m, s.r>>}
        /\ worker' = [worker EXCEPT ![w] = Renamed(s.m, s.r)]
        /\ UNCHANGED <<queueVars, coordinatorVars, out, lost, torn, retries, crashes, overtaken>>
    BY Zenon, <1>1, <1>2 DEF RenamePart
  <2>2. s.m \in MapTask /\ s.r \in ReduceTask
    BY <2>1, EmitsAssumption
  <2>3. Renamed(s.m, s.r) \in WorkerState
    BY Zenon, <2>2 DEF Renamed, WorkerState
  <2>4. files' \subseteq Emits
    BY <1>0, <2>1 DEF RestTypes
  <2>5. QED
    BY Zenon, <1>0, <2>1, <2>3, <2>4, LocalTypes DEF RestTypes, QueueTypes, queueVars
<1>3. CASE ReportPart(w)
  <2>1. /\ s.pc = "renamed" \/ (s.pc = "map" /\ s.r < NReduce)
        /\ reportDone(w, id(PseudoJob(s.m, s.r)), Mapping(s.m, s.r + 1))
    BY Zenon, <1>1, <1>3 DEF ReportPart
  <2>2. s.m \in MapTask /\ s.r \in ReduceTask
    <3>1. CASE s.pc = "renamed"
      BY Zenon, <3>1, WorkerFields
    <3>2. CASE s.pc = "map" /\ s.r < NReduce
      <4>1. s.m \in MapTask /\ s.r \in 0 .. NReduce
        BY Zenon, <3>2, WorkerFields
      <4>2. QED
        BY <3>2, <4>1, TaskAssumption DEF ReduceTask
    <3>3. QED
      BY <2>1, <3>1, <3>2
  <2>3. Mapping(s.m, s.r + 1) \in [pc : {"map"}, m : MapTask, r : 0 .. NReduce]
    BY <2>2, TaskAssumption DEF Mapping, ReduceTask
  <2>4. Mapping(s.m, s.r + 1) \in WorkerState /\ id(PseudoJob(s.m, s.r)) \in Id
    BY Zenon, <2>2, <2>3, JobFields, IdOfJob DEF WorkerState
  <2>5. QED
    BY Zenon, <2>1, <2>4, ReportTypes
<1>4. CASE ReportMap(w)
  <2>1. s.pc = "map" /\ reportDone(w, id(MapJob(s.m)), Asking)
    BY Zenon, <1>1, <1>4 DEF ReportMap
  <2>2. Asking \in WorkerState /\ id(MapJob(s.m)) \in Id
    BY Zenon, <2>1, WorkerFields, JobFields, IdOfJob DEF WorkerState
  <2>3. QED
    BY Zenon, <2>1, <2>2, ReportTypes
<1>5. QED
  BY <1>2, <1>3, <1>4 DEF mapTask

LEMMA ReducingExcept ==
  ASSUME NEW pc, NEW r, NEW ms, NEW bad, NEW x
  PROVE  [Reducing(pc, r, ms, bad) EXCEPT !.pc = x] = Reducing(x, r, ms, bad)
BY SMT DEF Reducing

LEMMA ReducingFields ==
  ASSUME NEW pc, NEW r, NEW ms, NEW bad
  PROVE  /\ Reducing(pc, r, ms, bad).pc = pc /\ Reducing(pc, r, ms, bad).r = r
         /\ Reducing(pc, r, ms, bad).maps = ms /\ Reducing(pc, r, ms, bad).bad = bad
BY SMT DEF Reducing

LEMMA ReducingType ==
  ASSUME NEW pc \in {"report failure", "create", "write", "report"}, NEW r \in ReduceTask,
         NEW ms \in SUBSET MapTask, NEW bad \in SUBSET MapTask
  PROVE  Reducing(pc, r, ms, bad) \in WorkerState
<1>1. Reducing(pc, r, ms, bad) \in [pc : {"report failure", "create", "write", "report"}, r : ReduceTask,
                                   maps : SUBSET MapTask, bad : SUBSET MapTask]
  BY Zenon DEF Reducing
<1>2. QED
  BY Zenon, <1>1 DEF WorkerState

\* What the steps of reduceTask make of the worker's record.
LEMMA ReduceSteps ==
  ASSUME TypeInv, NEW w \in Worker, NEW s \in WorkerState, s = worker[w], reduceTask(w)
  PROVE  \/ /\ OpenFiles(w) /\ s.pc = "open" /\ s.r \in ReduceTask /\ s.maps \in SUBSET MapTask
            /\ LET bad == {m \in s.maps : <<m, s.r>> \notin files} IN
               worker' = [worker EXCEPT ![w] =
                 Reducing(IF bad = {} THEN "create" ELSE "report failure", s.r, s.maps \ bad, bad)]
         \/ /\ s.r \in ReduceTask /\ s.maps \in SUBSET MapTask /\ s.bad \in SUBSET MapTask
            /\ \/ /\ ReportMapFailure(w) /\ s.pc = "report failure"
                  /\ \/ /\ worker' = [worker EXCEPT ![w] = Reducing("create", s.r, s.maps, s.bad)]
                        /\ SubmitJobs({Bare(MapJob(m)) : m \in s.bad} \cup {Bare(ReduceJob(s.r))})
                     \/ /\ worker' = [worker EXCEPT ![w] = Gone] /\ UNCHANGED waiting
               \/ /\ CreateOutput(w) /\ s.pc = "create"
                  /\ worker' = [worker EXCEPT ![w] = Reducing("write", s.r, s.maps, s.bad)]
                  /\ out' = [out EXCEPT ![s.r] = {}]
               \/ /\ WriteOutput(w) /\ s.pc = "write"
                  /\ worker' = [worker EXCEPT ![w] = Reducing("report", s.r, s.maps, s.bad)]
                  /\ out' = [out EXCEPT ![s.r] = s.maps]
                  /\ torn' = torn \ {s.r}
               \/ s.pc = "report" /\ reportDone(w, id(ReduceJob(s.r)), Asking)
<1>1. CASE OpenFiles(w)
  BY Zenon, <1>1, WorkerFields DEF OpenFiles
<1>2. ASSUME s.pc \in {"report failure", "create", "write", "report"}
      PROVE  /\ s.r \in ReduceTask /\ s.maps \in SUBSET MapTask /\ s.bad \in SUBSET MapTask
             /\ \A x : [s EXCEPT !.pc = x] = Reducing(x, s.r, s.maps, s.bad)
  <2>1. /\ s.r \in ReduceTask /\ s.maps \in SUBSET MapTask /\ s.bad \in SUBSET MapTask
        /\ s = Reducing(s.pc, s.r, s.maps, s.bad)
    BY Zenon, <1>2, WorkerFields
  <2>2. \A x : [s EXCEPT !.pc = x] = Reducing(x, s.r, s.maps, s.bad)
    <3>1. PICK pc, r, ms, bad : pc = s.pc /\ r = s.r /\ ms = s.maps /\ bad = s.bad
      BY Zenon
    <3>2. ASSUME NEW x PROVE [Reducing(pc, r, ms, bad) EXCEPT !.pc = x] = Reducing(x, r, ms, bad)
      BY ONLY ReducingExcept
    <3>3. QED
      BY ZenonT(30), <2>1, <3>1, <3>2
  <2>3. QED
    BY Zenon, <2>1, <2>2
<1>3. CASE ReportMapFailure(w)
  BY Zenon, <1>2, <1>3 DEF ReportMapFailure
<1>4. CASE CreateOutput(w)
  BY Zenon, <1>2, <1>4 DEF CreateOutput
<1>5. CASE WriteOutput(w)
  BY Zenon, <1>2, <1>5 DEF WriteOutput
<1>6. CASE ReportReduce(w)
  BY Zenon, <1>2, <1>6 DEF ReportReduce
<1>7. QED
  BY Zenon, <1>1, <1>3, <1>4, <1>5, <1>6 DEF reduceTask

LEMMA ReduceTypes ==
  ASSUME TypeInv, NEW w \in Worker, reduceTask(w)
  PROVE  TypeInv'
<1>0. RestTypes /\ QueueTypes /\ worker[w] \in WorkerState
  BY DEF TypeInv, RestTypes
<1>1. /\ files \subseteq Emits /\ out \in [ReduceTask -> (SUBSET MapTask) \cup {Absent}]
      /\ torn \subseteq ReduceTask /\ waiting \in [Job -> Nat]
  BY <1>0 DEF RestTypes, QueueTypes
<1>2. PICK s \in WorkerState : s = worker[w]
  BY <1>0
<1>3. CASE /\ OpenFiles(w) /\ s.r \in ReduceTask /\ s.maps \in SUBSET MapTask
           /\ LET bad == {m \in s.maps : <<m, s.r>> \notin files} IN
              worker' = [worker EXCEPT ![w] =
                Reducing(IF bad = {} THEN "create" ELSE "report failure", s.r, s.maps \ bad, bad)]
  <2> DEFINE bad == {m \in s.maps : <<m, s.r>> \notin files}
             pc  == IF bad = {} THEN "create" ELSE "report failure"
  <2>1. worker' = [worker EXCEPT ![w] = Reducing(pc, s.r, s.maps \ bad, bad)]
    BY Zenon, <1>3
  <2>2. bad \in SUBSET MapTask /\ s.maps \ bad \in SUBSET MapTask
        /\ pc \in {"report failure", "create", "write", "report"}
    BY Zenon, <1>3
  <2> HIDE DEF bad, pc
  <2>3. Reducing(pc, s.r, s.maps \ bad, bad) \in WorkerState
    BY Zenon, <1>3, <2>2, ReducingType
  <2>4. UNCHANGED <<queueVars, coordinatorVars, fileVars, retries, crashes, overtaken>>
    BY Zenon, <1>3 DEF OpenFiles
  <2>5. QED
    BY Zenon, <1>1, <2>1, <2>3, <2>4, LocalTypes DEF queueVars, fileVars
<1> DEFINE In(pc) == Reducing(pc, s.r, s.maps, s.bad)
<1>4. ASSUME s.r \in ReduceTask, s.maps \in SUBSET MapTask, s.bad \in SUBSET MapTask,
             NEW pc \in {"report failure", "create", "write", "report"}
      PROVE  In(pc) \in WorkerState
  BY Zenon, <1>4, ReducingType
<1>5. CASE /\ s.r \in ReduceTask /\ s.maps \in SUBSET MapTask /\ s.bad \in SUBSET MapTask
           /\ ReportMapFailure(w)
           /\ \/ /\ worker' = [worker EXCEPT ![w] = In("create")]
                 /\ SubmitJobs({Bare(MapJob(m)) : m \in s.bad} \cup {Bare(ReduceJob(s.r))})
              \/ /\ worker' = [worker EXCEPT ![w] = Gone] /\ UNCHANGED waiting
  <2>1. UNCHANGED <<jobCh, jobs, closed, Output, storing, panicked, coordinatorVars, fileVars, retries, crashes, overtaken>>
    BY Zenon, <1>5 DEF ReportMapFailure
  <2>2. waiting' \in [Job -> Nat]
    <3>1. ASSUME NEW S, SubmitJobs(S) PROVE waiting' \in [Job -> Nat]
      BY <1>1, <3>1 DEF SubmitJobs
    <3>2. QED
      BY Zenon, <1>1, <1>5, <3>1
  <2>3. In("create") \in WorkerState /\ Gone \in WorkerState
    BY Zenon, <1>4, <1>5 DEF WorkerState
  <2>4. QED
    BY Zenon, <1>1, <1>5, <2>1, <2>2, <2>3, LocalTypes DEF fileVars
<1>6. CASE /\ s.r \in ReduceTask /\ s.maps \in SUBSET MapTask /\ s.bad \in SUBSET MapTask
           /\ CreateOutput(w) /\ worker' = [worker EXCEPT ![w] = In("write")]
           /\ out' = [out EXCEPT ![s.r] = {}]
  <2>1. out' \in [ReduceTask -> (SUBSET MapTask) \cup {Absent}]
    BY <1>1, <1>6
  <2>2. UNCHANGED <<queueVars, coordinatorVars, files, lost, torn, retries, crashes, overtaken>>
    BY Zenon, <1>6 DEF CreateOutput
  <2>3. In("write") \in WorkerState
    BY Zenon, <1>4, <1>6
  <2>4. QED
    BY Zenon, <1>1, <1>6, <2>1, <2>2, <2>3, LocalTypes DEF queueVars
<1>7. CASE /\ s.r \in ReduceTask /\ s.maps \in SUBSET MapTask /\ s.bad \in SUBSET MapTask
           /\ WriteOutput(w) /\ worker' = [worker EXCEPT ![w] = In("report")]
           /\ out' = [out EXCEPT ![s.r] = s.maps]
           /\ torn' = torn \ {s.r}
  <2>1. out' \in [ReduceTask -> (SUBSET MapTask) \cup {Absent}] /\ torn' \subseteq ReduceTask
    BY <1>1, <1>7
  <2>2. UNCHANGED <<queueVars, coordinatorVars, files, lost, retries, crashes, overtaken>>
    BY Zenon, <1>7 DEF WriteOutput
  <2>3. In("report") \in WorkerState
    BY Zenon, <1>4, <1>7
  <2>4. QED
    BY Zenon, <1>1, <1>7, <2>1, <2>2, <2>3, LocalTypes DEF queueVars
<1>8. CASE s.r \in ReduceTask /\ reportDone(w, id(ReduceJob(s.r)), Asking)
  <2>1. id(ReduceJob(s.r)) \in Id /\ Asking \in WorkerState
    BY Zenon, <1>8, JobFields, IdOfJob DEF WorkerState
  <2>2. QED
    BY Zenon, <1>8, <2>1, ReportTypes
<1>9. QED
  BY Zenon, <1>2, <1>3, <1>5, <1>6, <1>7, <1>8, ReduceSteps

LEMMA OtherTypes ==
  ASSUME TypeInv,
         \/ Exit
         \/ \E w \in Worker : LeaveLoop(w) \/ Crash(w)
         \/ \E f \in files : LoseFile(f)
         \/ UNCHANGED vars
  PROVE  TypeInv'
<1>0. Switches /\ QueueTypes /\ RestTypes /\ JobsStored
  BY DEF TypeInv
<1>1. CASE Exit
  BY Zenon, <1>0, <1>1 DEF Exit, TypeInv, Switches, QueueTypes, RestTypes, JobsStored, queueVars, fileVars
<1>2. CASE UNCHANGED vars
  BY Zenon, <1>0, <1>2 DEF vars, TypeInv, Switches, QueueTypes, RestTypes, JobsStored, queueVars, coordinatorVars, fileVars
<1>3. ASSUME NEW w \in Worker, LeaveLoop(w) PROVE TypeInv'
  <2>1. worker' = [worker EXCEPT ![w] = Gone] /\ UNCHANGED <<queueVars, coordinatorVars, fileVars, retries, crashes, overtaken>>
    BY Zenon, <1>3 DEF LeaveLoop
  <2>2. Gone \in WorkerState
    BY Zenon DEF WorkerState
  <2>3. QED
    BY Zenon, <1>0, <2>1, <2>2, LocalTypes DEF RestTypes, QueueTypes, queueVars, fileVars
<1>4. ASSUME NEW w \in Worker, Crash(w) PROVE TypeInv'
  <2>1. /\ crashes < MaxCrashes /\ crashes' = crashes + 1
        /\ worker' = [worker EXCEPT ![w] = Asking] \/ worker' = [worker EXCEPT ![w] = Gone]
        /\ orphans' = orphans + 1 \/ orphans' = orphans
        /\ torn' = torn \/ (worker[w].pc = "write" /\ torn' = torn \cup {worker[w].r})
        /\ UNCHANGED <<queueVars, watching, finishing, doneCh, exited, files, out, lost, retries, overtaken>>
    BY Zenon, <1>4 DEF Crash
  <2>2. crashes' \in 0 .. MaxCrashes /\ orphans' \in Nat
    BY <1>0, <2>1, BoundsAssumption DEF RestTypes
  <2>3. torn' \subseteq ReduceTask
    <3>1. worker[w] \in WorkerState /\ torn \subseteq ReduceTask
      BY Zenon, <1>0 DEF RestTypes
    <3>2. worker[w].pc = "write" => worker[w].r \in ReduceTask
      BY Zenon, <3>1, WorkerFields
    <3>3. QED
      BY Zenon, <2>1, <3>1, <3>2
  <2>4. worker' \in [Worker -> WorkerState]
    BY ZenonT(30), <1>0, <2>1 DEF RestTypes, WorkerState
  <2>5. QED
    BY Zenon, <1>0, <2>1, <2>2, <2>3, <2>4 DEF TypeInv, Switches, QueueTypes, RestTypes, JobsStored, queueVars
<1>5. ASSUME NEW f \in files, LoseFile(f) PROVE TypeInv'
  <2>1. /\ lost < MaxLost /\ lost' = lost + 1 /\ files' = files \ {f}
        /\ UNCHANGED <<queueVars, coordinatorVars, out, torn, worker, retries, crashes, overtaken>>
    BY Zenon, <1>5 DEF LoseFile
  <2>2. lost' \in 0 .. MaxLost /\ files' \subseteq Emits
    BY <1>0, <2>1, BoundsAssumption DEF RestTypes
  <2>3. QED
    BY Zenon, <1>0, <2>1, <2>2 DEF TypeInv, Switches, QueueTypes, RestTypes, JobsStored, queueVars, coordinatorVars
<1>6. QED
  BY Zenon, <1>1, <1>2, <1>3, <1>4, <1>5

LEMMA NextTypes ==
  ASSUME TypeInv, [Next]_vars
  PROVE  TypeInv'
BY Zenon, QueueStepTypes, AnswerTypes, FinishTypes, MapTypes, ReduceTypes, OtherTypes DEF Next, Progress

\* The channel of the queue never holds more jobs than it has room for, what a report finishes
\* is the job it names, and everything else has its type, for every number of files and workers.
THEOREM TypesCorrect == Spec => []TypeOK
<1>1. TypeInv /\ [Next]_vars => TypeInv'
  BY NextTypes
<1>2. QED
  BY <1>1, InitTypes, TypeInvType, PTL DEF Spec

-----------------------------------------------------------------------------
(* The inductive invariant *)

\* A part that was reported has the name of its file exactly when its map made one.
PartsNamed ==
  \A m \in MapTask, r \in ReduceTask :
    /\ PseudoJob(m, r) \in Output => <<m, r>> \in Emits
    /\ PseudoJob(m, r) \in closed /\ <<m, r>> \in Emits => PseudoJob(m, r) \in Output

\* A job is sent only when its dependencies are finished, and the last one is sent last.
SentReady ==
  /\ \A k \in 1 .. Len(jobCh) : Deps(jobCh[k]) \subseteq closed
  /\ doneCh => ReduceJobs \subseteq closed

\* Job j is on its way to a worker or with one.
Pending(j) == waiting[j] > 0 \/ watching[j] > 0 \/ \E k \in 1 .. Len(jobCh) : jobCh[k] = j

\* While no file was lost: a part is on disk before it is reported, no job was submitted by
\* ReportMapFailure, and a reduce has all its files.
PartsOnDisk ==
  \A m \in MapTask, r \in ReduceTask :
    <<m, r>> \in Emits /\ (finishing[id(PseudoJob(m, r))] > 0 \/ PseudoJob(m, r) \in Output) => <<m, r>> \in files

Complete(s) ==
  /\ s.pc = "renamed" => <<s.m, s.r>> \in files
  /\ s.pc = "open" => s.maps = Whole(s.r) /\ \A m \in s.maps : <<m, s.r>> \in files
  /\ s.pc \in {"create", "write", "report"} => s.maps = Whole(s.r) /\ s.bad = {}
  /\ s.pc # "report failure"

FilesInv ==
  lost = 0 => /\ PartsOnDisk
              /\ \A j \in Job : Pending(j) => j \in Initial
              /\ \A w \in Worker : Complete(worker[w])

\* The output of a reduce that was reported is whole, or was truncated since.
Written  == {r \in ReduceTask : \E w \in Worker : worker[w].pc = "write" /\ worker[w].r = r}
Reported ==
  {r \in ReduceTask : \/ finishing[id(ReduceJob(r))] > 0 \/ ReduceJob(r) \in closed
                      \/ \E w \in Worker : worker[w].pc = "report" /\ worker[w].r = r}

WholeInv == lost = 0 => \A r \in Reported : out[r] = Whole(r) \/ r \in Written \cup torn

\* What the worker that opens the files of a reduce was given.
Given(s) == s.pc = "open" => s.maps = Whole(s.r) \/ (lost > 0 /\ s.maps = {})

GivenInv == \A w \in Worker : Given(worker[w])

MRInv == TypeInv /\ PartsNamed /\ SentReady /\ FilesInv /\ WholeInv /\ GivenInv

-----------------------------------------------------------------------------
(* Keys *)

LEMMA PseudoIds ==
  ASSUME KeysDiffer, NEW m \in MapTask, NEW r \in ReduceTask, NEW n \in MapTask, NEW x \in ReduceTask,
         id(PseudoJob(m, r)) = id(PseudoJob(n, x))
  PROVE  m = n /\ r = x
<1>1. PseudoKey(m, r) = PseudoKey(n, x)
  BY JobFields, IdOfJob
<1>2. QED
  BY SMT, <1>1 DEF KeysDiffer

LEMMA ReduceIds ==
  ASSUME KeysDiffer, NEW r \in ReduceTask, NEW x \in ReduceTask,
         id(ReduceJob(r)) = id(ReduceJob(x)) \/ Itoa[r] = Itoa[x]
  PROVE  r = x
<1>1. Itoa[r] = Itoa[x]
  BY JobFields, IdOfJob
<1>2. QED
  BY Zenon, <1>1 DEF KeysDiffer

LEMMA IdTypes ==
  /\ \A m \in MapTask : id(MapJob(m)) \in Id /\ id(MapJob(m)).Jobtype = "map"
  /\ \A r \in ReduceTask : id(ReduceJob(r)) \in Id /\ id(ReduceJob(r)).Jobtype = "reduce"
  /\ \A m \in MapTask, r \in ReduceTask : id(PseudoJob(m, r)) \in Id /\ id(PseudoJob(m, r)).Jobtype = "pseudo"
BY JobFields, IdOfJob

LEMMA BareNotInitial ==
  ASSUME NEW r \in ReduceTask
  PROVE  Bare(ReduceJob(r)) \notin Initial
<1>1. \A x \in Initial : x.Jobtype = "reduce" => ~x.bare
  <2> SUFFICES ASSUME NEW x \in Initial, x.Jobtype = "reduce" PROVE ~x.bare
    OBVIOUS
  <2>1. x \in ReduceJobs
    BY DEF Initial, MapJobs, PseudoJobs, MapJob, PseudoJob, DoneJob
  <2>2. QED
    BY <2>1, JobFields DEF ReduceJobs
<1>2. QED
  BY Zenon, <1>1, JobFields

LEMMA DepsOf ==
  /\ Deps(DoneJob) = ReduceJobs
  /\ \A r \in ReduceTask : \A m \in MapTask : PseudoJob(m, r) \in Deps(ReduceJob(r))
<1>1. Deps(DoneJob) = ReduceJobs
  BY SMT DEF Deps
<1>2. ASSUME NEW r \in ReduceTask, NEW m \in MapTask PROVE PseudoJob(m, r) \in Deps(ReduceJob(r))
  <2>1. ReduceJob(r) # DoneJob
    BY JobFields
  <2>2. Deps(ReduceJob(r)) = {PseudoJob(n, y) : n \in MapTask, y \in {x \in ReduceTask : ReduceJob(r) = ReduceJob(x)}}
    BY SMT, <2>1 DEF Deps
  <2>3. QED
    BY SMT, <2>2
<1>3. QED
  BY Zenon, <1>1, <1>2

\* A reduce job whose dependencies are finished is answered with all files its maps made.
LEMMA WholeTask ==
  ASSUME KeysDiffer, PartsNamed, NEW r \in ReduceTask, Deps(ReduceJob(r)) \subseteq closed
  PROVE  TaskOf(ReduceJob(r)) = Opening(r, Whole(r))
<1>1. PICK x \in ReduceTask :
        /\ Itoa[x] = ReduceJob(r).Key
        /\ TaskOf(ReduceJob(r)) = Opening(x, {m \in MapTask : PseudoJob(m, x) \in Deps(ReduceJob(r)) \cap Output})
  BY Zenon, JobFields, TaskType
<1>2. x = r
  BY <1>1, JobFields, ReduceIds
<1>3. ASSUME NEW m \in MapTask
      PROVE  PseudoJob(m, r) \in Deps(ReduceJob(r)) \cap Output <=> <<m, r>> \in Emits
  BY Zenon, DepsOf DEF PartsNamed
<1>4. {m \in MapTask : PseudoJob(m, r) \in Deps(ReduceJob(r)) \cap Output} = Whole(r)
  BY Zenon, <1>3 DEF Whole
<1>5. QED
  BY Zenon, <1>1, <1>2, <1>4

\* A reduce job that ReportMapFailure made has no dependencies, and no files.
LEMMA BareTask ==
  ASSUME NEW r \in ReduceTask
  PROVE  TaskOf(Bare(ReduceJob(r))).maps = {}
<1>1. PICK j \in Job : j = Bare(ReduceJob(r)) /\ j.Jobtype = "reduce" /\ j.bare
  BY Zenon, JobFields
<1>2. PICK x \in ReduceTask : TaskOf(j) = Opening(x, {m \in MapTask : PseudoJob(m, x) \in Deps(j) \cap Output})
  BY Zenon, <1>1, TaskType
<1>3. j # DoneJob
  BY Zenon, <1>1, JobFields
<1>4. \A y \in ReduceTask : j # ReduceJob(y)
  BY Zenon, <1>1, JobFields
<1>5. Deps(j) = {}
  BY SMT, <1>3, <1>4 DEF Deps
<1>6. {m \in MapTask : PseudoJob(m, x) \in Deps(j) \cap Output} = {}
  BY Zenon, <1>5
<1>7. QED
  BY <1>1, <1>2, <1>6 DEF Opening

-----------------------------------------------------------------------------
(* The steps of the coordinator *)

\* A step that only moves jobs along.
LEMMA MoveInv ==
  ASSUME MRInv, TypeInv', UNCHANGED <<closed, Output, finishing, files, worker, out, torn, doneCh, lost, crashes>>,
         \A j \in Job : Pending(j)' => Pending(j),
         \A k \in 1 .. Len(jobCh') : Deps(jobCh'[k]) \subseteq closed
  PROVE  MRInv'
<1>2. Written' = Written /\ Reported' = Reported
  BY Zenon DEF Written, Reported
<1>3. PartsNamed' /\ SentReady' /\ WholeInv'
  BY Zenon, <1>2 DEF MRInv, PartsNamed, SentReady, WholeInv
<1>4. FilesInv'
  BY Zenon DEF MRInv, FilesInv, PartsOnDisk, Complete
<1>5. GivenInv'
  BY Zenon DEF MRInv, GivenInv, Given
<1>6. QED
  BY Zenon, <1>3, <1>4, <1>5 DEF MRInv

LEMMA QueueStepInv ==
  ASSUME MRInv, TypeInv', NEW j \in Job, Send(j) \/ Store(j) \/ watchJob(j)
  PROVE  MRInv'
<1>1. /\ jobCh \in Seq(Job) /\ waiting \in [Job -> Nat] /\ watching \in [Job -> Nat]
      /\ \A k \in 1 .. Len(jobCh) : Deps(jobCh[k]) \subseteq closed
  BY SMTT(30) DEF MRInv, TypeInv, QueueTypes, RestTypes, SentReady
<1>2. UNCHANGED <<closed, Output, finishing, files, worker, out, torn, doneCh, lost, crashes>>
  BY Zenon DEF Send, SendJob, Store, StoreJob, watchJob, coordinatorVars, fileVars
<1>3. CASE Send(j)
  <2>1. /\ waiting[j] > 0 /\ Deps(j) \subseteq closed /\ waiting' = [waiting EXCEPT ![j] = waiting[j] - 1]
        /\ jobCh' = Append(jobCh, j) /\ UNCHANGED watching
    BY Zenon, <1>3 DEF Send, SendJob, Ready, coordinatorVars
  <2>2. \A k \in 1 .. Len(jobCh') : jobCh'[k] = j \/ (k \in 1 .. Len(jobCh) /\ jobCh'[k] = jobCh[k])
    BY <1>1, <2>1, AppendProperties
  <2>3. \A x \in Job : waiting'[x] > 0 => waiting[x] > 0
    BY <1>1, <2>1
  <2>4. \A x \in Job : Pending(x)' => Pending(x)
    BY Zenon, <2>1, <2>2, <2>3 DEF Pending
  <2>5. QED
    BY Zenon, <1>1, <1>2, <2>1, <2>2, <2>4, MoveInv
<1>4. CASE Store(j)
  <2>1. UNCHANGED <<jobCh, waiting, watching>>
    BY Zenon, <1>4 DEF Store, StoreJob, coordinatorVars
  <2>2. \A x \in Job : Pending(x)' => Pending(x)
    BY Zenon, <2>1 DEF Pending
  <2>3. QED
    BY Zenon, <1>1, <1>2, <2>1, <2>2, MoveInv
<1>5. CASE watchJob(j)
  <2>1. /\ watching[j] > 0 /\ watching' = [watching EXCEPT ![j] = watching[j] - 1] /\ SubmitJobs({j}) /\ UNCHANGED jobCh
    BY Zenon, <1>5 DEF watchJob
  <2>2. \A x \in Job : watching'[x] > 0 => watching[x] > 0
    BY <1>1, <2>1
  <2>3. \A x \in Job : waiting'[x] > 0 => waiting[x] > 0 \/ x = j
    BY <1>1, <2>1 DEF SubmitJobs
  <2>4. \A x \in Job : Pending(x)' => Pending(x)
    BY Zenon, <2>1, <2>2, <2>3 DEF Pending
  <2>5. QED
    BY Zenon, <1>1, <1>2, <2>1, <2>4, MoveInv
<1>6. QED
  BY <1>3, <1>4, <1>5

\* A step that only gives worker w another state.
LEMMA WorkerFrame ==
  ASSUME TypeInv, NEW w \in Worker, NEW n, worker' = [worker EXCEPT ![w] = n]
  PROVE  worker'[w] = n /\ \A v \in Worker : v # w => worker'[v] = worker[v]
BY DEF TypeInv, RestTypes

LEMMA HeadProperties ==
  ASSUME NEW S, NEW s \in Seq(S), s # <<>>
  PROVE  /\ Head(s) = s[1] /\ 1 \in 1 .. Len(s)
         /\ \A k \in 1 .. Len(Tail(s)) : k + 1 \in 1 .. Len(s) /\ Tail(s)[k] = s[k + 1]
<1>1. Len(s) \in Nat \ {0}
  BY EmptySeq
<1>2. Head(s) = s[1] /\ Len(Tail(s)) = Len(s) - 1 /\ \A k \in 1 .. Len(Tail(s)) : Tail(s)[k] = s[k + 1]
  BY <1>1, HeadTailProperties
<1>3. QED
  BY <1>1, <1>2

LEMMA AnswerInv ==
  ASSUME KeysDiffer, MRInv, TypeInv', NEW j \in Job, Answer(j)
  PROVE  MRInv'
<1>0. TypeInv /\ PartsNamed /\ SentReady /\ FilesInv /\ WholeInv /\ GivenInv
  BY DEF MRInv
<1>1. jobCh \in Seq(Job) /\ watching \in [Job -> Nat] /\ worker \in [Worker -> WorkerState]
  BY SMTT(30), <1>0 DEF TypeInv, QueueTypes, RestTypes
<1>2. Take(j)
  BY Zenon DEF Answer, SkipPseudo, GetTaskOfOrphan, GetTask, Watch
<1>3. /\ jobCh # <<>> /\ j = Head(jobCh) /\ jobCh' = Tail(jobCh)
      /\ UNCHANGED <<closed, Output, waiting, finishing, files, out, lost, torn, crashes>>
  BY Zenon, <1>2 DEF Take, fileVars
<1>4. /\ j = jobCh[1] /\ 1 \in 1 .. Len(jobCh)
      /\ \A k \in 1 .. Len(jobCh') : k + 1 \in 1 .. Len(jobCh) /\ jobCh'[k] = jobCh[k + 1]
  BY <1>1, <1>3, HeadProperties
<1>5. Pending(j) /\ Deps(j) \subseteq closed
  BY Zenon, <1>0, <1>4 DEF Pending, SentReady
<1>6. \A k \in 1 .. Len(jobCh') : Deps(jobCh'[k]) \subseteq closed
  BY <1>0, <1>4 DEF SentReady
<1>7. \A x \in Job : Pending(x)' => Pending(x)
  <2>1. watching' = watching \/ watching' = [watching EXCEPT ![j] = watching[j] + 1]
    BY Zenon DEF Answer, SkipPseudo, GetTaskOfOrphan, GetTask, Watch
  <2>2. \A x \in Job : watching'[x] > 0 => watching[x] > 0 \/ x = j
    BY <1>1, <2>1
  <2>3. QED
    BY Zenon, <1>3, <1>4, <1>5, <2>2 DEF Pending
<1>8. doneCh' => ReduceJobs \subseteq closed
  <2>1. doneCh' => doneCh \/ j = DoneJob
    BY Zenon DEF Answer, SkipPseudo, GetTaskOfOrphan, GetTask, Watch
  <2>2. QED
    BY Zenon, <1>0, <1>5, <2>1, DepsOf DEF SentReady
<1>9. PartsNamed' /\ SentReady'
  BY Zenon, <1>0, <1>3, <1>6, <1>8 DEF PartsNamed, SentReady
<1>10. CASE worker' = worker
  <2>1. FilesInv'
    BY Zenon, <1>0, <1>3, <1>7, <1>10 DEF FilesInv, PartsOnDisk, Complete
  <2>2. Written' = Written /\ Reported' = Reported
    BY Zenon, <1>3, <1>10 DEF Written, Reported
  <2>3. WholeInv' /\ GivenInv'
    BY Zenon, <1>0, <1>3, <1>10, <2>2 DEF WholeInv, GivenInv, Given
  <2>4. QED
    BY Zenon, <1>9, <2>1, <2>3 DEF MRInv
<1>11. ASSUME NEW w \in Worker, GetTask(w, j) PROVE MRInv'
  <2>1. worker[w] = Asking /\ worker' = [worker EXCEPT ![w] = TaskOf(j)]
    BY Zenon, <1>11 DEF GetTask
  <2>2. worker'[w] = TaskOf(j) /\ \A v \in Worker : v # w => worker'[v] = worker[v]
    BY Zenon, <1>0, <2>1, WorkerFrame
  <2>3. worker[w].pc = "ask"
    BY <2>1 DEF Asking
  <2>4. \/ TaskOf(j).pc = "ask" \/ TaskOf(j).pc = "map"
        \/ \E r \in ReduceTask :
             /\ TaskOf(j).pc = "open" /\ TaskOf(j).r = r
             /\ \/ j = ReduceJob(r) /\ TaskOf(j).maps = Whole(r)
                \/ j = Bare(ReduceJob(r)) /\ TaskOf(j).maps = {}
    <3>1. CASE j.Jobtype # "reduce"
      <4>1. TaskOf(j).pc = "map" \/ TaskOf(j) = Asking
        BY Zenon, <3>1, TaskType
      <4>2. Asking.pc = "ask"
        BY DEF Asking
      <4>3. QED
        BY Zenon, <4>1, <4>2
    <3>2. CASE j.Jobtype = "reduce"
      <4>1. PICK r \in ReduceTask : j \in {ReduceJob(r), Bare(ReduceJob(r))}
        BY Zenon, <3>2, JobKinds
      <4>2. PICK x \in ReduceTask : Itoa[x] = j.Key /\ \E ms : TaskOf(j) = Opening(x, ms)
        BY Zenon, <3>2, TaskType
      <4>3. j.Key = Itoa[r]
        BY <4>1, JobFields
      <4>4. x = r
        BY SMTT(30), <4>2, <4>3, ReduceIds
      <4>5. TaskOf(j).pc = "open" /\ TaskOf(j).r = r
        BY <4>2, <4>4 DEF Opening
      <4>6. j = ReduceJob(r) => TaskOf(j).maps = Whole(r)
        <5> SUFFICES ASSUME j = ReduceJob(r) PROVE TaskOf(j).maps = Whole(r)
          OBVIOUS
        <5>1. TaskOf(j) = Opening(r, Whole(r))
          BY Zenon, <1>0, <1>5, WholeTask
        <5>2. QED
          BY <5>1 DEF Opening
      <4>7. j = Bare(ReduceJob(r)) => TaskOf(j).maps = {}
        BY Zenon, BareTask
      <4>8. QED
        BY Zenon, <4>1, <4>5, <4>6, <4>7
    <3>3. QED
      BY Zenon, <3>1, <3>2
  <2>5. PICK s : s = TaskOf(j)
    BY Zenon
  <2>6. s.pc \in {"ask", "map", "open"}
    BY SMTT(30), <2>4, <2>5
  <2>7. Written' = Written /\ Reported' = Reported
    BY <1>3, <2>2, <2>3, <2>5, <2>6 DEF Written, Reported
  <2>8. WholeInv'
    BY Zenon, <1>0, <1>3, <2>7 DEF WholeInv
  <2>9. FilesInv'
    <3> SUFFICES ASSUME lost' = 0 PROVE PartsOnDisk' /\ (\A x \in Job : Pending(x)' => x \in Initial)
                                         /\ \A v \in Worker : Complete(worker[v])'
      BY Zenon DEF FilesInv
    <3>1. PartsOnDisk /\ (\A x \in Job : Pending(x) => x \in Initial) /\ \A v \in Worker : Complete(worker[v])
      BY Zenon, <1>0, <1>3 DEF FilesInv
    <3>2. PartsOnDisk'
      BY Zenon, <1>3, <3>1 DEF PartsOnDisk
    <3>3. \A v \in Worker : v # w => Complete(worker[v])'
      BY Zenon, <1>3, <2>2, <3>1 DEF Complete
    <3>4. \A r \in ReduceTask : Bare(ReduceJob(r)) \notin Initial
      BY Zenon, BareNotInitial
    <3>5. s.pc = "open" => /\ s.r \in ReduceTask /\ s.maps = Whole(s.r)
                           /\ \A m \in s.maps : <<m, s.r>> \in files
      <4> SUFFICES ASSUME s.pc = "open" PROVE /\ s.r \in ReduceTask /\ s.maps = Whole(s.r)
                                              /\ \A m \in s.maps : <<m, s.r>> \in files
        OBVIOUS
      <4>1. PICK r \in ReduceTask : s.r = r /\ ((j = ReduceJob(r) /\ s.maps = Whole(r)) \/ j = Bare(ReduceJob(r)))
        BY <2>4, <2>5
      <4>2. j = ReduceJob(r) /\ s.maps = Whole(r)
        BY Zenon, <1>5, <3>1, <3>4, <4>1
      <4>3. ASSUME NEW m \in MapTask, <<m, r>> \in Emits PROVE <<m, r>> \in files
        <5>1. PseudoJob(m, r) \in closed
          BY Zenon, <1>5, <4>2, DepsOf
        <5>2. QED
          BY Zenon, <1>0, <3>1, <4>3, <5>1 DEF PartsNamed, PartsOnDisk
      <4>4. QED
        BY <4>1, <4>2, <4>3 DEF Whole
    <3>6. Complete(worker[w])'
      BY Zenon, <1>3, <2>2, <2>5, <2>6, <3>5 DEF Complete
    <3>7. QED
      BY Zenon, <1>7, <3>1, <3>2, <3>3, <3>6
  <2>10. GivenInv'
    <3>1. s.pc = "open" => s.maps = Whole(s.r) \/ (lost > 0 /\ s.maps = {})
      <4> SUFFICES ASSUME s.pc = "open" PROVE s.maps = Whole(s.r) \/ (lost > 0 /\ s.maps = {})
        OBVIOUS
      <4>1. PICK r \in ReduceTask : /\ s.r = r
                                    /\ (j = ReduceJob(r) /\ s.maps = Whole(r)) \/ (j = Bare(ReduceJob(r)) /\ s.maps = {})
        BY <2>4, <2>5
      <4>2. j = Bare(ReduceJob(r)) => lost # 0
        BY Zenon, <1>0, <1>5, BareNotInitial DEF FilesInv
      <4>3. lost # 0 => lost > 0
        BY <1>0 DEF TypeInv, RestTypes
      <4>4. QED
        BY Zenon, <4>1, <4>2, <4>3
    <3>2. Given(worker[w])'
      BY Zenon, <1>3, <2>2, <2>5, <3>1 DEF Given
    <3>3. \A v \in Worker : v # w => Given(worker[v])'
      BY Zenon, <1>0, <1>3, <2>2 DEF GivenInv, Given
    <3>4. QED
      BY Zenon, <3>2, <3>3 DEF GivenInv
  <2>11. QED
    BY Zenon, <1>9, <2>8, <2>9, <2>10 DEF MRInv
<1>12. QED
  BY Zenon, <1>10, <1>11 DEF Answer, SkipPseudo, GetTaskOfOrphan

LEMMA FinishInv ==
  ASSUME KeysDiffer, MRInv, TypeInv', NEW i \in Id, onTaskFinish(i)
  PROVE  MRInv'
<1> DEFINE named == \E e \in Emits : i = id(PseudoJob(e[1], e[2]))
<1>0. TypeInv /\ PartsNamed /\ SentReady /\ FilesInv /\ WholeInv /\ GivenInv
  BY DEF MRInv
<1>1. /\ finishing[i] > 0 /\ finishing' = [finishing EXCEPT ![i] = finishing[i] - 1]
      /\ jobs[i] = NoJob => UNCHANGED <<closed, Output>>
      /\ jobs[i] # NoJob => /\ Output' = IF named THEN Output \cup {jobs[i]} ELSE Output \ {jobs[i]}
                            /\ closed' = IF jobs[i].bare THEN closed ELSE closed \cup {jobs[i]}
      /\ UNCHANGED <<jobCh, waiting, watching, doneCh, worker, files, out, torn, lost, crashes>>
  BY Zenon DEF onTaskFinish, Finish, fileVars
<1>2. finishing \in [Id -> Nat]
  BY <1>0 DEF TypeInv, RestTypes
<1>3. \A x \in Id : finishing'[x] > 0 => finishing[x] > 0
  BY <1>1, <1>2
<1>4. jobs[i] # NoJob => id(jobs[i]) = i
  BY Zenon, <1>0, FinishedJob
<1>5. ASSUME NEW m \in MapTask, NEW r \in ReduceTask, i = id(PseudoJob(m, r)) PROVE named <=> <<m, r>> \in Emits
  <2>1. ASSUME <<m, r>> \in Emits PROVE named
    BY SMT, <1>5, <2>1
  <2>2. ASSUME NEW e \in Emits, i = id(PseudoJob(e[1], e[2])) PROVE <<m, r>> \in Emits
    <3>1. e[1] \in MapTask /\ e[2] \in ReduceTask /\ e = <<e[1], e[2]>>
      BY EmitsAssumption
    <3>2. e[1] = m /\ e[2] = r
      <4>1. PICK n \in MapTask, x \in ReduceTask : n = e[1] /\ x = e[2]
        BY Zenon, <3>1
      <4>2. id(PseudoJob(n, x)) = id(PseudoJob(m, r))
        BY Zenon, <1>5, <2>2, <4>1
      <4>3. QED
        BY <4>1, <4>2, PseudoIds
    <3>3. QED
      BY <3>1, <3>2
  <2>3. QED
    BY Zenon, <2>1, <2>2
<1> HIDE DEF named
<1>6. closed \subseteq closed'
  BY <1>1
<1>7. PartsNamed'
  <2> SUFFICES ASSUME NEW m \in MapTask, NEW r \in ReduceTask
               PROVE  /\ PseudoJob(m, r) \in Output' => <<m, r>> \in Emits
                      /\ PseudoJob(m, r) \in closed' /\ <<m, r>> \in Emits => PseudoJob(m, r) \in Output'
    BY Zenon DEF PartsNamed
  <2>1. /\ PseudoJob(m, r) \in Output => <<m, r>> \in Emits
        /\ PseudoJob(m, r) \in closed /\ <<m, r>> \in Emits => PseudoJob(m, r) \in Output
    BY Zenon, <1>0 DEF PartsNamed
  <2>2. CASE jobs[i] # NoJob /\ jobs[i] = PseudoJob(m, r)
    BY <1>1, <1>4, <1>5, <2>2
  <2>3. CASE jobs[i] # NoJob /\ jobs[i] # PseudoJob(m, r)
    BY <1>1, <2>1, <2>3
  <2>4. CASE jobs[i] = NoJob
    BY <1>1, <2>1, <2>4
  <2>5. QED
    BY <2>2, <2>3, <2>4
<1>8. SentReady'
  BY Zenon, <1>0, <1>1, <1>6 DEF SentReady
<1>9. \A j : Pending(j)' <=> Pending(j)
  BY Zenon, <1>1 DEF Pending
<1>10. FilesInv'
  <2> SUFFICES ASSUME lost' = 0 PROVE PartsOnDisk' /\ (\A x \in Job : Pending(x)' => x \in Initial)
                                       /\ \A v \in Worker : Complete(worker[v])'
    BY Zenon DEF FilesInv
  <2>1. PartsOnDisk /\ (\A x \in Job : Pending(x) => x \in Initial) /\ \A v \in Worker : Complete(worker[v])
    BY Zenon, <1>0, <1>1 DEF FilesInv
  <2>2. PartsOnDisk'
    <3> SUFFICES ASSUME NEW m \in MapTask, NEW r \in ReduceTask, <<m, r>> \in Emits,
                        finishing'[id(PseudoJob(m, r))] > 0 \/ PseudoJob(m, r) \in Output'
                 PROVE  <<m, r>> \in files
      BY Zenon, <1>1 DEF PartsOnDisk
    <3>1. id(PseudoJob(m, r)) \in Id
      BY Zenon, IdTypes
    <3>2. finishing[id(PseudoJob(m, r))] > 0 \/ PseudoJob(m, r) \in Output
      BY <1>1, <1>3, <1>4, <3>1
    <3>3. QED
      BY Zenon, <2>1, <3>2 DEF PartsOnDisk
  <2>3. \A v \in Worker : Complete(worker[v])'
    BY Zenon, <1>1, <2>1 DEF Complete
  <2>4. QED
    BY Zenon, <1>9, <2>1, <2>2, <2>3
<1>11. Written' = Written
  BY Zenon, <1>1 DEF Written
<1>12. WholeInv'
  <2>1. Reported' \subseteq Reported
    <3> SUFFICES ASSUME NEW r \in Reported' PROVE r \in Reported
      OBVIOUS
    <3>1. /\ r \in ReduceTask
          /\ \/ finishing'[id(ReduceJob(r))] > 0 \/ ReduceJob(r) \in closed'
             \/ \E w \in Worker : worker[w].pc = "report" /\ worker[w].r = r
      BY Zenon, <1>1 DEF Reported
    <3>2. id(ReduceJob(r)) \in Id
      BY Zenon, <3>1, IdTypes
    <3>3. \/ finishing[id(ReduceJob(r))] > 0 \/ ReduceJob(r) \in closed
          \/ \E w \in Worker : worker[w].pc = "report" /\ worker[w].r = r
      BY <1>1, <1>3, <1>4, <3>1, <3>2
    <3>4. QED
      BY Zenon, <3>1, <3>3 DEF Reported
  <2>2. QED
    BY Zenon, <1>0, <1>1, <1>11, <2>1 DEF WholeInv
<1>13. GivenInv'
  BY Zenon, <1>0, <1>1 DEF GivenInv, Given
<1>14. QED
  BY Zenon, <1>7, <1>8, <1>10, <1>12, <1>13 DEF MRInv

-----------------------------------------------------------------------------
(* The steps of the workers *)

\* A report of a part that is on disk, of a map or of a reduce that has written its output.
LEMMA ReportInv ==
  ASSUME MRInv, TypeInv', NEW w \in Worker, NEW i \in Id, NEW next, reportDone(w, i, next),
         next.pc \in {"ask", "map"}, worker[w].pc \in {"map", "renamed", "report"},
         lost = 0 => \A m \in MapTask, r \in ReduceTask :
                       i = id(PseudoJob(m, r)) /\ <<m, r>> \in Emits => <<m, r>> \in files,
         \A r \in ReduceTask : i = id(ReduceJob(r)) => worker[w].pc = "report" /\ worker[w].r = r
  PROVE  MRInv'
<1>0. TypeInv /\ PartsNamed /\ SentReady /\ FilesInv /\ WholeInv /\ GivenInv
  BY DEF MRInv
<1>1. /\ worker' = [worker EXCEPT ![w] = next] \/ worker' = [worker EXCEPT ![w] = Gone]
      /\ finishing' = finishing \/ finishing' = [finishing EXCEPT ![i] = finishing[i] + 1]
      /\ UNCHANGED <<jobCh, waiting, watching, doneCh, closed, Output, files, out, torn, lost, crashes>>
  BY Zenon DEF reportDone, queueVars, fileVars
<1>2. Gone.pc = "gone"
  BY DEF Gone
<1>3. PICK n : worker' = [worker EXCEPT ![w] = n] /\ n.pc \in {"ask", "map", "gone"}
  BY Zenon, <1>1, <1>2
<1>4. worker'[w] = n /\ \A v \in Worker : v # w => worker'[v] = worker[v]
  BY Zenon, <1>0, <1>3, WorkerFrame
<1>5. finishing \in [Id -> Nat]
  BY <1>0 DEF TypeInv, RestTypes
<1>6. \A x \in Id : finishing'[x] > 0 => finishing[x] > 0 \/ x = i
  BY <1>1, <1>5
<1>7. PartsNamed' /\ SentReady'
  BY Zenon, <1>0, <1>1 DEF PartsNamed, SentReady
<1>8. \A j : Pending(j)' <=> Pending(j)
  BY Zenon, <1>1 DEF Pending
<1>9. FilesInv'
  <2> SUFFICES ASSUME lost' = 0 PROVE PartsOnDisk' /\ (\A x \in Job : Pending(x)' => x \in Initial)
                                       /\ \A v \in Worker : Complete(worker[v])'
    BY Zenon DEF FilesInv
  <2>1. PartsOnDisk /\ (\A x \in Job : Pending(x) => x \in Initial) /\ \A v \in Worker : Complete(worker[v])
    BY Zenon, <1>0, <1>1 DEF FilesInv
  <2>2. PartsOnDisk'
    <3> SUFFICES ASSUME NEW m \in MapTask, NEW r \in ReduceTask, <<m, r>> \in Emits,
                        finishing'[id(PseudoJob(m, r))] > 0 \/ PseudoJob(m, r) \in Output
                 PROVE  <<m, r>> \in files
      BY Zenon, <1>1 DEF PartsOnDisk
    <3>1. id(PseudoJob(m, r)) \in Id /\ lost = 0
      BY Zenon, <1>1, IdTypes
    <3>2. QED
      BY Zenon, <1>6, <2>1, <3>1 DEF PartsOnDisk
  <2>3. \A v \in Worker : v # w => Complete(worker[v])'
    BY Zenon, <1>1, <1>4, <2>1 DEF Complete
  <2>4. Complete(worker[w])'
    BY Zenon, <1>3, <1>4 DEF Complete
  <2>5. QED
    BY Zenon, <1>8, <2>1, <2>2, <2>3, <2>4
<1>10. Written' = Written
  BY <1>1, <1>3, <1>4 DEF Written
<1>11. WholeInv'
  <2>1. Reported' \subseteq Reported
    <3> SUFFICES ASSUME NEW r \in Reported' PROVE r \in Reported
      OBVIOUS
    <3>1. /\ r \in ReduceTask
          /\ \/ finishing'[id(ReduceJob(r))] > 0 \/ ReduceJob(r) \in closed
             \/ \E v \in Worker : worker'[v].pc = "report" /\ worker'[v].r = r
      BY Zenon, <1>1 DEF Reported
    <3>2. id(ReduceJob(r)) \in Id
      BY Zenon, <3>1, IdTypes
    <3>3. \/ finishing[id(ReduceJob(r))] > 0 \/ ReduceJob(r) \in closed
          \/ \E v \in Worker : worker[v].pc = "report" /\ worker[v].r = r
      BY <1>3, <1>4, <1>6, <3>1, <3>2
    <3>4. QED
      BY Zenon, <3>1, <3>3 DEF Reported
  <2>2. QED
    BY Zenon, <1>0, <1>1, <1>10, <2>1 DEF WholeInv
<1>12. GivenInv'
  BY Zenon, <1>0, <1>1, <1>3, <1>4 DEF GivenInv, Given
<1>13. QED
  BY Zenon, <1>7, <1>9, <1>11, <1>12 DEF MRInv

\* A worker goes on without the coordinator; what it does to the files is a hypothesis.
LEMMA LocalInv ==
  ASSUME MRInv, TypeInv', NEW w \in Worker, NEW n, worker' = [worker EXCEPT ![w] = n],
         UNCHANGED <<closed, Output, finishing, jobCh, watching, doneCh, lost, crashes>>,
         lost = 0 => files \subseteq files' /\ UNCHANGED waiting /\ Complete(n)',
         lost = 0 => \A r \in Reported' : out'[r] = Whole(r) \/ r \in Written' \cup torn',
         n.pc # "open"
  PROVE  MRInv'
<1>0. TypeInv /\ PartsNamed /\ SentReady /\ FilesInv /\ WholeInv /\ GivenInv
  BY DEF MRInv
<1>1. worker'[w] = n /\ \A v \in Worker : v # w => worker'[v] = worker[v]
  BY Zenon, <1>0, WorkerFrame
<1>2. PartsNamed' /\ SentReady'
  BY Zenon, <1>0 DEF PartsNamed, SentReady
<1>3. FilesInv'
  <2> SUFFICES ASSUME lost' = 0 PROVE PartsOnDisk' /\ (\A x \in Job : Pending(x)' => x \in Initial)
                                       /\ \A v \in Worker : Complete(worker[v])'
    BY Zenon DEF FilesInv
  <2>1. PartsOnDisk /\ (\A x \in Job : Pending(x) => x \in Initial) /\ \A v \in Worker : Complete(worker[v])
    BY Zenon, <1>0 DEF FilesInv
  <2>2. files \subseteq files' /\ UNCHANGED waiting /\ Complete(n)'
    BY Zenon
  <2>3. PartsOnDisk' /\ \A x \in Job : Pending(x)' => x \in Initial
    BY Zenon, <2>1, <2>2 DEF PartsOnDisk, Pending
  <2>4. \A v \in Worker : v # w => Complete(worker[v])'
    BY Zenon, <1>1, <2>1, <2>2 DEF Complete
  <2>5. Complete(worker[w])'
    BY Zenon, <1>1, <2>2 DEF Complete
  <2>6. QED
    BY Zenon, <2>3, <2>4, <2>5
<1>4. WholeInv'
  BY Zenon DEF WholeInv
<1>5. GivenInv'
  BY Zenon, <1>0, <1>1 DEF GivenInv, Given
<1>6. QED
  BY Zenon, <1>2, <1>3, <1>4, <1>5 DEF MRInv

\* The case that neither the outputs nor the jobs change.
LEMMA PlainInv ==
  ASSUME MRInv, TypeInv', NEW w \in Worker, NEW n, worker' = [worker EXCEPT ![w] = n],
         UNCHANGED <<closed, Output, finishing, jobCh, waiting, watching, doneCh, lost, crashes, out, torn>>,
         files \subseteq files', worker[w].pc \notin {"write", "report"},
         n.pc \notin {"open", "write", "report"}, lost = 0 => Complete(n)'
  PROVE  MRInv'
<1>0. TypeInv /\ WholeInv /\ GivenInv
  BY DEF MRInv
<1>1. worker'[w] = n /\ \A v \in Worker : v # w => worker'[v] = worker[v]
  BY Zenon, <1>0, WorkerFrame
<1>2. Written' = Written /\ Reported' = Reported
  BY <1>1 DEF Written, Reported
<1>3. lost = 0 => \A r \in Reported' : out'[r] = Whole(r) \/ r \in Written' \cup torn'
  BY Zenon, <1>0, <1>2 DEF WholeInv
<1>4. QED
  BY Zenon, <1>3, LocalInv

LEMMA MapInv ==
  ASSUME KeysDiffer, MRInv, TypeInv', NEW w \in Worker, mapTask(w)
  PROVE  MRInv'
<1>0. TypeInv /\ FilesInv /\ worker[w] \in WorkerState
  BY DEF MRInv, TypeInv, RestTypes
<1>1. PICK s \in WorkerState : s = worker[w]
  BY <1>0
<1>2. CASE RenamePart(w)
  <2>1. /\ s.pc = "map" /\ files' = files \cup {<<s.m, s.r>>}
        /\ worker' = [worker EXCEPT ![w] = Renamed(s.m, s.r)]
        /\ UNCHANGED <<closed, Output, finishing, jobCh, waiting, watching, doneCh, lost, crashes, out, torn>>
    BY Zenon, <1>1, <1>2 DEF RenamePart, queueVars, coordinatorVars
  <2>2. PICK n : n = Renamed(s.m, s.r)
    BY Zenon
  <2>3. n.pc = "renamed" /\ n.m = s.m /\ n.r = s.r
    BY SMTT(30), <2>2 DEF Renamed
  <2>4. Complete(n)'
    BY SMTT(30), <2>1, <2>3 DEF Complete
  <2>5. /\ files \subseteq files' /\ worker[w].pc \notin {"write", "report"}
        /\ n.pc \notin {"open", "write", "report"}
    BY <1>1, <2>1, <2>3
  <2>6. QED
    BY Zenon, <2>1, <2>2, <2>4, <2>5, PlainInv
<1>3. CASE ReportPart(w)
  <2>1. /\ s.pc = "renamed" \/ (s.pc = "map" /\ s.r < NReduce /\ <<s.m, s.r>> \notin Emits)
        /\ reportDone(w, id(PseudoJob(s.m, s.r)), Mapping(s.m, s.r + 1))
    BY Zenon, <1>1, <1>3 DEF ReportPart
  <2>2. s.m \in MapTask /\ s.r \in ReduceTask
    <3>1. CASE s.pc = "renamed"
      BY Zenon, <3>1, WorkerFields
    <3>2. CASE s.pc = "map" /\ s.r < NReduce
      <4>1. s.m \in MapTask /\ s.r \in 0 .. NReduce
        BY Zenon, <3>2, WorkerFields
      <4>2. QED
        BY <3>2, <4>1, TaskAssumption DEF ReduceTask
    <3>3. QED
      BY <2>1, <3>1, <3>2
  <2>3. PICK a \in MapTask, b \in ReduceTask : a = s.m /\ b = s.r
    BY Zenon, <2>2
  <2>4. PICK i \in Id : i = id(PseudoJob(a, b)) /\ i.Jobtype = "pseudo"
    BY Zenon, IdTypes
  <2>5. PICK next : next = Mapping(s.m, s.r + 1) /\ next.pc = "map"
    <3>1. Mapping(s.m, s.r + 1).pc = "map"
      BY SMTT(30) DEF Mapping
    <3>2. QED
      BY Zenon, <3>1
  <2>6. lost = 0 => \A m \in MapTask, r \in ReduceTask :
                      i = id(PseudoJob(m, r)) /\ <<m, r>> \in Emits => <<m, r>> \in files
    <3> SUFFICES ASSUME lost = 0, NEW m \in MapTask, NEW r \in ReduceTask,
                        i = id(PseudoJob(m, r)), <<m, r>> \in Emits
                 PROVE  <<m, r>> \in files
      BY Zenon
    <3>1. m = a /\ r = b
      <4>1. id(PseudoJob(m, r)) = id(PseudoJob(a, b))
        BY Zenon, <2>4
      <4>2. QED
        BY <4>1, PseudoIds
    <3>2. Complete(s)
      BY Zenon, <1>0, <1>1 DEF FilesInv
    <3>3. QED
      BY Zenon, <2>1, <2>3, <3>1, <3>2 DEF Complete
  <2>7. \A r \in ReduceTask : i # id(ReduceJob(r))
    BY <2>4, IdTypes
  <2>8. reportDone(w, i, next) /\ worker[w].pc \in {"map", "renamed", "report"} /\ next.pc \in {"ask", "map"}
    BY Zenon, <1>1, <2>1, <2>3, <2>4, <2>5
  <2>9. QED
    BY Zenon, <2>6, <2>7, <2>8, ReportInv
<1>4. CASE ReportMap(w)
  <2>1. s.pc = "map" /\ reportDone(w, id(MapJob(s.m)), Asking)
    BY Zenon, <1>1, <1>4 DEF ReportMap
  <2>2. s.m \in MapTask
    BY Zenon, <2>1, WorkerFields
  <2>3. PICK i \in Id : i = id(MapJob(s.m)) /\ i.Jobtype = "map"
    BY Zenon, <2>2, IdTypes
  <2>4. (\A r \in ReduceTask : i # id(ReduceJob(r))) /\ \A m \in MapTask, r \in ReduceTask : i # id(PseudoJob(m, r))
    BY <2>3, IdTypes
  <2>5. Asking.pc \in {"ask", "map"} /\ worker[w].pc \in {"map", "renamed", "report"}
    BY <1>1, <2>1 DEF Asking
  <2>6. QED
    BY Zenon, <2>1, <2>3, <2>4, <2>5, ReportInv
<1>5. QED
  BY <1>2, <1>3, <1>4 DEF mapTask

LEMMA OpenInv ==
  ASSUME MRInv, TypeInv', NEW w \in Worker, NEW s \in WorkerState, s = worker[w], OpenFiles(w), s.pc = "open"
  PROVE  MRInv'
<1> DEFINE bad == {m \in s.maps : <<m, s.r>> \notin files}
           pc  == IF bad = {} THEN "create" ELSE "report failure"
<1>0. TypeInv /\ FilesInv
  BY DEF MRInv
<1>1. /\ worker' = [worker EXCEPT ![w] = Reducing(pc, s.r, s.maps \ bad, bad)]
      /\ UNCHANGED <<closed, Output, finishing, jobCh, waiting, watching, doneCh, lost, crashes, out, torn, files>>
  BY Zenon DEF OpenFiles, queueVars, coordinatorVars, fileVars
<1>2. bad = {} => s.maps \ bad = s.maps
  BY Zenon
<1>3. lost = 0 => s.maps = Whole(s.r) /\ bad = {}
  BY Zenon, <1>0 DEF FilesInv, Complete
<1> HIDE DEF bad
<1>5. PICK n : /\ n = Reducing(pc, s.r, s.maps \ bad, bad)
               /\ n.pc = pc /\ n.r = s.r /\ n.maps = s.maps \ bad /\ n.bad = bad
  <2> HIDE DEF pc
  <2>1. /\ Reducing(pc, s.r, s.maps \ bad, bad).pc = pc /\ Reducing(pc, s.r, s.maps \ bad, bad).r = s.r
        /\ Reducing(pc, s.r, s.maps \ bad, bad).maps = s.maps \ bad
        /\ Reducing(pc, s.r, s.maps \ bad, bad).bad = bad
    BY ONLY ReducingFields
  <2>2. QED
    BY Zenon, <2>1
<1>6. lost = 0 => Complete(n)'
  <2> SUFFICES ASSUME lost = 0 PROVE Complete(n)'
    OBVIOUS
  <2>1. n.pc = "create" /\ n.maps = Whole(n.r) /\ n.bad = {}
    BY Zenon, <1>2, <1>3, <1>5
  <2>2. QED
    BY <2>1 DEF Complete
<1>7. /\ n.pc \notin {"open", "write", "report"}
      /\ worker[w].pc \notin {"write", "report"} /\ files \subseteq files'
  BY Zenon, <1>1, <1>5
<1>8. QED
  BY Zenon, <1>1, <1>5, <1>6, <1>7, PlainInv

\* A failure is reported only after a file was lost.
LEMMA FailureInv ==
  ASSUME KeysDiffer, MRInv, TypeInv', NEW w \in Worker, NEW s \in WorkerState, s = worker[w],
         ReportMapFailure(w), s.pc = "report failure", s.r \in ReduceTask, s.bad \in SUBSET MapTask,
         worker' = [worker EXCEPT ![w] = Reducing("create", s.r, s.maps, s.bad)],
         SubmitJobs({Bare(MapJob(m)) : m \in s.bad} \cup {Bare(ReduceJob(s.r))})
  PROVE  MRInv'
<1> DEFINE n == Reducing("create", s.r, s.maps, s.bad)
<1>0. TypeInv /\ FilesInv /\ WholeInv
  BY Zenon DEF MRInv
<1>1. UNCHANGED <<closed, Output, finishing, jobCh, watching, doneCh, lost, crashes, out, torn, files>>
  BY Zenon DEF ReportMapFailure, coordinatorVars, fileVars
<1>2. lost # 0
  BY Zenon, <1>0 DEF FilesInv, Complete
<1>3. n.pc = "create"
  BY ONLY ReducingFields DEF n
<1> HIDE DEF n
<1>4. n.pc # "open"
  BY Zenon, <1>3
<1>5. QED
  BY Zenon, <1>1, <1>2, <1>4, LocalInv DEF n

LEMMA CreateInv ==
  ASSUME MRInv, TypeInv', NEW w \in Worker, NEW s \in WorkerState, s = worker[w],
         CreateOutput(w), s.pc = "create", s.r \in ReduceTask,
         worker' = [worker EXCEPT ![w] = Reducing("write", s.r, s.maps, s.bad)], out' = [out EXCEPT ![s.r] = {}]
  PROVE  MRInv'
<1> DEFINE n == Reducing("write", s.r, s.maps, s.bad)
<1>0. TypeInv /\ FilesInv /\ WholeInv /\ DOMAIN out = ReduceTask
  BY DEF MRInv, TypeInv, RestTypes
<1>1. UNCHANGED <<closed, Output, finishing, jobCh, waiting, watching, doneCh, lost, crashes, torn, files>>
  BY Zenon DEF CreateOutput, queueVars, coordinatorVars
<1>2. n.pc = "write" /\ n.r = s.r /\ n.maps = s.maps /\ n.bad = s.bad
  BY ONLY ReducingFields DEF n
<1> HIDE DEF n
<1>3. worker'[w] = n /\ \A v \in Worker : v # w => worker'[v] = worker[v]
  BY ZenonT(30), <1>0, WorkerFrame DEF n
<1>4. Reported' = Reported
  BY <1>1, <1>2, <1>3 DEF Reported
<1>5. Written \subseteq Written' /\ s.r \in Written'
  BY <1>2, <1>3 DEF Written
<1>6. \A r \in ReduceTask : r # s.r => out'[r] = out[r]
  BY <1>0
<1>7. lost = 0 => Complete(n)'
  BY Zenon, <1>0, <1>2 DEF FilesInv, Complete
<1>8. n.pc # "open"
  BY Zenon, <1>2
<1>9. lost = 0 => \A r \in Reported' : out'[r] = Whole(r) \/ r \in Written' \cup torn'
  BY Zenon, <1>0, <1>1, <1>4, <1>5, <1>6 DEF WholeInv, Reported
<1>10. QED
  BY Zenon, <1>1, <1>7, <1>8, <1>9, LocalInv DEF n

LEMMA WriteInv ==
  ASSUME MRInv, TypeInv', NEW w \in Worker, NEW s \in WorkerState, s = worker[w],
         WriteOutput(w), s.pc = "write", s.r \in ReduceTask,
         worker' = [worker EXCEPT ![w] = Reducing("report", s.r, s.maps, s.bad)],
         out' = [out EXCEPT ![s.r] = s.maps], torn' = torn \ {s.r}
  PROVE  MRInv'
<1> DEFINE n == Reducing("report", s.r, s.maps, s.bad)
<1>0. TypeInv /\ FilesInv /\ WholeInv /\ DOMAIN out = ReduceTask
  BY Zenon DEF MRInv, TypeInv, RestTypes
<1>1. UNCHANGED <<closed, Output, finishing, jobCh, waiting, watching, doneCh, lost, crashes, files>>
  BY Zenon DEF WriteOutput, queueVars, coordinatorVars
<1>2. n.pc = "report" /\ n.r = s.r /\ n.maps = s.maps /\ n.bad = s.bad
  BY ONLY ReducingFields DEF n
<1> HIDE DEF n
<1>3. worker'[w] = n /\ \A v \in Worker : v # w => worker'[v] = worker[v]
  BY Zenon, <1>0, WorkerFrame DEF n
<1>5. \A r \in ReduceTask : r # s.r => /\ out'[r] = out[r] /\ (r \in Written => r \in Written')
                                       /\ (r \in Reported' => r \in Reported)
  <2> SUFFICES ASSUME NEW r \in ReduceTask, r # s.r
               PROVE  /\ out'[r] = out[r] /\ (r \in Written => r \in Written')
                      /\ (r \in Reported' => r \in Reported)
    OBVIOUS
  <2>1. out'[r] = out[r]
    BY <1>0
  <2>2. \A v \in Worker : worker[v].pc = "write" /\ worker[v].r = r => v # w
    OBVIOUS
  <2>3. \A v \in Worker : worker'[v].pc = "report" /\ worker'[v].r = r => v # w
    BY <1>2, <1>3
  <2>4. r \in Written => r \in Written'
    BY Zenon, <1>3, <2>2 DEF Written
  <2>5. r \in Reported' => r \in Reported
    BY Zenon, <1>1, <1>3, <2>3 DEF Reported
  <2>6. QED
    BY Zenon, <2>1, <2>4, <2>5
<1>6. out'[s.r] = s.maps
  BY <1>0
<1>7. lost = 0 => Complete(n)' /\ s.maps = Whole(s.r)
  BY Zenon, <1>0, <1>2 DEF FilesInv, Complete
<1>8. n.pc # "open" /\ \A r \in torn : r # s.r => r \in torn'
  BY Zenon, <1>2
<1>9. lost = 0 => \A r \in Reported' : out'[r] = Whole(r) \/ r \in Written' \cup torn'
  BY Zenon, <1>0, <1>5, <1>6, <1>7, <1>8 DEF WholeInv, Reported
<1>10. QED
  BY Zenon, <1>1, <1>7, <1>8, <1>9, LocalInv DEF n

LEMMA GoneInv ==
  ASSUME MRInv, TypeInv', NEW w \in Worker, worker' = [worker EXCEPT ![w] = Gone],
         worker[w].pc \in {"ask", "report failure"},
         UNCHANGED <<closed, Output, finishing, jobCh, waiting, watching, doneCh, lost, crashes, out, torn, files>>
  PROVE  MRInv'
<1>1. Gone.pc = "gone"
  BY Zenon DEF Gone
<1>2. PICK n : n = Gone
  BY Zenon
<1>3. Complete(n)'
  BY Zenon, <1>1, <1>2 DEF Complete
<1>4. /\ files \subseteq files' /\ worker[w].pc \notin {"write", "report"}
      /\ n.pc \notin {"open", "write", "report"}
  BY Zenon, <1>1, <1>2
<1>5. QED
  BY Zenon, <1>2, <1>3, <1>4, PlainInv

LEMMA ReduceInv ==
  ASSUME KeysDiffer, MRInv, TypeInv', NEW w \in Worker, reduceTask(w)
  PROVE  MRInv'
<1>0. TypeInv /\ worker[w] \in WorkerState
  BY DEF MRInv, TypeInv, RestTypes
<1>1. PICK s \in WorkerState : s = worker[w]
  BY <1>0
<1>2. CASE s.pc = "report" /\ s.r \in ReduceTask /\ reportDone(w, id(ReduceJob(s.r)), Asking)
  <2>1. PICK x \in ReduceTask : x = s.r
    BY <1>2
  <2>2. PICK i \in Id : i = id(ReduceJob(x)) /\ i.Jobtype = "reduce"
    BY Zenon, IdTypes
  <2>3. \A m \in MapTask, r \in ReduceTask : i # id(PseudoJob(m, r))
    BY <2>2, IdTypes
  <2>4. \A r \in ReduceTask : i = id(ReduceJob(r)) => r = x
    <3> SUFFICES ASSUME NEW r \in ReduceTask, i = id(ReduceJob(r)) PROVE r = x
      OBVIOUS
    <3>1. id(ReduceJob(r)) = id(ReduceJob(x))
      BY Zenon, <2>2
    <3>2. QED
      BY <3>1, ReduceIds
  <2>5. Asking.pc \in {"ask", "map"} /\ worker[w].pc \in {"map", "renamed", "report"}
    BY <1>1, <1>2 DEF Asking
  <2>6. QED
    BY Zenon, <1>1, <1>2, <2>1, <2>2, <2>3, <2>4, <2>5, ReportInv
<1>3. CASE /\ ReportMapFailure(w) /\ s.pc = "report failure" /\ worker' = [worker EXCEPT ![w] = Gone] /\ UNCHANGED waiting
  <2>1. UNCHANGED <<closed, Output, finishing, jobCh, watching, doneCh, lost, crashes, out, torn, files>>
    BY Zenon, <1>3 DEF ReportMapFailure, coordinatorVars, fileVars
  <2>2. worker[w].pc \in {"ask", "report failure"}
    BY Zenon, <1>1, <1>3
  <2>3. QED
    BY Zenon, <1>3, <2>1, <2>2, GoneInv
<1>4. QED
  BY Zenon, <1>0, <1>1, <1>2, <1>3, ReduceSteps, OpenInv, FailureInv, CreateInv, WriteInv

LEMMA OtherInv ==
  ASSUME MRInv, TypeInv',
         \/ Exit
         \/ \E w \in Worker : LeaveLoop(w) \/ Crash(w)
         \/ \E f \in files : LoseFile(f)
         \/ UNCHANGED vars
  PROVE  MRInv'
<1>0. TypeInv /\ PartsNamed /\ SentReady /\ FilesInv /\ WholeInv /\ GivenInv
  BY DEF MRInv
<1>1. CASE Exit \/ UNCHANGED vars
  <2>1. UNCHANGED <<closed, Output, finishing, jobCh, waiting, watching, doneCh, lost, crashes, out, torn, files, worker>>
    BY Zenon, <1>1 DEF Exit, vars, queueVars, coordinatorVars, fileVars
  <2>2. \A j \in Job : Pending(j)' => Pending(j)
    BY Zenon, <2>1 DEF Pending
  <2>3. QED
    BY Zenon, <1>0, <2>1, <2>2, MoveInv DEF SentReady
<1>2. ASSUME NEW w \in Worker, LeaveLoop(w) PROVE MRInv'
  <2>1. /\ worker[w] = Asking /\ worker' = [worker EXCEPT ![w] = Gone]
        /\ UNCHANGED <<closed, Output, finishing, jobCh, waiting, watching, doneCh, lost, crashes, out, torn, files>>
    BY Zenon, <1>2 DEF LeaveLoop, queueVars, coordinatorVars, fileVars
  <2>2. worker[w].pc \in {"ask", "report failure"}
    BY <2>1 DEF Asking
  <2>3. QED
    BY Zenon, <2>1, <2>2, GoneInv
<1>3. ASSUME NEW w \in Worker, Crash(w) PROVE MRInv'
  <2>1. /\ worker' = [worker EXCEPT ![w] = Asking] \/ worker' = [worker EXCEPT ![w] = Gone]
        /\ torn \subseteq torn' /\ (worker[w].pc = "write" => worker[w].r \in torn')
        /\ UNCHANGED <<closed, Output, finishing, jobCh, waiting, watching, doneCh, lost, out, files>>
    BY Zenon, <1>3 DEF Crash, queueVars
  <2>2. Asking.pc = "ask" /\ Gone.pc = "gone"
    BY DEF Asking, Gone
  <2>3. PICK n : worker' = [worker EXCEPT ![w] = n] /\ n.pc \in {"ask", "gone"}
    BY Zenon, <2>1, <2>2
  <2>4. worker'[w] = n /\ \A v \in Worker : v # w => worker'[v] = worker[v]
    BY Zenon, <1>0, <2>3, WorkerFrame
  <2>5. PartsNamed' /\ SentReady'
    BY Zenon, <1>0, <2>1 DEF PartsNamed, SentReady
  <2>6. Reported' \subseteq Reported /\ Written \subseteq Written' \cup torn'
    <3>1. \A v \in Worker : worker'[v].pc = "report" => v # w
      BY Zenon, <2>3, <2>4
    <3>2. Reported' \subseteq Reported
      BY Zenon, <2>1, <2>4, <3>1 DEF Reported
    <3>3. Written \subseteq Written' \cup torn'
      BY Zenon, <2>1, <2>4 DEF Written
    <3>4. QED
      BY <3>2, <3>3
  <2>7. WholeInv'
    BY Zenon, <1>0, <2>1, <2>6 DEF WholeInv
  <2>8. Complete(worker[w])' /\ Given(worker[w])'
    BY Zenon, <2>3, <2>4 DEF Complete, Given
  <2>9. FilesInv'
    BY Zenon, <1>0, <2>1, <2>4, <2>8 DEF FilesInv, PartsOnDisk, Pending, Complete
  <2>10. GivenInv'
    BY Zenon, <1>0, <2>1, <2>4, <2>8 DEF GivenInv, Given
  <2>11. QED
    BY Zenon, <2>5, <2>7, <2>9, <2>10 DEF MRInv
<1>4. ASSUME NEW f \in files, LoseFile(f) PROVE MRInv'
  <2>1. /\ lost' = lost + 1
        /\ UNCHANGED <<closed, Output, finishing, jobCh, waiting, watching, doneCh, crashes, out, torn, worker>>
    BY Zenon, <1>4 DEF LoseFile, queueVars, coordinatorVars
  <2>2. lost' # 0
    BY <1>0, <2>1 DEF TypeInv, RestTypes
  <2>3. PartsNamed' /\ SentReady'
    BY Zenon, <1>0, <2>1 DEF PartsNamed, SentReady
  <2>4. FilesInv' /\ WholeInv'
    BY Zenon, <2>2 DEF FilesInv, WholeInv
  <2>5. lost' > 0
    BY <1>0, <2>1 DEF TypeInv, RestTypes
  <2>6. GivenInv'
    BY Zenon, <1>0, <2>1, <2>5 DEF GivenInv, Given
  <2>7. QED
    BY Zenon, <2>3, <2>4, <2>6 DEF MRInv
<1>5. QED
  BY Zenon, <1>1, <1>2, <1>3, <1>4

LEMMA NextInv ==
  ASSUME KeysDiffer, MRInv, [Next]_vars
  PROVE  MRInv'
<1>1. TypeInv'
  BY NextTypes DEF MRInv
<1>2. QED
  BY Zenon, <1>1, QueueStepInv, AnswerInv, FinishInv, MapInv, ReduceInv, OtherInv DEF Next, Progress

LEMMA InitInv == Init => MRInv
<1> SUFFICES ASSUME Init PROVE MRInv
  OBVIOUS
<1>1. /\ closed = {} /\ Output = {} /\ jobCh = <<>> /\ ~doneCh /\ worker = [w \in Worker |-> Asking]
      /\ watching = [j \in Job |-> 0] /\ finishing = [i \in Id |-> 0] /\ out = [r \in ReduceTask |-> Absent]
      /\ waiting = [j \in Job |-> IF j \in Initial THEN 1 ELSE 0]
  BY Zenon DEF Init, QueueInit
<1>2. Len(jobCh) = 0 /\ 1 .. Len(jobCh) = {} /\ Asking.pc = "ask"
  BY <1>1 DEF Asking
<1>3. \A w \in Worker : worker[w].pc = "ask"
  BY <1>1, <1>2
<1>4. \A j \in Job : Pending(j) => j \in Initial
  BY <1>1, <1>2 DEF Pending
<1>5. \A i \in Id : ~(finishing[i] > 0)
  BY <1>1
<1>6. PartsNamed /\ SentReady
  BY <1>1, <1>2 DEF PartsNamed, SentReady
<1>7. FilesInv
  <2>1. PartsOnDisk
    BY Zenon, <1>1, <1>5, IdTypes DEF PartsOnDisk
  <2>2. \A w \in Worker : Complete(worker[w])
    BY Zenon, <1>3 DEF Complete
  <2>3. QED
    BY Zenon, <1>4, <2>1, <2>2 DEF FilesInv
<1>8. WholeInv
  <2>1. ASSUME NEW r \in Reported PROVE FALSE
    <3>1. /\ r \in ReduceTask
          /\ \/ finishing[id(ReduceJob(r))] > 0 \/ ReduceJob(r) \in closed
             \/ \E w \in Worker : worker[w].pc = "report" /\ worker[w].r = r
      BY Zenon, <2>1 DEF Reported
    <3>2. id(ReduceJob(r)) \in Id
      BY Zenon, <3>1, IdTypes
    <3>3. QED
      BY <1>1, <1>3, <1>5, <3>1, <3>2
  <2>2. QED
    BY Zenon, <2>1 DEF WholeInv
<1>9. GivenInv
  BY Zenon, <1>3 DEF GivenInv, Given
<1>10. QED
  BY Zenon, <1>6, <1>7, <1>8, <1>9, InitTypes DEF MRInv

-----------------------------------------------------------------------------
(* The results *)

\* The invariant holds in every reachable state when no two jobs have one key.
THEOREM MRCorrect ==
  ASSUME KeysDiffer
  PROVE  Spec => []MRInv
<1>1. MRInv /\ [Next]_vars => MRInv'
  BY NextInv
<1>2. QED
  BY <1>1, InitInv, PTL DEF Spec

\* A reduce that GetTask hands out comes with the files of exactly the maps that made one
\* for it, whatever attempts of the maps were timed out, repeated or reported late; only one
\* that ReportMapFailure queued after a file was lost comes without any.
THEOREM ReducesGetTheirInputs ==
  ASSUME KeysDiffer
  PROVE  Spec => []ReduceHasInputs
<1>1. MRInv => ReduceHasInputs
  BY Zenon DEF MRInv, GivenInv, Given, ReduceHasInputs
<1>2. QED
  BY <1>1, MRCorrect, PTL

\* While no file is lost no reduce reports a missing one with ReportMapFailure: mapTask renames
\* a part before it reports it, and GetTask gives its name out only after that.
THEOREM NoFalseFailures ==
  ASSUME KeysDiffer
  PROVE  Spec => []NoFailureReported
<1>1. MRInv => NoFailureReported
  BY Zenon DEF MRInv, FilesInv, Complete, NoFailureReported
<1>2. QED
  BY <1>1, MRCorrect, PTL

-----------------------------------------------------------------------------
(* Each reduce runs once *)

\* The job of reduce r is in one place: about to be sent, in the channel or watched.
Place(r) ==
  LET j == ReduceJob(r) IN
  /\ waiting[j] > 0 => waiting[j] = 1 /\ watching[j] = 0
  /\ \A k \in 1 .. Len(jobCh) : jobCh[k] = j => waiting[j] = 0 /\ watching[j] = 0
  /\ \A k, l \in 1 .. Len(jobCh) : jobCh[k] = j /\ jobCh[l] = j => k = l

\* A worker runs reduce r; its report is on the way or was accepted.
Runs(s, r) == s.pc \in {"open", "report failure", "create", "write", "report"} /\ s.r = r
Over(r)    == finishing[id(ReduceJob(r))] > 0 \/ ReduceJob(r) \in closed

\* Once it was taken, at most one worker runs it, and it is over or its worker died only when
\* none does.
Course(r) ==
  /\ (\E w \in Worker : Runs(worker[w], r)) \/ Over(r) \/ r \in torn => watching[ReduceJob(r)] > 0
  /\ \A v, w \in Worker : Runs(worker[v], r) /\ Runs(worker[w], r) => v = w
  /\ \A w \in Worker : Runs(worker[w], r) => ~Over(r) /\ r \notin torn
  /\ ~(Over(r) /\ r \in torn)

OnceInv == lost = 0 /\ retries = 0 => \A r \in ReduceTask : Place(r) /\ Course(r)

\* A job of the run that makes a worker run reduce r is that of reduce r.
LEMMA TaskRuns ==
  ASSUME KeysDiffer, NEW j \in Job, j \in Initial, NEW r \in ReduceTask, Runs(TaskOf(j), r)
  PROVE  j = ReduceJob(r)
<1>1. j.Jobtype = "reduce"
  <2>1. Asking.pc = "ask"
    BY DEF Asking
  <2>2. QED
    BY Zenon, <2>1, TaskType DEF Runs
<1>2. PICK x \in ReduceTask : Itoa[x] = j.Key /\ \E ms : TaskOf(j) = Opening(x, ms)
  BY Zenon, <1>1, TaskType
<1>3. x = r
  BY <1>2 DEF Runs, Opening
<1>4. PICK y \in ReduceTask : j = ReduceJob(y)
  BY Zenon, <1>1, JobKinds, BareNotInitial
<1>5. Itoa[y] = Itoa[x]
  BY Zenon, <1>2, <1>4, JobFields
<1>6. QED
  BY <1>3, <1>4, <1>5, ReduceIds

LEMMA SendPlace ==
  ASSUME TypeInv, NEW j \in Job, Send(j), NEW r \in ReduceTask, Place(r)
  PROVE  Place(r)'
<1>1. PICK a \in Job : a = ReduceJob(r)
  BY Zenon, JobFields
<1>2. /\ jobCh \in Seq(Job) /\ waiting \in [Job -> Nat] /\ watching \in [Job -> Nat]
      /\ waiting[j] > 0 /\ waiting' = [waiting EXCEPT ![j] = waiting[j] - 1]
      /\ jobCh' = Append(jobCh, j) /\ UNCHANGED watching
  BY Zenon DEF TypeInv, QueueTypes, RestTypes, Send, SendJob, coordinatorVars
<1>3. \A k \in 1 .. Len(jobCh') : \/ k \in 1 .. Len(jobCh) /\ jobCh'[k] = jobCh[k]
                                  \/ k = Len(jobCh) + 1 /\ jobCh'[k] = j
  <2>1. /\ Len(jobCh) \in Nat /\ Len(jobCh') = Len(jobCh) + 1 /\ jobCh'[Len(jobCh) + 1] = j
        /\ \A k \in 1 .. Len(jobCh) : jobCh'[k] = jobCh[k]
    BY <1>2, AppendProperties
  <2>2. QED
    BY <2>1
<1>4. CASE j = a
  <2>1. waiting[a] = 1 /\ watching[a] = 0 /\ \A k \in 1 .. Len(jobCh) : jobCh[k] # a
    BY <1>1, <1>2, <1>4 DEF Place
  <2>2. waiting'[a] = 0 /\ watching'[a] = 0
    BY <1>2, <1>4, <2>1
  <2>3. \A k, l \in 1 .. Len(jobCh') : jobCh'[k] = a /\ jobCh'[l] = a => k = l
    BY Zenon, <1>3, <2>1
  <2>4. ~(waiting'[a] > 0)
    BY <2>2
  <2>5. QED
    BY Zenon, <1>1, <2>2, <2>3, <2>4 DEF Place
<1>5. CASE j # a
  <2>1. waiting'[a] = waiting[a] /\ watching'[a] = watching[a]
    BY <1>2, <1>5
  <2>2. \A k \in 1 .. Len(jobCh') : jobCh'[k] = a => k \in 1 .. Len(jobCh) /\ jobCh[k] = a
    BY Zenon, <1>3, <1>5
  <2>3. QED
    BY Zenon, <1>1, <2>1, <2>2 DEF Place
<1>6. QED
  BY <1>4, <1>5

LEMMA AnswerPlace ==
  ASSUME TypeInv, NEW j \in Job, Answer(j), NEW r \in ReduceTask, Place(r)
  PROVE  Place(r)'
<1>1. PICK a \in Job : a = ReduceJob(r)
  BY Zenon, JobFields
<1>2. Take(j)
  BY Zenon DEF Answer, SkipPseudo, GetTaskOfOrphan, GetTask, Watch
<1>3. /\ jobCh \in Seq(Job) /\ waiting \in [Job -> Nat] /\ watching \in [Job -> Nat]
      /\ jobCh # <<>> /\ j = Head(jobCh) /\ jobCh' = Tail(jobCh) /\ UNCHANGED waiting
      /\ watching' = watching \/ watching' = [watching EXCEPT ![j] = watching[j] + 1]
  BY Zenon, <1>2 DEF TypeInv, QueueTypes, RestTypes, Take, Answer, SkipPseudo, GetTaskOfOrphan, GetTask, Watch
<1>4. /\ j = jobCh[1] /\ 1 \in 1 .. Len(jobCh)
      /\ \A k \in 1 .. Len(jobCh') : k + 1 \in 1 .. Len(jobCh) /\ jobCh'[k] = jobCh[k + 1]
  BY <1>3, HeadProperties
<1>5. \A k, l \in 1 .. Len(jobCh) : jobCh[k] = a /\ jobCh[l] = a => k = l
  BY Zenon, <1>1 DEF Place
<1>6. CASE j = a
  <2>1. waiting[a] = 0
    BY Zenon, <1>1, <1>4, <1>6 DEF Place
  <2>2. ~(waiting'[a] > 0)
    BY <1>3, <2>1
  <2>3. \A k \in 1 .. Len(jobCh') : jobCh'[k] # a
    <3> SUFFICES ASSUME NEW k \in 1 .. Len(jobCh'), jobCh'[k] = a PROVE FALSE
      BY Zenon
    <3>1. k + 1 = 1
      BY Zenon, <1>4, <1>5, <1>6
    <3>2. QED
      BY <3>1
  <2>4. QED
    BY Zenon, <1>1, <2>2, <2>3 DEF Place
<1>7. CASE j # a
  <2>1. waiting'[a] = waiting[a] /\ watching'[a] = watching[a]
    BY <1>3, <1>7
  <2>2. \A k, l \in 1 .. Len(jobCh') : jobCh'[k] = a /\ jobCh'[l] = a => k = l
    <3> SUFFICES ASSUME NEW k \in 1 .. Len(jobCh'), NEW l \in 1 .. Len(jobCh'), jobCh'[k] = a, jobCh'[l] = a
                 PROVE  k = l
      BY Zenon
    <3>1. k + 1 = l + 1
      BY Zenon, <1>4, <1>5
    <3>2. QED
      BY <3>1
  <2>3. \A k \in 1 .. Len(jobCh') : jobCh'[k] = a => waiting[a] = 0 /\ watching[a] = 0
    BY Zenon, <1>1, <1>4 DEF Place
  <2>4. QED
    BY Zenon, <1>1, <2>1, <2>2, <2>3 DEF Place
<1>8. QED
  BY <1>6, <1>7

LEMMA AnswerCourse ==
  ASSUME KeysDiffer, MRInv, lost = 0, NEW j \in Job, Answer(j), NEW r \in ReduceTask, Place(r), Course(r)
  PROVE  Course(r)'
<1>0. TypeInv /\ FilesInv
  BY DEF MRInv
<1>1. PICK a \in Job : a = ReduceJob(r)
  BY Zenon, JobFields
<1>2. Take(j)
  BY Zenon DEF Answer, SkipPseudo, GetTaskOfOrphan, GetTask, Watch
<1>3. /\ jobCh \in Seq(Job) /\ watching \in [Job -> Nat]
      /\ jobCh # <<>> /\ j = Head(jobCh) /\ UNCHANGED <<closed, finishing, torn>>
      /\ watching' = watching \/ watching' = [watching EXCEPT ![j] = watching[j] + 1]
  BY Zenon, <1>0, <1>2 DEF TypeInv, QueueTypes, RestTypes, Take, fileVars,
                           Answer, SkipPseudo, GetTaskOfOrphan, GetTask, Watch
<1>4. j = jobCh[1] /\ 1 \in 1 .. Len(jobCh)
  BY <1>3, HeadProperties
<1>5. watching[a] > 0 => watching'[a] > 0
  BY <1>3
<1>6. Over(r)' <=> Over(r)
  BY Zenon, <1>3 DEF Over
<1>7. CASE worker' = worker
  <2>1. \A v \in Worker : Runs(worker[v], r)' <=> Runs(worker[v], r)
    BY Zenon, <1>7 DEF Runs
  <2>2. QED
    BY Zenon, <1>1, <1>3, <1>5, <1>6, <2>1 DEF Course
<1>8. ASSUME NEW w \in Worker, GetTask(w, j) PROVE Course(r)'
  <2>1. /\ worker[w] = Asking /\ worker' = [worker EXCEPT ![w] = TaskOf(j)]
        /\ watching' = [watching EXCEPT ![j] = watching[j] + 1]
    BY Zenon, <1>8 DEF GetTask, Watch
  <2>2. worker'[w] = TaskOf(j) /\ \A v \in Worker : v # w => worker'[v] = worker[v]
    BY Zenon, <1>0, <2>1, WorkerFrame
  <2>3. ~Runs(worker[w], r)
    BY <2>1 DEF Runs, Asking
  <2>4. \A v \in Worker : v # w => (Runs(worker[v], r)' <=> Runs(worker[v], r))
    BY Zenon, <2>2 DEF Runs
  <2>5. CASE ~Runs(TaskOf(j), r)
    <3>1. \A v \in Worker : Runs(worker[v], r)' <=> Runs(worker[v], r)
      BY Zenon, <2>2, <2>3, <2>4, <2>5 DEF Runs
    <3>2. QED
      BY Zenon, <1>1, <1>3, <1>5, <1>6, <3>1 DEF Course
  <2>6. CASE Runs(TaskOf(j), r)
    <3>1. j = a
      BY Zenon, <1>0, <1>1, <1>4, <2>6, TaskRuns DEF FilesInv, Pending
    <3>2. ~(watching[a] > 0)
      <4>1. watching[a] = 0
        BY Zenon, <1>1, <1>4, <3>1 DEF Place
      <4>2. QED
        BY <4>1
    <3>3. ~Over(r) /\ r \notin torn /\ \A v \in Worker : ~Runs(worker[v], r)
      BY Zenon, <1>1, <3>2 DEF Course
    <3>4. watching'[a] > 0
      BY <1>3, <2>1, <3>1
    <3>5. QED
      BY Zenon, <1>1, <1>3, <1>6, <2>4, <3>3, <3>4 DEF Course
  <2>7. QED
    BY <2>5, <2>6
<1>9. QED
  BY Zenon, <1>7, <1>8 DEF Answer, SkipPseudo, GetTaskOfOrphan

LEMMA FinishCourse ==
  ASSUME TypeInv, NEW i \in Id, onTaskFinish(i), NEW r \in ReduceTask, Course(r)
  PROVE  Course(r)'
<1>1. /\ finishing[i] > 0 /\ finishing' = [finishing EXCEPT ![i] = finishing[i] - 1]
      /\ closed' = closed \/ (jobs[i] # NoJob /\ closed' = closed \cup {jobs[i]})
      /\ UNCHANGED <<watching, worker, torn>> /\ finishing \in [Id -> Nat]
  BY Zenon DEF onTaskFinish, Finish, fileVars, TypeInv, RestTypes
<1>2. \A x \in Id : finishing'[x] > 0 => finishing[x] > 0
  BY <1>1
<1>3. jobs[i] # NoJob => id(jobs[i]) = i
  BY Zenon, FinishedJob
<1>4. Over(r)' => Over(r)
  BY Zenon, <1>1, <1>2, <1>3, IdTypes DEF Over
<1>5. \A v \in Worker : Runs(worker[v], r)' <=> Runs(worker[v], r)
  BY Zenon, <1>1 DEF Runs
<1>6. QED
  BY Zenon, <1>1, <1>4, <1>5 DEF Course

\* What worker w may do about reduce r: only one that runs r reports it or dies, not both, and
\* it does not run r any more.
Leaves(n, w, r) ==
  /\ Runs(n, r) => Runs(worker[w], r)
  /\ \/ (Over(r)' => Over(r)) /\ (r \in torn' => r \in torn)
     \/ Runs(worker[w], r) /\ ~Runs(n, r)
  /\ (Over(r)' => Over(r)) \/ (r \in torn' => r \in torn)

LEMMA WorkerCourse ==
  ASSUME TypeInv, NEW w \in Worker, NEW n, worker' = [worker EXCEPT ![w] = n], UNCHANGED watching,
         NEW r \in ReduceTask, Course(r), Leaves(n, w, r)
  PROVE  Course(r)'
<1>1. worker'[w] = n /\ \A v \in Worker : v # w => worker'[v] = worker[v]
  BY Zenon, WorkerFrame
<1>2. \A v \in Worker : v # w => (Runs(worker[v], r)' <=> Runs(worker[v], r))
  BY Zenon, <1>1 DEF Runs
<1>3. Runs(worker[w], r)' <=> Runs(n, r)
  BY Zenon, <1>1 DEF Runs
<1>4. QED
  BY Zenon, <1>2, <1>3 DEF Course, Leaves

\* A report of another task, or of the reduce that the worker ran.
LEMMA ReportCourse ==
  ASSUME TypeInv, NEW w \in Worker, NEW i \in Id, NEW next, reportDone(w, i, next), next.pc \in {"ask", "map"},
         NEW r \in ReduceTask, Course(r), i = id(ReduceJob(r)) => Runs(worker[w], r)
  PROVE  Course(r)'
<1>1. /\ worker' = [worker EXCEPT ![w] = next] \/ worker' = [worker EXCEPT ![w] = Gone]
      /\ finishing' = finishing \/ finishing' = [finishing EXCEPT ![i] = finishing[i] + 1]
      /\ UNCHANGED <<watching, closed, torn>> /\ finishing \in [Id -> Nat]
  BY Zenon DEF reportDone, queueVars, fileVars, TypeInv, RestTypes
<1>2. Gone.pc = "gone"
  BY DEF Gone
<1>3. PICK n : worker' = [worker EXCEPT ![w] = n] /\ n.pc \in {"ask", "map", "gone"}
  BY Zenon, <1>1, <1>2
<1>4. \A x \in Id : finishing'[x] > 0 => finishing[x] > 0 \/ x = i
  BY <1>1
<1>5. Over(r)' => Over(r) \/ i = id(ReduceJob(r))
  BY Zenon, <1>1, <1>4, IdTypes DEF Over
<1>6. ~Runs(n, r)
  BY Zenon, <1>3 DEF Runs
<1>7. Leaves(n, w, r)
  BY Zenon, <1>1, <1>5, <1>6 DEF Leaves
<1>8. QED
  BY Zenon, <1>1, <1>3, <1>7, WorkerCourse

LEMMA MapCourse ==
  ASSUME TypeInv, NEW w \in Worker, mapTask(w), NEW r \in ReduceTask, Course(r)
  PROVE  Course(r)'
<1>0. worker[w] \in WorkerState
  BY DEF TypeInv, RestTypes
<1>1. PICK s \in WorkerState : s = worker[w]
  BY <1>0
<1>2. CASE RenamePart(w)
  <2>1. /\ worker' = [worker EXCEPT ![w] = Renamed(s.m, s.r)]
        /\ UNCHANGED <<closed, finishing, watching, torn>>
    BY Zenon, <1>1, <1>2 DEF RenamePart, queueVars, coordinatorVars
  <2>2. PICK n : n = Renamed(s.m, s.r)
    BY Zenon
  <2>3. n.pc = "renamed"
    BY SMTT(30), <2>2 DEF Renamed
  <2>4. Leaves(n, w, r)
    BY Zenon, <2>1, <2>3 DEF Leaves, Runs, Over
  <2>5. QED
    BY Zenon, <2>1, <2>2, <2>4, WorkerCourse
<1>3. CASE ReportPart(w)
  <2>1. /\ s.pc = "renamed" \/ (s.pc = "map" /\ s.r < NReduce)
        /\ reportDone(w, id(PseudoJob(s.m, s.r)), Mapping(s.m, s.r + 1))
    BY Zenon, <1>1, <1>3 DEF ReportPart
  <2>2. s.m \in MapTask /\ s.r \in ReduceTask
    <3>1. CASE s.pc = "renamed"
      BY Zenon, <3>1, WorkerFields
    <3>2. CASE s.pc = "map" /\ s.r < NReduce
      <4>1. s.m \in MapTask /\ s.r \in 0 .. NReduce
        BY Zenon, <3>2, WorkerFields
      <4>2. QED
        BY <3>2, <4>1, TaskAssumption DEF ReduceTask
    <3>3. QED
      BY <2>1, <3>1, <3>2
  <2>3. PICK i \in Id : i = id(PseudoJob(s.m, s.r)) /\ i.Jobtype = "pseudo"
    BY Zenon, <2>2, IdTypes
  <2>4. PICK next : next = Mapping(s.m, s.r + 1) /\ next.pc = "map"
    <3>1. Mapping(s.m, s.r + 1).pc = "map"
      BY SMTT(30) DEF Mapping
    <3>2. QED
      BY Zenon, <3>1
  <2>5. i # id(ReduceJob(r))
    BY <2>3, IdTypes
  <2>6. QED
    BY Zenon, <2>1, <2>3, <2>4, <2>5, ReportCourse
<1>4. CASE ReportMap(w)
  <2>1. s.pc = "map" /\ reportDone(w, id(MapJob(s.m)), Asking)
    BY Zenon, <1>1, <1>4 DEF ReportMap
  <2>2. s.m \in MapTask
    BY Zenon, <2>1, WorkerFields
  <2>3. PICK i \in Id : i = id(MapJob(s.m)) /\ i.Jobtype = "map"
    BY Zenon, <2>2, IdTypes
  <2>4. i # id(ReduceJob(r))
    BY <2>3, IdTypes
  <2>5. Asking.pc = "ask"
    BY DEF Asking
  <2>6. QED
    BY Zenon, <2>1, <2>3, <2>4, <2>5, ReportCourse
<1>5. QED
  BY <1>2, <1>3, <1>4 DEF mapTask

LEMMA ReduceCourse ==
  ASSUME KeysDiffer, TypeInv, NEW w \in Worker, reduceTask(w), NEW r \in ReduceTask, Course(r)
  PROVE  Course(r)'
<1>0. worker[w] \in WorkerState
  BY DEF TypeInv, RestTypes
<1>1. PICK s \in WorkerState : s = worker[w]
  BY <1>0
<1>2. ASSUME NEW pc, NEW x, NEW ms, NEW bad, worker' = [worker EXCEPT ![w] = Reducing(pc, x, ms, bad)],
             s.pc \in {"open", "report failure", "create", "write", "report"}, x = s.r,
             UNCHANGED <<closed, finishing, watching>>, torn' \subseteq torn
      PROVE  Course(r)'
  <2>1. PICK n : n = Reducing(pc, x, ms, bad) /\ n.r = x
    BY ONLY ReducingFields
  <2>2. Leaves(n, w, r)
    BY Zenon, <1>1, <1>2, <2>1 DEF Leaves, Runs, Over
  <2>3. QED
    BY Zenon, <1>2, <2>1, <2>2, WorkerCourse
<1>3. CASE s.pc = "report" /\ s.r \in ReduceTask /\ reportDone(w, id(ReduceJob(s.r)), Asking)
  <2>1. PICK x \in ReduceTask : x = s.r
    BY <1>3
  <2>2. PICK i \in Id : i = id(ReduceJob(x))
    BY Zenon, IdTypes
  <2>3. i = id(ReduceJob(r)) => Runs(worker[w], r)
    <3> SUFFICES ASSUME i = id(ReduceJob(r)) PROVE Runs(worker[w], r)
      OBVIOUS
    <3>1. id(ReduceJob(r)) = id(ReduceJob(x))
      BY Zenon, <2>2
    <3>2. r = x
      BY <3>1, ReduceIds
    <3>3. QED
      BY Zenon, <1>1, <1>3, <2>1, <3>2 DEF Runs
  <2>4. Asking.pc = "ask"
    BY DEF Asking
  <2>5. QED
    BY Zenon, <1>3, <2>1, <2>2, <2>3, <2>4, ReportCourse
<1>4. CASE worker' = [worker EXCEPT ![w] = Gone] /\ UNCHANGED <<closed, finishing, watching, torn>>
  <2>1. PICK n : n = Gone /\ n.pc = "gone"
    <3>1. Gone.pc = "gone"
      BY DEF Gone
    <3>2. QED
      BY Zenon, <3>1
  <2>2. Leaves(n, w, r)
    BY Zenon, <1>4, <2>1 DEF Leaves, Runs, Over
  <2>3. QED
    BY Zenon, <1>4, <2>1, <2>2, WorkerCourse
<1>5. /\ OpenFiles(w) \/ ReportMapFailure(w) \/ CreateOutput(w) => UNCHANGED <<closed, finishing, watching, torn>>
      /\ WriteOutput(w) => UNCHANGED <<closed, finishing, watching>>
  BY Zenon DEF OpenFiles, ReportMapFailure, CreateOutput, WriteOutput, queueVars, coordinatorVars, fileVars
<1>6. CASE OpenFiles(w)
  <2>1. s.pc = "open" /\ worker' = [worker EXCEPT ![w] =
          LET bad == {m \in s.maps : <<m, s.r>> \notin files}
          IN  Reducing(IF bad = {} THEN "create" ELSE "report failure", s.r, s.maps \ bad, bad)]
    BY Zenon, <1>1, <1>6 DEF OpenFiles
  <2>2. QED
    BY Zenon, <1>2, <1>5, <1>6, <2>1
<1>7. ASSUME s.pc \in {"report failure", "create", "write"}, ReportMapFailure(w) \/ CreateOutput(w) \/ WriteOutput(w),
             NEW pc, worker' = [worker EXCEPT ![w] = Reducing(pc, s.r, s.maps, s.bad)]
      PROVE  Course(r)'
  <2>1. torn' \subseteq torn /\ UNCHANGED <<closed, finishing, watching>>
    BY Zenon, <1>5, <1>7 DEF WriteOutput
  <2>2. QED
    BY Zenon, <1>2, <1>7, <2>1
<1>8. \/ OpenFiles(w)
      \/ /\ s.pc \in {"report failure", "create", "write"}
         /\ ReportMapFailure(w) \/ CreateOutput(w) \/ WriteOutput(w)
         /\ \E pc : worker' = [worker EXCEPT ![w] = Reducing(pc, s.r, s.maps, s.bad)]
      \/ worker' = [worker EXCEPT ![w] = Gone] /\ ReportMapFailure(w)
      \/ s.pc = "report" /\ s.r \in ReduceTask /\ reportDone(w, id(ReduceJob(s.r)), Asking)
  BY Zenon, <1>1, ReduceSteps
<1>9. QED
  BY Zenon, <1>3, <1>4, <1>5, <1>6, <1>7, <1>8

LEMMA OtherCourse ==
  ASSUME TypeInv, NEW w \in Worker, LeaveLoop(w) \/ Crash(w), NEW r \in ReduceTask, Course(r)
  PROVE  Course(r)'
<1>1. /\ worker' = [worker EXCEPT ![w] = Asking] \/ worker' = [worker EXCEPT ![w] = Gone]
      /\ torn' = torn \/ (worker[w].pc = "write" /\ torn' = torn \cup {worker[w].r})
      /\ UNCHANGED <<closed, finishing, watching>>
  BY Zenon DEF LeaveLoop, Crash, queueVars, coordinatorVars, fileVars
<1>2. Asking.pc = "ask" /\ Gone.pc = "gone"
  BY DEF Asking, Gone
<1>3. PICK n : worker' = [worker EXCEPT ![w] = n] /\ n.pc \in {"ask", "gone"}
  BY Zenon, <1>1, <1>2
<1>4. ~Runs(n, r) /\ (r \in torn' => r \in torn \/ Runs(worker[w], r)) /\ (Over(r)' => Over(r))
  BY Zenon, <1>1, <1>3 DEF Runs, Over
<1>5. Leaves(n, w, r)
  BY Zenon, <1>4 DEF Leaves
<1>6. QED
  BY Zenon, <1>1, <1>3, <1>5, WorkerCourse

LEMMA NextOnce ==
  ASSUME KeysDiffer, MRInv, OnceInv, [Next]_vars
  PROVE  OnceInv'
<1> SUFFICES ASSUME lost' = 0, retries' = 0, NEW r \in ReduceTask
             PROVE  Place(r)' /\ Course(r)'
  BY Zenon DEF OnceInv
<1>0. TypeInv /\ FilesInv /\ retries \in Nat /\ lost \in Nat
  BY BoundsAssumption DEF MRInv, TypeInv, RestTypes
<1>1. ASSUME NEW j \in Job, watchJob(j) PROVE FALSE
  BY <1>0, <1>1 DEF watchJob
<1>2. ASSUME NEW f \in files, LoseFile(f) PROVE FALSE
  BY <1>0, <1>2 DEF LoseFile
<1>3. lost = 0 /\ retries = 0
  BY Zenon, <1>1, <1>2 DEF Next, Progress, Send, Store, Answer, SkipPseudo, GetTaskOfOrphan, GetTask, Watch, Take,
       onTaskFinish, Exit, mapTask, RenamePart, ReportPart, ReportMap, reportDone, reduceTask, OpenFiles,
       ReportMapFailure, CreateOutput, WriteOutput, ReportReduce, LeaveLoop, Crash, fileVars, vars
<1>4. Place(r) /\ Course(r)
  BY Zenon, <1>3 DEF OnceInv
<1>5. CASE UNCHANGED <<waiting, jobCh, watching, worker, closed, finishing, torn>>
  BY Zenon, <1>4, <1>5 DEF Place, Course, Runs, Over
<1>6. ASSUME UNCHANGED <<waiting, jobCh, watching>> PROVE Place(r)'
  BY Zenon, <1>4, <1>6 DEF Place
<1>7. ASSUME NEW j \in Job, Send(j) PROVE Place(r)' /\ Course(r)'
  <2>1. UNCHANGED <<watching, worker, closed, finishing, torn>>
    BY Zenon, <1>7 DEF Send, SendJob, coordinatorVars, fileVars
  <2>2. Course(r)'
    BY Zenon, <1>4, <2>1 DEF Course, Runs, Over
  <2>3. QED
    BY Zenon, <1>0, <1>4, <1>7, <2>2, SendPlace
<1>8. ASSUME NEW j \in Job, Answer(j) PROVE Place(r)' /\ Course(r)'
  BY Zenon, <1>0, <1>3, <1>4, <1>8, AnswerPlace, AnswerCourse
<1>9. ASSUME NEW i \in Id, onTaskFinish(i) PROVE Place(r)' /\ Course(r)'
  <2>1. UNCHANGED <<waiting, jobCh, watching>>
    BY Zenon, <1>9 DEF onTaskFinish, Finish
  <2>2. QED
    BY Zenon, <1>0, <1>4, <1>6, <1>9, <2>1, FinishCourse
<1>10. ASSUME NEW w \in Worker, mapTask(w) \/ reduceTask(w) \/ LeaveLoop(w) \/ Crash(w)
       PROVE  Place(r)' /\ Course(r)'
  <2>1. ~ReportMapFailure(w)
    BY Zenon, <1>0, <1>3 DEF FilesInv, Complete, ReportMapFailure
  <2>2. UNCHANGED <<waiting, jobCh, watching>>
    BY Zenon, <1>10, <2>1 DEF mapTask, RenamePart, ReportPart, ReportMap, reportDone, reduceTask, OpenFiles,
         CreateOutput, WriteOutput, ReportReduce, LeaveLoop, Crash, queueVars, coordinatorVars
  <2>3. QED
    BY Zenon, <1>0, <1>4, <1>6, <1>10, <2>2, MapCourse, ReduceCourse, OtherCourse
<1>11. CASE Exit \/ (\E j \in Job : Store(j)) \/ UNCHANGED vars
  BY Zenon, <1>5, <1>11 DEF Exit, Store, StoreJob, vars, queueVars, coordinatorVars, fileVars
<1>12. QED
  BY Zenon, <1>1, <1>2, <1>7, <1>8, <1>9, <1>10, <1>11 DEF Next, Progress

LEMMA InitOnce == Init => OnceInv
<1> SUFFICES ASSUME Init, NEW r \in ReduceTask PROVE Place(r) /\ Course(r)
  BY Zenon DEF OnceInv
<1>1. /\ closed = {} /\ worker = [w \in Worker |-> Asking] /\ watching = [j \in Job |-> 0] /\ jobCh = <<>>
      /\ finishing = [i \in Id |-> 0] /\ torn = {}
      /\ waiting = [j \in Job |-> IF j \in Initial THEN 1 ELSE 0]
  BY Zenon DEF Init, QueueInit
<1>2. PICK a \in Job : a = ReduceJob(r) /\ a \in Initial
  BY Zenon, JobFields
<1>3. waiting[a] = 1 /\ watching[a] = 0 /\ 1 .. Len(jobCh) = {}
  BY <1>1, <1>2
<1>4. \A i \in Id : ~(finishing[i] > 0)
  BY <1>1
<1>5. \A w \in Worker : worker[w].pc = "ask"
  BY <1>1 DEF Asking
<1>6. Place(r)
  BY Zenon, <1>2, <1>3 DEF Place
<1>7. Course(r)
  BY Zenon, <1>1, <1>4, <1>5, IdTypes DEF Course, Runs, Over
<1>8. QED
  BY <1>6, <1>7

\* When the last job was taken and no file was lost, every output is whole, whatever workers
\* died: a worker that ran the reduce reported it after it had written the output.  Only a second
\* attempt, after a timeout of watchJob, can have truncated it since.
THEOREM OutputsAreWhole ==
  ASSUME KeysDiffer
  PROVE  Spec => []OutputReady
<1>1. MRInv /\ OnceInv => OutputReady
  <2> SUFFICES ASSUME MRInv, OnceInv, doneCh, lost = 0, NEW r \in ReduceTask, out[r] # Whole(r)
               PROVE  /\ retries > 0
                      /\ r \in torn \/ \E w \in Worker : worker[w].pc = "write" /\ worker[w].r = r
    BY Zenon DEF OutputReady
  <2>1. ReduceJob(r) \in closed
    BY Zenon DEF MRInv, SentReady, ReduceJobs
  <2>2. r \in Reported
    BY Zenon, <2>1 DEF Reported
  <2>3. r \in torn \/ \E w \in Worker : worker[w].pc = "write" /\ worker[w].r = r
    BY Zenon, <2>2 DEF MRInv, WholeInv, Written
  <2>4. retries # 0
    BY Zenon, <2>1, <2>3 DEF OnceInv, Course, Runs, Over
  <2>5. retries > 0
    BY <2>4, BoundsAssumption DEF MRInv, TypeInv, RestTypes
  <2>6. QED
    BY <2>3, <2>5
<1>2. Spec => []OnceInv
  <2>1. MRInv /\ OnceInv /\ [Next]_vars => OnceInv'
    BY NextOnce
  <2>2. QED
    BY <2>1, MRCorrect, InitOnce, PTL DEF Spec
<1>3. QED
  BY <1>1, <1>2, MRCorrect, PTL

-----------------------------------------------------------------------------
(* Nobody is left waiting *)

\* No map, no reduce and not the last job is ever forgotten: each is about to be sent, in the
\* channel or watched.
NoneForgotten == \A j \in MapJobs \cup ReduceJobs \cup {DoneJob} : Pending(j)

\* Only the GetTask that takes the last job watches it, and that one closes doneCh.
LastTaken == watching[DoneJob] > 0 => doneCh

\* The part of map m for reduce r was reported: its report is on the way, was accepted, or was
\* dropped because the queue did not know the part.
Passed(m, r) ==
  \/ finishing[id(PseudoJob(m, r))] > 0
  \/ PseudoJob(m, r) \in closed
  \/ \E o \in overtaken : o.job = PseudoJob(m, r)

\* A worker ends only when there is no coordinator, and mapTask reports the parts in order.
Stands(s) ==
  /\ s.pc = "gone" => ~Up
  /\ s.pc \in {"map", "renamed"} => \A r \in ReduceTask : r < s.r => Passed(s.m, r)

\* A map is reported after all its parts.
PartsFirst ==
  \A m \in MapTask : finishing[id(MapJob(m))] > 0 \/ MapJob(m) \in closed => \A r \in ReduceTask : Passed(m, r)

WaitInv ==
  /\ TypeInv /\ NoneForgotten /\ LastTaken /\ PartsFirst
  /\ \A w \in Worker : Stands(worker[w])

\* What a step has to keep.
PendingKept == \A j \in MapJobs \cup ReduceJobs \cup {DoneJob} : Pending(j) => Pending(j)'
PassedKept  == \A m \in MapTask, r \in ReduceTask : Passed(m, r) => Passed(m, r)'

LEMMA KeepWait ==
  ASSUME WaitInv, TypeInv', PendingKept, PassedKept, LastTaken', Up' => Up,
         \A w \in Worker : worker'[w] = worker[w] \/ Stands(worker[w])',
         \A m \in MapTask : finishing'[id(MapJob(m))] > 0 \/ MapJob(m) \in closed' =>
           \/ finishing[id(MapJob(m))] > 0 \/ MapJob(m) \in closed
           \/ \A r \in ReduceTask : Passed(m, r)
  PROVE  WaitInv'
<1>1. NoneForgotten'
  BY Zenon DEF WaitInv, NoneForgotten, PendingKept
<1>2. PartsFirst'
  BY Zenon DEF WaitInv, PartsFirst, PassedKept
<1>3. ASSUME NEW w \in Worker, worker'[w] = worker[w] PROVE Stands(worker[w])'
  <2>1. Stands(worker[w]) /\ worker[w] \in WorkerState
    BY Zenon DEF WaitInv, TypeInv, RestTypes
  <2>2. PICK s \in WorkerState : s = worker[w]
    BY Zenon, <2>1
  <2>3. s.pc \in {"map", "renamed"} => s.m \in MapTask
    BY Zenon, <2>2, WorkerFields
  <2>4. QED
    BY Zenon, <1>3, <2>1, <2>2, <2>3 DEF Stands, PassedKept
<1>4. QED
  BY Zenon, <1>1, <1>2, <1>3 DEF WaitInv

LEMMA PassedGrows ==
  ASSUME \A i \in Id : finishing[i] > 0 => finishing'[i] > 0, closed \subseteq closed', overtaken \subseteq overtaken'
  PROVE  PassedKept
BY Zenon, IdTypes DEF PassedKept, Passed

\* The jobs that stay pending are jobs, and no parts.
LEMMA KeptJobs ==
  ASSUME NEW j \in MapJobs \cup ReduceJobs \cup {DoneJob}
  PROVE  j \in Job /\ j \in Initial /\ j.Jobtype # "pseudo"
BY Zenon, JobFields DEF MapJobs, ReduceJobs

LEMMA QueueStepWait ==
  ASSUME WaitInv, TypeInv', NEW j \in Job, Send(j) \/ Store(j) \/ watchJob(j)
  PROVE  WaitInv'
<1>1. /\ jobCh \in Seq(Job) /\ waiting \in [Job -> Nat] /\ watching \in [Job -> Nat]
  BY SMTT(30), BoundsAssumption DEF WaitInv, TypeInv, QueueTypes, RestTypes
<1>2. /\ UNCHANGED <<closed, finishing, overtaken, worker, doneCh, exited, panicked>>
      /\ Up' => Up
  BY Zenon DEF Send, SendJob, Store, StoreJob, watchJob, coordinatorVars, fileVars, Up
<1>3. PassedKept
  BY Zenon, <1>2 DEF PassedKept, Passed
<1>4. PendingKept /\ LastTaken'
  <2>1. CASE Send(j)
    <3>1. /\ waiting' = [waiting EXCEPT ![j] = waiting[j] - 1] /\ jobCh' = Append(jobCh, j)
          /\ UNCHANGED watching
      BY Zenon, <2>1 DEF Send, SendJob, coordinatorVars
    <3>2. /\ Len(jobCh) + 1 \in 1 .. Len(jobCh') /\ jobCh'[Len(jobCh) + 1] = j
          /\ \A k \in 1 .. Len(jobCh) : k \in 1 .. Len(jobCh') /\ jobCh'[k] = jobCh[k]
      BY <1>1, <3>1, AppendProperties
    <3>3. \A x \in Job : x # j => waiting'[x] = waiting[x]
      BY <1>1, <3>1
    <3>4. \A x \in Job : Pending(x) => Pending(x)'
      BY Zenon, <3>1, <3>2, <3>3 DEF Pending
    <3>5. QED
      BY Zenon, <1>2, <3>1, <3>4, KeptJobs DEF PendingKept, WaitInv, LastTaken
  <2>2. CASE Store(j)
    <3>1. UNCHANGED <<jobCh, waiting, watching>>
      BY Zenon, <2>2 DEF Store, StoreJob, coordinatorVars
    <3>2. QED
      BY Zenon, <1>2, <3>1 DEF PendingKept, Pending, WaitInv, LastTaken
  <2>3. CASE watchJob(j)
    <3>1. /\ watching[j] > 0 /\ watching' = [watching EXCEPT ![j] = watching[j] - 1] /\ SubmitJobs({j})
          /\ j # DoneJob /\ UNCHANGED jobCh
      BY Zenon, <2>3 DEF watchJob
    <3>2. \A x \in Job : waiting[x] > 0 \/ x = j => waiting'[x] > 0
      BY <1>1, <3>1 DEF SubmitJobs
    <3>3. \A x \in Job : x # j => watching'[x] = watching[x]
      BY <1>1, <3>1
    <3>4. \A x \in Job : Pending(x) => Pending(x)'
      BY Zenon, <3>1, <3>2, <3>3 DEF Pending
    <3>5. DoneJob \in Job
      BY Zenon, JobFields
    <3>6. QED
      BY Zenon, <1>2, <3>1, <3>3, <3>4, <3>5, KeptJobs DEF PendingKept, WaitInv, LastTaken
  <2>4. QED
    BY Zenon, <2>1, <2>2, <2>3
<1>5. QED
  BY Zenon, <1>2, <1>3, <1>4, KeepWait

LEMMA AnswerWait ==
  ASSUME WaitInv, TypeInv', NEW j \in Job, Answer(j)
  PROVE  WaitInv'
<1>0. TypeInv /\ jobCh \in Seq(Job) /\ watching \in [Job -> Nat]
  BY SMTT(30) DEF WaitInv, TypeInv, QueueTypes, RestTypes
<1>1. Take(j)
  BY Zenon DEF Answer, SkipPseudo, GetTaskOfOrphan, GetTask, Watch
<1>2. /\ jobCh # <<>> /\ j = Head(jobCh) /\ jobCh' = Tail(jobCh)
      /\ UNCHANGED <<closed, waiting, finishing, panicked, exited, overtaken>>
  BY Zenon, <1>1 DEF Take, fileVars
<1>3. \/ j.Jobtype = "pseudo" /\ UNCHANGED <<watching, doneCh>>
      \/ watching' = [watching EXCEPT ![j] = watching[j] + 1] /\ doneCh' = (doneCh \/ j = DoneJob)
  BY Zenon DEF Answer, SkipPseudo, GetTaskOfOrphan, GetTask, Watch
<1>4. /\ j = jobCh[1]
      /\ \A k \in 1 .. Len(jobCh) : k = 1 \/ (k - 1 \in 1 .. Len(jobCh') /\ jobCh'[k - 1] = jobCh[k])
  <2>1. Len(jobCh) \in Nat \ {0}
    BY <1>0, <1>2, EmptySeq
  <2>2. /\ Head(jobCh) = jobCh[1] /\ Len(Tail(jobCh)) = Len(jobCh) - 1
        /\ \A k \in 1 .. Len(Tail(jobCh)) : Tail(jobCh)[k] = jobCh[k + 1]
    BY <1>0, <2>1, HeadTailProperties
  <2>3. ASSUME NEW k \in 1 .. Len(jobCh), k # 1 PROVE k - 1 \in 1 .. Len(jobCh') /\ jobCh'[k - 1] = jobCh[k]
    <3>1. k - 1 \in 1 .. Len(Tail(jobCh)) /\ (k - 1) + 1 = k
      BY <2>1, <2>2, <2>3
    <3>2. QED
      BY Zenon, <1>2, <2>2, <3>1
  <2>4. QED
    BY Zenon, <1>2, <2>2, <2>3
<1>5. PendingKept
  <2> SUFFICES ASSUME NEW x \in MapJobs \cup ReduceJobs \cup {DoneJob}, Pending(x) PROVE Pending(x)'
    BY Zenon DEF PendingKept
  <2>1. x \in Job /\ x.Jobtype # "pseudo"
    BY Zenon, KeptJobs
  <2>2. CASE x = j
    <3>1. watching'[j] > 0
      BY <1>0, <1>3, <2>1, <2>2
    <3>2. QED
      BY Zenon, <2>2, <3>1 DEF Pending
  <2>3. CASE x # j
    <3>1. watching'[x] = watching[x]
      BY <1>0, <1>3, <2>1, <2>3
    <3>2. QED
      BY Zenon, <1>2, <1>4, <2>3, <3>1 DEF Pending
  <2>4. QED
    BY Zenon, <2>2, <2>3
<1>6. PassedKept
  BY Zenon, <1>2 DEF PassedKept, Passed
<1>7. LastTaken'
  <2>1. DoneJob \in Job /\ DoneJob.Jobtype = "done"
    BY Zenon, JobFields
  <2>2. watching'[DoneJob] > 0 => watching[DoneJob] > 0 \/ doneCh'
    BY Zenon, <1>0, <1>3, <2>1
  <2>3. doneCh => doneCh'
    BY Zenon, <1>3
  <2>4. QED
    BY Zenon, <1>2, <2>2, <2>3 DEF WaitInv, LastTaken
<1>8. Up' => Up
  BY Zenon, <1>2 DEF Up
<1>9. \A w \in Worker : worker'[w] = worker[w] \/ Stands(worker[w])'
  <2>1. CASE worker' = worker
    BY Zenon, <2>1
  <2>2. ASSUME NEW w \in Worker, worker' = [worker EXCEPT ![w] = TaskOf(j)]
        PROVE  \A v \in Worker : worker'[v] = worker[v] \/ Stands(worker[v])'
    <3>1. worker'[w] = TaskOf(j) /\ \A v \in Worker : v # w => worker'[v] = worker[v]
      BY Zenon, <1>0, <2>2, WorkerFrame
    <3>2. PICK s \in WorkerState : s = TaskOf(j)
      BY Zenon, TaskType
    <3>3. (s.pc = "map" /\ s.r = 0) \/ s.pc = "ask" \/ s.pc = "open"
      <4>1. Asking.pc = "ask" /\ \A r, ms : Opening(r, ms).pc = "open"
        BY DEF Asking, Opening
      <4>2. CASE j.Jobtype = "map"
        BY Zenon, <3>2, <4>2, TaskType
      <4>3. CASE j.Jobtype = "reduce"
        BY Zenon, <3>2, <4>1, <4>3, TaskType
      <4>4. CASE j.Jobtype \notin {"map", "reduce"}
        BY Zenon, <3>2, <4>1, <4>4, TaskType
      <4>5. QED
        BY Zenon, <4>2, <4>3, <4>4
    <3>4. \A r \in ReduceTask : ~(r < 0)
      BY TaskAssumption DEF ReduceTask
    <3>5. s.pc # "gone" /\ (s.pc \in {"map", "renamed"} => \A r \in ReduceTask : ~(r < s.r))
      BY Zenon, <3>3, <3>4
    <3>6. Stands(worker[w])'
      BY Zenon, <3>1, <3>2, <3>5 DEF Stands
    <3>7. QED
      BY Zenon, <3>1, <3>6
  <2>3. QED
    BY Zenon, <2>1, <2>2 DEF Answer, SkipPseudo, GetTaskOfOrphan, GetTask
<1>10. QED
  BY Zenon, <1>2, <1>5, <1>6, <1>7, <1>8, <1>9, KeepWait

\* A report moves a part on: accepted, or noted as dropped.
LEMMA FinishWait ==
  ASSUME WaitInv, TypeInv', NEW i \in Id, onTaskFinish(i)
  PROVE  WaitInv'
<1>0. TypeInv /\ finishing \in [Id -> Nat]
  BY DEF WaitInv, TypeInv, RestTypes
<1>1. /\ finishing[i] > 0 /\ finishing' = [finishing EXCEPT ![i] = finishing[i] - 1] /\ Up
      /\ jobs[i] = NoJob => /\ UNCHANGED closed
                            /\ overtaken' = overtaken \cup
                                 {[job |-> j, sent |-> storing[j] > 0] : j \in {k \in Initial \ closed : id(k) = i}}
      /\ jobs[i] # NoJob => closed' = (IF jobs[i].bare THEN closed ELSE closed \cup {jobs[i]}) /\ UNCHANGED overtaken
      /\ UNCHANGED <<jobCh, waiting, watching, doneCh, worker>>
  BY Zenon DEF onTaskFinish, Finish, fileVars
<1>2. closed \subseteq closed' /\ overtaken \subseteq overtaken'
  BY Zenon, <1>1
<1>3. \A x \in Id : x # i => finishing'[x] = finishing[x]
  BY <1>0, <1>1
<1>4. PassedKept
  <2> SUFFICES ASSUME NEW m \in MapTask, NEW r \in ReduceTask, Passed(m, r) PROVE Passed(m, r)'
    BY Zenon DEF PassedKept
  <2>1. id(PseudoJob(m, r)) \in Id /\ PseudoJob(m, r) \in Initial
    BY Zenon, IdTypes, JobFields
  <2>2. CASE id(PseudoJob(m, r)) # i
    BY Zenon, <1>2, <1>3, <2>1, <2>2 DEF Passed
  <2>3. CASE id(PseudoJob(m, r)) = i /\ jobs[i] # NoJob
    <3>1. jobs[i] \in Job /\ jobs[i].Jobtype = "pseudo" /\ jobs[i].Key = PseudoKey(m, r)
      <4>1. PseudoJob(m, r) \in Job /\ PseudoJob(m, r).Jobtype = "pseudo" /\ PseudoJob(m, r).Key = PseudoKey(m, r)
        BY Zenon, JobFields
      <4>2. i.Jobtype = "pseudo" /\ i.Key = PseudoKey(m, r)
        BY Zenon, <2>3, <4>1, IdOfJob
      <4>3. QED
        BY Zenon, <1>0, <2>3, <4>2, FinishedJob
    <3>2. jobs[i] \in PseudoJobs
      BY Zenon, <3>1, JobKinds
    <3>3. PICK n \in MapTask, x \in ReduceTask : jobs[i] = PseudoJob(n, x)
      BY SMTT(30), <3>2 DEF PseudoJobs
    <3>4. jobs[i] = PseudoJob(m, r) /\ ~jobs[i].bare
      BY SMTT(30), <3>1, <3>3 DEF PseudoJob
    <3>5. PseudoJob(m, r) \in closed'
      BY <1>1, <2>3, <3>4
    <3>6. QED
      BY Zenon, <3>5 DEF Passed
  <2>4. CASE id(PseudoJob(m, r)) = i /\ jobs[i] = NoJob /\ PseudoJob(m, r) \notin closed
    <3>1. [job |-> PseudoJob(m, r), sent |-> storing[PseudoJob(m, r)] > 0] \in overtaken'
      BY Zenon, <1>1, <2>1, <2>4
    <3>2. [job |-> PseudoJob(m, r), sent |-> storing[PseudoJob(m, r)] > 0].job = PseudoJob(m, r)
      OBVIOUS
    <3>3. QED
      BY Zenon, <3>1, <3>2 DEF Passed
  <2>5. CASE PseudoJob(m, r) \in closed
    BY Zenon, <1>2, <2>5 DEF Passed
  <2>6. QED
    BY Zenon, <2>2, <2>3, <2>4, <2>5
<1>5. PendingKept /\ LastTaken'
  BY Zenon, <1>1 DEF PendingKept, Pending, WaitInv, LastTaken
<1>6. ASSUME NEW m \in MapTask, finishing'[id(MapJob(m))] > 0 \/ MapJob(m) \in closed'
      PROVE  finishing[id(MapJob(m))] > 0 \/ MapJob(m) \in closed
  <2>1. id(MapJob(m)) \in Id
    BY Zenon, IdTypes
  <2>2. CASE id(MapJob(m)) = i
    BY Zenon, <1>1, <2>2
  <2>3. CASE id(MapJob(m)) # i
    <3>1. finishing'[id(MapJob(m))] = finishing[id(MapJob(m))]
      BY Zenon, <1>3, <2>1, <2>3
    <3>2. jobs[i] # NoJob => jobs[i] # MapJob(m)
      BY ZenonT(30), <1>0, <2>3, FinishedJob
    <3>3. MapJob(m) \in closed' => MapJob(m) \in closed
      BY <1>1, <3>2
    <3>4. QED
      BY Zenon, <1>6, <3>1, <3>3
  <2>4. QED
    BY Zenon, <2>2, <2>3
<1>7. QED
  BY Zenon, <1>1, <1>4, <1>5, <1>6, KeepWait

\* reportDone: with a coordinator the report is on its way, without one the worker ends.
LEMMA ReportWait ==
  ASSUME WaitInv, TypeInv', NEW w \in Worker, NEW i \in Id, NEW next, reportDone(w, i, next), next.pc # "gone",
         next.pc \in {"map", "renamed"} =>
           \A r \in ReduceTask : r < next.r => Passed(next.m, r) \/ i = id(PseudoJob(next.m, r)),
         \A m \in MapTask : i = id(MapJob(m)) => \A r \in ReduceTask : Passed(m, r)
  PROVE  WaitInv'
<1>0. TypeInv /\ finishing \in [Id -> Nat]
  BY DEF WaitInv, TypeInv, RestTypes
<1>1. /\ UNCHANGED <<jobCh, closed, waiting, watching, panicked, exited, doneCh, overtaken>>
      /\ \/ Up /\ worker' = [worker EXCEPT ![w] = next] /\ finishing' = [finishing EXCEPT ![i] = finishing[i] + 1]
         \/ ~Up /\ worker' = [worker EXCEPT ![w] = Gone] /\ UNCHANGED finishing
  BY Zenon DEF reportDone, queueVars, fileVars
<1>2. Up' <=> Up
  BY Zenon, <1>1 DEF Up
<1>3. \A x \in Id : /\ finishing[x] > 0 => finishing'[x] > 0
                    /\ finishing'[x] > 0 => finishing[x] > 0 \/ x = i
                    /\ Up => finishing'[i] > 0
  BY <1>0, <1>1
<1>4. closed \subseteq closed' /\ overtaken \subseteq overtaken'
  BY Zenon, <1>1
<1>5. PassedKept
  BY Zenon, <1>3, <1>4, PassedGrows
<1>6. PendingKept /\ LastTaken'
  BY Zenon, <1>1 DEF PendingKept, Pending, WaitInv, LastTaken
<1>7. \A m \in MapTask : finishing'[id(MapJob(m))] > 0 \/ MapJob(m) \in closed' =>
        \/ finishing[id(MapJob(m))] > 0 \/ MapJob(m) \in closed
        \/ \A r \in ReduceTask : Passed(m, r)
  BY Zenon, <1>1, <1>3, IdTypes
<1>8. CASE Up
  <2>1. worker' = [worker EXCEPT ![w] = next]
    BY Zenon, <1>1, <1>8
  <2>2. worker'[w] = next /\ \A v \in Worker : v # w => worker'[v] = worker[v]
    BY Zenon, <1>0, <2>1, WorkerFrame
  <2>3. next \in WorkerState
    BY Zenon, <2>2 DEF TypeInv, RestTypes
  <2>4. next.pc \in {"map", "renamed"} => next.m \in MapTask
    BY Zenon, <2>3, WorkerFields
  <2>5. ASSUME next.pc \in {"map", "renamed"}, NEW r \in ReduceTask, r < next.r PROVE Passed(next.m, r)'
    <3>1. CASE Passed(next.m, r)
      BY Zenon, <1>5, <2>4, <2>5, <3>1 DEF PassedKept
    <3>2. CASE i = id(PseudoJob(next.m, r))
      BY Zenon, <1>3, <1>8, <3>2 DEF Passed
    <3>3. QED
      BY Zenon, <2>5, <3>1, <3>2
  <2>6. Stands(worker[w])'
    BY Zenon, <2>2, <2>5 DEF Stands
  <2>7. QED
    BY Zenon, <1>2, <1>5, <1>6, <1>7, <2>2, <2>6, KeepWait
<1>9. CASE ~Up
  <2>1. worker' = [worker EXCEPT ![w] = Gone]
    BY Zenon, <1>1, <1>9
  <2>2. worker'[w] = Gone /\ \A v \in Worker : v # w => worker'[v] = worker[v]
    BY Zenon, <1>0, <2>1, WorkerFrame
  <2>3. Gone.pc = "gone"
    BY DEF Gone
  <2>4. Stands(worker[w])'
    BY Zenon, <1>2, <1>9, <2>2, <2>3 DEF Stands
  <2>5. QED
    BY Zenon, <1>2, <1>5, <1>6, <1>7, <2>2, <2>4, KeepWait
<1>10. QED
  BY Zenon, <1>8, <1>9

\* A worker goes on by itself; jobs may be submitted for it.
LEMMA LocalWait ==
  ASSUME WaitInv, TypeInv', NEW w \in Worker, NEW n, worker' = [worker EXCEPT ![w] = n], Stands(n)',
         UNCHANGED <<jobCh, closed, watching, panicked, exited, doneCh, finishing, overtaken>>,
         \A j \in Job : waiting[j] > 0 => waiting'[j] > 0
  PROVE  WaitInv'
<1>1. worker'[w] = n /\ \A v \in Worker : v # w => worker'[v] = worker[v]
  BY Zenon, WorkerFrame DEF WaitInv
<1>2. Up' <=> Up
  BY Zenon DEF Up
<1>3. PassedKept
  BY Zenon DEF PassedKept, Passed
<1>4. PendingKept /\ LastTaken'
  BY Zenon, KeptJobs DEF PendingKept, Pending, WaitInv, LastTaken
<1>5. Stands(worker[w])'
  BY Zenon, <1>1 DEF Stands
<1>6. QED
  BY Zenon, <1>1, <1>2, <1>3, <1>4, <1>5, KeepWait

LEMMA MapWait ==
  ASSUME WaitInv, TypeInv', NEW w \in Worker, mapTask(w)
  PROVE  WaitInv'
<1>0. worker[w] \in WorkerState /\ Stands(worker[w])
  BY Zenon DEF WaitInv, TypeInv, RestTypes
<1>1. PICK s \in WorkerState : s = worker[w]
  BY Zenon, <1>0
<1>2. CASE RenamePart(w)
  <2>1. /\ s.pc = "map" /\ worker' = [worker EXCEPT ![w] = Renamed(s.m, s.r)]
        /\ UNCHANGED <<jobCh, closed, watching, panicked, exited, doneCh, finishing, overtaken, waiting>>
    BY Zenon, <1>1, <1>2 DEF RenamePart, queueVars, coordinatorVars
  <2>2. PICK n : n = Renamed(s.m, s.r)
    BY Zenon
  <2>3. n.pc = "renamed" /\ n.m = s.m /\ n.r = s.r
    BY <2>2 DEF Renamed
  <2>4. Stands(n)'
    BY Zenon, <1>0, <1>1, <2>1, <2>3 DEF Stands, Passed
  <2>5. QED
    BY Zenon, <2>1, <2>2, <2>4, LocalWait
<1>3. CASE ReportPart(w)
  <2>1. /\ s.pc = "renamed" \/ (s.pc = "map" /\ s.r < NReduce)
        /\ reportDone(w, id(PseudoJob(s.m, s.r)), Mapping(s.m, s.r + 1))
    BY Zenon, <1>1, <1>3 DEF ReportPart
  <2>2. s.m \in MapTask /\ s.r \in ReduceTask
    <3>1. s.pc = "map" => s.m \in MapTask /\ s.r \in 0 .. NReduce
      BY Zenon, WorkerFields
    <3>2. s.pc = "renamed" => s.m \in MapTask /\ s.r \in ReduceTask
      BY Zenon, WorkerFields
    <3>3. QED
      BY <2>1, <3>1, <3>2, TaskAssumption DEF ReduceTask
  <2>3. PICK n : n = Mapping(s.m, s.r + 1)
    BY Zenon
  <2>4. n.pc = "map" /\ n.m = s.m /\ n.r = s.r + 1
    BY <2>3 DEF Mapping
  <2>5. id(PseudoJob(s.m, s.r)) \in Id /\ id(PseudoJob(s.m, s.r)).Jobtype = "pseudo"
    BY Zenon, <2>2, IdTypes
  <2>6. \A r \in ReduceTask : r < s.r + 1 => r < s.r \/ r = s.r
    BY <2>2, TaskAssumption DEF ReduceTask
  <2>7. \A r \in ReduceTask : r < n.r => Passed(n.m, r) \/ id(PseudoJob(s.m, s.r)) = id(PseudoJob(n.m, r))
    BY Zenon, <1>0, <1>1, <2>1, <2>4, <2>6 DEF Stands
  <2>8. \A m \in MapTask : id(PseudoJob(s.m, s.r)) # id(MapJob(m))
    BY Zenon, <2>5, IdTypes
  <2>9. QED
    BY Zenon, <2>1, <2>3, <2>4, <2>5, <2>7, <2>8, ReportWait
<1>4. CASE ReportMap(w)
  <2>1. s.pc = "map" /\ s.r = NReduce /\ reportDone(w, id(MapJob(s.m)), Asking)
    BY Zenon, <1>1, <1>4 DEF ReportMap
  <2>2. s.m \in MapTask
    BY Zenon, <2>1, WorkerFields
  <2>3. Asking.pc = "ask"
    BY DEF Asking
  <2>4. \A r \in ReduceTask : r < NReduce
    BY TaskAssumption DEF ReduceTask
  <2>5. \A r \in ReduceTask : Passed(s.m, r)
    BY Zenon, <1>0, <1>1, <2>1, <2>4 DEF Stands
  <2>6. ASSUME NEW m \in MapTask, id(MapJob(s.m)) = id(MapJob(m)), NEW r \in ReduceTask PROVE Passed(m, r)
    <3>1. Itoa[s.m] = Itoa[m]
      <4>1. \A y \in MapTask : MapJob(y) \in Job /\ MapJob(y).Key = Itoa[y]
        BY Zenon, JobFields
      <4>2. \A y \in MapTask : id(MapJob(y)).Key = Itoa[y]
        BY Zenon, <4>1, IdOfJob
      <4>3. QED
        BY Zenon, <2>2, <2>6, <4>2
    <3>2. PseudoJob(s.m, r) = PseudoJob(m, r)
      BY Zenon, <3>1 DEF PseudoJob, PseudoKey
    <3>3. QED
      BY Zenon, <2>5, <3>2 DEF Passed
  <2>7. id(MapJob(s.m)) \in Id
    BY Zenon, <2>2, IdTypes
  <2>8. QED
    BY Zenon, <2>1, <2>3, <2>6, <2>7, ReportWait
<1>5. QED
  BY Zenon, <1>2, <1>3, <1>4 DEF mapTask

LEMMA ReduceWait ==
  ASSUME WaitInv, TypeInv', NEW w \in Worker, reduceTask(w)
  PROVE  WaitInv'
<1>0. TypeInv /\ worker[w] \in WorkerState /\ waiting \in [Job -> Nat]
  BY Zenon DEF WaitInv, TypeInv, RestTypes, QueueTypes
<1>1. PICK s \in WorkerState : s = worker[w]
  BY Zenon, <1>0
<1>2. CASE s.pc = "report" /\ s.r \in ReduceTask /\ reportDone(w, id(ReduceJob(s.r)), Asking)
  <2>1. Asking.pc = "ask"
    BY DEF Asking
  <2>2. id(ReduceJob(s.r)) \in Id /\ \A m \in MapTask : id(ReduceJob(s.r)) # id(MapJob(m))
    BY Zenon, <1>2, IdTypes
  <2>3. QED
    BY Zenon, <1>2, <2>1, <2>2, ReportWait
<1>3. CASE OpenFiles(w) \/ ReportMapFailure(w) \/ CreateOutput(w) \/ WriteOutput(w)
  <2>1. UNCHANGED <<jobCh, closed, watching, panicked, exited, doneCh, finishing, overtaken>>
    BY Zenon, <1>3 DEF OpenFiles, ReportMapFailure, CreateOutput, WriteOutput, queueVars, coordinatorVars, fileVars
  <2>2. \/ UNCHANGED waiting
        \/ \E S : waiting' = [j \in Job |-> IF j \in S THEN waiting[j] + 1 ELSE waiting[j]]
    BY Zenon, <1>3 DEF OpenFiles, ReportMapFailure, CreateOutput, WriteOutput, SubmitJobs, queueVars
  <2>3. \A j \in Job : waiting[j] > 0 => waiting'[j] > 0
    BY <1>0, <2>2
  <2>4. PICK n : /\ worker' = [worker EXCEPT ![w] = n]
                 /\ n.pc \in {"report failure", "create", "write", "report"} \/ (n = Gone /\ ~Up)
    <3>1. CASE ReportMapFailure(w) /\ ~Up
      BY Zenon, <3>1 DEF ReportMapFailure
    <3>2. CASE OpenFiles(w)
      <4>1. PICK bad : worker' = [worker EXCEPT ![w] =
                         Reducing(IF bad = {} THEN "create" ELSE "report failure", s.r, s.maps \ bad, bad)]
        BY Zenon, <1>1, <3>2 DEF OpenFiles
      <4>2. PICK pc : pc = IF bad = {} THEN "create" ELSE "report failure"
        BY Zenon
      <4>3. \A r, ms : Reducing(pc, r, ms, bad).pc = pc
        BY DEF Reducing
      <4>4. pc \in {"create", "report failure"}
        BY Zenon, <4>2
      <4>5. QED
        BY Zenon, <4>1, <4>2, <4>3, <4>4
    <3>3. CASE (ReportMapFailure(w) /\ Up) \/ CreateOutput(w) \/ WriteOutput(w)
      <4>1. s.pc \in {"report failure", "create", "write"}
        BY Zenon, <1>1, <3>3 DEF ReportMapFailure, CreateOutput, WriteOutput
      <4>2. PICK pc, r, ms, bad : s = Reducing(pc, r, ms, bad)
        <5>1. s = Reducing(s.pc, s.r, s.maps, s.bad)
          BY Zenon, <4>1, WorkerFields
        <5>2. QED
          BY Zenon, <5>1
      <4>3. \A x : [s EXCEPT !.pc = x].pc = x
        <5>1. ASSUME NEW x PROVE [Reducing(pc, r, ms, bad) EXCEPT !.pc = x] = Reducing(x, r, ms, bad)
          BY ONLY ReducingExcept
        <5>2. ASSUME NEW x PROVE Reducing(x, r, ms, bad).pc = x
          BY ONLY ReducingFields
        <5>3. QED
          BY Zenon, <4>2, <5>1, <5>2
      <4>4. PICK x \in {"create", "write", "report"} : worker' = [worker EXCEPT ![w] = [s EXCEPT !.pc = x]]
        BY Zenon, <1>1, <3>3 DEF ReportMapFailure, CreateOutput, WriteOutput
      <4>5. [s EXCEPT !.pc = x].pc \in {"create", "write", "report"}
        BY Zenon, <4>3
      <4>6. QED
        BY Zenon, <4>4, <4>5
    <3>4. QED
      BY Zenon, <1>3, <3>1, <3>2, <3>3
  <2>5. Up' <=> Up
    BY Zenon, <2>1 DEF Up
  <2>6. Gone.pc = "gone"
    BY DEF Gone
  <2>7. Stands(n)'
    BY Zenon, <2>4, <2>5, <2>6 DEF Stands
  <2>8. QED
    BY Zenon, <2>1, <2>3, <2>4, <2>7, LocalWait
<1>4. QED
  BY Zenon, <1>0, <1>1, <1>2, <1>3, ReduceSteps

LEMMA OtherWait ==
  ASSUME WaitInv, TypeInv',
         \/ Exit
         \/ \E w \in Worker : LeaveLoop(w) \/ Crash(w)
         \/ \E f \in files : LoseFile(f)
         \/ UNCHANGED vars
  PROVE  WaitInv'
<1>1. CASE Exit \/ (\E f \in files : LoseFile(f)) \/ UNCHANGED vars
  <2>1. /\ UNCHANGED <<jobCh, closed, waiting, watching, panicked, doneCh, finishing, overtaken, worker>>
        /\ exited' \/ UNCHANGED exited
    BY Zenon, <1>1 DEF Exit, LoseFile, vars, queueVars, coordinatorVars, fileVars
  <2>2. PassedKept /\ PendingKept
    BY Zenon, <2>1 DEF PassedKept, Passed, PendingKept, Pending
  <2>3. LastTaken' /\ (Up' => Up)
    <3>1. LastTaken'
      BY Zenon, <2>1 DEF WaitInv, LastTaken
    <3>2. Up' => Up
      BY Zenon, <2>1 DEF Up
    <3>3. QED
      BY Zenon, <3>1, <3>2
  <2>4. QED
    BY Zenon, <2>1, <2>2, <2>3, KeepWait
<1>2. ASSUME NEW w \in Worker, LeaveLoop(w) \/ Crash(w) PROVE WaitInv'
  <2>1. /\ worker' = [worker EXCEPT ![w] = Asking] \/ (~Up /\ worker' = [worker EXCEPT ![w] = Gone])
        /\ UNCHANGED <<jobCh, closed, waiting, watching, panicked, exited, doneCh, finishing, overtaken>>
    BY Zenon, <1>2 DEF LeaveLoop, Crash, queueVars, coordinatorVars, fileVars
  <2>2. Asking.pc = "ask" /\ Gone.pc = "gone"
    BY DEF Asking, Gone
  <2>3. PICK n : worker' = [worker EXCEPT ![w] = n] /\ (n.pc = "ask" \/ (n.pc = "gone" /\ ~Up))
    BY Zenon, <2>1, <2>2
  <2>4. Up' <=> Up
    BY Zenon, <2>1 DEF Up
  <2>5. Stands(n)'
    BY Zenon, <2>3, <2>4 DEF Stands
  <2>6. QED
    BY Zenon, <2>1, <2>3, <2>5, LocalWait
<1>3. QED
  BY Zenon, <1>1, <1>2

LEMMA NextWait ==
  ASSUME WaitInv, [Next]_vars
  PROVE  WaitInv'
<1>1. TypeInv'
  BY Zenon, NextTypes DEF WaitInv
<1>2. QED
  BY Zenon, <1>1, QueueStepWait, AnswerWait, FinishWait, MapWait, ReduceWait, OtherWait DEF Next, Progress

LEMMA InitWait == Init => WaitInv
<1> SUFFICES ASSUME Init PROVE WaitInv
  OBVIOUS
<1>1. /\ closed = {} /\ worker = [w \in Worker |-> Asking] /\ watching = [j \in Job |-> 0]
      /\ finishing = [i \in Id |-> 0]
      /\ waiting = [j \in Job |-> IF j \in Initial THEN 1 ELSE 0]
  BY Zenon DEF Init, QueueInit
<1>2. \A j \in Job : (j \in Initial => waiting[j] > 0) /\ ~(watching[j] > 0)
  BY <1>1
<1>3. NoneForgotten /\ LastTaken
  BY Zenon, <1>2, KeptJobs DEF NoneForgotten, LastTaken, Pending
<1>4. \A i \in Id : ~(finishing[i] > 0)
  BY <1>1
<1>5. PartsFirst
  BY Zenon, <1>1, <1>4, IdTypes DEF PartsFirst
<1>6. Asking.pc = "ask"
  BY DEF Asking
<1>7. \A w \in Worker : worker[w].pc = "ask"
  BY <1>1, <1>6
<1>8. \A w \in Worker : Stands(worker[w])
  BY Zenon, <1>7 DEF Stands
<1>9. QED
  BY Zenon, <1>1, <1>3, <1>5, <1>8, InitTypes DEF WaitInv

\* With the coordinator up and nothing to go on with, the last job waits for a reduce, this one
\* for a part, and the part for a map that is watched, or its report was dropped.
LEMMA WaitImplies ==
  ASSUME Worker # {}, WaitInv
  PROVE  NeverStuck
<1> SUFFICES ASSUME ~CanGoOn
             PROVE  \/ ~Up /\ \A w \in Worker : worker[w] = Gone
                    \/ \E o \in overtaken : o.job.Jobtype = "pseudo"
                    \/ retries = MaxRetries /\ \E j \in Job : watching[j] > 0 /\ j \notin closed
  BY Zenon DEF NeverStuck
<1>1. \A w \in Worker : worker[w] = Gone \/ (worker[w] = Asking /\ Up)
  BY Zenon DEF CanGoOn
<1>2. CASE ~Up
  BY Zenon, <1>1, <1>2
<1>3. CASE Up
  <2>1. /\ \A j \in Job : waiting[j] > 0 => ~(Ready(j) /\ HasRoom)
        /\ \A i \in Id : ~(finishing[i] > 0)
        /\ ~doneCh /\ (jobCh = <<>> \/ ~Waits)
    BY Zenon, <1>3 DEF CanGoOn
  <2>2. jobCh = <<>>
    <3>1. Gone.pc = "gone"
      BY DEF Gone
    <3>2. \A w \in Worker : worker[w] = Asking
      BY Zenon, <1>1, <1>3, <3>1 DEF WaitInv, Stands
    <3>3. QED
      BY Zenon, <2>1, <3>2 DEF Waits
  <2>3. Len(jobCh) = 0 /\ HasRoom /\ 1 .. Len(jobCh) = {}
    BY <2>2, TaskAssumption DEF HasRoom
  <2>4. ASSUME NEW j \in Job, j \notin closed, j # DoneJob, watching[j] > 0
        PROVE  retries = MaxRetries /\ \E x \in Job : watching[x] > 0 /\ x \notin closed
    <3>1. ~(retries < MaxRetries)
      BY Zenon, <1>3, <2>4 DEF CanGoOn
    <3>2. retries \in 0 .. MaxRetries
      BY Zenon DEF WaitInv, TypeInv, RestTypes
    <3>3. retries = MaxRetries
      BY <3>1, <3>2, BoundsAssumption
    <3>4. QED
      BY Zenon, <2>4, <3>3
  <2>5. \A j \in MapJobs \cup ReduceJobs \cup {DoneJob} : waiting[j] > 0 \/ watching[j] > 0
    BY Zenon, <2>3 DEF WaitInv, NoneForgotten, Pending
  <2>6. ~(watching[DoneJob] > 0)
    BY Zenon, <2>1 DEF WaitInv, LastTaken
  <2>7. PICK x \in ReduceTask : ReduceJob(x) \notin closed
    <3>1. DoneJob \in Job /\ waiting[DoneJob] > 0
      BY Zenon, <2>5, <2>6, JobFields
    <3>2. ~(ReduceJobs \subseteq closed)
      BY Zenon, <2>1, <2>3, <3>1, DepsOf DEF Ready
    <3>3. QED
      BY Zenon, <3>2 DEF ReduceJobs
  <2>8. ReduceJob(x) \in Job /\ ReduceJob(x) # DoneJob /\ ReduceJob(x) \in ReduceJobs
    BY Zenon, JobFields DEF ReduceJobs
  <2>9. CASE watching[ReduceJob(x)] > 0
    BY Zenon, <2>4, <2>7, <2>8, <2>9
  <2>10. CASE ~(watching[ReduceJob(x)] > 0)
    <3>1. ~(Deps(ReduceJob(x)) \subseteq closed)
      BY Zenon, <2>1, <2>3, <2>5, <2>8, <2>10 DEF Ready
    <3>2. PICK m \in MapTask, r \in ReduceTask : PseudoJob(m, r) \notin closed
      BY <2>8, <3>1 DEF Deps
    <3>3. MapJob(m) \in Job /\ MapJob(m) # DoneJob /\ MapJob(m) \in MapJobs
      BY Zenon, JobFields DEF MapJobs
    <3>4. CASE MapJob(m) \in closed
      <4>1. Passed(m, r)
        BY Zenon, <3>4 DEF WaitInv, PartsFirst
      <4>2. PICK o \in overtaken : o.job = PseudoJob(m, r)
        BY Zenon, <2>1, <3>2, <4>1, IdTypes DEF Passed
      <4>3. PseudoJob(m, r).Jobtype = "pseudo"
        BY Zenon, JobFields
      <4>4. QED
        BY Zenon, <4>2, <4>3
    <3>5. CASE MapJob(m) \notin closed
      <4>1. Deps(MapJob(m)) = {}
        <5>1. \A y \in ReduceTask : MapJob(m) # ReduceJob(y)
          BY Zenon, JobFields
        <5>2. QED
          BY <3>3, <5>1 DEF Deps
      <4>2. ~(waiting[MapJob(m)] > 0)
        BY Zenon, <2>1, <2>3, <3>3, <4>1 DEF Ready
      <4>3. QED
        BY Zenon, <2>4, <2>5, <3>3, <3>5, <4>2
    <3>6. QED
      BY Zenon, <3>4, <3>5
  <2>11. QED
    BY Zenon, <2>9, <2>10
<1>4. QED
  BY Zenon, <1>2, <1>3

\* With at least one worker nobody is left waiting, for every number of files, workers and
\* faults: when neither a goroutine of the coordinator nor a worker can go on, the run has ended, a report
\* of a part came before scheduleJob had stored the part, or a watchJob has used up its timeouts.
THEOREM NobodyIsLeftWaiting ==
  ASSUME Worker # {}
  PROVE  Spec => []NeverStuck
<1>1. WaitInv /\ [Next]_vars => WaitInv'
  BY NextWait
<1>2. WaitInv => NeverStuck
  BY WaitImplies
<1>3. QED
  BY <1>1, <1>2, InitWait, PTL DEF Spec

=============================================================================
