# TLA+ verification of dist-study

The repository holds Go programs of a distributed-systems course: a Raft
library, a MapReduce coordinator with its workers, the simulated network
`labrpc` they run on, the linearizability checker `porcupine`, and clerks and tests of
services whose servers are still stubs. This directory models the parts with state worth checking,
checks them with TLC on small instances, and proves the most important results
with TLAPS for every instance. Paths below are relative to the Go root `src/src/`.

Run a model with `tlc -config RaftElections.cfg MCRaft` (the tables of section 3 name the
module of each configuration), and check the proofs with `tlapm` on
`RaftElectionSafety`, `RaftLogMatching`, `RaftCompleteness`, `RaftSafety`, `RaftGoroutinesProofs`,
`RaftClusterProofs`, `MapReduceProofs` and `CheckerProofs`.

## 1. Inventory

### Raft (`raft/raft.go`, `status.go`, `util.go`, `persister.go`)

* *State.* Per peer: status, currentTerm, votedFor, logs (entries carry their own
  Term and Index), commitIndex, lastApplied, nextIndex, matchIndex, and a snapshot
  with its index and term. The persister holds one encoded `Data` and the snapshot.
* *Operations.* `run` dispatches to `runAsFollower`, `runAsCandidate` and
  `runAsLeader`. All of them run in one goroutine per peer, take one event from the
  channels and timers at a time, and finish its handler before the next one:
  `startElection`, `handleRequestVote`, vote counting, `sendHeartBeat`,
  `broadcastAppendEntries`, `handleAppendEntries`, reply handling with
  `updateCommitIndex` and `requestInstallSnapshot`, `handleCommand`,
  `handleSnapshot`, `handleInstallSnapshot`, `applyToClient`, `Make`.
* *Hard behaviours.* Messages that are lost, delayed and reordered; crashes between
  two `persist` calls of one handler; votes of an election that is over; `Snapshot`
  requests that wait in goroutines and are handled in any order; index arithmetic
  relative to the snapshot.
  Around the main goroutine, callers of `Start`, RPC handlers, the goroutines of
  `Snapshot` and `appendEntries` and the service wait for each other on unbuffered channels.
* *What must hold.* One leader per term, one vote per peer and term, no two values
  applied for one index, services fed in order, what a leader counts as replicated is
  on disk, no slice out of range, progress never undone.

### Test service and configuration (`raft/config.go`)

`applier`, `applierSnap` and `ingestSnap` take messages from applyCh, keep the log,
and call `Snapshot` every `SnapShotInterval` commands. `crash1` and `start1` stop
and start a peer. The checks it makes (`checkLogs`, `checkOneLeader`, "apply out of
order") are the source of several properties. An instance cannot really be stopped, so
`crash1` isolates it by disabling its ends, deleting its server and copying its
persister, in an order that matters.

### Network (`labrpc/labrpc.go`)

`MakeEnd`, `Connect`, `Enable`, `AddServer`, `DeleteServer`, the goroutine per call
of `processReq` with drops, delays and reordering, and `isServerDead` polled while a
handler runs. It must not deliver a reply of a server that was deleted meanwhile,
must answer every call in the end, and must not duplicate one.

### MapReduce (`mr/coordinator.go`, `jobqueue.go`, `rpc.go`, `worker.go`)

A job queue with dependencies between jobs (`SubmitJobs`, `scheduleJob`, `Finish`), a coordinator
that creates map, reduce and "done" jobs, retries a job after a timeout, accepts
reports and failure reports, and workers that loop over task and report calls. A job
must be finished once and only after its dependencies; the whole must terminate, and its
outputs must be whole.

### Porcupine (`porcupine/*.go`, `models/kv.go`)

`checkSingle` linearizes a partition with a linked list, a stack and a cache of
(linearized set, state) pairs; `checkParallel` runs partitions concurrently and stops
the others on the first failure. It must answer as the definition of linearizability.

### Clerks and servers (`kvraft`, `shardctrler`, `shardkv`)

The servers are stubs with empty handlers. The clerks of `shardctrler` and `shardkv`
are retry loops over servers and groups.

### The rest

`labgob` (encoding), `porcupine/visualization.go` (HTML), `main` and `mrapps` (drivers
and user functions) are input and output only.

## 2. Modules

| Module | What it is |
| --- | --- |
| `Raft` | the peers, the persister, the service above and the network between them |
| `ReplicatedLog` | abstract specification: one append-only log of which every service gets prefixes |
| `MCRaft` | `Raft` for TLC: symmetry, view, reduction, later starting states |
| `RaftLiveness` | `Raft` with fairness: what a leader owes connected followers |
| `RaftGoroutines` | one peer's goroutines and channels |
| `LabRpc` | the network: ends, servers and the steps of one Call |
| `RaftCluster`, `MCRaftCluster` | `LabRpc` driven by `raft/config.go` |
| `JobQueue` | the job queue of MapReduce |
| `MapReduce`, `MCMapReduce` | coordinator, workers and files over `JobQueue` |
| `Linearizability` | the key/value model, and the definition of linearizability as reference |
| `Bitset` | `porcupine/bitset.go` with words of `Width` bits |
| `LinkedEntries` | the doubly linked list of the search, with `lift` and `unlift` |
| `CheckSingle` | the search of porcupine over `Bitset` and `LinkedEntries`, one iteration per step |
| `CheckParallel` | its goroutines, timeout and kill flag, over the verdicts of searches |
| `Checker`, `MCChecker` | `CheckOperations`: the partition by key, `CheckParallel` and a search of `CheckSingle` together |
| `RaftElectionSafety` | lemmas on the operators of `Raft`; its steps keep the types, one vote per term and one leader per term |
| `RaftLogMatching` | without snapshots, steps keep logs matching and matchIndex durable |
| `RaftCompleteness` | without snapshots, steps keep what is committed and the order of application, and map to steps of `ReplicatedLog` |
| `RaftSafety` | the theorems about `Raft`, from the three modules above |
| `RaftGoroutinesProofs` | proofs about requests, replies and reigns in `RaftGoroutines` |
| `MapReduceProofs` | proofs about the queue, the inputs and the outputs of `MapReduce`, and that nobody is left waiting |
| `RaftClusterProofs` | proofs about calls and crashes in `RaftCluster` |
| `CheckerProofs` | proofs about the results of `CheckParallel`, and that `unlift` undoes `lift` |

### How `Raft` corresponds to the code

A variable is the field of `struct Raft` of the same name, as a function of the peer.
`grantedVotes` is the local of `runAsCandidate`. `persister` is what the last `persist`
or `SaveStateAndSnapshot` stored. `service` and `snapshotReqs` are the test service:
the messages it has taken and its `Snapshot` goroutines that still wait. `panicked`
says that a slice or index expression was out of range; such a peer does nothing until
it is restarted. `ballots` and `applied` are history variables: every vote granted and
every entry sent on an applyCh. No action reads them.

An action is a whole handler. Where a handler has several early returns, each group of
paths with the same effect is an action of its own: `handleRequestVote` is
`DeclineVote`, `GrantVote` and `RefuseVote`; `handleAppendEntries` is
`RefuseStaleAppend`, `RejectAppend` and `AcceptAppend`; `handleInstallSnapshot` is
`RefuseInstall`, `ReceiveNilSnapshot` and `InstallSnapshot`. `CountVote` includes the
entry into `runAsLeader` with its first heartbeat. `applyToClient` includes what the
service does with the messages.

*Crashes.* `Restart` crashes a peer between two handlers. Inside a handler only the
last `persist` that has happened matters, so `CrashAfterTerm` crashes after
`handleHigherTermFound`, and `CrashInAppend` after the cut and some of the appends of one
AppendEntries call. A crash after the last `persist` of a handler and before its reply
is `Restart` after the handler with the reply lost.

*Network.* A message that is never received is lost; any message may be received at any
later time. A RequestVote call or vote is received at most once, since `labrpc` never
duplicates a call and an election sends each call once. AppendEntries and
InstallSnapshot calls stay available after they are received, because the leader's
timers send the same call again as long as its state does not change.

*Data.* A command is a model value. A snapshot is the sequence of messages that the
service had taken. Encoding and decoding keep values, except for what the code does not
encode: `persist` stores the snapshot's index and term only beside a snapshot,
and `handleInstallSnapshot` stores none.

*Simplifications to know of.* Timers may fire at any time, so elections are not delayed
by heartbeats; this only adds behaviours. `Extension` takes the entries of one call to be
numbered consecutively; `LogIndexed` and `CallIndexed` check this where no restart loses the
snapshot's index. When `broadcastAppendEntries` panics the model sends none of that
round's calls. The crash points inside `handleInstallSnapshot` after its save are those
of `Restart`, because nothing is stored after it.

*Bounds.* `MaxTerm` (no election beyond it), `MaxIndex` (no command beyond it),
`MaxRestarts` (crashes per peer). The model stops when they are used up, so deadlock is
not checked in these runs.

### `RaftGoroutines`

What handlers do to terms and logs is left to `Raft`; here a handler may change the status
and have messages for applyCh. Channels are unbuffered, so a send and its receive are one
step. `CallReturns` reads the field `appendEntriesReplyCh` only after the call, as the
goroutine of `appendEntries` does, so an answer can reach a later reign. RPC handlers of a
killed peer, and `appendEntries` goroutines of a deposed leader whose channel nobody
receives from again, wait for ever: only `Start` also waits for `mainContext`.

### `LabRpc`, `RaftCluster`

A Call is the caller, `processReq` and the goroutine of the handler. A server object is
numbered by the start that made it, so `isServerDead` compares numbers. Drops and late
replies are choices; sleeps have no length. `crash1` and `start1` are step by step, since
calls under way see what is between; `connect` and `disconnect` are one step, because a call
looks at one end only. A killed instance goes on running handlers. A handler stores its call
in the persister before it returns.

### `JobQueue`, `MapReduce`

`scheduleJob` goroutines are counted per job, before the send and between the send and the
store. A report is finished by a goroutine of its own. A worker that dies may leave a
GetTask call behind that takes a job and answers nobody, and the test scripts start another
worker. An intermediate file either exists or not; an output is the set of maps whose
pairs it holds; `torn` are the outputs whose last writer died between `os.Create` and the writing.
A worker whose report call is under way when the coordinator ends goes on once more instead of
ending itself. This is the behaviour in which the coordinator ends just after the call, so the
model has no further action for it.

### `Bitset`, `LinkedEntries`, `CheckSingle`, `CheckParallel`, `Checker`

`makeLinkedEntries` is the loop of the code, one `insertBefore` per entry from the last to the
first. `CheckSingle` keeps the linked list with its `next` and `prev`, the stack, the bitset of
linearized operations and the cache, which is searched by hash first. `CheckParallel` takes from
a search that it returns the truth, or false once it may have seen the kill flag. `Checker`
puts the two together: a history of several keys is partitioned, every key has its goroutine,
and that of the key `Searched` takes the steps of `CheckSingle` with the kill flag of the
collector. The other goroutines stay abstract; since any key may be the searched one, nothing
is lost. Strings are sequences of appended values.

## 3. What the runs check

### Raft: safety

These runs use `MCRaft` and assume no fairness: they check safety properties.

| Run | Start and bounds | Properties |
| --- | --- | --- |
| `RaftElections` | *first* start, 3 peers, 3 terms, no commands, 1 crash each; and *Lagging*, logs up to index 2, snapshots every 2 entries, a crash of the leader | TypeOK, ElectionSafety, OneVotePerTerm, LogIndexed, CallIndexed, AppliedInOrder |
| `RaftLogs` | *Stored*, 1 entry, 1 more term with one candidate; and *Diverged*, either logs of 2 entries or a second command value and 1 more term | LeaderCompleteness, StateMachineSafety, LogMatching, ImplementsReplicatedLog |
| `RaftRestarts` | *Elected*, 2 peers, 2 different commands, 2 entries, 1 crash each | MatchIsDurable, NoPanic, ProgressKept, ImplementsReplicatedLog |

These pass. A run from two starts keeps the bounds of each start: `LogsWithin` in its next-state
relation, `ElectionsWithin` as a state constraint. Of the peers of *Lagging* only the leader, which holds
the snapshot with its index, has a crash left. A crash of a peer after InstallSnapshot is what
`RaftLostIndex` is about. Three peers are the
least for which a majority can change hands; two peers with crashes make every entry depend on
both disks. Three terms are needed for the replaced-majority scenario of the Raft paper's figure
8, which is why *Diverged* starts in the third election; the mutant that commits entries of
earlier terms by counting copies is found there.

Three runs state what a comment or a check of the repository says, and TLC refutes it:

| Run | Property | What happens |
| --- | --- | --- |
| `RaftLostIndex` | AppliedInOrder | `handleInstallSnapshot` stores the snapshot without its index; after a crash the peer numbers its log from 1 and applies entries again |
| `RaftStaleInstall` | ProgressKept | a delayed InstallSnapshot moves lastApplied back |
| `RaftStaleTail` | CommandsAgree | the conflict loop stops at an entry below the snapshot, so a stale entry behind it is committed |

`NoPanic` does not hold with snapshots either: two `Snapshot` requests that wait in their goroutines
and are handled in the other order make `handleSnapshot` slice the log at a negative position. TLC
finds it with `LaggingSpec` of `MCRaft`, three peers, one command, `SnapShotInterval = 2`, `MaxTerm = 3`,
`MaxIndex = 3`, no restarts, and symmetry, view and `EagerSend` as in the other configurations. There
is no configuration file for it.

### Raft: liveness and goroutines

| Configuration (module) | Bounds | Properties |
| --- | --- | --- |
| `RaftCatchUp` (`RaftLiveness`) | *Diverged*, in touch with the peer with the conflicting log; and *Lagging*, in touch with the peer without a log; the third peer cut off, logs up to index 2 | AcceptedIsApplied, SnapshotInstalled |
| `RaftChannels` (`RaftGoroutines`) | 1 caller, 1 handler, 2 calls, 2 reigns, bursts of 2, 1 waiting snapshot | AnswersOfThisReign, StartReturns, RpcsAnswered, MainReturns |

`SnapshotInstalled` is about a leader whose log is not empty, because `requestInstallSnapshot`
is only called then (raft.go:518): while the leader's snapshot covers its whole log, a
follower that lacks it refuses every call and is sent no snapshot until `Start` accepts a further
command, although the comment above the condition describes exactly that follower. The leader takes no further snapshot in this run.
`AcceptedIsApplied` is about a leader that holds its whole log: an InstallSnapshot call stays
available in the model and may be received again and again, which undoes what was appended
each time, and in the code takes a refused append each time.

*Fairness.* The leader's timers are reset each time they fire, so it keeps sending and
applying; some copy of a call that it keeps repeating is delivered, and so is the answer.
Nothing is assumed of calls it no longer makes, nor of `Start` and `Snapshot`. The third peer
is cut off to keep the state space small; a majority is left, and its messages could only
help the commit. In `RaftGoroutines` a goroutine that can go on does, and Go's select
chooses at random among the ready cases, which is strong fairness of each case; no timer
need fire. Deadlock is checked there.

### Network and test configuration

| Configuration (module) | Bounds | Properties |
| --- | --- | --- |
| `RpcCrashes` (`MCRaftCluster`) | 2 servers, 3 boots, 1 call | RpcInv, PositiveReplyPersisted, EndsFollowConnected, CallsReturn, HandlersEnd |

Calls do not interact with each other, so one is enough; the third boot lets a call meet
an instance, its successor and the next. *Fairness.* The network's goroutines run, and
handlers of an instance that was not killed return. Nothing is assumed of the test or of
killed instances; `CallsReturn` excepts a handler that never returns on a server that is never
deleted, as the header of `labrpc.go` does.

### MapReduce (`MCMapReduce`)

| Configuration | Bounds | Properties |
| --- | --- | --- |
| `MapReduceRuns` | 2 maps, 1 reduce, 2 workers, queue of 1; one map has nothing for the reduce; either 1 timeout and 1 death, or 1 lost file and then 1 timeout | TypeOK, ReduceHasInputs, NoFailureReported, OutputReady, NeverStuck |

Two maps make the reduce wait for two dependencies, the queue of 1 makes senders wait, and two
workers run two attempts of one job side by side. `FaultsWithin` keeps deaths and lost files
apart. After a lost file `LossFirst` lets only a job that the report of the loss made time out, and
`PromptStore` then has `scheduleJob` store at once what it sent. The interleavings left out are those
of a lost file with an earlier retry; the theorems of section 4 cover them.

`ReduceHasInputs` and `NoFailureReported` say that a reduce is given every file the maps made for
it, and finds them. `OutputReady` says that when the last job has been taken every output is whole, whatever
workers died. Without a timeout it has no exception, since each reduce then runs once. After one, a
second attempt of the reduce may have truncated the output (worker.go:189): it is still writing, or died
before it wrote.

`NeverStuck` looks at the states in which nothing but a fault can happen: the coordinator has
ended and the workers have stopped. As every step takes a job or a worker further along and the
faults are bounded, each run gets to such a state, so this is what a liveness property would say.
It is stated as an invariant to allow symmetry, and needs no fairness. That nothing but a fault can
happen is `~CanGoOn`, the guards of `Progress` written out, since nothing can be proved about
ENABLED; TLC found `CanGoOn` equal to `ENABLED Progress` in every state of the run. It has two exceptions:
the report of a part that was dropped, which the code does not prevent, and a job that is watched
when the bound on timeouts is used up, which the code would retry.

One run states what the repository says of the outputs, and TLC refutes it:

| Configuration | Property | What happens |
| --- | --- | --- |
| `MapReduceLostFile` | OutputFinal | 1 lost file, no timeout, no death: the reduce reports the file it cannot open, goes on, writes an output without it and reports itself done; main returns before what `ReportMapFailure` queued has run |

coordinator.go:140 says that such reduces "will not proceed; and will be automatically retried", and
test-mr.sh compares the outputs once a process has exited, because "that means the job has finished"
(main/test-mr.sh:129-130) and "the output should be finalized" (:296). With `MaxLost = 0` and
`MaxRetries = 1` TLC refutes `OutputFinal` too: a second attempt of a reduce truncates its output after
main has returned.

Two more things the code does differently than its comments say, or than it means to, are allowed by
the properties:

* A report that comes between the send of a job and its store (jobqueue.go:82 and 83) is
  dropped, although the comment at jobqueue.go:105 speaks of jobs that are "already finished, or
  never in the queue". A dropped report of a part leaves its reduce waiting: the first exception of
  `NeverStuck`.
* A retried job is stored again after it has finished, so its second report closes Done twice
  (jobqueue.go:112) and the coordinator panics. `NeverStuck` shows that its workers stop.

### Porcupine

| Configuration (module) | Bounds | Properties |
| --- | --- | --- |
| `Checker` (`MCChecker`) | histories of up to 3 operations on 2 keys, times 1 to 2, words of 2 bits; verbose or not, with or without timeout | ListIsRest, LongestIsLongest, CollectorInv, ResultCorrect, NoRaceOnLongest, AnswerCorrect, ImplementsCheckParallel, Returns, GoroutinesEnd |

The operations on the searched key are a put and an append of one value and a get of it once;
three of them with equal and different times overlap in every way, and the outcome of the get
depends on the order of the other two, which a cache without states gets wrong. Entries with
equal times are sorted in every way. On the other key there is a put, which is linearizable, or a
get that is not. Three operations in words of two bits fill one word and a part of the next. Of
histories that only number their operations differently one is checked.

`ImplementsCheckParallel` is the specification of `CheckParallel`, over which the theorems of section 4
are stated: it shows that the search is what that specification takes it to be. `AnswerCorrect`
compares the answer with a linearization of the whole history, not key by key. `Returns`
excepts a history without partitions checked without a timeout: the number of verdicts is only
compared after one was received (checker.go:302), so that call never returns. *Fairness.* Some
goroutine that can go on, or the timer, does; none can run for ever, so nothing is asked between them.

The comments at porcupine.go:11 and :18 say that "if this operation times out, then a false positive is
possible". They are older than the result `Unknown`: a timeout makes the answer `Unknown`, and
`ResultCorrect` shows that `Ok` and `Illegal` are true with a timeout as well.

### Starting states

The later starts of `MCRaft` spare TLC the way to them. Each is the state after a
run of the model without crashes in which every other message is lost:

* *Elected*: l asks for votes in term 1, v grants, l counts it.
* *Stored*: the same, and l has accepted a command.
* *Diverged*: l wins term 1 with v and accepts a command; r asks for votes in term 2, v
  grants, l refuses and learns of the term, and r accepts another command; l runs in term 3
  and v, whose log is empty, grants. r has refused, because its own log is newer.
* *Lagging*: l wins term 1 with v, replicates a command to v, commits and applies it,
  and its service takes a snapshot. v runs in term 2; l and w grant their votes, and both
  answers are lost. l wins term 3 with v.
* *StaleTail*: f wins term 1 with everybody, replicates a command to all, commits and
  applies it, snapshots, and accepts a second command. l wins term 2 with v; f refuses,
  because its own log is longer.

What such a peer holds in memory is what its persister holds. nextIndex and matchIndex of
a peer that is no leader are set to 0 in these starts; they are not read before the next
election won sets them.

### Symmetry, view and reduction

Peers and commands are interchangeable in the specification, the starts and every
property.

`View` leaves out what can have no effect any more. Terms never decrease and a peer
leads or runs in one term at most once, so a call that is ignored now by its receiver
and whose refusal nobody would act on is ignored for ever; likewise a reply whose
caller has left the term. nextIndex and matchIndex are reset on entry to `runAsLeader`, so
only a leader's are kept.

`EagerSend` fixes an order. A step that only adds an AppendEntries call or a reply that
counts takes nothing away: both stay available for good, and need not be received. So
such steps may come first, and every state of the peers stays reachable. The
action constraint lets TLC take only such steps while there is one; `EagerNext` is the same as
a next-state relation, for `RaftLogs`. As a check of
this argument, the sets of local peer states reached with and without view and constraint
were compared for two peers, with (MaxTerm, MaxIndex, MaxRestarts) equal to (1, 1, 1),
(2, 1, 0) and, with snapshots at every index, (1, 1, 0): they are equal, 201, 115 and 42
states.

The workers of `MapReduce` are interchangeable too. Runs with liveness properties use neither
symmetry nor view.

### Refinement

`ImplementsReplicatedLog` maps the entries applied so far to the log of `ReplicatedLog` and the
services to its `delivered`. Each abstract position holds the set of messages that were
ever sent for that index, so two different messages for one index change an abstract position
that must stay as it is. A step of the peers is a `Deliver` or a `Restart` of one
service, or changes neither. `ImplementsCheckParallel` needs no mapping: `Checker` has the variables of
`CheckParallel`, and the iterations of a search change none of them before it returns.

### Mutants

Each property of a passing run has a faulty variant of a definition beside the original, for
example a vote that is not stored, an entry of an earlier term committed by counting, a
`Snapshot` that waits for the main goroutine, a persister copied before its server is
deleted, or a cache that looks only at the set of linearized operations. With the variant in
place TLC finds the property violated, so each property depends on the code.

## 4. What is proved

### Raft

The theorems hold for every finite set of peers, every set of commands and every value
of the bounds. The only assumptions are the two in `Raft`: `Server` is finite and `Nil`
is not in it, and the bounds are natural numbers.

`RaftSafety` holds the theorems, which are temporal. The lemmas about initial states and single
steps are in the three modules it extends, one for each inductive invariant. Those lemmas have the
hypothesis `Background`: every non-empty set of naturals has a least element, and what the proofs use
of the sizes of sets of peers (two majorities meet). `RaftSafety` proves it (`SizesKnown`) from the library's
theorems on finite sets, so no theorem depends on it.

* `TypeCorrect` (lemmas in `RaftElectionSafety`): `Spec => []TypeOK`. The type invariant is inductive. The work
  lies in the searches of the handlers: `Least` and `Greatest` pick an element because the set
  they are applied to is not empty and bounded (`ConflictType`, `UpdateCommitIndexType`,
  `BackOffType`), and every slice stays in the log (`SliceIsSeq` and its uses). The
  proof splits the invariant along the variable groups an action leaves unchanged, with
  one lemma per action.
* `VotesAreUnique` and `LeadersAreUnique` (lemmas in `RaftElectionSafety`): `Spec => []OneVotePerTerm`
  and `Spec => []ElectionSafety`. Neither is inductive. The invariant `ElectionInv` adds:
  - `VoteStored`: term and vote in memory are the stored ones, so a restart forgets none;
  - `VoteRemembered`: a vote lies in a term its voter and candidate have reached, and if
    that is the voter's current term, votedFor holds it;
  - `CallUnanswered`: a RequestVote call under way is the only one of its caller, peer and
    term, and has not been granted. This is why clearing votedFor on a refusal is
    safe: the cleared vote cannot have been one for the caller, and `CanVote` excludes
    one for anybody else;
  - `GrantBacked`: every granting reply under way stands for one ballot;
  - `CountBacked`: a candidate's count is at most the number of ballots whose
    reply has arrived;
  - `LeaderElected`: a leader has a majority of the ballots of its term.

  Two majorities share a peer, which has one vote. All steps but three
  (`startElection`, `GrantVote`, `CountVote`) are shown to be `NoVote` steps, and one
  lemma shows that these keep the invariant. `ElectionInv` was model-checked first,
  for three peers, two terms and a crash each.

The theorems that follow, with lemmas in `RaftLogMatching` and `RaftCompleteness`, hold for every finite set of peers and
set of commands, all bounds, crashes included, and lost, delayed and repeated messages, under one more
hypothesis: `SnapShotInterval = 0`, a service that takes no snapshots, as in the tests of labs 2A
to 2C. With snapshots several of them are false: `RaftLostIndex` refutes `AppliedInOrder`,
`RaftStaleInstall` refutes `ProgressKept`, `NoPanic` fails as section 3 says, and in
`RaftStaleTail` two services are sent different commands for one index.

* `StoredLogIsLog`: no snapshot ever comes about (`NoSnapshots`), and the stored log is the log in
  memory, at the crash points inside handlers too.
* `LogsMatch`, `EntriesAreNumbered`, `CallsAreNumbered`, `MatchesAreDurable`: `LogMatching`,
  `LogIndexed`, `CallIndexed` and `MatchIsDurable`. None is inductive. The invariant `LogInv` says
  that there is one log per term, the one its leader has built (`canon`), such that
  - the log of a leader is that of its term, and every call is a slice of it (`LeadersHold`,
    `CallsFromLeaders`);
  - up to each of its entries a log is the log of that entry's term (`LogsBacked`, `Consistent`),
    and a candidate's entries are all of earlier terms (`CandidatesBehind`);
  - a peer that answered an AppendEntries call with success still has what it confirmed while it
    stays in that term (`RepliesKept`), and a matchIndex above 0 stands for such an answer
    (`MatchReported`).

  The logs per term are no variable of the model but a witness of the invariant, and the proof
  names the next witness: it changes only when a leader is elected or accepts a command
  (`GrowStep`); all other steps leave it alone (`SteadyStep`). The core is `AcceptedLog`, on
  what the two loops of `handleAppendEntries` make of a log (`TruncateCases`, `ExtensionCases`): a
  delayed call that is shorter than the log cuts nothing that its term agrees with.
* `LeadersAreComplete`, `ServicesAgree`: `LeaderCompleteness` and `StateMachineSafety`. The
  invariant `CompletenessInv` adds to `LogInv`, of an entry of its leader's own term that a majority
  has acknowledged, or may still acknowledge because it has not left the term (`Choosable`): every
  later leader has it (`LaterLeadersHave`), whoever acknowledged it keeps it (`AckedIsKept`), and a
  candidate one of these voted for has it (`VotersChoseHolders`). Choosable entries become fewer
  with time, which is what makes this inductive. Every commitIndex, LeaderCommit and applied
  entry lies behind one that is chosen (`CommitSettled`, `CallsSettled`, `AppliedSettled`); that
  `updateCommitIndex` counts only entries of the leader's term is used exactly there.
* `HandlersDoNotPanic`, `ServicesGetEveryIndex`, `ProgressIsKept`: `NoPanic`, `AppliedInOrder` and the
  action property `ProgressKept`, with `ServicesInv`, that a service was sent the applied entries up
  to lastApplied.
* `PeersImplementReplicatedLog`: `Spec => ImplementsReplicatedLog`. Initially the abstract log is empty;
  `applyToClient` maps to `Deliver` (`ApplyDelivers`), a crash to `Restart` (`CrashRestarts`),
  every other step to a stutter.

`LogInv` and `CompletenessInv` were model-checked before they were proved, with the logs per term as
an extra variable.

### Goroutines of a peer (`RaftGoroutinesProofs`)

For any sets of callers, handlers and calls and any number of reigns, from the assumption that
`NoOne` names none of the goroutines: `LeaderHearsItsOwnReign` (`AnswersOfThisReign`) and
`RepliesDoNotBlock`, that the goroutine the main one replies to is waiting, so the send on the unbuffered
channel goes through. Both follow from `Inv`: a caller or handler waits exactly when it is the one
being served.

### MapReduce (`MapReduceProofs`)

For any number of maps, reduces, workers, retries, deaths and lost files, and any choice of the
parts the maps make. `TypesCorrect` (`TypeOK`) has no further hypothesis. `ReducesGetTheirInputs`,
`NoFalseFailures` and `OutputsAreWhole` have one, `KeysDiffer`: no two jobs of
a kind have the same key. The code does not guarantee it. The key of a part is its map's and
its reduce's number without a separator (coordinator.go:126), so with twelve maps and eleven reduces
the parts 1, 10 and 11, 0 are one job to `Finish`. mrcoordinator starts ten reduces
(main/mrcoordinator.go:26), numbered with one digit, so that the keys differ. TLC evaluates the
hypothesis for its instance, that the keys of parts differ for 41 maps and ten reduces (`KeysOfTen`), and that they
do not with eleven (`KeysOfEleven`); that numerals differ for every number is not proved.

The invariant `MRInv` follows a part from its rename to the reduce:

* a job is in the channel only after its dependencies have finished, and doneCh is closed only after
  all reduces have (`SentReady`); a finished part has a file name exactly when its map made one
  (`PartsNamed`);
* a reduce being opened has all its files, or, after a loss, none (`GivenInv`);
* while no file is lost, a part that was reported is on disk, nothing but the initial jobs is
  under way and a reduce's files are complete (`FilesInv`);
* while no file is lost, an output that was reported is whole, or was truncated since (`WholeInv`).

That an output is truncated only after a timeout is a second invariant, `OnceInv`. As long as nothing timed out
and no file is lost, the job of each reduce is in one place only: about to be sent, in the channel or
watched (`Place`). A reduce that is watched has at most one worker; once its report is on its
way or it was torn by a death, it has none (`Course`). So no second worker creates the output.

`MRInv` and `OnceInv` were model-checked first on the instance of `MapReduceRuns`.

`NobodyIsLeftWaiting` (`NeverStuck`) does not need `KeysDiffer`, but at least one worker: without one the
jobs stay in the channel. Its invariant `WaitInv` says why no wait is for ever:

* each map, each reduce and the last job is about to be sent, in the channel or watched
  (`NoneForgotten`), and the GetTask that takes the last job closes doneCh (`LastTaken`);
* mapTask reports its parts in order and then its map, so a map that was reported has had all its parts
  reported, and the report of a part is on the way, accepted or dropped (`Stands`, `PartsFirst`);
* a worker ends only when the coordinator has (`Stands`).

Now let the coordinator be up while nobody can go on. All workers are then asking, the channel is empty and the
last job waits for a reduce that has not finished. That one is watched with no retry left (the second
exception) or waits for a part. The part's map has finished, and then the part's report was dropped (the
first exception), or it has not, and then it is watched with no retry left. `WaitInv` too was
model-checked first.

### The network and crashes (`RaftClusterProofs`)

For every set of servers, every number of boots and every set of calls, from the three
assumptions of `RaftCluster` (at least one server and one boot, and the names of ends):

* `RpcInvariant`: `Spec => []RpcInv`, the inductive invariant. It ties together what is
  apart in the code: a registered server object is the instance that holds the persister;
  while `crash1` or `start1` is past its deletion nothing is registered; a handler that ran
  on the holder has left its effect in the stored state; and a reply that is still going to
  be delivered came from such a handler.
* `PositiveRepliesPersist`: a call that returned true is in the state the next instance
  starts from. It follows from the last part of `RpcInv`, and is not inductive alone: it says
  nothing of a call whose handler has returned and whose reply is still to be checked.
* `EndsAreConnected`: the enabled ends are those between connected servers by the
  names of their last boots.

### The checker (`CheckerProofs`)

For every set of partitions, with no assumption: `CollectorInvariant` (inductive: nobody
is killed before the loop is left, so the verdicts received are true, and the result is made of
`ok` and `timedOut`), `CheckOperationsCorrect` and `LongestNotRaced`, which follow from it.
`CollectorInv` does not contain `ResultCorrect`: that `Ok` and `Illegal` are true is drawn from what it says
of the verdicts received.

About the list of the search, for every number of entries. `Linked(l, rest)` says that the links lead
from the head through the entries in `rest`, in their order, and back; `ListIsRest` says it of the
entries not linearized. `EntriesLinked`: the list that the loop of `makeLinkedEntries`
builds is linked. After each `insertBefore` the nodes put in so far are linked; the proof
looks at the least number of iterations after which they would not be. `UnliftUndoesLift`:
in a linked list, `lift` of a call and its return leaves the others linked, and `unlift` restores exactly
the links that were there, whether or not the two are neighbours or the return is the last entry. Neither
meets nil in `entry.next`, for which checker.go:161 and :176 do not test. It holds because `lift` leaves the
links of the nodes it takes out as they are, and `unlift` treats them in the opposite order.

### Only model-checked

* Raft with snapshots: `LogIndexed`, `CallIndexed` and `AppliedInOrder` in the second start of
  `RaftElections`. `TypeOK`, `ElectionSafety` and `OneVotePerTerm` are proved with snapshots too.
* Liveness (`AcceptedIsApplied`, `SnapshotInstalled`, `StartReturns`, `RpcsAnswered`, `MainReturns`,
  `CallsReturn`, `HandlersEnd`, `Returns`, `GoroutinesEnd`): out of the prover's reach.
* `CheckSingle` and `Checker` (`ListIsRest`, `LongestIsLongest`, `AnswerCorrect`,
  `ImplementsCheckParallel`). `ListIsRest` is about the bits of words, for which the provers have no
  theory, and counts them with a fold; only its linked list is proved about, above. The others compare with RECURSIVE
  operators, which the SMT backend cannot be used with.

## 5. Not modelled

* The servers of `kvraft`, `shardctrler` and `shardkv`, and the clerk of `kvraft`: stubs with
  empty bodies.
* The clerks of `shardctrler` and `shardkv`: retry loops over servers that have no code, so what
  they achieve would be a property of assumed servers.
* `kvraft/config.go`, `shardctrler/config.go` and `shardkv/config.go`: their crash, restart and
  connection steps are those of `raft/config.go`; partitions, clients and groups serve the stubs.
* Raft: the goroutines of `requestVoteToPeers` and `requestInstallSnapshot` (their effects are in
  `Raft`, their channels are not in `RaftGoroutines`); `GetState`; `CondInstallSnapshot`, which
  always answers true. Election time-outs and heartbeat periods have no duration.
* `labrpc`: `LongDelays` (only a duration), the counters, and the reflection of `MakeService`.
* The checks and statistics of the test configurations (`checkOneLeader`, `nCommitted`, `one`,
  `wait`, `begin`, `end`): they observe.
* Porcupine: `checkEvents` with `renumber` and `convertEntries`, which nothing in the repository
  calls except the exported functions around it; the visualization, which writes HTML.
* `labgob` (encoding and warnings), and `main` and `mrapps` except how the coordinator's main
  ends and how crash.go and wcfail.go fail.
