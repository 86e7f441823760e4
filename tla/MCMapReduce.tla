----------------------------- MODULE MCMapReduce -----------------------------
(* Small instances of MapReduce. *)
EXTENDS MapReduce, TLC

\* Every map makes something for every reduce, except map 0 for reduce 0.
AllButOne == MapTask \X ReduceTask \ {<<0, 0>>}

ASSUME KeysDifferHere == KeysDiffer

\* With ten reduces the keys of the parts differ, here of 41 maps; with eleven they do not.
ASSUME KeysOfTen ==
  \A m, n \in 0 .. 40, r, s \in 0 .. 9 : PseudoKey(m, r) = PseudoKey(n, s) => m = n /\ r = s
ASSUME KeysOfEleven == PseudoKey(1, 10) = PseudoKey(11, 0)

WorkerSymmetry == Permutations(Worker)

\* The faults of one behaviour: a timeout and a death; or a lost file, and then a timeout
\* of a job that the report of the loss made.
FaultsWithin == lost = 0 \/ crashes = 0

LossFirst ==
  /\ lost' > lost => retries = 0
  /\ retries' > retries => lost = 0 \/ \E j \in Job : j.bare /\ watching'[j] < watching[j]

\* After a lost file and a timeout, scheduleJob stores what it sent before anything else
\* happens.
PromptStore ==
  lost > 0 /\ retries > 0 /\ Up /\ (\E j \in Job : storing[j] > 0) =>
    \E j \in Job : storing'[j] < storing[j]
=============================================================================
