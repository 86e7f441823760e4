------------------------------ MODULE Checker ------------------------------
(***************************************************************************)
(* CheckOperations of porcupine as a whole, on histories of the store of   *)
(* models/kv.go: the history is split by key, checkParallel (module        *)
(* CheckParallel) starts a goroutine per key, and the goroutine of one     *)
(* key, Searched, goes through the search of checkSingle (module           *)
(* CheckSingle) step by step, next to the others and to the kill flag.     *)
(* The goroutines of the other keys are as CheckParallel has them: this    *)
(* module shows that they may be, for Searched may be any of the keys.     *)
(***************************************************************************)
EXTENDS CheckParallel, Linearizability

CONSTANTS
  History,   \* the histories checked (bounds their length and times)
  Searched,  \* a key, one of Partitions
  Width      \* the bits of a word of a bitset

VARIABLES
  operations,  \* the argument of CheckOperations
  shard,       \* its operations on Searched
  entries, next, prev, entry, calls, state, linearized, cache, longest,
  found        \* of the search of Searched: see CheckSingle

search == <<shard, entries, next, prev, entry, calls, state, linearized, cache,
            longest, found>>
checkerVars == <<vars, operations, search>>

Search == INSTANCE CheckSingle WITH
  history <- shard, computePartial <- computeInfo, result <- found

CheckOperations ==
  LET shards == Partition(operations) IN
  /\ operations \in History
  /\ history = DOMAIN shards
  /\ linearizable = {k \in history : Linearizable(shards[k])}
  /\ shard = IF Searched \in history THEN shards[Searched] ELSE <<>>
  /\ Init
  /\ Search!Init

-----------------------------------------------------------------------------
\* An iteration of the search; when it returns, its goroutine has the verdict.
Iterate ==
  /\ Searched \in history /\ worker[Searched] = "checking"
  /\ UNCHANGED operations
  /\ Search!checkSingle
  /\ IF found' = "running" THEN UNCHANGED <<worker, verdict>>
     ELSE /\ worker' = [worker EXCEPT ![Searched] = "storing"]
          /\ verdict' = [verdict EXCEPT ![Searched] = (found' = "true")]
  /\ UNCHANGED <<input, results, count, ok, timedOut, kill, caller, result>>

Goroutine(p) ==
  \/ p = Searched /\ Iterate
  \/ /\ (p # Searched /\ checkSingle(p)) \/ StoreLongest(p) \/ Send(p)
     /\ UNCHANGED <<operations, search>>

Caller == Collect /\ UNCHANGED <<operations, search>>

CheckerNext == Caller \/ \E p \in history : Goroutine(p)

\* Some goroutine that can go on does: no fairness between them is needed, for none
\* can run for ever.
CheckerSpec ==
  CheckOperations /\ [][CheckerNext]_checkerVars /\ WF_checkerVars(CheckerNext)

-----------------------------------------------------------------------------
\* The list of entries and the bitset agree, see CheckSingle.
ListIsRest == Search!ListIsRest

\* What a verbose check shows is the longest there is, see CheckSingle.
LongestIsLongest == Search!LongestIsLongest

\* The answer is about the whole history although each search sees one key: Ok only if
\* there is one order of all its operations that the store allows, Illegal only if
\* there is none.
AnswerCorrect ==
  /\ result = "Ok" => LinearizableStore(operations)
  /\ result = "Illegal" => ~LinearizableStore(operations)

\* The search is what checkParallel relies on: it returns the verdict of the reference,
\* or false after it was killed, and does nothing else that the caller sees.  The cache and
\* the list lose no order that could succeed.
ImplementsCheckParallel == Spec
=============================================================================
