--------------------------- MODULE CheckParallel ---------------------------
(***************************************************************************)
(* checkParallel of porcupine/checker.go, as CheckOperations and its       *)
(* variants call it: one goroutine per partition runs checkSingle and      *)
(* sends its verdict; the caller collects verdicts until one is false, all *)
(* are in, or the timeout fires, and then sets the kill flag the searches  *)
(* look at.  A verbose check (computeInfo) goes on to wait for every       *)
(* goroutine, because it reads what they wrote into longest[].             *)
(*                                                                         *)
(* checkSingle is its result in module CheckSingle: the truth, or FALSE    *)
(* once it may have seen the kill flag.  count is the set of partitions    *)
(* whose verdict was received.                                             *)
(***************************************************************************)
EXTENDS FiniteSets

CONSTANT Partitions  \* the partitions a history may have (bounds them)

VARIABLES
  history,       \* the partitions of this history
  linearizable,  \* which of them are linearizable
  computeInfo,   \* verbose
  timeout,       \* a timeout was given
  worker,        \* per partition: where its goroutine is
  verdict,       \* what its checkSingle returned
  results,       \* the channel: the partitions whose verdict is in it
  count,         \* the partitions whose verdict was received
  ok, timedOut,  \* as in the code
  kill,          \* the flag
  caller,        \* where checkParallel is
  result         \* the CheckResult returned, "none" before

input == <<history, linearizable, computeInfo, timeout>>
vars == <<input, worker, verdict, results, count, ok, timedOut, kill, caller,
          result>>

\* What the caller and the goroutines hold has its type.
TypeOK ==
  /\ history \subseteq Partitions
  /\ linearizable \subseteq history
  /\ computeInfo \in BOOLEAN /\ timeout \in BOOLEAN
  /\ worker \in [history -> {"checking", "storing", "sending", "done"}]
  /\ verdict \in [history -> BOOLEAN]
  /\ results \subseteq history /\ count \subseteq history
  /\ ok \in BOOLEAN /\ timedOut \in BOOLEAN /\ kill \in BOOLEAN
  /\ caller \in {"loop", "drain", "info", "judge", "returned"}
  /\ result \in {"none", "Ok", "Illegal", "Unknown"}

\* Any history, and any way to call checkOperations.
Init ==
  /\ history \in SUBSET Partitions
  /\ linearizable \in SUBSET history
  /\ computeInfo \in BOOLEAN /\ timeout \in BOOLEAN
  /\ worker = [p \in history |-> "checking"]
  /\ verdict = [p \in history |-> FALSE]
  /\ results = {} /\ count = {}
  /\ ok = TRUE /\ timedOut = FALSE /\ kill = FALSE
  /\ caller = "loop" /\ result = "none"

-----------------------------------------------------------------------------
\* The goroutine of partition p.

At(p, label, then) ==
  /\ worker[p] = label
  /\ worker' = [worker EXCEPT ![p] = then]

checkSingle(p) ==
  /\ At(p, "checking", "storing")
  /\ \E v \in {p \in linearizable} \cup (IF kill THEN {FALSE} ELSE {}) :
       verdict' = [verdict EXCEPT ![p] = v]
  /\ UNCHANGED <<input, results, count, ok, timedOut, kill, caller, result>>

\* longest[i] = l
StoreLongest(p) ==
  /\ At(p, "storing", "sending")
  /\ UNCHANGED <<input, verdict, results, count, ok, timedOut, kill, caller,
                 result>>

\* Faulty: a channel without room.
SendSynchronously(p) ==
  /\ caller \in {"loop", "drain"} /\ results = {}
  /\ At(p, "sending", "done")
  /\ results' = results \cup {p}
  /\ UNCHANGED <<input, verdict, count, ok, timedOut, kill, caller, result>>

\* results <- ok: the channel has room for all, so nobody waits.
Send(p) ==
  /\ At(p, "sending", "done")
  /\ results' = results \cup {p}
  /\ UNCHANGED <<input, verdict, count, ok, timedOut, kill, caller, result>>

Work(p) == checkSingle(p) \/ StoreLongest(p) \/ Send(p)

-----------------------------------------------------------------------------
\* The caller.

\* Faulty: the comparison is turned round.
LastMissing == count' # history

\* count >= len(history)
AllIn == count' = history

\* case result := <-results
Receive(p) ==
  /\ caller = "loop"
  /\ p \in results
  /\ results' = results \ {p}
  /\ count' = count \cup {p}
  /\ ok' = (ok /\ verdict[p])
  /\ LET refuted == ~ok' /\ ~computeInfo IN
     /\ kill' = (kill \/ refuted)
     /\ caller' = IF refuted \/ AllIn THEN "drain" ELSE caller
  /\ UNCHANGED <<input, worker, verdict, timedOut, result>>

\* Faulty: the timeout is not recorded.
SilentTimeout ==
  /\ caller = "loop"
  /\ timeout
  /\ kill' = TRUE
  /\ caller' = "drain"
  /\ UNCHANGED <<input, worker, verdict, results, count, ok, timedOut, result>>

\* case <-timeoutChan
Timeout ==
  /\ caller = "loop"
  /\ timeout
  /\ timedOut' = TRUE
  /\ kill' = TRUE
  /\ caller' = "drain"
  /\ UNCHANGED <<input, worker, verdict, results, count, ok, result>>

\* Faulty: late verdicts count.
JudgeLate(p) ==
  /\ caller = "drain"
  /\ computeInfo
  /\ p \in results
  /\ results' = results \ {p}
  /\ count' = count \cup {p}
  /\ ok' = (ok /\ verdict[p])
  /\ UNCHANGED <<input, worker, verdict, timedOut, kill, caller, result>>

\* After the loop, a verbose check receives the verdicts still to come.
Drain(p) ==
  /\ caller = "drain"
  /\ computeInfo
  /\ p \in results
  /\ results' = results \ {p}
  /\ count' = count \cup {p}
  /\ UNCHANGED <<input, worker, verdict, ok, timedOut, kill, caller, result>>

\* Faulty: the missing verdicts are not waited for.
NoWait ==
  /\ caller = "drain"
  /\ caller' = IF computeInfo THEN "info" ELSE "judge"
  /\ UNCHANGED <<input, worker, verdict, results, count, ok, timedOut, kill,
                 result>>

Drained ==
  /\ caller = "drain"
  /\ computeInfo => count = history
  /\ caller' = IF computeInfo THEN "info" ELSE "judge"
  /\ UNCHANGED <<input, worker, verdict, results, count, ok, timedOut, kill,
                 result>>

\* The partial linearizations are read out of longest[].
ReadLongest ==
  /\ caller = "info"
  /\ caller' = "judge"
  /\ UNCHANGED <<input, worker, verdict, results, count, ok, timedOut, kill,
                 result>>

Judge ==
  /\ caller = "judge"
  /\ caller' = "returned"
  /\ result' = IF ~ok THEN "Illegal" ELSE IF timedOut THEN "Unknown" ELSE "Ok"
  /\ UNCHANGED <<input, worker, verdict, results, count, ok, timedOut, kill>>

Collect ==
  \/ \E p \in history : Receive(p) \/ Drain(p)
  \/ Timeout \/ Drained \/ ReadLongest \/ Judge

Next == Collect \/ \E p \in history : Work(p)

Spec == Init /\ [][Next]_vars

-----------------------------------------------------------------------------
\* What CheckOperations tells a test is true: Ok means that every partition is
\* linearizable, Illegal that some partition is not.  A search that was
\* killed returns false, but that never makes a history illegal, even when a
\* late verdict and the timeout cross.
ResultCorrect ==
  /\ result = "Ok" => linearizable = history
  /\ result = "Illegal" => linearizable # history

\* Why: until the loop is left nobody was killed, so the verdicts received are
\* the truth; a loop left without timeout has refuted the history or received
\* every verdict; what is drained later is not looked at; and the result is
\* made of ok and timedOut, which do not change any more.
CollectorInv ==
  /\ TypeOK
  /\ results \cup count \subseteq {p \in history : worker[p] = "done"}
  /\ caller = "loop" =>
       /\ ~kill /\ ~timedOut
       /\ \A p \in history :
            worker[p] # "checking" => verdict[p] = (p \in linearizable)
       /\ ok => count \subseteq linearizable
  /\ ~ok => linearizable # history
  /\ caller # "loop" /\ ok /\ ~timedOut => linearizable = history
  /\ caller = "info" => count = history
  /\ result # "none" =>
       /\ caller = "returned"
       /\ (result = "Illegal") = ~ok /\ (result = "Ok" => ~timedOut)

\* When a verbose check reads longest[], no goroutine is still to write it
\* ("otherwise we might race on access to longest[]").
NoRaceOnLongest ==
  caller = "info" => \A p \in history : worker[p] \in {"sending", "done"}

\* checkParallel returns, unless there is no partition and no timeout: the
\* number of results is only looked at after one was received.
Returns == (history # {} \/ timeout) => <>(caller = "returned")

\* Every goroutine ends, also those whose verdict nobody receives: the channel
\* holds one result per partition.
GoroutinesEnd == <>(\A p \in history : worker[p] = "done")
=============================================================================
