------------------------------ MODULE MCChecker ------------------------------
(* The histories of a few operations on two keys, as the tests log them: in  *)
(* the order of their returns.  Of the histories that only number their       *)
(* operations differently there is one.                                       *)
EXTENDS Checker

CONSTANTS MaxOperations, MaxTime

Value == "x"

Inputs ==
  <<[Op |-> "put", Value |-> Value], [Op |-> "append", Value |-> Value],
    [Op |-> "get", Output |-> <<Value>>]>>

Intervals ==
  {t \in [Call: 1 .. MaxTime, Return: 1 .. MaxTime] : t.Call <= t.Return}

Operation(x) == Inputs[x.input] @@ x.interval @@ [Key |-> x.key]

Operations == [input: DOMAIN Inputs, interval: Intervals, key: {Searched}]

\* On the other keys, something that is linearizable and something that is not.
Others ==
  [input: {1, 3}, interval: {[Call |-> 1, Return |-> MaxTime]}, key: Partitions \ {Searched}]

Rank(x) ==
  ((x.interval.Return * MaxTime) + x.interval.Call) * (Len(Inputs) + 1)
  + (IF x.key = Searched THEN x.input ELSE 0)

MCHistory ==
  {[i \in DOMAIN h |-> Operation(h[i])] : h \in
     {h \in UNION {[1 .. n -> Operations \cup Others] : n \in 0 .. MaxOperations} :
        \A i \in 1 .. Len(h) - 1 : Rank(h[i]) <= Rank(h[i + 1])}}
=============================================================================
