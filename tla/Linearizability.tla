-------------------------- MODULE Linearizability --------------------------
(***************************************************************************)
(* What it means for a history of key/value operations to be linearizable, *)
(* and the model models/kv.go gives the checker of porcupine: the values   *)
(* of one key, a step per operation, and a partition of a history by key.  *)
(*                                                                         *)
(* A history is a sequence of operations, each with its input (Op, Key,    *)
(* Value), its output (Output, of a get) and the times of its call and its *)
(* return.  A string is the sequence of the values appended to it.         *)
(***************************************************************************)
EXTENDS Integers, Sequences, SequencesExt

\* KvModel.Init
InitState == <<>>

\* KvModel.Step: is the output possible in this state, and the new state.
Step(state, op) ==
  [ok |-> op.Op = "get" => op.Output = state,
   state |-> CASE op.Op = "get" -> state
               [] op.Op = "put" -> <<op.Value>>
               [] op.Op = "append" -> Append(state, op.Value)]

\* Faulty: the first operation of a key is left out.
DropFirst(history) ==
  LET keys == {history[i].Key : i \in DOMAIN history}
  IN [k \in keys |-> Tail(SelectSeq(history, LAMBDA op : op.Key = k))]

\* KvModel.Partition: the operations of each key, in the order of the
\* history.  (The partitions are returned in the order of the keys, which the
\* checker does not depend on.)
Partition(history) ==
  LET keys == {history[i].Key : i \in DOMAIN history}
  IN [k \in keys |-> SelectSeq(history, LAMBDA op : op.Key = k)]

-----------------------------------------------------------------------------
\* The reference.  An order is a sequence of indices of the history.

\* Operation a returned before b was called.
Precedes(history, a, b) == history[a].Return < history[b].Call

\* The sequences of distinct operations that a linearization may begin with
\* as far as the times go: an operation comes after all that precede it.
Orders(history) ==
  {order \in UNION {SetToSeqs(S) : S \in SUBSET DOMAIN history} :
     \A i \in DOMAIN order : \A a \in DOMAIN history :
       Precedes(history, a, order[i]) => \E j \in 1 .. i - 1 : order[j] = a}

\* The state after the operations in this order, and whether each had the
\* output that the sequential store gives.
Replay(history, order) ==
  FoldLeft(LAMBDA r, i : LET s == Step(r.state, history[i])
                         IN [ok |-> r.ok /\ s.ok, state |-> s.state],
           [ok |-> TRUE, state |-> InitState], order)

PartialLinearizations(history) ==
  {order \in Orders(history) : Replay(history, order).ok}

Linearizable(history) ==
  \E order \in PartialLinearizations(history) : Len(order) = Len(history)

\* The same for a store of several keys.
LinearizableStore(history) ==
  LET keys == {history[i].Key : i \in DOMAIN history}
      ReplayStore(order) ==
        FoldLeft(LAMBDA r, i :
                   LET k == history[i].Key
                       s == Step(r.store[k], history[i])
                   IN [ok |-> r.ok /\ s.ok,
                       store |-> [r.store EXCEPT ![k] = s.state]],
                 [ok |-> TRUE, store |-> [k \in keys |-> InitState]], order)
  IN \E order \in Orders(history) :
       Len(order) = Len(history) /\ ReplayStore(order).ok
=============================================================================
