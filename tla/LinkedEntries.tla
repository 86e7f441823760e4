--------------------------- MODULE LinkedEntries ---------------------------
(***************************************************************************)
(* The doubly linked list of porcupine/checker.go on which checkSingle     *)
(* searches: a record of the links next and prev.  A node is its position  *)
(* in the sorted entries, 0 the head that checkSingle puts before them.    *)
(***************************************************************************)
EXTENDS Integers

Nil == -1
Head0 == 0

\* Put node n before the node mark, if there is one.
insertBefore(l, n, mark) ==
  LET beforeMark == l.prev[mark]
      nx == [l.next EXCEPT ![n] = mark]
      pv == [l.prev EXCEPT ![mark] = n]
  IN IF mark = Nil THEN l
     ELSE IF beforeMark = Nil THEN [next |-> nx, prev |-> pv]
     ELSE [next |-> [nx EXCEPT ![beforeMark] = n], prev |-> [pv EXCEPT ![n] = beforeMark]]

\* The loop makes the nodes from the last to the first, each before the root; its last
\* iteration stands for the head.
makeLinkedEntries(length) ==
  LET Root(k) == IF k = 0 THEN Nil ELSE length + 1 - k
      Loop[k \in 0 .. length + 1] ==
        IF k = 0 THEN [next |-> [n \in 0 .. length |-> Nil], prev |-> [n \in 0 .. length |-> Nil]]
        ELSE insertBefore(Loop[k - 1], Root(k), Root(k - 1))
  IN Loop[length + 1]

\* Take node n out of the list, and put it back.
Out(l, n) ==
  LET nx == [l.next EXCEPT ![l.prev[n]] = l.next[n]]
  IN [next |-> nx,
      prev |-> IF l.next[n] = Nil THEN l.prev
               ELSE [l.prev EXCEPT ![l.next[n]] = l.prev[n]]]

\* Faulty: the previous link of the next node is not restored.
BackOneWay(l, n) ==
  [next |-> [l.next EXCEPT ![l.prev[n]] = n], prev |-> l.prev]

Back(l, n) ==
  [next |-> [l.next EXCEPT ![l.prev[n]] = n],
   prev |-> IF l.next[n] = Nil THEN l.prev
            ELSE [l.prev EXCEPT ![l.next[n]] = n]]

\* lift and unlift of a call n with its return m.  Where the code assigns link
\* by link, a later assignment sees the earlier ones.
Lifted(l, n, m) == Out(Out(l, n), m)
Unlifted(l, n, m) == Back(Back(l, m), n)

\* From the head the list leads through the nodes of rest, in their order, and back.
Linked(l, rest) ==
  LET in == rest \cup {Head0}
  IN /\ \A a \in in : l.next[a] = Nil \/ (l.next[a] \in rest /\ a < l.next[a] /\ l.prev[l.next[a]] = a)
     /\ \A a \in in, m \in rest : a < m => l.next[a] # Nil /\ l.next[a] <= m
     /\ \A m \in rest : l.prev[m] \in in /\ l.next[l.prev[m]] = m
=============================================================================
