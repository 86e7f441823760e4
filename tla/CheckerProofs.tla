--------------------------- MODULE CheckerProofs ---------------------------
(***************************************************************************)
(* checkParallel reports the truth, for every number of partitions; and in *)
(* the list that checkSingle searches, unlift undoes lift, whatever the    *)
(* history's length.                                                       *)
(***************************************************************************)
EXTENDS CheckParallel, LinkedEntries, WellFoundedInduction, TLAPS

\* The invariant holds when checkParallel starts.
LEMMA InitCollector == Init => CollectorInv
  BY Zenon DEF Init, CollectorInv, TypeOK

\* A goroutine of a search preserves it: only a kill, which comes after the
\* loop, lets a verdict differ from the truth.
LEMMA WorkCollector ==
  ASSUME CollectorInv, NEW p \in history, Work(p)
  PROVE  CollectorInv'
<1>1. CASE checkSingle(p)
  BY Zenon, <1>1 DEF checkSingle, At, CollectorInv, TypeOK, input
<1>2. CASE StoreLongest(p)
  BY <1>2 DEF StoreLongest, At, CollectorInv, TypeOK, input
<1>3. CASE Send(p)
  BY <1>3 DEF Send, At, CollectorInv, TypeOK, input
<1>4. QED BY <1>1, <1>2, <1>3 DEF Work

\* Receiving a verdict in the loop preserves it.
LEMMA ReceiveCollector ==
  ASSUME CollectorInv, NEW p \in history, Receive(p)
  PROVE  CollectorInv'
  BY DEF Receive, AllIn, CollectorInv, TypeOK, input

\* So does every other step of the caller.
LEMMA CallerCollector ==
  ASSUME CollectorInv,
         (\E p \in history : Drain(p)) \/ Timeout \/ Drained \/ ReadLongest \/ Judge
  PROVE  CollectorInv'
<1>1. ASSUME NEW p \in history, Drain(p) PROVE CollectorInv'
  BY <1>1 DEF Drain, CollectorInv, TypeOK, input
<1>2. CASE Timeout
  BY <1>2 DEF Timeout, CollectorInv, TypeOK, input
<1>3. CASE Drained
  BY <1>3 DEF Drained, CollectorInv, TypeOK, input
<1>4. CASE ReadLongest
  BY <1>4 DEF ReadLongest, CollectorInv, TypeOK, input
<1>5. CASE Judge
  BY <1>5 DEF Judge, CollectorInv, TypeOK, input
<1>6. QED BY <1>1, <1>2, <1>3, <1>4, <1>5

\* CollectorInv is an invariant of checkParallel.
THEOREM CollectorInvariant == Spec => []CollectorInv
<1>1. CollectorInv /\ [Next]_vars => CollectorInv'
  <2>1. SUFFICES ASSUME CollectorInv, [Next]_vars PROVE CollectorInv'
    OBVIOUS
  <2>2. CASE UNCHANGED vars
    BY <2>1, <2>2 DEF vars, input, CollectorInv, TypeOK
  <2>3. CASE Next
    BY <2>1, <2>3, WorkCollector, ReceiveCollector, CallerCollector
       DEF Next, Collect
  <2>4. QED BY <2>1, <2>2, <2>3
<1>2. QED BY InitCollector, <1>1, PTL DEF Spec

\* CheckOperations never calls a history linearizable that is not, nor
\* illegal one that is linearizable.
THEOREM CheckOperationsCorrect == Spec => []ResultCorrect
<1>1. CollectorInv => ResultCorrect BY DEF CollectorInv, ResultCorrect
<1>2. QED BY CollectorInvariant, <1>1, PTL

\* A verbose check does not race with its goroutines on longest[].
THEOREM LongestNotRaced == Spec => []NoRaceOnLongest
<1>1. CollectorInv => NoRaceOnLongest BY DEF CollectorInv, TypeOK, NoRaceOnLongest
<1>2. QED BY CollectorInvariant, <1>1, PTL

-----------------------------------------------------------------------------
\* Links between the head and N entries.
Lists(N) ==
  [next : [0 .. N -> (0 .. N) \cup {Nil}], prev : [0 .. N -> (0 .. N) \cup {Nil}]]

\* A set of natural numbers has a least element.
LEMMA Least ==
  ASSUME NEW T \in SUBSET Nat, T # {}
  PROVE  \E n \in T : \A m \in T : n <= m
<1> DEFINE R == {ss \in Nat \X Nat : ss[1] < ss[2]}
<1>1. IsWellFoundedOn(R, Nat)
  BY Zenon, NatLessThanWellFounded DEF OpToRel
<1>2. \A a, b \in Nat : a < b => <<a, b>> \in R
  OBVIOUS
<1> HIDE DEF R
<1>3. PICK n \in T : \A m \in T : ~ (<<m, n>> \in R)
  BY Zenon, <1>1, WFMin
<1>4. \A m \in T : ~(m < n)
  BY Zenon, <1>2, <1>3
<1>5. QED BY <1>4

\* The links after k iterations of the loop: the last k nodes are linked.
LinkedLast(N, k) ==
  [next |-> [n \in 0 .. N |-> IF n <= N - k \/ n = N THEN Nil ELSE n + 1],
   prev |-> [n \in 0 .. N |-> IF n <= N + 1 - k THEN Nil ELSE n - 1]]

\* An iteration links one more node.
LEMMA InsertNode ==
  ASSUME NEW N \in Nat, NEW k \in 1 .. N + 1
  PROVE  insertBefore(LinkedLast(N, k - 1), N + 1 - k, IF k - 1 = 0 THEN Nil ELSE N + 1 - (k - 1)) = LinkedLast(N, k)
<1> DEFINE l == LinkedLast(N, k - 1)
           mark == N + 1 - (k - 1)
<1>1. CASE k = 1
  <2>1. insertBefore(l, N + 1 - k, Nil) = l
    BY DEF insertBefore
  <2>2. l = LinkedLast(N, k)
    BY <1>1 DEF LinkedLast
  <2>3. QED BY <1>1, <2>1, <2>2
<1>2. CASE k # 1
  <2>1. mark \in 1 .. N /\ mark # Nil /\ l.prev[mark] = Nil
    BY <1>2 DEF LinkedLast, Nil
  <2>2. insertBefore(l, N + 1 - k, mark) =
          [next |-> [l.next EXCEPT ![N + 1 - k] = mark], prev |-> [l.prev EXCEPT ![mark] = N + 1 - k]]
    BY Zenon, <2>1 DEF insertBefore
  <2>3. [l.next EXCEPT ![N + 1 - k] = mark] = LinkedLast(N, k).next
    <3>1. l.next = [n \in 0 .. N |-> IF n <= N - (k - 1) \/ n = N THEN Nil ELSE n + 1]
      BY DEF LinkedLast
    <3>2. LinkedLast(N, k).next = [n \in 0 .. N |-> IF n <= N - k \/ n = N THEN Nil ELSE n + 1]
      BY DEF LinkedLast
    <3>3. \A n \in 0 .. N : (IF n <= N - k \/ n = N THEN Nil ELSE n + 1) =
                               IF n = N + 1 - k THEN mark ELSE IF n <= N - (k - 1) \/ n = N THEN Nil ELSE n + 1
      BY <1>2
    <3> HIDE DEF l, mark
    <3>4. QED BY ZenonT(30), <3>1, <3>2, <3>3
  <2>4. [l.prev EXCEPT ![mark] = N + 1 - k] = LinkedLast(N, k).prev
    BY <1>2, <2>1 DEF LinkedLast, Nil
  <2>5. LinkedLast(N, k) = [next |-> LinkedLast(N, k).next, prev |-> LinkedLast(N, k).prev]
    BY DEF LinkedLast
  <2>6. k - 1 # 0
    BY <1>2
  <2>7. QED BY Zenon, <2>2, <2>3, <2>4, <2>5, <2>6
<1>3. QED BY <1>1, <1>2

\* The loop has linked all nodes when it ends.
LEMMA LoopLinks ==
  ASSUME NEW N \in Nat
  PROVE  makeLinkedEntries(N) = LinkedLast(N, N + 1)
<1> DEFINE Root(k) == IF k = 0 THEN Nil ELSE N + 1 - k
           Body(g) == [k \in 0 .. N + 1 |->
                         IF k = 0 THEN [next |-> [n \in 0 .. N |-> Nil], prev |-> [n \in 0 .. N |-> Nil]]
                         ELSE insertBefore(g[k - 1], Root(k), Root(k - 1))]
           Loop == CHOOSE g : g = Body(g)
           Steps == [k \in 0 .. N + 1 |-> LinkedLast(N, k)]
<1>1. makeLinkedEntries(N) = Loop[N + 1]
  BY Zenon DEF makeLinkedEntries
<1>2. LinkedLast(N, 0) = [next |-> [n \in 0 .. N |-> Nil], prev |-> [n \in 0 .. N |-> Nil]]
  BY DEF LinkedLast
<1>3. \A k \in 0 .. N + 1 : k # 0 => insertBefore(LinkedLast(N, k - 1), Root(k), Root(k - 1)) = LinkedLast(N, k)
  <2> SUFFICES ASSUME NEW k \in 0 .. N + 1, k # 0
               PROVE  insertBefore(LinkedLast(N, k - 1), Root(k), Root(k - 1)) = LinkedLast(N, k)
    OBVIOUS
  <2>1. k \in 1 .. N + 1
    OBVIOUS
  <2>2. QED BY Zenon, <2>1, InsertNode
<1>4. \A k \in 0 .. N + 1 : k # 0 => k - 1 \in 0 .. N + 1 /\ k - 1 < k
  OBVIOUS
<1> HIDE DEF Root
<1>5. Steps = Body(Steps)
  BY Zenon, <1>2, <1>3, <1>4
<1>6. Loop = Body(Loop)
  <2> HIDE DEF Body
  <2>1. QED BY Zenon, <1>5
<1>7. \A k \in 0 .. N + 1 : Loop[k] = LinkedLast(N, k)
  <2> HIDE DEF Loop
  <2>1. /\ Loop[0] = [next |-> [n \in 0 .. N |-> Nil], prev |-> [n \in 0 .. N |-> Nil]]
        /\ \A k \in 0 .. N + 1 : k # 0 => Loop[k] = insertBefore(Loop[k - 1], Root(k), Root(k - 1))
    <3>1. 0 \in 0 .. N + 1
      OBVIOUS
    <3>2. QED BY Zenon, <1>6, <3>1
  <2> DEFINE T == {k \in 0 .. N + 1 : Loop[k] # LinkedLast(N, k)}
  <2>2. SUFFICES ASSUME T # {} PROVE FALSE
    BY Zenon
  <2>3. PICK k \in T : \A m \in T : k <= m
    <3>1. T \in SUBSET Nat
      OBVIOUS
    <3> HIDE DEF T
    <3>2. QED BY Zenon, <2>2, <3>1, Least
  <2>4. k # 0
    BY Zenon, <1>2, <2>1
  <2>5. k - 1 \notin T
    <3>1. k \in Nat
      OBVIOUS
    <3>2. ~(k <= k - 1)
      BY <3>1
    <3>3. QED BY Zenon, <2>3, <3>2
  <2>6. Loop[k - 1] = LinkedLast(N, k - 1)
    BY Zenon, <1>4, <2>4, <2>5
  <2>7. QED BY Zenon, <1>3, <2>1, <2>4, <2>6
<1>8. N + 1 \in 0 .. N + 1
  OBVIOUS
<1>9. QED BY Zenon, <1>1, <1>7, <1>8

\* makeLinkedEntries and the head before it link all the entries, in their order: what the
\* loop over insertBefore builds from the last entry on.
THEOREM EntriesLinked ==
  ASSUME NEW N \in Nat
  PROVE  /\ makeLinkedEntries(N) \in Lists(N)
         /\ Linked(makeLinkedEntries(N), 1 .. N)
<1>1. LinkedLast(N, N + 1) \in Lists(N)
  BY DEF LinkedLast, Lists, Nil
<1>2. Linked(LinkedLast(N, N + 1), 1 .. N)
  BY DEF LinkedLast, Linked, Nil, Head0
<1>3. QED BY Zenon, <1>1, <1>2, LoopLinks

\* The nodes of a list, with the head, are among the N + 1 nodes.
LEMMA InLists ==
  ASSUME NEW N \in Nat, NEW rest \in SUBSET (1 .. N), NEW a \in rest \cup {0}
  PROVE  a \in 0 .. N
<1>1. CASE a \in rest
  <2>1. a \in 1 .. N
    BY <1>1
  <2>2. QED BY <2>1
<1>2. CASE a = 0
  BY <1>2
<1>3. QED BY <1>1, <1>2

\* What Out assigns, link by link.
LEMMA OutLinks ==
  ASSUME NEW N \in Nat, NEW l \in Lists(N), NEW rest \in SUBSET (1 .. N),
         Linked(l, rest), NEW n \in rest
  PROVE  /\ Out(l, n) \in Lists(N)
         /\ l.prev[n] \in 0 .. N /\ l.prev[n] # n /\ l.next[l.prev[n]] = n
         /\ l.next[n] # Nil => l.next[n] \in 0 .. N /\ l.next[n] # n /\ l.prev[l.next[n]] = n
         /\ \A a \in 0 .. N :
              Out(l, n).next[a] = IF a = l.prev[n] THEN l.next[n] ELSE l.next[a]
         /\ \A a \in 0 .. N :
              Out(l, n).prev[a] = IF l.next[n] # Nil /\ a = l.next[n] THEN l.prev[n] ELSE l.prev[a]
<1>1. /\ l.next \in [0 .. N -> (0 .. N) \cup {Nil}]
      /\ l.prev \in [0 .. N -> (0 .. N) \cup {Nil}]
  BY DEF Lists
<1>2. /\ n \in 1 .. N
      /\ l.prev[n] \in rest \cup {0} /\ l.next[l.prev[n]] = n
      /\ l.next[n] = Nil \/ (l.next[n] \in rest /\ n < l.next[n] /\ l.prev[l.next[n]] = n)
  BY Zenon DEF Linked, Head0
<1>3. l.prev[n] \in 0 .. N /\ l.prev[n] < n
  <2>1. PICK a \in rest \cup {0} : a = l.prev[n]
    BY Zenon, <1>2
  <2>2. a \in 0 .. N
    BY Zenon, <2>1, InLists
  <2>3. l.next[a] = Nil \/ a < l.next[a]
    BY Zenon, <2>1 DEF Linked, Head0
  <2>4. QED BY <1>2, <2>1, <2>2, <2>3 DEF Nil
<1>4. l.next[n] # Nil => l.next[n] \in 0 .. N /\ l.next[n] # n
  <2>1. SUFFICES ASSUME NEW b \in rest, b = l.next[n], n < b
                 PROVE  b \in 0 .. N /\ b # n
    BY Zenon, <1>2
  <2>2. b \in 1 .. N
    OBVIOUS
  <2>3. QED BY <1>2, <2>1, <2>2
<1>5. Out(l, n) \in Lists(N)
  BY <1>1, <1>2, <1>3, <1>4 DEF Out, Lists
<1>6. \A a \in 0 .. N :
        /\ Out(l, n).next[a] = IF a = l.prev[n] THEN l.next[n] ELSE l.next[a]
        /\ Out(l, n).prev[a] = IF l.next[n] # Nil /\ a = l.next[n] THEN l.prev[n] ELSE l.prev[a]
  BY <1>1, <1>2, <1>3, <1>4 DEF Out
<1>7. QED BY <1>2, <1>3, <1>4, <1>5, <1>6

\* Taking a node out leaves the others linked, in their order.
LEMMA OutLinked ==
  ASSUME NEW N \in Nat, NEW l \in Lists(N), NEW rest \in SUBSET (1 .. N),
         Linked(l, rest), NEW n \in rest
  PROVE  Out(l, n) \in Lists(N) /\ Linked(Out(l, n), rest \ {n})
<1> DEFINE o == Out(l, n)
           in == (rest \ {n}) \cup {Head0}
<1>1. /\ o \in Lists(N)
      /\ l.prev[n] \in 0 .. N /\ l.prev[n] # n /\ l.next[l.prev[n]] = n
      /\ l.next[n] # Nil => l.next[n] \in 0 .. N /\ l.next[n] # n /\ l.prev[l.next[n]] = n
      /\ \A a \in 0 .. N : o.next[a] = IF a = l.prev[n] THEN l.next[n] ELSE l.next[a]
      /\ \A a \in 0 .. N :
           o.prev[a] = IF l.next[n] # Nil /\ a = l.next[n] THEN l.prev[n] ELSE l.prev[a]
  BY OutLinks
<1>2. /\ \A a \in rest \cup {0} :
           l.next[a] = Nil \/ (l.next[a] \in rest /\ a < l.next[a] /\ l.prev[l.next[a]] = a)
      /\ \A a \in rest \cup {0}, m \in rest : a < m => l.next[a] # Nil /\ l.next[a] <= m
      /\ \A m \in rest : l.prev[m] \in rest \cup {0} /\ l.next[l.prev[m]] = m
  BY DEF Linked, Head0
<1>3. l.prev[n] \in rest \cup {0} /\ l.prev[n] < n /\ n \in 1 .. N
  <2>1. n \in 1 .. N
    OBVIOUS
  <2>2. l.prev[n] \in rest \cup {0}
    BY <1>2
  <2>3. l.next[l.prev[n]] = Nil \/ l.prev[n] < l.next[l.prev[n]]
    BY Zenon, <1>2, <2>2
  <2>4. QED BY <1>1, <2>1, <2>2, <2>3 DEF Nil
<1> HIDE DEF o
<1>4. ASSUME NEW a \in in
      PROVE  o.next[a] = Nil \/ (o.next[a] \in rest \ {n} /\ a < o.next[a] /\ o.prev[o.next[a]] = a)
  <2>1. a \in 0 .. N /\ a \in rest \cup {0} /\ a # n
    BY DEF Head0
  <2>2. CASE a = l.prev[n]
    BY <1>1, <1>2, <1>3, <2>1, <2>2
  <2>3. CASE a # l.prev[n]
    <3>1. o.next[a] = l.next[a]
      BY <1>1, <2>1, <2>3
    <3>2. CASE l.next[a] = Nil
      BY <3>1, <3>2
    <3>3. CASE l.next[a] # Nil
      <4>1. l.next[a] \in rest /\ a < l.next[a] /\ l.prev[l.next[a]] = a
        BY <1>2, <2>1, <3>3
      <4>2. l.next[a] \in 0 .. N
        BY Zenon, <4>1, InLists
      <4>3. l.next[a] # n /\ ~(l.next[n] # Nil /\ l.next[a] = l.next[n])
        BY <1>1, <2>1, <2>3, <4>1
      <4>4. o.prev[l.next[a]] = a
        BY <1>1, <4>1, <4>2, <4>3
      <4>5. QED BY <3>1, <4>1, <4>3, <4>4
    <3>4. QED BY <3>2, <3>3
  <2>4. QED BY <2>2, <2>3
<1>5. ASSUME NEW a \in in, NEW m \in rest \ {n}, a < m
      PROVE  o.next[a] # Nil /\ o.next[a] <= m
  <2>1. a \in 0 .. N /\ a \in rest \cup {0} /\ a # n
    BY DEF Head0
  <2>2. CASE a = l.prev[n]
    <3>1. n < m
      BY <1>1, <1>2, <1>5, <2>1, <2>2
    <3>2. l.next[n] # Nil /\ l.next[n] <= m
      BY Zenon, <1>2, <3>1
    <3>3. QED BY <1>1, <2>1, <2>2, <3>2
  <2>3. CASE a # l.prev[n]
    BY <1>1, <1>2, <1>5, <2>1, <2>3
  <2>4. QED BY <2>2, <2>3
<1>6. ASSUME NEW m \in rest \ {n}
      PROVE  o.prev[m] \in in /\ o.next[o.prev[m]] = m
  <2>1. CASE l.next[n] # Nil /\ m = l.next[n]
    BY <1>1, <1>3, <2>1 DEF Head0
  <2>2. CASE ~(l.next[n] # Nil /\ m = l.next[n])
    <3>1. m \in 0 .. N /\ m # n
      OBVIOUS
    <3>2. o.prev[m] = l.prev[m] /\ l.prev[m] \in rest \cup {0} /\ l.next[l.prev[m]] = m
      <4>1. o.prev[m] = l.prev[m]
        BY <1>1, <2>2, <3>1
      <4>2. l.prev[m] \in rest \cup {0} /\ l.next[l.prev[m]] = m
        BY <1>2
      <4>3. QED BY <4>1, <4>2
    <3>3. l.prev[m] # n
      BY <2>2, <3>1, <3>2 DEF Nil
    <3>4. l.prev[m] # l.prev[n]
      BY <1>1, <3>1, <3>2
    <3>5. l.prev[m] \in 0 .. N
      BY Zenon, <3>2, InLists
    <3>6. o.next[l.prev[m]] = m
      BY <1>1, <3>2, <3>4, <3>5
    <3>7. QED BY <3>2, <3>3, <3>6 DEF Head0
  <2>3. QED BY <2>1, <2>2
<1>7. QED BY <1>1, <1>4, <1>5, <1>6 DEF Linked, o

\* Putting a node back after taking it out restores every link.
LEMMA BackOut ==
  ASSUME NEW N \in Nat, NEW l \in Lists(N), NEW rest \in SUBSET (1 .. N),
         Linked(l, rest), NEW n \in rest
  PROVE  Back(Out(l, n), n) = l
<1>1. /\ l = [next |-> l.next, prev |-> l.prev]
      /\ l.next \in [0 .. N -> (0 .. N) \cup {Nil}]
      /\ l.prev \in [0 .. N -> (0 .. N) \cup {Nil}]
  BY DEF Lists
<1>2. /\ n \in 0 .. N
      /\ l.prev[n] \in 0 .. N /\ l.prev[n] # n /\ l.next[l.prev[n]] = n
      /\ l.next[n] # Nil => l.next[n] \in 0 .. N /\ l.next[n] # n /\ l.prev[l.next[n]] = n
  BY OutLinks
<1>3. Out(l, n).next[n] = l.next[n] /\ Out(l, n).prev[n] = l.prev[n]
  BY <1>2, OutLinks
<1>4. Back(Out(l, n), n).next = l.next
  BY Zenon, <1>1, <1>2, <1>3 DEF Back, Out
<1>5. Back(Out(l, n), n).prev = l.prev
  BY Zenon, <1>1, <1>2, <1>3 DEF Back, Out
<1>6. Back(Out(l, n), n) = [next |-> Back(Out(l, n), n).next, prev |-> Back(Out(l, n), n).prev]
  BY DEF Back
<1>7. QED BY <1>1, <1>4, <1>5, <1>6

\* lift takes a call n and its return m out of a list that links them, and leaves
\* the rest linked; unlift puts the very same links back, wherever the two are and
\* whether or not they are neighbours.  Neither follows a nil link where the code
\* does not test for one: the next node of the call.
THEOREM UnliftUndoesLift ==
  ASSUME NEW N \in Nat, NEW l \in Lists(N), NEW rest \in SUBSET (1 .. N),
         Linked(l, rest), NEW n \in rest, NEW m \in rest, n < m
  PROVE  /\ Lifted(l, n, m) \in Lists(N)
         /\ Linked(Lifted(l, n, m), rest \ {n, m})
         /\ Unlifted(Lifted(l, n, m), n, m) = l
         /\ l.next[n] # Nil
         /\ Back(Lifted(l, n, m), m).next[n] # Nil
<1>1. Out(l, n) \in Lists(N) /\ Linked(Out(l, n), rest \ {n})
  BY OutLinked
<1>2. m \in rest \ {n} /\ rest \ {n} \in SUBSET (1 .. N) /\ (rest \ {n}) \ {m} = rest \ {n, m}
  OBVIOUS
<1>3. Lifted(l, n, m) \in Lists(N) /\ Linked(Lifted(l, n, m), rest \ {n, m})
  BY <1>1, <1>2, OutLinked DEF Lifted
<1>4. Back(Lifted(l, n, m), m) = Out(l, n)
  BY <1>1, <1>2, BackOut DEF Lifted
<1>5. Unlifted(Lifted(l, n, m), n, m) = l
  BY <1>4, BackOut DEF Unlifted
<1>6. l.next[n] # Nil
  BY DEF Linked
<1>7. Out(l, n).next[n] = l.next[n]
  BY OutLinks
<1>8. QED BY <1>3, <1>4, <1>5, <1>6, <1>7
=============================================================================
