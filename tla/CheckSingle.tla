---------------------------- MODULE CheckSingle ----------------------------
(***************************************************************************)
(* checkSingle of porcupine/checker.go: a depth-first search for a         *)
(* linearization of one partition of a history.  The calls and returns not *)
(* yet linearized are a doubly linked list; the search takes a call out of *)
(* it (lift) with its return when the model allows the step and the        *)
(* configuration is new, and puts them back (unlift) when it reaches the   *)
(* return of an operation that it has not linearized.                      *)
(*                                                                         *)
(* The list is that of module LinkedEntries.  A step is one iteration of   *)
(* the loop.                                                               *)
(* The operations linearized are a bitset (module Bitset), in which the    *)
(* first operation is bit 0.  A bucket of the cache is the set of its      *)
(* configurations.                                                         *)
(***************************************************************************)
EXTENDS Linearizability, Bitset, LinkedEntries

VARIABLES
  history,     \* the operations of the partition
  entries,     \* makeEntries(history)
  next, prev,  \* the links of the nodes
  entry,       \* the node the search is at
  calls,       \* the operations linearized, with the state before each
  state,       \* the model's state after them
  linearized,  \* their ids, a bitset
  cache,       \* the configurations entered
  longest,     \* per operation, the longest partial linearization with it
  computePartial,  \* as in the code
  kill,        \* set by checkParallel
  result       \* "running", or the verdict returned

list == <<next, prev>>
search == <<entry, calls, state, linearized, cache, longest>>
given == <<history, entries, computePartial, kill>>

-----------------------------------------------------------------------------
\* byTime.Less: by time, calls before returns.
Less(a, b) ==
  a.time < b.time \/ (a.time = b.time /\ a.kind = "call" /\ b.kind = "return")

\* makeEntries: two entries per operation, sorted; sort.Sort is not stable,
\* so entries that compare equal may be in any order.
Unsorted(h) ==
  {[kind |-> "call", id |-> i, time |-> h[i].Call] : i \in DOMAIN h}
  \cup {[kind |-> "return", id |-> i, time |-> h[i].Return] : i \in DOMAIN h}

makeEntries(h) ==
  LET Sorts[S \in SUBSET Unsorted(h)] ==
        IF S = {} THEN {<<>>}
        ELSE UNION {{<<e>> \o s : s \in Sorts[S \ {e}]} :
                      e \in {e \in S : \A f \in S : ~Less(f, e)}}
  IN Sorts[Unsorted(h)]

\* The return of a call; nil for a return.
match(n) ==
  IF entries[n].kind = "return" THEN Nil
  ELSE CHOOSE m \in DOMAIN entries :
         entries[m] = [entries[m] EXCEPT !.kind = "return", !.id = entries[n].id]

id(n) == entries[n].id

Init ==
  /\ entries \in makeEntries(history)
  /\ next = makeLinkedEntries(Len(entries)).next
  /\ prev = makeLinkedEntries(Len(entries)).prev
  /\ entry = next[Head0]
  /\ calls = <<>>
  /\ state = InitState
  /\ linearized = newBitset(Len(entries) \div 2)
  /\ cache = {}
  /\ longest = [i \in DOMAIN history |-> <<>>]
  /\ result = "running"

-----------------------------------------------------------------------------
Links == [next |-> next, prev |-> prev]

lift(n) ==
  LET l == Lifted(Links, n, match(n)) IN next' = l.next /\ prev' = l.prev

unlift(n) ==
  LET l == Unlifted(Links, n, match(n)) IN next' = l.next /\ prev' = l.prev

\* The ids of the operations in calls, in order.
Seq0(cs) == [i \in DOMAIN cs |-> id(cs[i].entry)]

\* The loop goes on.
Running == result = "running" /\ next[Head0] # Nil /\ ~kill

\* Is the call at the current node possible now, and where does it lead?
Attempt == Step(state, history[id(entry)])

\* Faulty: the states are not compared.
SetCached(conf) == \E elem \in cache : equals(conf.linearized, elem.linearized)

cacheContains(conf) ==
  LET bucket == {elem \in cache : hash(elem.linearized) = hash(conf.linearized)} IN
  \E elem \in bucket : equals(conf.linearized, elem.linearized) /\ conf.state = elem.state

NewConf == [linearized |-> set(linearized, id(entry) - 1), state |-> Attempt.state]

Possible ==
  /\ match(entry) # Nil
  /\ Attempt.ok
  /\ ~cacheContains(NewConf)

Linearize ==
  /\ Running
  /\ Possible
  /\ cache' = cache \cup {NewConf}
  /\ calls' = Append(calls, [entry |-> entry, state |-> state])
  /\ state' = NewConf.state
  /\ linearized' = NewConf.linearized
  /\ lift(entry)
  /\ entry' = next'[Head0]
  /\ UNCHANGED <<given, longest, result>>

\* The model refuses the step, or its configuration was searched before.
SkipCall ==
  /\ Running
  /\ match(entry) # Nil
  /\ ~Possible
  /\ entry' = next[entry]
  /\ UNCHANGED <<given, list, calls, state, linearized, cache, longest, result>>

\* Faulty: only the last call is recorded.
RecordTop ==
  longest' = [longest EXCEPT ![id(Last(calls).entry)] = Seq0(calls)]

RecordLongest ==
  longest' = [i \in DOMAIN longest |->
                IF i \in ToSet(Seq0(calls)) /\ Len(calls) > Len(longest[i])
                THEN Seq0(calls) ELSE longest[i]]

\* The search is at a return: the operation must be linearized earlier.
Backtrack ==
  /\ Running
  /\ match(entry) = Nil
  /\ calls # <<>>
  /\ IF computePartial THEN RecordLongest ELSE UNCHANGED longest
  /\ LET top == Last(calls) IN
     /\ unlift(top.entry)
     /\ entry' = next'[top.entry]
     /\ state' = top.state
     /\ linearized' = clear(linearized, id(top.entry) - 1)
  /\ calls' = Front(calls)
  /\ UNCHANGED <<given, cache, result>>

Fail ==
  /\ Running
  /\ match(entry) = Nil
  /\ calls = <<>>
  /\ result' = "false"
  /\ UNCHANGED <<given, list, search>>

Killed ==
  /\ result = "running"
  /\ next[Head0] # Nil
  /\ kill
  /\ result' = "false"
  /\ UNCHANGED <<given, list, search>>

Succeed ==
  /\ result = "running"
  /\ next[Head0] = Nil
  /\ longest' = [i \in DOMAIN longest |-> Seq0(calls)]
  /\ result' = "true"
  /\ UNCHANGED <<given, list, entry, calls, state, linearized, cache>>

checkSingle ==
  Linearize \/ SkipCall \/ Backtrack \/ Fail \/ Killed \/ Succeed

-----------------------------------------------------------------------------
Nodes == 0 .. Len(entries)
Ids == DOMAIN history

\* The links lead to nodes of the list or end it: the search never follows one out
\* of the entries.
TypeOK ==
  /\ next \in [Nodes -> Nodes \cup {Nil}]
  /\ prev \in [Nodes -> Nodes \cup {Nil}]
  /\ entry \in Nodes \cup {Nil}
  /\ \A c \in cache : Len(c.linearized) = Len(linearized)
  /\ result \in {"running", "true", "false"}

\* However often calls were lifted and put back, the list from the head is
\* the entries whose operation is not in the bitset, in their order, linked
\* both ways, the bitset has as many bits as there are calls, and the search
\* stands on one of the entries.
ListIsRest ==
  LET rest == {n \in DOMAIN entries : ~get(linearized, id(n) - 1)}
  IN /\ TypeOK
     /\ Linked(Links, rest)
     /\ popcnt(linearized) = Len(calls)
     /\ result = "running" /\ rest # {} => entry \in rest

\* A verbose search that was not killed has found, for every operation, a partial
\* linearization with it that no other exceeds in length ("longest
\* linearizable prefix that includes the given entry"), if there is one.
LongestIsLongest ==
  result # "running" /\ ~kill /\ computePartial =>
    \A i \in Ids :
      LET with == {p \in PartialLinearizations(history) : i \in ToSet(p)}
      IN IF with = {} THEN longest[i] = <<>>
         ELSE /\ longest[i] \in with
              /\ \A p \in with : Len(p) <= Len(longest[i])
=============================================================================
