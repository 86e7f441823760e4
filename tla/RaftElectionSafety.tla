-------------------------- MODULE RaftElectionSafety --------------------------
(***************************************************************************)
(* Steps of Raft keep the types of its state, at most one leader per term, *)
(* and one vote per peer and term, for any finite set of peers, any number *)
(* of terms, commands and crashes.                                         *)
(***************************************************************************)
EXTENDS Raft, TLAPS

-----------------------------------------------------------------------------
(* What the argument takes from the theory of finite sets: RaftSafety proves it *)

Background ==
  /\ \A S \in SUBSET Nat : S # {} => \E x \in S : \A y \in S : x <= y
  /\ \A n \in Nat : Cardinality(1 .. n) = n
  /\ \A x \in Server : Cardinality({x}) = 1
  /\ \A S \in SUBSET Server :
       /\ Cardinality(S) \in Nat
       /\ \A T \in SUBSET S : Cardinality(T) <= Cardinality(S)
       /\ \A x \in Server \ S : Cardinality(S \cup {x}) = Cardinality(S) + 1
       /\ \A T \in SUBSET Server : Cardinality(S) + Cardinality(T) > Cardinality(Server) => S \cap T # {}

-----------------------------------------------------------------------------
(* Sequences *)

\* A sequence is a function from an initial segment of the positive naturals.
LEMMA SeqDef == \A S : Seq(S) = UNION {[1 .. n -> S] : n \in Nat}
OBVIOUS

\* An element of a sequence.
LEMMA ElementOfSeq ==
  ASSUME NEW S, NEW seq \in Seq(S), NEW n \in 1 .. Len(seq)
  PROVE  seq[n] \in S
OBVIOUS

\* The empty sequence is the one of length 0.
LEMMA EmptySeq ==
  ASSUME NEW S
  PROVE  /\ <<>> \in Seq(S) /\ Len(<<>>) = 0
         /\ \A seq \in Seq(S) : seq # <<>> => Len(seq) \in Nat \ {0}
OBVIOUS

\* The length of a sequence and its domain.
LEMMA LenProperties ==
  ASSUME NEW S, NEW seq \in Seq(S)
  PROVE  Len(seq) \in Nat /\ seq \in [1 .. Len(seq) -> S] /\ DOMAIN seq = 1 .. Len(seq)
OBVIOUS

\* Two sequences with the same elements at the same places are equal.
LEMMA SeqEqual ==
  ASSUME NEW S, NEW s \in Seq(S), NEW t \in Seq(S), Len(s) = Len(t), \A i \in 1 .. Len(s) : s[i] = t[i]
  PROVE  s = t
OBVIOUS

\* The elements of a concatenation.
LEMMA ConcatProperties ==
  ASSUME NEW S, NEW s \in Seq(S), NEW t \in Seq(S)
  PROVE  /\ s \o t \in Seq(S) /\ Len(s \o t) = Len(s) + Len(t)
         /\ \A i \in 1 .. Len(s) + Len(t) : (s \o t)[i] = IF i <= Len(s) THEN s[i] ELSE t[i - Len(s)]
OBVIOUS

\* Concatenation with the empty sequence.
LEMMA ConcatEmptySeq ==
  ASSUME NEW S, NEW s \in Seq(S)
  PROVE  s \o <<>> = s /\ <<>> \o s = s
OBVIOUS

\* The elements of a slice.
LEMMA SubSeqProperties ==
  ASSUME NEW S, NEW s, NEW m \in Int, NEW n \in Int, \A i \in m .. n : s[i] \in S
  PROVE  /\ SubSeq(s, m, n) \in Seq(S) /\ Len(SubSeq(s, m, n)) = IF m <= n THEN n - m + 1 ELSE 0
         /\ \A i \in 1 .. n - m + 1 : SubSeq(s, m, n)[i] = s[m + i - 1]
OBVIOUS

\* An empty slice.
LEMMA SubSeqEmpty ==
  ASSUME NEW s, NEW m \in Int, NEW n \in Int, n < m
  PROVE  SubSeq(s, m, n) = <<>>
OBVIOUS

\* The slice that is the whole sequence.
LEMMA SubSeqFull ==
  ASSUME NEW S, NEW s \in Seq(S)
  PROVE  SubSeq(s, 1, Len(s)) = s
OBVIOUS

\* The elements after an append.
LEMMA AppendProperties ==
  ASSUME NEW S, NEW s \in Seq(S), NEW e \in S
  PROVE  /\ Append(s, e) \in Seq(S) /\ Len(Append(s, e)) = Len(s) + 1
         /\ \A i \in 1 .. Len(s) : Append(s, e)[i] = s[i]
         /\ Append(s, e)[Len(s) + 1] = e
OBVIOUS

-----------------------------------------------------------------------------
(* The operators the handlers are built from *)

\* Least picks an element of the set.
LEMMA LeastInSet ==
  ASSUME Background, NEW S \in SUBSET Nat, S # {}
  PROVE  Least(S) \in S /\ \A y \in S : Least(S) <= y
BY Zenon DEF Background, Least

\* Greatest picks an element of a set of naturals that has a bound.
LEMMA GreatestInSet ==
  ASSUME Background, NEW S \in SUBSET Nat, S # {}, NEW n \in Nat, \A k \in S : k <= n
  PROVE  Greatest(S) \in S /\ \A y \in S : y <= Greatest(S)
<1> DEFINE T == {n - k : k \in S}
<1>1. T \in SUBSET Nat /\ T # {}
  <2>1. \A k \in S : n - k \in Nat
    OBVIOUS
  <2>2. T \in SUBSET Nat
    BY Zenon, <2>1
  <2>3. PICK k \in S : TRUE
    BY Zenon
  <2>4. n - k \in T
    BY Zenon
  <2>5. QED
    BY Zenon, <2>2, <2>4
<1>2. PICK t \in T : \A u \in T : t <= u
  BY Zenon, <1>1 DEF Background
<1>3. PICK x \in S : \A y \in S : n - x <= n - y
  BY Zenon, <1>2
<1>4. \A y \in S : y <= x
  BY <1>3
<1>5. QED
  BY Zenon, <1>4 DEF Greatest

\* Any slice of a log within its bounds is a log.
LEMMA SliceIsSeq ==
  ASSUME NEW T, NEW s \in Seq(T), NEW a \in Nat \ {0}, NEW b \in Int, b <= Len(s)
  PROVE  SubSeq(s, a, b) \in Seq(T)
<1>1. \A k \in a .. b : s[k] \in T
  BY ElementOfSeq
<1>2. QED
  BY <1>1, SubSeqProperties

\* Cutting a log at a conflict leaves a log.
LEMMA TruncateIsSeq ==
  ASSUME NEW log \in Seq(Entry), NEW base, NEW entries
  PROVE  Truncate(log, base, entries) \in Seq(Entry)
<1>1. DOMAIN log = 1 .. Len(log) /\ Len(log) \in Nat
  BY Zenon, LenProperties
<1>2. \A c \in DOMAIN log : SubSeq(log, 1, c - 1) \in Seq(Entry)
  BY <1>1, SliceIsSeq
<1>3. Truncate(log, base, entries) = log \/ \E c \in DOMAIN log : Truncate(log, base, entries) = SubSeq(log, 1, c - 1)
  BY Zenon DEF Truncate
<1>4. QED
  BY Zenon, <1>2, <1>3

\* What a call appends is a slice of its entries.
LEMMA ExtensionIsSeq ==
  ASSUME Background, NEW log, NEW base, NEW entries \in Seq(Entry)
  PROVE  Extension(log, base, entries) \in Seq(Entry)
<1> DEFINE new == {k \in DOMAIN entries : entries[k].Index > Len(log) + base}
<1>1. DOMAIN entries = 1 .. Len(entries) /\ Len(entries) \in Nat
  BY Zenon, LenProperties
<1>2. new \in SUBSET (1 .. Len(entries))
  BY Zenon, <1>1
<1> HIDE DEF new
<1>3. ASSUME new # {} PROVE Least(new) \in 1 .. Len(entries)
  <2>1. new \in SUBSET Nat
    BY <1>1, <1>2
  <2>2. Least(new) \in new
    BY Zenon, <1>3, <2>1, LeastInSet
  <2>3. QED
    BY Zenon, <1>2, <2>2
<1>4. new # {} => SubSeq(entries, Least(new), Len(entries)) \in Seq(Entry)
  BY <1>1, <1>3, SliceIsSeq
<1>5. QED
  BY Zenon, <1>4, EmptySeq DEF Extension, new

-----------------------------------------------------------------------------
(* Values computed in a typed state *)

\* The fields of an entry.
LEMMA EntryFields ==
  ASSUME NEW s \in Seq(Entry), NEW k \in 1 .. Len(s)
  PROVE  s[k] \in Entry /\ s[k].Term \in Nat /\ s[k].Index \in Nat /\ s[k].Command \in Command
<1>1. s[k] \in Entry
  BY Zenon, ElementOfSeq
<1>2. QED
  BY Zenon, <1>1 DEF Entry

\* What a peer reads of its own log.
LEMMA LastOfLog ==
  ASSUME TypeOK, NEW i \in Server
  PROVE  /\ LastLogIndex(i) \in Nat /\ LastLogTerm(i) \in Int
         /\ LogEnd(i) \in Nat
         /\ logs[i] \in Seq(Entry) /\ Len(logs[i]) \in Nat /\ DOMAIN logs[i] = 1 .. Len(logs[i])
<1>1. logs[i] \in Seq(Entry) /\ snapshotIndex[i] \in Nat /\ snapshotTerm[i] \in Int
  BY Zenon DEF TypeOK
<1>2. Len(logs[i]) \in Nat /\ DOMAIN logs[i] = 1 .. Len(logs[i])
  BY Zenon, <1>1, LenProperties
<1>3. logs[i] # <<>> => Len(logs[i]) \in 1 .. Len(logs[i])
  BY <1>1, <1>2, EmptySeq
<1>4. logs[i] # <<>> => logs[i][Len(logs[i])].Index \in Nat /\ logs[i][Len(logs[i])].Term \in Nat
  BY Zenon, <1>1, <1>3, EntryFields
<1>5. QED
  BY <1>1, <1>2, <1>4 DEF LastLogIndex, LastLogTerm, LogEnd

\* What persist stores.
LEMMA PersistedIsData ==
  ASSUME TypeOK, NEW i \in Server, NEW t \in Nat, NEW v \in Server \cup {Nil}, NEW log \in Seq(Entry)
  PROVE  Persisted(i, t, v, log) \in Data
<1>1. snapshot[i] \in Snapshots /\ snapshotIndex[i] \in Nat /\ snapshotTerm[i] \in Int
  BY Zenon DEF TypeOK
<1>2. QED
  BY <1>1 DEF Persisted, Data

-----------------------------------------------------------------------------
(* The type invariant by the groups of variables that the actions leave unchanged *)

ElectionTypes ==
  /\ status \in [Server -> {"FOLLOWER", "CANDIDATE", "LEADER"}]
  /\ currentTerm \in [Server -> Nat]
  /\ votedFor \in [Server -> Server \cup {Nil}]
  /\ grantedVotes \in [Server -> Nat]
  /\ ballots \subseteq Ballot
LogTypes      == logs \in [Server -> Seq(Entry)] /\ commitIndex \in [Server -> Nat]
LeaderTypes   == nextIndex \in [Server -> [Server -> Nat]] /\ matchIndex \in [Server -> [Server -> Nat]]
SnapshotTypes ==
  /\ snapshot \in [Server -> Snapshots] /\ snapshotIndex \in [Server -> Nat]
  /\ snapshotTerm \in [Server -> Int]
ServiceTypes ==
  /\ lastApplied \in [Server -> Nat] /\ service \in [Server -> Snapshots]
  /\ snapshotReqs \in [Server -> SUBSET [index : Nat, snapshot : Snapshots]]
  /\ applied \subseteq Entry
VoteTypes     == rvArgs \subseteq RequestVoteArgs /\ rvReplies \subseteq RequestVoteReply
AppendTypes   == aeArgs \subseteq AppendEntriesArgs /\ aeReplies \subseteq AppendEntriesReply
InstallTypes  == isArgs \subseteq InstallSnapshotRequest /\ isReplies \subseteq InstallSnapshotReply
PanicTypes    == panicked \in [Server -> BOOLEAN]
StoreTypes    == persister \in [Server -> Data]
RestartTypes  == restarts \in [Server -> Nat]

\* The groups make up the type invariant.
LEMMA TypeGroups ==
  /\ TypeOK <=> /\ ElectionTypes /\ LogTypes /\ LeaderTypes /\ SnapshotTypes /\ ServiceTypes
                /\ VoteTypes /\ AppendTypes /\ InstallTypes /\ PanicTypes /\ StoreTypes /\ RestartTypes
  /\ TypeOK' <=> /\ ElectionTypes' /\ LogTypes' /\ LeaderTypes' /\ SnapshotTypes' /\ ServiceTypes'
                 /\ VoteTypes' /\ AppendTypes' /\ InstallTypes' /\ PanicTypes' /\ StoreTypes' /\ RestartTypes'
BY Zenon DEF TypeOK, ElectionTypes, LogTypes, LeaderTypes, SnapshotTypes, ServiceTypes,
       VoteTypes, AppendTypes, InstallTypes, PanicTypes, StoreTypes, RestartTypes

-----------------------------------------------------------------------------
(* Elections *)

-----------------------------------------------------------------------------
(* Receiving entries *)

\* The fields of an AppendEntries call.
LEMMA AppendFields ==
  ASSUME TypeOK, NEW m \in aeArgs
  PROVE  /\ m.src \in Server /\ m.dst \in Server /\ m.Term \in Nat /\ m.PrevLogIndex \in Nat
         /\ m.Entries \in Seq(Entry) /\ Len(m.Entries) \in Nat /\ m.LeaderCommit \in Nat
<1>1. m \in AppendEntriesArgs
  BY Zenon DEF TypeOK
<1>2. QED
  BY Zenon, <1>1, LenProperties DEF AppendEntriesArgs

\* The commit index a follower takes over.
LEMMA CommitAfterType ==
  ASSUME NEW commit \in Nat, NEW log \in Seq(Entry), NEW leaderCommit \in Nat
  PROVE  CommitAfter(commit, log, leaderCommit) \in Nat
<1>1. log # <<>> => Len(log) \in 1 .. Len(log)
  BY EmptySeq, LenProperties
<1>2. log # <<>> => log[Len(log)].Index \in Nat
  BY Zenon, <1>1, EntryFields
<1>3. QED
  BY Zenon, <1>2 DEF CommitAfter, Min

-----------------------------------------------------------------------------
(* The leader *)

\* The fields of an AppendEntries reply.
LEMMA AppendReplyFields ==
  ASSUME TypeOK, NEW m \in aeReplies
  PROVE  /\ m.src \in Server /\ m.dst \in Server /\ m.Term \in Nat /\ m.PrevLogIndex \in Nat
         /\ m.NumEntries \in Nat /\ m.FirstConflictingIndex \in Nat /\ m.ConflictingTerm \in Nat
<1>1. m \in AppendEntriesReply
  BY Zenon DEF TypeOK
<1>2. QED
  BY Zenon, <1>1 DEF AppendEntriesReply

-----------------------------------------------------------------------------
(* The service and snapshots *)

\* The fields of an InstallSnapshot call.
LEMMA InstallFields ==
  ASSUME TypeOK, NEW m \in isArgs
  PROVE  /\ m.src \in Server /\ m.dst \in Server /\ m.inc \in Nat /\ m.Term \in Nat
         /\ m.LastIncludedIndex \in Nat /\ m.LastIncludedTerm \in Int /\ m.Data \in Snapshots
<1>1. m \in InstallSnapshotRequest
  BY Zenon DEF TypeOK
<1>2. QED
  BY Zenon, <1>1 DEF InstallSnapshotRequest

\* A record with the fields of stored data.
LEMMA DataRecord ==
  ASSUME NEW t \in Nat, NEW v \in Server \cup {Nil}, NEW l \in Seq(Entry), NEW s \in Snapshots,
         NEW n \in Nat, NEW k \in Int
  PROVE  [CurrentTerm |-> t, VotedFor |-> v, Logs |-> l,
          SnapshotIndex |-> n, SnapshotTerm |-> k, Snapshot |-> s] \in Data
BY Zenon DEF Data

-----------------------------------------------------------------------------
(* Crashes *)

-----------------------------------------------------------------------------

\* The type invariant holds initially.
LEMMA InitTypes == Init => TypeOK
<1>1. <<>> \in Seq(Entry) /\ <<>> \in Snapshots
  BY Zenon, EmptySeq DEF Snapshots
<1>2. Fresh \in Data
  <2>1. 0 \in Nat /\ -1 \in Int /\ Nil \in Server \cup {Nil}
    OBVIOUS
  <2>2. QED
    BY Zenon, <1>1, <2>1, DataRecord DEF Fresh
<1> SUFFICES ASSUME Init PROVE TypeOK
  BY Zenon
<1>3. ElectionTypes
  BY Zenon DEF Init, ElectionTypes
<1>4. LogTypes
  BY Zenon, <1>1 DEF Init, LogTypes
<1>5. LeaderTypes
  BY Zenon DEF Init, LeaderTypes
<1>6. SnapshotTypes
  BY <1>1 DEF Init, SnapshotTypes
<1>7. ServiceTypes
  BY Zenon, <1>1 DEF Init, ServiceTypes
<1>8. VoteTypes /\ AppendTypes /\ InstallTypes
  BY Zenon DEF Init, VoteTypes, AppendTypes, InstallTypes
<1>9. PanicTypes
  BY Zenon DEF Init, PanicTypes
<1>10. StoreTypes
  BY Zenon, <1>2 DEF Init, StoreTypes
<1>11. RestartTypes
  BY Zenon DEF Init, RestartTypes
<1>12. QED
  BY Zenon, <1>3, <1>4, <1>5, <1>6, <1>7, <1>8, <1>9, <1>10, <1>11, TypeGroups

\* Every step keeps it.
LEMMA NextTypes == Background /\ TypeOK /\ [Next]_vars => TypeOK'
<1> SUFFICES ASSUME Background PROVE TypeOK /\ [Next]_vars => TypeOK'
  BY Zenon
\* The vote of a peer in the term of a call.
<1>VoteAfterType.
  ASSUME TypeOK, NEW i \in Server, NEW t \in Nat
  PROVE  VoteAfter(i, t) \in Server \cup {Nil}
  BY Zenon, <1>VoteAfterType DEF TypeOK, VoteAfter
\* A group that a step leaves unchanged keeps its types.
<1>TypesUnchanged.
  ASSUME TypeOK
  PROVE  /\ UNCHANGED electionVars => ElectionTypes'
         /\ UNCHANGED logVars => LogTypes'
         /\ UNCHANGED leaderVars => LeaderTypes'
         /\ UNCHANGED snapshotVars => SnapshotTypes'
         /\ UNCHANGED serviceVars => ServiceTypes'
         /\ UNCHANGED voteNet => VoteTypes'
         /\ UNCHANGED appendNet => AppendTypes'
         /\ UNCHANGED installNet => InstallTypes'
         /\ UNCHANGED panicked => PanicTypes'
         /\ UNCHANGED persister => StoreTypes'
         /\ UNCHANGED restarts => RestartTypes'
  <2> USE <1>TypesUnchanged
  <2>1. UNCHANGED electionVars => ElectionTypes'
    BY Zenon, TypeGroups DEF ElectionTypes, electionVars
  <2>2. UNCHANGED logVars => LogTypes'
    BY Zenon, TypeGroups DEF LogTypes, logVars
  <2>3. UNCHANGED leaderVars => LeaderTypes'
    BY Zenon, TypeGroups DEF LeaderTypes, leaderVars
  <2>4. UNCHANGED snapshotVars => SnapshotTypes'
    BY Zenon, TypeGroups DEF SnapshotTypes, snapshotVars
  <2>5. UNCHANGED serviceVars => ServiceTypes'
    BY Zenon, TypeGroups DEF ServiceTypes, serviceVars
  <2>6. UNCHANGED voteNet => VoteTypes'
    BY Zenon, TypeGroups DEF VoteTypes, voteNet
  <2>7. UNCHANGED appendNet => AppendTypes'
    BY Zenon, TypeGroups DEF AppendTypes, appendNet
  <2>8. UNCHANGED installNet => InstallTypes'
    BY Zenon, TypeGroups DEF InstallTypes, installNet
  <2>9. (UNCHANGED panicked => PanicTypes') /\ (UNCHANGED persister => StoreTypes')
        /\ (UNCHANGED restarts => RestartTypes')
    BY Zenon, TypeGroups DEF PanicTypes, StoreTypes, RestartTypes
  <2>10. QED
    BY Zenon, <2>1, <2>2, <2>3, <2>4, <2>5, <2>6, <2>7, <2>8, <2>9
\* The election timer: a typed ballot and typed RequestVote calls.
<1>StartElectionTypes.
  ASSUME TypeOK, NEW i \in Server, startElection(i)
  PROVE  TypeOK'
  <2> USE <1>StartElectionTypes
  <2>1. currentTerm[i] + 1 \in Nat /\ logs[i] \in Seq(Entry)
    BY DEF TypeOK
  <2>2. ElectionTypes'
    BY <2>1, TypeGroups DEF ElectionTypes, startElection, Ballot
  <2>3. VoteTypes'
    <3>1. LastLogIndex(i) \in Nat /\ LastLogTerm(i) \in Int
      BY Zenon, LastOfLog
    <3>2. \A j \in Peers(i) : [src |-> i, dst |-> j, Term |-> currentTerm[i] + 1,
            LastLogIndex |-> LastLogIndex(i), LastLogTerm |-> LastLogTerm(i)] \in RequestVoteArgs
      BY Zenon, <2>1, <3>1 DEF RequestVoteArgs, Peers
    <3>3. QED
      BY Zenon, <3>2, TypeGroups DEF VoteTypes, startElection
  <2>4. StoreTypes'
    BY Zenon, <2>1, PersistedIsData, TypeGroups DEF StoreTypes, startElection
  <2>5. QED
    BY Zenon, <2>2, <2>3, <2>4, TypeGroups, <1>TypesUnchanged DEF startElection
\* Moving to the term of a call keeps the election fields typed.
<1>FollowTermTypes.
  ASSUME TypeOK, NEW i \in Server, NEW t \in Nat, NEW s \in {"FOLLOWER", "CANDIDATE", "LEADER"},
         NEW v \in Server \cup {Nil},
         FollowTerm(i, t, s), votedFor' = [votedFor EXCEPT ![i] = v], ballots' \subseteq Ballot
  PROVE  ElectionTypes'
  BY Zenon, <1>FollowTermTypes, TypeGroups DEF ElectionTypes, FollowTerm
\* So does handleHigherTermFound, with what it stores.
<1>HigherTermTypes.
  ASSUME TypeOK, NEW i \in Server, NEW t \in Nat, handleHigherTermFound(i, t)
  PROVE  ElectionTypes' /\ StoreTypes'
  <2> USE <1>HigherTermTypes
  <2>1. ElectionTypes'
    BY Zenon, <1>FollowTermTypes DEF handleHigherTermFound, TypeOK
  <2>2. Persisted(i, t, Nil, logs[i]) \in Data
    BY Zenon, PersistedIsData DEF TypeOK
  <2>3. QED
    BY Zenon, <2>1, <2>2, TypeGroups DEF StoreTypes, handleHigherTermFound
\* The answer to a RequestVote call.
<1>ReplyVoteTypes.
  ASSUME TypeOK, NEW m \in rvArgs, NEW i \in Server, NEW term \in Nat, NEW granted \in BOOLEAN,
         ReplyVote(i, m, term, granted)
  PROVE  VoteTypes'
  <2> USE <1>ReplyVoteTypes
  <2>1. m.src \in Server /\ m.Term \in Nat
    BY Zenon DEF TypeOK, RequestVoteArgs
  <2>2. [src |-> i, dst |-> m.src, reqTerm |-> m.Term, Term |-> term, VoteGranted |-> granted]
          \in RequestVoteReply
    BY Zenon, <2>1 DEF RequestVoteReply
  <2>3. QED
    BY Zenon, <2>2, TypeGroups DEF VoteTypes, ReplyVote
\* RequestVote of an older term, or after the vote is given away.
<1>DeclineVoteTypes.
  ASSUME TypeOK, NEW m \in rvArgs, NEW i \in Server, DeclineVote(i, m)
  PROVE  TypeOK'
  <2> USE <1>DeclineVoteTypes
  <2>1. currentTerm[i] \in Nat
    BY Zenon DEF TypeOK
  <2>2. VoteTypes'
    BY Zenon, <2>1, <1>ReplyVoteTypes DEF DeclineVote
  <2>3. QED
    BY Zenon, <2>2, TypeGroups, <1>TypesUnchanged DEF DeclineVote
\* RequestVote while the vote is free.
<1>CastVoteTypes.
  ASSUME TypeOK, NEW m \in rvArgs, NEW i \in Server, NEW v \in Server \cup {Nil}, NEW granted \in BOOLEAN,
         CastVote(i, m, v), ballots' \subseteq Ballot, ReplyVote(i, m, m.Term, granted)
  PROVE  TypeOK'
  <2> USE <1>CastVoteTypes
  <2>1. m.Term \in Nat
    BY Zenon DEF TypeOK, RequestVoteArgs
  <2>2. ElectionTypes'
    <3>1. (IF m.Term > currentTerm[i] THEN "FOLLOWER" ELSE status[i]) \in {"FOLLOWER", "CANDIDATE", "LEADER"}
      BY Zenon DEF TypeOK
    <3>2. QED
      BY Zenon, <2>1, <3>1, <1>FollowTermTypes DEF CastVote
  <2>3. VoteTypes'
    BY Zenon, <2>1, <1>ReplyVoteTypes
  <2>4. Persisted(i, m.Term, v, logs[i]) \in Data
    BY Zenon, <2>1, PersistedIsData DEF TypeOK
  <2>5. StoreTypes'
    BY Zenon, <2>4, TypeGroups DEF StoreTypes, CastVote
  <2>6. QED
    BY Zenon, <2>2, <2>3, <2>5, TypeGroups, <1>TypesUnchanged DEF CastVote
\* The RequestVote handler.
<1>VoteRequestTypes.
  ASSUME TypeOK, NEW m \in rvArgs, NEW i \in Server, GrantVote(i, m) \/ RefuseVote(i, m)
  PROVE  TypeOK'
  <2> USE <1>VoteRequestTypes
  <2>1. m.src \in Server /\ m.Term \in Nat
    BY Zenon DEF TypeOK, RequestVoteArgs
  <2>2. CASE GrantVote(i, m)
    <3>0. [voter |-> i, term |-> m.Term, candidate |-> m.src] \in Ballot
      BY Zenon, <2>1 DEF Ballot
    <3>1. ballots' \subseteq Ballot
      BY Zenon, <3>0, <2>2 DEF GrantVote, TypeOK
    <3>2. QED
      BY Zenon, <2>1, <2>2, <3>1, <1>CastVoteTypes DEF GrantVote
  <2>3. CASE RefuseVote(i, m)
    <3>1. ballots' \subseteq Ballot
      BY Zenon, <2>3 DEF RefuseVote, TypeOK
    <3>2. QED
      BY Zenon, <2>3, <3>1, <1>CastVoteTypes DEF RefuseVote
  <2>4. QED
    BY Zenon, <2>2, <2>3
\* A heartbeat is a typed AppendEntries call.
<1>HeartbeatType.
  ASSUME TypeOK, NEW i \in Server, NEW j \in Server
  PROVE  Heartbeat(i, j, currentTerm[i]) \in AppendEntriesArgs
  <2> USE <1>HeartbeatType
  <2>1. currentTerm[i] \in Nat /\ commitIndex[i] \in Nat
    BY Zenon DEF TypeOK
  <2>2. LastLogIndex(i) \in Nat /\ LastLogTerm(i) \in Int
    BY Zenon, LastOfLog
  <2>3. <<>> \in Seq(Entry)
    BY Zenon, EmptySeq
  <2>4. QED
    BY Zenon, <2>1, <2>2, <2>3 DEF Heartbeat, AppendEntriesArgs
\* The heartbeat timer.
<1>HeartbeatTypes.
  ASSUME TypeOK, NEW i \in Server, sendHeartBeat(i)
  PROVE  TypeOK'
  <2> USE <1>HeartbeatTypes
  <2>1. Heartbeats(i) \subseteq AppendEntriesArgs
    BY Zenon, <1>HeartbeatType DEF Heartbeats, Peers
  <2>2. AppendTypes'
    BY Zenon, <2>1, TypeGroups DEF AppendTypes, sendHeartBeat
  <2>3. QED
    BY Zenon, <2>2, TypeGroups, <1>TypesUnchanged DEF sendHeartBeat
\* A call with entries, once nextIndex is inside the log.
<1>BroadcastType.
  ASSUME TypeOK, NEW i \in Server, NEW j \in Server, nextIndex[i][j] - snapshotIndex[i] >= 1
  PROVE  Broadcast(i, j) \in AppendEntriesArgs
  <2> USE <1>BroadcastType
  <2> DEFINE pos == nextIndex[i][j] - snapshotIndex[i]
  <2>1. /\ currentTerm[i] \in Nat /\ commitIndex[i] \in Nat /\ snapshotIndex[i] \in Nat
        /\ snapshotTerm[i] \in Int /\ nextIndex[i][j] \in Nat
    BY Zenon DEF TypeOK
  <2>2. logs[i] \in Seq(Entry) /\ Len(logs[i]) \in Nat
    BY Zenon, LastOfLog
  <2>3. pos \in Nat \ {0}
    BY <2>1
  <2> HIDE DEF pos
  <2>4. CASE pos > Len(logs[i])
    BY Zenon, <2>4, <1>HeartbeatType DEF Broadcast, pos
  <2>5. CASE pos <= Len(logs[i])
    <3>1. SubSeq(logs[i], pos, Len(logs[i])) \in Seq(Entry)
      BY <2>2, <2>3, SliceIsSeq
    <3>2. pos > 1 => logs[i][pos - 1].Index \in Nat /\ logs[i][pos - 1].Term \in Nat
      <4>1. pos > 1 => pos - 1 \in 1 .. Len(logs[i])
        BY <2>2, <2>3, <2>5
      <4>2. QED
        BY Zenon, <2>2, <4>1, EntryFields
    <3> DEFINE pi == IF pos <= 1 THEN snapshotIndex[i] ELSE logs[i][pos - 1].Index
               pt == IF pos <= 1 THEN snapshotTerm[i] ELSE logs[i][pos - 1].Term
    <3>3. pi \in Nat /\ pt \in Int
      <4>1. CASE pos <= 1
        BY Zenon, <2>1, <4>1
      <4>2. CASE pos > 1
        BY <3>2, <4>2, <2>3
      <4>3. QED
        BY <4>1, <4>2, <2>3
    <3>4. Broadcast(i, j) = [src |-> i, dst |-> j, Term |-> currentTerm[i], PrevLogIndex |-> pi,
            PrevLogTerm |-> pt, Entries |-> SubSeq(logs[i], pos, Len(logs[i])), LeaderCommit |-> commitIndex[i]]
      BY <2>2, <2>3, <2>5 DEF Broadcast, pos
    <3> HIDE DEF pi, pt
    <3>5. QED
      BY <2>1, <3>1, <3>3, <3>4 DEF AppendEntriesArgs
  <2>6. QED
    BY <2>2, <2>3, <2>4, <2>5
\* The broadcast timer.
<1>BroadcastTypes.
  ASSUME TypeOK, NEW i \in Server, broadcastAppendEntries(i)
  PROVE  TypeOK'
  <2> USE <1>BroadcastTypes
  <2> DEFINE pos(j) == nextIndex[i][j] - snapshotIndex[i]
             due    == {j \in Peers(i) : LastLogIndex(i) >= nextIndex[i][j] /\ pos(j) >= 1}
             broken == \E j \in due : pos(j) - 1 > Len(logs[i])
  <2>1. \A j \in due : Broadcast(i, j) \in AppendEntriesArgs
    BY Zenon, <1>BroadcastType DEF Peers
  <2>2. /\ panicked' = [panicked EXCEPT ![i] = broken]
        /\ aeArgs' = IF broken THEN aeArgs ELSE aeArgs \cup {Broadcast(i, j) : j \in due}
    BY Zenon DEF broadcastAppendEntries
  <2>3. broken \in BOOLEAN
    BY Zenon
  <2> HIDE DEF due, broken
  <2>4. AppendTypes'
    BY Zenon, <2>1, <2>2, TypeGroups DEF AppendTypes, broadcastAppendEntries
  <2>5. PanicTypes'
    BY Zenon, <2>2, <2>3, TypeGroups DEF PanicTypes
  <2>6. QED
    BY Zenon, <2>4, <2>5, TypeGroups, <1>TypesUnchanged DEF broadcastAppendEntries
\* A reply of a higher term ends the candidacy.
<1>VoteOfHigherTermTypes.
  ASSUME TypeOK, NEW m \in rvReplies, NEW i \in Server, VoteOfHigherTerm(i, m)
  PROVE  TypeOK'
  <2> USE <1>VoteOfHigherTermTypes
  <2>1. m.Term \in Nat
    BY Zenon DEF TypeOK, RequestVoteReply
  <2>2. ElectionTypes' /\ StoreTypes'
    BY Zenon, <2>1, <1>HigherTermTypes DEF VoteOfHigherTerm
  <2>3. VoteTypes'
    BY Zenon, TypeGroups DEF VoteTypes, VoteOfHigherTerm
  <2>4. QED
    BY Zenon, <2>2, <2>3, TypeGroups, <1>TypesUnchanged DEF VoteOfHigherTerm
\* The index after an index, and the distance of two.
<1>NextIsNat.
  ASSUME NEW a \in Nat
  PROVE  a + 1 \in Nat
  BY <1>NextIsNat
<1>SumIsNat.
  ASSUME NEW a \in Nat, NEW b \in Nat
  PROVE  a + b \in Nat
  BY <1>SumIsNat
<1>PositionIsInt.
  ASSUME NEW a \in Nat, NEW b \in Nat
  PROVE  a - b \in Int
  BY <1>PositionIsInt
\* Counting a vote, and becoming leader.
<1>CountVoteTypes.
  ASSUME TypeOK, NEW m \in rvReplies, NEW i \in Server, CountVote(i, m)
  PROVE  TypeOK'
  <2> USE <1>CountVoteTypes
  <2> DEFINE granted == grantedVotes[i] + (IF m.VoteGranted THEN 1 ELSE 0)
  <2>1. granted \in Nat
    BY DEF TypeOK
  <2>2. /\ grantedVotes' = [grantedVotes EXCEPT ![i] = IF Majority(granted) THEN 0 ELSE granted]
        /\ status' = [status EXCEPT ![i] = IF Majority(granted) THEN "LEADER" ELSE @]
        /\ UNCHANGED <<currentTerm, votedFor, ballots>>
    BY Zenon DEF CountVote
  <2> HIDE DEF granted
  <2>3. ElectionTypes'
    BY Zenon, <2>1, <2>2, TypeGroups DEF ElectionTypes
  <2>4. LeaderTypes'
    <3>1. LastLogIndex(i) + 1 \in Nat
      BY Zenon, LastOfLog, <1>NextIsNat
    <3>2. QED
      BY Zenon, <3>1, TypeGroups DEF LeaderTypes, CountVote
  <2>5. VoteTypes'
    BY Zenon, TypeGroups DEF VoteTypes, CountVote
  <2>6. AppendTypes'
    <3>1. Heartbeats(i) \subseteq AppendEntriesArgs
      BY Zenon, <1>HeartbeatType DEF Heartbeats, Peers
    <3>2. QED
      BY Zenon, <3>1, TypeGroups DEF AppendTypes, CountVote
  <2>7. QED
    BY Zenon, <2>3, <2>4, <2>5, <2>6, TypeGroups, <1>TypesUnchanged DEF CountVote
\* The search for the first entry of the conflicting term finds one.
<1>ConflictType.
  ASSUME TypeOK, NEW m \in aeArgs, NEW i \in Server, PrevConflicts(i, m)
  PROVE  LET found == logs[i][m.PrevLogIndex - snapshotIndex[i]].Term
         IN found \in Nat /\ logs[i][Least(OfTerm(logs[i], found))].Index \in Nat
  <2> USE <1>ConflictType
  <2> DEFINE pos   == m.PrevLogIndex - snapshotIndex[i]
             found == logs[i][pos].Term
             same  == OfTerm(logs[i], found)
  <2>1. logs[i] \in Seq(Entry) /\ Len(logs[i]) \in Nat /\ DOMAIN logs[i] = 1 .. Len(logs[i])
    BY Zenon, LastOfLog
  <2>2. pos \in 1 .. Len(logs[i])
    <3>1. m.PrevLogIndex \in Nat /\ snapshotIndex[i] \in Nat
      BY Zenon, AppendFields DEF TypeOK
    <3>2. m.PrevLogIndex > snapshotIndex[i] /\ m.PrevLogIndex <= Len(logs[i]) + snapshotIndex[i]
      BY Zenon DEF PrevConflicts, LogEnd
    <3>3. QED
      BY <2>1, <3>1, <3>2
  <2> HIDE DEF pos
  <2>3. found \in Nat
    BY Zenon, <2>1, <2>2, EntryFields
  <2>4. same \in SUBSET (1 .. Len(logs[i])) /\ pos \in same
    BY Zenon, <2>1, <2>2 DEF OfTerm
  <2>5. same \in SUBSET Nat /\ same # {}
    BY <2>4
  <2> HIDE DEF same
  <2>6. Least(same) \in 1 .. Len(logs[i])
    BY Zenon, <2>4, <2>5, LeastInSet
  <2>7. logs[i][Least(same)].Index \in Nat
    BY Zenon, <2>1, <2>6, EntryFields
  <2>8. QED
    BY Zenon, <2>3, <2>7 DEF same, pos
\* The answer to an AppendEntries call.
<1>AppendAnswerType.
  ASSUME TypeOK, NEW m \in aeArgs, NEW i \in Server
  PROVE  AppendAnswer(i, m) \in AppendEntriesReply
  <2> USE <1>AppendAnswerType
  <2> DEFINE refused(term) ==
          [src |-> i, dst |-> m.src, reqTerm |-> m.Term, PrevLogIndex |-> m.PrevLogIndex,
           NumEntries |-> Len(m.Entries), Term |-> term, Success |-> FALSE,
           FirstConflictingIndex |-> 0, ConflictingTerm |-> 0]
        found == logs[i][m.PrevLogIndex - snapshotIndex[i]].Term
        first == logs[i][Least(OfTerm(logs[i], found))].Index
  <2>1. /\ m.src \in Server /\ m.Term \in Nat /\ m.PrevLogIndex \in Nat /\ Len(m.Entries) \in Nat
        /\ currentTerm[i] \in Nat
    BY Zenon, AppendFields DEF TypeOK
  <2>2. \A t \in Nat : refused(t) \in AppendEntriesReply
    BY Zenon, <2>1 DEF AppendEntriesReply
  <2> DEFINE conflicting(t, c, f) == [refused(t) EXCEPT !.ConflictingTerm = c, !.FirstConflictingIndex = f]
             accepted(t) == [refused(t) EXCEPT !.Success = TRUE]
  <2>3. \A t, c, f \in Nat : conflicting(t, c, f) \in AppendEntriesReply
    BY Zenon, <2>1 DEF AppendEntriesReply
  <2>4. \A t \in Nat : accepted(t) \in AppendEntriesReply
    BY Zenon, <2>1 DEF AppendEntriesReply
  <2>5. PrevConflicts(i, m) => found \in Nat /\ first \in Nat
    BY Zenon, <1>ConflictType
  <2>6. AppendAnswer(i, m) =
          IF m.Term < currentTerm[i] THEN refused(currentTerm[i])
          ELSE IF PrevMissing(i, m) THEN refused(m.Term)
          ELSE IF PrevConflicts(i, m) THEN conflicting(m.Term, found, first)
          ELSE accepted(m.Term)
    BY Zenon DEF AppendAnswer
  <2> HIDE DEF refused, found, first, conflicting, accepted
  <2>7. QED
    BY Zenon, <2>1, <2>2, <2>3, <2>4, <2>5, <2>6
\* ReplyAppend adds a typed reply.
<1>ReplyAppendTypes.
  ASSUME TypeOK, NEW m \in aeArgs, NEW i \in Server, ReplyAppend(i, m), UNCHANGED aeArgs
  PROVE  AppendTypes'
  BY Zenon, <1>ReplyAppendTypes, <1>AppendAnswerType, TypeGroups DEF AppendTypes, ReplyAppend
\* AppendEntries of an older term.
<1>RefuseStaleAppendTypes.
  ASSUME TypeOK, NEW m \in aeArgs, NEW i \in Server, RefuseStaleAppend(i, m)
  PROVE  TypeOK'
  <2> USE <1>RefuseStaleAppendTypes
  <2>1. AppendTypes'
    BY Zenon, <1>ReplyAppendTypes DEF RefuseStaleAppend
  <2>2. QED
    BY Zenon, <2>1, TypeGroups, <1>TypesUnchanged DEF RefuseStaleAppend
\* The election fields after an AppendEntries call of a current term.
<1>AppendElectionTypes.
  ASSUME TypeOK, NEW m \in aeArgs, NEW i \in Server, FollowTerm(i, m.Term, StatusAfterAppend(i, m)),
         votedFor' = [votedFor EXCEPT ![i] = VoteAfter(i, m.Term)], UNCHANGED ballots
  PROVE  ElectionTypes'
  <2> USE <1>AppendElectionTypes
  <2>1. m.Term \in Nat
    BY Zenon, AppendFields
  <2>2. StatusAfterAppend(i, m) \in {"FOLLOWER", "CANDIDATE", "LEADER"}
    BY Zenon DEF StatusAfterAppend, TypeOK
  <2>3. VoteAfter(i, m.Term) \in Server \cup {Nil}
    BY Zenon, <2>1, <1>VoteAfterType
  <2>4. ballots' \subseteq Ballot
    BY Zenon DEF TypeOK
  <2>5. QED
    BY Zenon, <2>1, <2>2, <2>3, <2>4, <1>FollowTermTypes
\* AppendEntries that the log does not match.
<1>RejectAppendTypes.
  ASSUME TypeOK, NEW m \in aeArgs, NEW i \in Server, RejectAppend(i, m)
  PROVE  TypeOK'
  <2> USE <1>RejectAppendTypes
  <2>1. ElectionTypes'
    BY Zenon, <1>AppendElectionTypes DEF RejectAppend
  <2>2. AppendTypes'
    BY Zenon, <1>ReplyAppendTypes DEF RejectAppend
  <2>3. Persisted(i, m.Term, Nil, logs[i]) \in Data
    BY Zenon, AppendFields, LastOfLog, PersistedIsData
  <2>4. StoreTypes'
    BY Zenon, <2>3, TypeGroups DEF StoreTypes, RejectAppend
  <2>5. QED
    BY Zenon, <2>1, <2>2, <2>4, TypeGroups, <1>TypesUnchanged DEF RejectAppend
\* AppendEntries that the log matches.
<1>AcceptAppendTypes.
  ASSUME TypeOK, NEW m \in aeArgs, NEW i \in Server, AcceptAppend(i, m)
  PROVE  TypeOK'
  <2> USE <1>AcceptAppendTypes
  <2> DEFINE kept == Truncate(logs[i], snapshotIndex[i], m.Entries)
             new  == kept \o Extension(kept, snapshotIndex[i], m.Entries)
  <2>1. m.Term \in Nat /\ m.Entries \in Seq(Entry) /\ m.LeaderCommit \in Nat
    BY Zenon, AppendFields
  <2>2. kept \in Seq(Entry)
    BY Zenon, LastOfLog, TruncateIsSeq
  <2>3. new \in Seq(Entry)
    BY Zenon, <2>1, <2>2, ExtensionIsSeq, ConcatProperties
  <2>4. /\ logs' = [logs EXCEPT ![i] = new]
        /\ commitIndex' = [commitIndex EXCEPT ![i] = CommitAfter(@, kept, m.LeaderCommit)]
        /\ persister' = IF m.Term > currentTerm[i] \/ new # logs[i]
                    THEN [persister EXCEPT ![i] = Persisted(i, m.Term, VoteAfter(i, m.Term), new)]
                    ELSE persister
    BY Zenon DEF AcceptAppend
  <2> HIDE DEF kept, new
  <2>5. CommitAfter(commitIndex[i], kept, m.LeaderCommit) \in Nat
    BY Zenon, <2>1, <2>2, CommitAfterType DEF TypeOK
  <2>6. LogTypes'
    BY Zenon, <2>3, <2>4, <2>5, TypeGroups DEF LogTypes
  <2>7. Persisted(i, m.Term, VoteAfter(i, m.Term), new) \in Data
    BY Zenon, <2>1, <2>3, <1>VoteAfterType, PersistedIsData
  <2>8. StoreTypes'
    BY Zenon, <2>4, <2>7, TypeGroups DEF StoreTypes
  <2>9. ElectionTypes'
    BY Zenon, <1>AppendElectionTypes DEF AcceptAppend
  <2>10. AppendTypes'
    BY Zenon, <1>ReplyAppendTypes DEF AcceptAppend
  <2>11. QED
    BY Zenon, <2>6, <2>8, <2>9, <2>10, TypeGroups, <1>TypesUnchanged DEF AcceptAppend
\* Start appends a typed entry.
<1>CommandTypes.
  ASSUME TypeOK, NEW i \in Server, NEW c \in Command, handleCommand(i, c)
  PROVE  TypeOK'
  <2> USE <1>CommandTypes
  <2> DEFINE new == Append(logs[i], [Term |-> currentTerm[i], Index |-> LogEnd(i) + 1, Command |-> c])
  <2>1. currentTerm[i] \in Nat /\ votedFor[i] \in Server \cup {Nil}
    BY Zenon DEF TypeOK
  <2>2. logs[i] \in Seq(Entry) /\ LogEnd(i) + 1 \in Nat
    BY LastOfLog
  <2>3. [Term |-> currentTerm[i], Index |-> LogEnd(i) + 1, Command |-> c] \in Entry
    BY Zenon, <2>1, <2>2 DEF Entry
  <2>4. new \in Seq(Entry)
    BY Zenon, <2>2, <2>3, AppendProperties
  <2>5. /\ logs' = [logs EXCEPT ![i] = new] /\ UNCHANGED commitIndex
        /\ persister' = [persister EXCEPT ![i] = Persisted(i, currentTerm[i], votedFor[i], new)]
    BY Zenon DEF handleCommand
  <2> HIDE DEF new
  <2>6. LogTypes'
    BY Zenon, <2>4, <2>5, TypeGroups DEF LogTypes
  <2>7. StoreTypes'
    BY Zenon, <2>1, <2>4, <2>5, PersistedIsData, TypeGroups DEF StoreTypes
  <2>8. QED
    BY Zenon, <2>6, <2>7, TypeGroups, <1>TypesUnchanged DEF handleCommand
\* A reply of a higher term deposes the leader.
<1>AppendReplyOfHigherTermTypes.
  ASSUME TypeOK, NEW m \in aeReplies, NEW i \in Server, AppendReplyOfHigherTerm(i, m)
  PROVE  TypeOK'
  <2> USE <1>AppendReplyOfHigherTermTypes
  <2>1. ElectionTypes' /\ StoreTypes'
    BY Zenon, AppendReplyFields, <1>HigherTermTypes DEF AppendReplyOfHigherTerm
  <2>2. QED
    BY Zenon, <2>1, TypeGroups, <1>TypesUnchanged DEF AppendReplyOfHigherTerm
\* The committed index is an index of the log.
<1>UpdateCommitIndexType.
  ASSUME TypeOK, NEW i \in Server, NEW match
  PROVE  updateCommitIndex(i, match) \in Nat
  <2> USE <1>UpdateCommitIndexType
  <2> DEFINE good == {n \in Stored(i, match) :
                   n > snapshotIndex[i] /\ logs[i][n - snapshotIndex[i]].Term = currentTerm[i]}
  <2>1. commitIndex[i] \in Nat /\ LogEnd(i) \in Nat
    BY Zenon, LastOfLog DEF TypeOK
  <2>2. good \in SUBSET (commitIndex[i] + 1 .. LogEnd(i))
    BY Zenon DEF Stored
  <2>3. good \in SUBSET Nat /\ \A k \in good : k <= LogEnd(i)
    <3> HIDE DEF good
    <3>1. QED
      BY <2>1, <2>2
  <2>4. updateCommitIndex(i, match) = IF good = {} THEN commitIndex[i] ELSE Greatest(good)
    BY Zenon DEF updateCommitIndex
  <2> HIDE DEF good
  <2>5. good # {} => Greatest(good) \in Nat
    BY Zenon, <2>1, <2>3, GreatestInSet
  <2>6. QED
    BY Zenon, <2>1, <2>4, <2>5
\* A successful reply moves matchIndex, nextIndex and commitIndex.
<1>AppendSucceededTypes.
  ASSUME TypeOK, NEW m \in aeReplies, NEW i \in Server, AppendSucceeded(i, m)
  PROVE  TypeOK'
  <2> USE <1>AppendSucceededTypes
  <2> DEFINE last  == m.PrevLogIndex + m.NumEntries
             moved == m.NumEntries # 0 /\ last > matchIndex[i][m.src]
             match == IF moved THEN [matchIndex[i] EXCEPT ![m.src] = last] ELSE matchIndex[i]
             bad   == \E n \in Stored(i, match) : n <= snapshotIndex[i]
  <2>1. last \in Nat /\ m.src \in Server
    BY Zenon, AppendReplyFields, <1>SumIsNat
  <2>2. match \in [Server -> Nat]
    <3>1. matchIndex[i] \in [Server -> Nat]
      BY Zenon DEF TypeOK
    <3> HIDE DEF last, moved
    <3>2. CASE moved
      <4>1. match = [matchIndex[i] EXCEPT ![m.src] = last]
        BY Zenon, <3>2
      <4>2. QED
        BY Zenon, <2>1, <3>1, <4>1
    <3>3. CASE ~moved
      BY Zenon, <3>1, <3>3
    <3>4. QED
      BY Zenon, <3>2, <3>3
  <2>3. /\ matchIndex'  = [matchIndex EXCEPT ![i] = match]
        /\ nextIndex'   = IF moved THEN [nextIndex EXCEPT ![i][m.src] = last + 1] ELSE nextIndex
        /\ commitIndex' = [commitIndex EXCEPT ![i] = updateCommitIndex(i, match)]
        /\ panicked'    = [panicked EXCEPT ![i] = bad]
        /\ UNCHANGED logs
    BY Zenon DEF AppendSucceeded
  <2>4. bad \in BOOLEAN
    BY Zenon
  <2> HIDE DEF last, moved, match, bad
  <2>5. LeaderTypes'
    BY <2>1, <2>2, <2>3, TypeGroups DEF LeaderTypes
  <2>6. LogTypes'
    <3>1. updateCommitIndex(i, match) \in Nat
      BY Zenon, <1>UpdateCommitIndexType
    <3>2. QED
      BY Zenon, <2>3, <3>1, TypeGroups DEF LogTypes
  <2>7. PanicTypes'
    BY Zenon, <2>3, <2>4, TypeGroups DEF PanicTypes
  <2>8. QED
    BY Zenon, <2>5, <2>6, <2>7, TypeGroups, <1>TypesUnchanged DEF AppendSucceeded
\* nextIndex after a rejection.
<1>BackOffType.
  ASSUME TypeOK, NEW m \in aeReplies, NEW i \in Server
  PROVE  BackOff(i, m) \in Nat
  <2> USE <1>BackOffType
  <2> DEFINE same == OfTerm(logs[i], m.ConflictingTerm)
  <2>1. logs[i] \in Seq(Entry) /\ Len(logs[i]) \in Nat /\ DOMAIN logs[i] = 1 .. Len(logs[i])
    BY Zenon, LastOfLog
  <2>2. same \in SUBSET (1 .. Len(logs[i]))
    BY Zenon, <2>1 DEF OfTerm
  <2>3. same \in SUBSET Nat /\ \A k \in same : k <= Len(logs[i])
    BY <2>1, <2>2
  <2>4. snapshotIndex[i] \in Nat /\ m.FirstConflictingIndex \in Nat
    BY Zenon, AppendReplyFields, TypeGroups DEF SnapshotTypes
  <2>5. BackOff(i, m) = Max(IF same = {} THEN snapshotIndex[i] + 1 ELSE logs[i][Greatest(same)].Index,
                            m.FirstConflictingIndex)
    BY Zenon DEF BackOff
  <2> HIDE DEF same
  <2>6. same # {} => Greatest(same) \in 1 .. Len(logs[i])
    BY Zenon, <2>1, <2>2, <2>3, GreatestInSet
  <2>7. same # {} => logs[i][Greatest(same)].Index \in Nat
    BY Zenon, <2>1, <2>6, EntryFields
  <2> DEFINE x == IF same = {} THEN snapshotIndex[i] + 1 ELSE logs[i][Greatest(same)].Index
  <2>8. x \in Nat
    <3>1. CASE same = {}
      BY <2>4, <3>1
    <3>2. CASE same # {}
      BY Zenon, <2>7, <3>2
    <3>3. QED
      BY Zenon, <3>1, <3>2
  <2>9. BackOff(i, m) = Max(x, m.FirstConflictingIndex)
    BY Zenon, <2>5
  <2> HIDE DEF x
  <2>10. Max(x, m.FirstConflictingIndex) \in {x, m.FirstConflictingIndex}
    BY Zenon DEF Max
  <2>11. QED
    BY Zenon, <2>4, <2>8, <2>9, <2>10
\* A rejection moves nextIndex back and may send the snapshot.
<1>AppendFailedTypes.
  ASSUME TypeOK, NEW m \in aeReplies, NEW i \in Server, AppendFailed(i, m)
  PROVE  TypeOK'
  <2> USE <1>AppendFailedTypes
  <2> DEFINE call == [src |-> i, dst |-> m.src, inc |-> restarts[i], Term |-> currentTerm[i],
                      LastIncludedIndex |-> snapshotIndex[i],
                      LastIncludedTerm |-> snapshotTerm[i], Data |-> snapshot[i]]
  <2>1. m.src \in Server
    BY Zenon, AppendReplyFields
  <2>2. call \in InstallSnapshotRequest
    <3>1. /\ restarts[i] \in Nat /\ currentTerm[i] \in Nat /\ snapshotIndex[i] \in Nat
          /\ snapshotTerm[i] \in Int /\ snapshot[i] \in Snapshots
      BY Zenon DEF TypeOK
    <3>2. QED
      BY Zenon, <2>1, <3>1 DEF InstallSnapshotRequest
  <2>3. isArgs' \in {isArgs, isArgs \cup {call}} /\ UNCHANGED isReplies
    BY Zenon DEF AppendFailed
  <2>4. nextIndex' = [nextIndex EXCEPT ![i][m.src] = BackOff(i, m)] /\ UNCHANGED matchIndex
    BY Zenon DEF AppendFailed
  <2> HIDE DEF call
  <2>5. InstallTypes'
    BY Zenon, <2>2, <2>3, TypeGroups DEF InstallTypes
  <2>6. LeaderTypes'
    BY Zenon, <2>1, <2>4, <1>BackOffType, TypeGroups DEF LeaderTypes
  <2>7. QED
    BY Zenon, <2>5, <2>6, TypeGroups, <1>TypesUnchanged DEF AppendFailed
\* What applyToClient sends is a slice of the log.
<1>ApplicableIsSeq.
  ASSUME TypeOK, NEW i \in Server
  PROVE  Applicable(i) \in Seq(Entry)
  <2> USE <1>ApplicableIsSeq
  <2> DEFINE a == lastApplied[i] + 1 - snapshotIndex[i]
             b == Min(commitIndex[i] - snapshotIndex[i], Len(logs[i]))
  <2>1. lastApplied[i] \in Nat /\ snapshotIndex[i] \in Nat /\ commitIndex[i] \in Nat
    BY Zenon DEF TypeOK
  <2>2. logs[i] \in Seq(Entry) /\ Len(logs[i]) \in Nat
    BY Zenon, LastOfLog
  <2>3. ~(lastApplied[i] < snapshotIndex[i]) => a \in Nat \ {0}
    BY <2>1
  <2>4. b \in Int /\ b <= Len(logs[i])
    BY <2>1, <2>2 DEF Min
  <2>5. Applicable(i) = IF lastApplied[i] < snapshotIndex[i] THEN <<>> ELSE SubSeq(logs[i], a, b)
    BY Zenon DEF Applicable
  <2> HIDE DEF a, b
  <2>6. QED
    BY Zenon, <2>2, <2>3, <2>4, <2>5, SliceIsSeq, EmptySeq
\* applyToClient with the service behind applyCh.
<1>ApplyTypes.
  ASSUME TypeOK, NEW i \in Server, applyToClient(i)
  PROVE  TypeOK'
  <2> USE <1>ApplyTypes
  <2> DEFINE sent  == Applicable(i)
             msgs  == [k \in 1 .. Len(sent) |-> [Index |-> sent[k].Index, Command |-> sent[k].Command]]
             taken == service[i] \o msgs
             reqs  == {[index |-> taken[k].Index, snapshot |-> SubSeq(taken, 1, k)] :
                         k \in {n \in Len(service[i]) + 1 .. Len(taken) : TakesSnapshot(taken[n].Index)}}
             bad   == lastApplied[i] < snapshotIndex[i] \/ commitIndex[i] > LogEnd(i)
  <2>1. sent \in Seq(Entry) /\ Len(sent) \in Nat /\ DOMAIN sent = 1 .. Len(sent)
    BY Zenon, <1>ApplicableIsSeq, LenProperties
  <2>2. /\ panicked' = [panicked EXCEPT ![i] = bad]
        /\ lastApplied' = [lastApplied EXCEPT ![i] = commitIndex[i]]
        /\ applied' = applied \cup {sent[k] : k \in DOMAIN sent}
        /\ service' = [service EXCEPT ![i] = taken]
        /\ snapshotReqs' = [snapshotReqs EXCEPT ![i] = @ \cup reqs]
    BY Zenon DEF applyToClient
  <2>3. bad \in BOOLEAN
    BY Zenon
  <2> HIDE DEF sent
  <2>4. msgs \in Seq(Message)
    <3>1. \A k \in 1 .. Len(sent) : [Index |-> sent[k].Index, Command |-> sent[k].Command] \in Message
      BY Zenon, <2>1, EntryFields DEF Message
    <3>2. msgs \in [1 .. Len(sent) -> Message]
      BY Zenon, <3>1
    <3>3. QED
      BY <2>1, <3>2, SeqDef
  <2> HIDE DEF msgs
  <2>5. service[i] \in Seq(Message) /\ Len(service[i]) \in Nat
    BY Zenon, LenProperties DEF TypeOK, Snapshots
  <2>6. taken \in Seq(Message) /\ Len(taken) \in Nat
    BY Zenon, <2>4, <2>5, ConcatProperties, LenProperties
  <2> HIDE DEF taken
  <2>7. reqs \subseteq [index : Nat, snapshot : Snapshots]
    <3>1. \A k \in 1 .. Len(taken) : taken[k].Index \in Nat /\ SubSeq(taken, 1, k) \in Snapshots
      <4>1. \A k \in 1 .. Len(taken) : taken[k] \in Message
        BY Zenon, <2>6, ElementOfSeq
      <4>2. \A k \in 1 .. Len(taken) : SubSeq(taken, 1, k) \in Seq(Message)
        BY <2>6, SliceIsSeq
      <4>3. QED
        BY Zenon, <4>1, <4>2 DEF Message, Snapshots
    <3>2. Len(service[i]) + 1 .. Len(taken) \subseteq 1 .. Len(taken)
      BY <2>5, <2>6
    <3>3. \A k \in 1 .. Len(taken) :
            [index |-> taken[k].Index, snapshot |-> SubSeq(taken, 1, k)] \in [index : Nat, snapshot : Snapshots]
      BY Zenon, <3>1
    <3>4. QED
      BY Zenon, <3>2, <3>3
  <2> HIDE DEF reqs, bad
  <2>8. ServiceTypes'
    <3>1. lastApplied' \in [Server -> Nat]
      BY Zenon, <2>2, TypeGroups DEF ServiceTypes, LogTypes
    <3>2. service' \in [Server -> Snapshots]
      BY Zenon, <2>2, <2>6, TypeGroups DEF ServiceTypes, Snapshots
    <3>3. snapshotReqs' \in [Server -> SUBSET [index : Nat, snapshot : Snapshots]]
      BY Zenon, <2>2, <2>7, TypeGroups DEF ServiceTypes
    <3>4. applied' \subseteq Entry
      <4>1. \A k \in DOMAIN sent : sent[k] \in Entry
        BY Zenon, <2>1, EntryFields
      <4>2. QED
        BY Zenon, <2>2, <4>1, TypeGroups DEF ServiceTypes
    <3>5. QED
      BY Zenon, <3>1, <3>2, <3>3, <3>4 DEF ServiceTypes
  <2>9. PanicTypes'
    BY Zenon, <2>2, <2>3, TypeGroups DEF PanicTypes
  <2>10. QED
    BY Zenon, <2>8, <2>9, TypeGroups, <1>TypesUnchanged DEF applyToClient
\* The term handleSnapshot takes from the entry at a position.
<1>TermAt.
  ASSUME NEW log \in Seq(Entry), NEW pos \in Int, NEW broken,
         broken <=> pos \notin 0 .. Len(log)
  PROVE  (IF broken \/ pos = 0 THEN -1 ELSE log[pos].Term) \in Int
  <2> USE <1>TermAt
  <2>1. CASE broken \/ pos = 0
    BY <2>1
  <2>2. CASE ~broken /\ pos # 0
    <3>1. Len(log) \in Nat
      OBVIOUS
    <3>2. pos \in 1 .. Len(log)
      BY <2>2, <3>1
    <3>3. log[pos].Term \in Nat
      BY Zenon, <3>2, EntryFields
    <3>4. QED
      BY <2>2, <3>3
  <2>3. QED
    BY Zenon, <2>1, <2>2
\* The service's snapshot trims the log.
<1>SnapshotTypesKept.
  ASSUME TypeOK, NEW i \in Server, NEW req \in snapshotReqs[i], handleSnapshot(i, req)
  PROVE  TypeOK'
  <2> USE <1>SnapshotTypesKept
  <2> DEFINE pos    == req.index - snapshotIndex[i]
             broken == pos \notin 0 .. Len(logs[i])
             term   == IF broken \/ pos = 0 THEN -1 ELSE logs[i][pos].Term
             rest   == IF broken THEN <<>> ELSE SubSeq(logs[i], pos + 1, Len(logs[i]))
  <2>1. req.index \in Nat /\ req.snapshot \in Snapshots /\ snapshotIndex[i] \in Nat
    BY TypeGroups DEF SnapshotTypes, ServiceTypes
  <2>2. logs[i] \in Seq(Entry) /\ Len(logs[i]) \in Nat
    BY Zenon, LastOfLog
  <2>3. /\ snapshotReqs'  = [snapshotReqs EXCEPT ![i] = @ \ {req}]
        /\ panicked'      = [panicked EXCEPT ![i] = broken]
        /\ snapshot'      = [snapshot EXCEPT ![i] = req.snapshot]
        /\ snapshotIndex' = [snapshotIndex EXCEPT ![i] = req.index]
        /\ snapshotTerm'  = [snapshotTerm EXCEPT ![i] = term]
        /\ logs'          = [logs EXCEPT ![i] = rest]
        /\ UNCHANGED <<commitIndex, lastApplied, service, applied>>
    BY Zenon DEF handleSnapshot
  <2>4. broken \in BOOLEAN
    BY Zenon
  <2>5. pos \in Int
    BY Zenon, <2>1, <1>PositionIsInt
  <2> HIDE DEF pos
  <2>6. term \in Int
    BY Zenon, <2>2, <2>5, <1>TermAt
  <2>7. rest \in Seq(Entry)
    <3>1. ASSUME pos \in 0 .. Len(logs[i]) PROVE SubSeq(logs[i], pos + 1, Len(logs[i])) \in Seq(Entry)
      <4>1. pos + 1 \in Nat \ {0} /\ Len(logs[i]) \in Int /\ Len(logs[i]) <= Len(logs[i])
        BY <2>2, <3>1
      <4>2. QED
        BY Zenon, <2>2, <4>1, SliceIsSeq
    <3>2. QED
      BY Zenon, <3>1, EmptySeq
  <2> HIDE DEF broken, term, rest
  <2>8. LogTypes'
    BY Zenon, <2>3, <2>7, TypeGroups DEF LogTypes
  <2>9. SnapshotTypes'
    BY Zenon, <2>1, <2>3, <2>6, TypeGroups DEF SnapshotTypes
  <2>10. ServiceTypes'
    BY Zenon, <2>3, TypeGroups DEF ServiceTypes
  <2>11. PanicTypes'
    BY Zenon, <2>3, <2>4, TypeGroups DEF PanicTypes
  <2>12. QED
    BY Zenon, <2>8, <2>9, <2>10, <2>11, TypeGroups, <1>TypesUnchanged DEF handleSnapshot
\* The answer to an InstallSnapshot call.
<1>ReplyInstallTypes.
  ASSUME TypeOK, NEW m \in isArgs, NEW i \in Server, UNCHANGED isArgs,
         ReplyInstall(i, m) \/ UNCHANGED isReplies
  PROVE  InstallTypes'
  <2> USE <1>ReplyInstallTypes
  <2>1. currentTerm[i] \in Nat
    BY Zenon DEF TypeOK
  <2>2. [src |-> i, dst |-> m.src, inc |-> m.inc, Term |-> currentTerm[i]] \in InstallSnapshotReply
    BY Zenon, <2>1, InstallFields DEF InstallSnapshotReply
  <2>3. QED
    BY Zenon, <2>2, TypeGroups DEF InstallTypes, ReplyInstall
\* InstallSnapshot of an older term.
<1>RefuseInstallTypes.
  ASSUME TypeOK, NEW m \in isArgs, NEW i \in Server, RefuseInstall(i, m)
  PROVE  TypeOK'
  <2> USE <1>RefuseInstallTypes
  <2>1. InstallTypes'
    BY Zenon, <1>ReplyInstallTypes DEF RefuseInstall
  <2>2. QED
    BY Zenon, <2>1, TypeGroups, <1>TypesUnchanged DEF RefuseInstall
\* The head of handleInstallSnapshot.
<1>SaveReceivedTypes.
  ASSUME TypeOK, NEW m \in isArgs, NEW i \in Server, SaveReceived(i, m)
  PROVE  /\ ElectionTypes' /\ StoreTypes' /\ LeaderTypes' /\ VoteTypes' /\ AppendTypes' /\ RestartTypes'
         /\ snapshot' \in [Server -> Snapshots]
  <2> USE <1>SaveReceivedTypes
  <2>1. m.Term \in Nat /\ m.Data \in Snapshots /\ logs[i] \in Seq(Entry)
    BY Zenon, InstallFields, LastOfLog
  <2>2. VoteAfter(i, m.Term) \in Server \cup {Nil}
    BY Zenon, <2>1, <1>VoteAfterType
  <2>3. ElectionTypes'
    <3>1. (IF m.Term > currentTerm[i] THEN "FOLLOWER" ELSE status[i]) \in {"FOLLOWER", "CANDIDATE", "LEADER"}
      BY Zenon DEF TypeOK
    <3>2. ballots' \subseteq Ballot
      BY Zenon DEF TypeOK, SaveReceived
    <3>3. QED
      BY Zenon, <2>1, <2>2, <3>1, <3>2, <1>FollowTermTypes DEF SaveReceived
  <2>4. [CurrentTerm |-> m.Term, VotedFor |-> VoteAfter(i, m.Term), Logs |-> logs[i],
         SnapshotIndex |-> 0, SnapshotTerm |-> 0, Snapshot |-> m.Data] \in Data
    <3>1. 0 \in Nat /\ 0 \in Int
      OBVIOUS
    <3>2. QED
      BY Zenon, <2>1, <2>2, <3>1, DataRecord
  <2>5. StoreTypes'
    BY Zenon, <2>4, TypeGroups DEF StoreTypes, SaveReceived
  <2>6. snapshot' \in [Server -> Snapshots]
    BY Zenon, <2>1, TypeGroups DEF SnapshotTypes, SaveReceived
  <2>7. LeaderTypes' /\ VoteTypes' /\ AppendTypes' /\ RestartTypes'
    BY Zenon, <1>TypesUnchanged DEF SaveReceived
  <2>8. QED
    BY Zenon, <2>3, <2>5, <2>6, <2>7
\* InstallSnapshot without a snapshot.
<1>NilSnapshotTypes.
  ASSUME TypeOK, NEW m \in isArgs, NEW i \in Server, ReceiveNilSnapshot(i, m)
  PROVE  TypeOK'
  <2> USE <1>NilSnapshotTypes
  <2>1. SaveReceived(i, m) /\ UNCHANGED <<logs, snapshotIndex, snapshotTerm, lastApplied, service, panicked>>
    BY Zenon DEF ReceiveNilSnapshot
  <2>2. /\ ElectionTypes' /\ StoreTypes' /\ LeaderTypes' /\ VoteTypes' /\ AppendTypes' /\ RestartTypes'
        /\ snapshot' \in [Server -> Snapshots]
    BY Zenon, <2>1, <1>SaveReceivedTypes
  <2>3. InstallTypes'
    BY Zenon, <1>ReplyInstallTypes DEF ReceiveNilSnapshot, SaveReceived
  <2>4. UNCHANGED <<logVars, serviceVars>>
    BY Zenon, <2>1 DEF SaveReceived, logVars, serviceVars
  <2>5. SnapshotTypes'
    BY Zenon, <2>1, <2>2, TypeGroups DEF SnapshotTypes
  <2>6. LogTypes' /\ ServiceTypes' /\ PanicTypes'
    BY Zenon, <2>1, <2>4, <1>TypesUnchanged
  <2>7. QED
    BY Zenon, <2>2, <2>3, <2>5, <2>6, TypeGroups
\* InstallSnapshot that replaces the log.
<1>InstallTypesKept.
  ASSUME TypeOK, NEW m \in isArgs, NEW i \in Server, InstallSnapshot(i, m)
  PROVE  TypeOK'
  <2> USE <1>InstallTypesKept
  <2> DEFINE keep   == /\ logs[i] # <<>> /\ LastLogIndex(i) = snapshotIndex[i]
                       /\ LastLogTerm(i) = m.LastIncludedTerm
             drop   == m.LastIncludedIndex - snapshotIndex[i]
             broken == keep /\ drop \notin 0 .. Len(logs[i])
             rest   == IF keep /\ ~broken THEN SubSeq(logs[i], drop + 1, Len(logs[i])) ELSE <<>>
  <2>1. /\ m.LastIncludedIndex \in Nat /\ m.LastIncludedTerm \in Int /\ m.Data \in Snapshots
        /\ snapshotIndex[i] \in Nat
    BY Zenon, InstallFields, TypeGroups DEF SnapshotTypes
  <2>2. logs[i] \in Seq(Entry) /\ Len(logs[i]) \in Nat
    BY Zenon, LastOfLog
  <2>3. /\ SaveReceived(i, m)
        /\ panicked'      = [panicked EXCEPT ![i] = broken]
        /\ logs'          = [logs EXCEPT ![i] = rest]
        /\ snapshotIndex' = [snapshotIndex EXCEPT ![i] = m.LastIncludedIndex]
        /\ snapshotTerm'  = [snapshotTerm EXCEPT ![i] = m.LastIncludedTerm]
        /\ lastApplied'   = [lastApplied EXCEPT ![i] = m.LastIncludedIndex]
        /\ service'       = [service EXCEPT ![i] = IF keep THEN @ ELSE m.Data]
        /\ UNCHANGED isReplies \/ ReplyInstall(i, m)
    BY Zenon DEF InstallSnapshot
  <2>4. UNCHANGED <<commitIndex, snapshotReqs, applied, isArgs>>
    BY Zenon, <2>3 DEF SaveReceived
  <2>5. broken \in BOOLEAN
    BY Zenon
  <2>6. rest \in Seq(Entry)
    <3>1. ASSUME drop \in 0 .. Len(logs[i]) PROVE SubSeq(logs[i], drop + 1, Len(logs[i])) \in Seq(Entry)
      <4>1. drop + 1 \in Nat \ {0} /\ Len(logs[i]) \in Int /\ Len(logs[i]) <= Len(logs[i])
        BY <2>2, <3>1
      <4> HIDE DEF drop
      <4>2. QED
        BY Zenon, <2>2, <4>1, SliceIsSeq
    <3> HIDE DEF drop
    <3>2. QED
      BY Zenon, <3>1, EmptySeq
  <2> HIDE DEF keep, drop, broken, rest
  <2>7. /\ ElectionTypes' /\ StoreTypes' /\ LeaderTypes' /\ VoteTypes' /\ AppendTypes' /\ RestartTypes'
        /\ snapshot' \in [Server -> Snapshots]
    BY Zenon, <2>3, <1>SaveReceivedTypes
  <2>8. InstallTypes'
    BY Zenon, <2>3, <2>4, <1>ReplyInstallTypes
  <2>9. LogTypes'
    BY Zenon, <2>3, <2>4, <2>6, TypeGroups DEF LogTypes
  <2>10. SnapshotTypes'
    BY Zenon, <2>1, <2>3, <2>7, TypeGroups DEF SnapshotTypes
  <2>11. ServiceTypes'
    BY Zenon, <2>1, <2>3, <2>4, TypeGroups DEF ServiceTypes
  <2>12. PanicTypes'
    BY Zenon, <2>3, <2>5, TypeGroups DEF PanicTypes
  <2>13. QED
    BY Zenon, <2>7, <2>8, <2>9, <2>10, <2>11, <2>12, TypeGroups
\* A reply of a higher term to InstallSnapshot deposes the leader.
<1>InstallReplyTypes.
  ASSUME TypeOK, NEW m \in isReplies, NEW i \in Server, InstallReplyOfHigherTerm(i, m)
  PROVE  TypeOK'
  <2> USE <1>InstallReplyTypes
  <2>1. m.Term \in Nat
    BY Zenon DEF TypeOK, InstallSnapshotReply
  <2>2. ElectionTypes' /\ StoreTypes'
    BY Zenon, <2>1, <1>HigherTermTypes DEF InstallReplyOfHigherTerm
  <2>3. QED
    BY Zenon, <2>2, TypeGroups, <1>TypesUnchanged DEF InstallReplyOfHigherTerm
\* Make reads typed data back.
<1>BootTypes.
  ASSUME TypeOK, NEW i \in Server, NEW d \in Data, Boot(i, d), rvArgs' \subseteq rvArgs
  PROVE  TypeOK'
  <2> USE <1>BootTypes
  <2>1. /\ d.CurrentTerm \in Nat /\ d.VotedFor \in Server \cup {Nil} /\ d.Logs \in Seq(Entry)
        /\ d.SnapshotIndex \in Nat /\ d.SnapshotTerm \in Int /\ d.Snapshot \in Snapshots
    BY Zenon DEF Data
  <2>2. ElectionTypes'
    BY Zenon, <2>1, TypeGroups DEF ElectionTypes, Boot
  <2>3. LogTypes'
    BY Zenon, <2>1, TypeGroups DEF LogTypes, Boot
  <2>4. LeaderTypes'
    BY Zenon, TypeGroups DEF LeaderTypes, Boot
  <2>5. SnapshotTypes'
    BY Zenon, <2>1, TypeGroups DEF SnapshotTypes, Boot
  <2>6. ServiceTypes'
    BY Zenon, <2>1, TypeGroups DEF ServiceTypes, Boot
  <2>7. VoteTypes'
    BY Zenon, TypeGroups DEF VoteTypes, Boot
  <2>8. PanicTypes'
    BY Zenon, TypeGroups DEF PanicTypes, Boot
  <2>9. StoreTypes'
    BY Zenon, TypeGroups DEF StoreTypes, Boot
  <2>10. RestartTypes'
    BY TypeGroups DEF RestartTypes, Boot
  <2>11. AppendTypes' /\ InstallTypes'
    BY Zenon, <1>TypesUnchanged DEF Boot
  <2>12. QED
    BY Zenon, <2>2, <2>3, <2>4, <2>5, <2>6, <2>7, <2>8, <2>9, <2>10, <2>11, TypeGroups
\* A crash between two handlers.
<1>RestartTypesKept.
  ASSUME TypeOK, NEW i \in Server, Restart(i)
  PROVE  TypeOK'
  <2> USE <1>RestartTypesKept
  <2>1. persister[i] \in Data
    BY Zenon DEF TypeOK
  <2>2. QED
    BY Zenon, <2>1, <1>BootTypes DEF Restart
\* A crash after the term of a call is stored.
<1>CrashAfterTermTypes.
  ASSUME TypeOK, NEW i \in Server, NEW m, m.Term \in Nat, CrashAfterTerm(i, m)
  PROVE  TypeOK'
  <2> USE <1>CrashAfterTermTypes
  <2>1. Persisted(i, m.Term, Nil, logs[i]) \in Data
    BY Zenon, LastOfLog, PersistedIsData
  <2>2. QED
    BY Zenon, <2>1, <1>BootTypes DEF CrashAfterTerm
\* A crash between two appends of one call.
<1>CrashInAppendTypes.
  ASSUME TypeOK, NEW i \in Server, NEW m \in aeArgs, NEW n \in Nat, CrashInAppend(i, m, n)
  PROVE  TypeOK'
  <2> USE <1>CrashInAppendTypes
  <2> DEFINE kept == Truncate(logs[i], snapshotIndex[i], m.Entries)
             new  == Extension(kept, snapshotIndex[i], m.Entries)
             d    == Persisted(i, m.Term, VoteAfter(i, m.Term), kept \o SubSeq(new, 1, n))
  <2>1. m.Term \in Nat /\ m.Entries \in Seq(Entry)
    BY Zenon, AppendFields
  <2>2. kept \in Seq(Entry)
    BY Zenon, LastOfLog, TruncateIsSeq
  <2>3. new \in Seq(Entry)
    BY Zenon, <2>1, ExtensionIsSeq
  <2>4. n < Len(new) /\ Boot(i, d) /\ UNCHANGED rvArgs
    BY Zenon DEF CrashInAppend
  <2> HIDE DEF kept, new
  <2>5. SubSeq(new, 1, n) \in Seq(Entry)
    <3>1. n \in Int /\ n <= Len(new)
      BY <2>3, <2>4, LenProperties
    <3>2. QED
      BY <2>3, <3>1, SliceIsSeq
  <2>6. kept \o SubSeq(new, 1, n) \in Seq(Entry)
    BY Zenon, <2>2, <2>5, ConcatProperties
  <2>7. d \in Data
    BY Zenon, <2>1, <2>6, <1>VoteAfterType, PersistedIsData
  <2> HIDE DEF d
  <2>8. QED
    BY Zenon, <2>4, <2>7, <1>BootTypes
<1> SUFFICES ASSUME TypeOK, [Next]_vars PROVE TypeOK'
  BY Zenon
<1>1. CASE UNCHANGED vars
  BY Zenon, <1>1, TypeGroups, <1>TypesUnchanged DEF vars
<1>2. ASSUME NEW i \in Server, Timer(i) \/ Restart(i) PROVE TypeOK'
  BY Zenon, <1>2, <1>StartElectionTypes, <1>HeartbeatTypes, <1>BroadcastTypes, <1>ApplyTypes, <1>RestartTypesKept DEF Timer
<1>3. ASSUME NEW i \in Server, NEW c \in Command, handleCommand(i, c) PROVE TypeOK'
  BY Zenon, <1>3, <1>CommandTypes
<1>4. ASSUME NEW i \in Server, NEW req \in snapshotReqs[i], handleSnapshot(i, req) PROVE TypeOK'
  BY Zenon, <1>4, <1>SnapshotTypesKept
<1>5. ASSUME NEW m \in rvArgs, ReceiveVoteRequest(m) PROVE TypeOK'
  <2>1. m.dst \in Server /\ m.Term \in Nat
    BY Zenon, TypeGroups DEF VoteTypes, RequestVoteArgs
  <2>2. QED
    BY Zenon, <1>5, <2>1, <1>DeclineVoteTypes, <1>VoteRequestTypes, <1>CrashAfterTermTypes DEF ReceiveVoteRequest
<1>6. ASSUME NEW m \in rvReplies, ReceiveVote(m) PROVE TypeOK'
  <2>1. m.dst \in Server
    BY Zenon, TypeGroups DEF VoteTypes, RequestVoteReply
  <2>2. QED
    BY Zenon, <1>6, <2>1, <1>VoteOfHigherTermTypes, <1>CountVoteTypes DEF ReceiveVote
<1>7. ASSUME NEW m \in aeArgs, ReceiveAppend(m) PROVE TypeOK'
  <2>1. m.dst \in Server /\ m.Term \in Nat /\ Len(m.Entries) \in Nat
    BY Zenon, AppendFields
  <2>2. ASSUME NEW n \in 0 .. Len(m.Entries), CrashInAppend(m.dst, m, n) PROVE TypeOK'
    BY <2>1, <2>2, <1>CrashInAppendTypes
  <2>3. QED
    BY Zenon, <1>7, <2>1, <2>2, <1>RefuseStaleAppendTypes, <1>RejectAppendTypes, <1>AcceptAppendTypes,
       <1>CrashAfterTermTypes DEF ReceiveAppend
<1>8. ASSUME NEW m \in aeReplies, ReceiveAppendReply(m) PROVE TypeOK'
  BY Zenon, <1>8, AppendReplyFields, <1>AppendReplyOfHigherTermTypes, <1>AppendSucceededTypes, <1>AppendFailedTypes
     DEF ReceiveAppendReply
<1>9. ASSUME NEW m \in isArgs, ReceiveInstall(m) PROVE TypeOK'
  BY Zenon, <1>9, InstallFields, <1>RefuseInstallTypes, <1>NilSnapshotTypes, <1>InstallTypesKept, <1>CrashAfterTermTypes
     DEF ReceiveInstall
<1>10. ASSUME NEW m \in isReplies, InstallReplyOfHigherTerm(m.dst, m) PROVE TypeOK'
  <2>1. m.dst \in Server
    BY Zenon, TypeGroups DEF InstallTypes, InstallSnapshotReply
  <2>2. QED
    BY Zenon, <1>10, <2>1, <1>InstallReplyTypes
<1>11. QED
  <2>1. Next \/ UNCHANGED vars
    BY Zenon
  <2>2. QED
    BY Zenon, <2>1, <1>1, <1>2, <1>3, <1>4, <1>5, <1>6, <1>7, <1>8, <1>9, <1>10
       DEF Next, ReceiveSnapshotRequest

\* For any finite set of peers, any commands and any bounds, the fields of every peer,
\* what it stores and the calls and replies under way keep their types; in particular

-----------------------------------------------------------------------------
(* Votes *)

\* The peers whose vote in its current term candidate c has been granted, and those
\* whose answer is not under way any more.
Vote(v, t, c) == [voter |-> v, term |-> t, candidate |-> c]
Voters(c) == {v \in Server : Vote(v, currentTerm[c], c) \in ballots}
Grants == {r \in rvReplies : r.VoteGranted}
UnderWay(c) == {v \in Server : \E r \in Grants : r.src = v /\ r.dst = c /\ r.reqTerm = currentTerm[c]}
Counted(c) == Voters(c) \ UnderWay(c)

-----------------------------------------------------------------------------
(* The inductive invariant *)

\* The term and the vote are always the stored ones: each handler that changes them
\* calls persist before it answers.
VoteStored ==
  \A i \in Server : persister[i].CurrentTerm = currentTerm[i] /\ persister[i].VotedFor = votedFor[i]

\* A vote lies in a term that its voter and its candidate have reached, and votedFor
\* remembers the one of the voter's current term.
VoteRemembered ==
  \A b \in ballots :
    /\ b.term <= currentTerm[b.voter] /\ b.term <= currentTerm[b.candidate]
    /\ b.term = currentTerm[b.voter] => votedFor[b.voter] = b.candidate

\* A RequestVote call under way is the only one of its caller, peer and term, and has not
\* been granted: handleRequestVote may clear votedFor only because of this.
CallUnanswered ==
  /\ \A m \in rvArgs : /\ m.src # m.dst /\ m.Term <= currentTerm[m.src]
                       /\ Vote(m.dst, m.Term, m.src) \notin ballots
  /\ \A m, n \in rvArgs : m.src = n.src /\ m.dst = n.dst /\ m.Term = n.Term => m = n

\* A granting reply under way stands for a vote, and no vote is reported twice.
GrantBacked ==
  /\ \A r \in Grants : Vote(r.src, r.reqTerm, r.dst) \in ballots
  /\ \A r, q \in Grants : r.src = q.src /\ r.dst = q.dst /\ r.reqTerm = q.reqTerm => r = q

\* A candidate has counted no more than the votes that have arrived.
CountBacked ==
  \A c \in Server : status[c] = "CANDIDATE" => grantedVotes[c] <= Cardinality(Counted(c))

\* A leader has the votes of a majority in its term.
LeaderElected ==
  \A c \in Server : status[c] = "LEADER" => Majority(Cardinality(Voters(c)))

ElectionInv ==
  /\ TypeOK /\ OneVotePerTerm
  /\ VoteStored /\ VoteRemembered /\ CallUnanswered /\ GrantBacked /\ CountBacked /\ LeaderElected

-----------------------------------------------------------------------------
(* Majorities *)

\* Any set of peers has a size.
LEMMA PeerSets ==
  ASSUME Background, NEW S \in SUBSET Server
  PROVE  Cardinality(S) \in Nat /\ Cardinality(Server) \in Nat
BY Zenon DEF Background

\* Of two sets of peers the larger is not smaller.
LEMMA PeerSetsGrow ==
  ASSUME Background, NEW S \in SUBSET Server, NEW T \in SUBSET S
  PROVE  Cardinality(T) <= Cardinality(S)
BY Zenon DEF Background

\* One more peer.
LEMMA PeerAdded ==
  ASSUME Background, NEW S \in SUBSET Server, NEW x \in Server, x \notin S
  PROVE  Cardinality(S \cup {x}) = Cardinality(S) + 1
BY Zenon DEF Background

\* What is more than a majority is one.
LEMMA MajorityGrows ==
  ASSUME Background, NEW m \in Nat, NEW n \in Nat, m <= n, Majority(m)
  PROVE  Majority(n)
BY PeerSets DEF Majority

\* Two majorities have a peer in common.
LEMMA MajoritiesMeet ==
  ASSUME Background, NEW S \in SUBSET Server, NEW T \in SUBSET Server,
         Majority(Cardinality(S)), Majority(Cardinality(T))
  PROVE  S \cap T # {}
<1>1. Cardinality(S) \in Nat /\ Cardinality(T) \in Nat /\ Cardinality(Server) \in Nat
  BY Zenon, PeerSets
<1>2. Cardinality(S) + Cardinality(T) > Cardinality(Server)
  BY <1>1 DEF Majority
<1>3. QED
  BY Zenon, <1>2 DEF Background

\* At most one leader per term, from the majorities behind the leaders.
LEMMA OneLeader == Background /\ ElectionInv => ElectionSafety
<1> SUFFICES ASSUME Background, ElectionInv, NEW i \in Server, NEW j \in Server,
                    status[i] = "LEADER", status[j] = "LEADER", currentTerm[i] = currentTerm[j]
             PROVE  i = j
  BY Zenon DEF ElectionSafety
<1>1. Majority(Cardinality(Voters(i))) /\ Majority(Cardinality(Voters(j)))
  BY Zenon DEF ElectionInv, LeaderElected
<1>2. PICK v \in Server : v \in Voters(i) /\ v \in Voters(j)
  BY Zenon, <1>1, MajoritiesMeet DEF Voters
<1>3. Vote(v, currentTerm[i], i) \in ballots /\ Vote(v, currentTerm[i], j) \in ballots
  BY Zenon, <1>2 DEF Voters
<1>4. Vote(v, currentTerm[i], i) = Vote(v, currentTerm[i], j)
  BY Zenon, <1>3 DEF ElectionInv, OneVotePerTerm, Vote
<1>5. QED
  BY Zenon, <1>4 DEF Vote

-----------------------------------------------------------------------------
(* Steps that cast and count no vote *)

\* Peer i has voted for nobody in its term.
Unvoted(i) == \A b \in ballots : ~(b.voter = i /\ b.term = currentTerm[i])

\* No peer gains a vote, a term is never left for an earlier one, the vote of a term is
\* only forgotten when none was given, and a peer that stays candidate or leader stays in
\* its term with its count.
NoVote ==
  /\ ballots' = ballots /\ rvArgs' \subseteq rvArgs /\ Grants' \subseteq Grants
  /\ \A j \in Server :
       /\ currentTerm'[j] >= currentTerm[j]
       /\ currentTerm'[j] = currentTerm[j] =>
            votedFor'[j] = votedFor[j] \/ Unvoted(j)
       /\ status'[j] # "FOLLOWER" => status'[j] = status[j] /\ currentTerm'[j] = currentTerm[j]
       /\ status'[j] = "CANDIDATE" => grantedVotes'[j] = grantedVotes[j]
       /\ persister'[j].CurrentTerm = currentTerm'[j] /\ persister'[j].VotedFor = votedFor'[j]

\* A step that leaves the election fields alone, and persists at most the log.
LEMMA IdleStep ==
  ASSUME ElectionInv, UNCHANGED electionVars, rvArgs' \subseteq rvArgs, Grants' \subseteq Grants,
         NEW i \in Server, NEW log,
         persister' \in {persister, [persister EXCEPT ![i] = Persisted(i, currentTerm[i], votedFor[i], log)]}
  PROVE  NoVote
<1>1. /\ currentTerm \in [Server -> Nat] /\ persister \in [Server -> Data]
  BY Zenon, TypeGroups DEF ElectionInv, ElectionTypes, StoreTypes
<1>2. \A j \in Server : persister[j].CurrentTerm = currentTerm[j] /\ persister[j].VotedFor = votedFor[j]
  BY Zenon DEF ElectionInv, VoteStored
<1>3. \A j \in Server : persister'[j].CurrentTerm = currentTerm[j] /\ persister'[j].VotedFor = votedFor[j]
  BY <1>1, <1>2 DEF Persisted
<1>4. QED
  BY <1>1, <1>3 DEF NoVote, electionVars

\* Peer i follows term t, keeping its vote, or setting it to v in a term without one.
Follows(i, t, s, v) ==
  /\ t \in Nat /\ t >= currentTerm[i] /\ (s = "FOLLOWER" \/ (s = status[i] /\ t = currentTerm[i]))
  /\ t = currentTerm[i] => v = votedFor[i] \/ Unvoted(i)
  /\ FollowTerm(i, t, s) /\ votedFor' = [votedFor EXCEPT ![i] = v]
  /\ \A j \in Server \ {i} : persister'[j] = persister[j]
  /\ persister'[i].CurrentTerm = t /\ persister'[i].VotedFor = v
  /\ UNCHANGED ballots /\ rvArgs' \subseteq rvArgs /\ Grants' \subseteq Grants

\* That casts no vote.
LEMMA FollowStep ==
  ASSUME ElectionInv, NEW i \in Server, NEW t, NEW s, NEW v, Follows(i, t, s, v)
  PROVE  NoVote
<1> USE DEF Follows
<1>1. /\ currentTerm \in [Server -> Nat] /\ persister \in [Server -> Data]
      /\ votedFor \in [Server -> Server \cup {Nil}] /\ grantedVotes \in [Server -> Nat]
      /\ status \in [Server -> {"FOLLOWER", "CANDIDATE", "LEADER"}]
  BY Zenon, TypeGroups DEF ElectionInv, ElectionTypes, StoreTypes
<1>2. \A j \in Server : persister[j].CurrentTerm = currentTerm[j] /\ persister[j].VotedFor = votedFor[j]
  BY Zenon DEF ElectionInv, VoteStored
<1>3. ASSUME NEW j \in Server, j # i
      PROVE  /\ currentTerm'[j] = currentTerm[j] /\ votedFor'[j] = votedFor[j] /\ status'[j] = status[j]
             /\ grantedVotes'[j] = grantedVotes[j] /\ persister'[j] = persister[j]
  BY Zenon, <1>1, <1>3 DEF FollowTerm
<1>4. /\ currentTerm'[i] = t /\ votedFor'[i] = v /\ status'[i] = s
      /\ s = "CANDIDATE" => grantedVotes'[i] = grantedVotes[i]
  BY Zenon, <1>1 DEF FollowTerm
<1>5. \A j \in Server : persister'[j].CurrentTerm = currentTerm'[j] /\ persister'[j].VotedFor = votedFor'[j]
  BY Zenon, <1>2, <1>3, <1>4
<1>6. \A j \in Server : currentTerm'[j] >= currentTerm[j]
  BY <1>1, <1>3, <1>4
<1>7. \A j \in Server : currentTerm'[j] = currentTerm[j] =>
        votedFor'[j] = votedFor[j] \/ Unvoted(j)
  BY Zenon, <1>3, <1>4
<1>8. \A j \in Server :
        /\ status'[j] # "FOLLOWER" => status'[j] = status[j] /\ currentTerm'[j] = currentTerm[j]
        /\ status'[j] = "CANDIDATE" => grantedVotes'[j] = grantedVotes[j]
  BY Zenon, <1>3, <1>4
<1>9. QED
  BY Zenon, <1>5, <1>6, <1>7, <1>8 DEF NoVote

\* A restart from stored data that is not older than the peer.
LEMMA BootStep ==
  ASSUME ElectionInv, NEW i \in Server, NEW d, Boot(i, d), rvArgs' \subseteq rvArgs, d.CurrentTerm \in Nat,
         d.CurrentTerm >= currentTerm[i], d.CurrentTerm = currentTerm[i] => d.VotedFor = votedFor[i]
  PROVE  NoVote
<1>1. FollowTerm(i, d.CurrentTerm, "FOLLOWER") /\ votedFor' = [votedFor EXCEPT ![i] = d.VotedFor]
  BY Zenon DEF Boot, FollowTerm
<1>2. /\ UNCHANGED ballots /\ \A j \in Server \ {i} : persister'[j] = persister[j]
      /\ persister'[i] = d
  BY Zenon DEF Boot, ElectionInv, TypeOK
<1>3. Grants' \subseteq Grants
  BY Zenon DEF Boot, Grants
<1>4. Follows(i, d.CurrentTerm, "FOLLOWER", d.VotedFor)
  BY Zenon, <1>1, <1>2, <1>3 DEF Follows
<1>5. QED
  BY Zenon, <1>4, FollowStep

\* The three kinds of crash.
LEMMA CrashSteps ==
  ASSUME ElectionInv, NEW i \in Server,
         \/ Restart(i)
         \/ \E m \in rvArgs \cup aeArgs \cup isArgs : CrashAfterTerm(i, m)
         \/ \E m \in aeArgs : \E n \in 0 .. Len(m.Entries) : CrashInAppend(i, m, n)
  PROVE  NoVote
<1>0. TypeOK /\ currentTerm[i] \in Nat
  BY Zenon, TypeGroups DEF ElectionInv, ElectionTypes, StoreTypes
<1>1. CASE Restart(i)
  <2>1. persister[i] \in Data
    BY Zenon, <1>0, TypeGroups DEF StoreTypes
  <2>2. persister[i].CurrentTerm = currentTerm[i] /\ persister[i].VotedFor = votedFor[i]
    BY Zenon DEF ElectionInv, VoteStored
  <2>3. QED
    BY <1>0, <1>1, <2>1, <2>2, BootStep DEF Restart
<1>2. ASSUME NEW m \in rvArgs \cup aeArgs \cup isArgs, CrashAfterTerm(i, m) PROVE NoVote
  <2> DEFINE d == Persisted(i, m.Term, Nil, logs[i])
  <2>1. m.Term \in Nat
    <3>1. CASE m \in rvArgs
      BY Zenon, <1>0, <3>1, TypeGroups DEF VoteTypes, RequestVoteArgs
    <3>2. CASE m \in aeArgs
      BY Zenon, <1>0, <3>2, AppendFields
    <3>3. CASE m \in isArgs
      BY Zenon, <1>0, <3>3, InstallFields
    <3>4. QED
      BY Zenon, <3>1, <3>2, <3>3
  <2>2. d \in Data
    BY Zenon, <1>0, <2>1, LastOfLog, PersistedIsData
  <2>3. d.CurrentTerm > currentTerm[i] /\ Boot(i, d) /\ rvArgs' \subseteq rvArgs
    BY Zenon, <1>2 DEF CrashAfterTerm, Persisted
  <2>4. d.CurrentTerm \in Nat
    BY Zenon, <2>2 DEF Data
  <2> HIDE DEF d
  <2>5. QED
    BY <1>0, <2>2, <2>3, <2>4, BootStep
<1>3. ASSUME NEW m \in aeArgs, NEW n \in 0 .. Len(m.Entries), CrashInAppend(i, m, n) PROVE NoVote
  <2> DEFINE kept == Truncate(logs[i], snapshotIndex[i], m.Entries)
             d    == Persisted(i, m.Term, VoteAfter(i, m.Term),
                               kept \o SubSeq(Extension(kept, snapshotIndex[i], m.Entries), 1, n))
  <2>1. Boot(i, d) /\ rvArgs' \subseteq rvArgs /\ m.Term >= currentTerm[i]
    BY Zenon, <1>3 DEF CrashInAppend
  <2>2. d.CurrentTerm = m.Term /\ d.VotedFor = VoteAfter(i, m.Term)
    BY Zenon DEF Persisted
  <2>3. m.Term \in Nat
    BY Zenon, <1>0, AppendFields
  <2>4. m.Term = currentTerm[i] => VoteAfter(i, m.Term) = votedFor[i]
    BY <1>0, <2>3 DEF VoteAfter
  <2> HIDE DEF d
  <2>5. QED
    BY Zenon, <2>1, <2>2, <2>3, <2>4, BootStep
<1>4. QED
  BY Zenon, <1>1, <1>2, <1>3

\* A term that is not below another is above it or equal.
LEMMA NotBelow ==
  ASSUME NEW t \in Nat, NEW u \in Nat, t >= u, ~(t > u)
  PROVE  t = u
OBVIOUS

\* A handler forgets the vote of an earlier term and keeps that of its own.
LEMMA VoteAfterCases ==
  ASSUME NEW i \in Server, NEW t \in Nat, currentTerm[i] \in Nat, t >= currentTerm[i]
  PROVE  \/ t > currentTerm[i] /\ VoteAfter(i, t) = Nil
         \/ ~(t > currentTerm[i]) /\ t = currentTerm[i] /\ VoteAfter(i, t) = votedFor[i]
<1>1. CASE t > currentTerm[i]
  BY Zenon, <1>1 DEF VoteAfter
<1>2. CASE ~(t > currentTerm[i])
  <2>1. t = currentTerm[i]
    BY Zenon, <1>2, NotBelow
  <2>2. VoteAfter(i, t) = votedFor[i]
    BY Zenon, <1>2 DEF VoteAfter
  <2>3. QED
    BY Zenon, <1>2, <2>1, <2>2
<1>3. QED
  BY Zenon, <1>1, <1>2

\* Finding a higher term.
LEMMA HigherTermStep ==
  ASSUME ElectionInv, NEW i \in Server, NEW t \in Nat, t > currentTerm[i], handleHigherTermFound(i, t),
         rvArgs' \subseteq rvArgs, Grants' \subseteq Grants
  PROVE  NoVote
<1>1. currentTerm[i] \in Nat
  BY Zenon, TypeGroups DEF ElectionInv, ElectionTypes, StoreTypes
<1>2. /\ \A j \in Server \ {i} : persister'[j] = persister[j]
      /\ persister'[i] = Persisted(i, t, Nil, logs[i])
  BY Zenon DEF handleHigherTermFound, ElectionInv, TypeOK
<1>3. persister'[i].CurrentTerm = t /\ persister'[i].VotedFor = Nil
  BY <1>2 DEF Persisted
<1>4. Follows(i, t, "FOLLOWER", Nil)
  BY <1>1, <1>2, <1>3 DEF Follows, handleHigherTermFound
<1>5. QED
  BY Zenon, <1>4, FollowStep

\* Timers, commands and the service leave elections alone.
LEMMA TimerSteps ==
  ASSUME ElectionInv, NEW i \in Server,
         \/ sendHeartBeat(i) \/ broadcastAppendEntries(i) \/ applyToClient(i)
         \/ \E c \in Command : handleCommand(i, c)
         \/ \E req \in snapshotReqs[i] : handleSnapshot(i, req)
  PROVE  NoVote
<1>1. UNCHANGED electionVars /\ UNCHANGED <<rvArgs, rvReplies>>
  BY Zenon DEF sendHeartBeat, broadcastAppendEntries, applyToClient, handleCommand, handleSnapshot, voteNet
<1>2. \E log : persister' \in {persister, [persister EXCEPT ![i] = Persisted(i, currentTerm[i], votedFor[i], log)]}
  BY Zenon DEF sendHeartBeat, broadcastAppendEntries, applyToClient, handleCommand, handleSnapshot
<1>3. Grants' \subseteq Grants
  BY Zenon, <1>1 DEF Grants
<1>4. UNCHANGED electionVars /\ rvArgs' \subseteq rvArgs
  BY Zenon, <1>1
<1>5. PICK log : persister' \in {persister, [persister EXCEPT ![i] = Persisted(i, currentTerm[i], votedFor[i], log)]}
  BY Zenon, <1>2
<1>6. QED
  BY <1>3, <1>4, <1>5, IdleStep

\* The handler of AppendEntries.
LEMMA AppendSteps ==
  ASSUME ElectionInv, NEW i \in Server, NEW m \in aeArgs,
         RefuseStaleAppend(i, m) \/ RejectAppend(i, m) \/ AcceptAppend(i, m)
  PROVE  NoVote
<1>1. TypeOK /\ m.Term \in Nat /\ currentTerm[i] \in Nat /\ persister \in [Server -> Data]
      /\ status[i] \in {"FOLLOWER", "CANDIDATE", "LEADER"}
  BY Zenon, AppendFields DEF ElectionInv, TypeOK
<1>2. UNCHANGED <<rvArgs, rvReplies, ballots>>
  BY Zenon DEF RefuseStaleAppend, RejectAppend, AcceptAppend, electionVars, voteNet
<1>3. Grants' \subseteq Grants
  BY Zenon, <1>2 DEF Grants
<1>4. CASE RefuseStaleAppend(i, m)
  BY Zenon, <1>2, <1>3, <1>4, IdleStep DEF RefuseStaleAppend
<1>5. CASE RejectAppend(i, m) \/ AcceptAppend(i, m)
  <2> DEFINE s == StatusAfterAppend(i, m)
             v == VoteAfter(i, m.Term)
  <2>1. m.Term >= currentTerm[i] /\ FollowTerm(i, m.Term, s) /\ votedFor' = [votedFor EXCEPT ![i] = v]
    BY Zenon, <1>5 DEF RejectAppend, AcceptAppend
  <2>2. m.Term > currentTerm[i] => v = Nil
    BY Zenon DEF VoteAfter
  <2>3. ~(m.Term > currentTerm[i]) => v = votedFor[i] /\ m.Term = currentTerm[i]
    BY Zenon, <1>1, <2>1, VoteAfterCases
  <2>4. s = "FOLLOWER" \/ (s = status[i] /\ m.Term = currentTerm[i])
    <3>1. s = "FOLLOWER" \/ (s = status[i] /\ ~(m.Term > currentTerm[i]))
      BY Zenon DEF StatusAfterAppend
    <3>2. QED
      BY Zenon, <2>3, <3>1
  <2>5. \/ \E log : persister' = [persister EXCEPT ![i] = Persisted(i, m.Term, v, log)]
        \/ UNCHANGED persister /\ ~(m.Term > currentTerm[i])
    BY Zenon, <1>5, <2>2 DEF RejectAppend, AcceptAppend
  <2>6. /\ \A j \in Server \ {i} : persister'[j] = persister[j]
        /\ persister'[i].CurrentTerm = m.Term /\ persister'[i].VotedFor = v
    BY <1>1, <2>3, <2>5 DEF Persisted, ElectionInv, VoteStored
  <2> HIDE DEF s, v
  <2>7. Follows(i, m.Term, s, v)
    <3>1. m.Term = currentTerm[i] => v = votedFor[i]
      BY <1>1, <2>3
    <3>2. QED
      BY Zenon, <1>1, <1>2, <1>3, <2>1, <2>4, <2>6, <3>1 DEF Follows
  <2>8. QED
    BY Zenon, <2>7, FollowStep
<1>6. QED
  BY Zenon, <1>4, <1>5

\* The handler of InstallSnapshot.
LEMMA InstallSteps ==
  ASSUME ElectionInv, NEW i \in Server, NEW m \in isArgs,
         RefuseInstall(i, m) \/ ReceiveNilSnapshot(i, m) \/ InstallSnapshot(i, m)
  PROVE  NoVote
<1>1. TypeOK /\ m.Term \in Nat /\ currentTerm[i] \in Nat /\ persister \in [Server -> Data]
  BY Zenon, InstallFields, TypeGroups DEF ElectionInv, ElectionTypes, StoreTypes
<1>2. UNCHANGED <<rvArgs, rvReplies, ballots>>
  BY Zenon DEF RefuseInstall, ReceiveNilSnapshot, InstallSnapshot, SaveReceived, electionVars, voteNet
<1>3. Grants' \subseteq Grants
  BY Zenon, <1>2 DEF Grants
<1>4. CASE RefuseInstall(i, m)
  BY Zenon, <1>2, <1>3, <1>4, IdleStep DEF RefuseInstall
<1>5. CASE SaveReceived(i, m)
  <2> DEFINE s == IF m.Term > currentTerm[i] THEN "FOLLOWER" ELSE status[i]
             v == VoteAfter(i, m.Term)
             d == [CurrentTerm |-> m.Term, VotedFor |-> v, Logs |-> logs[i],
                   SnapshotIndex |-> 0, SnapshotTerm |-> 0, Snapshot |-> m.Data]
  <2>1. /\ m.Term >= currentTerm[i] /\ FollowTerm(i, m.Term, s) /\ votedFor' = [votedFor EXCEPT ![i] = v]
        /\ persister' = [persister EXCEPT ![i] = d]
    BY Zenon, <1>5 DEF SaveReceived
  <2>2. ~(m.Term > currentTerm[i]) => v = votedFor[i] /\ m.Term = currentTerm[i]
    <3>1. m.Term >= currentTerm[i]
      BY Zenon, <2>1
    <3>2. QED
      BY Zenon, <1>1, <3>1, VoteAfterCases
  <2>3. s = "FOLLOWER" \/ (s = status[i] /\ m.Term = currentTerm[i])
    BY Zenon, <2>2
  <2>4. /\ \A j \in Server \ {i} : persister'[j] = persister[j]
        /\ persister'[i].CurrentTerm = m.Term /\ persister'[i].VotedFor = v
    BY Zenon, <1>1, <2>1
  <2> HIDE DEF s, v, d
  <2>5. Follows(i, m.Term, s, v)
    <3>1. m.Term = currentTerm[i] => v = votedFor[i]
      BY <1>1, <2>2
    <3>2. QED
      BY Zenon, <1>1, <1>2, <1>3, <2>1, <2>3, <2>4, <3>1 DEF Follows
  <2>6. QED
    BY Zenon, <2>5, FollowStep
<1>6. QED
  BY Zenon, <1>4, <1>5 DEF ReceiveNilSnapshot, InstallSnapshot

\* Replies to the leader.
LEMMA ReplySteps ==
  ASSUME ElectionInv, NEW i \in Server,
         \/ \E m \in aeReplies :
              AppendReplyOfHigherTerm(i, m) \/ AppendSucceeded(i, m) \/ AppendFailed(i, m)
         \/ \E m \in isReplies : InstallReplyOfHigherTerm(i, m)
         \/ \E m \in rvReplies : VoteOfHigherTerm(i, m)
  PROVE  NoVote
<1>1. TypeOK
  BY Zenon DEF ElectionInv
<1>2. rvArgs' \subseteq rvArgs /\ rvReplies' \subseteq rvReplies
  BY Zenon DEF AppendReplyOfHigherTerm, AppendSucceeded, AppendFailed, InstallReplyOfHigherTerm,
         VoteOfHigherTerm, voteNet
<1>3. Grants' \subseteq Grants
  BY Zenon, <1>2 DEF Grants
<1>4. ASSUME NEW m \in aeReplies, AppendSucceeded(i, m) \/ AppendFailed(i, m) PROVE NoVote
  <2>1. UNCHANGED electionVars /\ UNCHANGED persister
    BY Zenon, <1>4 DEF AppendSucceeded, AppendFailed
  <2>2. QED
    BY Zenon, <1>2, <1>3, <2>1, IdleStep
<1>5. ASSUME NEW m \in aeReplies, AppendReplyOfHigherTerm(i, m) PROVE NoVote
  BY Zenon, <1>1, <1>2, <1>3, <1>5, AppendReplyFields, HigherTermStep DEF AppendReplyOfHigherTerm
<1>6. ASSUME NEW m \in isReplies, InstallReplyOfHigherTerm(i, m) PROVE NoVote
  <2>1. m.Term \in Nat
    BY Zenon, <1>1, TypeGroups DEF InstallTypes, InstallSnapshotReply
  <2>2. QED
    BY Zenon, <1>2, <1>3, <1>6, <2>1, HigherTermStep DEF InstallReplyOfHigherTerm
<1>7. ASSUME NEW m \in rvReplies, VoteOfHigherTerm(i, m) PROVE NoVote
  <2>1. m.Term \in Nat
    BY Zenon, <1>1, TypeGroups DEF VoteTypes, RequestVoteReply
  <2>2. QED
    BY Zenon, <1>2, <1>3, <1>7, <2>1, HigherTermStep DEF VoteOfHigherTerm
<1>8. QED
  BY Zenon, <1>4, <1>5, <1>6, <1>7

\* The RequestVote handler when it does not grant the vote.  Clearing votedFor is safe:
\* had the peer voted for the caller in this term, the call would not be under way.
LEMMA NoGrantSteps ==
  ASSUME ElectionInv, NEW i \in Server, NEW m \in rvArgs, m.dst = i, DeclineVote(i, m) \/ RefuseVote(i, m)
  PROVE  NoVote
<1>1. TypeOK /\ m.Term \in Nat /\ m.src \in Server /\ currentTerm[i] \in Nat /\ persister \in [Server -> Data]
  BY Zenon DEF ElectionInv, TypeOK, RequestVoteArgs
<1>2. rvArgs' \subseteq rvArgs
  BY Zenon DEF DeclineVote, RefuseVote, ReplyVote
<1>3. Grants' \subseteq Grants
  <2>1. PICK term : ReplyVote(i, m, term, FALSE)
    BY Zenon DEF DeclineVote, RefuseVote
  <2> DEFINE r == [src |-> i, dst |-> m.src, reqTerm |-> m.Term, Term |-> term, VoteGranted |-> FALSE]
  <2>2. rvReplies' = rvReplies \cup {r} /\ ~r.VoteGranted
    BY Zenon, <2>1 DEF ReplyVote
  <2> HIDE DEF r
  <2>3. QED
    BY Zenon, <2>2 DEF Grants
<1>4. CASE DeclineVote(i, m)
  BY Zenon, <1>2, <1>3, <1>4, IdleStep DEF DeclineVote
<1>5. CASE RefuseVote(i, m)
  <2> DEFINE s == IF m.Term > currentTerm[i] THEN "FOLLOWER" ELSE status[i]
  <2>1. /\ m.Term >= currentTerm[i] /\ CanVote(i, m) /\ FollowTerm(i, m.Term, s) /\ UNCHANGED ballots
        /\ votedFor' = [votedFor EXCEPT ![i] = Nil]
        /\ persister' = [persister EXCEPT ![i] = Persisted(i, m.Term, Nil, logs[i])]
    BY Zenon, <1>5 DEF RefuseVote, CastVote
  <2>2. s = "FOLLOWER" \/ (s = status[i] /\ m.Term = currentTerm[i])
    <3>1. CASE m.Term > currentTerm[i]
      BY Zenon, <3>1
    <3>2. CASE ~(m.Term > currentTerm[i])
      <4>1. m.Term = currentTerm[i]
        BY Zenon, <1>1, <2>1, <3>2, NotBelow
      <4>2. QED
        BY Zenon, <3>2, <4>1
    <3>3. QED
      BY Zenon, <3>1, <3>2
  <2>3. m.Term = currentTerm[i] => Unvoted(i)
    <3> SUFFICES ASSUME m.Term = currentTerm[i], NEW b \in ballots, b.voter = i, b.term = currentTerm[i]
                 PROVE  FALSE
      BY Zenon DEF Unvoted
    <3>1. b.candidate \in Server /\ b = Vote(i, m.Term, b.candidate)
      BY Zenon, <1>1 DEF TypeOK, Ballot, Vote
    <3>2. votedFor[i] = b.candidate
      BY Zenon DEF ElectionInv, VoteRemembered
    <3>3. b.candidate = m.src
      <4>1. ~(m.Term > currentTerm[i])
        BY <1>1
      <4>2. VoteAfter(i, m.Term) = b.candidate
        BY Zenon, <3>2, <4>1 DEF VoteAfter
      <4>3. VoteAfter(i, m.Term) \in {Nil, m.src}
        BY Zenon, <2>1 DEF CanVote
      <4>4. QED
        BY Zenon, <3>1, <4>2, <4>3, ServerAssumption
    <3>4. Vote(i, m.Term, m.src) \notin ballots
      BY Zenon DEF ElectionInv, CallUnanswered
    <3>5. QED
      BY Zenon, <3>1, <3>3, <3>4
  <2>4. /\ \A j \in Server \ {i} : persister'[j] = persister[j]
        /\ persister'[i].CurrentTerm = m.Term /\ persister'[i].VotedFor = Nil
    BY Zenon, <1>1, <2>1 DEF Persisted
  <2> HIDE DEF s
  <2>5. Follows(i, m.Term, s, Nil)
    BY Zenon, <1>1, <1>2, <1>3, <2>1, <2>2, <2>3, <2>4 DEF Follows
  <2>6. QED
    BY Zenon, <2>5, FollowStep
<1>6. QED
  BY Zenon, <1>4, <1>5

-----------------------------------------------------------------------------
(* Steps that cast or count a vote *)

\* The fields of votes, calls and answers.
LEMMA VoteFields ==
  ASSUME TypeOK
  PROVE  /\ \A b \in ballots : /\ b.voter \in Server /\ b.candidate \in Server /\ b.term \in Nat
                               /\ b = Vote(b.voter, b.term, b.candidate)
         /\ \A m \in rvArgs : m.src \in Server /\ m.dst \in Server /\ m.Term \in Nat
         /\ \A r \in Grants : r.src \in Server /\ r.dst \in Server /\ r.reqTerm \in Nat
<1>1. \A b \in ballots : /\ b.voter \in Server /\ b.candidate \in Server /\ b.term \in Nat
                         /\ b = Vote(b.voter, b.term, b.candidate)
  <2>1. ballots \subseteq Ballot
    BY Zenon DEF TypeOK
  <2>2. QED
    BY <2>1 DEF Ballot, Vote
<1>2. \A m \in rvArgs : m.src \in Server /\ m.dst \in Server /\ m.Term \in Nat
  BY Zenon, TypeGroups DEF VoteTypes, RequestVoteArgs
<1>3. \A r \in Grants : r.src \in Server /\ r.dst \in Server /\ r.reqTerm \in Nat
  BY Zenon, TypeGroups DEF VoteTypes, RequestVoteReply, Grants
<1>4. QED
  BY Zenon, <1>1, <1>2, <1>3

-----------------------------------------------------------------------------

\* The invariant holds when all peers start for the first time.
LEMMA InitElection == Init => ElectionInv
<1> SUFFICES ASSUME Init PROVE ElectionInv
  BY Zenon
<1>1. TypeOK
  BY Zenon, InitTypes
<1>2. OneVotePerTerm /\ VoteRemembered /\ CallUnanswered /\ GrantBacked
  BY Zenon DEF Init, OneVotePerTerm, VoteRemembered, CallUnanswered, GrantBacked, Grants
<1>3. VoteStored
  BY Zenon DEF Init, VoteStored, Fresh
<1>4. \A c \in Server : status[c] = "FOLLOWER"
  BY Zenon DEF Init
<1>5. CountBacked /\ LeaderElected
  BY Zenon, <1>4 DEF CountBacked, LeaderElected
<1>6. QED
  BY Zenon, <1>1, <1>2, <1>3, <1>5 DEF ElectionInv

\* Every step keeps it.
LEMMA NextElection == Background /\ ElectionInv /\ [Next]_vars => ElectionInv'
<1> SUFFICES ASSUME Background PROVE ElectionInv /\ [Next]_vars => ElectionInv'
  BY Zenon
\* Such a step keeps the invariant.
<1>NoVoteKeeps.
  ASSUME ElectionInv, TypeOK', NoVote
  PROVE  ElectionInv'
  <2> USE <1>NoVoteKeeps
  <2>1. \A j \in Server : currentTerm[j] \in Nat /\ currentTerm'[j] \in Nat
    BY Zenon, TypeGroups DEF ElectionInv, ElectionTypes, StoreTypes
  <2>2. \A b \in ballots : b.voter \in Server /\ b.candidate \in Server /\ b.term \in Nat
    BY Zenon DEF ElectionInv, TypeOK, Ballot
  <2>3. \A m \in rvArgs : m.src \in Server /\ m.dst \in Server /\ m.Term \in Nat
    BY Zenon DEF ElectionInv, TypeOK, RequestVoteArgs
  <2>4. OneVotePerTerm'
    BY Zenon DEF ElectionInv, OneVotePerTerm, NoVote
  <2>5. VoteStored'
    BY Zenon DEF VoteStored, NoVote
  <2>6. VoteRemembered'
    <3> SUFFICES ASSUME NEW b \in ballots
                 PROVE  /\ b.term <= currentTerm'[b.voter] /\ b.term <= currentTerm'[b.candidate]
                        /\ b.term = currentTerm'[b.voter] => votedFor'[b.voter] = b.candidate
      BY Zenon DEF VoteRemembered, NoVote
    <3>1. /\ b.term <= currentTerm[b.voter] /\ b.term <= currentTerm[b.candidate]
          /\ b.term = currentTerm[b.voter] => votedFor[b.voter] = b.candidate
      BY Zenon DEF ElectionInv, VoteRemembered
    <3>2. currentTerm'[b.voter] >= currentTerm[b.voter] /\ currentTerm'[b.candidate] >= currentTerm[b.candidate]
      BY Zenon, <2>2 DEF NoVote
    <3>3. b.term = currentTerm'[b.voter] => currentTerm'[b.voter] = currentTerm[b.voter]
      BY <2>1, <2>2, <3>1, <3>2
    <3>4. currentTerm'[b.voter] = currentTerm[b.voter] /\ b.term = currentTerm[b.voter]
            => votedFor'[b.voter] = votedFor[b.voter]
      BY Zenon, <2>2 DEF NoVote, Unvoted
    <3>5. QED
      BY <2>1, <2>2, <3>1, <3>2, <3>3, <3>4
  <2>7. CallUnanswered'
    <3>1. \A m \in rvArgs : m.Term <= currentTerm'[m.src]
      <4>1. \A m \in rvArgs : m.Term <= currentTerm[m.src] /\ currentTerm'[m.src] >= currentTerm[m.src]
        BY Zenon, <2>3 DEF ElectionInv, CallUnanswered, NoVote
      <4>2. QED
        BY <2>1, <2>3, <4>1
    <3>2. QED
      BY Zenon, <3>1 DEF ElectionInv, CallUnanswered, NoVote, Vote
  <2>8. GrantBacked'
    BY Zenon DEF ElectionInv, GrantBacked, NoVote, Vote
  <2>9. ASSUME NEW c \in Server, currentTerm'[c] = currentTerm[c]
        PROVE  Voters(c)' = Voters(c) /\ Counted(c) \in SUBSET Counted(c)'
               /\ Counted(c)' \in SUBSET Server
    <3>1. Voters(c)' = Voters(c)
      BY Zenon, <2>9 DEF Voters, NoVote, Vote
    <3>2. UnderWay(c)' \subseteq UnderWay(c)
      BY Zenon, <2>9 DEF UnderWay, NoVote
    <3>3. QED
      BY Zenon, <3>1, <3>2 DEF Counted, Voters
  <2>10. CountBacked'
    <3> SUFFICES ASSUME NEW c \in Server, status'[c] = "CANDIDATE"
                 PROVE  grantedVotes'[c] <= Cardinality(Counted(c)')
      BY Zenon DEF CountBacked
    <3>1. status[c] = "CANDIDATE" /\ currentTerm'[c] = currentTerm[c] /\ grantedVotes'[c] = grantedVotes[c]
      BY Zenon DEF NoVote
    <3>2. Counted(c) \in SUBSET Counted(c)' /\ Counted(c)' \in SUBSET Server /\ Counted(c) \in SUBSET Server
      BY Zenon, <2>9, <3>1
    <3>3. grantedVotes[c] <= Cardinality(Counted(c))
      BY Zenon, <3>1 DEF ElectionInv, CountBacked
    <3>4. Cardinality(Counted(c)) <= Cardinality(Counted(c)')
      BY Zenon, <3>2, PeerSetsGrow
    <3>5. grantedVotes[c] \in Nat /\ Cardinality(Counted(c)) \in Nat /\ Cardinality(Counted(c)') \in Nat
      BY Zenon, <3>2, PeerSets, TypeGroups DEF ElectionInv, ElectionTypes
    <3>6. QED
      BY <3>1, <3>3, <3>4, <3>5
  <2>11. LeaderElected'
    <3> SUFFICES ASSUME NEW c \in Server, status'[c] = "LEADER"
                 PROVE  Majority(Cardinality(Voters(c)'))
      BY Zenon DEF LeaderElected, Majority
    <3>1. status[c] = "LEADER" /\ currentTerm'[c] = currentTerm[c]
      BY Zenon DEF NoVote
    <3>2. QED
      BY Zenon, <2>9, <3>1 DEF ElectionInv, LeaderElected
  <2>12. QED
    BY Zenon, <2>4, <2>5, <2>6, <2>7, <2>8, <2>10, <2>11 DEF ElectionInv
\* A candidate that starts an election votes for itself in a term nobody has asked
\* votes for in its name.
<1>StartElectionStep.
  ASSUME ElectionInv, TypeOK', NEW i \in Server, startElection(i)
  PROVE  ElectionInv'
  <2> USE <1>StartElectionStep
  <2> DEFINE t == currentTerm[i] + 1
  <2>1. /\ TypeOK /\ currentTerm \in [Server -> Nat] /\ votedFor \in [Server -> Server \cup {Nil}]
        /\ status \in [Server -> {"FOLLOWER", "CANDIDATE", "LEADER"}] /\ persister \in [Server -> Data]
        /\ grantedVotes \in [Server -> Nat]
    BY Zenon, TypeGroups DEF ElectionInv, ElectionTypes, StoreTypes
  <2>2. /\ currentTerm' = [currentTerm EXCEPT ![i] = t] /\ votedFor' = [votedFor EXCEPT ![i] = i]
        /\ status' = [status EXCEPT ![i] = "CANDIDATE"] /\ grantedVotes' = [grantedVotes EXCEPT ![i] = 1]
        /\ persister' = [persister EXCEPT ![i] = Persisted(i, t, i, logs[i])]
        /\ ballots' = ballots \cup {Vote(i, t, i)} /\ UNCHANGED rvReplies
    BY Zenon DEF startElection, Vote
  <2>3. /\ \A b \in ballots : /\ b.voter \in Server /\ b.candidate \in Server /\ b.term \in Nat
                              /\ b = Vote(b.voter, b.term, b.candidate)
        /\ \A m \in rvArgs : m.src \in Server /\ m.dst \in Server /\ m.Term \in Nat
        /\ \A r \in Grants : r.src \in Server /\ r.dst \in Server /\ r.reqTerm \in Nat
    BY Zenon, <2>1, VoteFields
  <2>4. \A b \in ballots : /\ b.term <= currentTerm[b.voter] /\ b.term <= currentTerm[b.candidate]
                           /\ b.term = currentTerm[b.voter] => votedFor[b.voter] = b.candidate
    BY Zenon DEF ElectionInv, VoteRemembered
  <2>5. \A b \in ballots : b.voter = i \/ b.candidate = i => b.term < t
    BY <2>1, <2>3, <2>4
  <2>6. /\ Vote(i, t, i).voter = i /\ Vote(i, t, i).term = t /\ Vote(i, t, i).candidate = i
        /\ t \in Nat /\ t > currentTerm[i]
    BY <2>1 DEF Vote
  <2> DEFINE Call(j) == [src |-> i, dst |-> j, Term |-> t,
                         LastLogIndex |-> LastLogIndex(i), LastLogTerm |-> LastLogTerm(i)]
  <2>0. rvArgs' = rvArgs \cup {Call(j) : j \in Peers(i)}
    BY Zenon DEF startElection
  <2>7a. \A j : Call(j).src = i /\ Call(j).Term = t /\ Call(j).dst = j
    BY Zenon
  <2> HIDE DEF Call
  <2>7. \A m \in rvArgs' : m \in rvArgs \/ (m.src = i /\ m.Term = t /\ m.dst \in Peers(i))
    BY Zenon, <2>0, <2>7a
  <2>8. \A m, n \in rvArgs' : m \notin rvArgs /\ n \notin rvArgs /\ m.dst = n.dst => m = n
    <3> SUFFICES ASSUME NEW m \in rvArgs', NEW n \in rvArgs',
                        m \notin rvArgs, n \notin rvArgs, m.dst = n.dst
                 PROVE  m = n
      BY Zenon
    <3>1. PICK j \in Peers(i) : m = Call(j)
      BY Zenon, <2>0
    <3>2. PICK k \in Peers(i) : n = Call(k)
      BY Zenon, <2>0
    <3>3. j = k
      BY <2>7a, <3>1, <3>2
    <3>4. QED
      BY Zenon, <3>1, <3>2, <3>3
  <2>9. currentTerm'[i] = t /\ votedFor'[i] = i /\ \A j \in Server \ {i} :
          /\ currentTerm'[j] = currentTerm[j] /\ votedFor'[j] = votedFor[j] /\ status'[j] = status[j]
          /\ grantedVotes'[j] = grantedVotes[j] /\ persister'[j] = persister[j]
    BY Zenon, <2>1, <2>2
  <2> HIDE DEF t
  <2>10. OneVotePerTerm'
    <3>1. \A a, b \in ballots : a.voter = b.voter /\ a.term = b.term => a = b
      BY Zenon DEF ElectionInv, OneVotePerTerm
    <3>2. \A b \in ballots : ~(b.voter = i /\ b.term = t)
      BY <2>3, <2>5, <2>6
    <3>3. QED
      BY <2>2, <2>6, <3>1, <3>2 DEF OneVotePerTerm
  <2>11. VoteStored'
    <3>1. persister'[i].CurrentTerm = t /\ persister'[i].VotedFor = i
      BY Zenon, <2>1, <2>2 DEF Persisted
    <3>2. QED
      BY Zenon, <2>9, <3>1 DEF ElectionInv, VoteStored
  <2>12. VoteRemembered'
    <3> SUFFICES ASSUME NEW b \in ballots'
                 PROVE  /\ b.term <= currentTerm'[b.voter] /\ b.term <= currentTerm'[b.candidate]
                        /\ b.term = currentTerm'[b.voter] => votedFor'[b.voter] = b.candidate
      BY Zenon DEF VoteRemembered
    <3>1. CASE b = Vote(i, t, i)
      <4>1. b.voter = i /\ b.candidate = i /\ b.term = t
        BY Zenon, <2>6, <3>1
      <4>2. currentTerm'[i] = t /\ votedFor'[i] = i /\ t \in Nat
        BY Zenon, <2>6, <2>9
      <4>3. QED
        BY <4>1, <4>2
    <3>2. CASE b \in ballots
      <4>1. currentTerm'[b.voter] = (IF b.voter = i THEN t ELSE currentTerm[b.voter])
            /\ currentTerm'[b.candidate] = (IF b.candidate = i THEN t ELSE currentTerm[b.candidate])
            /\ (b.voter # i => votedFor'[b.voter] = votedFor[b.voter])
        BY Zenon, <2>3, <2>9, <3>2
      <4>2. /\ b.term <= currentTerm[b.voter] /\ b.term <= currentTerm[b.candidate]
            /\ (b.term = currentTerm[b.voter] => votedFor[b.voter] = b.candidate)
            /\ (b.voter = i \/ b.candidate = i => b.term < t) /\ b.term \in Nat
        BY Zenon, <2>3, <2>4, <2>5, <3>2
      <4>3. QED
        BY <2>6, <4>1, <4>2
    <3>3. QED
      BY Zenon, <2>2, <3>1, <3>2
  <2>13. CallUnanswered'
    <3>1. \A m \in rvArgs : /\ m.src # m.dst /\ m.Term <= currentTerm[m.src]
                            /\ Vote(m.dst, m.Term, m.src) \notin ballots
      BY Zenon DEF ElectionInv, CallUnanswered
    <3>2. ASSUME NEW m \in rvArgs'
          PROVE  /\ m.src # m.dst /\ m.Term <= currentTerm'[m.src]
                 /\ Vote(m.dst, m.Term, m.src) \notin ballots'
      <4>1. m.src # m.dst /\ m.src \in Server /\ m.Term \in Nat
        BY Zenon, <2>3, <2>6, <2>7, <3>1 DEF Peers
      <4>2. m.Term <= currentTerm'[m.src]
        <5>1. CASE m \in rvArgs /\ m.src # i
          BY Zenon, <2>9, <3>1, <4>1, <5>1
        <5>2. CASE m \in rvArgs /\ m.src = i
          <6>1. m.Term <= currentTerm[i] /\ currentTerm[i] \in Nat
            BY Zenon, <2>1, <3>1, <5>2
          <6>2. QED
            BY <2>6, <2>9, <4>1, <5>2, <6>1
        <5>3. CASE m \notin rvArgs
          <6>1. m.src = i /\ m.Term = t /\ currentTerm'[i] = t /\ t \in Nat
            BY Zenon, <2>6, <2>7, <2>9, <5>3
          <6>2. QED
            BY <6>1
        <5>4. QED
          BY Zenon, <5>1, <5>2, <5>3
      <4>3. Vote(m.dst, m.Term, m.src) # Vote(i, t, i)
        BY Zenon, <4>1 DEF Vote
      <4>4. Vote(m.dst, m.Term, m.src) \notin ballots
        <5>1. CASE m \in rvArgs
          BY Zenon, <3>1, <5>1
        <5>2. CASE m \notin rvArgs
          <6>1. m.src = i /\ m.Term = t
            BY Zenon, <2>7, <5>2
          <6>2. Vote(m.dst, t, i).candidate = i /\ Vote(m.dst, t, i).term = t
            BY Zenon DEF Vote
          <6>3. QED
            BY <2>5, <2>6, <6>1, <6>2
        <5>3. QED
          BY Zenon, <5>1, <5>2
      <4>5. QED
        BY Zenon, <2>2, <4>1, <4>2, <4>3, <4>4
    <3>3. ASSUME NEW m \in rvArgs', NEW n \in rvArgs', m.src = n.src, m.dst = n.dst, m.Term = n.Term
          PROVE  m = n
      <4>1. CASE m \in rvArgs /\ n \in rvArgs
        BY Zenon, <3>3, <4>1 DEF ElectionInv, CallUnanswered
      <4>2. CASE m \notin rvArgs /\ n \notin rvArgs
        BY Zenon, <2>8, <3>3, <4>2
      <4>3. \A k \in rvArgs : ~(k.src = i /\ k.Term = t)
        <5>1. \A k \in rvArgs : k.src = i => k.Term <= currentTerm[i] /\ k.Term \in Nat
          BY Zenon, <2>3, <3>1
        <5>2. currentTerm[i] \in Nat
          BY Zenon, <2>1
        <5>3. QED
          BY <2>6, <5>1, <5>2
      <4>4. QED
        BY Zenon, <2>7, <3>3, <4>1, <4>2, <4>3
    <3>4. QED
      BY Zenon, <3>2, <3>3 DEF CallUnanswered, Vote
  <2>14. GrantBacked'
    BY Zenon, <2>2 DEF ElectionInv, GrantBacked, Grants, Vote
  <2>15. ASSUME NEW c \in Server, c # i
         PROVE  Voters(c)' = Voters(c) /\ Counted(c)' = Counted(c)
    <3>1. Voters(c)' = Voters(c)
      <4>1. \A v : Vote(v, currentTerm[c], c) # Vote(i, t, i)
        BY Zenon, <2>15 DEF Vote
      <4>2. currentTerm'[c] = currentTerm[c]
        BY Zenon, <2>9, <2>15
      <4>3. \A v : Vote(v, currentTerm[c], c) \in ballots' <=> Vote(v, currentTerm[c], c) \in ballots
        BY Zenon, <2>2, <4>1
      <4>4. Voters(c)' = {v \in Server : Vote(v, currentTerm[c], c) \in ballots'}
        BY Zenon, <4>2 DEF Voters, Vote
      <4>5. QED
        BY Zenon, <4>3, <4>4 DEF Voters
    <3>2. UnderWay(c)' = UnderWay(c)
      <4>1. currentTerm'[c] = currentTerm[c] /\ Grants' = Grants
        BY Zenon, <2>2, <2>9, <2>15 DEF Grants
      <4>2. QED
        BY Zenon, <4>1 DEF UnderWay
    <3>3. QED
      BY Zenon, <3>1, <3>2 DEF Counted
  <2>16. 1 <= Cardinality(Counted(i)')
    <3>1. Vote(i, t, i) \in ballots'
      BY Zenon, <2>2
    <3>2. i \in Voters(i)'
      BY Zenon, <2>9, <3>1 DEF Voters, Vote
    <3>3. UnderWay(i)' = {}
      <4>1. \A r \in Grants : r.dst = i => r.reqTerm < t
        <5>1. \A r \in Grants : Vote(r.src, r.reqTerm, r.dst) \in ballots
          BY Zenon DEF ElectionInv, GrantBacked
        <5>2. \A r \in Grants : Vote(r.src, r.reqTerm, r.dst).candidate = r.dst
                                /\ Vote(r.src, r.reqTerm, r.dst).term = r.reqTerm
          BY Zenon DEF Vote
        <5>3. QED
          BY Zenon, <2>5, <5>1, <5>2
      <4>2. \A r \in Grants : ~(r.dst = i /\ r.reqTerm = t)
        BY <2>3, <2>6, <4>1
      <4>3. currentTerm'[i] = t /\ Grants' = Grants
        BY Zenon, <2>2, <2>9 DEF Grants
      <4>4. QED
        BY Zenon, <4>2, <4>3 DEF UnderWay
    <3>4. {i} \in SUBSET Counted(i)' /\ Counted(i)' \in SUBSET Server
      BY Zenon, <3>2, <3>3 DEF Counted, Voters
    <3>5. Cardinality({i}) = 1
      BY Zenon DEF Background
    <3>6. QED
      BY Zenon, <3>4, <3>5, PeerSetsGrow
  <2>17. CountBacked'
    <3> SUFFICES ASSUME NEW c \in Server, status'[c] = "CANDIDATE"
                 PROVE  grantedVotes'[c] <= Cardinality(Counted(c)')
      BY Zenon DEF CountBacked
    <3>1. CASE c = i
      BY Zenon, <2>1, <2>2, <2>16, <3>1
    <3>2. CASE c # i
      BY Zenon, <2>9, <2>15, <3>2 DEF ElectionInv, CountBacked
    <3>3. QED
      BY Zenon, <3>1, <3>2
  <2>18. LeaderElected'
    <3> SUFFICES ASSUME NEW c \in Server, status'[c] = "LEADER"
                 PROVE  Majority(Cardinality(Voters(c)'))
      BY Zenon DEF LeaderElected, Majority
    <3>1. c # i
      BY Zenon, <2>1, <2>2
    <3>2. QED
      BY Zenon, <2>9, <2>15, <3>1 DEF ElectionInv, LeaderElected
  <2>19. QED
    BY Zenon, <2>10, <2>11, <2>12, <2>13, <2>14, <2>17, <2>18 DEF ElectionInv
\* A peer that grants its vote in term t has none in t, or only this one.
<1>GrantVoteStep.
  ASSUME ElectionInv, TypeOK', NEW i \in Server, NEW m \in rvArgs, m.dst = i, GrantVote(i, m)
  PROVE  ElectionInv'
  <2> USE <1>GrantVoteStep
  <2> DEFINE t == m.Term
             c == m.src
             s == IF t > currentTerm[i] THEN "FOLLOWER" ELSE status[i]
             new == [src |-> i, dst |-> c, reqTerm |-> t, Term |-> t, VoteGranted |-> TRUE]
  <2>1. /\ TypeOK /\ currentTerm \in [Server -> Nat] /\ votedFor \in [Server -> Server \cup {Nil}]
        /\ status \in [Server -> {"FOLLOWER", "CANDIDATE", "LEADER"}] /\ persister \in [Server -> Data]
        /\ grantedVotes \in [Server -> Nat]
    BY Zenon, TypeGroups DEF ElectionInv, ElectionTypes, StoreTypes
  <2>2. /\ \A b \in ballots : /\ b.voter \in Server /\ b.candidate \in Server /\ b.term \in Nat
                              /\ b = Vote(b.voter, b.term, b.candidate)
        /\ \A n \in rvArgs : n.src \in Server /\ n.dst \in Server /\ n.Term \in Nat
        /\ \A r \in Grants : r.src \in Server /\ r.dst \in Server /\ r.reqTerm \in Nat
    BY Zenon, <2>1, VoteFields
  <2>3. /\ t >= currentTerm[i] /\ CanVote(i, m) /\ FollowTerm(i, t, s)
        /\ votedFor' = [votedFor EXCEPT ![i] = c]
        /\ persister' = [persister EXCEPT ![i] = Persisted(i, t, c, logs[i])]
        /\ ballots' = ballots \cup {Vote(i, t, c)}
        /\ rvArgs' = rvArgs \ {m} /\ rvReplies' = rvReplies \cup {new}
    BY Zenon DEF GrantVote, CastVote, ReplyVote, Vote
  <2>4. /\ t \in Nat /\ c \in Server /\ t <= currentTerm[c] /\ c # i /\ Vote(i, t, c) \notin ballots
    BY Zenon, <2>2 DEF ElectionInv, CallUnanswered
  <2>5. /\ Vote(i, t, c).voter = i /\ Vote(i, t, c).term = t /\ Vote(i, t, c).candidate = c
        /\ new.src = i /\ new.dst = c /\ new.reqTerm = t /\ new.VoteGranted
    BY Zenon DEF Vote
  <2>6. Grants' = Grants \cup {new}
    BY Zenon, <2>3, <2>5 DEF Grants
  <2>7. /\ currentTerm'[i] = t /\ votedFor'[i] = c /\ status'[i] = s
        /\ s = "CANDIDATE" => grantedVotes'[i] = grantedVotes[i]
        /\ s # "FOLLOWER" => s = status[i] /\ t = currentTerm[i]
        /\ \A j \in Server \ {i} :
             /\ currentTerm'[j] = currentTerm[j] /\ votedFor'[j] = votedFor[j] /\ status'[j] = status[j]
             /\ grantedVotes'[j] = grantedVotes[j] /\ persister'[j] = persister[j]
    <3>1. /\ currentTerm' = [currentTerm EXCEPT ![i] = t] /\ status' = [status EXCEPT ![i] = s]
          /\ grantedVotes' = [grantedVotes EXCEPT ![i] = IF s = "CANDIDATE" THEN @ ELSE 0]
      BY Zenon, <2>3 DEF FollowTerm
    <3>2. s # "FOLLOWER" => s = status[i] /\ t = currentTerm[i]
      <4>1. CASE t > currentTerm[i]
        BY Zenon, <4>1
      <4>2. CASE ~(t > currentTerm[i])
        <5>1. currentTerm[i] \in Nat
          BY Zenon, <2>1
        <5>2. t = currentTerm[i]
          BY Zenon, <2>3, <2>4, <4>2, <5>1, NotBelow
        <5>3. QED
          BY Zenon, <4>2, <5>2
      <4>3. QED
        BY Zenon, <4>1, <4>2
    <3> HIDE DEF t, c, s, new
    <3>3. /\ currentTerm'[i] = t /\ votedFor'[i] = c /\ status'[i] = s
          /\ s = "CANDIDATE" => grantedVotes'[i] = grantedVotes[i]
      BY Zenon, <2>1, <2>3, <3>1
    <3>4. \A j \in Server \ {i} :
             /\ currentTerm'[j] = currentTerm[j] /\ votedFor'[j] = votedFor[j] /\ status'[j] = status[j]
             /\ grantedVotes'[j] = grantedVotes[j] /\ persister'[j] = persister[j]
      BY Zenon, <2>1, <2>3, <3>1
    <3>5. QED
      BY Zenon, <3>2, <3>3, <3>4
  <2>8. \A b \in ballots : /\ b.term <= currentTerm[b.voter] /\ b.term <= currentTerm[b.candidate]
                           /\ b.term = currentTerm[b.voter] => votedFor[b.voter] = b.candidate
    BY Zenon DEF ElectionInv, VoteRemembered
  <2>9. \A j \in Server : currentTerm'[j] >= currentTerm[j] /\ currentTerm[j] \in Nat /\ currentTerm'[j] \in Nat
    <3> SUFFICES ASSUME NEW j \in Server
                 PROVE  currentTerm'[j] >= currentTerm[j] /\ currentTerm[j] \in Nat /\ currentTerm'[j] \in Nat
      BY Zenon
    <3>1. currentTerm[j] \in Nat
      BY Zenon, <2>1
    <3> HIDE DEF t
    <3>2. CASE j = i
      BY Zenon, <2>3, <2>4, <2>7, <3>1, <3>2
    <3>3. CASE j # i
      <4>1. currentTerm'[j] = currentTerm[j]
        BY Zenon, <2>7, <3>3
      <4>2. QED
        BY <3>1, <4>1
    <3>4. QED
      BY Zenon, <3>2, <3>3
  <2>10. \A b \in ballots : ~(b.voter = i /\ b.term = t)
    <3> SUFFICES ASSUME NEW b \in ballots, b.voter = i, b.term = t PROVE FALSE
      BY Zenon
    <3>1. t = currentTerm[i]
      <4>1. t <= currentTerm[i] /\ t >= currentTerm[i] /\ t \in Nat /\ currentTerm[i] \in Nat
        BY Zenon, <2>3, <2>4, <2>8, <2>9
      <4>2. QED
        BY <4>1
    <3>2. votedFor[i] = b.candidate
      BY Zenon, <2>8, <3>1
    <3>3. b.candidate = c
      <4>1. ~(t > currentTerm[i])
        BY <2>9, <3>1
      <4>2. VoteAfter(i, t) = b.candidate
        BY Zenon, <3>2, <4>1 DEF VoteAfter
      <4>3. VoteAfter(i, t) \in {Nil, c}
        BY Zenon, <2>3 DEF CanVote
      <4>4. QED
        BY Zenon, <2>2, <4>2, <4>3, ServerAssumption
    <3>4. QED
      BY Zenon, <2>2, <2>4, <3>3
  <2> HIDE DEF t, c, s, new
  <2>11. OneVotePerTerm'
    <3>1. \A a, b \in ballots : a.voter = b.voter /\ a.term = b.term => a = b
      BY Zenon DEF ElectionInv, OneVotePerTerm
    <3>2. ASSUME NEW a \in ballots', NEW b \in ballots', a.voter = b.voter, a.term = b.term
          PROVE  a = b
      <4>1. CASE a \in ballots /\ b \in ballots
        BY Zenon, <3>1, <3>2, <4>1
      <4>2. CASE a = Vote(i, t, c)
        <5>1. b.voter = i /\ b.term = t
          BY Zenon, <2>5, <3>2, <4>2
        <5>2. b \notin ballots
          BY Zenon, <2>10, <5>1
        <5>3. QED
          BY Zenon, <2>3, <4>2, <5>2
      <4>3. CASE b = Vote(i, t, c)
        <5>1. a.voter = i /\ a.term = t
          BY Zenon, <2>5, <3>2, <4>3
        <5>2. a \notin ballots
          BY Zenon, <2>10, <5>1
        <5>3. QED
          BY Zenon, <2>3, <4>3, <5>2
      <4>4. QED
        BY Zenon, <2>3, <4>1, <4>2, <4>3
    <3>3. QED
      BY Zenon, <3>2 DEF OneVotePerTerm
  <2>12. VoteStored'
    <3>1. persister'[i].CurrentTerm = t /\ persister'[i].VotedFor = c
      BY Zenon, <2>1, <2>3 DEF Persisted
    <3>2. QED
      BY Zenon, <2>7, <3>1 DEF ElectionInv, VoteStored
  <2>13. VoteRemembered'
    <3> SUFFICES ASSUME NEW b \in ballots'
                 PROVE  /\ b.term <= currentTerm'[b.voter] /\ b.term <= currentTerm'[b.candidate]
                        /\ b.term = currentTerm'[b.voter] => votedFor'[b.voter] = b.candidate
      BY Zenon DEF VoteRemembered
    <3>1. CASE b = Vote(i, t, c)
      <4>1. t <= currentTerm'[c]
        <5>1. t <= currentTerm[c] /\ currentTerm'[c] >= currentTerm[c]
              /\ t \in Nat /\ currentTerm[c] \in Nat /\ currentTerm'[c] \in Nat
          BY Zenon, <2>4, <2>9
        <5>2. QED
          BY <5>1
      <4>2. b.voter = i /\ b.candidate = c /\ b.term = t
        BY Zenon, <2>5, <3>1
      <4>3. currentTerm'[i] = t /\ votedFor'[i] = c /\ t \in Nat
        BY Zenon, <2>4, <2>7
      <4>4. t <= t
        BY <4>3
      <4>5. QED
        BY Zenon, <4>1, <4>2, <4>3, <4>4
    <3>2. CASE b \in ballots
      <4>1. /\ b.voter \in Server /\ b.candidate \in Server /\ b.term \in Nat
            /\ b.term <= currentTerm[b.voter] /\ b.term <= currentTerm[b.candidate]
            /\ (b.term = currentTerm[b.voter] => votedFor[b.voter] = b.candidate)
        BY Zenon, <2>2, <2>8, <3>2
      <4>2. b.term <= currentTerm'[b.voter] /\ b.term <= currentTerm'[b.candidate]
        BY <2>9, <4>1
      <4>3. b.term = currentTerm'[b.voter] => b.voter # i
        BY Zenon, <2>7, <2>10, <3>2
      <4>4. b.voter # i => currentTerm'[b.voter] = currentTerm[b.voter] /\ votedFor'[b.voter] = votedFor[b.voter]
        BY Zenon, <2>7, <4>1
      <4>5. QED
        BY Zenon, <4>1, <4>2, <4>3, <4>4
    <3>3. QED
      BY Zenon, <2>3, <3>1, <3>2
  <2>14. CallUnanswered'
    <3>1. ASSUME NEW n \in rvArgs'
          PROVE  /\ n.src # n.dst /\ n.Term <= currentTerm'[n.src]
                 /\ Vote(n.dst, n.Term, n.src) \notin ballots'
      <4>1. n \in rvArgs /\ n # m
        BY Zenon, <2>3
      <4>2. n.src # n.dst /\ n.Term <= currentTerm[n.src] /\ Vote(n.dst, n.Term, n.src) \notin ballots
        BY Zenon, <4>1 DEF ElectionInv, CallUnanswered
      <4>3. n.Term <= currentTerm'[n.src]
        BY <2>2, <2>9, <4>1, <4>2
      <4>4. ~(n.src = c /\ n.dst = i /\ n.Term = t)
        BY Zenon, <4>1 DEF ElectionInv, CallUnanswered, c, t
      <4>5. Vote(n.dst, n.Term, n.src) # Vote(i, t, c)
        BY Zenon, <4>4 DEF Vote
      <4>6. QED
        BY Zenon, <2>3, <4>2, <4>3, <4>5
    <3>2. \A n, k \in rvArgs' : n.src = k.src /\ n.dst = k.dst /\ n.Term = k.Term => n = k
      BY Zenon, <2>3 DEF ElectionInv, CallUnanswered
    <3>3. QED
      BY Zenon, <3>1, <3>2 DEF CallUnanswered, Vote
  <2>15. GrantBacked'
    <3>1. \A r \in Grants : Vote(r.src, r.reqTerm, r.dst) \in ballots
      BY Zenon DEF ElectionInv, GrantBacked
    <3>2. \A r \in Grants : ~(r.src = i /\ r.reqTerm = t /\ r.dst = c)
      BY Zenon, <2>4, <3>1
    <3>3. \A r \in Grants' : Vote(r.src, r.reqTerm, r.dst) \in ballots'
      BY Zenon, <2>3, <2>5, <2>6, <3>1
    <3>4. \A r, q \in Grants' : r.src = q.src /\ r.dst = q.dst /\ r.reqTerm = q.reqTerm => r = q
      <4>1. \A r, q \in Grants : r.src = q.src /\ r.dst = q.dst /\ r.reqTerm = q.reqTerm => r = q
        BY Zenon DEF ElectionInv, GrantBacked
      <4>2. QED
        BY <2>5, <2>6, <3>2, <4>1
    <3>5. QED
      BY Zenon, <3>3, <3>4 DEF GrantBacked, Vote
  <2>16. ASSUME NEW d \in Server, currentTerm'[d] = currentTerm[d]
         PROVE  /\ Voters(d) \in SUBSET Voters(d)' /\ Voters(d)' \in SUBSET Server
                /\ Counted(d) \in SUBSET Counted(d)'
    <3>1. Voters(d) \in SUBSET Voters(d)' /\ Voters(d)' \in SUBSET Server
      BY Zenon, <2>3, <2>16 DEF Voters, Vote
    <3>2. ASSUME NEW v \in Counted(d), v \in UnderWay(d)' PROVE FALSE
      <4>1. v \in Server /\ Vote(v, currentTerm[d], d) \in ballots /\ v \notin UnderWay(d)
        BY Zenon, <3>2 DEF Counted, Voters
      <4>2. PICK r \in Grants' : r.src = v /\ r.dst = d /\ r.reqTerm = currentTerm[d]
        BY Zenon, <2>16, <3>2 DEF UnderWay
      <4>3. r \notin Grants
        BY Zenon, <4>1, <4>2 DEF UnderWay
      <4>4. v = i /\ d = c /\ currentTerm[d] = t
        BY Zenon, <2>5, <2>6, <4>2, <4>3
      <4>5. QED
        BY Zenon, <2>4, <4>1, <4>4
    <3>3. QED
      BY Zenon, <3>1, <3>2 DEF Counted
  <2>17. \A d \in Server : status'[d] # "FOLLOWER" => status'[d] = status[d] /\ currentTerm'[d] = currentTerm[d]
    BY Zenon, <2>7
  <2>18. CountBacked'
    <3> SUFFICES ASSUME NEW d \in Server, status'[d] = "CANDIDATE"
                 PROVE  grantedVotes'[d] <= Cardinality(Counted(d)')
      BY Zenon DEF CountBacked
    <3>1. status[d] = "CANDIDATE" /\ currentTerm'[d] = currentTerm[d]
      BY Zenon, <2>17
    <3>2. grantedVotes'[d] = grantedVotes[d] /\ grantedVotes[d] \in Nat
      BY Zenon, <2>1, <2>7
    <3>3. Counted(d) \in SUBSET Counted(d)' /\ Counted(d)' \in SUBSET Server /\ Counted(d) \in SUBSET Server
      BY Zenon, <2>16, <3>1 DEF Counted
    <3>4. grantedVotes[d] <= Cardinality(Counted(d))
      BY Zenon, <3>1 DEF ElectionInv, CountBacked
    <3>5. Cardinality(Counted(d)) <= Cardinality(Counted(d)')
      BY Zenon, <3>3, PeerSetsGrow
    <3>6. Cardinality(Counted(d)) \in Nat /\ Cardinality(Counted(d)') \in Nat
      BY Zenon, <3>3, PeerSets
    <3>7. QED
      BY <3>2, <3>4, <3>5, <3>6
  <2>19. LeaderElected'
    <3> SUFFICES ASSUME NEW d \in Server, status'[d] = "LEADER"
                 PROVE  Majority(Cardinality(Voters(d)'))
      BY Zenon DEF LeaderElected, Majority
    <3>1. status[d] = "LEADER" /\ currentTerm'[d] = currentTerm[d]
      BY Zenon, <2>17
    <3>2. Voters(d) \in SUBSET Voters(d)' /\ Voters(d)' \in SUBSET Server /\ Voters(d) \in SUBSET Server
      BY Zenon, <2>16, <3>1
    <3>3. Cardinality(Voters(d)) <= Cardinality(Voters(d)')
      BY Zenon, <3>2, PeerSetsGrow
    <3>4. Cardinality(Voters(d)) \in Nat /\ Cardinality(Voters(d)') \in Nat
      BY Zenon, <3>2, PeerSets
    <3>5. Majority(Cardinality(Voters(d)))
      BY Zenon, <3>1 DEF ElectionInv, LeaderElected
    <3>6. QED
      BY Zenon, <3>3, <3>4, <3>5, MajorityGrows
  <2>20. QED
    BY Zenon, <2>11, <2>12, <2>13, <2>14, <2>15, <2>18, <2>19 DEF ElectionInv
\* Counting a granted vote counts a peer that was not counted before.
<1>CountVoteStep.
  ASSUME ElectionInv, TypeOK', NEW i \in Server, NEW m \in rvReplies, m.dst = i, CountVote(i, m)
  PROVE  ElectionInv'
  <2> USE <1>CountVoteStep
  <2> DEFINE granted == grantedVotes[i] + (IF m.VoteGranted THEN 1 ELSE 0)
  <2>1. /\ TypeOK /\ status \in [Server -> {"FOLLOWER", "CANDIDATE", "LEADER"}]
        /\ grantedVotes \in [Server -> Nat] /\ granted \in Nat /\ m.src \in Server
    <3>1. /\ TypeOK /\ status \in [Server -> {"FOLLOWER", "CANDIDATE", "LEADER"}]
          /\ grantedVotes \in [Server -> Nat] /\ m \in RequestVoteReply
      BY Zenon, TypeGroups DEF ElectionInv, ElectionTypes, VoteTypes
    <3>2. m.src \in Server
      BY Zenon, <3>1 DEF RequestVoteReply
    <3>3. granted \in Nat
      BY <3>1
    <3>4. QED
      BY Zenon, <3>1, <3>2, <3>3
  <2>2. /\ status[i] = "CANDIDATE" /\ m.reqTerm = currentTerm[i]
        /\ grantedVotes' = [grantedVotes EXCEPT ![i] = IF Majority(granted) THEN 0 ELSE granted]
        /\ status' = [status EXCEPT ![i] = IF Majority(granted) THEN "LEADER" ELSE @]
        /\ rvReplies' = rvReplies \ {m}
        /\ UNCHANGED <<currentTerm, votedFor, ballots, rvArgs, persister>>
    BY Zenon DEF CountVote, Votes
  <2>3. OneVotePerTerm' /\ VoteStored' /\ VoteRemembered' /\ CallUnanswered'
    BY Zenon, <2>2 DEF ElectionInv, OneVotePerTerm, VoteStored, VoteRemembered, CallUnanswered, Vote
  <2>4. Grants' = Grants \ {m}
    BY Zenon, <2>2 DEF Grants
  <2>5. GrantBacked'
    BY Zenon, <2>2, <2>4 DEF ElectionInv, GrantBacked, Vote
  <2>6. \A c \in Server : Voters(c)' = Voters(c) /\ Counted(c) \in SUBSET Counted(c)' /\ Counted(c)' \in SUBSET Voters(c)
    <3>1. \A c \in Server : Voters(c)' = Voters(c)
      BY Zenon, <2>2 DEF Voters, Vote
    <3>2. \A c \in Server : UnderWay(c)' \subseteq UnderWay(c)
      BY Zenon, <2>2, <2>4 DEF UnderWay
    <3>3. QED
      BY Zenon, <3>1, <3>2 DEF Counted
  <2>7. \A c \in Server : /\ Cardinality(Counted(c)) <= Cardinality(Counted(c)')
                          /\ Cardinality(Counted(c)') <= Cardinality(Voters(c)')
                          /\ Cardinality(Counted(c)) \in Nat /\ Cardinality(Counted(c)') \in Nat
                          /\ Cardinality(Voters(c)') \in Nat
    <3> SUFFICES ASSUME NEW c \in Server
                 PROVE  /\ Cardinality(Counted(c)) <= Cardinality(Counted(c)')
                        /\ Cardinality(Counted(c)') <= Cardinality(Voters(c)')
                        /\ Cardinality(Counted(c)) \in Nat /\ Cardinality(Counted(c)') \in Nat
                        /\ Cardinality(Voters(c)') \in Nat
      BY Zenon
    <3>1. Voters(c) \in SUBSET Server
      BY Zenon DEF Voters
    <3>2. Voters(c)' = Voters(c) /\ Counted(c) \in SUBSET Counted(c)' /\ Counted(c)' \in SUBSET Voters(c)
      BY Zenon, <2>6
    <3>3. Counted(c) \in SUBSET Server /\ Counted(c)' \in SUBSET Server /\ Voters(c)' \in SUBSET Server
          /\ Counted(c)' \in SUBSET Voters(c)'
      BY Zenon, <3>1, <3>2
    <3>4. QED
      BY Zenon, <3>2, <3>3, PeerSets, PeerSetsGrow
  <2>8. granted <= Cardinality(Counted(i)')
    <3>1. grantedVotes[i] <= Cardinality(Counted(i))
      BY Zenon, <2>2 DEF ElectionInv, CountBacked
    <3>2. CASE ~m.VoteGranted
      <4>1. granted = grantedVotes[i]
        BY <2>1, <3>2
      <4>2. /\ Cardinality(Counted(i)) <= Cardinality(Counted(i)') /\ grantedVotes[i] \in Nat
            /\ Cardinality(Counted(i)) \in Nat /\ Cardinality(Counted(i)') \in Nat
        BY Zenon, <2>1, <2>7
      <4>3. QED
        BY <3>1, <4>1, <4>2
    <3>3. CASE m.VoteGranted
      <4>1. m \in Grants
        BY Zenon, <3>3 DEF Grants
      <4>2. m.src \in UnderWay(i) /\ m.src \notin UnderWay(i)'
        <5>1. m.src \in UnderWay(i)
          BY Zenon, <2>1, <2>2, <4>1 DEF UnderWay
        <5>2. \A r \in Grants' : ~(r.src = m.src /\ r.dst = i /\ r.reqTerm = currentTerm[i])
          BY Zenon, <2>2, <2>4, <4>1 DEF ElectionInv, GrantBacked
        <5>3. m.src \notin UnderWay(i)'
          BY Zenon, <2>2, <5>2 DEF UnderWay
        <5>4. QED
          BY Zenon, <5>1, <5>3
      <4>3. m.src \in Voters(i)'
        <5>1. Vote(m.src, currentTerm[i], i) \in ballots
          BY Zenon, <2>2, <4>1 DEF ElectionInv, GrantBacked
        <5>2. m.src \in Voters(i)
          BY Zenon, <2>1, <5>1 DEF Voters
        <5>3. QED
          BY Zenon, <2>6, <5>2
      <4>4. m.src \in Counted(i)' /\ m.src \notin Counted(i)
        BY Zenon, <4>2, <4>3 DEF Counted
      <4>5. Counted(i) \cup {m.src} \in SUBSET Counted(i)' /\ Counted(i)' \in SUBSET Server
        BY Zenon, <2>6, <4>4 DEF Voters
      <4>6. Cardinality(Counted(i) \cup {m.src}) = Cardinality(Counted(i)) + 1
        <5>1. Counted(i) \in SUBSET Server /\ m.src \in Server
          BY Zenon, <4>3 DEF Counted, Voters
        <5>2. QED
          BY Zenon, <4>4, <5>1, PeerAdded
      <4>7. Cardinality(Counted(i) \cup {m.src}) <= Cardinality(Counted(i)')
        BY Zenon, <4>5, PeerSetsGrow
      <4>8. granted = grantedVotes[i] + 1
        BY Zenon, <3>3
      <4>9. /\ grantedVotes[i] \in Nat
            /\ Cardinality(Counted(i)) \in Nat /\ Cardinality(Counted(i)') \in Nat
        BY Zenon, <2>1, <2>7
      <4>10. QED
        BY <3>1, <4>6, <4>7, <4>8, <4>9
    <3>4. QED
      BY Zenon, <3>2, <3>3
  <2> HIDE DEF granted
  <2>9. CountBacked'
    <3> SUFFICES ASSUME NEW c \in Server, status'[c] = "CANDIDATE"
                 PROVE  grantedVotes'[c] <= Cardinality(Counted(c)')
      BY Zenon DEF CountBacked
    <3>1. CASE c = i
      <4>1. grantedVotes'[i] = granted
        BY Zenon, <2>1, <2>2, <3>1
      <4>2. QED
        BY Zenon, <2>8, <3>1, <4>1
    <3>2. CASE c # i
      <4>1. grantedVotes'[c] = grantedVotes[c] /\ status[c] = "CANDIDATE" /\ grantedVotes[c] \in Nat
        BY Zenon, <2>1, <2>2, <3>2
      <4>2. grantedVotes[c] <= Cardinality(Counted(c))
        BY Zenon, <4>1 DEF ElectionInv, CountBacked
      <4>3. /\ Cardinality(Counted(c)) <= Cardinality(Counted(c)')
            /\ Cardinality(Counted(c)) \in Nat /\ Cardinality(Counted(c)') \in Nat
        BY Zenon, <2>7
      <4>4. QED
        BY <4>1, <4>2, <4>3
    <3>3. QED
      BY Zenon, <3>1, <3>2
  <2>10. LeaderElected'
    <3> SUFFICES ASSUME NEW c \in Server, status'[c] = "LEADER"
                 PROVE  Majority(Cardinality(Voters(c)'))
      BY Zenon DEF LeaderElected, Majority
    <3>1. CASE c = i
      <4>1. Majority(granted)
        BY Zenon, <2>1, <2>2, <3>1
      <4>2. granted <= Cardinality(Voters(i)') /\ Cardinality(Voters(i)') \in Nat
        BY <2>1, <2>7, <2>8
      <4>3. QED
        BY Zenon, <2>1, <3>1, <4>1, <4>2, MajorityGrows
    <3>2. CASE c # i
      <4>1. status[c] = "LEADER"
        BY Zenon, <2>1, <2>2, <3>2
      <4>2. QED
        BY Zenon, <2>6, <4>1 DEF ElectionInv, LeaderElected
    <3>3. QED
      BY Zenon, <3>1, <3>2
  <2>11. QED
    BY Zenon, <2>3, <2>5, <2>9, <2>10 DEF ElectionInv
<1> SUFFICES ASSUME ElectionInv, [Next]_vars PROVE ElectionInv'
  BY Zenon
<1>0. TypeOK /\ TypeOK'
  BY Zenon, NextTypes DEF ElectionInv
<1>1. CASE UNCHANGED vars
  <2>1. UNCHANGED <<electionVars, persister, rvArgs, rvReplies>>
    BY Zenon, <1>1 DEF vars, voteNet
  <2>2. NoVote
    <3>1. \A j \in Server : currentTerm[j] \in Nat
      BY Zenon, <1>0, TypeGroups DEF ElectionTypes
    <3>2. Grants' = Grants
      BY Zenon, <2>1 DEF Grants
    <3>3. \A j \in Server : persister[j].CurrentTerm = currentTerm[j] /\ persister[j].VotedFor = votedFor[j]
      BY Zenon DEF ElectionInv, VoteStored
    <3>4. QED
      BY <2>1, <3>1, <3>2, <3>3 DEF NoVote, electionVars
  <2>3. QED
    BY Zenon, <1>0, <2>2, <1>NoVoteKeeps
<1>2. ASSUME NEW i \in Server, Timer(i) \/ Restart(i) PROVE ElectionInv'
  <2>1. CASE startElection(i)
    BY Zenon, <1>0, <2>1, <1>StartElectionStep
  <2>2. CASE sendHeartBeat(i) \/ broadcastAppendEntries(i) \/ applyToClient(i)
    BY Zenon, <1>0, <2>2, TimerSteps, <1>NoVoteKeeps
  <2>3. CASE Restart(i)
    BY Zenon, <1>0, <2>3, CrashSteps, <1>NoVoteKeeps
  <2>4. QED
    BY Zenon, <1>2, <2>1, <2>2, <2>3 DEF Timer
<1>3. ASSUME NEW i \in Server, NEW c \in Command, handleCommand(i, c) PROVE ElectionInv'
  BY Zenon, <1>0, <1>3, TimerSteps, <1>NoVoteKeeps
<1>4. ASSUME NEW i \in Server, NEW req \in snapshotReqs[i], handleSnapshot(i, req) PROVE ElectionInv'
  BY Zenon, <1>0, <1>4, TimerSteps, <1>NoVoteKeeps
<1>5. ASSUME NEW m \in rvArgs, ReceiveVoteRequest(m) PROVE ElectionInv'
  <2>1. m.dst \in Server
    BY Zenon, <1>0, VoteFields
  <2>2. CASE DeclineVote(m.dst, m) \/ RefuseVote(m.dst, m)
    BY Zenon, <1>0, <2>1, <2>2, NoGrantSteps, <1>NoVoteKeeps
  <2>3. CASE GrantVote(m.dst, m)
    BY Zenon, <1>0, <2>1, <2>3, <1>GrantVoteStep
  <2>4. CASE CrashAfterTerm(m.dst, m)
    BY Zenon, <1>0, <2>1, <2>4, CrashSteps, <1>NoVoteKeeps
  <2>5. QED
    BY Zenon, <1>5, <2>2, <2>3, <2>4 DEF ReceiveVoteRequest
<1>6. ASSUME NEW m \in rvReplies, ReceiveVote(m) PROVE ElectionInv'
  <2>1. m.dst \in Server
    BY Zenon, <1>0, TypeGroups DEF VoteTypes, RequestVoteReply
  <2>2. CASE VoteOfHigherTerm(m.dst, m)
    BY Zenon, <1>0, <2>1, <2>2, ReplySteps, <1>NoVoteKeeps
  <2>3. CASE CountVote(m.dst, m)
    BY Zenon, <1>0, <2>1, <2>3, <1>CountVoteStep
  <2>4. QED
    BY Zenon, <1>6, <2>2, <2>3 DEF ReceiveVote
<1>7. ASSUME NEW m \in aeArgs, ReceiveAppend(m) PROVE ElectionInv'
  <2>1. m.dst \in Server
    BY Zenon, <1>0, AppendFields
  <2>2. CASE RefuseStaleAppend(m.dst, m) \/ RejectAppend(m.dst, m) \/ AcceptAppend(m.dst, m)
    BY Zenon, <1>0, <2>1, <2>2, AppendSteps, <1>NoVoteKeeps
  <2>3. CASE CrashAfterTerm(m.dst, m) \/ \E n \in 0 .. Len(m.Entries) : CrashInAppend(m.dst, m, n)
    BY Zenon, <1>0, <2>1, <2>3, CrashSteps, <1>NoVoteKeeps
  <2>4. QED
    BY Zenon, <1>7, <2>2, <2>3 DEF ReceiveAppend
<1>8. ASSUME NEW m \in aeReplies, ReceiveAppendReply(m) PROVE ElectionInv'
  <2>1. m.dst \in Server
    BY Zenon, <1>0, AppendReplyFields
  <2>2. QED
    BY Zenon, <1>0, <1>8, <2>1, ReplySteps, <1>NoVoteKeeps DEF ReceiveAppendReply
<1>9. ASSUME NEW m \in isArgs, ReceiveInstall(m) PROVE ElectionInv'
  <2>1. m.dst \in Server
    BY Zenon, <1>0, InstallFields
  <2>2. CASE RefuseInstall(m.dst, m) \/ ReceiveNilSnapshot(m.dst, m) \/ InstallSnapshot(m.dst, m)
    BY Zenon, <1>0, <2>1, <2>2, InstallSteps, <1>NoVoteKeeps
  <2>3. CASE CrashAfterTerm(m.dst, m)
    BY Zenon, <1>0, <2>1, <2>3, CrashSteps, <1>NoVoteKeeps
  <2>4. QED
    BY Zenon, <1>9, <2>2, <2>3 DEF ReceiveInstall
<1>10. ASSUME NEW m \in isReplies, InstallReplyOfHigherTerm(m.dst, m) PROVE ElectionInv'
  <2>1. m.dst \in Server
    BY Zenon, <1>0, TypeGroups DEF InstallTypes, InstallSnapshotReply
  <2>2. QED
    BY Zenon, <1>0, <1>10, <2>1, ReplySteps, <1>NoVoteKeeps
<1>11. QED
  <2>1. Next \/ UNCHANGED vars
    BY Zenon
  <2>2. QED
    BY Zenon, <2>1, <1>1, <1>2, <1>3, <1>4, <1>5, <1>6, <1>7, <1>8, <1>9, <1>10
       DEF Next, ReceiveSnapshotRequest

=============================================================================
