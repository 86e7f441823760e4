-------------------------------- MODULE Raft --------------------------------
(***************************************************************************)
(* The Raft peer of raft/raft.go with the service of raft/config.go on top *)
(* of it and the network of labrpc between the peers.                      *)
(*                                                                         *)
(* Every handler runs in the one main goroutine of its peer (run and the   *)
(* three runAs loops), so a handler is one action.  Timers may fire at any *)
(* time.  A lost message is one that is never received.  RequestVote calls *)
(* and votes are received at most once, as labrpc never duplicates a call. *)
(* An AppendEntries or InstallSnapshot call stays available after it is    *)
(* received: the leader's timers repeat the same call for as long as its   *)
(* state does not change, so any number of copies may be under way.        *)
(***************************************************************************)
EXTENDS Integers, Sequences, FiniteSets

CONSTANTS
  Server,            \* the peers
  Command,           \* what clients pass to Start
  Nil,               \* the -1 of votedFor
  SnapShotInterval,  \* the service's snapshot period; 0: it never snapshots
  MaxTerm,           \* bound on elections: no election starts beyond it
  MaxIndex,          \* bound on the log: no command is accepted beyond it
  MaxRestarts        \* bound on the crashes of each peer

ASSUME ServerAssumption == IsFiniteSet(Server) /\ Nil \notin Server
ASSUME BoundAssumption ==
  SnapShotInterval \in Nat /\ MaxTerm \in Nat /\ MaxIndex \in Nat /\ MaxRestarts \in Nat

VARIABLES
  status, currentTerm, votedFor,           \* fields of struct Raft, per peer
  logs, commitIndex, lastApplied, nextIndex, matchIndex,
  snapshot, snapshotIndex, snapshotTerm,
  grantedVotes,   \* local of runAsCandidate, 0 outside it
  panicked,       \* a slice or index expression was out of range
  persister,      \* what SaveStateAndSnapshot stored last
  service,        \* messages the service has taken from applyCh
  snapshotReqs,   \* goroutines of Snapshot blocked on snapshotRequestCh
  restarts,       \* the incarnation of the peer
  rvArgs, rvReplies, aeArgs, aeReplies, isArgs, isReplies,  \* RPCs under way
  ballots,        \* history: every vote granted
  applied         \* history: every log entry any peer sent on its applyCh

electionVars == <<status, currentTerm, votedFor, grantedVotes, ballots>>
logVars      == <<logs, commitIndex>>
leaderVars   == <<nextIndex, matchIndex>>
snapshotVars == <<snapshot, snapshotIndex, snapshotTerm>>
serviceVars  == <<lastApplied, service, snapshotReqs, applied>>
voteNet      == <<rvArgs, rvReplies>>
appendNet    == <<aeArgs, aeReplies>>
installNet   == <<isArgs, isReplies>>
vars == <<electionVars, logVars, leaderVars, snapshotVars, serviceVars,
          voteNet, appendNet, installNet, panicked, persister, restarts>>

-----------------------------------------------------------------------------
(* Data *)

Entry   == [Term : Nat, Index : Nat, Command : Command]
Message == [Index : Nat, Command : Command]
Ballot  == [voter : Server, term : Nat, candidate : Server]

\* A snapshot is the sequence of messages the service had taken; <<>> is nil.
Snapshots == Seq(Message)

Data == [CurrentTerm : Nat, VotedFor : Server \cup {Nil}, Logs : Seq(Entry),
         SnapshotIndex : Nat, SnapshotTerm : Int, Snapshot : Snapshots]

RequestVoteArgs ==
  [src : Server, dst : Server, Term : Nat, LastLogIndex : Nat, LastLogTerm : Int]
RequestVoteReply ==
  [src : Server, dst : Server, reqTerm : Nat, Term : Nat, VoteGranted : BOOLEAN]
AppendEntriesArgs ==
  [src : Server, dst : Server, Term : Nat, PrevLogIndex : Nat, PrevLogTerm : Int,
   Entries : Seq(Entry), LeaderCommit : Nat]
AppendEntriesReply ==
  [src : Server, dst : Server, reqTerm : Nat, PrevLogIndex : Nat, NumEntries : Nat,
   Term : Nat, Success : BOOLEAN, FirstConflictingIndex : Nat, ConflictingTerm : Nat]
InstallSnapshotRequest ==
  [src : Server, dst : Server, inc : Nat, Term : Nat, LastIncludedIndex : Nat,
   LastIncludedTerm : Int, Data : Snapshots]
InstallSnapshotReply == [src : Server, dst : Server, inc : Nat, Term : Nat]

Max(x, y) == IF x > y THEN x ELSE y
Min(x, y) == IF x < y THEN x ELSE y

Least(S)    == CHOOSE k \in S : \A j \in S : k <= j
Greatest(S) == CHOOSE k \in S : \A j \in S : j <= k

Peers(i) == Server \ {i}

\* Faulty: half of the peers are enough.
FaultyMajority(n) == n >= Cardinality(Server) \div 2

\* votesNeeded and the count of updateCommitIndex: more than len(peers)/2.
Majority(n) == n > Cardinality(Server) \div 2

\* Faulty: the snapshot's term taken for its index.
FaultyLastLogIndex(i) == IF logs[i] = <<>> THEN snapshotTerm[i] ELSE logs[i][Len(logs[i])].Index

LastLogIndex(i) == IF logs[i] = <<>> THEN snapshotIndex[i] ELSE logs[i][Len(logs[i])].Index
LastLogTerm(i)  == IF logs[i] = <<>> THEN snapshotTerm[i]  ELSE logs[i][Len(logs[i])].Term
LogEnd(i) == Len(logs[i]) + snapshotIndex[i]

\* The term vote: what votedFor is once the peer has seen term t.
VoteAfter(i, t) == IF t > currentTerm[i] THEN Nil ELSE votedFor[i]

\* Faulty: the vote is not stored.
ForgetfulPersisted(i, term, vote, log) ==
  [CurrentTerm |-> term, VotedFor |-> Nil, Logs |-> log,
   SnapshotIndex |-> IF snapshot[i] = <<>> THEN 0 ELSE snapshotIndex[i],
   SnapshotTerm  |-> IF snapshot[i] = <<>> THEN 0 ELSE snapshotTerm[i],
   Snapshot |-> snapshot[i]]

\* Faulty: persist is called before the log changes.
EarlyPersisted(i, term, vote, log) ==
  [CurrentTerm |-> term, VotedFor |-> vote, Logs |-> logs[i],
   SnapshotIndex |-> IF snapshot[i] = <<>> THEN 0 ELSE snapshotIndex[i],
   SnapshotTerm  |-> IF snapshot[i] = <<>> THEN 0 ELSE snapshotTerm[i],
   Snapshot |-> snapshot[i]]

\* persist(): the snapshot's index and term are stored only beside a snapshot.
Persisted(i, term, vote, log) ==
  [CurrentTerm |-> term, VotedFor |-> vote, Logs |-> log,
   SnapshotIndex |-> IF snapshot[i] = <<>> THEN 0 ELSE snapshotIndex[i],
   SnapshotTerm  |-> IF snapshot[i] = <<>> THEN 0 ELSE snapshotTerm[i],
   Snapshot |-> snapshot[i]]

-----------------------------------------------------------------------------
(* Terms and elections *)

\* The peer moves to term t >= currentTerm with status s.
FollowTerm(i, t, s) ==
  /\ currentTerm'  = [currentTerm EXCEPT ![i] = t]
  /\ status'       = [status EXCEPT ![i] = s]
  /\ grantedVotes' = [grantedVotes EXCEPT ![i] = IF s = "CANDIDATE" THEN @ ELSE 0]

handleHigherTermFound(i, t) ==
  /\ FollowTerm(i, t, "FOLLOWER")
  /\ votedFor'  = [votedFor EXCEPT ![i] = Nil]
  /\ persister' = [persister EXCEPT ![i] = Persisted(i, t, Nil, logs[i])]
  /\ UNCHANGED ballots

\* The election timer of a follower or candidate fires and it runs startElection.
startElection(i) ==
  LET term == currentTerm[i] + 1 IN
  /\ ~panicked[i] /\ status[i] # "LEADER" /\ currentTerm[i] < MaxTerm
  /\ status'       = [status EXCEPT ![i] = "CANDIDATE"]
  /\ currentTerm'  = [currentTerm EXCEPT ![i] = term]
  /\ votedFor'     = [votedFor EXCEPT ![i] = i]
  /\ grantedVotes' = [grantedVotes EXCEPT ![i] = 1]
  /\ persister'    = [persister EXCEPT ![i] = Persisted(i, term, i, logs[i])]
  /\ ballots'      = ballots \cup {[voter |-> i, term |-> term, candidate |-> i]}
  /\ rvArgs' = rvArgs \cup
       {[src |-> i, dst |-> j, Term |-> term, LastLogIndex |-> LastLogIndex(i),
         LastLogTerm |-> LastLogTerm(i)] : j \in Peers(i)}
  /\ UNCHANGED <<rvReplies, logVars, leaderVars, snapshotVars, serviceVars,
                 appendNet, installNet, panicked, restarts>>

\* Faulty: only the lengths of the logs are compared, and a shorter one may win.
FaultyUpToDate(i, m) == m.LastLogTerm <= LastLogTerm(i) \/ m.LastLogIndex >= LastLogIndex(i)

UpToDate(i, m) ==
  \/ m.LastLogTerm > LastLogTerm(i)
  \/ m.LastLogTerm = LastLogTerm(i) /\ m.LastLogIndex >= LastLogIndex(i)

CanVote(i, m) == VoteAfter(i, m.Term) \in {Nil, m.src}

ReplyVote(i, m, term, granted) ==
  /\ rvArgs' = rvArgs \ {m}
  /\ rvReplies' = rvReplies \cup
       {[src |-> i, dst |-> m.src, reqTerm |-> m.Term, Term |-> term, VoteGranted |-> granted]}

\* handleRequestVote of an older term, or when the vote of this term is already
\* given away: the first answers with the term, the second with a zero reply.
DeclineVote(i, m) ==
  /\ ~panicked[i]
  /\ \/ m.Term < currentTerm[i] /\ ReplyVote(i, m, currentTerm[i], FALSE)
     \/ m.Term >= currentTerm[i] /\ ~CanVote(i, m) /\ ReplyVote(i, m, 0, FALSE)
  /\ UNCHANGED <<electionVars, logVars, leaderVars, snapshotVars, serviceVars,
                 appendNet, installNet, panicked, persister, restarts>>

\* handleRequestVote when the vote is free: it is granted, or, to a candidate
\* whose log is behind, refused and votedFor cleared.
CastVote(i, m, vote) ==
  /\ ~panicked[i] /\ m.Term >= currentTerm[i] /\ CanVote(i, m)
  /\ FollowTerm(i, m.Term, IF m.Term > currentTerm[i] THEN "FOLLOWER" ELSE status[i])
  /\ votedFor'  = [votedFor EXCEPT ![i] = vote]
  /\ persister' = [persister EXCEPT ![i] = Persisted(i, m.Term, vote, logs[i])]
  /\ UNCHANGED <<logVars, leaderVars, snapshotVars, serviceVars,
                 appendNet, installNet, panicked, restarts>>

GrantVote(i, m) ==
  /\ UpToDate(i, m)
  /\ CastVote(i, m, m.src)
  /\ ballots' = ballots \cup {[voter |-> i, term |-> m.Term, candidate |-> m.src]}
  /\ ReplyVote(i, m, m.Term, TRUE)

RefuseVote(i, m) ==
  /\ ~UpToDate(i, m)
  /\ CastVote(i, m, Nil)
  /\ UNCHANGED ballots
  /\ ReplyVote(i, m, m.Term, FALSE)

-----------------------------------------------------------------------------
(* Sending entries *)

\* appendEntries with no entries: the previous entry is the leader's last.
Heartbeat(i, j, term) ==
  [src |-> i, dst |-> j, Term |-> term, PrevLogIndex |-> LastLogIndex(i),
   PrevLogTerm |-> LastLogTerm(i), Entries |-> <<>>, LeaderCommit |-> commitIndex[i]]

Heartbeats(i) == {Heartbeat(i, j, currentTerm[i]) : j \in Peers(i)}

\* Faulty: the previous entry is the first one that is sent.
FaultyBroadcast(i, j) ==
  LET pos == nextIndex[i][j] - snapshotIndex[i] IN
  IF pos > Len(logs[i]) THEN Heartbeat(i, j, currentTerm[i]) ELSE
  [src |-> i, dst |-> j, Term |-> currentTerm[i],
   PrevLogIndex |-> logs[i][pos].Index, PrevLogTerm |-> logs[i][pos].Term,
   Entries |-> SubSeq(logs[i], pos, Len(logs[i])), LeaderCommit |-> commitIndex[i]]

\* appendEntries with the log from nextIndex on.
Broadcast(i, j) ==
  LET pos == nextIndex[i][j] - snapshotIndex[i] IN
  IF pos > Len(logs[i]) THEN Heartbeat(i, j, currentTerm[i]) ELSE
  [src |-> i, dst |-> j, Term |-> currentTerm[i],
   PrevLogIndex |-> IF pos <= 1 THEN snapshotIndex[i] ELSE logs[i][pos - 1].Index,
   PrevLogTerm  |-> IF pos <= 1 THEN snapshotTerm[i]  ELSE logs[i][pos - 1].Term,
   Entries |-> SubSeq(logs[i], pos, Len(logs[i])), LeaderCommit |-> commitIndex[i]]

sendHeartBeat(i) ==
  /\ ~panicked[i] /\ status[i] = "LEADER"
  /\ aeArgs' = aeArgs \cup Heartbeats(i)
  /\ UNCHANGED <<electionVars, logVars, leaderVars, snapshotVars, serviceVars, voteNet,
                 aeReplies, installNet, panicked, persister, restarts>>

broadcastAppendEntries(i) ==
  LET pos(j) == nextIndex[i][j] - snapshotIndex[i]
      due    == {j \in Peers(i) : LastLogIndex(i) >= nextIndex[i][j] /\ pos(j) >= 1}
      broken == \E j \in due : pos(j) - 1 > Len(logs[i])
  IN
  /\ ~panicked[i] /\ status[i] = "LEADER" /\ due # {}
  /\ panicked' = [panicked EXCEPT ![i] = broken]
  /\ aeArgs' = IF broken THEN aeArgs ELSE aeArgs \cup {Broadcast(i, j) : j \in due}
  /\ UNCHANGED <<electionVars, logVars, leaderVars, snapshotVars, serviceVars, voteNet,
                 aeReplies, installNet, persister, restarts>>

\* A vote reaches the candidate that asked for it in the election still running.
Votes(i, m) == ~panicked[i] /\ status[i] = "CANDIDATE" /\ m.reqTerm = currentTerm[i]

VoteOfHigherTerm(i, m) ==
  /\ Votes(i, m) /\ m.Term > currentTerm[i]
  /\ handleHigherTermFound(i, m.Term)
  /\ rvReplies' = rvReplies \ {m}
  /\ UNCHANGED <<rvArgs, logVars, leaderVars, snapshotVars, serviceVars,
                 appendNet, installNet, panicked, restarts>>

\* The vote is counted; with a majority the peer enters runAsLeader, which
\* initialises nextIndex and matchIndex and sends the first heartbeat.
CountVote(i, m) ==
  LET granted == grantedVotes[i] + (IF m.VoteGranted THEN 1 ELSE 0)
      won     == Majority(granted)
  IN
  /\ Votes(i, m) /\ m.Term <= currentTerm[i]
  /\ grantedVotes' = [grantedVotes EXCEPT ![i] = IF won THEN 0 ELSE granted]
  /\ status' = [status EXCEPT ![i] = IF won THEN "LEADER" ELSE @]
  /\ nextIndex' = IF won THEN [nextIndex EXCEPT ![i] = [j \in Server |-> LastLogIndex(i) + 1]]
                         ELSE nextIndex
  /\ matchIndex' = IF won THEN [matchIndex EXCEPT ![i] = [j \in Server |-> 0]] ELSE matchIndex
  /\ aeArgs' = IF won THEN aeArgs \cup Heartbeats(i) ELSE aeArgs
  /\ rvReplies' = rvReplies \ {m}
  /\ UNCHANGED <<currentTerm, votedFor, ballots, rvArgs, logVars, snapshotVars, serviceVars,
                 aeReplies, installNet, panicked, persister, restarts>>

-----------------------------------------------------------------------------
(* Receiving entries *)

\* The positions of a log with the given term.
OfTerm(log, term) == {k \in DOMAIN log : log[k].Term = term}

\* Faulty: the log is cut at the first entry of the call, whatever its term.
EagerTruncate(log, base, entries) ==
  IF entries = <<>> \/ entries[1].Index - base \notin DOMAIN log THEN log
  ELSE SubSeq(log, 1, entries[1].Index - base - 1)

\* Faulty: conflicting entries are kept.
FaultyTruncate(log, base, entries) == log

\* The first loop of handleAppendEntries: it stops at the first entry that lies
\* outside the log, or cuts the log at the first entry of another term.
Truncate(log, base, entries) ==
  LET pos(k) == entries[k].Index - base
      stop   == {k \in DOMAIN entries :
                   pos(k) \notin DOMAIN log \/ log[pos(k)].Term # entries[k].Term}
      cut    == pos(Least(stop))
  IN IF stop = {} \/ cut \notin DOMAIN log THEN log ELSE SubSeq(log, 1, cut - 1)

\* The second loop: what it appends.  The indexes of the entries of one call are
\* consecutive, so that is all of them from the first one past the log's end.
Extension(log, base, entries) ==
  LET new == {k \in DOMAIN entries : entries[k].Index > Len(log) + base}
  IN IF new = {} THEN <<>> ELSE SubSeq(entries, Least(new), Len(entries))

\* Faulty: commitIndex follows a delayed call back.
UnderCommit(commit, log, leaderCommit) ==
  IF log = <<>> THEN leaderCommit ELSE Min(leaderCommit, log[Len(log)].Index)

\* lastNewEntryIndex is read before the append; MaxInt when the log is empty.
CommitAfter(commit, log, leaderCommit) ==
  IF leaderCommit <= commit THEN commit
  ELSE IF log = <<>> THEN leaderCommit ELSE Min(leaderCommit, log[Len(log)].Index)

PrevMissing(i, m) == m.PrevLogIndex > LogEnd(i)
\* Faulty: the term of the previous entry is not compared.
FaultyPrevConflicts(i, m) == FALSE
PrevConflicts(i, m) ==
  /\ m.PrevLogIndex > snapshotIndex[i] /\ m.PrevLogIndex <= LogEnd(i)
  /\ logs[i][m.PrevLogIndex - snapshotIndex[i]].Term # m.PrevLogTerm

\* A valid caller turns a candidate into a follower; a leader stays one.
StatusAfterAppend(i, m) ==
  IF m.Term > currentTerm[i] \/ status[i] = "CANDIDATE" THEN "FOLLOWER" ELSE status[i]

\* The reply: FirstConflictingIndex and ConflictingTerm say where the entries of the
\* term found at PrevLogIndex begin.
AppendAnswer(i, m) ==
  LET refused(term) ==
        [src |-> i, dst |-> m.src, reqTerm |-> m.Term, PrevLogIndex |-> m.PrevLogIndex,
         NumEntries |-> Len(m.Entries), Term |-> term, Success |-> FALSE,
         FirstConflictingIndex |-> 0, ConflictingTerm |-> 0]
      found == logs[i][m.PrevLogIndex - snapshotIndex[i]].Term
  IN IF m.Term < currentTerm[i] THEN refused(currentTerm[i])
     ELSE IF PrevMissing(i, m) THEN refused(m.Term)
     ELSE IF PrevConflicts(i, m)
     THEN [refused(m.Term) EXCEPT !.ConflictingTerm = found,
             !.FirstConflictingIndex = logs[i][Least(OfTerm(logs[i], found))].Index]
     ELSE [refused(m.Term) EXCEPT !.Success = TRUE]

ReplyAppend(i, m) == aeReplies' = aeReplies \cup {AppendAnswer(i, m)}

\* handleAppendEntries of an older term.
RefuseStaleAppend(i, m) ==
  /\ ~panicked[i] /\ m.Term < currentTerm[i]
  /\ ReplyAppend(i, m)
  /\ UNCHANGED <<electionVars, logVars, leaderVars, snapshotVars, serviceVars, voteNet,
                 aeArgs, installNet, panicked, persister, restarts>>

\* handleAppendEntries when the log lacks the previous entry, or has another one.
RejectAppend(i, m) ==
  /\ ~panicked[i] /\ m.Term >= currentTerm[i]
  /\ PrevMissing(i, m) \/ PrevConflicts(i, m)
  /\ ReplyAppend(i, m)
  /\ FollowTerm(i, m.Term, StatusAfterAppend(i, m))
  /\ votedFor' = [votedFor EXCEPT ![i] = VoteAfter(i, m.Term)]
  /\ persister' = IF m.Term > currentTerm[i]
                  THEN [persister EXCEPT ![i] = Persisted(i, m.Term, Nil, logs[i])] ELSE persister
  /\ UNCHANGED <<ballots, logVars, leaderVars, snapshotVars, serviceVars, voteNet,
                 aeArgs, installNet, panicked, restarts>>

\* handleAppendEntries when the previous entry matches.
AcceptAppend(i, m) ==
  LET kept == Truncate(logs[i], snapshotIndex[i], m.Entries)
      new  == kept \o Extension(kept, snapshotIndex[i], m.Entries)
  IN
  /\ ~panicked[i] /\ m.Term >= currentTerm[i]
  /\ ~PrevMissing(i, m) /\ ~PrevConflicts(i, m)
  /\ FollowTerm(i, m.Term, StatusAfterAppend(i, m))
  /\ votedFor' = [votedFor EXCEPT ![i] = VoteAfter(i, m.Term)]
  /\ logs' = [logs EXCEPT ![i] = new]
  /\ commitIndex' = [commitIndex EXCEPT ![i] = CommitAfter(@, kept, m.LeaderCommit)]
  /\ persister' = IF m.Term > currentTerm[i] \/ new # logs[i]
                  THEN [persister EXCEPT ![i] = Persisted(i, m.Term, VoteAfter(i, m.Term), new)]
                  ELSE persister
  /\ ReplyAppend(i, m)
  /\ UNCHANGED <<ballots, leaderVars, snapshotVars, serviceVars, voteNet,
                 aeArgs, installNet, panicked, restarts>>

-----------------------------------------------------------------------------
(* The leader: commands and answers *)

\* Faulty: the index is the length of the trimmed log.
FaultyHandleCommand(i, c) ==
  LET new == Append(logs[i], [Term |-> currentTerm[i], Index |-> Len(logs[i]) + 1, Command |-> c]) IN
  /\ ~panicked[i] /\ status[i] = "LEADER" /\ LogEnd(i) < MaxIndex
  /\ logs' = [logs EXCEPT ![i] = new]
  /\ persister' = [persister EXCEPT ![i] = Persisted(i, currentTerm[i], votedFor[i], new)]
  /\ UNCHANGED <<electionVars, commitIndex, leaderVars, snapshotVars, serviceVars,
                 voteNet, appendNet, installNet, panicked, restarts>>

handleCommand(i, c) ==
  LET new == Append(logs[i], [Term |-> currentTerm[i], Index |-> LogEnd(i) + 1, Command |-> c]) IN
  /\ ~panicked[i] /\ status[i] = "LEADER" /\ LogEnd(i) < MaxIndex
  /\ logs' = [logs EXCEPT ![i] = new]
  /\ persister' = [persister EXCEPT ![i] = Persisted(i, currentTerm[i], votedFor[i], new)]
  /\ UNCHANGED <<electionVars, commitIndex, leaderVars, snapshotVars, serviceVars,
                 voteNet, appendNet, installNet, panicked, restarts>>

\* updateCommitIndex: the indexes past commitIndex that a majority stores ...
Stored(i, match) ==
  {n \in commitIndex[i] + 1 .. LogEnd(i) :
     Majority(1 + Cardinality({j \in Peers(i) : match[j] >= n}))}

\* Faulty: entries of earlier terms are committed by counting copies.
FaultyUpdateCommitIndex(i, match) ==
  IF Stored(i, match) = {} THEN commitIndex[i] ELSE Greatest(Stored(i, match))

\* ... the largest of them with an entry of this term is committed.
updateCommitIndex(i, match) ==
  LET good == {n \in Stored(i, match) :
                 n > snapshotIndex[i] /\ logs[i][n - snapshotIndex[i]].Term = currentTerm[i]}
  IN IF good = {} THEN commitIndex[i] ELSE Greatest(good)

\* A reply the leader does not drop: of its own term, to a call of this term.
Answers(i, m) ==
  ~panicked[i] /\ status[i] = "LEADER" /\ m.reqTerm = currentTerm[i] /\ m.Term >= currentTerm[i]

AppendReplyOfHigherTerm(i, m) ==
  /\ Answers(i, m) /\ m.Term > currentTerm[i]
  /\ handleHigherTermFound(i, m.Term)
  /\ UNCHANGED <<logVars, leaderVars, snapshotVars, serviceVars, voteNet,
                 appendNet, installNet, panicked, restarts>>

AppendSucceeded(i, m) ==
  LET last  == m.PrevLogIndex + m.NumEntries
      moved == m.NumEntries # 0 /\ last > matchIndex[i][m.src]
      match == IF moved THEN [matchIndex[i] EXCEPT ![m.src] = last] ELSE matchIndex[i]
  IN
  /\ Answers(i, m) /\ m.Term = currentTerm[i] /\ m.Success
  /\ matchIndex'  = [matchIndex EXCEPT ![i] = match]
  /\ nextIndex'   = IF moved THEN [nextIndex EXCEPT ![i][m.src] = last + 1] ELSE nextIndex
  /\ commitIndex' = [commitIndex EXCEPT ![i] = updateCommitIndex(i, match)]
  /\ panicked'    = [panicked EXCEPT ![i] = \E n \in Stored(i, match) : n <= snapshotIndex[i]]
  /\ UNCHANGED <<electionVars, logs, snapshotVars, serviceVars, voteNet,
                 appendNet, installNet, persister, restarts>>

\* Faulty: nextIndex stays where it is.
NoBackOff(i, m) == nextIndex[i][m.src]

\* nextIndex after a rejection: the leader's last entry of the conflicting term,
\* but not before the follower's first one.
BackOff(i, m) ==
  LET same == OfTerm(logs[i], m.ConflictingTerm)
      x    == IF same = {} THEN snapshotIndex[i] + 1 ELSE logs[i][Greatest(same)].Index
  IN Max(x, m.FirstConflictingIndex)

\* Faulty: off by one.
StrictlyBefore(i, next) == logs[i] # <<>> /\ next < logs[i][1].Index

\* The next entry is at or before the log's first: only the snapshot may have it.
NeedsSnapshot(i, next) == logs[i] # <<>> /\ next <= logs[i][1].Index

\* A rejection, with requestInstallSnapshot.
AppendFailed(i, m) ==
  LET next == BackOff(i, m) IN
  /\ Answers(i, m) /\ m.Term = currentTerm[i] /\ ~m.Success
  /\ nextIndex' = [nextIndex EXCEPT ![i][m.src] = next]
  /\ isArgs' = IF NeedsSnapshot(i, next)
               THEN isArgs \cup {[src |-> i, dst |-> m.src, inc |-> restarts[i],
                                  Term |-> currentTerm[i],
                                  LastIncludedIndex |-> snapshotIndex[i],
                                  LastIncludedTerm |-> snapshotTerm[i], Data |-> snapshot[i]]}
               ELSE isArgs
  /\ UNCHANGED <<electionVars, logVars, matchIndex, snapshotVars, serviceVars, voteNet,
                 appendNet, isReplies, panicked, persister, restarts>>

-----------------------------------------------------------------------------
(* The service and snapshots *)

\* applierSnap snapshots after such an index; applier (interval 0) never does.
TakesSnapshot(index) == SnapShotInterval > 0 /\ (index + 1) % SnapShotInterval = 0

\* Faulty: the last applied entry is sent again.
FaultyApplicable(i) ==
  SubSeq(logs[i], Max(lastApplied[i] - snapshotIndex[i], 1),
         Min(commitIndex[i] - snapshotIndex[i], Len(logs[i])))

\* The entries applyToClient sends before it is done or runs out of the log.
Applicable(i) ==
  IF lastApplied[i] < snapshotIndex[i] THEN <<>>
  ELSE SubSeq(logs[i], lastApplied[i] + 1 - snapshotIndex[i],
              Min(commitIndex[i] - snapshotIndex[i], Len(logs[i])))

\* applyToClient, and the service that takes each message and asks for snapshots.
applyToClient(i) ==
  LET sent  == Applicable(i)
      msgs  == [k \in 1 .. Len(sent) |-> [Index |-> sent[k].Index, Command |-> sent[k].Command]]
      taken == service[i] \o msgs
  IN
  /\ ~panicked[i] /\ logs[i] # <<>> /\ commitIndex[i] > lastApplied[i]
  /\ panicked' = [panicked EXCEPT ![i] = lastApplied[i] < snapshotIndex[i] \/ commitIndex[i] > LogEnd(i)]
  /\ lastApplied' = [lastApplied EXCEPT ![i] = commitIndex[i]]
  /\ applied' = applied \cup {sent[k] : k \in DOMAIN sent}
  /\ service' = [service EXCEPT ![i] = taken]
  /\ snapshotReqs' = [snapshotReqs EXCEPT ![i] = @ \cup
       {[index |-> taken[k].Index, snapshot |-> SubSeq(taken, 1, k)] :
          k \in {n \in Len(service[i]) + 1 .. Len(taken) : TakesSnapshot(taken[n].Index)}}]
  /\ UNCHANGED <<electionVars, logVars, leaderVars, snapshotVars, voteNet,
                 appendNet, installNet, persister, restarts>>

\* handleSnapshot; nothing is persisted.  A request at or below snapshotIndex
\* sets the snapshot's term to -1, and one outside the log panics.
handleSnapshot(i, req) ==
  LET pos    == req.index - snapshotIndex[i]
      broken == pos \notin 0 .. Len(logs[i])
  IN
  /\ ~panicked[i]
  /\ snapshotReqs'  = [snapshotReqs EXCEPT ![i] = @ \ {req}]
  /\ panicked'      = [panicked EXCEPT ![i] = broken]
  /\ snapshot'      = [snapshot EXCEPT ![i] = req.snapshot]
  /\ snapshotIndex' = [snapshotIndex EXCEPT ![i] = req.index]
  /\ snapshotTerm'  = [snapshotTerm EXCEPT ![i] = IF broken \/ pos = 0 THEN -1 ELSE logs[i][pos].Term]
  /\ logs' = [logs EXCEPT ![i] = IF broken THEN <<>> ELSE SubSeq(@, pos + 1, Len(@))]
  /\ UNCHANGED <<electionVars, commitIndex, leaderVars, lastApplied, service, applied, voteNet,
                 appendNet, installNet, persister, restarts>>

ReplyInstall(i, m) ==
  isReplies' = isReplies \cup
    {[src |-> i, dst |-> m.src, inc |-> m.inc, Term |-> currentTerm[i]]}

\* handleInstallSnapshot of an older term.
RefuseInstall(i, m) ==
  /\ ~panicked[i] /\ m.Term < currentTerm[i]
  /\ ReplyInstall(i, m)
  /\ UNCHANGED <<electionVars, logVars, leaderVars, snapshotVars, serviceVars, voteNet,
                 appendNet, isArgs, panicked, persister, restarts>>

\* The head of handleInstallSnapshot: the received snapshot is stored beside the
\* log as it still is, without the snapshot's index and term.
SaveReceived(i, m) ==
  /\ ~panicked[i] /\ m.Term >= currentTerm[i]
  /\ FollowTerm(i, m.Term, IF m.Term > currentTerm[i] THEN "FOLLOWER" ELSE status[i])
  /\ votedFor'  = [votedFor EXCEPT ![i] = VoteAfter(i, m.Term)]
  /\ snapshot'  = [snapshot EXCEPT ![i] = m.Data]
  /\ persister' = [persister EXCEPT ![i] =
       [CurrentTerm |-> m.Term, VotedFor |-> VoteAfter(i, m.Term), Logs |-> logs[i],
        SnapshotIndex |-> 0, SnapshotTerm |-> 0, Snapshot |-> m.Data]]
  /\ UNCHANGED <<ballots, commitIndex, leaderVars, snapshotReqs, applied, voteNet,
                 appendNet, isArgs, restarts>>

\* A leader without a snapshot sends nil, and the handler returns early.
ReceiveNilSnapshot(i, m) ==
  /\ m.Data = <<>>
  /\ SaveReceived(i, m)
  /\ ReplyInstall(i, m)
  /\ UNCHANGED <<logs, snapshotIndex, snapshotTerm, lastApplied, service, panicked>>

\* The log is dropped and the service gets the snapshot; when the log's last entry
\* sits at snapshotIndex with the snapshot's term, it is sliced and kept instead.
InstallSnapshot(i, m) ==
  LET keep   == /\ logs[i] # <<>> /\ LastLogIndex(i) = snapshotIndex[i]
                /\ LastLogTerm(i) = m.LastIncludedTerm
      drop   == m.LastIncludedIndex - snapshotIndex[i]
      broken == keep /\ drop \notin 0 .. Len(logs[i])
  IN
  /\ m.Data # <<>>
  /\ SaveReceived(i, m)
  /\ panicked'      = [panicked EXCEPT ![i] = broken]
  /\ logs' = [logs EXCEPT ![i] = IF keep /\ ~broken THEN SubSeq(@, drop + 1, Len(@)) ELSE <<>>]
  /\ snapshotIndex' = [snapshotIndex EXCEPT ![i] = m.LastIncludedIndex]
  /\ snapshotTerm'  = [snapshotTerm EXCEPT ![i] = m.LastIncludedTerm]
  /\ lastApplied'   = [lastApplied EXCEPT ![i] = m.LastIncludedIndex]
  /\ service'       = [service EXCEPT ![i] = IF keep THEN @ ELSE m.Data]
  /\ IF broken THEN UNCHANGED isReplies ELSE ReplyInstall(i, m)

InstallReplyOfHigherTerm(i, m) ==
  /\ ~panicked[i] /\ status[i] = "LEADER" /\ m.inc = restarts[i] /\ m.Term > currentTerm[i]
  /\ handleHigherTermFound(i, m.Term)
  /\ UNCHANGED <<logVars, leaderVars, snapshotVars, serviceVars, voteNet,
                 appendNet, installNet, panicked, restarts>>

-----------------------------------------------------------------------------
(* Crashes *)

\* Make with a persister that holds d, and the service started from d's snapshot.
Boot(i, d) ==
  /\ restarts[i] < MaxRestarts
  /\ restarts'      = [restarts EXCEPT ![i] = @ + 1]
  /\ persister'     = [persister EXCEPT ![i] = d]
  /\ status'        = [status EXCEPT ![i] = "FOLLOWER"]
  /\ currentTerm'   = [currentTerm EXCEPT ![i] = d.CurrentTerm]
  /\ votedFor'      = [votedFor EXCEPT ![i] = d.VotedFor]
  /\ grantedVotes'  = [grantedVotes EXCEPT ![i] = 0]
  /\ logs'          = [logs EXCEPT ![i] = d.Logs]
  /\ snapshot'      = [snapshot EXCEPT ![i] = d.Snapshot]
  /\ snapshotIndex' = [snapshotIndex EXCEPT ![i] = d.SnapshotIndex]
  /\ snapshotTerm'  = [snapshotTerm EXCEPT ![i] = d.SnapshotTerm]
  /\ commitIndex'   = [commitIndex EXCEPT ![i] = d.SnapshotIndex]
  /\ lastApplied'   = [lastApplied EXCEPT ![i] = d.SnapshotIndex]
  /\ nextIndex'     = [nextIndex EXCEPT ![i] = [j \in Server |-> 0]]
  /\ matchIndex'    = [matchIndex EXCEPT ![i] = [j \in Server |-> 0]]
  /\ panicked'      = [panicked EXCEPT ![i] = FALSE]
  /\ service'       = [service EXCEPT ![i] = d.Snapshot]
  /\ snapshotReqs'  = [snapshotReqs EXCEPT ![i] = {}]
  /\ UNCHANGED <<ballots, applied, appendNet, installNet, rvReplies>>

\* A crash between two handlers (crash1, start1).
Restart(i) == Boot(i, persister[i]) /\ UNCHANGED rvArgs

\* A crash inside the handler of a call, after handleHigherTermFound has persisted.
CrashAfterTerm(i, m) ==
  /\ ~panicked[i] /\ m.Term > currentTerm[i]
  /\ Boot(i, Persisted(i, m.Term, Nil, logs[i]))
  /\ rvArgs' = rvArgs \ {m}

\* A crash inside handleAppendEntries, after the cut, if there is one, and n of the
\* appends; each of them has been persisted.
CrashInAppend(i, m, n) ==
  LET kept == Truncate(logs[i], snapshotIndex[i], m.Entries)
      new  == Extension(kept, snapshotIndex[i], m.Entries)
  IN
  /\ ~panicked[i] /\ m.Term >= currentTerm[i]
  /\ ~PrevMissing(i, m) /\ ~PrevConflicts(i, m)
  /\ n < Len(new) /\ (n > 0 \/ kept # logs[i])
  /\ Boot(i, Persisted(i, m.Term, VoteAfter(i, m.Term), kept \o SubSeq(new, 1, n)))
  /\ UNCHANGED rvArgs

-----------------------------------------------------------------------------

\* What readPersist and ReadSnapshot find on the first start.
Fresh == [CurrentTerm |-> 0, VotedFor |-> Nil, Logs |-> <<>>, SnapshotIndex |-> 0,
          SnapshotTerm |-> -1, Snapshot |-> <<>>]

Init ==
  /\ status        = [i \in Server |-> "FOLLOWER"]
  /\ currentTerm   = [i \in Server |-> 0]
  /\ votedFor      = [i \in Server |-> Nil]
  /\ grantedVotes  = [i \in Server |-> 0]
  /\ logs          = [i \in Server |-> <<>>]
  /\ commitIndex   = [i \in Server |-> 0]
  /\ lastApplied   = [i \in Server |-> 0]
  /\ nextIndex     = [i \in Server |-> [j \in Server |-> 0]]
  /\ matchIndex    = [i \in Server |-> [j \in Server |-> 0]]
  /\ snapshot      = [i \in Server |-> <<>>]
  /\ snapshotIndex = [i \in Server |-> 0]
  /\ snapshotTerm  = [i \in Server |-> -1]
  /\ panicked      = [i \in Server |-> FALSE]
  /\ persister     = [i \in Server |-> Fresh]
  /\ service       = [i \in Server |-> <<>>]
  /\ snapshotReqs  = [i \in Server |-> {}]
  /\ restarts      = [i \in Server |-> 0]
  /\ rvArgs = {} /\ rvReplies = {} /\ aeArgs = {} /\ aeReplies = {}
  /\ isArgs = {} /\ isReplies = {} /\ ballots = {} /\ applied = {}

Timer(i) ==
  startElection(i) \/ sendHeartBeat(i) \/ broadcastAppendEntries(i) \/ applyToClient(i)

ReceiveSnapshotRequest(i) == \E req \in snapshotReqs[i] : handleSnapshot(i, req)

ReceiveVoteRequest(m) ==
  DeclineVote(m.dst, m) \/ GrantVote(m.dst, m) \/ RefuseVote(m.dst, m) \/ CrashAfterTerm(m.dst, m)

ReceiveVote(m) == VoteOfHigherTerm(m.dst, m) \/ CountVote(m.dst, m)

ReceiveAppend(m) ==
  \/ RefuseStaleAppend(m.dst, m) \/ RejectAppend(m.dst, m) \/ AcceptAppend(m.dst, m)
  \/ CrashAfterTerm(m.dst, m)
  \/ \E n \in 0 .. Len(m.Entries) : CrashInAppend(m.dst, m, n)

ReceiveAppendReply(m) ==
  AppendReplyOfHigherTerm(m.dst, m) \/ AppendSucceeded(m.dst, m) \/ AppendFailed(m.dst, m)

ReceiveInstall(m) ==
  \/ RefuseInstall(m.dst, m) \/ ReceiveNilSnapshot(m.dst, m) \/ InstallSnapshot(m.dst, m)
  \/ CrashAfterTerm(m.dst, m)

Next ==
  \/ \E i \in Server : Timer(i) \/ ReceiveSnapshotRequest(i) \/ Restart(i)
  \/ \E i \in Server, c \in Command : handleCommand(i, c)
  \/ \E m \in rvArgs : ReceiveVoteRequest(m)
  \/ \E m \in rvReplies : ReceiveVote(m)
  \/ \E m \in aeArgs : ReceiveAppend(m)
  \/ \E m \in aeReplies : ReceiveAppendReply(m)
  \/ \E m \in isArgs : ReceiveInstall(m)
  \/ \E m \in isReplies : InstallReplyOfHigherTerm(m.dst, m)

Spec == Init /\ [][Next]_vars

-----------------------------------------------------------------------------
(* Properties *)

\* Every field, stored record and RPC of the model has its type.
TypeOK ==
  /\ status \in [Server -> {"FOLLOWER", "CANDIDATE", "LEADER"}]
  /\ currentTerm \in [Server -> Nat]
  /\ votedFor \in [Server -> Server \cup {Nil}]
  /\ grantedVotes \in [Server -> Nat]
  /\ logs \in [Server -> Seq(Entry)]
  /\ commitIndex \in [Server -> Nat] /\ lastApplied \in [Server -> Nat]
  /\ nextIndex \in [Server -> [Server -> Nat]] /\ matchIndex \in [Server -> [Server -> Nat]]
  /\ snapshot \in [Server -> Snapshots] /\ snapshotIndex \in [Server -> Nat]
  /\ snapshotTerm \in [Server -> Int]
  /\ panicked \in [Server -> BOOLEAN] /\ persister \in [Server -> Data]
  /\ service \in [Server -> Snapshots] /\ restarts \in [Server -> Nat]
  /\ snapshotReqs \in [Server -> SUBSET [index : Nat, snapshot : Snapshots]]
  /\ rvArgs \subseteq RequestVoteArgs /\ rvReplies \subseteq RequestVoteReply
  /\ aeArgs \subseteq AppendEntriesArgs /\ aeReplies \subseteq AppendEntriesReply
  /\ isArgs \subseteq InstallSnapshotRequest /\ isReplies \subseteq InstallSnapshotReply
  /\ ballots \subseteq Ballot /\ applied \subseteq Entry

\* No two peers are leader in the same term (checkOneLeader, config.go): granted
\* votes survive crashes and refusals, and a vote is counted once.
ElectionSafety ==
  \A i, j \in Server :
    status[i] = "LEADER" /\ status[j] = "LEADER" /\ currentTerm[i] = currentTerm[j] => i = j

\* A peer gives its vote to one candidate per term, over all its incarnations and
\* although handleRequestVote clears votedFor when it refuses a candidate.
OneVotePerTerm ==
  \A a, b \in ballots : a.voter = b.voter /\ a.term = b.term => a = b

\* Any two logs that have an entry of the same index and term are the same up to it,
\* whatever order appends, cuts and crashes came in.
LogMatching ==
  \A i, j \in Server : \A k \in DOMAIN logs[i] \cap DOMAIN logs[j] :
    logs[i][k].Term = logs[j][k].Term => SubSeq(logs[i], 1, k) = SubSeq(logs[j], 1, k)

\* The entries of a log are numbered on from snapshotIndex; every index and slice
\* expression of raft.go is computed from this.
LogIndexed ==
  \A i \in Server : \A k \in DOMAIN logs[i] : logs[i][k].Index = snapshotIndex[i] + k

\* The entries of a call follow its PrevLogIndex without a gap: the leader takes
\* PrevLogIndex + len(Entries) for the index of the last one.
CallIndexed ==
  \A m \in aeArgs : \A k \in DOMAIN m.Entries : m.Entries[k].Index = m.PrevLogIndex + k

\* No two entries are ever sent on applyCh for one index, by any incarnation of any
\* peer (checkLogs, config.go).
StateMachineSafety == \A a, b \in applied : a.Index = b.Index => a = b

\* No two services are sent different commands for one index: checkLogs stops a test with
\* "some server has already committed a different value for this entry!" when one is.
CommandsAgree == \A a, b \in applied : a.Index = b.Index => a.Command = b.Command

\* A leader has every entry that any peer of its term or an earlier one holds committed.
LeaderCompleteness ==
  \A i, j \in Server :
    status[i] = "LEADER" /\ currentTerm[i] >= currentTerm[j] =>
      \A k \in 1 .. commitIndex[j] : k <= Len(logs[i]) /\ logs[i][k] = logs[j][k]

\* matchIndex counts only entries that are on the follower's stable storage, so
\* updateCommitIndex commits only what a majority keeps through a crash.
MatchIsDurable ==
  \A i, j \in Server :
    status[i] = "LEADER" /\ i # j /\ currentTerm[j] = currentTerm[i] =>
      \A k \in 1 .. matchIndex[i][j] :
        k <= Len(persister[j].Logs) /\ persister[j].Logs[k] = logs[i][k]

\* No index or slice expression of the handlers is ever out of range.
NoPanic == \A i \in Server : ~panicked[i]

\* The service gets the commands in index order with no gap, as applierSnap
\* demands of every message ("apply out of order", config.go).
AppliedInOrder == \A i \in Server : \A k \in DOMAIN service[i] : service[i][k].Index = k

\* Within one incarnation commitIndex and lastApplied never move back.
ProgressKept ==
  [][\A i \in Server : restarts'[i] = restarts[i] =>
       commitIndex'[i] >= commitIndex[i] /\ lastApplied'[i] >= lastApplied[i]]_vars

\* The entries applied so far as one log; a position holds what was sent for it.
AppliedLog ==
  [k \in 1 .. Cardinality({e.Index : e \in applied}) |->
     {[Index |-> e.Index, Command |-> e.Command] : e \in {a \in applied : a.Index = k}}]

Delivered == [i \in Server |-> [k \in DOMAIN service[i] |-> {service[i][k]}]]

Abstract == INSTANCE ReplicatedLog WITH log <- AppliedLog, delivered <- Delivered

\* The peers implement one append-only log: all services are sent prefixes of it, and
\* what one of them was sent is never replaced (checkLogs and applierSnap, config.go).
ImplementsReplicatedLog == Abstract!Spec

=============================================================================
