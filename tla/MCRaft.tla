------------------------------- MODULE MCRaft -------------------------------
(***************************************************************************)
(* Raft for TLC.  Peers and commands are interchangeable, and two states   *)
(* that differ only in what can no longer have an effect are one state:    *)
(* terms never decrease and a peer leads or runs in a term at most once,   *)
(* so an RPC that is ignored by everyone now is ignored for ever.          *)
(***************************************************************************)
EXTENDS Raft, TLC

Symmetry == Permutations(Server) \cup Permutations(Command)

Leads(i, t) == status[i] = "LEADER" /\ currentTerm[i] = t
Runs(i, t)  == status[i] = "CANDIDATE" /\ currentTerm[i] = t

\* Calls the receiver still acts on, or refuses with a term that stops the caller.
LiveVoteCalls   == {m \in rvArgs : m.Term >= currentTerm[m.dst] \/ Runs(m.src, m.Term)}
LiveAppendCalls == {m \in aeArgs : m.Term >= currentTerm[m.dst] \/ Leads(m.src, m.Term)}
LiveInstalls    == {m \in isArgs : m.Term >= currentTerm[m.dst] \/ m.inc = restarts[m.src]}

\* Replies that still change something.
LiveVotes == {m \in rvReplies : Runs(m.dst, m.reqTerm) /\ (m.VoteGranted \/ m.Term > m.reqTerm)}
Matters(m) ==
  /\ Leads(m.dst, m.reqTerm)
  /\ m.Success => m.NumEntries > 0 /\ m.PrevLogIndex + m.NumEntries > matchIndex[m.dst][m.src]
LiveAppendReplies == {m \in aeReplies : Matters(m)}
LiveInstallReplies == {m \in isReplies : m.inc = restarts[m.dst] /\ m.Term > currentTerm[m.dst]}

OfLeaders(f) == [i \in {j \in Server : status[j] = "LEADER"} |-> f[i]]

View ==
  <<status, currentTerm, votedFor, grantedVotes, logVars, OfLeaders(nextIndex),
    OfLeaders(matchIndex), snapshotVars, serviceVars, panicked, persister, restarts,
    LiveVoteCalls, LiveVotes, LiveAppendCalls, LiveAppendReplies, LiveInstalls,
    LiveInstallReplies, {b \in ballots : b.term >= currentTerm[b.voter]}>>

\* A step that only puts an append call or its reply under way takes nothing away from
\* any other step: both stay under way for good and need not be received.  So such
\* steps may come before anything else, and every state of the peers is still reached.
Due(i) == {j \in Peers(i) : LastLogIndex(i) >= nextIndex[i][j] /\ nextIndex[i][j] > snapshotIndex[i]}

Unsent(i) ==
  /\ status[i] = "LEADER" /\ ~panicked[i]
  /\ ~(Heartbeats(i) \cup {Broadcast(i, j) : j \in Due(i)} \subseteq aeArgs)

OnlyReplies(i, m) ==
  LET kept == Truncate(logs[i], snapshotIndex[i], m.Entries) IN
  \/ m.Term < currentTerm[i]
  \/ /\ m.Term = currentTerm[i] /\ status[i] # "CANDIDATE"
     /\ \/ PrevMissing(i, m) \/ PrevConflicts(i, m)
        \/ /\ kept = logs[i] /\ Extension(kept, snapshotIndex[i], m.Entries) = <<>>
           /\ CommitAfter(commitIndex[i], kept, m.LeaderCommit) = commitIndex[i]

Unanswered(m) ==
  /\ Leads(m.src, m.Term) /\ ~panicked[m.dst] /\ OnlyReplies(m.dst, m)
  /\ AppendAnswer(m.dst, m) \notin aeReplies /\ Matters(AppendAnswer(m.dst, m))

Hurry == (\E i \in Server : Unsent(i)) \/ (\E m \in aeArgs : Unanswered(m))

OnlySends ==
  /\ aeArgs' # aeArgs \/ LiveAppendReplies' # LiveAppendReplies
  /\ UNCHANGED <<electionVars, logVars, leaderVars, snapshotVars, serviceVars, voteNet,
                 installNet, panicked, persister, restarts>>

EagerSend == Hurry => OnlySends

\* Next under EagerSend, without the steps it would discard.
EagerNext ==
  \/ /\ Hurry
     /\ \/ \E i \in Server : Timer(i)
        \/ \E m \in aeArgs : ReceiveAppend(m)
     /\ OnlySends
  \/ ~Hurry /\ Next

-----------------------------------------------------------------------------
(***************************************************************************)
(* Starting later: l has just won an election, the peers hold what their   *)
(* persisters hold, and every earlier RPC has been answered or lost.       *)
(***************************************************************************)

Cast(c, voters, t) == {[voter |-> v, term |-> t, candidate |-> c] : v \in voters}

LogEntry(t, n, c) == [Term |-> t, Index |-> n, Command |-> c]

Saved(term, vote, log) ==
  [CurrentTerm |-> term, VotedFor |-> vote, Logs |-> log, SnapshotIndex |-> 0,
   SnapshotTerm |-> 0, Snapshot |-> <<>>]

LeaderStart(l, crashes, saved, next, cast, done) ==
  /\ persister = saved
  /\ status        = [i \in Server |-> IF i = l THEN "LEADER" ELSE "FOLLOWER"]
  /\ currentTerm   = [i \in Server |-> saved[i].CurrentTerm]
  /\ votedFor      = [i \in Server |-> saved[i].VotedFor]
  /\ logs          = [i \in Server |-> saved[i].Logs]
  /\ snapshot      = [i \in Server |-> saved[i].Snapshot]
  /\ snapshotIndex = [i \in Server |-> saved[i].SnapshotIndex]
  /\ snapshotTerm  = [i \in Server |-> IF snapshot[i] = <<>> THEN -1 ELSE saved[i].SnapshotTerm]
  /\ commitIndex = snapshotIndex /\ lastApplied = snapshotIndex /\ service = snapshot
  /\ nextIndex     = [i \in Server |-> [j \in Server |-> IF i = l THEN next ELSE 0]]
  /\ matchIndex    = [i \in Server |-> [j \in Server |-> 0]]
  /\ snapshotReqs  = [i \in Server |-> {}] /\ panicked     = [i \in Server |-> FALSE]
  /\ restarts = [i \in Server |-> IF i = l THEN 0 ELSE crashes] /\ grantedVotes = [i \in Server |-> 0]
  /\ ballots = cast /\ applied = done /\ aeArgs = Heartbeats(l)
  /\ rvArgs = {} /\ rvReplies = {} /\ aeReplies = {} /\ isArgs = {} /\ isReplies = {}

\* The first election: l won the vote of v, the other peers heard nothing yet.
ElectedInit ==
  \E l, v \in Server :
    /\ l # v
    /\ LeaderStart(l, 0, [i \in Server |-> IF i \in {l, v} THEN Saved(1, l, <<>>) ELSE Fresh],
                   1, Cast(l, {l, v}, 1), {})

ElectedSpec == ElectedInit /\ [][Next]_vars

\* The same, and Start has then put a command in the log of l.
StoredInit ==
  \E l, v \in Server, c \in Command :
    /\ l # v
    /\ LeaderStart(l, 0, [i \in Server |->
           IF i = l THEN Saved(1, l, <<LogEntry(1, 1, c)>>)
           ELSE IF i = v THEN Saved(1, l, <<>>) ELSE Fresh],
         1, Cast(l, {l, v}, 1), {})

\* The third election: l led term 1 and r term 2, each stored one command on itself
\* alone, and l has now won term 3 with the vote of v, whose log is empty; r has heard
\* of it.
DivergedInit ==
  \E l, r, v \in Server, c, d \in Command :
    /\ l # r /\ l # v /\ r # v
    /\ LeaderStart(l, 0, [i \in Server |->
           IF i = l THEN Saved(3, l, <<LogEntry(1, 1, c)>>)
           ELSE IF i = v THEN Saved(3, l, <<>>)
           ELSE Saved(3, Nil, <<LogEntry(2, 1, d)>>)],
         2, Cast(l, {l, v}, 1) \cup Cast(r, {r, v}, 2) \cup Cast(l, {l, v}, 3), {})

DivergedSpec == DivergedInit /\ [][Next]_vars

\* l led term 1, stored one command on itself and v, committed and applied it and took
\* a snapshot of it.  v, which has not heard of the commit, then ran in term 2, and the
\* votes of l and of w, which has no log, were lost.  l has now won term 3 with the vote
\* of v.
Lagging(crashes) ==
  \E l, v, w \in Server, c \in Command :
    /\ l # v /\ l # w /\ v # w
    /\ LeaderStart(l, crashes, [i \in Server |->
           IF i = l THEN [Saved(3, l, <<>>) EXCEPT !.SnapshotIndex = 1, !.SnapshotTerm = 1,
                            !.Snapshot = <<[Index |-> 1, Command |-> c]>>]
           ELSE IF i = v THEN Saved(3, l, <<LogEntry(1, 1, c)>>)
           ELSE Saved(2, v, <<>>)],
         2, Cast(l, {l, v}, 1) \cup Cast(v, Server, 2) \cup Cast(l, {l, v}, 3), {LogEntry(1, 1, c)})

LaggingInit == Lagging(0)
LaggingSpec == LaggingInit /\ [][Next]_vars

\* f led term 1: it stored the first command everywhere, committed and applied it and
\* took a snapshot, and stored a second one on itself alone.  l, which has applied
\* nothing yet, has now won term 2 with the vote of v; f has refused it, as its own log is
\* longer.
StaleTailInit ==
  \E l, v, f \in Server, c \in Command :
    /\ l # v /\ l # f /\ v # f
    /\ LeaderStart(l, 0, [i \in Server |->
           IF i = f THEN [Saved(2, Nil, <<LogEntry(1, 2, c)>>) EXCEPT !.SnapshotIndex = 1,
                            !.SnapshotTerm = 1, !.Snapshot = <<[Index |-> 1, Command |-> c]>>]
           ELSE Saved(2, l, <<LogEntry(1, 1, c)>>)],
         2, Cast(f, Server, 1) \cup Cast(l, {l, v}, 2), {LogEntry(1, 1, c)})

StaleTailSpec == StaleTailInit /\ [][Next]_vars

-----------------------------------------------------------------------------
(***************************************************************************)
(* Runs from several starts, each with bounds of its own.  A bound on the  *)
(* next state says which start it has come from.                           *)
(***************************************************************************)

Commands == UNION {{logs[i][k].Command : k \in DOMAIN logs[i]} : i \in Server}

Within(term, index, crashes, commands) ==
  /\ Cardinality(Commands) <= commands
  /\ \A i \in Server : currentTerm[i] <= term /\ LogEnd(i) <= index /\ restarts[i] <= crashes

\* With one command stored, through a second election with one candidate; and, from
\* term 3 on, a second command or a fourth election.
FirstLogs == \E i \in Server : currentTerm[i] < 3

Candidates(t) == {b.candidate : b \in {a \in ballots : a.term = t}}

LogsWithin ==
  \/ FirstLogs /\ Within(2, 1, 0, 1) /\ Cardinality(Candidates(2)) <= 1
  \/ ~FirstLogs /\ (Within(3, 2, 0, 1) \/ Within(4, 1, 0, 2))

LogsNext == EagerNext /\ LogsWithin'
LogsSpec == (StoredInit \/ DivergedInit) /\ [][LogsNext]_vars

\* Elections from the first start with a crash of each peer and no commands; and a peer
\* that is brought up with a snapshot, by a leader that may crash (the others have).
ElectionsWithin ==
  \/ applied = {} /\ Within(3, 0, 1, 0)
  \/ applied # {} /\ Within(3, 2, MaxRestarts, 1)

ElectionsSpec == (Init \/ Lagging(MaxRestarts)) /\ [][Next]_vars

=============================================================================
