-------------------------- MODULE RaftCompleteness --------------------------
(***************************************************************************)
(* What is committed stays: every later leader has it, all services are    *)
(* sent the same entries in order, and no handler indexes outside a log,   *)
(* for any finite set of peers, any number of terms, commands and crashes, *)
(* when the service takes no snapshots (SnapShotInterval = 0).             *)
(***************************************************************************)
EXTENDS RaftLogMatching

-----------------------------------------------------------------------------
(* The inductive invariant *)

\* Peer v told the leader of term t that it stores that leader's entries up to k, or is the
\* leader.
Acked(v, t, k) ==
  \/ \E r \in aeReplies : /\ r.Success /\ r.src = v /\ r.reqTerm = t
                          /\ r.PrevLogIndex + r.NumEntries >= k
  \/ \E m \in aeArgs : m.src = v /\ m.Term = t

\* A majority has, or each of it has or still may: peers beyond term t answer its leader no more.
Chosen(t, k) ==
  \E A \in SUBSET Server : Majority(Cardinality(A)) /\ \A v \in A : Acked(v, t, k)
Choosable(t, k) ==
  \E A \in SUBSET Server : /\ Majority(Cardinality(A))
                           /\ \A v \in A : currentTerm[v] <= t \/ Acked(v, t, k)

\* Entry k of the leader of term t is of its own term: what updateCommitIndex commits.
Own(canon, t, k) == k >= 1 /\ k <= Len(canon[t]) /\ canon[t][k].Term = t

\* An entry that may be chosen in term t is in the log of every later leader, ...
LaterLeadersHave(canon) ==
  \A t, k, u \in Nat :
    Own(canon, t, k) /\ Choosable(t, k) /\ u > t /\ Elected(u) => Agree(canon[u], canon[t], k)

\* ... is kept by those that said they store it, ...
AckedIsKept(canon) ==
  \A t, k \in Nat, v \in Server :
    Own(canon, t, k) /\ Choosable(t, k) /\ Acked(v, t, k) => Agree(logs[v], canon[t], k)

\* ... and a candidate one of them voted for later has it.
VotersChoseHolders(canon) ==
  \A t, k \in Nat, v, c \in Server :
    /\ Own(canon, t, k) /\ Choosable(t, k) /\ Acked(v, t, k)
    /\ status[c] = "CANDIDATE" /\ currentTerm[c] > t /\ v \in VotersIn(c, currentTerm[c])
    => Agree(logs[c], canon[t], k)

\* A RequestVote call of an election still running describes the caller's log.
VoteCallsDescribe ==
  \A m \in rvArgs : status[m.src] = "CANDIDATE" /\ currentTerm[m.src] = m.Term =>
    /\ m.LastLogIndex = Len(logs[m.src])
    /\ logs[m.src] # <<>> => m.LastLogTerm = logs[m.src][Len(logs[m.src])].Term
    /\ logs[m.src] = <<>> => m.LastLogTerm <= 0

\* The first n entries of log are behind an entry chosen in term t or before.
Settled(canon, n, t, log) ==
  \E u, k \in Nat : /\ Own(canon, u, k) /\ Chosen(u, k) /\ u <= t
                    /\ n <= k /\ Agree(log, canon[u], n)

CommitSettled(canon) ==
  \A i \in Server : commitIndex[i] > 0 => Settled(canon, commitIndex[i], currentTerm[i], logs[i])

\* LeaderCommit does not point beyond what the call leaves in the follower's log.
CallsSettled(canon) ==
  \A m \in aeArgs : m.LeaderCommit > 0 =>
    /\ m.LeaderCommit <= m.PrevLogIndex + Len(m.Entries)
    /\ Settled(canon, m.LeaderCommit, m.Term, canon[m.Term])

AppliedSettled(canon) ==
  \A a \in applied : \E u, k \in Nat :
    Own(canon, u, k) /\ Chosen(u, k) /\ a.Index \in 1 .. k /\ a = canon[u][a.Index]

ChosenInvOf(canon) ==
  /\ LaterLeadersHave(canon) /\ AckedIsKept(canon) /\ VotersChoseHolders(canon) /\ VoteCallsDescribe
  /\ CommitSettled(canon) /\ CallsSettled(canon) /\ AppliedSettled(canon)

CompletenessInv == \E canon \in Canons : LogInvOf(canon) /\ ChosenInvOf(canon)

-----------------------------------------------------------------------------
(* Facts about what is chosen *)

\* What is chosen may be chosen.
LEMMA ChosenChoosable ==
  ASSUME NEW t, NEW k, Chosen(t, k)
  PROVE  Choosable(t, k)
BY Zenon DEF Chosen, Choosable

\* Who stored entries of a term has reached it, and its leader has spoken.
LEMMA AckedTerm ==
  ASSUME NEW canon, LogInvOf(canon), NEW v \in Server, NEW t \in Nat, NEW k, Acked(v, t, k)
  PROVE  t <= currentTerm[v] /\ Elected(t)
<1>1. CASE \E r \in aeReplies : r.Success /\ r.src = v /\ r.reqTerm = t
  BY Zenon, <1>1 DEF LogInvOf, RepliesKept
<1>2. CASE \E m \in aeArgs : m.src = v /\ m.Term = t
  BY Zenon, <1>2 DEF LogInvOf, CallsFromLeaders, Elected
<1>3. QED
  BY Zenon, <1>1, <1>2 DEF Acked

\* Votes and terms.
LEMMA VoterTerm ==
  ASSUME ElectionInv, NEW v \in Server, NEW c \in Server, NEW t, v \in VotersIn(c, t)
  PROVE  t <= currentTerm[v] /\ t <= currentTerm[c]
<1>1. Vote(v, t, c) \in ballots
  BY Zenon DEF VotersIn
<1>2. Vote(v, t, c).voter = v /\ Vote(v, t, c).term = t /\ Vote(v, t, c).candidate = c
  BY Zenon DEF Vote
<1>3. QED
  BY Zenon, <1>1, <1>2 DEF ElectionInv, VoteRemembered

\* The terms of a log do not fall from one entry to the next.
LEMMA TermsRise ==
  ASSUME NEW canon \in Canons, Consistent(canon), NEW s \in Seq(Entry), Backed(s, canon),
         NEW j \in 1 .. Len(s), NEW k \in 1 .. Len(s), j <= k
  PROVE  s[j].Term <= s[k].Term
<1> DEFINE t == s[k].Term
<1>1. Len(s) \in Nat /\ t \in Nat /\ Agree(s, canon[t], k)
  BY Zenon, LogEntries DEF Backed
<1>2. j \in 1 .. Len(canon[t]) /\ s[j] = canon[t][j]
  <2>1. Len(canon[t]) \in Nat
    BY Zenon, <1>1, LogEntries DEF Canons
  <2>2. QED
    BY <1>1, <2>1 DEF Agree
<1>3. canon[t][j].Term \in 1 .. t
  BY Zenon, <1>1, <1>2 DEF Consistent
<1>4. QED
  BY <1>1, <1>2, <1>3

\* Calls and answers are never taken back.
LEMMA AcksGrow ==
  ASSUME aeArgs \subseteq aeArgs', aeReplies \subseteq aeReplies', NEW t, NEW k
  PROVE  /\ \A v : Acked(v, t, k) => Acked(v, t, k)'
         /\ Chosen(t, k) => Chosen(t, k)' /\ (Elected(t) => Elected(t)')
<1>1. \A v : Acked(v, t, k) => Acked(v, t, k)'
  BY Zenon DEF Acked
<1>2. QED
  BY Zenon, <1>1 DEF Chosen, Elected

\* When only peers that have not passed term t become part of a majority for it, no entry
\* begins to be choosable.
LEMMA ChoosableBefore ==
  ASSUME TypeOK, TypeOK', NEW t \in Nat, NEW k, Choosable(t, k)',
         \A v \in Server : currentTerm'[v] >= currentTerm[v],
         \A v \in Server : Acked(v, t, k)' => Acked(v, t, k) \/ currentTerm[v] <= t
  PROVE  Choosable(t, k)
<1>1. PICK A \in SUBSET Server : /\ Majority(Cardinality(A))
                                 /\ \A v \in A : currentTerm'[v] <= t \/ Acked(v, t, k)'
  BY Zenon DEF Choosable
<1>2. \A v \in Server : currentTerm[v] \in Nat /\ currentTerm'[v] \in Nat
  BY Zenon DEF TypeOK
<1>3. \A v \in A : currentTerm[v] <= t \/ Acked(v, t, k)
  BY <1>1, <1>2
<1>4. QED
  BY Zenon, <1>1, <1>3 DEF Choosable

\* A log that takes entries of a later leader keeps what may be chosen.
LEMMA SpliceKeeps ==
  ASSUME NEW canon \in Canons, LaterLeadersHave(canon), NEW t \in Nat, NEW k \in Nat, NEW n \in Nat, n <= k,
         Own(canon, t, k), Choosable(t, k), NEW u \in Nat, u >= t, Elected(u),
         NEW log, NEW new, Agree(log, canon[t], n), Spliced(log, canon[u], new)
  PROVE  Agree(new, canon[t], n)
<1>1. Len(canon[t]) \in Nat /\ Len(canon[u]) \in Nat
  BY Zenon, LogEntries DEF Canons
<1>2. Agree(canon[u], canon[t], k)
  <2>1. CASE u > t
    BY Zenon, <2>1 DEF LaterLeadersHave
  <2>2. CASE u = t
    BY Zenon, <1>1, <2>2 DEF Own, Agree
  <2>3. QED
    BY <2>1, <2>2
<1>3. Agree(canon[u], canon[t], n)
  BY Zenon, <1>1, <1>2, AgreeDown
<1>4. Agree(log, canon[u], n)
  BY Zenon, <1>3, AgreeSym, AgreeTrans
<1>5. Agree(new, canon[u], n)
  BY Zenon, <1>4 DEF Spliced
<1>6. QED
  BY Zenon, <1>3, <1>5, AgreeTrans

-----------------------------------------------------------------------------
(* Votes *)

\* The log comparison of handleRequestVote: a voter that stores an entry that may be chosen
\* finds only candidates that have it up to date.
LEMMA UpToDateHolds ==
  ASSUME TypeOK, NoSnapshots, NEW canon \in Canons, LogInvOf(canon), LaterLeadersHave(canon),
         NEW t \in Nat, NEW k \in Nat, Own(canon, t, k), Choosable(t, k),
         NEW v \in Server, NEW c \in Server, NEW m \in rvArgs, UpToDate(v, m),
         Agree(logs[v], canon[t], k),
         /\ m.LastLogIndex = Len(logs[c])
         /\ logs[c] # <<>> => m.LastLogTerm = logs[c][Len(logs[c])].Term
         /\ logs[c] = <<>> => m.LastLogTerm <= 0
  PROVE  Agree(logs[c], canon[t], k)
<1> DEFINE l == Len(logs[c])
           w == Len(logs[v])
           T == m.LastLogTerm
<1>1. /\ logs[c] \in Seq(Entry) /\ l \in Nat /\ logs[v] \in Seq(Entry) /\ w \in Nat
      /\ LastLogIndex(v) = w /\ (w > 0 => LastLogTerm(v) = logs[v][w].Term)
  BY Zenon, LogNumbered
<1>2. Consistent(canon) /\ Backed(logs[v], canon) /\ Backed(logs[c], canon)
  BY Zenon DEF LogInvOf, LogsBacked
<1>3. k >= 1 /\ k <= Len(canon[t]) /\ canon[t][k].Term = t /\ Len(canon[t]) \in Nat /\ canon[t] \in Seq(Entry)
  BY Zenon, LogEntries DEF Own, Canons
<1>4. k <= w /\ logs[v][k].Term = t
  BY <1>1, <1>3 DEF Agree
<1>5. t <= logs[v][w].Term /\ LastLogTerm(v) = logs[v][w].Term /\ logs[v][w].Term \in Nat
  <2>1. k \in 1 .. w /\ w \in 1 .. w
    BY <1>1, <1>3, <1>4
  <2>2. logs[v][k].Term <= logs[v][w].Term
    BY <1>1, <1>2, <2>1, TermsRise
  <2>3. QED
    BY <1>1, <1>4, <2>1, <2>2, LogEntries
<1>6. t \in 1 .. t
  BY <1>3 DEF LogInvOf, Consistent
<1>7. T \in Int
  BY Zenon DEF TypeOK, RequestVoteArgs
<1>8. T > LastLogTerm(v) \/ (T = LastLogTerm(v) /\ l >= w)
  BY Zenon, <1>1 DEF UpToDate
<1>9. T >= t /\ T >= 1
  BY <1>5, <1>6, <1>7, <1>8
<1>10. logs[c] # <<>> /\ T = logs[c][l].Term
  BY <1>7, <1>9
<1>11. l \in 1 .. l /\ T \in Nat
  BY <1>1, <1>7, <1>9, <1>10, EmptySeq
<1>12. Agree(logs[c], canon[T], l) /\ canon[T] \in Seq(Entry) /\ Len(canon[T]) \in Nat
  BY Zenon, <1>2, <1>10, <1>11, LogEntries DEF Backed, Canons
<1>13. CASE T = t
  <2>1. k <= l
    BY <1>1, <1>4, <1>5, <1>8, <1>13
  <2>2. QED
    BY Zenon, <1>1, <1>3, <1>12, <1>13, <2>1, AgreeDown
<1>14. CASE T > t
  <2>1. canon[T] # <<>>
    BY <1>11, <1>12, EmptySeq DEF Agree
  <2>2. Elected(T)
    BY Zenon, <1>11, <2>1 DEF LogInvOf
  <2>3. Agree(canon[T], canon[t], k)
    BY Zenon, <1>11, <1>14, <2>2 DEF LaterLeadersHave
  <2>4. k <= l
    <3> SUFFICES ASSUME l < k PROVE FALSE
      BY <1>1
    <3>1. l \in 1 .. Len(canon[T]) /\ k \in 1 .. Len(canon[T]) /\ l <= k
      BY <1>1, <1>3, <1>11, <1>12, <2>3 DEF Agree
    <3>2. Backed(canon[T], canon)
      BY Zenon, <1>2, <1>11 DEF Consistent
    <3>3. canon[T][l].Term <= canon[T][k].Term
      BY Zenon, <1>2, <1>12, <3>1, <3>2, TermsRise
    <3>4. canon[T][k].Term = t
      BY <1>3, <2>3 DEF Agree
    <3>5. canon[T][l].Term = T
      BY Zenon, <1>10, <1>11, <1>12 DEF Agree
    <3>6. QED
      BY <1>7, <1>14, <3>3, <3>4, <3>5
  <2>5. QED
    BY Zenon, <1>1, <1>12, <2>3, <2>4, AgreeDown, AgreeTrans
<1>15. QED
  BY <1>7, <1>9, <1>13, <1>14

\* Votes are cast by candidates for themselves and on up-to-date calls, and calls describe
\* the caller's log.
VotingStep ==
  /\ \A b \in ballots' \ ballots :
       b.voter = b.candidate \/ \E m \in rvArgs : b = Vote(m.dst, m.Term, m.src) /\ UpToDate(m.dst, m)
  /\ \A m \in rvArgs' \ rvArgs :
       m.LastLogIndex = LastLogIndex(m.src) /\ m.LastLogTerm = LastLogTerm(m.src)

\* Every step is one.
LEMMA NextVoting ==
  ASSUME ElectionInv, [Next]_vars
  PROVE  VotingStep
<1>1. TypeOK
  BY Zenon DEF ElectionInv
<1>2. NoVote => VotingStep
  BY Zenon DEF NoVote, VotingStep
<1>3. CASE UNCHANGED vars
  <2>1. UNCHANGED <<ballots, rvArgs>>
    BY Zenon, <1>3 DEF vars, electionVars, voteNet
  <2>2. QED
    BY Zenon, <2>1 DEF VotingStep
<1>4. ASSUME NEW i \in Server, Timer(i) \/ ReceiveSnapshotRequest(i) \/ Restart(i) PROVE VotingStep
  <2>1. CASE startElection(i)
    <3>1. \A b \in ballots' \ ballots : b.voter = b.candidate
      BY <2>1 DEF startElection
    <3>2. \A m \in rvArgs' \ rvArgs :
            m.LastLogIndex = LastLogIndex(m.src) /\ m.LastLogTerm = LastLogTerm(m.src)
      BY <2>1 DEF startElection
    <3>3. QED
      BY Zenon, <3>1, <3>2 DEF VotingStep
  <2>2. CASE sendHeartBeat(i) \/ broadcastAppendEntries(i) \/ applyToClient(i)
    BY Zenon, <1>2, <2>2, TimerSteps
  <2>3. CASE ReceiveSnapshotRequest(i)
    BY Zenon, <1>2, <2>3, TimerSteps DEF ReceiveSnapshotRequest
  <2>4. CASE Restart(i)
    BY Zenon, <1>2, <2>4, CrashSteps
  <2>5. QED
    BY Zenon, <1>4, <2>1, <2>2, <2>3, <2>4 DEF Timer
<1>5. ASSUME NEW i \in Server, NEW c \in Command, handleCommand(i, c) PROVE VotingStep
  BY Zenon, <1>2, <1>5, TimerSteps
<1>6. ASSUME NEW m \in rvArgs, ReceiveVoteRequest(m) PROVE VotingStep
  <2>1. m.dst \in Server
    BY Zenon, <1>1, VoteFields
  <2>2. CASE DeclineVote(m.dst, m) \/ RefuseVote(m.dst, m)
    BY Zenon, <1>2, <2>1, <2>2, NoGrantSteps
  <2>3. CASE GrantVote(m.dst, m)
    <3>1. UpToDate(m.dst, m) /\ rvArgs' \subseteq rvArgs
      BY Zenon, <2>3 DEF GrantVote, ReplyVote
    <3>2. \A b \in ballots' \ ballots : b = Vote(m.dst, m.Term, m.src)
      BY Zenon, <2>3 DEF GrantVote, Vote
    <3>3. QED
      BY Zenon, <3>1, <3>2 DEF VotingStep
  <2>4. CASE CrashAfterTerm(m.dst, m)
    BY Zenon, <1>2, <2>1, <2>4, CrashSteps
  <2>5. QED
    BY Zenon, <1>6, <2>2, <2>3, <2>4 DEF ReceiveVoteRequest
<1>7. ASSUME NEW m \in rvReplies, ReceiveVote(m) PROVE VotingStep
  <2>1. m.dst \in Server
    BY Zenon, <1>1, TypeGroups DEF VoteTypes, RequestVoteReply
  <2>2. CASE VoteOfHigherTerm(m.dst, m)
    BY Zenon, <1>2, <2>1, <2>2, ReplySteps
  <2>3. CASE CountVote(m.dst, m)
    <3>1. UNCHANGED <<ballots, rvArgs>>
      BY Zenon, <2>3 DEF CountVote
    <3>2. QED
      BY Zenon, <3>1 DEF VotingStep
  <2>4. QED
    BY Zenon, <1>7, <2>2, <2>3 DEF ReceiveVote
<1>8. ASSUME NEW m \in aeArgs, ReceiveAppend(m) PROVE VotingStep
  <2>1. m.dst \in Server
    BY Zenon, <1>1, AppendFields
  <2>2. CASE RefuseStaleAppend(m.dst, m) \/ RejectAppend(m.dst, m) \/ AcceptAppend(m.dst, m)
    BY Zenon, <1>2, <2>1, <2>2, AppendSteps
  <2>3. CASE CrashAfterTerm(m.dst, m) \/ \E n \in 0 .. Len(m.Entries) : CrashInAppend(m.dst, m, n)
    BY Zenon, <1>2, <2>1, <2>3, CrashSteps
  <2>4. QED
    BY Zenon, <1>8, <2>2, <2>3 DEF ReceiveAppend
<1>9. ASSUME NEW m \in aeReplies, ReceiveAppendReply(m) PROVE VotingStep
  BY Zenon, <1>1, <1>2, <1>9, AppendReplyFields, ReplySteps DEF ReceiveAppendReply
<1>10. ASSUME NEW m \in isArgs, ReceiveInstall(m) PROVE VotingStep
  <2>1. m.dst \in Server
    BY Zenon, <1>1, InstallFields
  <2>2. CASE RefuseInstall(m.dst, m) \/ ReceiveNilSnapshot(m.dst, m) \/ InstallSnapshot(m.dst, m)
    BY Zenon, <1>2, <2>1, <2>2, InstallSteps
  <2>3. CASE CrashAfterTerm(m.dst, m)
    BY Zenon, <1>2, <2>1, <2>3, CrashSteps
  <2>4. QED
    BY Zenon, <1>10, <2>2, <2>3 DEF ReceiveInstall
<1>11. ASSUME NEW m \in isReplies, InstallReplyOfHigherTerm(m.dst, m) PROVE VotingStep
  <2>1. m.dst \in Server
    BY Zenon, <1>1, TypeGroups DEF InstallTypes, InstallSnapshotReply
  <2>2. QED
    BY Zenon, <1>2, <1>11, <2>1, ReplySteps
<1>12. QED
  BY Zenon, <1>3, <1>4, <1>5, <1>6, <1>7, <1>8, <1>9, <1>10, <1>11 DEF Next

-----------------------------------------------------------------------------
(* Steps in which no leader's log grows *)

\* A peer that stores entries of a term in this step holds them and is in that term.
LEMMA SteadyAcks ==
  ASSUME ElectionInv, TypeOK', NEW canon \in Canons, LogInvOf(canon), SteadyStep(canon),
         NEW v \in Server, NEW t \in Nat, NEW k \in Nat, Acked(v, t, k)', ~Acked(v, t, k)
  PROVE  currentTerm'[v] = t /\ currentTerm[v] <= t /\ Agree(logs'[v], canon[t], k)
<1>1. currentTerm[v] \in Nat /\ currentTerm'[v] \in Nat /\ currentTerm'[v] >= currentTerm[v]
  BY Zenon DEF ElectionInv, TypeOK, SteadyStep, TermStep
<1>2. ASSUME NEW m \in aeArgs', m.src = v, m.Term = t PROVE FALSE
  <2>1. m \notin aeArgs
    BY Zenon, <1>2 DEF Acked
  <2>2. status[v] = "LEADER" /\ currentTerm[v] = t
    BY Zenon, <1>2, <2>1 DEF SteadyStep
  <2>3. \E n \in aeArgs : n.src = v /\ n.Term = t
    BY Zenon, <2>2 DEF LogInvOf, LeadersHold
  <2>4. QED
    BY Zenon, <2>3 DEF Acked
<1>3. PICK r \in aeReplies' : r.Success /\ r.src = v /\ r.reqTerm = t /\ r.PrevLogIndex + r.NumEntries >= k
  BY Zenon, <1>2 DEF Acked
<1>4. r \notin aeReplies
  BY Zenon, <1>3 DEF Acked
<1>5. currentTerm'[v] = t /\ Agree(logs'[v], canon[t], r.PrevLogIndex + r.NumEntries)
  BY Zenon, <1>3, <1>4 DEF SteadyStep
<1>6. r.PrevLogIndex + r.NumEntries \in Nat
  <2>1. aeReplies' \subseteq AppendEntriesReply
    BY Zenon DEF TypeOK
  <2>2. QED
    BY <2>1 DEF AppendEntriesReply
<1>7. Len(logs'[v]) \in Nat /\ Len(canon[t]) \in Nat
  BY Zenon, LogEntries DEF TypeOK, Canons
<1>8. QED
  BY Zenon, <1>1, <1>3, <1>5, <1>6, <1>7, AgreeDown

LEMMA SteadyChoosable ==
  ASSUME ElectionInv, TypeOK', NEW canon \in Canons, LogInvOf(canon), SteadyStep(canon),
         NEW t \in Nat, NEW k \in Nat, Choosable(t, k)'
  PROVE  Choosable(t, k)
<1>1. TypeOK /\ \A v \in Server : currentTerm'[v] >= currentTerm[v]
  BY Zenon DEF ElectionInv, SteadyStep, TermStep
<1>2. \A v \in Server : Acked(v, t, k)' => Acked(v, t, k) \/ currentTerm[v] <= t
  BY Zenon, SteadyAcks
<1>3. QED
  BY Zenon, <1>1, <1>2, ChoosableBefore

LEMMA SteadyChosen ==
  ASSUME ElectionInv, ElectionInv', NoSnapshots, NEW canon \in Canons, LogInvOf(canon), ChosenInvOf(canon),
         SteadyStep(canon), VotingStep
  PROVE  /\ LaterLeadersHave(canon)' /\ AckedIsKept(canon)' /\ VotersChoseHolders(canon)'
         /\ VoteCallsDescribe'
<1>1. /\ TypeOK /\ TypeOK'
      /\ \A j \in Server : /\ currentTerm[j] \in Nat /\ currentTerm'[j] \in Nat
                            /\ currentTerm'[j] >= currentTerm[j] /\ TermStep(j)
  BY Zenon DEF ElectionInv, TypeOK, SteadyStep, TermStep
<1>2. \A t, k \in Nat : Choosable(t, k)' => Choosable(t, k)
  BY Zenon, <1>1, SteadyChoosable
<1>3. LaterLeadersHave(canon)'
  <2> SUFFICES ASSUME NEW t \in Nat, NEW k \in Nat, NEW u \in Nat, Own(canon, t, k), Choosable(t, k)',
                      u > t, Elected(u)'
               PROVE  Agree(canon[u], canon[t], k)
    BY Zenon DEF LaterLeadersHave
  <2>1. Elected(u)
    <3>1. PICK m \in aeArgs' : m.Term = u
      BY Zenon DEF Elected
    <3>2. CASE m \in aeArgs
      BY Zenon, <3>1, <3>2 DEF Elected
    <3>3. CASE m \notin aeArgs
      <4>1. m.src \in Server
        BY Zenon, <1>1 DEF TypeOK, AppendEntriesArgs
      <4>2. status[m.src] = "LEADER" /\ u = currentTerm[m.src]
        BY Zenon, <3>1, <3>3 DEF SteadyStep
      <4>3. QED
        BY Zenon, <4>1, <4>2 DEF LogInvOf, LeadersHold, Elected
    <3>4. QED
      BY Zenon, <3>2, <3>3
  <2>2. QED
    BY Zenon, <1>2, <2>1 DEF ChosenInvOf, LaterLeadersHave
<1>4. AckedIsKept(canon)'
  <2> SUFFICES ASSUME NEW t \in Nat, NEW k \in Nat, NEW v \in Server, Own(canon, t, k), Choosable(t, k)',
                      Acked(v, t, k)'
               PROVE  Agree(logs'[v], canon[t], k)
    BY Zenon DEF AckedIsKept
  <2>1. CASE Acked(v, t, k)
    <3>1. Agree(logs[v], canon[t], k) /\ Choosable(t, k)
      BY Zenon, <1>2, <2>1 DEF ChosenInvOf, AckedIsKept
    <3>2. t <= currentTerm[v]
      BY Zenon, <2>1, AckedTerm
    <3>3. CASE Elected(currentTerm'[v]) /\ Spliced(logs[v], canon[currentTerm'[v]], logs'[v])
      <4>1. currentTerm'[v] \in Nat /\ currentTerm'[v] >= t /\ k <= k
        BY <1>1, <3>2
      <4>2. LaterLeadersHave(canon)
        BY Zenon DEF ChosenInvOf
      <4>3. QED
        BY Zenon, <3>1, <3>3, <4>1, <4>2, SpliceKeeps
    <3>4. CASE logs'[v] = logs[v]
      BY Zenon, <3>1, <3>4
    <3>5. QED
      BY Zenon, <3>3, <3>4 DEF SteadyStep
  <2>2. CASE ~Acked(v, t, k)
    BY Zenon, <1>1, <2>2, SteadyAcks
  <2>3. QED
    BY Zenon, <2>1, <2>2
<1>5. VotersChoseHolders(canon)'
  <2> SUFFICES ASSUME NEW t \in Nat, NEW k \in Nat, NEW v \in Server, NEW c \in Server,
                      Own(canon, t, k), Choosable(t, k)', Acked(v, t, k)',
                      status'[c] = "CANDIDATE", currentTerm'[c] > t,
                      Vote(v, currentTerm'[c], c) \in ballots'
               PROVE  Agree(logs'[c], canon[t], k)
    BY Zenon DEF VotersChoseHolders, VotersIn, Vote
  <2> DEFINE b == Vote(v, currentTerm'[c], c)
  <2>1. Choosable(t, k)
    BY Zenon, <1>2
  <2>2. /\ logs'[c] = logs[c]
        /\ (status[c] = "CANDIDATE" /\ currentTerm'[c] = currentTerm[c]) \/ currentTerm'[c] > currentTerm[c]
    BY Zenon, <1>1 DEF TermStep
  <2>3. b.voter = v /\ b.term = currentTerm'[c] /\ b.candidate = c
    BY Zenon DEF Vote
  <2>4. Acked(v, t, k)
    <3>1. currentTerm'[c] <= currentTerm'[v]
      BY Zenon, <2>3 DEF ElectionInv, VoteRemembered
    <3>2. QED
      BY <1>1, <3>1, SteadyAcks
  <2>5. CASE b \in ballots
    <3>1. v \in VotersIn(c, currentTerm'[c])
      BY Zenon, <2>5 DEF VotersIn
    <3>2. currentTerm'[c] <= currentTerm[c]
      BY Zenon, <3>1, VoterTerm
    <3>3. status[c] = "CANDIDATE" /\ currentTerm'[c] = currentTerm[c]
      BY <1>1, <2>2, <3>2
    <3>4. QED
      BY Zenon, <2>1, <2>2, <2>4, <3>1, <3>3 DEF ChosenInvOf, VotersChoseHolders
  <2>6. CASE v = c
    BY Zenon, <2>1, <2>2, <2>4, <2>6 DEF ChosenInvOf, AckedIsKept
  <2>7. ASSUME NEW m \in rvArgs, b = Vote(m.dst, m.Term, m.src), UpToDate(m.dst, m)
        PROVE  Agree(logs'[c], canon[t], k)
    <3>1. v = m.dst /\ currentTerm'[c] = m.Term /\ c = m.src
      BY Zenon, <2>7 DEF Vote
    <3>2. m.Term <= currentTerm[c]
      BY Zenon, <3>1 DEF ElectionInv, CallUnanswered
    <3>3. status[c] = "CANDIDATE" /\ currentTerm[c] = m.Term
      BY <1>1, <2>2, <3>1, <3>2
    <3>4. /\ m.LastLogIndex = Len(logs[c])
          /\ logs[c] # <<>> => m.LastLogTerm = logs[c][Len(logs[c])].Term
          /\ logs[c] = <<>> => m.LastLogTerm <= 0
      BY Zenon, <3>1, <3>3 DEF ChosenInvOf, VoteCallsDescribe
    <3>5. Agree(logs[v], canon[t], k) /\ LaterLeadersHave(canon)
      BY Zenon, <2>1, <2>4 DEF ChosenInvOf, AckedIsKept
    <3>6. QED
      BY Zenon, <1>1, <2>1, <2>2, <2>7, <3>1, <3>4, <3>5, UpToDateHolds
  <2>8. QED
    BY Zenon, <2>3, <2>5, <2>6, <2>7 DEF VotingStep
<1>6. VoteCallsDescribe'
  <2> SUFFICES ASSUME NEW m \in rvArgs', status'[m.src] = "CANDIDATE", currentTerm'[m.src] = m.Term
               PROVE  /\ m.LastLogIndex = Len(logs'[m.src])
                      /\ logs'[m.src] # <<>> => m.LastLogTerm = logs'[m.src][Len(logs'[m.src])].Term
                      /\ logs'[m.src] = <<>> => m.LastLogTerm <= 0
    BY Zenon DEF VoteCallsDescribe
  <2> DEFINE c == m.src
  <2>1. c \in Server
    BY Zenon, <1>1 DEF TypeOK, RequestVoteArgs
  <2>2. /\ logs'[c] = logs[c]
        /\ (status[c] = "CANDIDATE" /\ currentTerm'[c] = currentTerm[c]) \/ currentTerm'[c] > currentTerm[c]
    BY Zenon, <1>1, <2>1 DEF TermStep
  <2>3. CASE m \in rvArgs
    <3>1. m.Term <= currentTerm[c]
      BY Zenon, <2>3 DEF ElectionInv, CallUnanswered
    <3>2. status[c] = "CANDIDATE" /\ currentTerm[c] = m.Term
      BY <1>1, <2>1, <2>2, <3>1
    <3>3. QED
      BY Zenon, <2>2, <2>3, <3>2 DEF ChosenInvOf, VoteCallsDescribe
  <2>4. CASE m \notin rvArgs
    <3>1. m.LastLogIndex = LastLogIndex(c) /\ m.LastLogTerm = LastLogTerm(c)
      BY Zenon, <2>4 DEF VotingStep
    <3>2. /\ logs[c] \in Seq(Entry) /\ Len(logs[c]) \in Nat /\ LastLogIndex(c) = Len(logs[c])
          /\ Len(logs[c]) > 0 => LastLogTerm(c) = logs[c][Len(logs[c])].Term
          /\ Len(logs[c]) = 0 => LastLogTerm(c) <= 0
      BY Zenon, <1>1, <2>1, LogNumbered
    <3>3. QED
      BY <2>2, <3>1, <3>2, EmptySeq
  <2>5. QED
    BY Zenon, <2>3, <2>4
<1>7. QED
  BY Zenon, <1>3, <1>4, <1>5, <1>6

-----------------------------------------------------------------------------
(* Steps in which the log of a leader begins or grows *)

\* Only the leader's own log and answers change; its new entries are stored by nobody else.
Growth(canon, grown, i, t) ==
  /\ grown[t] = logs'[i] /\ \A u \in Nat : Agree(grown[u], canon[u], Len(canon[u]))
  /\ \A j \in Server : Agree(logs'[j], logs[j], Len(logs[j]))
  /\ \A v \in Server, u, k \in Nat : Acked(v, u, k)' => Acked(v, u, k) \/ (v = i /\ u = t)
  /\ \A v \in Server, k \in Nat : Acked(v, t, k)' /\ k > Len(canon[t]) => v = i
  /\ \A u, k \in Nat : Own(grown, u, k) => Own(canon, u, k) \/ (u = t /\ k > Len(canon[t]))
  /\ \A u, k \in Nat : Choosable(u, k)' => Choosable(u, k)

LEMMA GrowthFacts ==
  ASSUME Background, ElectionInv, ElectionInv', NEW canon \in Canons, LogInvOf(canon),
         NEW i \in Server, NEW t \in Nat, NEW new, GrowStep(i, t, new), GrownLog(new, t, canon),
         NEW grown \in Canons, grown = [canon EXCEPT ![t] = new]
  PROVE  Growth(canon, grown, i, t)
<1>1. /\ TypeOK /\ TypeOK'
      /\ \A j \in Server : currentTerm[j] \in Nat /\ logs[j] \in Seq(Entry) /\ Len(logs[j]) \in Nat
  <2>1. TypeOK /\ TypeOK' /\ \A j \in Server : currentTerm[j] \in Nat /\ logs[j] \in Seq(Entry)
    BY Zenon DEF ElectionInv, TypeOK
  <2>2. QED
    BY Zenon, <2>1, LogEntries
<1>2. /\ \A u \in Nat : Len(canon[u]) \in Nat /\ Len(grown[u]) \in Nat
      /\ grown[t] = new /\ \A u \in Nat \ {t} : grown[u] = canon[u]
  BY Zenon, LogEntries DEF Canons
<1>3. \A u \in Nat : Agree(grown[u], canon[u], Len(canon[u]))
  BY <1>2 DEF GrownLog, Agree
<1>4. \A j \in Server : Agree(logs'[j], logs[j], Len(logs[j]))
  <2> SUFFICES ASSUME NEW j \in Server PROVE Agree(logs'[j], logs[j], Len(logs[j]))
    BY Zenon
  <2>1. CASE logs'[j] = logs[j]
    BY <1>1, <2>1 DEF Agree
  <2>2. CASE j = i /\ status[i] = "LEADER"
    <3>1. logs[i] = canon[t]
      BY Zenon, <2>2 DEF LogInvOf, LeadersHold, GrowStep
    <3>2. QED
      BY Zenon, <1>2, <1>3, <2>2, <3>1 DEF GrowStep
  <2>3. QED
    BY Zenon, <2>1, <2>2 DEF GrowStep
<1>5. \A v \in Server, u, k \in Nat : Acked(v, u, k)' => Acked(v, u, k) \/ (v = i /\ u = t)
  <2>1. aeReplies' = aeReplies /\ \A m \in aeArgs' \ aeArgs : m.src = i /\ m.Term = t
    BY Zenon DEF GrowStep
  <2>2. QED
    BY Zenon, <2>1 DEF Acked
<1>6. ASSUME NEW v \in Server, NEW k \in Nat, Acked(v, t, k)', k > Len(canon[t])
      PROVE  v = i
  <2>1. ASSUME NEW r \in aeReplies', r.Success, r.reqTerm = t, r.PrevLogIndex + r.NumEntries >= k
        PROVE  FALSE
    <3>1. r \in aeReplies /\ r.PrevLogIndex + r.NumEntries \in Nat
      <4>1. r \in aeReplies /\ aeReplies \subseteq AppendEntriesReply
        BY Zenon, <1>1 DEF GrowStep, TypeOK
      <4>2. QED
        BY <4>1 DEF AppendEntriesReply
    <3>2. r.PrevLogIndex + r.NumEntries <= Len(canon[t])
      BY Zenon, <2>1, <3>1 DEF LogInvOf, RepliesKept
    <3>3. QED
      BY <1>2, <1>6, <2>1, <3>1, <3>2
  <2>2. PICK m \in aeArgs' : m.src = v /\ m.Term = t
    BY Zenon, <1>6, <2>1 DEF Acked
  <2>3. CASE m \notin aeArgs
    BY Zenon, <2>2, <2>3 DEF GrowStep
  <2>4. CASE m \in aeArgs
    <3>1. Majority(Cardinality(VotersIn(v, t)))
      BY Zenon, <2>2, <2>4 DEF LogInvOf, CallsFromLeaders
    <3>2. Majority(Cardinality(Voters(i)')) /\ Voters(i)' = VotersIn(i, t)
      BY Zenon DEF GrowStep, ElectionInv, LeaderElected, Voters, VotersIn, Vote
    <3>3. QED
      BY Zenon, <3>1, <3>2, OneCaller
  <2>5. QED
    BY Zenon, <2>3, <2>4
<1>7. ASSUME NEW u \in Nat, NEW k \in Nat, Own(grown, u, k), ~Own(canon, u, k)
      PROVE  u = t /\ k > Len(canon[t])
  <2>1. k <= Len(canon[u]) => grown[u][k] = canon[u][k]
    BY <1>2, <1>3, <1>7 DEF Own, Agree
  <2>2. k > Len(canon[u])
    BY <1>2, <1>7, <2>1 DEF Own
  <2>3. QED
    BY Zenon, <1>2, <1>7, <2>2 DEF Own
<1>8. ASSUME NEW u \in Nat, NEW k \in Nat, Choosable(u, k)' PROVE Choosable(u, k)
  <2>1. currentTerm' = currentTerm /\ currentTerm[i] = t
    BY Zenon DEF GrowStep
  <2>2. \A v \in Server : Acked(v, u, k)' => Acked(v, u, k) \/ currentTerm[v] <= u
    BY <1>1, <1>5, <2>1
  <2>3. \A v \in Server : currentTerm'[v] >= currentTerm[v]
    BY <1>1, <2>1
  <2>4. QED
    BY Zenon, <1>1, <1>8, <2>2, <2>3, ChoosableBefore
<1>9. grown[t] = logs'[i]
  BY Zenon, <1>2 DEF GrowStep
<1>10. QED
  BY Zenon, <1>3, <1>4, <1>5, <1>6, <1>7, <1>8, <1>9 DEF Growth

\* The winner of an election has what may have been chosen before: a majority voted for it,
\* and one of that majority stored the entry.
LEMMA WinnerHolds ==
  ASSUME Background, ElectionInv, NEW canon \in Canons, VotersChoseHolders(canon), NEW t \in Nat, NEW k \in Nat,
         Own(canon, t, k), Choosable(t, k), NEW i \in Server, currentTerm[i] > t, status[i] = "CANDIDATE",
         Majority(Cardinality(VotersIn(i, currentTerm[i])))
  PROVE  Agree(logs[i], canon[t], k)
<1>1. PICK A \in SUBSET Server : /\ Majority(Cardinality(A))
                                 /\ \A v \in A : currentTerm[v] <= t \/ Acked(v, t, k)
  BY Zenon DEF Choosable
<1>2. VotersIn(i, currentTerm[i]) \in SUBSET Server
  BY Zenon DEF VotersIn
<1>3. A \cap VotersIn(i, currentTerm[i]) # {}
  BY Zenon, <1>1, <1>2, MajoritiesMeet
<1>4. PICK v \in Server : v \in A /\ v \in VotersIn(i, currentTerm[i])
  BY Zenon, <1>2, <1>3
<1>5. currentTerm[i] <= currentTerm[v] /\ currentTerm[i] \in Nat /\ currentTerm[v] \in Nat
  BY Zenon, <1>4, VoterTerm DEF ElectionInv, TypeOK
<1>6. Acked(v, t, k)
  BY <1>1, <1>4, <1>5
<1>7. QED
  BY Zenon, <1>4, <1>6 DEF VotersChoseHolders

\* An entry that only the leader stores is not choosable once a later leader was elected.
LEMMA FreshNotChosen ==
  ASSUME Background, ElectionInv, NEW canon \in Canons, LogInvOf(canon), NEW i \in Server, NEW k \in Nat, NEW u \in Nat,
         Elected(u), u > currentTerm[i], \A v \in Server : Acked(v, currentTerm[i], k) => v = i
  PROVE  ~Choosable(currentTerm[i], k)
<1> DEFINE t == currentTerm[i]
<1> SUFFICES ASSUME Choosable(t, k) PROVE FALSE
  BY Zenon
<1>1. PICK A \in SUBSET Server : /\ Majority(Cardinality(A))
                                 /\ \A v \in A : currentTerm[v] <= t \/ Acked(v, t, k)
  BY Zenon DEF Choosable
<1>2. PICK m \in aeArgs : m.Term = u
  BY Zenon DEF Elected
<1>3. m.src \in Server /\ Majority(Cardinality(VotersIn(m.src, u))) /\ VotersIn(m.src, u) \in SUBSET Server
  BY Zenon, <1>2, AppendFields DEF LogInvOf, CallsFromLeaders, ElectionInv, VotersIn
<1>4. A \cap VotersIn(m.src, u) # {}
  BY Zenon, <1>1, <1>3, MajoritiesMeet
<1>5. PICK v \in Server : v \in A /\ v \in VotersIn(m.src, u)
  BY Zenon, <1>3, <1>4
<1>6. u <= currentTerm[v] /\ currentTerm[v] \in Nat /\ t \in Nat
  BY Zenon, <1>3, <1>5, VoterTerm DEF ElectionInv, TypeOK
<1>7. v = i
  BY <1>1, <1>5, <1>6
<1>8. QED
  BY <1>6, <1>7

LEMMA GrowChosen ==
  ASSUME Background, ElectionInv, ElectionInv', NoSnapshots, NEW canon \in Canons, LogInvOf(canon), ChosenInvOf(canon), VotingStep,
         NEW i \in Server, NEW t \in Nat, NEW new, GrowStep(i, t, new), GrownLog(new, t, canon),
         NEW grown \in Canons, grown = [canon EXCEPT ![t] = new]
  PROVE  /\ LaterLeadersHave(grown)' /\ AckedIsKept(grown)' /\ VotersChoseHolders(grown)'
         /\ VoteCallsDescribe'
<1>1. /\ grown[t] = new /\ \A u \in Nat : Agree(grown[u], canon[u], Len(canon[u]))
      /\ \A j \in Server : Agree(logs'[j], logs[j], Len(logs[j]))
      /\ \A v \in Server, u, k \in Nat : Acked(v, u, k)' => Acked(v, u, k) \/ (v = i /\ u = t)
      /\ \A v \in Server, k \in Nat : Acked(v, t, k)' /\ k > Len(canon[t]) => v = i
      /\ \A u, k \in Nat : Own(grown, u, k) => Own(canon, u, k) \/ (u = t /\ k > Len(canon[t]))
      /\ \A u, k \in Nat : Choosable(u, k)' => Choosable(u, k)
  <2>1. Growth(canon, grown, i, t) /\ logs'[i] = new
    BY Zenon, GrowthFacts DEF GrowStep
  <2>2. QED
    BY Zenon, <2>1 DEF Growth
<1>2. /\ TypeOK /\ TypeOK' /\ \A j \in Server : currentTerm[j] \in Nat
      /\ \A j \in Server : Len(logs[j]) \in Nat /\ Len(logs'[j]) \in Nat
      /\ \A u \in Nat : Len(canon[u]) \in Nat /\ Len(grown[u]) \in Nat
  <2>1. TypeOK /\ TypeOK' /\ \A j \in Server : /\ currentTerm[j] \in Nat
                                               /\ logs[j] \in Seq(Entry) /\ logs'[j] \in Seq(Entry)
    BY Zenon DEF ElectionInv, TypeOK
  <2>2. QED
    BY Zenon, <2>1, LogEntries DEF Canons
<1>3. /\ LaterLeadersHave(canon) /\ AckedIsKept(canon) /\ VotersChoseHolders(canon) /\ VoteCallsDescribe
  BY Zenon DEF ChosenInvOf
<1>4. /\ currentTerm' = currentTerm /\ currentTerm[i] = t /\ ballots' = ballots /\ logs'[i] = new
      /\ status'[i] = "LEADER" /\ \A j \in Server \ {i} : status'[j] = status[j] /\ logs'[j] = logs[j]
      /\ aeArgs \subseteq aeArgs' /\ aeReplies \subseteq aeReplies'
      /\ \A m \in aeArgs' \ aeArgs : m.src = i /\ m.Term = t
      /\ status[i] = "LEADER" \/ (status[i] = "CANDIDATE" /\ new = logs[i])
  BY Zenon DEF GrowStep
<1>5. \A v : \A u, k \in Nat : Acked(v, u, k) => Acked(v, u, k)'
  BY Zenon, <1>4, AcksGrow
\* What agreed before agrees after.
<1>6. ASSUME NEW u \in Nat, NEW k \in Nat, NEW s, NEW r, Agree(s, canon[u], k), Agree(r, s, Len(s)), Len(s) \in Nat
      PROVE  Agree(r, grown[u], k)
  <2>1. Agree(canon[u], grown[u], k)
    BY <1>1, <1>2, <1>6 DEF Agree
  <2>2. Agree(r, s, k)
    BY <1>6 DEF Agree
  <2>3. QED
    BY Zenon, <1>6, <2>1, <2>2, AgreeTrans
<1>7. LaterLeadersHave(grown)'
  <2> SUFFICES ASSUME NEW s \in Nat, NEW k \in Nat, NEW u \in Nat, Own(grown, s, k), Choosable(s, k)',
                      u > s, Elected(u)'
               PROVE  Agree(grown[u], grown[s], k)
    BY Zenon DEF LaterLeadersHave
  <2>1. Choosable(s, k)
    BY Zenon, <1>1
  <2>2. Elected(u) \/ (u = t /\ status[i] = "CANDIDATE" /\ new = logs[i])
    <3>1. Elected(u) \/ u = t
      BY Zenon, <1>4 DEF Elected
    <3>2. status[i] = "LEADER" => Elected(t)
      BY Zenon, <1>4 DEF LogInvOf, LeadersHold, Elected
    <3>3. QED
      BY Zenon, <1>4, <3>1, <3>2
  <2>3. CASE Own(canon, s, k)
    <3>1. CASE Elected(u)
      BY Zenon, <1>1, <1>2, <1>3, <1>6, <2>1, <2>3, <3>1 DEF LaterLeadersHave
    <3>2. CASE u = t /\ status[i] = "CANDIDATE" /\ new = logs[i]
      <4>1. Majority(Cardinality(Voters(i)')) /\ Voters(i)' = VotersIn(i, currentTerm[i])
        BY Zenon, <1>4 DEF ElectionInv, LeaderElected, Voters, VotersIn, Vote
      <4>2. Agree(logs[i], canon[s], k)
        BY Zenon, <1>3, <1>4, <2>1, <2>3, <3>2, <4>1, WinnerHolds
      <4>3. QED
        BY Zenon, <1>1, <1>2, <1>4, <1>6, <3>2, <4>2
    <3>3. QED
      BY Zenon, <2>2, <3>1, <3>2
  <2>4. CASE s = t /\ k > Len(canon[t])
    <3>1. Elected(u)
      BY <2>2, <2>4
    <3>2. \A v \in Server : Acked(v, currentTerm[i], k) => v = i
      BY Zenon, <1>1, <1>4, <1>5, <2>4
    <3>3. QED
      BY Zenon, <1>4, <2>1, <2>4, <3>1, <3>2, FreshNotChosen
  <2>5. QED
    BY Zenon, <1>1, <2>3, <2>4
<1>8. AckedIsKept(grown)'
  <2> SUFFICES ASSUME NEW s \in Nat, NEW k \in Nat, NEW v \in Server, Own(grown, s, k), Choosable(s, k)',
                      Acked(v, s, k)'
               PROVE  Agree(logs'[v], grown[s], k)
    BY Zenon DEF AckedIsKept
  <2>1. CASE v = i /\ s = t
    BY ZenonT(30), <1>1, <1>2, <1>4, <2>1 DEF Own, Agree
  <2>2. CASE Own(canon, s, k) /\ Acked(v, s, k)
    <3>1. Agree(logs[v], canon[s], k)
      BY Zenon, <1>1, <1>3, <2>2 DEF AckedIsKept
    <3>2. QED
      BY Zenon, <1>1, <1>2, <1>6, <3>1
  <2>3. QED
    BY Zenon, <1>1, <2>1, <2>2
<1>9. VotersChoseHolders(grown)'
  <2> SUFFICES ASSUME NEW s \in Nat, NEW k \in Nat, NEW v \in Server, NEW c \in Server,
                      Own(grown, s, k), Choosable(s, k)', Acked(v, s, k)', status'[c] = "CANDIDATE",
                      currentTerm'[c] > s, v \in VotersIn(c, currentTerm[c])'
               PROVE  Agree(logs'[c], grown[s], k)
    BY Zenon DEF VotersChoseHolders
  <2>1. c # i /\ status[c] = "CANDIDATE" /\ currentTerm[c] > s /\ v \in VotersIn(c, currentTerm[c])
    BY Zenon, <1>4 DEF VotersIn, Vote
  <2>2. currentTerm[c] <= currentTerm[v]
    BY Zenon, <2>1, VoterTerm
  <2>3. ~(v = i /\ s = t)
    BY <1>2, <1>4, <2>1, <2>2
  <2>4. Own(canon, s, k) /\ Acked(v, s, k) /\ Choosable(s, k)
    BY Zenon, <1>1, <2>3
  <2>5. Agree(logs[c], canon[s], k)
    BY Zenon, <1>3, <2>1, <2>4 DEF VotersChoseHolders
  <2>6. QED
    BY Zenon, <1>1, <1>2, <1>6, <2>5
<1>10. VoteCallsDescribe'
  <2> SUFFICES ASSUME NEW m \in rvArgs', status'[m.src] = "CANDIDATE", currentTerm'[m.src] = m.Term
               PROVE  /\ m.LastLogIndex = Len(logs'[m.src])
                      /\ logs'[m.src] # <<>> => m.LastLogTerm = logs'[m.src][Len(logs'[m.src])].Term
                      /\ logs'[m.src] = <<>> => m.LastLogTerm <= 0
    BY Zenon DEF VoteCallsDescribe
  <2> DEFINE c == m.src
  <2>1. c \in Server
    BY Zenon, <1>2 DEF TypeOK, RequestVoteArgs
  <2>2. status[c] = "CANDIDATE" /\ logs'[c] = logs[c] /\ currentTerm[c] = m.Term
    BY Zenon, <1>4, <2>1
  <2>3. CASE m \in rvArgs
    BY Zenon, <1>3, <2>2, <2>3 DEF VoteCallsDescribe
  <2>4. CASE m \notin rvArgs
    <3>1. m.LastLogIndex = LastLogIndex(c) /\ m.LastLogTerm = LastLogTerm(c)
      BY Zenon, <2>4 DEF VotingStep
    <3>2. /\ logs[c] \in Seq(Entry) /\ Len(logs[c]) \in Nat /\ LastLogIndex(c) = Len(logs[c])
          /\ Len(logs[c]) > 0 => LastLogTerm(c) = logs[c][Len(logs[c])].Term
          /\ Len(logs[c]) = 0 => LastLogTerm(c) <= 0
      BY Zenon, <1>2, <2>1, LogNumbered
    <3>3. QED
      BY <2>2, <3>1, <3>2, EmptySeq
  <2>5. QED
    BY Zenon, <2>3, <2>4
<1>11. QED
  BY Zenon, <1>7, <1>8, <1>9, <1>10

-----------------------------------------------------------------------------
(* What is committed *)

\* A commit index moves only over entries behind a chosen one, leaders tell their commit
\* index with calls that reach the end of their log, and services are sent committed entries.
CommitStep(canon) ==
  /\ \A j \in Server : \/ commitIndex'[j] <= commitIndex[j]
                       \/ Settled(canon, commitIndex'[j], currentTerm'[j], logs'[j])
  /\ \A m \in aeArgs' \ aeArgs : /\ m.LeaderCommit = commitIndex[m.src]
                                 /\ m.PrevLogIndex + Len(m.Entries) = Len(logs[m.src])
  /\ \A a \in applied' \ applied : \E j \in Server :
       a.Index \in 1 .. commitIndex[j] /\ a = logs[j][a.Index]

\* What is settled stays so when leaders' logs grow and a log still holds it.
LEMMA SettledGrows ==
  ASSUME NEW canon \in Canons, NEW grown \in Canons,
         \A u \in Nat : Agree(grown[u], canon[u], Len(canon[u])),
         aeArgs \subseteq aeArgs', aeReplies \subseteq aeReplies',
         NEW n \in Nat, NEW t, NEW log, NEW new, Settled(canon, n, t, log), Agree(new, log, n)
  PROVE  Settled(grown, n, t, new)'
<1>1. PICK u \in Nat, k \in Nat : Own(canon, u, k) /\ Chosen(u, k) /\ u <= t /\ n <= k /\ Agree(log, canon[u], n)
  BY Zenon DEF Settled
<1>2. Len(canon[u]) \in Nat /\ Len(grown[u]) \in Nat
  BY Zenon, LogEntries DEF Canons
<1>3. Agree(grown[u], canon[u], Len(canon[u]))
  BY Zenon
<1>4. Own(grown, u, k)
  BY <1>1, <1>2, <1>3 DEF Own, Agree
<1>5. Chosen(u, k)'
  BY Zenon, <1>1, AcksGrow
<1>6. Agree(canon[u], grown[u], n)
  BY <1>1, <1>2, <1>3 DEF Agree
<1>7. Agree(new, grown[u], n)
  BY Zenon, <1>1, <1>6, AgreeTrans
<1>8. QED
  BY Zenon, <1>1, <1>4, <1>5, <1>7 DEF Settled

\* The invariant about commit indexes, over a step of either kind.
LEMMA CommitKept ==
  ASSUME TypeOK, TypeOK', NEW canon \in Canons, NEW grown \in Canons, LogInvOf(canon), ChosenInvOf(canon),
         \A u \in Nat : Agree(grown[u], canon[u], Len(canon[u])),
         aeArgs \subseteq aeArgs', aeReplies \subseteq aeReplies', CommitStep(canon),
         \A j \in Server : currentTerm'[j] >= currentTerm[j],
         \A j \in Server : \/ Agree(logs'[j], logs[j], Len(logs[j]))
                           \/ Elected(currentTerm'[j]) /\ Spliced(logs[j], canon[currentTerm'[j]], logs'[j]),
         \A m \in aeArgs' \ aeArgs : /\ m.Term = currentTerm[m.src]
                                     /\ Agree(grown[m.Term], logs[m.src], Len(logs[m.src]))
  PROVE  CommitSettled(grown)' /\ CallsSettled(grown)' /\ AppliedSettled(grown)'
<1>1. \A j \in Server : /\ currentTerm[j] \in Nat /\ currentTerm'[j] \in Nat
                        /\ commitIndex[j] \in Nat /\ commitIndex'[j] \in Nat
                        /\ Len(logs[j]) \in Nat /\ Len(logs'[j]) \in Nat
  <2>1. \A j \in Server : /\ currentTerm[j] \in Nat /\ currentTerm'[j] \in Nat
                          /\ commitIndex[j] \in Nat /\ commitIndex'[j] \in Nat
                          /\ logs[j] \in Seq(Entry) /\ logs'[j] \in Seq(Entry)
    BY Zenon DEF TypeOK
  <2>2. QED
    BY Zenon, <2>1, LogEntries
<1>2. CommitSettled(canon) /\ CallsSettled(canon) /\ AppliedSettled(canon) /\ LaterLeadersHave(canon)
  BY Zenon DEF ChosenInvOf
<1>3. \A u \in Nat : Len(canon[u]) \in Nat /\ Len(grown[u]) \in Nat
  BY Zenon, LogEntries DEF Canons
<1>4. CommitSettled(grown)'
  <2> SUFFICES ASSUME NEW j \in Server, commitIndex'[j] > 0,
                      NEW n \in Nat, n = commitIndex'[j], NEW t \in Nat, t = currentTerm'[j],
                      NEW log, log = logs'[j]
               PROVE  Settled(grown, n, t, log)'
    BY Zenon, <1>1 DEF CommitSettled, Settled
  <2>1. CASE n <= commitIndex[j]
    <3>1. Settled(canon, commitIndex[j], currentTerm[j], logs[j]) /\ commitIndex[j] \in Nat
      BY <1>1, <1>2, <2>1 DEF CommitSettled
    <3>2. PICK u \in Nat, k \in Nat : /\ Own(canon, u, k) /\ Chosen(u, k) /\ u <= currentTerm[j]
                                      /\ commitIndex[j] <= k /\ Agree(logs[j], canon[u], commitIndex[j])
      BY Zenon, <3>1 DEF Settled
    <3>3. u <= t /\ n <= k /\ Choosable(u, k) /\ Agree(logs[j], canon[u], n)
      BY SMTT(30), <1>1, <1>3, <2>1, <3>1, <3>2, AgreeDown, ChosenChoosable
    <3>4. Agree(log, canon[u], n)
      <4>1. CASE Agree(log, logs[j], Len(logs[j]))
        <5>1. Agree(log, logs[j], n)
          BY <1>1, <3>3, <4>1 DEF Agree
        <5>2. QED
          BY Zenon, <3>3, <5>1, AgreeTrans
      <4>2. CASE Elected(t) /\ Spliced(logs[j], canon[t], log)
        BY Zenon, <1>2, <3>2, <3>3, <4>2, SpliceKeeps
      <4>3. QED
        BY Zenon, <4>1, <4>2
    <3>5. Settled(canon, n, t, log) /\ Agree(log, log, n)
      BY Zenon, <3>2, <3>3, <3>4 DEF Settled, Agree
    <3>6. QED
      BY Zenon, <3>5, SettledGrows
  <2>2. CASE Settled(canon, n, t, log)
    <3>1. Agree(log, log, n)
      BY Zenon, <2>2 DEF Settled, Agree
    <3>2. QED
      BY Zenon, <2>2, <3>1, SettledGrows
  <2>3. QED
    BY Zenon, <2>1, <2>2 DEF CommitStep
<1>5. CallsSettled(grown)'
  <2> SUFFICES ASSUME NEW m \in aeArgs', m.LeaderCommit > 0
               PROVE  /\ m.LeaderCommit <= m.PrevLogIndex + Len(m.Entries)
                      /\ Settled(grown, m.LeaderCommit, m.Term, grown[m.Term])'
    BY Zenon DEF CallsSettled
  <2>1. m.src \in Server /\ m.Term \in Nat /\ m.LeaderCommit \in Nat
    <3>1. aeArgs' \subseteq AppendEntriesArgs
      BY Zenon DEF TypeOK
    <3>2. QED
      BY Zenon, <3>1 DEF AppendEntriesArgs
  <2>2. CASE m \in aeArgs
    <3>1. /\ m.LeaderCommit <= m.PrevLogIndex + Len(m.Entries)
          /\ Settled(canon, m.LeaderCommit, m.Term, canon[m.Term])
      BY Zenon, <1>2, <2>2 DEF CallsSettled
    <3>2. Agree(grown[m.Term], canon[m.Term], m.LeaderCommit)
      <4>1. m.LeaderCommit <= Len(canon[m.Term])
        BY Zenon, <3>1 DEF Settled, Agree
      <4>2. Agree(grown[m.Term], canon[m.Term], Len(canon[m.Term]))
        BY Zenon, <2>1
      <4>3. QED
        BY Zenon, <1>3, <2>1, <4>1, <4>2, AgreeDown
    <3>3. QED
      BY Zenon, <2>1, <3>1, <3>2, SettledGrows
  <2>3. CASE m \notin aeArgs
    <3>0. /\ m.LeaderCommit = commitIndex[m.src] /\ m.PrevLogIndex + Len(m.Entries) = Len(logs[m.src])
          /\ m.Term = currentTerm[m.src] /\ Agree(grown[m.Term], logs[m.src], Len(logs[m.src]))
      BY Zenon, <2>3 DEF CommitStep
    <3>1. PICK s : s = logs[m.src]
      BY Zenon
    <3>2. Settled(canon, m.LeaderCommit, m.Term, s)
      BY Zenon, <1>2, <2>1, <3>0, <3>1 DEF CommitSettled
    <3>3. m.LeaderCommit <= Len(s) /\ Len(s) \in Nat
      BY Zenon, <1>1, <2>1, <3>1, <3>2 DEF Settled, Agree
    <3>4. Agree(grown[m.Term], s, m.LeaderCommit)
      BY Zenon, <1>3, <2>1, <3>0, <3>1, <3>3, AgreeDown
    <3>5. QED
      BY Zenon, <2>1, <3>0, <3>1, <3>2, <3>3, <3>4, SettledGrows
  <2>4. QED
    BY Zenon, <2>2, <2>3
<1>6. AppliedSettled(grown)'
  <2> SUFFICES ASSUME NEW a \in applied'
               PROVE  \E u, k \in Nat : /\ Own(grown, u, k) /\ Chosen(u, k)' /\ a.Index \in 1 .. k
                                        /\ a = grown[u][a.Index]
    BY Zenon DEF AppliedSettled
  <2>1. PICK u \in Nat, k \in Nat : Own(canon, u, k) /\ Chosen(u, k) /\ a.Index \in 1 .. k /\ a = canon[u][a.Index]
    <3>1. CASE a \in applied
      BY Zenon, <1>2, <3>1 DEF AppliedSettled
    <3>2. CASE a \notin applied
      <4>1. PICK j \in Server : a.Index \in 1 .. commitIndex[j] /\ a = logs[j][a.Index]
        BY Zenon, <3>2 DEF CommitStep
      <4>2. Settled(canon, commitIndex[j], currentTerm[j], logs[j])
        BY <1>1, <1>2, <4>1 DEF CommitSettled
      <4>3. PICK u \in Nat, k \in Nat : /\ Own(canon, u, k) /\ Chosen(u, k) /\ commitIndex[j] <= k
                                        /\ Agree(logs[j], canon[u], commitIndex[j])
        BY Zenon, <4>2 DEF Settled
      <4>4. a.Index \in 1 .. k /\ a = canon[u][a.Index]
        BY <1>1, <4>1, <4>3 DEF Agree
      <4>5. QED
        BY Zenon, <4>3, <4>4
    <3>3. QED
      BY Zenon, <3>1, <3>2
  <2>2. Agree(grown[u], canon[u], Len(canon[u]))
    BY Zenon
  <2>3. Own(grown, u, k) /\ a = grown[u][a.Index]
    BY SMTT(30), <1>3, <2>1, <2>2 DEF Own, Agree
  <2>4. Chosen(u, k)'
    BY Zenon, <2>1, AcksGrow
  <2>5. QED
    BY Zenon, <2>1, <2>3, <2>4
<1>7. QED
  BY Zenon, <1>4, <1>5, <1>6

\* Handlers that neither commit nor call nor deliver.
CommitIdle == UNCHANGED <<commitIndex, aeArgs, applied, lastApplied, service, panicked>>

\* Crashes: between two handlers, after a new term is stored, or amid the entries of a call.
Crash(i) ==
  \/ Restart(i) \/ \E m : CrashAfterTerm(i, m)
  \/ \E m \in aeArgs : \E n \in 0 .. Len(m.Entries) : CrashInAppend(i, m, n)

\* The steps that bear on what is committed and delivered.
CommitKinds ==
  \/ CommitIdle
  \/ \E i \in Server : \/ sendHeartBeat(i) \/ broadcastAppendEntries(i) \/ \E m : CountVote(i, m)
                      \/ applyToClient(i) \/ Crash(i)
  \/ \E i \in Server, m \in aeReplies : AppendSucceeded(i, m)
  \/ \E i \in Server, m \in aeArgs : AcceptAppend(i, m)

LEMMA NextCommitKinds ==
  ASSUME TypeOK, NoSnapshots, [Next]_vars
  PROVE  CommitKinds
<1>1. CASE UNCHANGED vars
  BY Zenon, <1>1 DEF vars, CommitKinds, CommitIdle, logVars, appendNet, serviceVars
<1>2. ASSUME NEW i \in Server, Timer(i) \/ ReceiveSnapshotRequest(i) \/ Restart(i) PROVE CommitKinds
  <2>1. ~ReceiveSnapshotRequest(i)
    BY Zenon DEF NoSnapshots, ReceiveSnapshotRequest
  <2>2. CASE startElection(i)
    BY Zenon, <2>2 DEF startElection, CommitKinds, CommitIdle, logVars, appendNet, serviceVars
  <2>3. QED
    BY Zenon, <1>2, <2>1, <2>2 DEF Timer, CommitKinds, Crash
<1>3. ASSUME NEW i, NEW c, handleCommand(i, c) PROVE CommitKinds
  BY Zenon, <1>3 DEF handleCommand, CommitKinds, CommitIdle, appendNet, serviceVars
<1>4. ASSUME NEW m \in rvArgs, ReceiveVoteRequest(m) PROVE CommitKinds
  <2>1. m.dst \in Server
    BY Zenon, VoteFields
  <2>2. CASE DeclineVote(m.dst, m) \/ RefuseVote(m.dst, m) \/ GrantVote(m.dst, m)
    BY Zenon, <2>2 DEF DeclineVote, RefuseVote, GrantVote, CastVote, CommitKinds, CommitIdle,
         logVars, appendNet, serviceVars
  <2>3. QED
    BY Zenon, <1>4, <2>1, <2>2 DEF ReceiveVoteRequest, CommitKinds, Crash
<1>5. ASSUME NEW m \in rvReplies, ReceiveVote(m) PROVE CommitKinds
  <2>1. m.dst \in Server
    BY Zenon, TypeGroups DEF VoteTypes, RequestVoteReply
  <2>2. CASE VoteOfHigherTerm(m.dst, m)
    BY Zenon, <2>2 DEF VoteOfHigherTerm, CommitKinds, CommitIdle, logVars, appendNet, serviceVars
  <2>3. QED
    BY Zenon, <1>5, <2>1, <2>2 DEF ReceiveVote, CommitKinds
<1>6. ASSUME NEW m \in aeArgs, ReceiveAppend(m) PROVE CommitKinds
  <2>1. m.dst \in Server
    BY Zenon, AppendFields
  <2>2. CASE RefuseStaleAppend(m.dst, m) \/ RejectAppend(m.dst, m)
    BY Zenon, <2>2 DEF RefuseStaleAppend, RejectAppend, CommitKinds, CommitIdle, logVars, serviceVars
  <2>3. QED
    BY Zenon, <1>6, <2>1, <2>2 DEF ReceiveAppend, CommitKinds, Crash
<1>7. ASSUME NEW m \in aeReplies, ReceiveAppendReply(m) PROVE CommitKinds
  <2>1. m.dst \in Server
    BY Zenon, AppendReplyFields
  <2>2. CASE AppendReplyOfHigherTerm(m.dst, m) \/ AppendFailed(m.dst, m)
    BY Zenon, <2>2 DEF AppendReplyOfHigherTerm, AppendFailed, CommitKinds, CommitIdle, logVars,
         appendNet, serviceVars
  <2>3. QED
    BY Zenon, <1>7, <2>1, <2>2 DEF ReceiveAppendReply, CommitKinds
<1>8. ASSUME NEW m \in isArgs, ReceiveInstall(m) PROVE CommitKinds
  <2>1. m.dst \in Server /\ ~InstallSnapshot(m.dst, m)
    BY Zenon, InstallFields DEF NoSnapshots, InstallSnapshot
  <2>2. CASE RefuseInstall(m.dst, m) \/ ReceiveNilSnapshot(m.dst, m)
    BY Zenon, <2>2 DEF RefuseInstall, ReceiveNilSnapshot, SaveReceived, CommitKinds, CommitIdle,
         logVars, appendNet, serviceVars
  <2>3. QED
    BY Zenon, <1>8, <2>1, <2>2 DEF ReceiveInstall, CommitKinds, Crash
<1>9. ASSUME NEW m \in isReplies, InstallReplyOfHigherTerm(m.dst, m) PROVE CommitKinds
  BY Zenon, <1>9 DEF InstallReplyOfHigherTerm, CommitKinds, CommitIdle, logVars, appendNet, serviceVars
<1>10. QED
  BY Zenon, <1>1, <1>2, <1>3, <1>4, <1>5, <1>6, <1>7, <1>8, <1>9 DEF Next

LEMMA IdleCommits ==
  ASSUME TypeOK, NEW canon, CommitIdle
  PROVE  CommitStep(canon)
<1>1. \A j \in Server : commitIndex[j] \in Nat
  BY Zenon DEF TypeOK
<1>2. QED
  BY <1>1 DEF CommitIdle, CommitStep

\* A restart puts commitIndex back to the snapshot: to 0.
LEMMA BootFresh ==
  ASSUME NoSnapshots, NEW i \in Server, Crash(i)
  PROVE  \E d : Boot(i, d) /\ d.SnapshotIndex = 0 /\ d.Snapshot = <<>>
<1>1. snapshot[i] = <<>> /\ persister[i].SnapshotIndex = 0 /\ persister[i].Snapshot = <<>>
  BY Zenon DEF NoSnapshots
<1>2. ASSUME NEW t, NEW v, NEW log, Boot(i, Persisted(i, t, v, log))
      PROVE  \E d : Boot(i, d) /\ d.SnapshotIndex = 0 /\ d.Snapshot = <<>>
  BY <1>1, <1>2, PlainPersisted
<1>3. CASE Restart(i)
  BY Zenon, <1>1, <1>3 DEF Restart
<1>4. ASSUME NEW m, CrashAfterTerm(i, m) PROVE \E t, v, log : Boot(i, Persisted(i, t, v, log))
  BY Zenon, <1>4 DEF CrashAfterTerm
<1>5. ASSUME NEW m, NEW n, CrashInAppend(i, m, n) PROVE \E t, v, log : Boot(i, Persisted(i, t, v, log))
  BY Zenon, <1>5 DEF CrashInAppend
<1>6. QED
  BY Zenon, <1>2, <1>3, <1>4, <1>5 DEF Crash

LEMMA BootCommits ==
  ASSUME TypeOK, NoSnapshots, NEW canon, NEW i \in Server, Crash(i)
  PROVE  CommitStep(canon)
<1>1. PICK d : Boot(i, d) /\ d.SnapshotIndex = 0
  BY Zenon, BootFresh
<1>2. commitIndex' = [commitIndex EXCEPT ![i] = 0] /\ UNCHANGED <<aeArgs, applied>>
  BY Zenon, <1>1 DEF Boot, appendNet
<1>3. \A j \in Server : commitIndex'[j] <= commitIndex[j]
  BY SMTT(30), <1>2 DEF TypeOK
<1>4. QED
  BY Zenon, <1>2, <1>3 DEF CommitStep

\* Calls tell the sender's commit index and reach the end of its log.
LEMMA SendCommits ==
  ASSUME TypeOK, NoSnapshots, NEW canon \in Canons, LogInvOf(canon), NEW i \in Server,
         sendHeartBeat(i) \/ broadcastAppendEntries(i) \/ \E m : CountVote(i, m)
  PROVE  CommitStep(canon)
<1>1. UNCHANGED <<commitIndex, applied>>
  BY Zenon DEF sendHeartBeat, broadcastAppendEntries, CountVote, logVars, serviceVars
<1>2. ASSUME NEW m \in aeArgs' \ aeArgs
      PROVE  m.LeaderCommit = commitIndex[m.src] /\ m.PrevLogIndex + Len(m.Entries) = Len(logs[m.src])
  <2>1. CASE m \in Heartbeats(i)
    <3>1. PICK j \in Server : m = Heartbeat(i, j, currentTerm[i])
      BY Zenon, <2>1 DEF Heartbeats, Peers
    <3>2. m.src = i /\ m.LeaderCommit = commitIndex[i]
      BY Zenon, <3>1 DEF Heartbeat
    <3>3. QED
      BY <3>1, <3>2, SentCalls
  <2>2. CASE \E j \in Peers(i) : nextIndex[i][j] - snapshotIndex[i] >= 1 /\ m = Broadcast(i, j)
    <3>1. PICK j \in Peers(i) : nextIndex[i][j] - snapshotIndex[i] >= 1 /\ m = Broadcast(i, j)
      BY Zenon, <2>2
    <3>2. j \in Server /\ nextIndex[i][j] >= 1
      <4>1. snapshotIndex[i] = 0 /\ j \in Server
        BY Zenon DEF NoSnapshots, Peers
      <4>2. nextIndex[i][j] \in Nat
        BY Zenon, <4>1 DEF TypeOK
      <4>3. QED
        BY <3>1, <4>1, <4>2
    <3>3. QED
      BY <3>1, <3>2, SentCalls
  <2>3. m \in Heartbeats(i) \/ \E j \in Peers(i) : nextIndex[i][j] - snapshotIndex[i] >= 1 /\ m = Broadcast(i, j)
    <3>1. CASE sendHeartBeat(i)
      BY Zenon, <1>2, <3>1 DEF sendHeartBeat
    <3>2. CASE \E r : CountVote(i, r)
      BY Zenon, <1>2, <3>2 DEF CountVote
    <3>3. CASE broadcastAppendEntries(i)
      BY Zenon, <1>2, <3>3 DEF broadcastAppendEntries
    <3>4. QED
      BY Zenon, <3>1, <3>2, <3>3
  <2>4. QED
    BY Zenon, <2>1, <2>2, <2>3
<1>3. \A j \in Server : commitIndex'[j] <= commitIndex[j]
  BY <1>1 DEF TypeOK
<1>4. QED
  BY Zenon, <1>1, <1>2, <1>3 DEF CommitStep

\* A leader commits an entry of its term that a majority has reported, itself included.
LEMMA SucceededCommits ==
  ASSUME Background, ElectionInv, TypeOK', NoSnapshots, NEW canon \in Canons, LogInvOf(canon),
         NEW i \in Server, NEW m \in aeReplies, AppendSucceeded(i, m)
  PROVE  /\ CommitStep(canon) /\ commitIndex'[i] >= commitIndex[i]
<1> DEFINE last  == m.PrevLogIndex + m.NumEntries
           moved == m.NumEntries # 0 /\ last > matchIndex[i][m.src]
           match == IF moved THEN [matchIndex[i] EXCEPT ![m.src] = last] ELSE matchIndex[i]
           t     == currentTerm[i]
           good  == {n \in Stored(i, match) :
                       n > snapshotIndex[i] /\ logs[i][n - snapshotIndex[i]].Term = t}
<1>1. /\ matchIndex' = [matchIndex EXCEPT ![i] = match]
      /\ commitIndex' = [commitIndex EXCEPT ![i] = updateCommitIndex(i, match)]
      /\ status[i] = "LEADER"
      /\ UNCHANGED <<status, currentTerm, logs, aeArgs, aeReplies, applied>>
  BY Zenon DEF AppendSucceeded, Answers, electionVars, appendNet, serviceVars
<1>2. updateCommitIndex(i, match) = IF good = {} THEN commitIndex[i] ELSE Greatest(good)
  BY Zenon DEF updateCommitIndex
<1>3. /\ TypeOK /\ DOMAIN matchIndex = Server /\ DOMAIN commitIndex = Server /\ t \in Nat
      /\ \A j \in Server : commitIndex[j] \in Nat
  BY Zenon DEF ElectionInv, TypeOK
<1>4. matchIndex'[i] = match /\ \A j \in Server : match[j] \in Nat
  <2>1. matchIndex'[i] = match
    BY Zenon, <1>1, <1>3
  <2>2. \A j \in Server : matchIndex'[i][j] \in Nat
    BY Zenon DEF TypeOK
  <2>3. QED
    BY Zenon, <2>1, <2>2
<1>5. \A j \in Server \ {i} : match[j] > 0 => Reported(i, j, match[j])
  <2>1. LogInvOf(canon)'
    BY Zenon, <1>3, SucceededSteady, SteadyKeeps
  <2>2. \A j \in Server : status'[i] = "LEADER" /\ i # j /\ matchIndex'[i][j] > 0 => Reported(i, j, matchIndex[i][j])'
    BY Zenon, <2>1 DEF LogInvOf, MatchReported
  <2>3. \A j \in Server \ {i} : matchIndex'[i][j] > 0 => Reported(i, j, matchIndex[i][j])'
    BY Zenon, <1>1, <2>2
  <2> HIDE DEF match
  <2>4. QED
    BY <1>1, <1>4, <2>3 DEF Reported
<1>6. LogEnd(i) = Len(logs[i]) /\ snapshotIndex[i] = 0 /\ Len(logs[i]) \in Nat
  BY Zenon, <1>3, LogNumbered
<1>7. logs[i] = canon[t] /\ \E c \in aeArgs : c.src = i /\ c.Term = t
  BY Zenon, <1>1 DEF LogInvOf, LeadersHold
<1>8. \A n \in good : /\ n \in commitIndex[i] + 1 .. Len(logs[i]) /\ logs[i][n].Term = t
                      /\ Majority(1 + Cardinality({j \in Peers(i) : match[j] >= n}))
  <2> SUFFICES ASSUME NEW n \in good
               PROVE  /\ n \in commitIndex[i] + 1 .. Len(logs[i]) /\ logs[i][n].Term = t
                      /\ Majority(1 + Cardinality({j \in Peers(i) : match[j] >= n}))
    BY Zenon
  <2>1. n \in Stored(i, match) /\ logs[i][n - 0].Term = t
    BY Zenon, <1>6
  <2>2. n \in commitIndex[i] + 1 .. Len(logs[i]) /\ Majority(1 + Cardinality({j \in Peers(i) : match[j] >= n}))
    BY Zenon, <1>6, <2>1 DEF Stored
  <2>3. n - 0 = n
    BY <1>3, <1>6, <2>2
  <2>4. QED
    BY Zenon, <2>1, <2>2, <2>3
<1> HIDE DEF match, good, t
<1>9. \A n \in good : n \in Nat /\ n >= 1 /\ n > commitIndex[i] /\ n <= Len(logs[i]) /\ logs[i][n].Term = t
  <2>1. \A n \in good : n \in commitIndex[i] + 1 .. Len(logs[i]) /\ logs[i][n].Term = t
    BY Zenon, <1>8
  <2>2. commitIndex[i] \in Nat
    BY Zenon, <1>3
  <2>3. QED
    BY <1>6, <2>1, <2>2
<1>10. ASSUME NEW n \in good
      PROVE  n > commitIndex[i] /\ Settled(canon, n, t, logs[i])
  <2> DEFINE B == {j \in Peers(i) : match[j] >= n}
             A == B \cup {i}
  <2>1. n \in Nat /\ n >= 1 /\ n > commitIndex[i] /\ n <= Len(logs[i]) /\ logs[i][n].Term = t
    BY Zenon, <1>9
  <2>2. A \in SUBSET Server /\ B \in SUBSET Server /\ i \notin B
    BY Zenon DEF Peers
  <2>3. Cardinality(A) = Cardinality(B) + 1 /\ Cardinality(B) \in Nat
    BY Zenon, <2>2, PeerAdded, PeerSets
  <2>4. Majority(Cardinality(A))
    <3>1. Majority(1 + Cardinality(B))
      BY Zenon, <1>8
    <3>2. 1 + Cardinality(B) = Cardinality(A)
      BY <2>3
    <3>3. QED
      BY Zenon, <3>1, <3>2
  <2>5. ASSUME NEW v \in A PROVE Acked(v, t, n)
    <3>1. CASE v = i
      BY Zenon, <1>7, <3>1 DEF Acked
    <3>2. CASE v # i
      <4>1. v \in Server \ {i} /\ match[v] >= n /\ match[v] \in Nat
        BY Zenon, <1>4, <3>2 DEF Peers
      <4>2. Reported(i, v, match[v])
        BY <1>5, <2>1, <4>1
      <4>3. QED
        BY Zenon, <4>1, <4>2 DEF Reported, Acked, t
    <3>3. QED
      BY Zenon, <3>1, <3>2
  <2>6. Chosen(t, n)
    BY Zenon, <2>2, <2>4, <2>5 DEF Chosen
  <2>7. Own(canon, t, n) /\ Agree(logs[i], canon[t], n)
    BY Zenon, <1>7, <2>1 DEF Own, Agree
  <2>8. QED
    BY SMTT(30), <1>3, <2>1, <2>6, <2>7 DEF Settled
<1>11. good # {} => Greatest(good) \in good
  <2>1. good \in SUBSET Nat /\ \A n \in good : n <= Len(logs[i])
    BY Zenon, <1>9
  <2>2. QED
    BY Zenon, <1>6, <2>1, GreatestInSet
<1>12. commitIndex'[i] = commitIndex[i] \/ commitIndex'[i] \in good
  <2>1. commitIndex'[i] = updateCommitIndex(i, match)
    BY Zenon, <1>1, <1>3
  <2>2. QED
    BY Zenon, <1>2, <1>11, <2>1
<1>13. ASSUME NEW j \in Server
       PROVE  commitIndex'[j] <= commitIndex[j] \/ Settled(canon, commitIndex'[j], currentTerm'[j], logs'[j])
  <2>1. CASE j = i
    BY SMTT(30), <1>1, <1>3, <1>10, <1>12, <2>1 DEF t
  <2>2. CASE j # i
    BY <1>1, <1>3, <2>2
  <2>3. QED
    BY Zenon, <2>1, <2>2
<1>14. commitIndex'[i] >= commitIndex[i]
  BY <1>3, <1>12, <1>9
<1>15. QED
  BY Zenon, <1>1, <1>13, <1>14 DEF CommitStep

\* No peer takes for committed what its log does not reach.
LEMMA CommittedInLog ==
  ASSUME TypeOK, NEW canon, CommitSettled(canon), NEW i \in Server
  PROVE  commitIndex[i] \in Nat /\ Len(logs[i]) \in Nat /\ commitIndex[i] <= Len(logs[i])
<1>1. commitIndex[i] \in Nat /\ logs[i] \in Seq(Entry)
  BY Zenon DEF TypeOK
<1>2. Len(logs[i]) \in Nat
  BY Zenon, <1>1, LogEntries
<1>3. commitIndex[i] > 0 => commitIndex[i] <= Len(logs[i])
  BY Zenon DEF CommitSettled, Settled, Agree
<1>4. QED
  BY <1>1, <1>2, <1>3

\* A follower commits only what the call leaves in its log and the leader has committed.
LEMMA AcceptCommits ==
  ASSUME Background, ElectionInv, TypeOK', NoSnapshots, NEW canon \in Canons, LogInvOf(canon), ChosenInvOf(canon),
         NEW i \in Server, NEW m \in aeArgs, AcceptAppend(i, m)
  PROVE  CommitStep(canon)
<1> DEFINE kept == Truncate(logs[i], snapshotIndex[i], m.Entries)
           n    == CommitAfter(commitIndex[i], kept, m.LeaderCommit)
<1>1. commitIndex' = [commitIndex EXCEPT ![i] = n] /\ UNCHANGED <<aeArgs, applied>>
  BY Zenon DEF AcceptAppend, serviceVars
<1>2. /\ TypeOK /\ DOMAIN commitIndex = Server /\ \A j \in Server : commitIndex[j] \in Nat
  BY Zenon DEF ElectionInv, TypeOK
<1>3. m.Term \in Nat /\ m.LeaderCommit \in Nat /\ m.PrevLogIndex \in Nat /\ Len(m.Entries) \in Nat
  BY Zenon, <1>2, AppendFields
<1>4. n = commitIndex[i] \/ n <= m.LeaderCommit
  <2>1. kept \in Seq(Entry)
    BY Zenon, <1>2, AppendFields, TruncateIsSeq DEF TypeOK
  <2> HIDE DEF kept
  <2>2. n \in Nat
    BY Zenon, <1>2, <1>3, <2>1, CommitAfterType
  <2>3. kept # <<>> => kept[Len(kept)].Index \in Nat
    BY <2>1, LogEntries, EmptySeq
  <2>4. QED
    BY SMTT(30), <1>2, <1>3, <2>2, <2>3 DEF CommitAfter, Min
<1>5. commitIndex'[i] = n /\ n \in Nat
  BY Zenon, <1>1, <1>2 DEF TypeOK
<1> HIDE DEF n
<1>6. CASE n > commitIndex[i]
  <2>1. n <= m.LeaderCommit /\ m.LeaderCommit > 0 /\ n \in Nat
    BY SMTT(30), <1>2, <1>3, <1>4, <1>5, <1>6
  <2>2. m.LeaderCommit <= m.PrevLogIndex + Len(m.Entries) /\ Settled(canon, m.LeaderCommit, m.Term, canon[m.Term])
    BY Zenon, <2>1 DEF ChosenInvOf, CallsSettled
  <2>3. PICK u \in Nat, k \in Nat : /\ Own(canon, u, k) /\ Chosen(u, k) /\ u <= m.Term /\ m.LeaderCommit <= k
                                    /\ Agree(canon[m.Term], canon[u], m.LeaderCommit)
    BY Zenon, <2>2 DEF Settled
  <2>4. currentTerm'[i] = m.Term /\ Agree(logs'[i], canon[m.Term], m.PrevLogIndex + Len(m.Entries))
    BY Zenon, AcceptSteady
  <2>5. Len(logs'[i]) \in Nat /\ Len(canon[m.Term]) \in Nat /\ Len(canon[u]) \in Nat
    <3>1. logs'[i] \in Seq(Entry) /\ canon[m.Term] \in Seq(Entry) /\ canon[u] \in Seq(Entry)
      BY Zenon, <1>3 DEF TypeOK, Canons
    <3>2. QED
      BY Zenon, <3>1, LogEntries
  <2>6. n <= m.PrevLogIndex + Len(m.Entries) /\ m.PrevLogIndex + Len(m.Entries) \in Nat
    BY <1>3, <2>1, <2>2
  <2>7. Agree(logs'[i], canon[m.Term], n) /\ Agree(canon[m.Term], canon[u], n)
    BY Zenon, <1>3, <2>1, <2>3, <2>4, <2>5, <2>6, AgreeDown
  <2>8. Agree(logs'[i], canon[u], n)
    BY Zenon, <2>1, <2>7, AgreeTrans
  <2>9. n <= k
    BY <1>3, <2>1, <2>3
  <2>10. Settled(canon, n, m.Term, logs'[i])
    BY Zenon, <2>3, <2>8, <2>9 DEF Settled
  <2>11. Settled(canon, commitIndex'[i], currentTerm'[i], logs'[i])
    BY Zenon, <1>5, <2>4, <2>10
  <2>12. \A j \in Server \ {i} : commitIndex'[j] <= commitIndex[j]
    BY <1>1, <1>2
  <2>13. QED
    BY Zenon, <1>1, <2>11, <2>12 DEF CommitStep
<1>7. CASE n <= commitIndex[i]
  <2>1. \A j \in Server : commitIndex'[j] <= commitIndex[j]
    BY <1>1, <1>2, <1>5, <1>7
  <2>2. QED
    BY Zenon, <1>1, <2>1 DEF CommitStep
<1>8. QED
  BY <1>2, <1>5, <1>6, <1>7

\* What applyToClient sends: the committed entries after lastApplied, in order.
LEMMA SentEntries ==
  ASSUME TypeOK, NoSnapshots, NEW canon \in Canons, LogInvOf(canon), CommitSettled(canon),
         NEW i \in Server, commitIndex[i] > lastApplied[i]
  PROVE  /\ Applicable(i) \in Seq(Entry) /\ Len(Applicable(i)) = commitIndex[i] - lastApplied[i]
         /\ \A k \in 1 .. Len(Applicable(i)) :
              /\ Applicable(i)[k] = logs[i][lastApplied[i] + k]
              /\ Applicable(i)[k].Index = lastApplied[i] + k
<1> DEFINE a == lastApplied[i] + 1
           b == commitIndex[i]
<1>1. lastApplied[i] \in Nat /\ commitIndex[i] \in Nat /\ snapshotIndex[i] = 0
  BY Zenon DEF TypeOK, NoSnapshots
<1>2. b <= Len(logs[i]) /\ Len(logs[i]) \in Nat
  BY Zenon, CommittedInLog
<1>3. Applicable(i) = SubSeq(logs[i], a, b)
  <2>1. /\ ~(lastApplied[i] < snapshotIndex[i]) /\ lastApplied[i] + 1 - snapshotIndex[i] = a
        /\ Min(commitIndex[i] - snapshotIndex[i], Len(logs[i])) = b
    BY <1>1, <1>2 DEF Min
  <2>2. QED
    BY Zenon, <2>1 DEF Applicable
<1>4. /\ \A k \in 1 .. Len(logs[i]) : logs[i][k].Index = k
      /\ logs[i] \in Seq(Entry)
  BY Zenon, LogNumbered
<1>5. a \in Int /\ b \in Int /\ a <= b /\ \A k \in a .. b : k \in 1 .. Len(logs[i])
  BY <1>1, <1>2
<1>6. \A k \in a .. b : logs[i][k] \in Entry
  BY Zenon, <1>4, <1>5, LogEntries
<1>7. /\ SubSeq(logs[i], a, b) \in Seq(Entry)
      /\ Len(SubSeq(logs[i], a, b)) = IF a <= b THEN b - a + 1 ELSE 0
      /\ \A k \in 1 .. b - a + 1 : SubSeq(logs[i], a, b)[k] = logs[i][a + k - 1]
  BY <1>5, <1>6, SubSeqProperties
<1>8. b - a + 1 = commitIndex[i] - lastApplied[i]
  BY <1>1
<1>9. ASSUME NEW k \in 1 .. commitIndex[i] - lastApplied[i]
      PROVE  /\ SubSeq(logs[i], a, b)[k] = logs[i][lastApplied[i] + k]
             /\ logs[i][lastApplied[i] + k].Index = lastApplied[i] + k
  <2>1. a + k - 1 = lastApplied[i] + k /\ lastApplied[i] + k \in 1 .. Len(logs[i])
    BY SMTT(30), <1>1, <1>2
  <2>2. QED
    BY Zenon, <1>4, <1>7, <1>8, <2>1
<1>10. QED
  BY Zenon, <1>3, <1>5, <1>7, <1>8, <1>9

LEMMA ApplyCommits ==
  ASSUME TypeOK, NoSnapshots, NEW canon \in Canons, LogInvOf(canon), ChosenInvOf(canon),
         NEW i \in Server, applyToClient(i)
  PROVE  CommitStep(canon)
<1> DEFINE sent == Applicable(i)
<1>1. /\ commitIndex[i] > lastApplied[i] /\ UNCHANGED <<commitIndex, aeArgs>>
      /\ applied' = applied \cup {sent[k] : k \in DOMAIN sent}
  BY Zenon DEF applyToClient, logVars, appendNet
<1>2. lastApplied[i] \in Nat /\ \A j \in Server : commitIndex[j] \in Nat
  BY Zenon DEF TypeOK
<1>3. /\ sent \in Seq(Entry) /\ Len(sent) = commitIndex[i] - lastApplied[i]
      /\ \A k \in 1 .. Len(sent) : sent[k] = logs[i][lastApplied[i] + k] /\ sent[k].Index = lastApplied[i] + k
  BY Zenon, <1>1, SentEntries DEF ChosenInvOf
<1> HIDE DEF sent
<1>4. ASSUME NEW a \in applied' \ applied
      PROVE  a.Index \in 1 .. commitIndex[i] /\ a = logs[i][a.Index]
  <2>1. PICK k \in DOMAIN sent : a = sent[k]
    BY Zenon, <1>1
  <2>2. k \in 1 .. Len(sent)
    BY Zenon, <1>3, LenProperties
  <2>3. a = logs[i][lastApplied[i] + k] /\ a.Index = lastApplied[i] + k
    BY Zenon, <1>3, <2>1, <2>2
  <2>4. QED
    BY <1>2, <1>3, <2>2, <2>3
<1>5. QED
  BY SMTT(30), <1>1, <1>2, <1>4 DEF CommitStep

\* Every step moves commit indexes, calls and deliveries as CommitStep says.
LEMMA NextCommit ==
  ASSUME Background, ElectionInv, ElectionInv', NoSnapshots, NEW canon \in Canons, LogInvOf(canon), ChosenInvOf(canon),
         [Next]_vars
  PROVE  CommitStep(canon)
<1>1. TypeOK /\ TypeOK'
  BY Zenon DEF ElectionInv
<1>2. CASE CommitIdle
  BY Zenon, <1>1, <1>2, IdleCommits
<1>3. ASSUME NEW i \in Server, sendHeartBeat(i) \/ broadcastAppendEntries(i) \/ \E m : CountVote(i, m)
      PROVE  CommitStep(canon)
  BY Zenon, <1>1, <1>3, SendCommits
<1>4. ASSUME NEW i \in Server, applyToClient(i) PROVE CommitStep(canon)
  BY Zenon, <1>1, <1>4, ApplyCommits
<1>5. ASSUME NEW i \in Server, Crash(i) PROVE CommitStep(canon)
  BY Zenon, <1>1, <1>5, BootCommits
<1>6. ASSUME NEW i \in Server, NEW m \in aeReplies, AppendSucceeded(i, m) PROVE CommitStep(canon)
  BY Zenon, <1>1, <1>6, SucceededCommits
<1>7. ASSUME NEW i \in Server, NEW m \in aeArgs, AcceptAppend(i, m) PROVE CommitStep(canon)
  BY Zenon, <1>1, <1>7, AcceptCommits
<1>8. CommitKinds
  BY Zenon, <1>1, NextCommitKinds
<1>9. QED
  BY Zenon, <1>2, <1>3, <1>4, <1>5, <1>6, <1>7, <1>8 DEF CommitKinds

-----------------------------------------------------------------------------
(* The invariant *)

LEMMA InitCompleteness == Init => CompletenessInv
<1> SUFFICES ASSUME Init PROVE CompletenessInv
  BY Zenon
<1>1. PICK canon \in Canons : LogInvOf(canon)
  BY Zenon, InitLog DEF LogInv
<1>2. /\ aeArgs = {} /\ rvArgs = {} /\ applied = {} /\ \A i \in Server : commitIndex[i] = 0
  BY Zenon DEF Init
<1>3. \A t, k \in Nat : ~Own(canon, t, k)
  <2> SUFFICES ASSUME NEW t \in Nat, NEW k \in Nat, Own(canon, t, k) PROVE FALSE
    BY Zenon
  <2>1. canon[t] = <<>>
    BY Zenon, <1>1, <1>2 DEF LogInvOf, Elected
  <2>2. Len(canon[t]) = 0
    BY <2>1
  <2>3. QED
    BY <2>2 DEF Own
<1>4. LaterLeadersHave(canon) /\ AckedIsKept(canon) /\ VotersChoseHolders(canon)
  BY Zenon, <1>3 DEF LaterLeadersHave, AckedIsKept, VotersChoseHolders
<1>5. VoteCallsDescribe /\ CommitSettled(canon) /\ CallsSettled(canon) /\ AppliedSettled(canon)
  BY <1>2 DEF VoteCallsDescribe, CommitSettled, CallsSettled, AppliedSettled
<1>6. QED
  BY Zenon, <1>1, <1>4, <1>5 DEF CompletenessInv, ChosenInvOf

LEMMA SteadyCompleteness ==
  ASSUME Background, ElectionInv, ElectionInv', NoSnapshots, NEW canon \in Canons, LogInvOf(canon), ChosenInvOf(canon),
         [Next]_vars, SteadyStep(canon)
  PROVE  LogInvOf(canon)' /\ ChosenInvOf(canon)'
<1>1. TypeOK /\ TypeOK'
  BY Zenon DEF ElectionInv
<1>2. LogInvOf(canon)'
  BY Zenon, <1>1, SteadyKeeps
<1>3. LaterLeadersHave(canon)' /\ AckedIsKept(canon)' /\ VotersChoseHolders(canon)' /\ VoteCallsDescribe'
  BY Zenon, NextVoting, SteadyChosen
<1>4. CommitStep(canon)
  BY Zenon, NextCommit
<1>5. aeArgs \subseteq aeArgs' /\ aeReplies \subseteq aeReplies'
  BY Zenon DEF SteadyStep
<1>6. \A j \in Server : currentTerm'[j] >= currentTerm[j]
  BY Zenon DEF SteadyStep, TermStep
<1>7. \A j \in Server : \/ Agree(logs'[j], logs[j], Len(logs[j]))
                        \/ Elected(currentTerm'[j]) /\ Spliced(logs[j], canon[currentTerm'[j]], logs'[j])
  <2> SUFFICES ASSUME NEW j \in Server
               PROVE  \/ Agree(logs'[j], logs[j], Len(logs[j]))
                      \/ Elected(currentTerm'[j]) /\ Spliced(logs[j], canon[currentTerm'[j]], logs'[j])
    BY Zenon
  <2>1. Len(logs[j]) \in Nat
    BY Zenon, <1>1, LogEntries DEF TypeOK
  <2>2. logs'[j] = logs[j] => Agree(logs'[j], logs[j], Len(logs[j]))
    BY <2>1 DEF Agree
  <2>3. QED
    BY Zenon, <2>2 DEF SteadyStep
<1>8. \A m \in aeArgs' \ aeArgs : /\ m.Term = currentTerm[m.src]
                                  /\ Agree(canon[m.Term], logs[m.src], Len(logs[m.src]))
  <2> SUFFICES ASSUME NEW m \in aeArgs' \ aeArgs
               PROVE  m.Term = currentTerm[m.src] /\ Agree(canon[m.Term], logs[m.src], Len(logs[m.src]))
    BY Zenon
  <2>1. status[m.src] = "LEADER" /\ m.Term = currentTerm[m.src]
    BY Zenon DEF SteadyStep
  <2>2. m.src \in Server
    <3>1. aeArgs' \subseteq AppendEntriesArgs
      BY Zenon, <1>1 DEF TypeOK
    <3>2. QED
      BY Zenon, <3>1 DEF AppendEntriesArgs
  <2>3. logs[m.src] = canon[m.Term] /\ Len(logs[m.src]) \in Nat
    BY Zenon, <1>1, <2>1, <2>2, LogEntries DEF LogInvOf, LeadersHold, TypeOK
  <2>4. QED
    BY <2>1, <2>3 DEF Agree
<1>9. \A u \in Nat : Agree(canon[u], canon[u], Len(canon[u]))
  BY LogEntries DEF Agree, Canons
<1>10. CommitSettled(canon)' /\ CallsSettled(canon)' /\ AppliedSettled(canon)'
  BY Zenon, <1>1, <1>4, <1>5, <1>6, <1>7, <1>8, <1>9, CommitKept
<1>11. QED
  BY Zenon, <1>2, <1>3, <1>10 DEF ChosenInvOf

LEMMA GrowthCompleteness ==
  ASSUME Background, ElectionInv, ElectionInv', NoSnapshots, NEW canon \in Canons, LogInvOf(canon), ChosenInvOf(canon),
         [Next]_vars, NEW i \in Server, NEW t \in Nat, NEW new, GrowStep(i, t, new), GrownLog(new, t, canon),
         NEW grown \in Canons, grown = [canon EXCEPT ![t] = new]
  PROVE  LogInvOf(grown)' /\ ChosenInvOf(grown)'
<1>1. TypeOK /\ TypeOK'
  BY Zenon DEF ElectionInv
<1>2. LogInvOf(grown)'
  BY Zenon, GrowKeeps
<1>3. LaterLeadersHave(grown)' /\ AckedIsKept(grown)' /\ VotersChoseHolders(grown)' /\ VoteCallsDescribe'
  BY Zenon, NextVoting, GrowChosen
<1>4. CommitStep(canon)
  BY Zenon, NextCommit
<1>5. aeArgs \subseteq aeArgs' /\ aeReplies \subseteq aeReplies'
  BY ZenonT(30) DEF GrowStep
<1>6. \A j \in Server : currentTerm'[j] >= currentTerm[j] /\ Len(logs[j]) \in Nat
  BY SMTT(30), <1>1, LogEntries DEF GrowStep, TypeOK
<1>7. grown[t] = new /\ \A u \in Nat : u # t => grown[u] = canon[u]
  BY Zenon DEF Canons
<1>8. \A u \in Nat : Agree(grown[u], canon[u], Len(canon[u]))
  <2> SUFFICES ASSUME NEW u \in Nat PROVE Agree(grown[u], canon[u], Len(canon[u]))
    BY Zenon
  <2>1. Len(canon[u]) \in Nat
    BY Zenon, LogEntries DEF Canons
  <2>2. CASE u = t
    BY Zenon, <1>7, <2>2 DEF GrownLog
  <2>3. CASE u # t
    BY <1>7, <2>1, <2>3 DEF Agree
  <2>4. QED
    BY Zenon, <2>2, <2>3
<1>9. Agree(new, logs[i], Len(logs[i]))
  <2>1. CASE status[i] = "LEADER"
    <3>1. logs[i] = canon[t]
      BY Zenon, <2>1 DEF LogInvOf, LeadersHold, GrowStep
    <3>2. QED
      BY Zenon, <3>1 DEF GrownLog
  <2>2. CASE new = logs[i]
    BY <1>6, <2>2 DEF Agree
  <2>3. QED
    BY Zenon, <2>1, <2>2 DEF GrowStep
<1>10. \A j \in Server : Agree(logs'[j], logs[j], Len(logs[j]))
  <2> SUFFICES ASSUME NEW j \in Server PROVE Agree(logs'[j], logs[j], Len(logs[j]))
    BY Zenon
  <2>1. CASE j = i
    BY Zenon, <1>9, <2>1 DEF GrowStep
  <2>2. CASE j # i
    BY <1>6, <2>2 DEF GrowStep, Agree
  <2>3. QED
    BY Zenon, <2>1, <2>2
<1>11. \A m \in aeArgs' \ aeArgs : /\ m.Term = currentTerm[m.src]
                                   /\ Agree(grown[m.Term], logs[m.src], Len(logs[m.src]))
  BY Zenon, <1>7, <1>9 DEF GrowStep
<1>12. CommitSettled(grown)' /\ CallsSettled(grown)' /\ AppliedSettled(grown)'
  BY Zenon, <1>1, <1>4, <1>5, <1>6, <1>8, <1>10, <1>11, CommitKept
<1>13. QED
  BY Zenon, <1>2, <1>3, <1>12 DEF ChosenInvOf

LEMMA NextCompleteness ==
  ASSUME Background, ElectionInv, ElectionInv', NoSnapshots, CompletenessInv, [Next]_vars
  PROVE  CompletenessInv'
<1>1. PICK canon \in Canons : LogInvOf(canon) /\ ChosenInvOf(canon)
  BY Zenon DEF CompletenessInv
<1>2. CASE SteadyStep(canon)
  <2>1. LogInvOf(canon)' /\ ChosenInvOf(canon)'
    BY Zenon, <1>1, <1>2, SteadyCompleteness
  <2>2. QED
    BY Zenon, <2>1 DEF CompletenessInv
<1>3. CASE GrowthStep(canon)
  <2>1. PICK i \in Server : /\ GrowStep(i, currentTerm[i], logs'[i])
                            /\ GrownLog(logs'[i], currentTerm[i], canon)
    BY Zenon, <1>3 DEF GrowthStep
  <2>2. PICK new : GrowStep(i, currentTerm[i], new) /\ GrownLog(new, currentTerm[i], canon)
    BY Zenon, <2>1
  <2>3. PICK t \in Nat : t = currentTerm[i]
    BY Zenon DEF ElectionInv, TypeOK
  <2>4. new \in Seq(Entry)
    BY Zenon, <2>2 DEF GrownLog
  <2>5. PICK grown \in Canons : grown = [canon EXCEPT ![t] = new]
    BY Zenon, <2>4 DEF Canons
  <2>6. LogInvOf(grown)' /\ ChosenInvOf(grown)'
    BY ZenonT(30), <1>1, <2>2, <2>3, <2>5, GrowthCompleteness
  <2>7. QED
    BY Zenon, <2>6 DEF CompletenessInv
<1>4. QED
  BY Zenon, <1>1, <1>2, <1>3, StepKinds

-----------------------------------------------------------------------------
(* What the invariant implies *)

LEMMA InvCompleteness ==
  ASSUME ElectionInv, CompletenessInv
  PROVE  LeaderCompleteness
<1>1. PICK canon \in Canons : LogInvOf(canon) /\ ChosenInvOf(canon)
  BY Zenon DEF CompletenessInv
<1> SUFFICES ASSUME NEW i \in Server, NEW j \in Server, status[i] = "LEADER",
                    currentTerm[i] >= currentTerm[j], NEW n \in 1 .. commitIndex[j]
             PROVE  n <= Len(logs[i]) /\ logs[i][n] = logs[j][n]
  BY Zenon DEF LeaderCompleteness
<1>2. /\ currentTerm[i] \in Nat /\ currentTerm[j] \in Nat /\ commitIndex[j] \in Nat
      /\ logs[i] \in Seq(Entry) /\ Len(logs[i]) \in Nat
  BY Zenon, LogEntries DEF ElectionInv, TypeOK
<1>3. logs[i] = canon[currentTerm[i]] /\ Elected(currentTerm[i])
  BY Zenon, <1>1 DEF LogInvOf, LeadersHold, Elected
<1>4. Settled(canon, commitIndex[j], currentTerm[j], logs[j])
  BY <1>1, <1>2 DEF ChosenInvOf, CommitSettled
<1>5. PICK u \in Nat, k \in Nat : /\ Own(canon, u, k) /\ Chosen(u, k) /\ u <= currentTerm[j]
                                  /\ commitIndex[j] <= k /\ Agree(logs[j], canon[u], commitIndex[j])
  BY Zenon, <1>4 DEF Settled
<1>6. Agree(logs[i], canon[u], k)
  <2>1. CASE u = currentTerm[i]
    BY Zenon, <1>2, <1>3, <1>5, <2>1 DEF Own, Agree
  <2>2. CASE u < currentTerm[i]
    BY Zenon, <1>1, <1>2, <1>3, <1>5, <2>2, ChosenChoosable DEF ChosenInvOf, LaterLeadersHave
  <2>3. QED
    BY <1>2, <1>5, <2>1, <2>2
<1>7. QED
  BY SMTT(30), <1>2, <1>5, <1>6 DEF Agree

LEMMA InvAgreement ==
  ASSUME CompletenessInv
  PROVE  StateMachineSafety
<1>1. PICK canon \in Canons : LogInvOf(canon) /\ ChosenInvOf(canon)
  BY Zenon DEF CompletenessInv
<1>2. ASSUME NEW u \in Nat, NEW k \in Nat, NEW w \in Nat, NEW l \in Nat, NEW n \in 1 .. k,
             Own(canon, u, k), Chosen(u, k), Own(canon, w, l), u <= w
      PROVE  canon[u][n] = canon[w][n]
  <2>1. Len(canon[w]) \in Nat
    BY Zenon, LogEntries DEF Canons
  <2>2. canon[w] # <<>>
    BY <1>2, <2>1 DEF Own
  <2>3. Elected(w) /\ Choosable(u, k)
    BY Zenon, <1>1, <1>2, <2>2, ChosenChoosable DEF LogInvOf
  <2>4. u < w => Agree(canon[w], canon[u], k)
    BY Zenon, <1>1, <1>2, <2>3 DEF ChosenInvOf, LaterLeadersHave
  <2>5. QED
    BY <1>2, <2>4 DEF Agree
<1> SUFFICES ASSUME NEW a \in applied, NEW b \in applied, a.Index = b.Index
             PROVE  a = b
  BY Zenon DEF StateMachineSafety
<1>3. PICK u \in Nat, k \in Nat : Own(canon, u, k) /\ Chosen(u, k) /\ a.Index \in 1 .. k /\ a = canon[u][a.Index]
  BY Zenon, <1>1 DEF ChosenInvOf, AppliedSettled
<1>4. PICK w \in Nat, l \in Nat : Own(canon, w, l) /\ Chosen(w, l) /\ b.Index \in 1 .. l /\ b = canon[w][b.Index]
  BY Zenon, <1>1 DEF ChosenInvOf, AppliedSettled
<1>5. CASE u <= w
  BY SMTT(30), <1>2, <1>3, <1>4, <1>5
<1>6. CASE w <= u
  BY <1>2, <1>3, <1>4, <1>6
<1>7. QED
  BY <1>5, <1>6

-----------------------------------------------------------------------------
(* Panics *)

LEMMA NextNoPanic ==
  ASSUME ElectionInv, TypeOK', NoSnapshots, CompletenessInv, NoPanic, [Next]_vars
  PROVE  NoPanic'
<1>1. PICK canon \in Canons : LogInvOf(canon) /\ ChosenInvOf(canon)
  BY Zenon DEF CompletenessInv
<1>2. TypeOK /\ DOMAIN panicked = Server
  BY Zenon DEF ElectionInv, TypeOK
<1>3. ASSUME NEW i \in Server, NEW b, panicked' = [panicked EXCEPT ![i] = b], ~b PROVE NoPanic'
  BY Zenon, <1>2, <1>3 DEF NoPanic
<1>4. CASE UNCHANGED panicked
  BY Zenon, <1>4 DEF NoPanic
<1>5. ASSUME NEW i \in Server, sendHeartBeat(i) \/ \E m : CountVote(i, m) \/ AcceptAppend(i, m)
      PROVE  NoPanic'
  BY Zenon, <1>4, <1>5 DEF sendHeartBeat, CountVote, AcceptAppend
<1>6. ASSUME NEW i \in Server, broadcastAppendEntries(i) PROVE NoPanic'
  <2> DEFINE pos(j) == nextIndex[i][j] - snapshotIndex[i]
             due    == {j \in Peers(i) : LastLogIndex(i) >= nextIndex[i][j] /\ pos(j) >= 1}
             broken == \E j \in due : pos(j) - 1 > Len(logs[i])
  <2>1. panicked' = [panicked EXCEPT ![i] = broken]
    BY Zenon, <1>6 DEF broadcastAppendEntries
  <2>2. LastLogIndex(i) = Len(logs[i]) /\ snapshotIndex[i] = 0 /\ Len(logs[i]) \in Nat
    BY Zenon, <1>1, <1>2, LogNumbered
  <2>3. \A j \in Server : nextIndex[i][j] \in Nat
    BY <1>2 DEF TypeOK
  <2>4. ~broken
    BY <2>2, <2>3 DEF Peers
  <2> HIDE DEF broken
  <2>5. ~panicked'[i] /\ \A j \in Server \ {i} : panicked'[j] = panicked[j]
    BY Zenon, <1>2, <2>1, <2>4
  <2>6. QED
    BY Zenon, <2>5 DEF NoPanic
<1>7. ASSUME NEW i \in Server, applyToClient(i) PROVE NoPanic'
  <2>1. panicked' = [panicked EXCEPT ![i] = lastApplied[i] < snapshotIndex[i] \/ commitIndex[i] > LogEnd(i)]
    BY Zenon, <1>7 DEF applyToClient
  <2>2. LogEnd(i) = Len(logs[i]) /\ snapshotIndex[i] = 0
    BY Zenon, <1>1, <1>2, LogNumbered
  <2>3. commitIndex[i] \in Nat /\ Len(logs[i]) \in Nat /\ commitIndex[i] <= Len(logs[i])
    BY Zenon, <1>1, <1>2, CommittedInLog DEF ChosenInvOf
  <2>4. lastApplied[i] \in Nat
    BY Zenon, <1>2 DEF TypeOK
  <2>5. ~(lastApplied[i] < snapshotIndex[i] \/ commitIndex[i] > LogEnd(i))
    BY <2>2, <2>3, <2>4
  <2>6. QED
    BY Zenon, <1>3, <2>1, <2>5
<1>8. ASSUME NEW i \in Server, Crash(i) PROVE NoPanic'
  <2>1. PICK d : Boot(i, d)
    BY Zenon, <1>8, BootFresh
  <2>2. panicked' = [panicked EXCEPT ![i] = FALSE]
    BY Zenon, <2>1 DEF Boot
  <2>3. QED
    BY Zenon, <1>3, <2>2
<1>9. ASSUME NEW i \in Server, NEW m \in aeReplies, AppendSucceeded(i, m) PROVE NoPanic'
  <2>1. PICK match : panicked' = [panicked EXCEPT ![i] = \E n \in Stored(i, match) : n <= snapshotIndex[i]]
    BY Zenon, <1>9 DEF AppendSucceeded
  <2>2. snapshotIndex[i] = 0 /\ commitIndex[i] \in Nat
    BY Zenon, <1>2 DEF NoSnapshots, TypeOK
  <2>3. LogEnd(i) \in Nat
    BY Zenon, <1>2, LastOfLog
  <2>4. \A n \in Stored(i, match) : n \in commitIndex[i] + 1 .. LogEnd(i)
    BY Zenon DEF Stored
  <2>5. ~(\E n \in Stored(i, match) : n <= snapshotIndex[i])
    BY <2>2, <2>3, <2>4
  <2>6. QED
    BY Zenon, <1>3, <2>1, <2>5
<1>10. CommitKinds
  BY Zenon, <1>2, NextCommitKinds
<1>11. QED
  BY Zenon, <1>4, <1>5, <1>6, <1>7, <1>8, <1>9, <1>10 DEF CommitKinds, CommitIdle

-----------------------------------------------------------------------------
(* The services *)

\* The message applyToClient makes of an entry.
MessageOf(e) == [Index |-> e.Index, Command |-> e.Command]

\* A service was sent one message for each index up to lastApplied, and what all services
\* together were sent has no gap.
ServicesInv ==
  /\ \A i \in Server :
       /\ Len(service[i]) = lastApplied[i]
       /\ \A k \in 1 .. lastApplied[i] : \E a \in applied : a.Index = k /\ service[i][k] = MessageOf(a)
  /\ \E n \in Nat : {a.Index : a \in applied} = 1 .. n

\* Only applyToClient and restarts touch a service.
LEMMA ServiceKinds ==
  ASSUME TypeOK, NoSnapshots, [Next]_vars
  PROVE  \/ UNCHANGED <<service, lastApplied, applied>>
         \/ \E i \in Server : applyToClient(i) \/ Crash(i)
<1>1. CommitKinds
  BY Zenon, NextCommitKinds
<1>2. QED
  BY ZenonT(30), <1>1 DEF CommitKinds, CommitIdle, sendHeartBeat, broadcastAppendEntries, CountVote,
     AppendSucceeded, AcceptAppend, serviceVars

\* applyToClient adds one message for each index from lastApplied to commitIndex.
LEMMA Delivery ==
  ASSUME TypeOK, TypeOK', NoSnapshots, NEW canon \in Canons, LogInvOf(canon), ChosenInvOf(canon), ServicesInv,
         NEW i \in Server, applyToClient(i)
  PROVE  /\ lastApplied' = [lastApplied EXCEPT ![i] = commitIndex[i]] /\ commitIndex[i] > lastApplied[i]
         /\ service' = [service EXCEPT ![i] = service'[i]]
         /\ service'[i] \in Seq(Message) /\ Len(service'[i]) = commitIndex[i]
         /\ \A k \in 1 .. lastApplied[i] : service'[i][k] = service[i][k]
         /\ \A k \in lastApplied[i] + 1 .. commitIndex[i] :
              \E a \in applied' : a.Index = k /\ service'[i][k] = MessageOf(a)
         /\ applied \subseteq applied'
         /\ \A a \in applied' \ applied : a.Index \in lastApplied[i] + 1 .. commitIndex[i]
<1> DEFINE sent  == Applicable(i)
           msgs  == [k \in 1 .. Len(sent) |-> [Index |-> sent[k].Index, Command |-> sent[k].Command]]
           taken == service[i] \o msgs
<1>1. /\ commitIndex[i] > lastApplied[i] /\ lastApplied' = [lastApplied EXCEPT ![i] = commitIndex[i]]
      /\ applied' = applied \cup {sent[k] : k \in DOMAIN sent}
      /\ service' = [service EXCEPT ![i] = taken]
  BY Zenon DEF applyToClient
<1>2. /\ lastApplied[i] \in Nat /\ commitIndex[i] \in Nat /\ DOMAIN service = Server
      /\ service[i] \in Seq(Message) /\ service'[i] \in Seq(Message)
  BY Zenon DEF TypeOK, Snapshots
<1>3. /\ sent \in Seq(Entry) /\ Len(sent) = commitIndex[i] - lastApplied[i]
      /\ \A k \in 1 .. Len(sent) : sent[k].Index = lastApplied[i] + k
  BY Zenon, <1>1, SentEntries DEF ChosenInvOf
<1>4. DOMAIN sent = 1 .. Len(sent) /\ Len(sent) \in Nat
  BY Zenon, <1>3, LenProperties
<1> HIDE DEF sent
<1>5. /\ msgs \in Seq(Message) /\ Len(msgs) = Len(sent)
      /\ \A k \in 1 .. Len(sent) : msgs[k] = MessageOf(sent[k])
  <2>1. \A k \in 1 .. Len(sent) : [Index |-> sent[k].Index, Command |-> sent[k].Command] \in Message
    BY Zenon, <1>3, EntryFields DEF Message
  <2>2. msgs \in [1 .. Len(sent) -> Message]
    BY Zenon, <2>1
  <2>3. msgs \in Seq(Message)
    BY <1>4, <2>2, SeqDef
  <2>4. \A k \in 1 .. Len(sent) : msgs[k] = MessageOf(sent[k])
    BY Zenon DEF MessageOf
  <2>5. DOMAIN msgs = 1 .. Len(sent)
    BY Zenon
  <2> HIDE DEF msgs
  <2>6. DOMAIN msgs = 1 .. Len(msgs) /\ Len(msgs) \in Nat
    BY Zenon, <2>3, LenProperties
  <2>7. Len(msgs) = Len(sent)
    BY SMTT(30), <1>4, <2>5, <2>6
  <2>8. QED
    BY Zenon, <2>3, <2>4, <2>7
<1> HIDE DEF msgs
<1>6. /\ Len(taken) = Len(service[i]) + Len(msgs)
      /\ \A k \in 1 .. Len(service[i]) + Len(msgs) :
           taken[k] = IF k <= Len(service[i]) THEN service[i][k] ELSE msgs[k - Len(service[i])]
  BY Zenon, <1>2, <1>5, ConcatProperties
<1>7. service'[i] = taken
  BY Zenon, <1>1, <1>2
<1> HIDE DEF taken
<1>8. Len(service[i]) = lastApplied[i]
  BY Zenon DEF ServicesInv
<1>9. Len(taken) = commitIndex[i]
  BY SMTT(30), <1>2, <1>3, <1>5, <1>6, <1>8
<1>10. ASSUME NEW k \in 1 .. lastApplied[i] PROVE taken[k] = service[i][k]
  BY SMTT(30), <1>1, <1>2, <1>3, <1>5, <1>6, <1>8
<1>11. ASSUME NEW k \in lastApplied[i] + 1 .. commitIndex[i]
       PROVE  \E a \in applied' : a.Index = k /\ taken[k] = MessageOf(a)
  <2> DEFINE l == k - lastApplied[i]
  <2>1. l \in 1 .. Len(sent) /\ lastApplied[i] + l = k /\ k \in 1 .. commitIndex[i] /\ ~(k <= lastApplied[i])
    BY SMTT(30), <1>2, <1>3
  <2>2. lastApplied[i] + (commitIndex[i] - lastApplied[i]) = commitIndex[i]
    BY <1>2
  <2>3. taken[k] = msgs[l]
    BY Zenon, <1>3, <1>5, <1>6, <1>8, <2>1, <2>2
  <2>4. taken[k] = MessageOf(sent[l]) /\ sent[l].Index = k /\ sent[l] \in applied'
    BY Zenon, <1>1, <1>3, <1>4, <1>5, <2>1, <2>3
  <2>5. QED
    BY ZenonT(30), <2>4
<1>12. ASSUME NEW a \in applied' \ applied PROVE a.Index \in lastApplied[i] + 1 .. commitIndex[i]
  <2>1. PICK k \in 1 .. Len(sent) : a = sent[k]
    BY Zenon, <1>1, <1>4
  <2>2. QED
    BY SMTT(30), <1>2, <1>3, <2>1
<1>13. QED
  BY Zenon, <1>1, <1>2, <1>7, <1>9, <1>10, <1>11, <1>12

LEMMA InitServices == Init => ServicesInv
<1> SUFFICES ASSUME Init PROVE ServicesInv
  BY Zenon
<1>1. applied = {} /\ \A i \in Server : service[i] = <<>> /\ lastApplied[i] = 0 /\ Len(service[i]) = 0
  BY Zenon DEF Init
<1>2. {a.Index : a \in applied} = 1 .. 0 /\ 0 \in Nat
  BY <1>1
<1>3. QED
  BY Zenon, <1>1, <1>2 DEF ServicesInv

LEMMA NextServices ==
  ASSUME TypeOK, TypeOK', NoSnapshots, CompletenessInv, ServicesInv, [Next]_vars
  PROVE  ServicesInv'
<1>1. CASE UNCHANGED <<service, lastApplied, applied>>
  BY SMTT(30), <1>1 DEF ServicesInv
<1>2. ASSUME NEW i \in Server, Crash(i) PROVE ServicesInv'
  <2>1. PICK d : Boot(i, d) /\ d.SnapshotIndex = 0 /\ d.Snapshot = <<>>
    BY Zenon, <1>2, BootFresh
  <2>2. /\ service' = [service EXCEPT ![i] = <<>>] /\ lastApplied' = [lastApplied EXCEPT ![i] = 0]
        /\ applied' = applied
    BY Zenon, <2>1 DEF Boot
  <2>3. /\ service'[i] = <<>> /\ lastApplied'[i] = 0
        /\ \A j \in Server \ {i} : service'[j] = service[j] /\ lastApplied'[j] = lastApplied[j]
    BY <2>2 DEF TypeOK
  <2>4. Len(service'[i]) = 0
    BY Zenon, <2>3
  <2>5. QED
    BY <2>2, <2>3, <2>4 DEF ServicesInv
<1>3. ASSUME NEW i \in Server, applyToClient(i) PROVE ServicesInv'
  <2>1. PICK canon \in Canons : LogInvOf(canon) /\ ChosenInvOf(canon)
    BY Zenon DEF CompletenessInv
  <2>2. /\ lastApplied' = [lastApplied EXCEPT ![i] = commitIndex[i]] /\ commitIndex[i] > lastApplied[i]
        /\ service' = [service EXCEPT ![i] = service'[i]]
        /\ service'[i] \in Seq(Message) /\ Len(service'[i]) = commitIndex[i]
        /\ \A k \in 1 .. lastApplied[i] : service'[i][k] = service[i][k]
        /\ \A k \in lastApplied[i] + 1 .. commitIndex[i] :
             \E a \in applied' : a.Index = k /\ service'[i][k] = MessageOf(a)
        /\ applied \subseteq applied'
        /\ \A a \in applied' \ applied : a.Index \in lastApplied[i] + 1 .. commitIndex[i]
    BY Zenon, <1>3, <2>1, Delivery
  <2>3. lastApplied[i] \in Nat /\ commitIndex[i] \in Nat /\ DOMAIN service = Server /\ DOMAIN lastApplied = Server
    BY Zenon DEF TypeOK
  <2>4. ASSUME NEW j \in Server
        PROVE  /\ Len(service'[j]) = lastApplied'[j]
               /\ \A k \in 1 .. lastApplied'[j] : \E a \in applied' : a.Index = k /\ service'[j][k] = MessageOf(a)
    <3>1. CASE j # i
      <4>1. service'[j] = service[j] /\ lastApplied'[j] = lastApplied[j]
        BY Zenon, <2>2, <2>3, <3>1
      <4>2. QED
        BY <2>2, <4>1 DEF ServicesInv
    <3>2. CASE j = i
      <4>1. lastApplied'[i] = commitIndex[i]
        BY ZenonT(30), <2>2, <2>3
      <4>2. ASSUME NEW k \in 1 .. commitIndex[i]
            PROVE  \E a \in applied' : a.Index = k /\ service'[i][k] = MessageOf(a)
        <5>1. CASE k \in 1 .. lastApplied[i]
          BY <2>2, <5>1 DEF ServicesInv
        <5>2. CASE k \in lastApplied[i] + 1 .. commitIndex[i]
          BY Zenon, <2>2, <5>2
        <5>3. QED
          BY SMTT(30), <2>3, <5>1, <5>2
      <4>3. QED
        BY Zenon, <2>2, <3>2, <4>1, <4>2
    <3>3. QED
      BY Zenon, <3>1, <3>2
  <2>5. \E n \in Nat : {a.Index : a \in applied'} = 1 .. n
    <3>1. PICK n \in Nat : {a.Index : a \in applied} = 1 .. n
      BY Zenon DEF ServicesInv
    <3>2. \A a \in applied : a.Index \in 1 .. n
      BY Zenon, <3>1
    <3>3. \A k \in 1 .. n : \E a \in applied : a.Index = k
      BY Zenon, <3>1
    <3>4. lastApplied[i] <= n
      <4>1. CASE lastApplied[i] = 0
        BY <4>1
      <4>2. CASE lastApplied[i] \in 1 .. lastApplied[i]
        <5>1. \E a \in applied : a.Index = lastApplied[i]
          BY Zenon, <4>2 DEF ServicesInv
        <5>2. QED
          BY <2>3, <3>2, <5>1
      <4>3. QED
        BY <2>3, <4>1, <4>2
    <3>5. PICK M \in Nat : M = Max(n, commitIndex[i])
      BY Zenon, <2>3 DEF Max
    <3>6. ASSUME NEW a \in applied' PROVE a.Index \in 1 .. M
      BY SMTT(30), <2>2, <2>3, <3>2, <3>5 DEF Max
    <3>7. ASSUME NEW k \in 1 .. M PROVE \E a \in applied' : a.Index = k
      <4>1. CASE k <= n
        BY <2>2, <3>3, <4>1
      <4>2. CASE k > n
        <5>1. k \in lastApplied[i] + 1 .. commitIndex[i]
          BY SMTT(30), <2>3, <3>4, <3>5, <4>2 DEF Max
        <5>2. QED
          BY Zenon, <2>2, <5>1
      <4>3. QED
        BY SMTT(30), <4>1, <4>2
    <3>8. {a.Index : a \in applied'} = 1 .. M
      BY Zenon, <3>6, <3>7
    <3>9. QED
      BY Zenon, <3>8
  <2>6. QED
    BY Zenon, <2>4, <2>5 DEF ServicesInv
<1>4. QED
  BY Zenon, <1>1, <1>2, <1>3, ServiceKinds

\* The messages of a service carry the indexes 1, 2, 3 and so on.
LEMMA InvInOrder == ElectionInv /\ ServicesInv => AppliedInOrder
<1> SUFFICES ASSUME ElectionInv, ServicesInv, NEW i \in Server, NEW k \in DOMAIN service[i]
             PROVE  service[i][k].Index = k
  BY Zenon DEF AppliedInOrder
<1>1. service[i] \in Seq(Message)
  BY Zenon DEF ElectionInv, TypeOK, Snapshots
<1>2. k \in 1 .. lastApplied[i]
  BY Zenon, <1>1, LenProperties DEF ServicesInv
<1>3. PICK a \in applied : a.Index = k /\ service[i][k] = MessageOf(a)
  BY Zenon, <1>2 DEF ServicesInv
<1>4. QED
  BY <1>3 DEF MessageOf

-----------------------------------------------------------------------------
(* Progress *)

\* What a follower keeps of its log reaches its commit index, so that commitIndex, which is
\* taken from the end of what it kept, does not move back.
LEMMA AcceptProgress ==
  ASSUME Background, ElectionInv, TypeOK', NoSnapshots, NEW canon \in Canons, LogInvOf(canon), ChosenInvOf(canon),
         NEW i \in Server, NEW m \in aeArgs, AcceptAppend(i, m)
  PROVE  commitIndex'[i] >= commitIndex[i]
<1> DEFINE kept == Truncate(logs[i], 0, m.Entries)
           n    == CommitAfter(commitIndex[i], kept, m.LeaderCommit)
<1>1. TypeOK /\ snapshotIndex[i] = 0
  BY Zenon DEF ElectionInv, NoSnapshots
<1>2. /\ commitIndex' = [commitIndex EXCEPT ![i] = n] /\ ~PrevMissing(i, m) /\ ~PrevConflicts(i, m)
      /\ m.Term >= currentTerm[i]
  BY Zenon, <1>1 DEF AcceptAppend
<1>3. /\ m.Term \in Nat /\ m.LeaderCommit \in Nat /\ m.Entries \in Seq(Entry)
      /\ commitIndex[i] \in Nat /\ currentTerm[i] \in Nat /\ logs[i] \in Seq(Entry) /\ DOMAIN commitIndex = Server
  BY Zenon, <1>1, AppendFields DEF TypeOK
<1>4. kept \in Seq(Entry) /\ Len(kept) \in Nat
  BY Zenon, <1>3, TruncateIsSeq, LenProperties
<1>5. Spliced(logs[i], canon[m.Term], kept)
  <2>1. 0 \in 0 .. Len(Extension(Truncate(logs[i], 0, m.Entries), 0, m.Entries))
    BY SMTT(30), <1>3, <1>4, ExtensionIsSeq, LenProperties
  <2>2. QED
    BY Zenon, <1>1, <1>2, <2>1, AppendFits
<1> HIDE DEF kept
<1>6. commitIndex[i] <= Len(kept)
  <2>1. CASE commitIndex[i] = 0
    BY <1>4, <2>1
  <2>2. CASE commitIndex[i] > 0
    <3>1. PICK u \in Nat, k \in Nat : /\ Own(canon, u, k) /\ Chosen(u, k) /\ u <= currentTerm[i]
                                      /\ commitIndex[i] <= k /\ Agree(logs[i], canon[u], commitIndex[i])
      BY Zenon, <2>2 DEF ChosenInvOf, CommitSettled, Settled
    <3>2. Elected(m.Term) /\ Choosable(u, k) /\ m.Term >= u
      BY SMTT(30), <1>2, <1>3, <3>1, ChosenChoosable DEF Elected
    <3>3. LaterLeadersHave(canon)
      BY Zenon DEF ChosenInvOf
    <3>4. Agree(kept, canon[u], commitIndex[i])
      BY Zenon, <1>3, <1>5, <3>1, <3>2, <3>3, SpliceKeeps
    <3>5. QED
      BY Zenon, <3>4 DEF Agree
  <2>3. QED
    BY <1>3, <2>1, <2>2
<1>7. kept # <<>> => kept[Len(kept)].Index = Len(kept)
  <2>1. \A k \in 1 .. Len(logs[i]) : logs[i][k].Index = k
    BY Zenon, <1>1, LogNumbered
  <2>2. \A k \in 1 .. Len(canon[m.Term]) : canon[m.Term][k].Index = k
    BY Zenon, <1>3 DEF LogInvOf, Consistent
  <2>3. Len(canon[m.Term]) \in Nat
    BY Zenon, <1>3, LogEntries DEF Canons
  <2>4. kept # <<>> => Len(kept) \in 1 .. Len(kept)
    BY <1>4, EmptySeq
  <2>5. CASE kept = logs[i]
    BY ZenonT(30), <2>1, <2>4, <2>5
  <2>6. CASE Agree(kept, canon[m.Term], Len(kept))
    BY SMTT(30), <1>4, <2>2, <2>3, <2>4, <2>6 DEF Agree
  <2>7. QED
    BY Zenon, <1>5, <2>5, <2>6 DEF Spliced
<1>8. n >= commitIndex[i]
  BY SMTT(30), <1>3, <1>4, <1>6, <1>7 DEF CommitAfter, Min
<1> HIDE DEF n
<1>9. QED
  BY Zenon, <1>2, <1>3, <1>8

LEMMA StepProgress ==
  ASSUME Background, ElectionInv, TypeOK', NoSnapshots, CompletenessInv, [Next]_vars, NEW j \in Server,
         restarts'[j] = restarts[j]
  PROVE  commitIndex'[j] >= commitIndex[j] /\ lastApplied'[j] >= lastApplied[j]
<1>1. PICK canon \in Canons : LogInvOf(canon) /\ ChosenInvOf(canon)
  BY Zenon DEF CompletenessInv
<1>2. /\ TypeOK /\ DOMAIN commitIndex = Server /\ DOMAIN lastApplied = Server /\ restarts[j] \in Nat
      /\ DOMAIN restarts = Server /\ commitIndex[j] \in Nat /\ lastApplied[j] \in Nat
  BY Zenon DEF ElectionInv, TypeOK
<1>3. CASE UNCHANGED <<commitIndex, lastApplied>>
  BY <1>2, <1>3
<1>4. ASSUME NEW i \in Server, sendHeartBeat(i) \/ broadcastAppendEntries(i) \/ \E m : CountVote(i, m)
      PROVE  UNCHANGED <<commitIndex, lastApplied>>
  BY Zenon, <1>4 DEF sendHeartBeat, broadcastAppendEntries, CountVote, logVars, serviceVars
<1>5. ASSUME NEW i \in Server, applyToClient(i)
      PROVE  commitIndex'[j] >= commitIndex[j] /\ lastApplied'[j] >= lastApplied[j]
  <2>1. /\ UNCHANGED commitIndex /\ lastApplied' = [lastApplied EXCEPT ![i] = commitIndex[i]]
        /\ commitIndex[i] > lastApplied[i]
    BY Zenon, <1>5 DEF applyToClient, logVars
  <2>2. QED
    BY <1>2, <2>1
<1>6. ASSUME NEW i \in Server, Crash(i)
      PROVE  commitIndex'[j] >= commitIndex[j] /\ lastApplied'[j] >= lastApplied[j]
  <2>1. PICK d : Boot(i, d)
    BY Zenon, <1>6, BootFresh
  <2>2. /\ restarts' = [restarts EXCEPT ![i] = restarts[i] + 1]
        /\ commitIndex' = [commitIndex EXCEPT ![i] = d.SnapshotIndex]
        /\ lastApplied' = [lastApplied EXCEPT ![i] = d.SnapshotIndex]
    BY Zenon, <2>1 DEF Boot
  <2>3. j # i
    BY <1>2, <2>2
  <2>4. QED
    BY <1>2, <2>2, <2>3
<1>7. ASSUME NEW i \in Server, NEW m \in aeReplies, AppendSucceeded(i, m)
      PROVE  commitIndex'[j] >= commitIndex[j] /\ lastApplied'[j] >= lastApplied[j]
  <2>1. PICK n : commitIndex' = [commitIndex EXCEPT ![i] = n] /\ UNCHANGED lastApplied
    BY Zenon, <1>7 DEF AppendSucceeded, serviceVars
  <2>2. commitIndex'[i] >= commitIndex[i]
    BY Zenon, <1>1, <1>7, SucceededCommits
  <2>3. QED
    BY <1>2, <2>1, <2>2
<1>8. ASSUME NEW i \in Server, NEW m \in aeArgs, AcceptAppend(i, m)
      PROVE  commitIndex'[j] >= commitIndex[j] /\ lastApplied'[j] >= lastApplied[j]
  <2>1. PICK n : commitIndex' = [commitIndex EXCEPT ![i] = n] /\ UNCHANGED lastApplied
    BY Zenon, <1>8 DEF AcceptAppend, serviceVars
  <2>2. commitIndex'[i] >= commitIndex[i]
    BY Zenon, <1>1, <1>8, AcceptProgress
  <2>3. QED
    BY <1>2, <2>1, <2>2
<1>9. CommitKinds
  BY Zenon, <1>2, NextCommitKinds
<1>10. QED
  BY Zenon, <1>3, <1>4, <1>5, <1>6, <1>7, <1>8, <1>9 DEF CommitKinds, CommitIdle

-----------------------------------------------------------------------------
(* Refinement: the peers implement ReplicatedLog *)

\* The abstract log of a set of applied entries, and what a service was sent, as Raft.tla maps them.
LogOf(A) ==
  [k \in 1 .. Cardinality({e.Index : e \in A}) |->
     {[Index |-> e.Index, Command |-> e.Command] : e \in {a \in A : a.Index = k}}]
SentOf(s) == [k \in DOMAIN s |-> {s[k]}]

LEMMA PrefixOf ==
  ASSUME NEW S, NEW s \in Seq(S), NEW t \in Seq(S), Len(s) <= Len(t), \A k \in 1 .. Len(s) : s[k] = t[k]
  PROVE  Abstract!Prefix(s, t)
<1> DEFINE u == SubSeq(t, 1, Len(s))
<1>1. Len(s) \in Nat /\ Len(t) \in Nat
  BY Zenon, LenProperties
<1>2. \A k \in 1 .. Len(s) : t[k] \in S
  BY Zenon, <1>1, ElementOfSeq
<1>3. u \in Seq(S) /\ Len(u) = Len(s) /\ \A k \in 1 .. Len(s) : u[k] = t[k]
  BY <1>1, <1>2, SubSeqProperties
<1> HIDE DEF u
<1>4. u = s
  BY Zenon, <1>3, SeqEqual
<1>5. QED
  BY Zenon, <1>4 DEF Abstract!Prefix, u

LEMMA LogOfEntries ==
  ASSUME Background, NEW A \in SUBSET Entry, NEW n \in Nat, {a.Index : a \in A} = 1 .. n,
         \A a, b \in A : a.Index = b.Index => a = b
  PROVE  /\ LogOf(A) \in Seq(SUBSET Message) /\ Len(LogOf(A)) = n
         /\ \A a \in A : a.Index \in 1 .. n /\ LogOf(A)[a.Index] = {MessageOf(a)}
         /\ \A k \in 1 .. n : \E a \in A : a.Index = k
<1> DEFINE At(k) == {[Index |-> e.Index, Command |-> e.Command] : e \in {a \in A : a.Index = k}}
<1>1. Cardinality({a.Index : a \in A}) = n
  BY Zenon DEF Background
<1>2. \A k \in 1 .. n : At(k) \subseteq Message
  <2>1. \A e \in A : e.Index \in Nat /\ e.Command \in Command
    BY Zenon DEF Entry
  <2>2. \A e \in A : [Index |-> e.Index, Command |-> e.Command] \in Message
    BY Zenon, <2>1 DEF Message
  <2>3. QED
    BY Zenon, <2>2
<1>3. LogOf(A) = [k \in 1 .. n |-> At(k)]
  BY Zenon, <1>1 DEF LogOf
<1>4. \A a \in A : a.Index \in 1 .. n /\ At(a.Index) = {MessageOf(a)}
  BY Zenon DEF MessageOf
<1> HIDE DEF At
<1>5. LogOf(A) \in [1 .. n -> SUBSET Message]
  BY Zenon, <1>2, <1>3
<1>6. LogOf(A) \in Seq(SUBSET Message) /\ DOMAIN LogOf(A) = 1 .. n
  BY <1>5, SeqDef
<1>7. Len(LogOf(A)) = n
  BY <1>6, LenProperties
<1>8. \A a \in A : a.Index \in 1 .. n /\ LogOf(A)[a.Index] = {MessageOf(a)}
  BY Zenon, <1>3, <1>4
<1>9. QED
  BY Zenon, <1>6, <1>7, <1>8

LEMMA SentOfMessages ==
  ASSUME NEW s \in Seq(Message)
  PROVE  /\ SentOf(s) \in Seq(SUBSET Message) /\ Len(SentOf(s)) = Len(s)
         /\ \A k \in 1 .. Len(s) : SentOf(s)[k] = {s[k]}
<1>1. Len(s) \in Nat /\ DOMAIN s = 1 .. Len(s) /\ \A k \in 1 .. Len(s) : {s[k]} \in SUBSET Message
  BY LenProperties
<1>2. SentOf(s) = [k \in 1 .. Len(s) |-> {s[k]}]
  BY Zenon, <1>1 DEF SentOf
<1>3. SentOf(s) \in [1 .. Len(s) -> SUBSET Message]
  BY Zenon, <1>1, <1>2
<1>4. SentOf(s) \in Seq(SUBSET Message) /\ DOMAIN SentOf(s) = 1 .. Len(s)
  BY <1>1, <1>3, SeqDef
<1>5. Len(SentOf(s)) = Len(s)
  BY <1>1, <1>4, LenProperties
<1>6. QED
  BY Zenon, <1>2, <1>4, <1>5

\* An applyToClient step is Deliver of the abstract log.
LEMMA ApplyDelivers ==
  ASSUME Background, TypeOK, TypeOK', NoSnapshots, CompletenessInv, ServicesInv, ServicesInv',
         StateMachineSafety, StateMachineSafety', NEW i \in Server, applyToClient(i)
  PROVE  Abstract!Deliver(i)
<1>1. PICK canon \in Canons : LogInvOf(canon) /\ ChosenInvOf(canon)
  BY Zenon DEF CompletenessInv
<1>2. /\ lastApplied' = [lastApplied EXCEPT ![i] = commitIndex[i]] /\ commitIndex[i] > lastApplied[i]
      /\ service' = [service EXCEPT ![i] = service'[i]]
      /\ \A k \in 1 .. lastApplied[i] : service'[i][k] = service[i][k]
      /\ applied \subseteq applied'
  BY Zenon, <1>1, Delivery
<1>3. /\ service[i] \in Seq(Message) /\ service'[i] \in Seq(Message) /\ DOMAIN service = Server
      /\ applied \in SUBSET Entry /\ applied' \in SUBSET Entry
      /\ lastApplied[i] \in Nat /\ lastApplied'[i] \in Nat /\ commitIndex[i] \in Nat /\ DOMAIN lastApplied = Server
  BY Zenon DEF TypeOK, Snapshots
<1>4. PICK A \in SUBSET Entry, B \in SUBSET Entry : A = applied /\ B = applied'
  BY Zenon, <1>3
<1>5. PICK n \in Nat, p \in Nat : {a.Index : a \in A} = 1 .. n /\ {a.Index : a \in B} = 1 .. p
  BY Zenon, <1>4 DEF ServicesInv
<1>6. (\A a, b \in A : a.Index = b.Index => a = b) /\ (\A a, b \in B : a.Index = b.Index => a = b)
  BY Zenon, <1>4 DEF StateMachineSafety
<1>7. /\ LogOf(A) \in Seq(SUBSET Message) /\ Len(LogOf(A)) = n
      /\ \A a \in A : a.Index \in 1 .. n /\ LogOf(A)[a.Index] = {MessageOf(a)}
      /\ \A k \in 1 .. n : \E a \in A : a.Index = k
  BY Zenon, <1>5, <1>6, LogOfEntries
<1>8. /\ LogOf(B) \in Seq(SUBSET Message) /\ Len(LogOf(B)) = p
      /\ \A a \in B : a.Index \in 1 .. p /\ LogOf(B)[a.Index] = {MessageOf(a)}
      /\ \A k \in 1 .. p : \E a \in B : a.Index = k
  BY Zenon, <1>5, <1>6, LogOfEntries
<1>9. PICK s \in Seq(Message), t \in Seq(Message) : s = service[i] /\ t = service'[i]
  BY Zenon, <1>3
<1>10. /\ SentOf(s) \in Seq(SUBSET Message) /\ Len(SentOf(s)) = Len(s) /\ Len(s) \in Nat
       /\ \A k \in 1 .. Len(s) : SentOf(s)[k] = {s[k]}
       /\ SentOf(t) \in Seq(SUBSET Message) /\ Len(SentOf(t)) = Len(t) /\ Len(t) \in Nat
       /\ \A k \in 1 .. Len(t) : SentOf(t)[k] = {t[k]}
  BY Zenon, SentOfMessages, LenProperties
<1>11. Abstract!Prefix(LogOf(A), LogOf(B))
  <2>1. \A k \in 1 .. n : k \in 1 .. p /\ LogOf(A)[k] = LogOf(B)[k]
    <3> SUFFICES ASSUME NEW k \in 1 .. n PROVE k \in 1 .. p /\ LogOf(A)[k] = LogOf(B)[k]
      BY Zenon
    <3>1. PICK a \in A : a.Index = k
      BY Zenon, <1>7
    <3>2. a \in B
      BY Zenon, <1>2, <1>4
    <3>3. LogOf(A)[k] = {MessageOf(a)} /\ LogOf(B)[k] = {MessageOf(a)} /\ k \in 1 .. p
      BY ZenonT(30), <1>7, <1>8, <3>1, <3>2
    <3>4. QED
      BY Zenon, <3>3
  <2>2. n <= p
    BY <1>5, <2>1
  <2>3. QED
    BY Zenon, <1>7, <1>8, <2>1, <2>2, PrefixOf
<1>12. Abstract!Prefix(SentOf(s), SentOf(t))
  <2>1. Len(s) = lastApplied[i] /\ Len(t) = commitIndex[i] /\ \A k \in 1 .. Len(s) : t[k] = s[k]
    BY Zenon, <1>2, <1>3, <1>9 DEF ServicesInv
  <2>2. Len(s) <= Len(t) /\ \A k \in 1 .. Len(s) : SentOf(s)[k] = SentOf(t)[k]
    <3>1. Len(s) <= Len(t)
      BY SMTT(30), <1>2, <1>3, <2>1
    <3>2. \A k \in 1 .. Len(s) : k \in 1 .. Len(t)
      BY <1>10, <3>1
    <3>3. QED
      BY Zenon, <1>10, <2>1, <3>1, <3>2
  <2>3. QED
    BY Zenon, <1>10, <2>2, PrefixOf
<1>13. Abstract!Prefix(SentOf(t), LogOf(B))
  <2>1. \A k \in 1 .. Len(t) : \E a \in B : a.Index = k /\ t[k] = MessageOf(a)
    BY <1>4, <1>9 DEF ServicesInv
  <2>2. \A k \in 1 .. Len(t) : k \in 1 .. p /\ SentOf(t)[k] = LogOf(B)[k]
    BY ZenonT(30), <1>8, <1>10, <2>1
  <2>3. Len(t) <= p
    BY <1>5, <1>10, <2>2
  <2>4. QED
    BY Zenon, <1>8, <1>10, <2>2, <2>3, PrefixOf
<1>14. AppliedLog = LogOf(A) /\ AppliedLog' = LogOf(B)
  BY Zenon, <1>4 DEF AppliedLog, LogOf
<1>15. Delivered[i] = SentOf(s) /\ Delivered'[i] = SentOf(t)
  BY Zenon, <1>9 DEF Delivered, SentOf
<1>16. Delivered' = [Delivered EXCEPT ![i] = Delivered'[i]]
  <2>1. \A j \in Server \ {i} : service'[j] = service[j]
    BY Zenon, <1>2, <1>3
  <2>2. QED
    BY Zenon, <2>1 DEF Delivered
<1>17. QED
  BY Zenon, <1>11, <1>12, <1>13, <1>14, <1>15, <1>16 DEF Abstract!Deliver, Abstract!Others

\* A restart, clean or in the middle of a handler, is Restart of the abstract log.
LEMMA CrashRestarts ==
  ASSUME TypeOK, NoSnapshots, NEW i \in Server, Crash(i)
  PROVE  Abstract!Restart(i)
<1>1. PICK d : Boot(i, d) /\ d.SnapshotIndex = 0 /\ d.Snapshot = <<>>
  BY Zenon, BootFresh
<1>2. service' = [service EXCEPT ![i] = <<>>] /\ applied' = applied
  BY Zenon, <1>1 DEF Boot
<1>3. service[i] \in Seq(Message) /\ DOMAIN service = Server
  BY Zenon DEF TypeOK, Snapshots
<1>4. service'[i] = <<>> /\ \A j \in Server \ {i} : service'[j] = service[j]
  BY Zenon, <1>2, <1>3
<1>5. Delivered' = [Delivered EXCEPT ![i] = Delivered'[i]]
  BY Zenon, <1>4 DEF Delivered
<1>6. PICK s \in Seq(Message) : s = service[i]
  BY Zenon, <1>3
<1>7. <<>> \in Seq(Message) /\ Len(<<>>) = 0
  OBVIOUS
<1>8. Abstract!Prefix(SentOf(<<>>), SentOf(s))
  <2>1. SentOf(<<>>) \in Seq(SUBSET Message) /\ Len(SentOf(<<>>)) = 0
    BY Zenon, <1>7, SentOfMessages
  <2>2. SentOf(s) \in Seq(SUBSET Message) /\ Len(SentOf(s)) \in Nat
    BY Zenon, SentOfMessages, LenProperties
  <2>3. QED
    BY <2>1, <2>2, PrefixOf
<1>9. Delivered[i] = SentOf(s) /\ Delivered'[i] = SentOf(<<>>)
  BY Zenon, <1>4, <1>6 DEF Delivered, SentOf
<1>10. AppliedLog' = AppliedLog
  BY Zenon, <1>2 DEF AppliedLog
<1>11. QED
  BY Zenon, <1>5, <1>8, <1>9, <1>10 DEF Abstract!Restart, Abstract!Others

\* At first the log is empty and nothing was sent.
LEMMA InitImplements == Background /\ Init => Abstract!Init
<1> SUFFICES ASSUME Background, Init PROVE Abstract!Init
  BY Zenon
<1>1. applied = {} /\ service = [i \in Server |-> <<>>]
  BY Zenon DEF Init
<1>2. {e.Index : e \in {}} = 1 .. 0 /\ {} \in SUBSET Entry /\ 0 \in Nat
  OBVIOUS
<1>3. AppliedLog = <<>>
  <2>1. LogOf({}) \in Seq(SUBSET Message) /\ Len(LogOf({})) = 0
    BY Zenon, <1>2, LogOfEntries
  <2>2. LogOf({}) = <<>>
    BY Zenon, <2>1, EmptySeq
  <2>3. QED
    BY Zenon, <1>1, <2>2 DEF AppliedLog, LogOf
<1>4. Delivered = [i \in Server |-> <<>>]
  BY <1>1 DEF Delivered
<1>5. QED
  BY Zenon, <1>3, <1>4 DEF Abstract!Init

\* A step delivers more of the log to one service, restarts one, or changes nothing.
LEMMA NextImplements ==
  /\ Background /\ ElectionInv /\ NoSnapshots /\ CompletenessInv /\ ServicesInv /\ StateMachineSafety
  /\ ElectionInv' /\ ServicesInv' /\ StateMachineSafety' /\ [Next]_vars
  => [Abstract!Next]_<<AppliedLog, Delivered>>
<1> SUFFICES ASSUME Background, ElectionInv, NoSnapshots, CompletenessInv, ServicesInv, StateMachineSafety,
                    ElectionInv', ServicesInv', StateMachineSafety', [Next]_vars
             PROVE  [Abstract!Next]_<<AppliedLog, Delivered>>
  BY Zenon
<1>1. TypeOK /\ TypeOK'
  BY Zenon DEF ElectionInv
<1>2. CASE UNCHANGED <<service, lastApplied, applied>>
  BY Zenon, <1>2 DEF AppliedLog, Delivered
<1>3. ASSUME NEW i \in Server, applyToClient(i) PROVE Abstract!Next
  BY Zenon, <1>1, <1>3, ApplyDelivers DEF Abstract!Next
<1>4. ASSUME NEW i \in Server, Crash(i) PROVE Abstract!Next
  BY Zenon, <1>1, <1>4, CrashRestarts DEF Abstract!Next
<1>5. QED
  BY Zenon, <1>1, <1>2, <1>3, <1>4, ServiceKinds

=============================================================================
