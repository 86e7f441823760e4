---------------------------- MODULE RaftLiveness ----------------------------
(***************************************************************************)
(* What a leader owes its followers while nobody runs against it.  The     *)
(* starts of MCRaft with MaxTerm at the leader's term leave one leader.    *)
(*                                                                         *)
(* Fairness.  runAsLeader's three timers are reset each time they fire, so *)
(* the leader keeps sending and applying.  labrpc answers every call, and  *)
(* some copy of a call the leader keeps repeating is delivered, as is its  *)
(* reply; nothing is assumed of calls the leader no longer makes, and Start*)
(* and Snapshot need never be called.                                      *)
(***************************************************************************)
EXTENDS MCRaft

LeaderIs(i) == status[i] = "LEADER"

\* The calls the leader makes to j as things stand.
CurrentCalls(j) ==
  {m \in aeArgs : m.dst = j /\ LeaderIs(m.src)
     /\ m \in {Heartbeat(m.src, j, currentTerm[m.src]), Broadcast(m.src, j)}}

HeartbeatArrives(j) ==
  \E m \in CurrentCalls(j) : m.Entries = <<>> /\ ReceiveAppend(m)
EntriesArrive(j) ==
  \E m \in CurrentCalls(j) : m.Entries # <<>> /\ ReceiveAppend(m)

\* j's answers to those calls.
AnswerArrives(j, granted) ==
  \E m \in CurrentCalls(j) :
    /\ AppendAnswer(j, m).Success = granted
    /\ AppendAnswer(j, m) \in aeReplies
    /\ ReceiveAppendReply(AppendAnswer(j, m))

InstallArrives(j) ==
  \E m \in isArgs : /\ m.dst = j /\ LeaderIs(m.src) /\ m.LastIncludedIndex > snapshotIndex[j]
                    /\ ReceiveInstall(m)

\* The peers of S stay connected.
Fairness(S) ==
  /\ WF_vars(\E i \in Server : sendHeartBeat(i))
  /\ WF_vars(\E i \in Server : broadcastAppendEntries(i))
  /\ \A j \in S :
       /\ WF_vars(applyToClient(j))
       /\ WF_vars(HeartbeatArrives(j)) /\ WF_vars(EntriesArrive(j))
       /\ WF_vars(AnswerArrives(j, TRUE)) /\ WF_vars(AnswerArrives(j, FALSE))
       /\ WF_vars(InstallArrives(j))

\* The leader and the peer it is in touch with, the third one gets no call.  That peer has
\* a log that conflicts with the leader's, or lacks what the leader holds only in its
\* snapshot.  The peers are interchangeable, so one choice of who is who is enough.
Leader == CHOOSE i \in Server : TRUE
Rival  == CHOOSE i \in Peers(Leader) : TRUE
InTouch == {Leader, Rival}

CatchUpInit ==
  /\ (DivergedInit /\ logs[Rival] # <<>>) \/ (LaggingInit /\ logs[Rival] = <<>>)
  /\ LeaderIs(Leader)

\* The leader takes no snapshot but that of the start.
CatchUpNext ==
  /\ Next
  /\ \A m \in (aeReplies' \ aeReplies) \cup (isReplies' \ isReplies) : m.src \in InTouch
  /\ snapshotIndex'[Leader] = snapshotIndex[Leader]

CatchUpSpec == CatchUpInit /\ [][CatchUpNext]_vars /\ Fairness(InTouch)

\* A command Start has put in the log of a leader that still holds its whole log is
\* applied by every connected peer, over conflicting tails, lost copies of calls and late
\* answers.
AcceptedIsApplied ==
  \A n \in 1 .. MaxIndex :
    (\E i \in Server : LeaderIs(i) /\ snapshotIndex[i] = 0 /\ \E k \in DOMAIN logs[i] :
        logs[i][k].Index = n /\ logs[i][k].Term = currentTerm[i])
      ~> (\A j \in InTouch : lastApplied[j] >= n)

\* A connected peer that lacks what the leader holds only in its snapshot comes to have
\* the snapshot ("when the leader has already discarded the next log entry that it needs
\* to send", runAsLeader), once the log of the leader is not empty.
SnapshotInstalled ==
  (logs[Leader] # <<>> /\ LogEnd(Rival) < snapshotIndex[Leader])
    ~> (lastApplied[Rival] >= snapshotIndex[Leader])
=============================================================================
