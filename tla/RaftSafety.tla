----------------------------- MODULE RaftSafety -----------------------------
(***************************************************************************)
(* What holds in every behaviour of Raft: the steps of RaftElectionSafety, *)
(* RaftLogMatching and RaftCompleteness put together.                      *)
(***************************************************************************)
EXTENDS RaftCompleteness, FiniteSetTheorems

-----------------------------------------------------------------------------
(* The facts about finite sets and numbers *)

LessThan == {ss \in Nat \X Nat : ss[1] < ss[2]}

\* A non-empty set of naturals has a least element: the loops of the handlers that
\* look for the first entry of some kind find one.
LEMMA NatMin ==
  ASSUME NEW S \in SUBSET Nat, S # {}
  PROVE  \E x \in S : \A y \in S : x <= y
<1>1. IsWellFoundedOn(LessThan, Nat)
  BY NatLessThanWellFounded DEF OpToRel, LessThan
<1>2. PICK x \in S : \A y \in S : ~(<<y, x>> \in LessThan)
  BY Zenon, <1>1, WFMin
<1>3. \A a, b \in Nat : a < b => <<a, b>> \in LessThan
  BY DEF LessThan
<1>4. \A y \in S : ~(y < x)
  BY Zenon, <1>2, <1>3
<1>5. \A y \in S : x <= y
  BY <1>4
<1>6. QED
  BY <1>5

\* The facts about sizes that the proofs about majorities use, from the library's theorems.
LEMMA SizesKnown == Background
<1>1. ASSUME NEW S \in SUBSET Nat, S # {} PROVE \E x \in S : \A y \in S : x <= y
  BY Zenon, <1>1, NatMin
<1>2. ASSUME NEW n \in Nat PROVE Cardinality(1 .. n) = n
  <2>1. Cardinality(1 .. n) = IF 1 > n THEN 0 ELSE n - 1 + 1
    BY FS_Interval
  <2>2. QED
    BY <2>1
<1>3. ASSUME NEW x \in Server PROVE Cardinality({x}) = 1
  BY Zenon, FS_Singleton
<1>4. ASSUME NEW S \in SUBSET Server
      PROVE  /\ Cardinality(S) \in Nat
             /\ \A T \in SUBSET S : Cardinality(T) <= Cardinality(S)
             /\ \A x \in Server \ S : Cardinality(S \cup {x}) = Cardinality(S) + 1
             /\ \A T \in SUBSET Server :
                  Cardinality(S) + Cardinality(T) > Cardinality(Server) => S \cap T # {}
  <2>1. IsFiniteSet(Server) /\ IsFiniteSet(S)
    BY Zenon, ServerAssumption, FS_Subset
  <2>2. Cardinality(S) \in Nat
    BY Zenon, <2>1, FS_CardinalityType
  <2>3. ASSUME NEW T \in SUBSET S PROVE Cardinality(T) <= Cardinality(S)
    BY Zenon, <2>1, FS_Subset
  <2>4. ASSUME NEW x \in Server \ S PROVE Cardinality(S \cup {x}) = Cardinality(S) + 1
    BY Zenon, <2>1, FS_AddElement
  <2>5. ASSUME NEW T \in SUBSET Server, Cardinality(S) + Cardinality(T) > Cardinality(Server)
        PROVE  S \cap T # {}
    BY Zenon, <2>1, <2>5, FS_MajoritiesIntersect
  <2>6. QED
    BY Zenon, <2>2, <2>3, <2>4, <2>5
<1>5. QED
  BY Zenon, <1>1, <1>2, <1>3, <1>4 DEF Background

-----------------------------------------------------------------------------
(* Types and elections *)

\* For any finite set of peers, any commands and any bounds, the fields of every peer,
\* what it stores and the calls and replies under way keep their types; in particular
\* no index that a handler stores or sends is negative.
THEOREM TypeCorrect == Spec => []TypeOK
<1>1. Init => TypeOK
  BY InitTypes
<1>2. TypeOK /\ [Next]_vars => TypeOK'
  BY Zenon, SizesKnown, NextTypes
<1>3. QED
  BY <1>1, <1>2, PTL DEF Spec

\* The invariant of elections, and with it what it implies, holds throughout.
THEOREM ElectionCorrect == Spec => []ElectionInv
<1>1. Init => ElectionInv
  BY InitElection
<1>2. ElectionInv /\ [Next]_vars => ElectionInv'
  BY Zenon, SizesKnown, NextElection
<1>3. QED
  BY <1>1, <1>2, PTL DEF Spec

\* However many peers, terms and crashes: no peer gives its vote to two candidates of one
\* term, although handleRequestVote clears votedFor whenever it refuses a candidate.
THEOREM VotesAreUnique == Spec => []OneVotePerTerm
<1>1. ElectionInv => OneVotePerTerm
  BY DEF ElectionInv
<1>2. QED
  BY <1>1, ElectionCorrect, PTL

\* However many peers, terms and crashes: no two peers lead in the same term.
THEOREM LeadersAreUnique == Spec => []ElectionSafety
<1>1. ElectionInv => ElectionSafety
  BY Zenon, SizesKnown, OneLeader
<1>2. QED
  BY <1>1, ElectionCorrect, PTL

-----------------------------------------------------------------------------
(* Logs without snapshots *)

\* However many peers, commands and crashes: without snapshots the log a peer would find
\* after a crash is the one it works with.
THEOREM StoredLogIsLog ==
  ASSUME SnapShotInterval = 0
  PROVE  Spec => []NoSnapshots
<1>1. Init => TypeOK /\ NoSnapshots
  BY InitTypes, InitNoSnapshots
<1>2. TypeOK /\ NoSnapshots /\ [Next]_vars => NoSnapshots'
  BY NextNoSnapshots
<1>3. QED
  BY <1>1, <1>2, TypeCorrect, PTL DEF Spec

\* Without snapshots the invariant of logs holds throughout.
THEOREM LogsCorrect ==
  ASSUME SnapShotInterval = 0
  PROVE  Spec => [](ElectionInv /\ NoSnapshots /\ LogInv)
<1>1. Init => LogInv
  BY InitLog
<1>2. ElectionInv /\ ElectionInv' /\ NoSnapshots /\ LogInv /\ [Next]_vars => LogInv'
  BY SizesKnown, NextLog
<1>3. QED
  BY <1>1, <1>2, ElectionCorrect, StoredLogIsLog, PTL DEF Spec

\* However many peers, terms, commands and crashes: where two logs have an entry of the same
\* term, handleAppendEntries has made them equal up to it (no snapshots).
THEOREM LogsMatch ==
  ASSUME SnapShotInterval = 0
  PROVE  Spec => []LogMatching
<1>1. ElectionInv /\ LogInv => LogMatching
  BY InvMatching
<1>2. QED
  BY <1>1, LogsCorrect, PTL

\* However many peers, terms, commands and crashes: entry k of every log has index k, so the
\* positions raft.go computes from indexes are those of the entries meant (no snapshots).
THEOREM EntriesAreNumbered ==
  ASSUME SnapShotInterval = 0
  PROVE  Spec => []LogIndexed
<1>1. ElectionInv /\ NoSnapshots /\ LogInv => LogIndexed
  BY InvIndexed
<1>2. QED
  BY <1>1, LogsCorrect, PTL

\* However many peers, terms, commands and crashes: the entries of an AppendEntries call
\* follow its PrevLogIndex without a gap, as the leader's matchIndex arithmetic takes for
\* granted (no snapshots).
THEOREM CallsAreNumbered ==
  ASSUME SnapShotInterval = 0
  PROVE  Spec => []CallIndexed
<1>1. ElectionInv /\ NoSnapshots /\ LogInv => CallIndexed
  BY InvIndexed
<1>2. QED
  BY <1>1, LogsCorrect, PTL

\* However many peers, terms, commands and crashes: what a leader's matchIndex says of a
\* follower in its term is on that follower's stable storage (no snapshots).
THEOREM MatchesAreDurable ==
  ASSUME SnapShotInterval = 0
  PROVE  Spec => []MatchIsDurable
<1>1. ElectionInv /\ NoSnapshots /\ LogInv => MatchIsDurable
  BY InvDurable
<1>2. QED
  BY <1>1, LogsCorrect, PTL

-----------------------------------------------------------------------------
(* What is chosen, committed and applied, without snapshots *)

\* Without snapshots the invariant of what is chosen and committed holds throughout.
THEOREM ChosenCorrect ==
  ASSUME SnapShotInterval = 0
  PROVE  Spec => [](ElectionInv /\ NoSnapshots /\ CompletenessInv)
<1>1. Init => CompletenessInv
  BY InitCompleteness
<1>2. ElectionInv /\ ElectionInv' /\ NoSnapshots /\ CompletenessInv /\ [Next]_vars => CompletenessInv'
  BY SizesKnown, NextCompleteness
<1>3. QED
  BY <1>1, <1>2, ElectionCorrect, StoredLogIsLog, PTL DEF Spec

\* A leader has every entry that any peer of its term or an earlier one holds committed, however
\* many peers, terms, commands and crashes: updateCommitIndex counts only entries of the
\* leader's term, and handleRequestVote compares the logs (no snapshots).
THEOREM LeadersAreComplete ==
  ASSUME SnapShotInterval = 0
  PROVE  Spec => []LeaderCompleteness
<1>1. ElectionInv /\ CompletenessInv => LeaderCompleteness
  BY InvCompleteness
<1>2. QED
  BY <1>1, ChosenCorrect, PTL

\* No two services are ever sent different entries for one index by applyToClient, however
\* many peers, terms, commands and crashes (no snapshots).
THEOREM ServicesAgree ==
  ASSUME SnapShotInterval = 0
  PROVE  Spec => []StateMachineSafety
<1>1. CompletenessInv => StateMachineSafety
  BY InvAgreement
<1>2. QED
  BY <1>1, ChosenCorrect, PTL

\* No index or slice expression of the handlers is ever out of range, however many peers,
\* terms, commands and crashes (no snapshots).
THEOREM HandlersDoNotPanic ==
  ASSUME SnapShotInterval = 0
  PROVE  Spec => []NoPanic
<1>1. Init => NoPanic
  BY DEF Init, NoPanic
<1>2. ElectionInv /\ ElectionInv' /\ NoSnapshots /\ CompletenessInv /\ NoPanic /\ [Next]_vars => NoPanic'
  BY NextNoPanic DEF ElectionInv
<1>3. QED
  BY <1>1, <1>2, ChosenCorrect, PTL DEF Spec

\* In every reachable state each service was sent the applied entries up to lastApplied, one
\* message for each index (no snapshots).
THEOREM ServicesCorrect ==
  ASSUME SnapShotInterval = 0
  PROVE  Spec => [](ElectionInv /\ NoSnapshots /\ CompletenessInv /\ ServicesInv)
<1>1. Init => ServicesInv
  BY InitServices
<1>2. ElectionInv /\ ElectionInv' /\ NoSnapshots /\ CompletenessInv /\ ServicesInv /\ [Next]_vars => ServicesInv'
  BY NextServices DEF ElectionInv
<1>3. QED
  BY <1>1, <1>2, ChosenCorrect, PTL DEF Spec

\* Every service is sent the commands in index order without a gap, from 1 after each restart,
\* as applierSnap demands of every message (no snapshots).
THEOREM ServicesGetEveryIndex ==
  ASSUME SnapShotInterval = 0
  PROVE  Spec => []AppliedInOrder
<1>1. ElectionInv /\ ServicesInv => AppliedInOrder
  BY InvInOrder
<1>2. QED
  BY <1>1, ServicesCorrect, PTL

\* Between two restarts of a peer neither its commitIndex nor its lastApplied ever moves back,
\* whatever old or reordered calls handleAppendEntries gets (no snapshots).
THEOREM ProgressIsKept ==
  ASSUME SnapShotInterval = 0
  PROVE  Spec => ProgressKept
<1>1. ElectionInv /\ ElectionInv' /\ NoSnapshots /\ CompletenessInv /\ [Next]_vars =>
        [\A i \in Server : restarts'[i] = restarts[i] =>
           commitIndex'[i] >= commitIndex[i] /\ lastApplied'[i] >= lastApplied[i]]_vars
  BY SizesKnown, StepProgress DEF ElectionInv
<1>2. QED
  BY <1>1, ChosenCorrect, PTL DEF Spec, ProgressKept

\* The peers implement one append-only log of which every service is sent a prefix: at first
\* the log is empty, applyToClient delivers more of it, a restart begins again from its start
\* and every other handler leaves it alone (no snapshots).
THEOREM PeersImplementReplicatedLog ==
  ASSUME SnapShotInterval = 0
  PROVE  Spec => ImplementsReplicatedLog
<1>1. Init => Abstract!Init
  BY Zenon, SizesKnown, InitImplements
<1>2. /\ ElectionInv /\ NoSnapshots /\ CompletenessInv /\ ServicesInv /\ StateMachineSafety
      /\ ElectionInv' /\ ServicesInv' /\ StateMachineSafety' /\ [Next]_vars
      => [Abstract!Next]_<<AppliedLog, Delivered>>
  BY Zenon, SizesKnown, NextImplements
<1>3. QED
  BY <1>1, <1>2, ServicesCorrect, ServicesAgree, PTL DEF Spec, ImplementsReplicatedLog, Abstract!Spec

=============================================================================
