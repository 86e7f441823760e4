--------------------------- MODULE RaftGoroutines ---------------------------
(***************************************************************************)
(* The goroutines of one peer of raft/raft.go and the channels between     *)
(* them.  The main goroutine runs one of three select loops.  Start, the   *)
(* RPC handlers, the goroutines of Snapshot and those of appendEntries all *)
(* send to it on unbuffered channels, the first two wait for its reply,    *)
(* and it sends to the service on applyCh, which may call Snapshot.  What  *)
(* the handlers do to the log is in Raft; here they may change the status  *)
(* and have messages to apply.  A channel is a rendezvous, so a send and   *)
(* its receive are one step.                                               *)
(***************************************************************************)
EXTENDS Naturals

CONSTANTS
  Caller,        \* goroutines that call Start
  Handler,       \* goroutines labrpc runs RPC handlers in
  Call,          \* goroutines of appendEntries
  MaxBurst,      \* bound on the messages one applyToClient sends
  MaxSnapshots,  \* bound on the goroutines of Snapshot under way
  MaxReigns      \* bound on how often the peer is elected

VARIABLES
  status,     \* rf.status
  main,       \* where the main goroutine is
  left,       \* messages it still has to send on applyCh
  client,     \* the goroutine it replies to; NoOne in a timer's case
  request,    \* per caller and handler: the channel it uses and where it is
  applier,    \* where the service's applier goroutine is
  snapshots,  \* goroutines that send on snapshotRequestCh
  calls,      \* per goroutine of appendEntries: where it is, the reign of its call and
              \* that of the appendEntriesReplyCh it sends on
  reign,      \* how often runAsLeader has begun; each reign has a higher term
  heard,      \* the reign of the last answer the leader acted on in this one, or 0
  killed      \* mainContext is done

vars == <<status, main, left, client, request, applier, snapshots, calls, reign, heard, killed>>

NoOne == "no one"
ASSUME NoOneAssumption == NoOne \notin Caller \cup Handler
Rpc == {"requestVote", "appendEntries", "installSnapshot"}
Idle == [chan |-> "none", at |-> "idle"]

Init ==
  /\ status = "FOLLOWER" /\ main = "select" /\ left = 0 /\ client = NoOne
  /\ request = [g \in Caller \cup Handler |-> Idle]
  /\ applier = "range" /\ snapshots = 0
  /\ calls = [c \in Call |-> [at |-> "idle", of |-> 0, chan |-> 0]]
  /\ reign = 0 /\ heard = 0 /\ killed = FALSE

-----------------------------------------------------------------------------
(* The goroutines that want something of the main one *)

Begin(g, chan) ==
  /\ request[g] = Idle
  /\ request' = [request EXCEPT ![g] = [chan |-> chan, at |-> "send"]]
  /\ UNCHANGED <<status, main, left, client, applier, snapshots, calls, reign, heard, killed>>

Start(g) == Begin(g, "command")

\* RequestVote, AppendEntries and InstallSnapshot.
Receive(g) == \E chan \in Rpc : Begin(g, chan)

\* Faulty: Start only sends, as it did before it waited for mainContext too.
NeverGiveUp(g) == FALSE /\ UNCHANGED vars

\* The other case of Start's select.  The RPC handlers have none.
GiveUp(g) ==
  /\ request[g] = [chan |-> "command", at |-> "send"] /\ killed
  /\ request' = [request EXCEPT ![g] = Idle]
  /\ UNCHANGED <<status, main, left, client, applier, snapshots, calls, reign, heard, killed>>

\* The call returns; only then is the field appendEntriesReplyCh read.
CallReturns(c) ==
  /\ calls[c].at = "call"
  /\ calls' = [calls EXCEPT ![c].at = "send", ![c].chan = reign]
  /\ UNCHANGED <<status, main, left, client, request, applier, snapshots, reign, heard, killed>>

-----------------------------------------------------------------------------
(* The service *)

\* applier or applierSnap is done with a message, or comes to rf.Snapshot.
Applied ==
  /\ applier = "message"
  /\ applier' \in {"range"} \cup (IF snapshots < MaxSnapshots THEN {"snapshot"} ELSE {})
  /\ UNCHANGED <<status, main, left, client, request, snapshots, calls, reign, heard, killed>>

\* Faulty: Snapshot itself sends on snapshotRequestCh.
SnapshotInPlace ==
  /\ applier = "snapshot" /\ main = "select"
  /\ applier' = "range"
  /\ UNCHANGED <<status, main, left, client, request, snapshots, calls, reign, heard, killed>>

\* "we want to return early": the send is left to a goroutine.
Snapshot ==
  /\ applier = "snapshot"
  /\ snapshots' = snapshots + 1
  /\ applier' = "range"
  /\ UNCHANGED <<status, main, left, client, request, calls, reign, heard, killed>>

-----------------------------------------------------------------------------
(* The main goroutine *)

\* Faulty: runAsLeader does not handle InstallSnapshot.
DeafLeader(s) == IF s = "LEADER" THEN {"requestVote", "appendEntries", "command"}
                                 ELSE Rpc \cup {"command"}

\* The request channels among the cases of the select of each loop.
Cases(s) == Rpc \cup {"command"}

\* A handler may find a higher term, or a valid leader when the peer is a candidate.
StatusAfter(chan) == IF chan = "command" THEN {status} ELSE {status, "FOLLOWER"}

\* handleInstallSnapshot may have the snapshot to send to the service.
Messages(chan) == IF chan = "installSnapshot" THEN {0, 1} ELSE {0}

\* A case of the select that receives from a caller or handler and runs its handler.
Take(g) ==
  /\ main = "select" /\ request[g].at = "send" /\ request[g].chan \in Cases(status)
  /\ request' = [request EXCEPT ![g].at = "wait"]
  /\ client' = g
  /\ status' \in StatusAfter(request[g].chan)
  /\ left' \in Messages(request[g].chan)
  /\ main' = IF left' = 0 THEN "reply" ELSE "apply"
  /\ UNCHANGED <<applier, snapshots, calls, reign, heard, killed>>

\* req.replyCh <- reply.
Reply ==
  /\ main = "reply" /\ request[client].at = "wait"
  /\ request' = [request EXCEPT ![client] = Idle]
  /\ main' = "select" /\ client' = NoOne
  /\ UNCHANGED <<status, left, applier, snapshots, calls, reign, heard, killed>>

\* applyTimer.C with something to apply.
applyToClient ==
  /\ main = "select"
  /\ left' \in 1 .. MaxBurst
  /\ main' = "apply"
  /\ UNCHANGED <<status, client, request, applier, snapshots, calls, reign, heard, killed>>

\* rf.applyCh <- msg.
SendApply ==
  /\ main = "apply" /\ applier = "range"
  /\ applier' = "message"
  /\ left' = left - 1
  /\ main' = IF left' > 0 THEN main ELSE IF client = NoOne THEN "select" ELSE "reply"
  /\ UNCHANGED <<status, client, request, snapshots, calls, reign, heard, killed>>

TakeSnapshot ==
  /\ main = "select" /\ snapshots > 0
  /\ snapshots' = snapshots - 1
  /\ UNCHANGED <<status, main, left, client, request, applier, calls, reign, heard, killed>>

\* electionTimer.C, or a vote of a higher term.
Election ==
  /\ main = "select" /\ status # "LEADER"
  /\ status' \in {"CANDIDATE"} \cup (IF status = "CANDIDATE" THEN {"FOLLOWER"} ELSE {})
  /\ UNCHANGED <<main, left, client, request, applier, snapshots, calls, reign, heard, killed>>

\* The votes suffice; runAsLeader makes a new appendEntriesReplyCh.
Win ==
  /\ main = "select" /\ status = "CANDIDATE" /\ reign < MaxReigns
  /\ status' = "LEADER" /\ reign' = reign + 1 /\ heard' = 0
  /\ UNCHANGED <<main, left, client, request, applier, snapshots, calls, killed>>

\* sendHeartBeat or broadcastAppendEntries starts a goroutine.
Send(c) ==
  /\ main = "select" /\ status = "LEADER" /\ calls[c].at = "idle"
  /\ calls' = [calls EXCEPT ![c] = [at |-> "call", of |-> reign, chan |-> 0]]
  /\ UNCHANGED <<status, main, left, client, request, applier, snapshots, reign, heard, killed>>

\* Faulty: the term of the request is not looked at.
AnyAnswer(c) == TRUE

\* rf.getTerm() > req.Term: an answer to a call of an earlier reign is dropped.
Current(c) == calls[c].of = reign

\* The leader receives from the channel of its reign.  The answer is dropped, also when
\* the call failed and left a zero reply, or acted on, and may have a higher term.
TakeAnswer(c) ==
  /\ main = "select" /\ status = "LEADER" /\ calls[c].at = "send" /\ calls[c].chan = reign
  /\ calls' = [calls EXCEPT ![c] = [at |-> "idle", of |-> 0, chan |-> 0]]
  /\ \/ UNCHANGED <<status, heard>>
     \/ Current(c) /\ heard' = calls[c].of /\ status' \in {"LEADER", "FOLLOWER"}
  /\ UNCHANGED <<main, left, client, request, applier, snapshots, reign, killed>>

\* ctx.Done() in a loop and then in run.
Stop ==
  /\ main = "select" /\ killed
  /\ main' = "stopped"
  /\ UNCHANGED <<status, left, client, request, applier, snapshots, calls, reign, heard, killed>>

Kill ==
  /\ killed' = TRUE
  /\ UNCHANGED <<status, main, left, client, request, applier, snapshots, calls, reign, heard>>

Next ==
  \/ \E g \in Caller : Start(g) \/ GiveUp(g)
  \/ \E g \in Handler : Receive(g)
  \/ \E g \in Caller \cup Handler : Take(g)
  \/ \E c \in Call : Send(c) \/ CallReturns(c) \/ TakeAnswer(c)
  \/ Reply \/ applyToClient \/ SendApply \/ TakeSnapshot \/ Election \/ Win \/ Stop \/ Kill
  \/ Applied \/ Snapshot

\* A goroutine that can go on does.  A select chooses among the cases that are ready at
\* random, so no case that is ready again and again is passed over for ever.  No timer
\* need fire, and Kill, Start and the RPCs need not happen.
Fairness ==
  /\ WF_vars(Reply) /\ WF_vars(SendApply) /\ WF_vars(Applied) /\ WF_vars(Snapshot)
  /\ SF_vars(Stop) /\ SF_vars(TakeSnapshot)
  /\ \A g \in Caller : WF_vars(GiveUp(g))
  /\ \A g \in Caller \cup Handler : SF_vars(Take(g))

Spec == Init /\ [][Next]_vars /\ Fairness

-----------------------------------------------------------------------------
(* Properties *)

\* Start returns, whatever the peer is doing and "even if the Raft instance has been
\* killed" (Start, raft.go).
StartReturns == \A g \in Caller : request[g].at # "idle" ~> request[g].at = "idle"

\* An RPC is answered by a peer that is not killed: the main goroutine comes back to a
\* select that has the RPC's channel among its cases.
RpcsAnswered == \A g \in Handler : request[g].at # "idle" ~> (request[g].at = "idle" \/ killed)

\* The main goroutine and the service never wait for each other: applyToClient ends
\* although the service calls Snapshot while it takes the messages.
MainReturns == main # "select" ~> main \in {"select", "stopped"}

\* The leader acts only on answers to calls of its present reign, although a goroutine
\* of an earlier reign reads appendEntriesReplyCh late and sends on the new channel.
AnswersOfThisReign == heard \in {0, reign}

=============================================================================
