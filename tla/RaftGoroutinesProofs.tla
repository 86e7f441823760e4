------------------------ MODULE RaftGoroutinesProofs ------------------------
(***************************************************************************)
(* What holds of the goroutines of one peer whatever their number: the     *)
(* leader acts on no answer to a call of an earlier reign, and whoever     *)
(* waits for a reply is the one goroutine the main one will reply to.      *)
(***************************************************************************)
EXTENDS RaftGoroutines, TLAPS

Clients == Caller \cup Handler

\* The main goroutine is serving at most one request.
Served ==
  /\ main \in {"select", "apply", "reply", "stopped"}
  /\ client \in Clients \cup {NoOne}
  /\ main \in {"select", "stopped"} => client = NoOne
  /\ main = "reply" => client # NoOne
  /\ \A g \in Clients : request[g].at = "wait" <=> client = g

Inv ==
  /\ request \in [Clients -> [chan : {"none", "command"} \cup Rpc, at : {"idle", "send", "wait"}]]
  /\ heard \in {0, reign}
  /\ Served

LEMMA InitInv == Init => Inv
<1> SUFFICES ASSUME Init PROVE Inv
  OBVIOUS
<1>1. request \in [Clients -> [chan : {"none", "command"} \cup Rpc, at : {"idle", "send", "wait"}]]
  BY DEF Init, Idle, Clients
<1>2. heard \in {0, reign}
  BY DEF Init
<1>3. Served
  BY NoOneAssumption DEF Init, Served, Idle, Clients
<1>4. QED
  BY <1>1, <1>2, <1>3 DEF Inv

\* A caller or handler that is not waiting changes its own request and nothing else.
LEMMA RequestInv ==
  ASSUME Inv, NEW g \in Clients, NEW v \in [chan : {"none", "command"} \cup Rpc, at : {"idle", "send"}],
         request[g].at # "wait", request' = [request EXCEPT ![g] = v],
         UNCHANGED <<main, client, reign, heard>>
  PROVE  Inv'
<1>1. request' \in [Clients -> [chan : {"none", "command"} \cup Rpc, at : {"idle", "send", "wait"}]]
  BY DEF Inv
<1>2. v.at # "wait"
  OBVIOUS
<1>3. \A h \in Clients : request'[h].at = "wait" <=> request[h].at = "wait"
  BY <1>2 DEF Inv
<1>4. Served'
  BY <1>3 DEF Inv, Served
<1>5. QED
  BY <1>1, <1>4 DEF Inv

LEMMA TakeInv ==
  ASSUME Inv, NEW g \in Clients, Take(g)
  PROVE  Inv'
<1>1. /\ main = "select" /\ request' = [request EXCEPT ![g].at = "wait"] /\ client' = g
      /\ main' \in {"reply", "apply"} /\ UNCHANGED <<reign, heard>>
  BY DEF Take
<1>2. request' \in [Clients -> [chan : {"none", "command"} \cup Rpc, at : {"idle", "send", "wait"}]]
  BY <1>1 DEF Inv
<1>3. client = NoOne
  BY <1>1 DEF Inv, Served
<1>4. \A h \in Clients : request[h].at # "wait"
  BY <1>3, NoOneAssumption DEF Inv, Served, Clients
<1>5. \A h \in Clients : request'[h].at = "wait" <=> client' = h
  BY <1>1, <1>4 DEF Inv
<1>6. Served'
  BY <1>1, <1>5, NoOneAssumption DEF Served, Clients
<1>7. QED
  BY <1>1, <1>2, <1>6 DEF Inv

LEMMA ReplyInv ==
  ASSUME Inv, Reply
  PROVE  Inv'
<1>1. /\ main = "reply" /\ request' = [request EXCEPT ![client] = Idle] /\ main' = "select" /\ client' = NoOne
      /\ UNCHANGED <<reign, heard>>
  BY DEF Reply
<1>2. client \in Clients
  BY <1>1 DEF Inv, Served
<1>3. request' \in [Clients -> [chan : {"none", "command"} \cup Rpc, at : {"idle", "send", "wait"}]]
  BY <1>1, <1>2 DEF Inv, Idle
<1>4. \A h \in Clients : request'[h].at # "wait"
  BY <1>1, <1>2 DEF Inv, Served, Idle
<1>5. Served'
  BY <1>1, <1>4, NoOneAssumption DEF Served, Clients
<1>6. QED
  BY <1>1, <1>3, <1>5 DEF Inv

\* Every other step of the main goroutine leaves the requests and its client alone.
LEMMA MainInv ==
  ASSUME Inv, UNCHANGED <<request, client>>, heard' \in {0, reign'},
         \/ main' = main
         \/ main = "select" /\ main' \in {"apply", "stopped"}
         \/ main = "apply" /\ main' = IF client = NoOne THEN "select" ELSE "reply"
  PROVE  Inv'
<1>1. Served'
  BY DEF Inv, Served
<1>2. QED
  BY <1>1 DEF Inv

LEMMA NextInv ==
  ASSUME Inv, [Next]_vars
  PROVE  Inv'
<1>1. ASSUME NEW g \in Caller, Start(g) PROVE Inv'
  <2>1. g \in Clients /\ [chan |-> "command", at |-> "send"] \in [chan : {"none", "command"} \cup Rpc, at : {"idle", "send"}]
    BY DEF Clients
  <2>2. /\ request[g].at # "wait" /\ request' = [request EXCEPT ![g] = [chan |-> "command", at |-> "send"]]
        /\ UNCHANGED <<main, client, reign, heard>>
    BY <1>1 DEF Start, Begin, Idle
  <2>3. QED
    BY Zenon, <2>1, <2>2, RequestInv
<1>2. ASSUME NEW g \in Handler, Receive(g) PROVE Inv'
  <2>1. PICK chan \in Rpc : Begin(g, chan)
    BY <1>2 DEF Receive
  <2>2. g \in Clients /\ [chan |-> chan, at |-> "send"] \in [chan : {"none", "command"} \cup Rpc, at : {"idle", "send"}]
    BY DEF Clients
  <2>3. /\ request[g].at # "wait" /\ request' = [request EXCEPT ![g] = [chan |-> chan, at |-> "send"]]
        /\ UNCHANGED <<main, client, reign, heard>>
    BY <2>1 DEF Begin, Idle
  <2>4. QED
    BY Zenon, <2>2, <2>3, RequestInv
<1>3. ASSUME NEW g \in Caller, GiveUp(g) PROVE Inv'
  <2>1. g \in Clients /\ Idle \in [chan : {"none", "command"} \cup Rpc, at : {"idle", "send"}]
    BY DEF Clients, Idle
  <2>2. /\ request[g].at # "wait" /\ request' = [request EXCEPT ![g] = Idle]
        /\ UNCHANGED <<main, client, reign, heard>>
    BY <1>3 DEF GiveUp
  <2>3. QED
    BY Zenon, <2>1, <2>2, RequestInv
<1>4. ASSUME NEW g \in Caller \cup Handler, Take(g) PROVE Inv'
  BY <1>4, TakeInv DEF Clients
<1>5. ASSUME NEW c \in Call, Send(c) \/ CallReturns(c) PROVE Inv'
  BY <1>5, MainInv DEF Send, CallReturns, Inv
<1>6. ASSUME NEW c \in Call, TakeAnswer(c) PROVE Inv'
  BY <1>6, MainInv DEF TakeAnswer, Current, Inv
<1>7. CASE applyToClient \/ SendApply
  BY <1>7, MainInv DEF applyToClient, SendApply, Inv
<1>8. CASE TakeSnapshot \/ Election \/ Stop \/ Kill \/ Applied \/ Snapshot
  BY <1>8, MainInv DEF TakeSnapshot, Election, Stop, Kill, Applied, Snapshot, Inv
<1>9. CASE Win
  BY <1>9, MainInv DEF Win
<1>10. CASE UNCHANGED vars
  BY <1>10, MainInv DEF vars, Inv
<1>11. QED
  BY <1>1, <1>2, <1>3, <1>4, <1>5, <1>6, <1>7, <1>8, <1>9, <1>10, ReplyInv DEF Next

\* The main goroutine serves one request at a time, and who waits is the one it serves.
THEOREM InvHolds == Spec => []Inv
<1>1. Inv /\ [Next]_vars => Inv'
  BY NextInv
<1>2. QED
  BY <1>1, InitInv, PTL DEF Spec

\* The leader never acts on an answer to a call of an earlier reign, however late the
\* goroutine of appendEntries reads appendEntriesReplyCh.
THEOREM LeaderHearsItsOwnReign == Spec => []AnswersOfThisReign
<1>1. Inv => AnswersOfThisReign
  BY DEF Inv, AnswersOfThisReign
<1>2. QED
  BY <1>1, InvHolds, PTL

\* When the main goroutine comes to req.replyCh <- reply the other side is there: the
\* goroutine whose request it took is waiting for it, so the unbuffered send does not block.
RepliesReceived == main = "reply" => client \in Clients /\ request[client].at = "wait"

\* The send of every reply finds its receiver.
THEOREM RepliesDoNotBlock == Spec => []RepliesReceived
<1>1. Inv => RepliesReceived
  BY DEF Inv, Served, RepliesReceived
<1>2. QED
  BY <1>1, InvHolds, PTL
=============================================================================
