------------------------------ MODULE LabRpc ------------------------------
(***************************************************************************)
(* The simulated network of labrpc/labrpc.go: client ends, servers, and    *)
(* the goroutine processReq that carries one Call from a ClientEnd to a    *)
(* server's handler and back.  The network may drop the request or the     *)
(* reply, may hold a reply back, and refuses to deliver a reply of a       *)
(* server that has been deleted.  What a handler does, and who creates     *)
(* ends and servers, is the business of the modules that extend this one.  *)
(*                                                                         *)
(* One Call is three goroutines: the caller, processReq and the one that   *)
(* runs the handler.  pc is where the first two are, handler the third.    *)
(* Sleeps are left out: a step may be late anyway.                         *)
(***************************************************************************)
EXTENDS Naturals

CONSTANTS
  Server,  \* the names servers are registered under
  End,     \* the names of client ends
  Call     \* the calls made, one element per call (bounds their number)

VARIABLES
  net,      \* Network: reliable, longReordering, done, and its goroutine
  enabled,  \* the names of the enabled ends
  connections, \* the server each end made so far is connected to
  servers,  \* the Server object of each name, a positive number; 0 is nil
  call,     \* per call: pc, its end, and what readEndnameInfo returned
  handler   \* per call: the goroutine that runs server.dispatch

netVars == <<net, enabled, connections, servers>>
callVars == <<call, handler>>
rpcVars == <<netVars, callVars>>

Pending == {"sending", "sent", "refused", "read", "waiting", "received", "delayed"}
Returned == {"true", "false"}
CallRecord == [pc: {"idle"} \cup Pending \cup Returned, end: End, server: Nat,
               reliable: BOOLEAN, longReordering: BOOLEAN]

\* What the network and the calls hold has its type.
RpcTypeOK ==
  /\ net \in [reliable: BOOLEAN, longReordering: BOOLEAN, done: BOOLEAN,
              serving: BOOLEAN]
  /\ enabled \subseteq DOMAIN connections
  /\ DOMAIN connections \subseteq End
  /\ \A e \in DOMAIN connections : connections[e] \in Server
  /\ servers \in [Server -> Nat]
  /\ call \in [Call -> CallRecord]
  /\ handler \in [Call -> {"none", "running", "returned", "gone"}]

\* MakeNetwork
NewNetwork == [reliable |-> TRUE, longReordering |-> FALSE, done |-> FALSE,
               serving |-> TRUE]

-----------------------------------------------------------------------------
\* The calls the test harness makes on the network.

Reliable(yes) == net' = [net EXCEPT !.reliable = yes]

LongReordering(yes) == net' = [net EXCEPT !.longReordering = yes]

Cleanup == net' = [net EXCEPT !.done = TRUE]

\* MakeEnd and Connect of each end of the function conn.
MakeEnds(conn) ==
  /\ DOMAIN conn \cap DOMAIN connections = {}
  /\ connections' = [e \in DOMAIN connections \cup DOMAIN conn |->
                       IF e \in DOMAIN conn THEN conn[e] ELSE connections[e]]

Enable(ends) == enabled' = enabled \cup ends

Disable(ends) == enabled' = enabled \ ends

AddServer(s, rs) == servers' = [servers EXCEPT ![s] = rs]

DeleteServer(s) == servers' = [servers EXCEPT ![s] = 0]

-----------------------------------------------------------------------------
\* One call.

Goto(c, label) == call' = [call EXCEPT ![c].pc = label]

\* The server c was sent to, and isServerDead for it.
Target(c) == connections[call[c].end]

isServerDead(c) ==
  \/ call[c].end \notin enabled
  \/ servers[Target(c)] # call[c].server

\* ClientEnd.Call up to its first select.
BeginCall(c, e) ==
  /\ call[c].pc = "idle"
  /\ e \in DOMAIN connections
  /\ call' = [call EXCEPT ![c].pc = "sending", ![c].end = e]
  /\ UNCHANGED <<netVars, handler>>

\* The network's goroutine takes the request and starts processReq.
Accept(c) ==
  /\ call[c].pc = "sending"
  /\ net.serving
  /\ Goto(c, "sent")
  /\ UNCHANGED <<netVars, handler>>

\* The network has been destroyed: Call gives up, the goroutine ends.
GiveUp(c) ==
  /\ call[c].pc = "sending"
  /\ net.done
  /\ Goto(c, "false")
  /\ UNCHANGED <<netVars, handler>>

StopServing ==
  /\ net.done
  /\ net.serving
  /\ net' = [net EXCEPT !.serving = FALSE]
  /\ UNCHANGED <<enabled, connections, servers, callVars>>

readEndnameInfo(c) ==
  /\ call[c].pc = "sent"
  /\ call' = [call EXCEPT
       ![c] = [pc |-> IF call[c].end \in enabled /\ servers[Target(c)] # 0
                      THEN "read" ELSE "refused",
               end |-> call[c].end,
               server |-> servers[Target(c)],
               reliable |-> net.reliable,
               longReordering |-> net.longReordering]]
  /\ UNCHANGED <<netVars, handler>>

\* The timer of a disabled end or a missing server fires.
RefuseCall(c) ==
  /\ call[c].pc = "refused"
  /\ Goto(c, "false")
  /\ UNCHANGED <<netVars, handler>>

DropRequest(c) ==
  /\ call[c].pc = "read"
  /\ ~call[c].reliable
  /\ Goto(c, "false")
  /\ UNCHANGED <<netVars, handler>>

\* The goroutine that executes the request starts.
Execute(c) ==
  /\ call[c].pc = "read"
  /\ Goto(c, "waiting")
  /\ handler' = [handler EXCEPT ![c] = "running"]
  /\ UNCHANGED netVars

\* Server.dispatch and Service.dispatch: the handler runs and has its reply.
dispatch(c) ==
  /\ handler[c] = "running"
  /\ handler' = [handler EXCEPT ![c] = "returned"]
  /\ UNCHANGED <<netVars, call>>

\* case reply = <-ech
ReceiveReply(c) ==
  /\ call[c].pc = "waiting"
  /\ handler[c] = "returned"
  /\ Goto(c, "received")
  /\ handler' = [handler EXCEPT ![c] = "gone"]
  /\ UNCHANGED netVars

\* case <-time.After(100ms), when it finds the server dead; without replyOK
\* the check that follows the loop fails the call whatever it finds.
NoPoll(c) == FALSE /\ UNCHANGED rpcVars
PollServer(c) ==
  /\ call[c].pc = "waiting"
  /\ isServerDead(c)
  /\ Goto(c, "false")
  /\ UNCHANGED <<netVars, handler>>

\* The goroutine that drains ech for a call that stopped waiting.
NoDrain(c) == FALSE /\ UNCHANGED rpcVars
Drain(c) ==
  /\ call[c].pc = "false"
  /\ handler[c] = "returned"
  /\ handler' = [handler EXCEPT ![c] = "gone"]
  /\ UNCHANGED <<netVars, call>>

\* The reply is in: the second isServerDead, then the fate of the reply.
Outcomes(c) ==
  {"true"} \cup (IF call[c].reliable THEN {} ELSE {"false"})
           \cup (IF call[c].longReordering THEN {"delayed"} ELSE {})

Unchecked(c) ==
  /\ call[c].pc = "received"
  /\ \E label \in Outcomes(c) : Goto(c, label)
  /\ UNCHANGED <<netVars, handler>>
Reply(c) ==
  /\ call[c].pc = "received"
  /\ \E label \in IF isServerDead(c) THEN {"false"} ELSE Outcomes(c) :
       Goto(c, label)
  /\ UNCHANGED <<netVars, handler>>

\* The timer of a reply held back fires: nothing is checked again.
DelayedReply(c) ==
  /\ call[c].pc = "delayed"
  /\ Goto(c, "true")
  /\ UNCHANGED <<netVars, handler>>

\* processReq from its start to the reply, but for the handler.
processReq(c) ==
  \/ readEndnameInfo(c) \/ RefuseCall(c)
  \/ DropRequest(c) \/ Execute(c)
  \/ ReceiveReply(c) \/ PollServer(c) \/ Drain(c)
  \/ Reply(c) \/ DelayedReply(c)

\* Everything the network's own goroutines and the callers do by themselves.
Deliver(c) == Accept(c) \/ GiveUp(c) \/ processReq(c)
=============================================================================
