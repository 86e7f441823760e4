------------------------- MODULE RaftClusterProofs -------------------------
(***************************************************************************)
(* What the harness of raft/config.go makes of the simulated network, for  *)
(* every number of servers, calls and restarts: a call that returned true  *)
(* has its effect in the persister that the next instance starts from, and *)
(* only ends between connected servers are enabled.                        *)
(***************************************************************************)
EXTENDS RaftCluster, TLAPS

Labels == {"idle"} \cup Pending \cup Returned

\* A call whose goroutines do not move keeps its invariant while the
\* persisters stay where they are.
LEMMA CallFrame ==
  ASSUME NEW c \in Call, CallInv(c), call'[c] = call[c],
         handler'[c] = handler[c],
         UNCHANGED <<connections, boot, holder, stored>>
  PROVE  CallInv(c)'
  BY DEF CallInv, Target

\* Goto moves one call and keeps everything else of it.
LEMMA GotoCall ==
  ASSUME call \in [Call -> CallRecord], NEW c \in Call, NEW label \in Labels,
         Goto(c, label)
  PROVE  /\ call' \in [Call -> CallRecord]
         /\ call'[c].pc = label
         /\ call'[c].end = call[c].end
         /\ call'[c].server = call[c].server
         /\ \A d \in Call \ {c} : call'[d] = call[d]
  BY DEF Goto, CallRecord, Labels

\* A step of one call's goroutines keeps the invariant if it keeps that
\* call's part.
LEMMA CallStep ==
  ASSUME RpcInv, NEW c \in Call, UNCHANGED netVars, UNCHANGED cfgVars,
         call' \in [Call -> CallRecord],
         handler' \in [Call -> {"none", "running", "returned", "gone"}],
         \A d \in Call \ {c} : call'[d] = call[d] /\ handler'[d] = handler[d],
         CallInv(c)'
  PROVE  RpcInv'
<1>1. TypeOK'
  BY DEF RpcInv, TypeOK, RpcTypeOK, netVars, cfgVars
<1>2. BootsInv' /\ RegisteredInv'
  BY DEF RpcInv, BootsInv, RegisteredInv, netVars, cfgVars, endname, At
<1>3. ASSUME NEW d \in Call PROVE CallInv(d)'
  <2>1. CASE d = c BY <2>1
  <2>2. CASE d # c
    BY <2>2, CallFrame DEF RpcInv, netVars, cfgVars
  <2>3. QED BY <2>1, <2>2
<1>4. QED BY <1>1, <1>2, <1>3 DEF RpcInv

-----------------------------------------------------------------------------
\* The facts about call c that its steps use.
LEMMA CallFacts ==
  ASSUME RpcInv, NEW c \in Call
  PROVE  /\ call \in [Call -> CallRecord]
         /\ handler \in [Call -> {"none", "running", "returned", "gone"}]
         /\ CallInv(c)
  BY DEF RpcInv, TypeOK, RpcTypeOK

\* The steps of processReq before the handler is started.
LEMMA BeforeHandler ==
  ASSUME RpcInv, NEW c \in Call, UNCHANGED cfgVars,
         Accept(c) \/ GiveUp(c) \/ readEndnameInfo(c) \/ RefuseCall(c)
           \/ DropRequest(c) \/ Execute(c)
  PROVE  RpcInv'
<1>0. USE CallFacts
<1>1. CASE Accept(c)
  <2>1. CallInv(c)'
    BY <1>1, GotoCall DEF Accept, CallInv, Target, netVars, cfgVars, Labels, Pending
  <2>2. QED BY <1>1, <2>1, CallStep, GotoCall DEF Accept, Labels, Pending
<1>2. CASE GiveUp(c)
  <2>1. CallInv(c)'
    BY <1>2, GotoCall DEF GiveUp, CallInv, Target, netVars, cfgVars, Labels, Returned
  <2>2. QED BY <1>2, <2>1, CallStep, GotoCall DEF GiveUp, Labels, Returned
<1>3. CASE readEndnameInfo(c)
  <2>1. call' \in [Call -> CallRecord]
    BY <1>3 DEF readEndnameInfo, CallRecord, Pending, RpcInv, TypeOK, RpcTypeOK, CallInv, Target
  <2>2. CallInv(c)'
    BY <1>3 DEF readEndnameInfo, CallInv, Target, netVars, cfgVars, RpcInv, BootsInv, TypeOK, RpcTypeOK
  <2>3. QED BY <1>3, <2>1, <2>2, CallStep DEF readEndnameInfo
<1>4. CASE RefuseCall(c)
  <2>1. CallInv(c)'
    BY <1>4, GotoCall DEF RefuseCall, CallInv, Target, netVars, cfgVars, Labels, Returned
  <2>2. QED BY <1>4, <2>1, CallStep, GotoCall DEF RefuseCall, Labels, Returned
<1>5. CASE DropRequest(c)
  <2>1. CallInv(c)'
    BY <1>5, GotoCall DEF DropRequest, CallInv, Target, netVars, cfgVars, Labels, Returned
  <2>2. QED BY <1>5, <2>1, CallStep, GotoCall DEF DropRequest, Labels, Returned
<1>6. CASE Execute(c)
  <2>1. CallInv(c)'
    BY <1>6, GotoCall DEF Execute, CallInv, Target, netVars, cfgVars, Labels, Pending
  <2>2. QED BY <1>6, <2>1, CallStep, GotoCall DEF Execute, Labels, Pending
<1>7. QED BY <1>1, <1>2, <1>3, <1>4, <1>5, <1>6

\* The handler stores its effect in the persister its instance was made
\* with: the one that counts exactly if the instance holds it.
LEMMA HandlerRuns ==
  ASSUME RpcInv, NEW c \in Call, Handle(c)
  PROVE  RpcInv'
<1>1. /\ handler[c] = "running" /\ CallInv(c)
      /\ handler' = [handler EXCEPT ![c] = "returned"]
      /\ UNCHANGED <<netVars, call, boot, alive, connected, holder, script>>
      /\ stored' = IF holder[Target(c)] = call[c].server
                   THEN [stored EXCEPT ![Target(c)] = @ \cup {c}] ELSE stored
  BY DEF Handle, dispatch, RpcInv
<1>2. Target(c) \in Server /\ stored \in [Server -> SUBSET Call]
      /\ handler \in [Call -> {"none", "running", "returned", "gone"}]
  BY <1>1 DEF CallInv, Target, RpcInv, TypeOK, RpcTypeOK
<1>3. /\ stored' \in [Server -> SUBSET Call]
      /\ \A s \in Server : stored[s] \subseteq stored'[s]
      /\ holder[Target(c)] = call[c].server => c \in stored'[Target(c)]
  BY <1>1, <1>2
<1>4. TypeOK'
  BY <1>1, <1>2, <1>3 DEF RpcInv, TypeOK, RpcTypeOK, netVars
<1>5. BootsInv' /\ RegisteredInv'
  BY <1>1 DEF RpcInv, BootsInv, RegisteredInv, netVars, endname, At
<1>6. ASSUME NEW d \in Call PROVE CallInv(d)'
  <2>1. CallInv(d) /\ (call[d].pc # "idle" => Target(d) \in Server) /\ Target(d)' = Target(d)
    BY <1>1 DEF RpcInv, TypeOK, RpcTypeOK, CallInv, Target, netVars
  <2>2. CASE d = c
    BY <1>1, <1>2, <1>3, <2>1, <2>2 DEF CallInv, netVars
  <2>3. CASE d # c
    BY <1>1, <1>2, <1>3, <2>1, <2>3 DEF CallInv, netVars
  <2>4. QED BY <2>2, <2>3
<1>7. QED BY <1>4, <1>5, <1>6 DEF RpcInv

\* A reply that is not refused comes from the server object that is
\* registered, so from the instance that holds the persister.
LEMMA RepliesArePersisted ==
  ASSUME RpcInv, NEW c \in Call, Reply(c), UNCHANGED cfgVars
  PROVE  RpcInv'
<1>0. USE CallFacts
<1>1. PICK label \in IF isServerDead(c) THEN {"false"} ELSE Outcomes(c) :
        Goto(c, label)
  BY DEF Reply
<1>2. label \in {"true", "false", "delayed"} /\ label \in Labels
  BY <1>1 DEF Outcomes, Labels, Pending, Returned
<1>3. label # "false" => servers[Target(c)] = call[c].server
  BY <1>1 DEF isServerDead
<1>4. call[c].pc = "received" /\ UNCHANGED <<netVars, handler>>
  BY DEF Reply
<1>5. call[c].server # 0 /\ Target(c) \in Server /\ handler[c] = "gone"
  BY <1>4 DEF CallInv, Target, RpcInv, TypeOK, RpcTypeOK
<1>6. label # "false" => c \in stored[Target(c)]
  BY <1>3, <1>5 DEF RpcInv, RegisteredInv, CallInv
<1>7. CallInv(c)'
  BY <1>1, <1>2, <1>4, <1>5, <1>6, GotoCall DEF CallInv, Target, netVars, cfgVars
<1>8. QED BY <1>1, <1>2, <1>4, <1>7, CallStep, GotoCall

\* The other steps of processReq once the handler was started.
LEMMA AfterHandler ==
  ASSUME RpcInv, NEW c \in Call, UNCHANGED cfgVars,
         ReceiveReply(c) \/ PollServer(c) \/ Drain(c) \/ DelayedReply(c)
  PROVE  RpcInv'
<1>0. USE CallFacts
<1>1. CASE ReceiveReply(c)
  <2>1. CallInv(c)'
    BY <1>1, GotoCall DEF ReceiveReply, CallInv, Target, netVars, cfgVars, Labels, Pending
  <2>2. QED BY <1>1, <2>1, CallStep, GotoCall DEF ReceiveReply, Labels, Pending
<1>2. CASE PollServer(c)
  <2>1. CallInv(c)'
    BY <1>2, GotoCall DEF PollServer, CallInv, Target, netVars, cfgVars, Labels, Returned
  <2>2. QED BY <1>2, <2>1, CallStep, GotoCall DEF PollServer, Labels, Returned
<1>3. CASE Drain(c)
  <2>1. CallInv(c)'
    BY <1>3 DEF Drain, CallInv, Target, netVars, cfgVars
  <2>2. QED BY <1>3, <2>1, CallStep DEF Drain
<1>4. CASE DelayedReply(c)
  <2>1. CallInv(c)'
    BY <1>4, GotoCall DEF DelayedReply, CallInv, Target, netVars, cfgVars, Labels, Returned
  <2>2. QED BY <1>4, <2>1, CallStep, GotoCall DEF DelayedReply, Labels, Returned
<1>5. QED BY <1>1, <1>2, <1>3, <1>4

\* A call begins on an end that was made.
LEMMA CallBegins ==
  ASSUME RpcInv, NEW c \in Call, NEW e \in End, MakeCall(c, e)
  PROVE  RpcInv'
<1>0. USE CallFacts
<1>1. /\ call[c].pc = "idle" /\ e \in DOMAIN connections
      /\ call' = [call EXCEPT ![c].pc = "sending", ![c].end = e]
      /\ UNCHANGED <<netVars, handler>> /\ UNCHANGED cfgVars
  BY DEF MakeCall, BeginCall
<1>2. /\ call' \in [Call -> CallRecord]
      /\ call'[c].pc = "sending" /\ call'[c].end = e
      /\ \A d \in Call \ {c} : call'[d] = call[d]
  BY <1>1 DEF CallRecord, Pending
<1>3. CallInv(c)'
  BY <1>1, <1>2 DEF CallInv, Target, netVars
<1>4. QED BY <1>1, <1>2, <1>3, CallStep

-----------------------------------------------------------------------------
\* Switching ends on and off, the faults of the network, and its end.
LEMMA SwitchingKeeps ==
  ASSUME RpcInv,
         \/ \E i \in Server : connect(i) \/ disconnect(i)
         \/ \E i \in Server, restart \in BOOLEAN : BeginCrash(i, restart)
         \/ SetFaults \/ cleanup \/ (StopServing /\ UNCHANGED cfgVars)
  PROVE  RpcInv'
<1>1. UNCHANGED <<connections, servers, callVars, boot, stored, holder>>
  BY DEF connect, disconnect, BeginCrash, SetFaults, cleanup, StopServing, cfgVars
<1>2. \A c \in Call : CallInv(c)'
  BY <1>1, CallFrame DEF callVars, RpcInv
<1>3. ASSUME NEW i \in Server, connect(i) PROVE RpcInv'
  <2>1. TypeOK'
    <3>1. enabled' \subseteq DOMAIN connections
      <4> DEFINE C == {j \in Server : connected'[j]}
      <4>1. enabled' = enabled \cup ({endname(i, j) : j \in C} \cup {endname(j, i) : j \in C})
        BY Zenon, <1>3 DEF connect, Enable
      <4>2. enabled \subseteq DOMAIN connections
        BY DEF RpcInv, TypeOK, RpcTypeOK
      <4>3. C \subseteq Server OBVIOUS
      <4> HIDE DEF C
      <4>4. {endname(i, j) : j \in C} \subseteq DOMAIN connections
        BY <1>3, <4>3 DEF RpcInv, BootsInv
      <4>5. {endname(j, i) : j \in C} \subseteq DOMAIN connections
        BY <1>3, <4>3 DEF RpcInv, BootsInv
      <4>6. QED BY <4>1, <4>2, <4>4, <4>5
    <3>2. connected' \in [Server -> BOOLEAN]
      BY <1>3 DEF connect, RpcInv, TypeOK
    <3>3. QED
      BY <1>1, <1>3, <3>1, <3>2 DEF connect, callVars, RpcInv, TypeOK, RpcTypeOK
  <2>2. BootsInv' /\ RegisteredInv'
    BY <1>1, <1>3 DEF connect, RpcInv, BootsInv, RegisteredInv, endname, At, Idle
  <2>3. QED BY <1>2, <2>1, <2>2 DEF RpcInv
<1>4. ASSUME NEW i \in Server, disconnect(i) PROVE RpcInv'
  <2>1. TypeOK'
    BY <1>1, <1>4 DEF disconnect, Detach, Disable, callVars, RpcInv, TypeOK, RpcTypeOK
  <2>2. BootsInv' /\ RegisteredInv'
    BY <1>1, <1>4 DEF disconnect, RpcInv, BootsInv, RegisteredInv, endname, At, Idle
  <2>3. QED BY <1>2, <2>1, <2>2 DEF RpcInv
<1>5. ASSUME NEW i \in Server, NEW restart \in BOOLEAN, BeginCrash(i, restart)
      PROVE  RpcInv'
  <2>1. TypeOK'
    BY <1>1, <1>5 DEF BeginCrash, Detach, Disable, callVars, RpcInv, TypeOK, RpcTypeOK, Script
  <2>2. BootsInv' /\ RegisteredInv'
    BY <1>1, <1>5 DEF BeginCrash, Detach, RpcInv, TypeOK, BootsInv, RegisteredInv, endname, At
  <2>3. QED BY <1>2, <2>1, <2>2 DEF RpcInv
<1>6. CASE SetFaults
  <2>1. TypeOK'
    BY <1>6 DEF SetFaults, Reliable, LongReordering, callVars, cfgVars, RpcInv, TypeOK, RpcTypeOK
  <2>2. BootsInv' /\ RegisteredInv'
    BY <1>1, <1>6 DEF SetFaults, cfgVars, RpcInv, BootsInv, RegisteredInv, endname, At
  <2>3. QED BY <1>2, <2>1, <2>2 DEF RpcInv
<1>7. CASE cleanup
  <2>1. TypeOK'
    BY <1>1, <1>7 DEF cleanup, Cleanup, callVars, RpcInv, TypeOK, RpcTypeOK
  <2>2. BootsInv' /\ RegisteredInv'
    BY <1>1, <1>7 DEF cleanup, RpcInv, BootsInv, RegisteredInv, endname, At, Finished
  <2>3. QED BY <1>2, <2>1, <2>2 DEF RpcInv
<1>8. CASE StopServing /\ UNCHANGED cfgVars
  <2>1. TypeOK'
    BY <1>8 DEF StopServing, callVars, cfgVars, RpcInv, TypeOK, RpcTypeOK
  <2>2. BootsInv' /\ RegisteredInv'
    BY <1>1, <1>8 DEF cfgVars, RpcInv, BootsInv, RegisteredInv, endname, At
  <2>3. QED BY <1>2, <2>1, <2>2 DEF RpcInv
<1>9. QED BY <1>3, <1>4, <1>5, <1>6, <1>7, <1>8

\* crash1: the server is deleted before its persister is superseded.
LEMMA CrashKeeps ==
  ASSUME RpcInv, CrashDelete \/ CrashCopy \/ CrashKill
  PROVE  RpcInv'
<1>1. CASE CrashDelete
  <2>1. script.server \in Server /\ script \in Script
    BY <1>1 DEF CrashDelete, At, RpcInv, TypeOK, Idle, Finished, Script
  <2>2. TypeOK'
    BY <1>1, <2>1 DEF CrashDelete, DeleteServer, Continue, callVars, RpcInv, TypeOK, RpcTypeOK, Script
  <2>3. BootsInv' /\ RegisteredInv'
    BY <1>1, <2>1 DEF CrashDelete, DeleteServer, Continue, At, RpcInv, TypeOK, RpcTypeOK,
                      BootsInv, RegisteredInv, endname, Script
  <2>4. \A c \in Call : CallInv(c)'
    BY <1>1, CallFrame DEF CrashDelete, callVars, RpcInv
  <2>5. QED BY <2>2, <2>3, <2>4 DEF RpcInv
<1>2. CASE CrashCopy
  <2>1. script.server \in Server /\ script \in Script
    BY <1>2 DEF CrashCopy, At, RpcInv, TypeOK, Idle, Finished, Script
  <2>2. TypeOK'
    BY <1>2, <2>1, BootAssumption
       DEF CrashCopy, Continue, rpcVars, netVars, callVars, RpcInv, TypeOK, RpcTypeOK, Script
  <2>3. BootsInv' /\ RegisteredInv'
    BY <1>2, <2>1 DEF CrashCopy, Continue, At, rpcVars, netVars, RpcInv, TypeOK, RpcTypeOK,
                      BootsInv, RegisteredInv, endname, Script
  <2>4. ASSUME NEW c \in Call PROVE CallInv(c)'
    BY <1>2 DEF CrashCopy, rpcVars, netVars, callVars, RpcInv, TypeOK, RpcTypeOK, CallInv, Target
  <2>5. QED BY <2>2, <2>3, <2>4 DEF RpcInv
<1>3. CASE CrashKill
  <2>1. script.server \in Server /\ script \in Script
    BY <1>3 DEF CrashKill, At, RpcInv, TypeOK, Idle, Finished, Script
  <2>2. TypeOK'
    BY <1>3, <2>1 DEF CrashKill, Continue, rpcVars, netVars, callVars, RpcInv, TypeOK, RpcTypeOK, Script
  <2>3. BootsInv' /\ RegisteredInv'
    BY <1>3, <2>1 DEF CrashKill, Continue, At, rpcVars, netVars, RpcInv, TypeOK, RpcTypeOK,
                      BootsInv, RegisteredInv, endname, Script, Idle
  <2>4. \A c \in Call : CallInv(c)'
    BY <1>3, CallFrame DEF CrashKill, rpcVars, netVars, callVars, RpcInv
  <2>5. QED BY <2>2, <2>3, <2>4 DEF RpcInv
<1>4. QED BY <1>1, <1>2, <1>3

\* start1: the new instance holds the persister under a number no call knows.
LEMMA StartKeeps ==
  ASSUME RpcInv, StartMake \/ StartAdd
  PROVE  RpcInv'
<1>1. CASE StartMake
  <2> DEFINE i == script.server
             ends == {<<i, boot[i] + 1, j>> : j \in Server}
  <2>1. i \in Server /\ script \in Script /\ boot[i] + 1 \in 1 .. MaxBoots
    BY <1>1, BootAssumption DEF StartMake, At, RpcInv, TypeOK, BootsInv, Idle, Finished, Script
  <2>2. /\ boot' = [boot EXCEPT ![i] = boot[i] + 1]
        /\ holder' = [holder EXCEPT ![i] = boot[i] + 1]
        /\ alive' = [alive EXCEPT ![i] = TRUE]
        /\ script' = [script EXCEPT !.at = "add"]
        /\ UNCHANGED <<net, enabled, servers, call, handler, connected, stored>>
    BY <1>1 DEF StartMake, Continue, callVars
  <2>3. /\ DOMAIN connections' = DOMAIN connections \cup ends
        /\ \A e \in DOMAIN connections : connections'[e] = connections[e]
        /\ \A e \in DOMAIN connections' : connections'[e] \in Server
    <3>1. PICK conn : /\ conn = [e \in ends |-> e[3]]
                      /\ DOMAIN conn \cap DOMAIN connections = {}
                      /\ connections' = [e \in DOMAIN connections \cup DOMAIN conn |->
                            IF e \in DOMAIN conn THEN conn[e] ELSE connections[e]]
      BY <1>1 DEF StartMake, MakeEnds
    <3>2. \A e \in ends : e[3] \in Server
      OBVIOUS
    <3>3. QED BY <3>1, <3>2 DEF RpcInv, TypeOK, RpcTypeOK
  <2>4. ends \subseteq End
    BY <2>1, EndAssumption
  <2>5. TypeOK'
    BY <2>1, <2>2, <2>3, <2>4 DEF RpcInv, TypeOK, RpcTypeOK, Script
  <2>6. BootsInv'
    <3>1. ASSUME NEW k \in Server, NEW j \in Server
          PROVE  endname(k, j)' \in DOMAIN connections'
      BY <2>1, <2>2, <2>3 DEF RpcInv, TypeOK, BootsInv, endname
    <3>2. ASSUME NEW s \in Server PROVE servers'[s] <= boot'[s]
      <4>1. boot[s] \in Nat /\ servers[s] \in Nat /\ servers[s] <= boot[s]
        BY DEF RpcInv, TypeOK, RpcTypeOK, BootsInv
      <4>2. boot'[s] = boot[s] \/ boot'[s] = boot[s] + 1
        BY <2>1, <2>2 DEF RpcInv, TypeOK
      <4>3. QED BY <2>2, <4>1, <4>2
    <3>3. script'.at = "add"
      BY <2>1, <2>2 DEF Script
    <3>4. QED BY <3>1, <3>2, <3>3 DEF BootsInv, At
  <2>7. RegisteredInv'
    BY <1>1, <2>1, <2>2 DEF StartMake, RpcInv, TypeOK, RpcTypeOK, RegisteredInv, At, Script
  <2>8. ASSUME NEW c \in Call PROVE CallInv(c)'
    <3>1. call[c].pc # "idle" => Target(c)' = Target(c) /\ Target(c) \in Server
      BY <2>2, <2>3 DEF RpcInv, TypeOK, RpcTypeOK, CallInv, Target
    <3>2. handler[c] # "none" => call[c].pc # "idle"
      BY DEF RpcInv, CallInv
    <3>3. handler[c] # "none" => call[c].server <= boot[Target(c)] /\ call[c].server \in Nat
      BY DEF RpcInv, TypeOK, RpcTypeOK, CallInv, CallRecord
    <3>4. handler[c] # "none" /\ Target(c) = i => call[c].server # boot[i] + 1
      BY <2>1, <3>3 DEF RpcInv, TypeOK
    <3>5. handler[c] # "none" =>
            /\ call[c].server <= boot'[Target(c)]
            /\ call[c].server = holder'[Target(c)] =>
                 call[c].server = holder[Target(c)]
      <4>1. SUFFICES ASSUME handler[c] # "none"
                     PROVE  /\ call[c].server <= boot'[Target(c)]
                            /\ call[c].server = holder'[Target(c)] =>
                                 call[c].server = holder[Target(c)]
        OBVIOUS
      <4>2. Target(c) \in Server /\ boot[Target(c)] \in Nat
        BY <3>1, <3>2, <4>1 DEF RpcInv, TypeOK
      <4>3. CASE Target(c) = i
        BY <2>1, <2>2, <3>3, <3>4, <4>1, <4>2, <4>3 DEF RpcInv, TypeOK
      <4>4. CASE Target(c) # i
        BY <2>1, <2>2, <3>3, <4>1, <4>2, <4>4 DEF RpcInv, TypeOK
      <4>5. QED BY <4>3, <4>4
    <3>6. call[c].pc = "read" => call[c].server <= boot'[Target(c)]
      <4>1. SUFFICES ASSUME call[c].pc = "read"
                     PROVE  call[c].server <= boot'[Target(c)]
        OBVIOUS
      <4>2. /\ Target(c) \in Server /\ boot[Target(c)] \in Nat
            /\ call[c].server \in Nat /\ call[c].server <= boot[Target(c)]
        BY <3>1, <4>1 DEF RpcInv, TypeOK, RpcTypeOK, CallInv, CallRecord
      <4>3. boot'[Target(c)] = boot[Target(c)] \/ boot'[Target(c)] = boot[Target(c)] + 1
        BY <2>1, <2>2, <4>2 DEF RpcInv, TypeOK
      <4>4. QED BY <4>2, <4>3
    <3>7. CallInv(c) BY DEF RpcInv
    <3>8. QED
      BY <2>2, <2>3, <3>1, <3>2, <3>5, <3>6, <3>7 DEF CallInv
  <2>9. QED BY <2>5, <2>6, <2>7, <2>8 DEF RpcInv
<1>2. CASE StartAdd
  <2>1. script.server \in Server /\ script \in Script
    BY <1>2 DEF StartAdd, At, RpcInv, TypeOK, Idle, Finished, Script
  <2>2. TypeOK'
    BY <1>2, <2>1 DEF StartAdd, AddServer, callVars, RpcInv, TypeOK, RpcTypeOK
  <2>3. BootsInv' /\ RegisteredInv'
    BY <1>2, <2>1 DEF StartAdd, AddServer, At, Idle, RpcInv, TypeOK, RpcTypeOK,
                      BootsInv, RegisteredInv, endname
  <2>4. \A c \in Call : CallInv(c)'
    BY <1>2, CallFrame DEF StartAdd, callVars, RpcInv
  <2>5. QED BY <2>2, <2>3, <2>4 DEF RpcInv
<1>3. QED BY <1>1, <1>2

-----------------------------------------------------------------------------
\* The network and the harness as make_config leaves them.
LEMMA InitRpc == Init => RpcInv
<1> SUFFICES ASSUME Init PROVE RpcInv
  OBVIOUS
<1>0. /\ connections = [e \in (Server \X {1} \X Server) |-> e[3]]
      /\ boot = [i \in Server |-> 1] /\ servers = [i \in Server |-> 1]
      /\ holder = [i \in Server |-> 1] /\ script = Idle
      /\ enabled = (Server \X {1} \X Server)
  BY DEF Init
<1>00. DOMAIN connections = (Server \X {1} \X Server)
  BY Zenon, <1>0
<1>1. TypeOK
  <2>1. (Server \X {1} \X Server) \subseteq End
    BY BootAssumption, EndAssumption
  <2>2. (CHOOSE e \in End : TRUE) \in End
    <3>1. PICK s : s \in Server BY ServerAssumption
    <3>2. <<s, 1, s>> \in End BY <2>1, <3>1
    <3>3. QED BY <3>2
  <2>3. call \in [Call -> CallRecord]
    BY <2>2 DEF Init, CallRecord
  <2>4. \A e \in DOMAIN connections : connections[e] \in Server
    BY <1>0, <1>00
  <2>5. net \in [reliable: BOOLEAN, longReordering: BOOLEAN, done: BOOLEAN,
                serving: BOOLEAN]
    <3>1. PICK r \in BOOLEAN, l \in BOOLEAN :
            net = [NewNetwork EXCEPT !.reliable = r, !.longReordering = l]
      BY DEF Init
    <3>2. QED BY <3>1 DEF NewNetwork
  <2>6. RpcTypeOK
    BY <1>0, <1>00, <2>1, <2>3, <2>4, <2>5 DEF Init, RpcTypeOK
  <2>7. QED BY <1>0, <2>6, BootAssumption DEF Init, TypeOK, Idle
<1>2. BootsInv
  <2>1. \A i, j \in Server : endname(i, j) \in DOMAIN connections
    BY <1>0, <1>00 DEF endname
  <2>2. QED BY <1>0, <2>1 DEF BootsInv, At, Idle
<1>3. RegisteredInv
  BY <1>0 DEF RegisteredInv, At, Idle
<1>4. ASSUME NEW c \in Call PROVE CallInv(c)
  <2>1. call[c].pc = "idle" /\ handler[c] = "none"
    BY DEF Init
  <2>2. QED BY <2>1 DEF CallInv
<1>5. QED BY <1>1, <1>2, <1>3, <1>4 DEF RpcInv

\* RpcInv is an invariant of the cluster.
THEOREM RpcInvariant == Spec => []RpcInv
<1>1. RpcInv /\ [Next]_vars => RpcInv'
  <2>1. SUFFICES ASSUME RpcInv, Next \/ UNCHANGED vars PROVE RpcInv'
    OBVIOUS
  <2>2. CASE Harness
    BY <2>1, <2>2, SwitchingKeeps, CrashKeeps, StartKeeps DEF Harness
  <2>3. ASSUME NEW c \in Call, Network(c) PROVE RpcInv'
    BY <2>1, <2>3, BeforeHandler, RepliesArePersisted, AfterHandler
       DEF Network, Deliver, processReq
  <2>4. ASSUME NEW c \in Call, Handle(c) PROVE RpcInv'
    BY <2>1, <2>4, HandlerRuns
  <2>5. ASSUME NEW c \in Call, NEW e \in End, MakeCall(c, e) PROVE RpcInv'
    BY <2>1, <2>5, CallBegins
  <2>6. CASE StopServing /\ UNCHANGED cfgVars
    BY <2>1, <2>6, SwitchingKeeps
  <2>7. CASE UNCHANGED vars
    <3>1. UNCHANGED netVars /\ UNCHANGED callVars /\ UNCHANGED cfgVars
      BY <2>7 DEF vars, rpcVars
    <3>2. TypeOK'
      BY <2>1, <3>1 DEF RpcInv, TypeOK, RpcTypeOK, netVars, callVars, cfgVars
    <3>3. BootsInv' /\ RegisteredInv'
      BY <2>1, <3>1 DEF RpcInv, BootsInv, RegisteredInv, netVars, cfgVars, endname, At
    <3>4. \A c \in Call : CallInv(c)'
      BY <2>1, <3>1, CallFrame DEF RpcInv, netVars, callVars, cfgVars
    <3>5. QED BY <3>2, <3>3, <3>4 DEF RpcInv
  <2>8. QED BY <2>1, <2>2, <2>3, <2>4, <2>5, <2>6, <2>7 DEF Next
<1>2. QED BY InitRpc, <1>1, PTL DEF Spec

\* A call that returned true took effect in the state its server restarts
\* from, whatever crashed in the meantime.
THEOREM PositiveRepliesPersist == Spec => []PositiveReplyPersisted
<1>1. RpcInv => PositiveReplyPersisted
  BY DEF RpcInv, CallInv, PositiveReplyPersisted
<1>2. QED BY RpcInvariant, <1>1, PTL

\* Only the harness switches ends.
LEMMA EndsStep ==
  ASSUME RpcInv, EndsFollowConnected, Harness
  PROVE  EndsFollowConnected'
<1>0. /\ connected \in [Server -> BOOLEAN] /\ boot \in [Server -> 1 .. MaxBoots]
      /\ script \in Script \cup {Idle, Finished}
  BY DEF RpcInv, TypeOK
<1>1. ASSUME UNCHANGED <<enabled, connected, boot>> PROVE EndsFollowConnected'
  BY <1>1 DEF EndsFollowConnected, endname
<1>2. ASSUME NEW i \in Server, connect(i) PROVE EndsFollowConnected'
  <2>1. /\ connected' = [connected EXCEPT ![i] = TRUE] /\ UNCHANGED boot
        /\ enabled' = enabled \cup ({endname(i, j) : j \in {j \in Server : connected'[j]}}
                         \cup {endname(j, i) : j \in {j \in Server : connected'[j]}})
    BY Zenon, <1>2 DEF connect, Enable
  <2>2. \A k, j \in Server : endname(k, j)' = endname(k, j)
    BY <2>1 DEF endname
  <2>3. /\ connected'[i]
        /\ \A j \in Server : connected[j] => connected'[j]
        /\ \A j \in Server : connected'[j] => connected[j] \/ j = i
    BY <1>0, <1>2, <2>1
  <2>4. ASSUME NEW e \in enabled'
        PROVE  \E k, j \in Server : connected'[k] /\ connected'[j] /\ e = endname(k, j)
    BY <1>2, <2>1, <2>3 DEF EndsFollowConnected
  <2>5. ASSUME NEW k \in Server, NEW j \in Server, connected'[k], connected'[j]
        PROVE  endname(k, j) \in enabled'
    BY <2>1, <2>3, <2>5 DEF EndsFollowConnected
  <2>6. QED BY <2>2, <2>4, <2>5 DEF EndsFollowConnected
<1>3. ASSUME NEW i \in Server, Detach(i), UNCHANGED boot PROVE EndsFollowConnected'
  <2>1. /\ connected' = [connected EXCEPT ![i] = FALSE]
        /\ enabled' = enabled \ (Outgoing(i) \cup Incoming(i))
    BY <1>3 DEF Detach, Disable
  <2>2. \A k, j \in Server : endname(k, j)' = endname(k, j)
    BY <1>3 DEF endname
  <2>3. \A j \in Server : connected'[j] <=> connected[j] /\ j # i
    BY <1>0, <1>3, <2>1
  <2>4. ASSUME NEW e \in enabled'
        PROVE  \E k, j \in Server : connected'[k] /\ connected'[j] /\ e = endname(k, j)
    BY <1>3, <2>1, <2>3 DEF EndsFollowConnected, Outgoing, Incoming
  <2>5. ASSUME NEW k \in Server, NEW j \in Server, connected'[k], connected'[j]
        PROVE  endname(k, j) \in enabled'
    BY <1>3, <2>1, <2>3, <2>5 DEF EndsFollowConnected, Outgoing, Incoming, endname
  <2>6. QED BY <2>2, <2>4, <2>5 DEF EndsFollowConnected
<1>4. CASE StartMake
  <2>1. script.server \in Server /\ ~connected[script.server]
    BY <1>0, <1>4 DEF StartMake, At, Script, Idle, Finished, RpcInv, RegisteredInv
  <2>2. UNCHANGED <<enabled, connected>>
        /\ boot' = [boot EXCEPT ![script.server] = @ + 1]
    BY <1>4 DEF StartMake
  <2>3. \A k, j \in Server : connected[k] => endname(k, j)' = endname(k, j)
    BY <1>0, <2>1, <2>2 DEF endname
  <2>4. QED BY <2>2, <2>3 DEF EndsFollowConnected
<1>5. CASE CrashDelete \/ CrashCopy \/ CrashKill \/ StartAdd \/ SetFaults \/ cleanup
  BY <1>1, <1>5 DEF CrashDelete, CrashCopy, CrashKill, StartAdd, SetFaults, cleanup,
                    rpcVars, netVars, cfgVars
<1>6. QED BY <1>2, <1>3, <1>4, <1>5 DEF Harness, disconnect, BeginCrash

\* No end of a crashed or disconnected instance can send, and every end
\* between connected servers can.
THEOREM EndsAreConnected == Spec => []EndsFollowConnected
<1>1. Init => EndsFollowConnected
  BY DEF Init, EndsFollowConnected, endname
<1>2. RpcInv /\ EndsFollowConnected /\ [Next]_vars => EndsFollowConnected'
  <2>1. SUFFICES ASSUME RpcInv, EndsFollowConnected, Next \/ UNCHANGED vars
                 PROVE  EndsFollowConnected'
    OBVIOUS
  <2>2. CASE Harness BY <2>1, <2>2, EndsStep
  <2>3. CASE UNCHANGED <<enabled, connected, boot>>
    BY <2>1, <2>3 DEF EndsFollowConnected, endname
  <2>4. ASSUME NEW c \in Call, Network(c) \/ Handle(c) PROVE EndsFollowConnected'
    BY <2>3, <2>4 DEF Network, Deliver, Accept, GiveUp, processReq, readEndnameInfo,
       RefuseCall, DropRequest, Execute, ReceiveReply, PollServer, Drain, Reply,
       DelayedReply, Handle, dispatch, netVars, cfgVars
  <2>5. ASSUME NEW c \in Call, NEW e \in End, MakeCall(c, e) PROVE EndsFollowConnected'
    BY <2>3, <2>5 DEF MakeCall, BeginCall, netVars, cfgVars
  <2>6. CASE StopServing /\ UNCHANGED cfgVars
    BY <2>3, <2>6 DEF StopServing, cfgVars
  <2>7. CASE UNCHANGED vars
    BY <2>3, <2>7 DEF vars, rpcVars, netVars, cfgVars
  <2>8. QED BY <2>1, <2>2, <2>4, <2>5, <2>6, <2>7 DEF Next
<1>3. QED BY <1>1, <1>2, RpcInvariant, PTL DEF Spec
=============================================================================
