---------------------------- MODULE RaftCluster ----------------------------
(***************************************************************************)
(* The cluster raft/config.go builds on the simulated network: it starts,  *)
(* connects, disconnects, crashes and restarts Raft instances.  An         *)
(* instance cannot really be stopped: a crashed one may go on making       *)
(* calls, running handlers and writing to its persister.  crash1 and       *)
(* start1 isolate it by disabling its ends, deleting its server and        *)
(* giving the next instance a copy of the persister.                       *)
(*                                                                         *)
(* The test runs in one goroutine; script is where it is inside crash1 or  *)
(* start1, whose calls on the network interleave with the calls in         *)
(* flight.  The loops of connect and disconnect are one step each: a call  *)
(* looks at one end, so switching the others commutes with it.             *)
(*                                                                         *)
(* Boot b of server i has the ends <<i, b, j>> and is the Server object b. *)
(* Of a handler only its effect matters: it stores the call in the         *)
(* instance's persister before it returns.  Of the persisters only the     *)
(* one in cfg.saved[i] is ever read again: stored[i] is its content and    *)
(* holder[i] the instance that holds the object itself, 0 if none does.    *)
(***************************************************************************)
EXTENDS LabRpc

CONSTANT MaxBoots  \* bounds the starts of one server

ASSUME BootAssumption == MaxBoots \in Nat \ {0}
ASSUME ServerAssumption == Server # {}
ASSUME EndAssumption == End = Server \X (1 .. MaxBoots) \X Server

VARIABLES
  boot,       \* how often endnames[i] was allocated
  alive,      \* the instance of the last boot has not been killed
  connected,  \* cfg.connected
  stored,     \* the content of cfg.saved[i]: the calls handled
  holder,     \* the instance whose persister is cfg.saved[i] itself
  script      \* [at, server, restart]: the position in crash1 and start1

cfgVars == <<boot, alive, connected, stored, holder, script>>
vars == <<rpcVars, cfgVars>>

Idle == [at |-> "idle"]
Script == [at: {"delete", "copy", "kill", "make", "add"}, server: Server,
           restart: BOOLEAN]
Finished == [at |-> "finished"]

\* What the network, the test configuration and crash1 hold has its type; no end is
\* made twice (MakeEnd would stop the test).
TypeOK ==
  /\ RpcTypeOK
  /\ boot \in [Server -> 1 .. MaxBoots]
  /\ alive \in [Server -> BOOLEAN]
  /\ connected \in [Server -> BOOLEAN]
  /\ stored \in [Server -> SUBSET Call]
  /\ holder \in [Server -> 0 .. MaxBoots]
  /\ script \in Script \cup {Idle, Finished}

\* cfg.endnames[i][j], and the ends from and to server i
endname(i, j) == <<i, boot[i], j>>
Outgoing(i) == {endname(i, j) : j \in Server}
Incoming(i) == {endname(j, i) : j \in Server}

\* make_config: every server has been started and connected.
Init ==
  /\ \E r, l \in BOOLEAN :
       net = [NewNetwork EXCEPT !.reliable = r, !.longReordering = l]
  /\ connections = [e \in Server \X {1} \X Server |-> e[3]]
  /\ enabled = Server \X {1} \X Server
  /\ servers = [i \in Server |-> 1]
  /\ call = [c \in Call |-> [pc |-> "idle", end |-> CHOOSE e \in End : TRUE,
                             server |-> 0, reliable |-> TRUE,
                             longReordering |-> FALSE]]
  /\ handler = [c \in Call |-> "none"]
  /\ boot = [i \in Server |-> 1]
  /\ alive = [i \in Server |-> TRUE]
  /\ connected = [i \in Server |-> TRUE]
  /\ stored = [i \in Server |-> {}]
  /\ holder = [i \in Server |-> 1]
  /\ script = Idle

-----------------------------------------------------------------------------
\* The harness.

\* connect: the tests call it only for a server that is running.
connect(i) ==
  /\ script = Idle
  /\ alive[i]
  /\ connected' = [connected EXCEPT ![i] = TRUE]
  /\ Enable({endname(i, j) : j \in {j \in Server : connected'[j]}}
            \cup {endname(j, i) : j \in {j \in Server : connected'[j]}})
  /\ UNCHANGED <<net, connections, servers, callVars,
                 boot, alive, stored, holder, script>>

Detach(i) ==
  /\ connected' = [connected EXCEPT ![i] = FALSE]
  /\ Disable(Outgoing(i) \cup Incoming(i))

disconnect(i) ==
  /\ script = Idle
  /\ Detach(i)
  /\ UNCHANGED <<net, connections, servers, callVars,
                 boot, alive, stored, holder, script>>

\* crash1, by itself or as the first part of start1.
BeginCrash(i, restart) ==
  /\ script = Idle
  /\ restart => boot[i] < MaxBoots
  /\ Detach(i)
  /\ script' = [at |-> "delete", server |-> i, restart |-> restart]
  /\ UNCHANGED <<net, connections, servers, callVars,
                 boot, alive, stored, holder>>

At(label) == script.at = label
Continue(label) == script' = [script EXCEPT !.at = label]

CopyOnly ==
  /\ At("delete")
  /\ holder' = [holder EXCEPT ![script.server] = 0]
  /\ Continue("copy")
  /\ UNCHANGED <<rpcVars, boot, alive, connected, stored>>
CrashDelete ==
  /\ At("delete")
  /\ DeleteServer(script.server)
  /\ Continue("copy")
  /\ UNCHANGED <<net, enabled, connections, callVars,
                 boot, alive, connected, stored, holder>>

\* cfg.saved[i] becomes a copy nobody holds.
CrashCopy ==
  /\ At("copy")
  /\ holder' = [holder EXCEPT ![script.server] = 0]
  /\ Continue("kill")
  /\ UNCHANGED <<rpcVars, boot, alive, connected, stored>>

\* rf.Kill(); the second fresh persister has the same content.
CrashKill ==
  /\ At("kill")
  /\ alive' = [alive EXCEPT ![script.server] = FALSE]
  /\ IF script.restart THEN Continue("make") ELSE script' = Idle
  /\ UNCHANGED <<rpcVars, boot, connected, stored, holder>>

\* start1 after crash1: fresh end names and ends, a fresh persister with the
\* stored content, and Make.
ReuseEnds ==
  /\ At("make")
  /\ LET i == script.server IN
     /\ boot' = [boot EXCEPT ![i] = @ + 1]
     /\ MakeEnds([e \in {<<i, boot[i] + 1, j>> : j \in Server} |-> e[3]])
     /\ Enable({<<i, boot[i], j>> : j \in Server})
     /\ alive' = [alive EXCEPT ![i] = TRUE]
     /\ holder' = [holder EXCEPT ![i] = boot[i] + 1]
  /\ Continue("add")
  /\ UNCHANGED <<net, servers, callVars, connected, stored>>
StartMake ==
  /\ At("make")
  /\ LET i == script.server IN
     /\ boot' = [boot EXCEPT ![i] = @ + 1]
     /\ MakeEnds([e \in {<<i, boot[i] + 1, j>> : j \in Server} |-> e[3]])
     /\ alive' = [alive EXCEPT ![i] = TRUE]
     /\ holder' = [holder EXCEPT ![i] = boot[i] + 1]
  /\ Continue("add")
  /\ UNCHANGED <<net, enabled, servers, callVars, connected, stored>>

StartAdd ==
  /\ At("add")
  /\ AddServer(script.server, boot[script.server])
  /\ script' = Idle
  /\ UNCHANGED <<net, enabled, connections, callVars,
                 boot, alive, connected, stored, holder>>

\* The tests change the network's faults while it runs (cfg.setunreliable,
\* cfg.setlongreordering).
SetFaults ==
  /\ script = Idle
  /\ \E yes \in BOOLEAN : Reliable(yes) \/ LongReordering(yes)
  /\ UNCHANGED <<enabled, connections, servers, callVars, cfgVars>>

\* cleanup: every instance is killed and the network destroyed.
cleanup ==
  /\ script = Idle
  /\ Cleanup
  /\ alive' = [i \in Server |-> FALSE]
  /\ script' = Finished
  /\ UNCHANGED <<enabled, connections, servers, callVars,
                 boot, connected, stored, holder>>

Harness ==
  \/ \E i \in Server : connect(i) \/ disconnect(i)
  \/ \E i \in Server, restart \in BOOLEAN : BeginCrash(i, restart)
  \/ CrashDelete \/ CrashCopy \/ CrashKill \/ StartMake \/ StartAdd
  \/ SetFaults \/ cleanup

-----------------------------------------------------------------------------
\* The handler persists its effect with SaveRaftState, into the persister its
\* instance was made with.
Handle(c) ==
  /\ dispatch(c)
  /\ stored' = IF holder[Target(c)] = call[c].server
               THEN [stored EXCEPT ![Target(c)] = @ \cup {c}] ELSE stored
  /\ UNCHANGED <<boot, alive, connected, holder, script>>

\* An instance, alive or not, makes a call on one of its ends.
MakeCall(c, e) == BeginCall(c, e) /\ UNCHANGED cfgVars

Network(c) == Deliver(c) /\ UNCHANGED cfgVars

Next ==
  \/ Harness
  \/ \E c \in Call : Handle(c) \/ Network(c)
  \/ \E c \in Call, e \in End : MakeCall(c, e)
  \/ StopServing /\ UNCHANGED cfgVars

Spec == Init /\ [][Next]_vars

\* The goroutines of the network run, and the handlers of an instance that
\* was not killed return.  Nothing is assumed of the test or of a killed
\* instance.
Living(c) ==
  /\ call[c].server = boot[Target(c)]
  /\ alive[Target(c)]

Fairness ==
  \A c \in Call :
    /\ WF_vars((Accept(c) \/ GiveUp(c)) /\ UNCHANGED cfgVars)
    /\ WF_vars(processReq(c) /\ UNCHANGED cfgVars)
    /\ WF_vars(Living(c) /\ Handle(c))

FairSpec == Spec /\ Fairness

-----------------------------------------------------------------------------
\* A call that returned true took effect in the state the next instance of
\* its server starts from, however crash1 and start1 interleave with it: the
\* reply is checked against the end and the server object, and crash1 disables
\* the one and deletes the other before it supersedes the persister (the
\* comments of processReq and ShutdownServer).
PositiveReplyPersisted ==
  \A c \in Call : call[c].pc = "true" => c \in stored[Target(c)]

\* Why, in three parts.  The boots of a server are numbered upwards, its ends
\* exist, and a start that is under way is within the bound.
BootsInv ==
  /\ \A i, j \in Server : endname(i, j) \in DOMAIN connections
  /\ \A s \in Server : servers[s] <= boot[s]
  /\ At("make") => script.restart
  /\ script.at \in {"delete", "copy", "kill", "make"} /\ script.restart =>
       boot[script.server] < MaxBoots

\* A server object that is registered holds the persister itself; while its
\* server is down, crash1 and start1 have disconnected and deleted it.
RegisteredInv ==
  /\ \A s \in Server : servers[s] # 0 => servers[s] = holder[s]
  /\ script.at \notin {"idle", "finished"} => ~connected[script.server]
  /\ script.at \in {"copy", "kill", "make", "add"} => servers[script.server] = 0
  /\ At("add") => holder[script.server] = boot[script.server]

\* A handler that ran on the instance that holds the persister left its
\* effect there, and a reply that is not dropped came from such a handler.
CallInv(c) ==
  /\ call[c].pc # "idle" => call[c].end \in DOMAIN connections
  /\ call[c].pc \in {"idle", "sending", "sent", "refused", "read"} =>
       handler[c] = "none"
  /\ call[c].pc \in {"received", "delayed", "true"} => handler[c] = "gone"
  /\ call[c].pc = "read" \/ handler[c] # "none" =>
       call[c].server # 0 /\ call[c].server <= boot[Target(c)]
  /\ handler[c] \in {"returned", "gone"} /\ call[c].server = holder[Target(c)]
       => c \in stored[Target(c)]
  /\ call[c].pc \in {"delayed", "true"} => c \in stored[Target(c)]

RpcInv ==
  /\ TypeOK
  /\ BootsInv
  /\ RegisteredInv
  /\ \A c \in Call : CallInv(c)

\* The enabled ends are exactly those between two connected servers, by the
\* names of their last boots: no end of a crashed instance can still send.
EndsFollowConnected ==
  /\ \A e \in enabled : \E i, j \in Server :
       connected[i] /\ connected[j] /\ e = endname(i, j)
  /\ \A i, j \in Server :
       connected[i] /\ connected[j] => endname(i, j) \in enabled

\* A call that begins returns, except when its handler never returns and its
\* server is never deleted (the promise in the header of labrpc.go).
CallsReturn ==
  \A c \in Call :
    \/ []<>(call[c].pc \notin Pending)
    \/ <>[](handler[c] = "running" /\ servers[Target(c)] = call[c].server)

\* The goroutine of a handler that returned ends: processReq receives from
\* ech or leaves a goroutine behind that does.
HandlersEnd ==
  \A c \in Call : handler[c] = "returned" ~> handler[c] = "gone"
=============================================================================
