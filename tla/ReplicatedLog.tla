--------------------------- MODULE ReplicatedLog ---------------------------
(***************************************************************************)
(* What the peers promise the services above them: there is one log, it    *)
(* only grows at its end, and every service is sent a prefix of it on its  *)
(* applyCh.  A service that restarts begins again from an earlier prefix.  *)
(***************************************************************************)
EXTENDS Naturals, Sequences

CONSTANT Server

VARIABLES
  log,        \* the committed messages
  delivered   \* what each service has been sent

Prefix(s, t) == Len(s) <= Len(t) /\ SubSeq(t, 1, Len(s)) = s

Others(i) == delivered' = [delivered EXCEPT ![i] = delivered'[i]]

Init == log = <<>> /\ delivered = [i \in Server |-> <<>>]

\* Service i is sent more of the log, which may have been extended for it.
Deliver(i) ==
  /\ Others(i)
  /\ Prefix(log, log')
  /\ Prefix(delivered[i], delivered'[i])
  /\ Prefix(delivered'[i], log')

\* Service i restarts.
Restart(i) ==
  /\ Others(i)
  /\ Prefix(delivered'[i], delivered[i])
  /\ UNCHANGED log

Next == \E i \in Server : Deliver(i) \/ Restart(i)

Spec == Init /\ [][Next]_<<log, delivered>>

=============================================================================
