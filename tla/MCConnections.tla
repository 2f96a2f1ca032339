--------------------------- MODULE MCConnections ---------------------------
(***************************************************************************)
(* Admission: the connections with small sets of connections, addresses    *)
(* and users, and the rate limiter's calls for one address.  A connection  *)
(* the limiter turns away is one that Connections refuses; neither module  *)
(* writes the other's variables, so a behaviour moves one of them.         *)
(***************************************************************************)
EXTENDS Connections, IpRateLimiter, TLC

VARIABLE part    \* what moves in this behaviour

Init == part \in {"connections", "limiter"} /\ ConnInit /\ LimiterInit

Next ==
    /\ UNCHANGED part
    /\ \/ part = "connections" /\ ConnNext /\ UNCHANGED limiterVars
       \/ part = "limiter" /\ LimiterNext /\ UNCHANGED connVars

Spec == Init /\ [][Next]_<<part, connVars, limiterVars>>

Symmetry == Permutations(SshConns) \cup Permutations(IrcConns) \cup Permutations(Users)
=============================================================================
