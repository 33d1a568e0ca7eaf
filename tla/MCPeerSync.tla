----------------------------- MODULE MCPeerSync -----------------------------
(* One agent on m1.  m2 and m3 know of m1 from the start, of each other    *)
(* and m1 of them only by messages: whom a daemon asks is in its table.    *)
EXTENDS PeerSync

CONSTANTS m1, m2, m3, a1

MCMachines == {m1, m2, m3}
MCAgents == {a1}
MCHome == [a \in MCAgents |-> m1]
MCBootstrap == [m \in MCMachines |-> IF m = m1 THEN {} ELSE {m1}]
MCSenders == MCMachines \cup MCAgents
MCNames == {1}
=============================================================================
