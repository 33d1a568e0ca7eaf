--------------------------- MODULE MCAcpSessions ---------------------------
(* Two requests at a time, and the sessions of one agent.                  *)
EXTENDS AcpSessions, TLC

CONSTANTS r1, r2, l1

MCRequests == {r1, r2}
MCLabels == {l1}

Symmetric == Permutations(Requests)
=============================================================================
