------------------------------ MODULE MCRekey ------------------------------
(* Two calls, which may overlap or follow each other; a key file of any     *)
(* password, or none yet; a client that keeps the password it started with. *)
EXTENDS Rekey, TLC

CONSTANTS k1, e1, e2, p1, p2, p3, mcp, gui, cli

MCKeyfiles == {k1}
MCEntries == {e1, e2}
MCPasswords == {p1, p2, p3}
MCClients == {mcp}
MCGuiCalls == {gui}
MCCliCalls == {cli}
MCKeys0 == MCPasswords \cup {Absent}

Interchangeable == Permutations(MCEntries) \cup Permutations(MCPasswords)
=============================================================================
