--------------------------- MODULE MCVaultAccess ---------------------------
(* Two processes, one key and one agent: two actions are two subjects,     *)
(* and the four patterns are the exact one and the wildcards.              *)
EXTENDS VaultAccess, TLC

CONSTANTS p1, p2, k1, a1, get, set

MCProcesses == {p1, p2}
MCKeys == {k1}
MCAgents == {a1}
MCActions == {get, set}

(* One entry of each policy, with limits that two racing calls can break.   *)
Auto == [actions |-> {get}, limit |-> 1, policy |-> "auto"]
Confirm == [actions |-> {get, set}, limit |-> 1, policy |-> "confirm"]
Mfa == [actions |-> {set}, limit |-> 2, policy |-> "mfa"]

MCEntries == {Auto, Confirm, Mfa}

(* A new vault, and one where the exact pattern asks for a confirmation of *)
(* what the wildcard gives to everybody.                                   *)
MCInitialAcls == {
    [p \in Pattern |-> NoAcl],
    [p \in Pattern |-> IF p = <<k1, a1>> THEN Confirm
                       ELSE IF p = <<Anyone, Anyone>> THEN Auto ELSE NoAcl] }

(* The two processes are interchangeable; all properties are safety.       *)
Interchangeable == Permutations(MCProcesses)
=============================================================================
