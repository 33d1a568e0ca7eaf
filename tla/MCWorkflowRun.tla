--------------------------- MODULE MCWorkflowRun ---------------------------
(* Two steps, one after the other, with a gate between them and without.   *)
EXTENDS WorkflowRun, TLC

CONSTANTS s1, s2, s3, h1, h2

MCSteps == {s1, s2}
MCHandlers == {h1, h2}

Chain == s1 :> {} @@ s2 :> {s1}
MCDefinitions ==
    {[deps |-> Chain, gate |-> s2, limit |-> 2], [deps |-> Chain, gate |-> NoGate, limit |-> 2]}

(* For the order: everything three steps can depend on; the third step     *)
(* exceeds the limit.                                                      *)
OrderSteps == {s1, s2, s3}
OneHandler == {h1}

AnyDependencies == {[deps |-> d, gate |-> NoGate, limit |-> 2] : d \in Dependencies}
=============================================================================
