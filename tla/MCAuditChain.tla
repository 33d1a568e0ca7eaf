---------------------------- MODULE MCAuditChain ----------------------------
(* One operator at a time runs the audit commands, beside the calls that   *)
(* log rows.                                                               *)
EXTENDS AuditChain

CONSTANT operator

MCProcesses == {operator}
=============================================================================
