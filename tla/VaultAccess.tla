---------------------------- MODULE VaultAccess ----------------------------
(***************************************************************************)
(* Access of agents to the credential vault: the ACL, the audit log, the   *)
(* daily limit and the one-time approvals of the confirm policy.           *)
(*                                                                         *)
(* get_as, set_as and delete_as run the same protocol, one SQL statement   *)
(* after the other and outside any transaction: check_acl reads the ACL    *)
(* and the audit log, log_audit inserts a row, ensure_policy looks for an  *)
(* approval and uses it up or leaves a request, and then the operation     *)
(* itself runs.  Every process (daemon, mcp-serve, a CLI command) has a    *)
(* connection of its own to the one database: calls of one process follow  *)
(* each other, calls of two processes interleave between statements.  The  *)
(* secrets themselves are left out: no step reads them to decide.          *)
(***************************************************************************)
EXTENDS Naturals, Sequences, FiniteSets

CONSTANTS
    Processes,      \* connections to the database
    Keys,           \* keys of vault_entries
    Agents,         \* callers other than the master
    Actions,        \* get, set, delete
    Anyone,         \* the pattern '*' of key_pattern and agent
    NoAcl,          \* no row of vault_acl for a pattern
    Entries,        \* bound: the ACL entries the master writes
    InitialAcls,    \* bound: what the master has set up so far
    MaxCalls,       \* bound: calls made by agents
    MaxEdits        \* bound: changes of the ACL

Entry == [actions : (SUBSET Actions) \ {{}},
          limit   : Nat,                          \* calls a day, 0: no limit
          policy  : {"auto", "confirm", "mfa"}]

ASSUME VaultAssumption ==
    /\ IsFiniteSet(Processes) /\ Processes # {}
    /\ Entries \subseteq Entry
    /\ NoAcl \notin Entry
    /\ Anyone \notin Keys \cup Agents
    /\ MaxCalls \in Nat /\ MaxEdits \in Nat

Subject == [key : Keys, agent : Agents, action : Actions]

Pattern == (Keys \cup {Anyone}) \X (Agents \cup {Anyone})

ASSUME AclAssumption == InitialAcls \subseteq [Pattern -> Entries \cup {NoAcl}]

(* Rows of vault_pending_confirmations, in the order of requested_at;      *)
(* decided stands for decided_at: how many decisions came before.          *)
Request == [of      : Subject,
            status  : {"pending", "approved", "denied", "expired"},
            decided : Nat]

(* One call of get_as, set_as or delete_as, from check_acl to its result.  *)
Call == [by       : Processes,
         of       : Subject,
         pc       : {"log", "policy", "consume", "operate",
                     "done",                      \* the operation ran
                     "ended"},                    \* it did not: refused, killed
         allowed  : BOOLEAN,                      \* AclDecision
         policy   : {"auto", "confirm", "mfa"},   \* AclDecision
         approval : Nat]                          \* request it uses up, 0: none

VARIABLES
    acl,        \* vault_acl
    edits,      \* changes of the ACL so far
    audit,      \* vault_audit: rows with allowed = 1, of today and of all days
    requests,   \* vault_pending_confirmations
    calls       \* the agents' calls, in the order they began

vars == <<acl, edits, audit, requests, calls>>

At(i, pc) == i \in DOMAIN calls /\ calls[i].pc = pc

Running(i) == \E pc \in {"log", "policy", "consume", "operate"} : At(i, pc)

Init ==
    /\ acl \in InitialAcls
    /\ edits = 0
    /\ audit = [s \in Subject |-> [today |-> 0, ever |-> 0]]
    /\ requests = <<>>
    /\ calls = <<>>

-----------------------------------------------------------------------------
(* check_acl.  The first match rules: exact key and agent, exact key, exact *)
(* agent, anybody.                                                         *)
Priority(s) == << <<s.key, s.agent>>, <<s.key, Anyone>>, <<Anyone, s.agent>>, <<Anyone, Anyone>> >>

MatchingAcl(s) ==
    LET hits == {n \in 1 .. 4 : acl[Priority(s)[n]] # NoAcl}
    IN IF hits = {} THEN NoAcl
       ELSE acl[Priority(s)[CHOOSE n \in hits : \A h \in hits : n <= h]]

PermitsOneMore(e, s) ==     \* mutant: > for >=
    /\ e # NoAcl
    /\ s.action \in e.actions
    /\ e.limit = 0 \/ audit[s].today <= e.limit

Permits(e, s) ==
    /\ e # NoAcl
    /\ s.action \in e.actions
    /\ e.limit = 0 \/ audit[s].today < e.limit

(* A call begins with check_acl; the ACL and the count are read together.  *)
Begin(p, s) ==
    /\ Len(calls) < MaxCalls
    /\ \A i \in DOMAIN calls : calls[i].by = p => ~Running(i)
    /\ LET e == MatchingAcl(s)
       IN calls' = Append(calls, [by |-> p, of |-> s, pc |-> "log", approval |-> 0,
                                  allowed |-> Permits(e, s),
                                  policy |-> IF e = NoAcl THEN "auto" ELSE e.policy])
    /\ UNCHANGED <<acl, edits, audit, requests>>

Goto(i, pc) == calls' = [calls EXCEPT ![i].pc = pc]

(* log_audit: the row says what the ACL decided, before the policy is      *)
(* looked at; a call the ACL refuses ends here.                            *)
Counted(s) == [audit EXCEPT ![s] = [today |-> @.today + 1, ever |-> @.ever + 1]]

LogAudit(i) ==
    /\ At(i, "log")
    /\ Goto(i, IF calls[i].allowed THEN "policy" ELSE "ended")
    /\ audit' = IF calls[i].allowed THEN Counted(calls[i].of) ELSE audit
    /\ UNCHANGED <<acl, edits, requests>>

-----------------------------------------------------------------------------
(* ensure_policy.                                                          *)
PolicyAuto(i) ==
    /\ At(i, "policy") /\ calls[i].policy = "auto"
    /\ Goto(i, "operate")
    /\ UNCHANGED <<acl, edits, audit, requests>>

(* The TOTP code is right, or it is wrong, missing or not set up.          *)
PolicyMfa(i) ==
    /\ At(i, "policy") /\ calls[i].policy = "mfa"
    /\ \E pc \in {"operate", "ended"} : Goto(i, pc)
    /\ UNCHANGED <<acl, edits, audit, requests>>

ApprovedAnyAction(s) ==     \* mutant: the action is not compared
    {r \in DOMAIN requests : /\ requests[r].of.key = s.key
                             /\ requests[r].of.agent = s.agent
                             /\ requests[r].status = "approved"}

Approved(s) == {r \in DOMAIN requests : requests[r].of = s /\ requests[r].status = "approved"}

(* consume_approved_confirmation, first statement: SELECT the approval     *)
(* that was decided first.  Without one, insert_pending and an error.      *)
PolicyConfirm(i) ==
    /\ At(i, "policy") /\ calls[i].policy = "confirm"
    /\ LET candidates == Approved(calls[i].of)
       IN IF candidates = {}
          THEN /\ requests' = Append(requests, [of |-> calls[i].of, status |-> "pending",
                                                decided |-> 0])
               /\ Goto(i, "ended")
          ELSE /\ \E r \in candidates :
                     /\ \A n \in candidates : requests[r].decided <= requests[n].decided
                     /\ calls' = [calls EXCEPT ![i].pc = "consume", ![i].approval = r]
               /\ UNCHANGED requests
    /\ UNCHANGED <<acl, edits, audit>>

(* ... second statement: UPDATE ... SET status = 'expired' WHERE id = ?.   *)
ConsumeNothing(i) ==     \* mutant: the approval stays
    /\ At(i, "consume")
    /\ Goto(i, "operate")
    /\ UNCHANGED <<acl, edits, audit, requests>>

Consume(i) ==
    /\ At(i, "consume")
    /\ requests' = [requests EXCEPT ![calls[i].approval].status = "expired"]
    /\ Goto(i, "operate")
    /\ UNCHANGED <<acl, edits, audit>>

-----------------------------------------------------------------------------
(* get, set or delete.  It may fail (no such key, a wrong password): the   *)
(* caller gets an error, and the approval is used up all the same.         *)
Operate(i) ==
    /\ At(i, "operate")
    /\ Goto(i, "done")
    /\ UNCHANGED <<acl, edits, audit, requests>>

(* The process of a call is stopped; what it wrote so far stays.           *)
Kill(i) ==
    /\ Running(i)
    /\ Goto(i, "ended")
    /\ UNCHANGED <<acl, edits, audit, requests>>

-----------------------------------------------------------------------------
(* The master, who is not subject to the ACL, maintains it ...             *)
UpsertAcl(p, e) ==
    /\ edits < MaxEdits
    /\ acl' = [acl EXCEPT ![p] = e]
    /\ edits' = edits + 1
    /\ UNCHANGED <<audit, requests, calls>>

DeleteAcl(p) ==
    /\ edits < MaxEdits
    /\ acl[p] # NoAcl
    /\ acl' = [acl EXCEPT ![p] = NoAcl]
    /\ edits' = edits + 1
    /\ UNCHANGED <<audit, requests, calls>>

(* ... and decides.  set_pending_status: approve or deny, WHERE status =   *)
(* 'pending'.                                                              *)
Decisions == Cardinality({r \in DOMAIN requests : requests[r].status # "pending"})

DecideAgain(r, status) ==     \* mutant: WHERE id only
    /\ r \in DOMAIN requests
    /\ requests' = [requests EXCEPT ![r].status = status, ![r].decided = Decisions]
    /\ UNCHANGED <<acl, edits, audit, calls>>

Decide(r, status) ==
    /\ r \in DOMAIN requests /\ requests[r].status = "pending"
    /\ requests' = [requests EXCEPT ![r].status = status, ![r].decided = Decisions]
    /\ UNCHANGED <<acl, edits, audit, calls>>

(* count_today counts from midnight on.                                    *)
Midnight ==
    /\ audit' = [s \in Subject |-> [audit[s] EXCEPT !.today = 0]]
    /\ UNCHANGED <<acl, edits, requests, calls>>

-----------------------------------------------------------------------------
Access(i) ==
    \/ LogAudit(i) \/ PolicyAuto(i) \/ PolicyMfa(i) \/ PolicyConfirm(i)
    \/ Consume(i) \/ Operate(i) \/ Kill(i)

(* No call makes more than one request.                                    *)
Master ==
    \/ \E p \in Pattern : DeleteAcl(p) \/ \E e \in Entries : UpsertAcl(p, e)
    \/ \E r \in 1 .. MaxCalls, status \in {"approved", "denied"} : Decide(r, status)

Next ==
    \/ \E p \in Processes, s \in Subject : Begin(p, s)
    \/ \E i \in 1 .. MaxCalls : Access(i)
    \/ Master
    \/ Midnight

Spec == Init /\ [][Next]_vars
-----------------------------------------------------------------------------
(* Properties.                                                             *)

(* Every variable has its type, and an approval a call holds exists.       *)
TypeOK ==
    /\ acl \in [Pattern -> Entries \cup {NoAcl}]
    /\ edits \in 0 .. MaxEdits
    /\ audit \in [Subject -> [today : Nat, ever : Nat]]
    /\ requests \in Seq(Request)
    /\ calls \in Seq(Call)
    /\ \A i \in DOMAIN calls : calls[i].approval \in 0 .. Len(requests)

(* Calls that got past ensure_policy.                                      *)
Admitted(i) == calls[i].pc \in {"operate", "done"}

(* A call under the confirm policy reaches the vault only with an approval *)
(* the master gave for this key, agent and action, and that approval is    *)
(* marked as used before the operation runs (consume before get).          *)
ApprovalBacksAccess ==
    \A i \in DOMAIN calls : Admitted(i) /\ calls[i].policy = "confirm" =>
        /\ calls[i].approval \in DOMAIN requests
        /\ requests[calls[i].approval].of = calls[i].of
        /\ requests[calls[i].approval].status = "expired"

(* One approval admits at most one call of each process: with one process  *)
(* it is used once, and two processes that read it at the same moment can  *)
(* both pass, but neither passes with it again.                            *)
Uses(r) == {i \in DOMAIN calls : calls[i].approval = r /\ Admitted(i)}

ApprovalUsesBounded ==
    \A r \in DOMAIN requests : \A i, j \in Uses(r) :
        i # j => calls[i].by # calls[j].by

(* What the master decided stays decided: consume overwrites a row by its  *)
(* id alone, between the SELECT and the UPDATE nothing may change it but   *)
(* another consume.                                                        *)
DecisionsStay ==
    [][\A r \in DOMAIN requests : requests'[r].status # requests[r].status =>
          \/ requests[r].status = "pending" /\ requests'[r].status \in {"approved", "denied"}
          \/ requests[r].status = "approved" /\ requests'[r].status = "expired"]_vars

(* Every access of an agent has left its row in the audit log before it    *)
(* runs, whichever process is killed when (log_audit before ensure_policy). *)
AccessIsAudited ==
    \A s \in Subject :
        Cardinality({i \in DOMAIN calls : calls[i].of = s /\ Admitted(i)}) <= audit[s].ever

(* The daily limit is checked against a count that other processes are     *)
(* about to raise: it is exceeded by at most one call for each other       *)
(* process.  The limit is that of the matching entry, or, once the ACL has *)
(* changed, of some entry the master gives for this action.                *)
Ruling(s) == IF edits = 0 THEN {MatchingAcl(s)} ELSE Entries

LimitNearlyKept ==
    \A s \in Subject : audit[s].today > 0 =>
        \E e \in Ruling(s) :
            /\ s.action \in e.actions
            /\ e.limit = 0 \/ audit[s].today <= e.limit + Cardinality(Processes) - 1

=============================================================================
