----------------------------- MODULE AuditChain -----------------------------
(***************************************************************************)
(* The hash chain over the audit log of the vault, and its checkpoints.    *)
(*                                                                         *)
(* log_audit (VaultAccess) inserts rows without seq and hashes; `xgram     *)
(* audit backfill` gives them their place in the chain, `xgram audit       *)
(* checkpoint` signs what is new in the chain, `xgram audit verify` checks *)
(* both.  Each statement commits on its own: a command that is stopped     *)
(* leaves what it has written.                                             *)
(*                                                                         *)
(* A row is known by its position in the log (the order of timestamps).    *)
(* SHA-256 and Merkle roots are taken to be injective: the hash of a row   *)
(* is the sequence of rows hashed so far, all zeros is the empty sequence, *)
(* and a root is the set of its leaves (a leaf tells its own position).    *)
(***************************************************************************)
EXTENDS Naturals, Sequences, FiniteSets

CONSTANTS
    Processes,          \* connections that run the audit commands
    MaxRows,            \* bound: rows of the log
    MaxCheckpoints      \* bound: checkpoints

ASSUME BoundAssumption == MaxRows \in Nat /\ MaxCheckpoints \in Nat

Hash == Seq(1 .. MaxRows)

Zero == <<>>

Row == [seq : 0 .. MaxRows, prev : Hash, hash : Hash]       \* seq 0: NULL

Checkpoint == [seq : 1 .. MaxRows, root : SUBSET Hash]

VARIABLES
    rows,           \* vault_audit
    checkpoints,    \* audit_checkpoint, in the order of seq
    job             \* what each process has read and still has to do

vars == <<rows, checkpoints, job>>

Idle == [pc |-> "idle", todo |-> {}, seq |-> 0, prev |-> Zero, since |-> 0, root |-> {}]

Init ==
    /\ rows = <<>>
    /\ checkpoints = <<>>
    /\ job = [p \in Processes |-> Idle]

Chained == {i \in DOMAIN rows : rows[i].seq > 0}

(* An agent's call is logged.                                              *)
LogAudit ==
    /\ Len(rows) < MaxRows
    /\ rows' = Append(rows, [seq |-> 0, prev |-> Zero, hash |-> Zero])
    /\ UNCHANGED <<checkpoints, job>>

-----------------------------------------------------------------------------
(* backfill_chain: SELECT ... WHERE seq IS NULL ORDER BY timestamp ...      *)
BackfillReadAll(p) ==     \* mutant: without WHERE seq IS NULL
    /\ job[p].pc = "idle"
    /\ DOMAIN rows # {}
    /\ job' = [job EXCEPT ![p] = [Idle EXCEPT !.pc = "tail", !.todo = DOMAIN rows]]
    /\ UNCHANGED <<rows, checkpoints>>

BackfillRead(p) ==
    /\ job[p].pc = "idle"
    /\ DOMAIN rows # Chained
    /\ job' = [job EXCEPT ![p] = [Idle EXCEPT !.pc = "tail",
                                              !.todo = DOMAIN rows \ Chained]]
    /\ UNCHANGED <<rows, checkpoints>>

(* ... next_seq_and_prev: the last row of the chain ...                     *)
BackfillTail(p) ==
    /\ job[p].pc = "tail"
    /\ \/ /\ Chained = {}
          /\ job' = [job EXCEPT ![p].pc = "write", ![p].seq = 1]
       \/ \E i \in Chained :
             /\ \A j \in Chained : rows[j].seq <= rows[i].seq
             /\ job' = [job EXCEPT ![p].pc = "write",
                                   ![p].seq = rows[i].seq + 1,
                                   ![p].prev = rows[i].hash]
    /\ UNCHANGED <<rows, checkpoints>>

(* ... and one UPDATE for each row read, WHERE id = ?.                      *)
First(S) == CHOOSE i \in S : \A j \in S : i <= j

Written(p, i, seq, hash) ==
    /\ rows' = [rows EXCEPT ![i] = [seq |-> job[p].seq, prev |-> job[p].prev,
                                    hash |-> Append(job[p].prev, i)]]
    /\ \/ job[p].todo = {i} /\ job' = [job EXCEPT ![p] = Idle]
       \/ /\ job[p].todo # {i}
          /\ job' = [job EXCEPT ![p].todo = @ \ {i}, ![p].seq = seq, ![p].prev = hash]
    /\ UNCHANGED checkpoints

BackfillWriteAnyOrder(p) ==     \* mutant: no ORDER BY timestamp
    /\ job[p].pc = "write"
    /\ \E i \in job[p].todo : Written(p, i, job[p].seq + 1, Append(job[p].prev, i))

BackfillWrite(p) ==
    /\ job[p].pc = "write"
    /\ LET i == First(job[p].todo)
       IN Written(p, i, job[p].seq + 1, Append(job[p].prev, i))

-----------------------------------------------------------------------------
(* create_checkpoint: last_seq and since_seq ...                            *)
LastSeq == IF Chained = {} THEN 0
           ELSE rows[CHOOSE i \in Chained : \A j \in Chained : rows[j].seq <= rows[i].seq].seq

LastSigned == IF checkpoints = <<>> THEN 0 ELSE checkpoints[Len(checkpoints)].seq

LeavesSince(n) == {rows[i].hash : i \in {j \in Chained : rows[j].seq >= n}}

CheckpointRead(p) ==
    /\ job[p].pc = "idle"
    /\ LastSigned < LastSeq
    /\ job' = [job EXCEPT ![p] = [Idle EXCEPT !.pc = "root", !.seq = LastSeq,
                                              !.since = LastSigned + 1]]
    /\ UNCHANGED <<rows, checkpoints>>

(* ... the Merkle root of the rows since then ...                           *)
CheckpointRootOverlapping(p) ==     \* mutant: since_seq without + 1
    /\ job[p].pc = "root"
    /\ job' = [job EXCEPT ![p].pc = "insert", ![p].root = LeavesSince(job[p].since - 1)]
    /\ UNCHANGED <<rows, checkpoints>>

CheckpointRoot(p) ==
    /\ job[p].pc = "root"
    /\ job' = [job EXCEPT ![p].pc = "insert", ![p].root = LeavesSince(job[p].since)]
    /\ UNCHANGED <<rows, checkpoints>>

(* ... and the signed row, with last_seq as the primary key.                *)
CheckpointInsert(p) ==
    /\ job[p].pc = "insert"
    /\ Len(checkpoints) < MaxCheckpoints
    /\ checkpoints' =
          IF LastSigned < job[p].seq
          THEN Append(checkpoints, [seq |-> job[p].seq, root |-> job[p].root])
          ELSE checkpoints
    /\ job' = [job EXCEPT ![p] = Idle]
    /\ UNCHANGED rows

-----------------------------------------------------------------------------
(* The command is stopped, or a statement of it fails.                     *)
Stop(p) ==
    /\ job[p].pc # "idle"
    /\ job' = [job EXCEPT ![p] = Idle]
    /\ UNCHANGED <<rows, checkpoints>>

Next ==
    \/ LogAudit
    \/ \E p \in Processes :
          \/ BackfillRead(p) \/ BackfillTail(p) \/ BackfillWrite(p)
          \/ CheckpointRead(p) \/ CheckpointRoot(p) \/ CheckpointInsert(p)
          \/ Stop(p)

Spec == Init /\ [][Next]_vars

-----------------------------------------------------------------------------
(* verify_chain: seq counts 1, 2, ... and every row carries the hash of the *)
(* row before it and the hash of that and itself.                          *)
VerifyChain ==
    \A n \in 1 .. Cardinality(Chained) : \E i \in Chained :
        /\ rows[i].seq = n
        /\ rows[i].hash = Append(rows[i].prev, i)
        /\ IF n = 1 THEN rows[i].prev = Zero
           ELSE \E j \in Chained : rows[j].seq = n - 1 /\ rows[i].prev = rows[j].hash

(* Where the rows of a checkpoint begin: after the one before it.          *)
SignedBefore(k) == IF k = 1 THEN 0 ELSE checkpoints[k - 1].seq

-----------------------------------------------------------------------------
(* Properties.                                                             *)

(* Every variable has its type, and no row has a place in the chain beyond *)
(* the length of the log.                                                  *)
TypeOK ==
    /\ rows \in Seq(Row) /\ Len(rows) <= MaxRows
    /\ checkpoints \in Seq(Checkpoint)
    /\ job \in [Processes -> [pc    : {"idle", "tail", "write", "root", "insert"},
                              todo  : SUBSET (1 .. MaxRows),
                              seq   : 0 .. MaxRows + 1,
                              prev  : Hash,
                              since : 0 .. MaxRows,
                              root  : SUBSET Hash]]
    /\ \A i \in Chained : rows[i].seq <= Len(rows)

(* The chain verifies at every moment, also while rows are logged, halfway *)
(* through a backfill and after one that was stopped (verify_chain takes   *)
(* the rows that have a seq; the next backfill goes on from the last).     *)
ChainVerifies == VerifyChain

(* The chain follows the log: no row stands before one that was logged     *)
(* earlier, and none is passed over.                                       *)
ChainFollowsLog ==
    \A i, j \in DOMAIN rows : i < j /\ j \in Chained =>
        i \in Chained /\ rows[i].seq < rows[j].seq

(* The chain is the log, from its beginning to some row: it verifies, and  *)
(* it is in the order of the log (ORDER BY timestamp in backfill_chain).   *)
ChainIsTheLog == ChainVerifies /\ ChainFollowsLog

(* A row that has its place keeps it: whatever runs afterwards, its seq    *)
(* and hashes stay (backfill writes by id, without WHERE seq IS NULL).     *)
ChainIsAppendOnly == [][\A i \in Chained : rows'[i] = rows[i]]_vars

(* A checkpoint signs the rows that joined the chain since the checkpoint  *)
(* before it: none is left out and none is signed twice.                   *)
CheckpointSignsItsRows ==
    \A k \in DOMAIN checkpoints :
        checkpoints[k].root =
            {rows[i].hash : i \in {j \in Chained : /\ SignedBefore(k) < rows[j].seq
                                                   /\ rows[j].seq <= checkpoints[k].seq}}
=============================================================================
