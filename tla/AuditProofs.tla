----------------------------- MODULE AuditProofs -----------------------------
(***************************************************************************)
(* Proofs about AuditChain, for any number of rows and checkpoints, when   *)
(* one process at a time runs the audit commands (OneOperator).            *)
(*                                                                         *)
(* The chain is the first n rows of the log, each linked to the one before *)
(* it (ChainedTo).  What a command has read stays true until it writes: a  *)
(* backfill goes on at n + 1, and a checkpoint that is being made signs    *)
(* the rows up to n (JobOK).                                               *)
(***************************************************************************)
EXTENDS AuditChain, FiniteSetTheorems, TLAPS

OneOperator == \A p, q \in Processes : p = q

(* The hash of row n, if all rows up to it are chained in their order.     *)
Ident(n) == [k \in 1 .. n |-> k]

Link(i) == [seq |-> i, prev |-> Ident(i - 1), hash |-> Ident(i)]

ChainedTo(n) ==
    /\ n \in 0 .. Len(rows) /\ Chained = 1 .. n
    /\ \A i \in 1 .. n : rows[i] = Link(i)

JobOK(n, p) ==
    /\ job[p].pc \in {"tail", "write"} => \E m \in n + 1 .. Len(rows) : job[p].todo = n + 1 .. m
    /\ job[p].pc = "tail" => job[p].prev = Zero
    /\ job[p].pc = "write" => job[p].seq = n + 1 /\ job[p].prev = Ident(n)
    /\ job[p].pc \in {"root", "insert"} =>
          job[p].seq = n /\ job[p].since = LastSigned + 1 /\ LastSigned < n
    /\ job[p].pc = "insert" => job[p].root = {Ident(i) : i \in job[p].since .. n}

SignedRange(k) ==
    /\ SignedBefore(k) \in Nat /\ SignedBefore(k) < checkpoints[k].seq
    /\ checkpoints[k].root = {Ident(i) : i \in SignedBefore(k) + 1 .. checkpoints[k].seq}

SignedTo(n) ==
    /\ \A k \in DOMAIN checkpoints : SignedRange(k) /\ checkpoints[k].seq <= n
    /\ LastSigned \in 0 .. n

State(n) == ChainedTo(n) /\ SignedTo(n) /\ \A p \in Processes : JobOK(n, p)

IInv == TypeOK /\ \E n \in Nat : State(n)

-----------------------------------------------------------------------------
(* The identity of row n stands for the hashes of the rows up to it.       *)
LEMMA Idents ==
  ASSUME NEW n \in 0 .. MaxRows
  PROVE  /\ Ident(n) \in Hash
         /\ n + 1 <= MaxRows => Append(Ident(n), n + 1) = Ident(n + 1)
  <1>0. n \in Nat /\ MaxRows \in Nat
    BY BoundAssumption
  <1>1. Ident(n) \in Seq(1 .. MaxRows)
    BY <1>0 DEF Ident
  <1>2. Ident(n) \in Seq(Nat) /\ Len(Ident(n)) = n
    BY <1>0 DEF Ident
  <1>3. Append(Ident(n), n + 1) = Ident(n + 1)
    BY <1>0, <1>2 DEF Ident
  <1>. QED  BY <1>1, <1>3 DEF Hash

(* The link of row n joins it to row n - 1.                                *)
LEMMA Links ==
  ASSUME NEW n \in 1 .. MaxRows
  PROVE  Link(n) \in Row /\ Link(n).seq = n /\ Link(n).hash = Ident(n) /\ Link(n).prev = Ident(n - 1)
  <1>1. n \in 0 .. MaxRows /\ n - 1 \in 0 .. MaxRows
    BY BoundAssumption
  <1>2. Ident(n) \in Hash /\ Ident(n - 1) \in Hash
    BY <1>1, Idents
  <1>. QED  BY <1>1, <1>2 DEF Link, Row

(* The end of the chain, and the leaves from a row on.                     *)
LEMMA ChainEnd ==
  ASSUME TypeOK, NEW n \in Nat, ChainedTo(n)
  PROVE  /\ LastSeq = n /\ n <= MaxRows
         /\ \A i \in Chained : i \in 1 .. n /\ rows[i].seq = i /\ rows[i].hash = Ident(i)
                               /\ rows[i].prev = Ident(i - 1)
         /\ \A s \in Nat : s >= 1 => LeavesSince(s) = {Ident(i) : i \in s .. n}
  <1>1. n <= MaxRows /\ Len(rows) \in Nat
    BY BoundAssumption DEF TypeOK, ChainedTo
  <1>2. \A i \in Chained : /\ i \in 1 .. n /\ rows[i].seq = i /\ rows[i].hash = Ident(i)
                           /\ rows[i].prev = Ident(i - 1)
    <2>1. ASSUME NEW i \in Chained
          PROVE  /\ i \in 1 .. n /\ rows[i].seq = i /\ rows[i].hash = Ident(i)
                 /\ rows[i].prev = Ident(i - 1)
      <3>1. i \in 1 .. n /\ rows[i] = Link(i)
        BY DEF ChainedTo
      <3>2. i \in 1 .. MaxRows
        BY <1>1, <3>1, BoundAssumption
      <3>. QED  BY <3>1, <3>2, Links
    <2>. QED  BY <2>1
  <1>3. LastSeq = n
    <2>1. CASE n = 0
      BY <2>1 DEF LastSeq, ChainedTo
    <2>2. CASE n # 0
      <3>. DEFINE top == CHOOSE i \in Chained : \A j \in Chained : rows[j].seq <= rows[i].seq
      <3>1. n \in Chained /\ Chained = 1 .. n
        BY <2>2 DEF ChainedTo
      <3>2. \A j \in Chained : rows[j].seq <= rows[n].seq
        <4>1. rows[n].seq = n /\ \A j \in Chained : rows[j].seq = j /\ j \in 1 .. n
          BY <1>2, <3>1
        <4>. QED  BY <4>1
      <3>3. top \in Chained /\ \A j \in Chained : rows[j].seq <= rows[top].seq
        BY <3>1, <3>2
      <3>4. LastSeq = rows[top].seq
        BY <3>1 DEF LastSeq
      <3>. HIDE DEF top
      <3>. QED  BY <1>2, <3>1, <3>3, <3>4
    <2>. QED  BY <2>1, <2>2
  <1>4. ASSUME NEW s \in Nat, s >= 1
        PROVE  LeavesSince(s) = {Ident(i) : i \in s .. n}
    <2>1. {j \in Chained : rows[j].seq >= s} = s .. n
      BY <1>2, <1>4 DEF ChainedTo
    <2>2. \A i \in s .. n : rows[i].hash = Ident(i)
      BY <1>2, <1>4 DEF ChainedTo
    <2>. QED  BY <2>1, <2>2 DEF LeavesSince
  <1>. QED  BY <1>1, <1>2, <1>3, <1>4

-----------------------------------------------------------------------------
(* A step of the one process that leaves the tables alone.                 *)
JobType == [pc    : {"idle", "tail", "write", "root", "insert"},
            todo  : SUBSET (1 .. MaxRows),
            seq   : 0 .. MaxRows + 1,
            prev  : Hash,
            since : 0 .. MaxRows,
            root  : SUBSET Hash]

(* A process that does nothing has a record of the type.                   *)
LEMMA IdleTyped == Idle \in JobType /\ Idle.pc = "idle"
  <1>1. Zero \in Hash
    BY DEF Zero, Hash
  <1>. QED  BY <1>1, BoundAssumption DEF Idle, JobType

(* The rows as they are, one job changes: what has to be shown of it.      *)
LEMMA JobStep ==
  ASSUME OneOperator, TypeOK, NEW n \in Nat, ChainedTo(n), SignedTo(n),
         NEW p \in Processes, NEW j \in JobType, job' = [job EXCEPT ![p] = j],
         UNCHANGED <<rows, checkpoints>>,
         j.pc \in {"tail", "write"} => \E m \in n + 1 .. Len(rows) : j.todo = n + 1 .. m,
         j.pc = "tail" => j.prev = Zero,
         j.pc = "write" => j.seq = n + 1 /\ j.prev = Ident(n),
         j.pc \in {"root", "insert"} => j.seq = n /\ j.since = LastSigned + 1 /\ LastSigned < n,
         j.pc = "insert" => j.root = {Ident(i) : i \in j.since .. n}
  PROVE  IInv'
  <1>1. job \in [Processes -> JobType]
    BY DEF TypeOK, JobType
  <1>2. job' \in [Processes -> JobType] /\ job'[p] = j /\ \A q \in Processes : q = p
    BY <1>1 DEF OneOperator
  <1>3. TypeOK'
    BY <1>2 DEF TypeOK, JobType, Chained
  <1>4. ChainedTo(n)' /\ SignedTo(n)'
    BY DEF ChainedTo, Chained, SignedTo, SignedRange, SignedBefore, LastSigned
  <1>5. JobOK(n, p)'
    BY <1>2 DEF JobOK, LastSigned
  <1>. QED  BY <1>2, <1>3, <1>4, <1>5 DEF IInv, State

(* A stop leaves the tables alone and forgets the job.                     *)
LEMMA StopStep ==
  ASSUME OneOperator, IInv, NEW p \in Processes, Stop(p) PROVE IInv'
  <1>1. PICK n \in Nat : State(n)
    BY DEF IInv
  <1>. QED  BY <1>1, IdleTyped, JobStep DEF Stop, IInv, State

(* The rows read for the backfill are those behind the chain.              *)
LEMMA BackfillReadStep ==
  ASSUME OneOperator, IInv, NEW p \in Processes, BackfillRead(p) PROVE IInv'
  <1>. DEFINE j == [Idle EXCEPT !.pc = "tail", !.todo = DOMAIN rows \ Chained]
  <1>1. PICK n \in Nat : State(n)
    BY DEF IInv
  <1>2. /\ rows \in Seq(Row) /\ Len(rows) \in Nat /\ Len(rows) <= MaxRows
        /\ DOMAIN rows = 1 .. Len(rows) /\ DOMAIN rows # Chained
    BY DEF IInv, TypeOK, BackfillRead
  <1>3. n <= Len(rows) /\ Chained = 1 .. n
    BY <1>1 DEF State, ChainedTo
  <1>4. DOMAIN rows \ Chained = n + 1 .. Len(rows) /\ Len(rows) \in n + 1 .. Len(rows)
    <2>1. n # Len(rows)
      BY <1>2, <1>3
    <2>2. n < Len(rows)
      <3>1. Len(rows) \in Nat /\ n <= Len(rows)
        BY <1>2, <1>3
      <3>. QED  BY <2>1, <3>1
    <2>3. \A l \in Nat : (1 .. l) \ (1 .. n) = n + 1 .. l
      OBVIOUS
    <2>4. DOMAIN rows \ Chained = n + 1 .. Len(rows)
      BY <1>2, <1>3, <2>3
    <2>. QED  BY <1>2, <2>2, <2>4
  <1>5. DOMAIN rows \ Chained \in SUBSET (1 .. MaxRows)
    BY <1>2, BoundAssumption
  <1>6. j \in JobType /\ j.pc = "tail" /\ j.todo = n + 1 .. Len(rows) /\ j.prev = Zero
    BY <1>4, <1>5, IdleTyped DEF JobType, Idle
  <1>7. job' = [job EXCEPT ![p] = j] /\ UNCHANGED <<rows, checkpoints>>
    BY DEF BackfillRead
  <1>. HIDE DEF j
  <1>. QED  BY <1>1, <1>4, <1>6, <1>7, JobStep DEF IInv, State

(* With one operator the tail read is the tail still.                      *)
LEMMA BackfillTailStep ==
  ASSUME OneOperator, IInv, NEW p \in Processes, BackfillTail(p) PROVE IInv'
  <1>1. PICK n \in Nat : State(n)
    BY DEF IInv
  <1>2. job[p] \in JobType /\ job[p].pc = "tail" /\ JobOK(n, p)
    BY <1>1 DEF IInv, TypeOK, JobType, BackfillTail, State
  <1>3. PICK m \in n + 1 .. Len(rows) : job[p].todo = n + 1 .. m
    BY <1>2 DEF JobOK
  <1>4. n + 1 \in 0 .. MaxRows + 1 /\ n \in 0 .. MaxRows /\ n < Len(rows)
    BY <1>1, <1>3, BoundAssumption DEF IInv, TypeOK, State, ChainedTo
  <1>5. CASE Chained = {} /\ job' = [job EXCEPT ![p].pc = "write", ![p].seq = 1]
    <2>. DEFINE j == [job[p] EXCEPT !.pc = "write", !.seq = 1]
    <2>1. n = 0
      BY <1>1, <1>5 DEF State, ChainedTo
    <2>2. job[p].prev = Ident(n)
      BY <1>2, <2>1 DEF JobOK, Ident, Zero
    <2>3. /\ j \in JobType /\ j.pc = "write" /\ j.seq = n + 1 /\ j.prev = Ident(n)
          /\ j.todo = n + 1 .. m
      <3>1. n + 1 = 1 /\ 1 \in 0 .. MaxRows + 1
        BY <1>4, <2>1
      <3>2. j \in JobType /\ j.pc = "write" /\ j.seq = 1 /\ j.prev = job[p].prev /\ j.todo = job[p].todo
        BY <1>2, <3>1 DEF JobType
      <3>. QED  BY <1>3, <2>2, <3>1, <3>2
    <2>4. job' = [job EXCEPT ![p] = j] /\ UNCHANGED <<rows, checkpoints>>
      BY <1>5 DEF BackfillTail
    <2>. HIDE DEF j
    <2>. QED  BY <1>1, <2>3, <2>4, JobStep DEF IInv, State
  <1>6. ASSUME NEW i \in Chained, \A k \in Chained : rows[k].seq <= rows[i].seq,
               job' = [job EXCEPT ![p].pc = "write", ![p].seq = rows[i].seq + 1,
                                  ![p].prev = rows[i].hash]
        PROVE  IInv'
    <2>. DEFINE j == [job[p] EXCEPT !.pc = "write", !.seq = n + 1, !.prev = Ident(n)]
    <2>1. /\ \A k \in Chained : k \in 1 .. n /\ rows[k].seq = k /\ rows[k].hash = Ident(k)
          /\ Chained = 1 .. n
      BY <1>1, ChainEnd DEF IInv, State, ChainedTo
    <2>2. i = n
      BY <1>6, <2>1
    <2>3. job' = [job EXCEPT ![p] = j] /\ UNCHANGED <<rows, checkpoints>>
      <3>1. rows[i].seq = n /\ rows[i].hash = Ident(n)
        BY <2>1, <2>2
      <3>2. job' = [job EXCEPT ![p] = j]
        BY <1>6, <3>1
      <3>. QED  BY <3>2 DEF BackfillTail
    <2>4. Ident(n) \in Hash
      BY <1>4, Idents
    <2>5. /\ j \in JobType /\ j.pc = "write" /\ j.seq = n + 1 /\ j.prev = Ident(n)
          /\ j.todo = n + 1 .. m
      BY <1>2, <1>3, <1>4, <2>4 DEF JobType
    <2>. HIDE DEF j
    <2>. QED  BY <1>1, <2>3, <2>5, JobStep DEF IInv, State
  <1>. QED  BY <1>5, <1>6 DEF BackfillTail

(* A backfill writes the row next to the end of the chain.                 *)
LEMMA Writes ==
  ASSUME IInv, NEW p \in Processes, BackfillWrite(p), NEW n \in Nat, State(n)
  PROVE  /\ n + 1 \in DOMAIN rows /\ n + 1 \notin Chained /\ First(job[p].todo) = n + 1
         /\ rows' = [rows EXCEPT ![n + 1] = Link(n + 1)]
  <1>1. job[p] \in JobType /\ job[p].pc = "write" /\ JobOK(n, p)
    BY DEF IInv, TypeOK, JobType, BackfillWrite, State
  <1>2. PICK m \in n + 1 .. Len(rows) : job[p].todo = n + 1 .. m
    BY <1>1 DEF JobOK
  <1>3. /\ rows \in Seq(Row) /\ Len(rows) \in Nat /\ Len(rows) <= MaxRows /\ MaxRows \in Nat
        /\ Chained = 1 .. n
    BY BoundAssumption DEF IInv, TypeOK, State, ChainedTo
  <1>4. First(job[p].todo) = n + 1
    <2>1. n + 1 \in job[p].todo /\ \A k \in job[p].todo : k \in Int /\ n + 1 <= k
      BY <1>2
    <2>. QED  BY <2>1 DEF First
  <1>5. job[p].seq = n + 1 /\ job[p].prev = Ident(n)
    BY <1>1 DEF JobOK
  <1>6. Append(Ident(n), n + 1) = Ident(n + 1)
    BY <1>2, <1>3, Idents
  <1>7. rows' = [rows EXCEPT ![n + 1] = [seq |-> n + 1, prev |-> Ident(n), hash |-> Ident(n + 1)]]
    BY <1>4, <1>5, <1>6 DEF BackfillWrite, Written
  <1>. QED  BY <1>2, <1>3, <1>4, <1>7 DEF Link

(* The next row is linked to the tail: the chain grows by one.             *)
LEMMA BackfillWriteStep ==
  ASSUME OneOperator, IInv, NEW p \in Processes, BackfillWrite(p) PROVE IInv'
  <1>1. PICK n \in Nat : State(n)
    BY DEF IInv
  <1>2. job[p] \in JobType /\ job[p].pc = "write" /\ JobOK(n, p) /\ job \in [Processes -> JobType]
    BY <1>1 DEF IInv, TypeOK, JobType, BackfillWrite, State
  <1>3. PICK m \in n + 1 .. Len(rows) : job[p].todo = n + 1 .. m
    BY <1>2 DEF JobOK
  <1>4. /\ rows \in Seq(Row) /\ Len(rows) \in Nat /\ Len(rows) <= MaxRows /\ MaxRows \in Nat
        /\ Chained = 1 .. n /\ \A i \in 1 .. n : rows[i] = Link(i)
        /\ checkpoints \in Seq(Checkpoint)
    BY <1>1, BoundAssumption DEF IInv, TypeOK, State, ChainedTo
  <1>5. /\ n + 1 \in DOMAIN rows /\ First(job[p].todo) = n + 1
        /\ rows' = [rows EXCEPT ![n + 1] = Link(n + 1)]
    BY <1>1, Writes
  <1>6. n + 1 \in 1 .. MaxRows /\ n + 1 \in 0 .. MaxRows /\ n \in 0 .. MaxRows
    BY <1>3, <1>4
  <1>7. Link(n + 1) \in Row /\ Link(n + 1).seq = n + 1
    BY <1>6, Links
  <1>8. /\ rows' \in Seq(Row) /\ Len(rows') = Len(rows) /\ DOMAIN rows' = DOMAIN rows
        /\ rows'[n + 1] = Link(n + 1)
        /\ \A i \in DOMAIN rows : i # n + 1 => rows'[i] = rows[i]
    BY <1>4, <1>5, <1>7
  <1>9. Chained' = 1 .. n + 1
    <2>1. Chained' = Chained \cup {n + 1}
      BY <1>5, <1>7, <1>8 DEF Chained
    <2>. QED  BY <1>4, <2>1
  <1>10. ChainedTo(n + 1)'
    <2>1. n + 1 \in 0 .. Len(rows')
      BY <1>3, <1>4, <1>8
    <2>2. ASSUME NEW i \in 1 .. n + 1 PROVE rows'[i] = Link(i)
      <3>1. CASE i = n + 1
        BY <1>8, <3>1
      <3>2. CASE i # n + 1
        <4>1. i \in 1 .. n /\ i \in DOMAIN rows
          BY <1>3, <1>4, <3>2
        <4>. QED  BY <1>4, <1>8, <3>2, <4>1
      <3>. QED  BY <3>1, <3>2
    <2>. QED  BY <1>9, <2>1, <2>2 DEF ChainedTo
  <1>11. SignedTo(n + 1)'
    <2>1. checkpoints' = checkpoints
      BY DEF BackfillWrite, Written
    <2>2. \A k \in DOMAIN checkpoints : checkpoints[k].seq \in Nat /\ checkpoints[k].seq <= n
      <3>1. \A k \in DOMAIN checkpoints : checkpoints[k] \in Checkpoint
        BY <1>4
      <3>2. \A k \in DOMAIN checkpoints : checkpoints[k].seq <= n
        BY <1>1 DEF State, SignedTo
      <3>. QED  BY <3>1, <3>2 DEF Checkpoint
    <2>. QED  BY <1>1, <2>1, <2>2 DEF State, SignedTo, SignedRange, SignedBefore, LastSigned
  <1>12. /\ job' \in [Processes -> JobType]
         /\ \/ job'[p] = Idle
            \/ /\ job'[p].pc = "write" /\ job'[p].seq = n + 2 /\ job'[p].prev = Ident(n + 1)
               /\ n + 2 <= m /\ job'[p].todo = n + 2 .. m
    <2>. DEFINE j == [job[p] EXCEPT !.todo = job[p].todo \ {n + 1}, !.seq = n + 2, !.prev = Ident(n + 1)]
    <2>1. job[p].seq = n + 1 /\ job[p].prev = Ident(n) /\ Ident(n + 1) \in Hash
          /\ Append(Ident(n), n + 1) = Ident(n + 1)
      BY <1>2, <1>6, Idents DEF JobOK
    <2>2. job' = [job EXCEPT ![p] = IF job[p].todo = {n + 1} THEN Idle ELSE j]
      <3>1. job[p].seq + 1 = n + 2
        BY <2>1
      <3>2. Written(p, n + 1, n + 2, Ident(n + 1))
        BY <1>5, <2>1, <3>1 DEF BackfillWrite
      <3>3. CASE job[p].todo = {n + 1}
        BY <3>2, <3>3 DEF Written
      <3>4. CASE job[p].todo # {n + 1}
        <4>1. job' = [job EXCEPT ![p].todo = @ \ {n + 1}, ![p].seq = n + 2, ![p].prev = Ident(n + 1)]
          BY <3>2, <3>4 DEF Written
        <4>2. job' = [job EXCEPT ![p] = j]
          BY <1>2, <4>1 DEF JobType
        <4>. QED  BY <3>4, <4>2
      <3>. QED  BY <3>3, <3>4
    <2>3. CASE job[p].todo = {n + 1}
      BY <1>2, <2>2, <2>3, IdleTyped
    <2>4. CASE job[p].todo # {n + 1}
      <3>1. n + 2 <= m /\ job[p].todo \ {n + 1} = n + 2 .. m
        BY <1>3, <2>4
      <3>2. n + 2 \in 0 .. MaxRows + 1 /\ job[p].todo \ {n + 1} \in SUBSET (1 .. MaxRows)
        BY <1>2, <1>3, <1>4, <3>1 DEF JobType
      <3>3. /\ j \in JobType /\ j.pc = "write" /\ j.seq = n + 2 /\ j.prev = Ident(n + 1)
            /\ j.todo = n + 2 .. m
        BY <1>2, <2>1, <3>1, <3>2 DEF JobType
      <3>. HIDE DEF j
      <3>. QED  BY <1>2, <2>2, <2>4, <3>1, <3>3
    <2>. QED  BY <2>3, <2>4
  <1>13. \A q \in Processes : JobOK(n + 1, q)'
    <2>1. JobOK(n + 1, p)'
      <3>1. CASE job'[p] = Idle
        BY <3>1, IdleTyped DEF JobOK
      <3>2. CASE job'[p] # Idle
        <4>1. m \in n + 1 + 1 .. Len(rows') /\ job'[p].todo = n + 1 + 1 .. m /\ job'[p].seq = n + 1 + 1
          BY <1>3, <1>4, <1>8, <1>12, <3>2
        <4>2. job'[p].pc = "write" /\ job'[p].prev = Ident(n + 1)
          BY <1>12, <3>2
        <4>. QED  BY <4>1, <4>2 DEF JobOK
      <3>. QED  BY <3>1, <3>2
    <2>. QED  BY <2>1 DEF OneOperator
  <1>14. TypeOK'
    <2>1. checkpoints' = checkpoints
      BY DEF BackfillWrite, Written
    <2>2. \A i \in Chained' : rows'[i].seq <= Len(rows')
      <3>1. \A i \in 1 .. n + 1 : rows'[i] = Link(i) /\ i \in 1 .. MaxRows /\ i <= Len(rows')
        BY <1>3, <1>4, <1>8, <1>10 DEF ChainedTo
      <3>. QED  BY <1>9, <3>1, Links
    <2>. QED  BY <1>4, <1>8, <1>12, <2>1, <2>2 DEF TypeOK, JobType
  <1>15. n + 1 \in Nat
    OBVIOUS
  <1>. QED  BY <1>10, <1>11, <1>13, <1>14, <1>15 DEF IInv, State

-----------------------------------------------------------------------------
(* A checkpoint: between its statements the chain stays, because nobody    *)
(* else runs a backfill.                                                   *)
LEMMA CheckpointReadStep ==
  ASSUME OneOperator, IInv, NEW p \in Processes, CheckpointRead(p) PROVE IInv'
  <1>. DEFINE j == [Idle EXCEPT !.pc = "root", !.seq = LastSeq, !.since = LastSigned + 1]
  <1>1. PICK n \in Nat : State(n)
    BY DEF IInv
  <1>2. LastSeq = n /\ n <= MaxRows /\ MaxRows \in Nat
    BY <1>1, ChainEnd, BoundAssumption DEF IInv, State
  <1>3. LastSigned < n /\ LastSigned \in Nat
    BY <1>1, <1>2 DEF CheckpointRead, State, SignedTo
  <1>4. n \in 0 .. MaxRows + 1 /\ LastSigned + 1 \in 0 .. MaxRows
    BY <1>2, <1>3
  <1>5. j \in JobType /\ j.pc = "root" /\ j.seq = n /\ j.since = LastSigned + 1
    BY <1>2, <1>4, IdleTyped DEF JobType
  <1>6. job' = [job EXCEPT ![p] = j] /\ UNCHANGED <<rows, checkpoints>>
    BY DEF CheckpointRead
  <1>. HIDE DEF j
  <1>. QED  BY <1>1, <1>3, <1>5, <1>6, JobStep DEF IInv, State

(* The leaves are those since the last checkpoint: nobody else adds any.   *)
LEMMA CheckpointRootStep ==
  ASSUME OneOperator, IInv, NEW p \in Processes, CheckpointRoot(p) PROVE IInv'
  <1>. DEFINE j == [job[p] EXCEPT !.pc = "insert", !.root = LeavesSince(job[p].since)]
  <1>1. PICK n \in Nat : State(n)
    BY DEF IInv
  <1>2. job[p] \in JobType /\ job[p].pc = "root" /\ JobOK(n, p)
    BY <1>1 DEF IInv, TypeOK, JobType, CheckpointRoot, State
  <1>3. job[p].seq = n /\ job[p].since = LastSigned + 1 /\ LastSigned < n /\ LastSigned \in Nat
    BY <1>1, <1>2 DEF JobOK, State, SignedTo
  <1>4. LeavesSince(job[p].since) = {Ident(i) : i \in job[p].since .. n}
    <2>1. job[p].since \in Nat /\ job[p].since >= 1
      BY <1>3
    <2>. QED  BY <1>1, <2>1, ChainEnd DEF IInv, State
  <1>5. {Ident(i) : i \in job[p].since .. n} \in SUBSET Hash
    <2>1. n <= MaxRows /\ MaxRows \in Nat
      BY <1>1, ChainEnd, BoundAssumption DEF IInv, State
    <2>2. job[p].since .. n \subseteq 0 .. MaxRows
      BY <1>3, <2>1
    <2>. QED  BY <2>2, Idents
  <1>6. /\ j \in JobType /\ j.pc = "insert" /\ j.seq = n /\ j.since = LastSigned + 1
        /\ j.root = {Ident(i) : i \in j.since .. n}
    BY <1>2, <1>3, <1>4, <1>5 DEF JobType
  <1>7. job' = [job EXCEPT ![p] = j] /\ UNCHANGED <<rows, checkpoints>>
    BY DEF CheckpointRoot
  <1>. HIDE DEF j
  <1>. QED  BY <1>1, <1>3, <1>6, <1>7, JobStep DEF IInv, State

(* The checkpoint signs what its job has read.                             *)
LEMMA CheckpointInsertStep ==
  ASSUME OneOperator, IInv, NEW p \in Processes, CheckpointInsert(p) PROVE IInv'
  <1>. DEFINE new == [seq |-> job[p].seq, root |-> job[p].root]
  <1>0. PICK k0 \in Nat : k0 = Len(checkpoints) + 1
    BY DEF IInv, TypeOK
  <1>1. PICK n \in Nat : State(n)
    BY DEF IInv
  <1>2. job[p] \in JobType /\ job[p].pc = "insert" /\ JobOK(n, p) /\ job \in [Processes -> JobType]
    BY <1>1 DEF IInv, TypeOK, JobType, CheckpointInsert, State
  <1>3. /\ job[p].seq = n /\ job[p].since = LastSigned + 1 /\ LastSigned < n /\ LastSigned \in Nat
        /\ job[p].root = {Ident(i) : i \in job[p].since .. n}
    BY <1>1, <1>2 DEF JobOK, State, SignedTo
  <1>4. n \in 1 .. MaxRows /\ checkpoints \in Seq(Checkpoint)
    BY <1>1, <1>3, ChainEnd, BoundAssumption DEF IInv, TypeOK, State
  <1>5. new \in Checkpoint /\ new.seq = n /\ new.root = {Ident(i) : i \in LastSigned + 1 .. n}
    BY <1>2, <1>3, <1>4 DEF Checkpoint, JobType
  <1>6. /\ checkpoints' = Append(checkpoints, new) /\ job' = [job EXCEPT ![p] = Idle] /\ rows' = rows
    BY <1>3 DEF CheckpointInsert
  <1>. HIDE DEF new
  <1>7. /\ checkpoints' \in Seq(Checkpoint) /\ Len(checkpoints') = k0 /\ k0 \in Nat /\ k0 >= 1
        /\ DOMAIN checkpoints' = DOMAIN checkpoints \cup {k0} /\ checkpoints'[k0] = new
        /\ \A k \in DOMAIN checkpoints : checkpoints'[k] = checkpoints[k] /\ k \in 1 .. k0 - 1
    BY <1>0, <1>4, <1>5, <1>6
  <1>8. LastSigned' = n
    <2>1. checkpoints' # <<>>
      BY <1>7
    <2>. QED  BY <1>5, <1>7, <2>1 DEF LastSigned
  <1>9. SignedBefore(k0)' = LastSigned
    <2>1. CASE checkpoints = <<>>
      <3>1. k0 = 1
        BY <1>0, <2>1
      <3>. QED  BY <2>1, <3>1 DEF SignedBefore, LastSigned
    <2>2. CASE checkpoints # <<>>
      <3>1. Len(checkpoints) \in DOMAIN checkpoints /\ k0 # 1 /\ k0 - 1 = Len(checkpoints)
        BY <1>0, <1>4, <2>2
      <3>2. SignedBefore(k0)' = checkpoints'[k0 - 1].seq
        BY <1>7, <3>1 DEF SignedBefore
      <3>. QED  BY <1>7, <2>2, <3>1, <3>2 DEF LastSigned
    <2>. QED  BY <2>1, <2>2
  <1>10. \A k \in DOMAIN checkpoints : SignedBefore(k)' = SignedBefore(k)
    <2>1. ASSUME NEW k \in DOMAIN checkpoints, k # 1
          PROVE  k - 1 \in DOMAIN checkpoints /\ checkpoints'[k - 1] = checkpoints[k - 1]
      <3>1. k - 1 \in DOMAIN checkpoints
        BY <1>4, <2>1
      <3>. QED  BY <1>7, <3>1
    <2>. QED  BY <2>1 DEF SignedBefore
  <1>11. SignedTo(n)'
    <2>1. ASSUME NEW k \in DOMAIN checkpoints
          PROVE  SignedRange(k)' /\ checkpoints'[k].seq <= n
      BY <1>1, <1>7, <1>10 DEF State, SignedTo, SignedRange
    <2>2. SignedRange(k0)' /\ checkpoints'[k0].seq <= n
      <3>1. checkpoints'[k0].seq = n /\ checkpoints'[k0].root = {Ident(i) : i \in LastSigned + 1 .. n}
        BY <1>5, <1>7
      <3>2. SignedBefore(k0)' \in Nat /\ SignedBefore(k0)' < checkpoints'[k0].seq
        BY <1>3, <1>9, <3>1
      <3>. QED  BY <1>9, <3>1, <3>2 DEF SignedRange
    <2>3. LastSigned' \in 0 .. n
      BY <1>8
    <2>. QED  BY <1>7, <2>1, <2>2, <2>3 DEF SignedTo
  <1>12. job' \in [Processes -> JobType] /\ job'[p] = Idle
    BY <1>2, <1>6, IdleTyped
  <1>13. \A q \in Processes : JobOK(n, q)'
    BY <1>12, IdleTyped DEF OneOperator, JobOK
  <1>14. ChainedTo(n)'
    BY <1>1, <1>6 DEF State, ChainedTo, Chained
  <1>15. TypeOK'
    BY <1>6, <1>7, <1>12 DEF IInv, TypeOK, JobType, Chained
  <1>. QED  BY <1>11, <1>13, <1>14, <1>15 DEF IInv, State

(* A row is logged behind the chain.                                       *)
LEMMA LogAuditStep == ASSUME IInv, LogAudit PROVE IInv'
  <1>. DEFINE new == [seq |-> 0, prev |-> Zero, hash |-> Zero]
  <1>1. PICK n \in Nat : State(n)
    BY DEF IInv
  <1>2. rows' = Append(rows, new) /\ UNCHANGED <<checkpoints, job>> /\ Len(rows) < MaxRows
    BY DEF LogAudit
  <1>3. rows \in Seq(Row) /\ Len(rows) \in Nat /\ MaxRows \in Nat
    BY BoundAssumption DEF IInv, TypeOK
  <1>4. new \in Row /\ new.seq = 0
    BY <1>3 DEF Row, Hash, Zero
  <1>. HIDE DEF new
  <1>5. /\ rows' \in Seq(Row) /\ Len(rows') = Len(rows) + 1
        /\ DOMAIN rows' = DOMAIN rows \cup {Len(rows) + 1} /\ rows'[Len(rows) + 1] = new
        /\ \A i \in DOMAIN rows : rows'[i] = rows[i]
    BY <1>2, <1>3, <1>4
  <1>6. Chained' = Chained
    BY <1>4, <1>5 DEF Chained
  <1>7. ChainedTo(n)'
    <2>1. n \in 0 .. Len(rows') /\ Chained' = 1 .. n
      BY <1>1, <1>3, <1>5, <1>6 DEF State, ChainedTo
    <2>2. \A i \in 1 .. n : rows'[i] = Link(i)
      <3>1. \A i \in 1 .. n : i \in DOMAIN rows /\ rows[i] = Link(i)
        BY <1>1, <1>3 DEF State, ChainedTo
      <3>. QED  BY <1>5, <3>1
    <2>. QED  BY <2>1, <2>2 DEF ChainedTo
  <1>8. SignedTo(n)'
    BY <1>1, <1>2 DEF State, SignedTo, SignedRange, SignedBefore, LastSigned
  <1>9. ASSUME NEW p \in Processes PROVE JobOK(n, p)'
    <2>1. job' = job /\ JobOK(n, p) /\ LastSigned' = LastSigned
      BY <1>1, <1>2 DEF State, LastSigned
    <2>2. \A m \in n + 1 .. Len(rows) : m \in n + 1 .. Len(rows')
      BY <1>3, <1>5
    <2>. QED  BY <2>1, <2>2 DEF JobOK
  <1>10. TypeOK'
    <2>1. \A i \in Chained' : rows'[i].seq <= Len(rows')
      <3>1. ASSUME NEW i \in Chained PROVE rows[i].seq <= Len(rows) /\ rows[i].seq \in Nat /\ i \in DOMAIN rows
        <4>1. i \in DOMAIN rows /\ rows[i].seq <= Len(rows)
          BY DEF IInv, TypeOK, Chained
        <4>2. rows[i] \in Row
          BY <1>3, <4>1
        <4>. QED  BY <4>1, <4>2, <1>3 DEF Row
      <3>. QED  BY <1>3, <1>5, <1>6, <3>1
    <2>2. Len(rows') <= MaxRows
      BY <1>2, <1>3, <1>5
    <2>. QED  BY <1>2, <1>5, <2>1, <2>2 DEF IInv, TypeOK
  <1>. QED  BY <1>7, <1>8, <1>9, <1>10 DEF IInv, State

-----------------------------------------------------------------------------
(* Empty tables: the chain is the first 0 rows.                            *)
LEMMA InitIInv == Init => IInv
  <1>. SUFFICES ASSUME Init PROVE IInv
    OBVIOUS
  <1>1. /\ rows = <<>> /\ checkpoints = <<>> /\ DOMAIN rows = {} /\ DOMAIN checkpoints = {}
        /\ Len(rows) = 0 /\ rows \in Seq(Row) /\ checkpoints \in Seq(Checkpoint)
    BY DEF Init
  <1>2. Chained = {}
    BY <1>1 DEF Chained
  <1>3. job \in [Processes -> JobType] /\ \A p \in Processes : job[p] = Idle
    BY IdleTyped DEF Init
  <1>4. TypeOK
    BY <1>1, <1>2, <1>3, BoundAssumption DEF TypeOK, JobType
  <1>5. State(0)
    <2>1. ChainedTo(0)
      BY <1>1, <1>2 DEF ChainedTo
    <2>2. SignedTo(0)
      BY <1>1 DEF SignedTo, LastSigned
    <2>3. \A p \in Processes : JobOK(0, p)
      BY <1>3, IdleTyped DEF JobOK
    <2>. QED  BY <2>1, <2>2, <2>3 DEF State
  <1>. QED  BY <1>4, <1>5 DEF IInv

(* Each step keeps the invariant.                                          *)
LEMMA NextIInv == OneOperator /\ IInv /\ [Next]_vars => IInv'
  <1>. SUFFICES ASSUME OneOperator, IInv, [Next]_vars PROVE IInv'
    OBVIOUS
  <1>1. CASE LogAudit
    BY <1>1, LogAuditStep
  <1>2. ASSUME NEW p \in Processes,
               \/ BackfillRead(p) \/ BackfillTail(p) \/ BackfillWrite(p)
               \/ CheckpointRead(p) \/ CheckpointRoot(p) \/ CheckpointInsert(p)
               \/ Stop(p)
        PROVE  IInv'
    BY <1>2, BackfillReadStep, BackfillTailStep, BackfillWriteStep, CheckpointReadStep,
       CheckpointRootStep, CheckpointInsertStep, StopStep
  <1>3. CASE UNCHANGED vars
    <2>1. TypeOK'
      BY <1>3 DEF vars, IInv, TypeOK, Chained
    <2>2. PICK n \in Nat : State(n)
      BY DEF IInv
    <2>3. State(n)'
      BY <1>3, <2>2 DEF vars, State, ChainedTo, Chained, SignedTo, SignedRange, SignedBefore,
                        LastSigned, JobOK
    <2>. QED  BY <2>1, <2>3 DEF IInv
  <1>. QED  BY <1>1, <1>2, <1>3 DEF Next

(* With one operator the chain is always the first n rows of the log, and  *)
(* the checkpoints sign it piece by piece.                                 *)
THEOREM Invariance == OneOperator => (Spec => []IInv)
  <1>. SUFFICES ASSUME OneOperator PROVE Spec => []IInv
    OBVIOUS
  <1>1. IInv /\ [Next]_vars => IInv'
    BY NextIInv
  <1>. QED  BY InitIInv, <1>1, PTL DEF Spec

(* verify_chain accepts the chain at every moment.                         *)
THEOREM Verifies == OneOperator => (Spec => []ChainVerifies)
  <1>1. IInv => ChainVerifies
    <2>. SUFFICES ASSUME IInv PROVE VerifyChain
      BY DEF ChainVerifies
    <2>1. PICK n \in Nat : State(n)
      BY DEF IInv
    <2>2. Chained = 1 .. n /\ n <= MaxRows /\ MaxRows \in Nat /\ TypeOK /\ ChainedTo(n)
      BY <2>1, ChainEnd, BoundAssumption DEF IInv, State, ChainedTo
    <2>3. Cardinality(Chained) = n
      <3>1. 1 \in Int /\ n \in Int
        OBVIOUS
      <3>2. Cardinality(1 .. n) = IF 1 > n THEN 0 ELSE n - 1 + 1
        BY <3>1, FS_Interval
      <3>. QED  BY <2>2, <3>2
    <2>4. ASSUME NEW i \in 1 .. n
          PROVE  /\ i \in Chained /\ rows[i].seq = i /\ rows[i].hash = Append(rows[i].prev, i)
                 /\ IF i = 1 THEN rows[i].prev = Zero
                    ELSE \E j \in Chained : rows[j].seq = i - 1 /\ rows[i].prev = rows[j].hash
      <3>1. \A j \in Chained : /\ rows[j].seq = j /\ rows[j].hash = Ident(j)
                               /\ rows[j].prev = Ident(j - 1)
        BY <2>1, <2>2, ChainEnd
      <3>2. rows[i].seq = i /\ rows[i].hash = Ident(i) /\ rows[i].prev = Ident(i - 1)
        BY <2>2, <3>1
      <3>3. Append(Ident(i - 1), i) = Ident(i)
        <4>1. i - 1 \in 0 .. MaxRows /\ i - 1 + 1 = i /\ i <= MaxRows
          BY <2>2
        <4>. QED  BY <4>1, Idents
      <3>4. CASE i = 1
        BY <2>2, <3>2, <3>3, <3>4 DEF Ident, Zero
      <3>5. CASE i # 1
        <4>1. i - 1 \in Chained
          BY <2>2, <3>5
        <4>2. rows[i - 1].seq = i - 1 /\ rows[i - 1].hash = Ident(i - 1)
          BY <3>1, <4>1
        <4>. QED  BY <2>2, <3>2, <3>3, <3>5, <4>1, <4>2
      <3>. QED  BY <3>4, <3>5
    <2>. QED  BY <2>3, <2>4 DEF VerifyChain
  <1>. SUFFICES ASSUME OneOperator PROVE Spec => []ChainVerifies
    OBVIOUS
  <1>2. Spec => []IInv
    BY Invariance
  <1>. QED  BY <1>1, <1>2, PTL

(* The chain is in the order of the log and passes no row over.            *)
THEOREM Follows == OneOperator => (Spec => []ChainFollowsLog)
  <1>1. IInv => ChainFollowsLog
    <2>. SUFFICES ASSUME IInv, NEW i \in DOMAIN rows, NEW j \in DOMAIN rows, i < j, j \in Chained
                  PROVE  i \in Chained /\ rows[i].seq < rows[j].seq
      BY DEF ChainFollowsLog
    <2>1. PICK n \in Nat : State(n)
      BY DEF IInv
    <2>2. Chained = 1 .. n /\ i \in Nat /\ i >= 1
      BY <2>1 DEF IInv, TypeOK, State, ChainedTo
    <2>3. i \in Chained
      BY <2>2
    <2>4. \A k \in Chained : rows[k].seq = k
      BY <2>1, ChainEnd DEF IInv, State
    <2>. QED  BY <2>3, <2>4
  <1>. SUFFICES ASSUME OneOperator PROVE Spec => []ChainFollowsLog
    OBVIOUS
  <1>2. Spec => []IInv
    BY Invariance
  <1>. QED  BY <1>1, <1>2, PTL

(* The chain is a beginning of the log.                                    *)
THEOREM IsTheLog == OneOperator => (Spec => []ChainIsTheLog)
  BY Verifies, Follows, PTL DEF ChainIsTheLog

(* A checkpoint signs exactly what joined the chain since the one before.  *)
THEOREM SignsItsRows == OneOperator => (Spec => []CheckpointSignsItsRows)
  <1>1. IInv => CheckpointSignsItsRows
    <2>. SUFFICES ASSUME IInv, NEW k \in DOMAIN checkpoints
                  PROVE  checkpoints[k].root =
                            {rows[i].hash : i \in {j \in Chained : /\ SignedBefore(k) < rows[j].seq
                                                                  /\ rows[j].seq <= checkpoints[k].seq}}
      BY DEF CheckpointSignsItsRows
    <2>1. PICK n \in Nat : State(n)
      BY DEF IInv
    <2>2. /\ Chained = 1 .. n
          /\ \A j \in Chained : rows[j].seq = j /\ rows[j].hash = Ident(j)
      BY <2>1, ChainEnd DEF IInv, State, ChainedTo
    <2>3. SignedRange(k) /\ checkpoints[k].seq <= n /\ checkpoints[k] \in Checkpoint
      BY <2>1 DEF IInv, TypeOK, State, SignedTo
    <2>4. checkpoints[k].seq \in Nat /\ SignedBefore(k) \in Nat
      BY <2>3 DEF SignedRange, Checkpoint
    <2>5. {j \in Chained : SignedBefore(k) < rows[j].seq /\ rows[j].seq <= checkpoints[k].seq}
             = SignedBefore(k) + 1 .. checkpoints[k].seq
      BY <2>2, <2>3, <2>4
    <2>6. \A i \in SignedBefore(k) + 1 .. checkpoints[k].seq : rows[i].hash = Ident(i)
      BY <2>2, <2>3, <2>4
    <2>. QED  BY <2>3, <2>5, <2>6 DEF SignedRange
  <1>. SUFFICES ASSUME OneOperator PROVE Spec => []CheckpointSignsItsRows
    OBVIOUS
  <1>2. Spec => []IInv
    BY Invariance
  <1>. QED  BY <1>1, <1>2, PTL

(* A row that has its place keeps it.                                      *)
THEOREM AppendsOnly == OneOperator => (Spec => ChainIsAppendOnly)
  <1>. DEFINE Keeps == \A i \in Chained : rows'[i] = rows[i]
  <1>1. IInv /\ [Next]_vars => [Keeps]_vars
    <2>. SUFFICES ASSUME IInv, Next PROVE Keeps
      OBVIOUS
    <2>1. CASE LogAudit
      BY <2>1 DEF LogAudit, IInv, TypeOK, Chained
    <2>2. ASSUME NEW p \in Processes, BackfillWrite(p) PROVE Keeps
      <3>1. PICK n \in Nat : State(n)
        BY DEF IInv
      <3>2. n + 1 \notin Chained /\ rows' = [rows EXCEPT ![n + 1] = Link(n + 1)]
        BY <2>2, <3>1, Writes
      <3>. QED  BY <3>2 DEF Chained
    <2>3. CASE UNCHANGED rows
      BY <2>3
    <2>. QED
      BY <2>1, <2>2, <2>3 DEF Next, BackfillRead, BackfillTail, CheckpointRead, CheckpointRoot,
                              CheckpointInsert, Stop
  <1>. SUFFICES ASSUME OneOperator PROVE Spec => ChainIsAppendOnly
    OBVIOUS
  <1>2. Spec => []IInv
    BY Invariance
  <1>. QED  BY <1>1, <1>2, PTL DEF Spec, ChainIsAppendOnly
=============================================================================
