------------------------- MODULE PeerDeliveryProofs -------------------------
(***************************************************************************)
(* Proofs about PeerDelivery, for every set of messages and every value of *)
(* the limits and waiting times.                                           *)
(*                                                                         *)
(* The invariant has two parts.  WorkerOK says what the drain worker may   *)
(* rely on while it posts without the lock: each row in hand is still the  *)
(* row it selected, or gone.  Custody follows a message from the           *)
(* receiver's store over the ACK in hand and the ACK under way to the      *)
(* ack_at column.                                                          *)
(***************************************************************************)
EXTENDS PeerDelivery, TLAPS

Stored(m) == inbox[m] > 0

(* What a job in hand says of its row, as long as the row exists.          *)
JobFits(j, r) ==
    /\ ~GivenUp(r)
    /\ IF j.retry THEN r.sent /\ r.attempts < AckMax
                  ELSE ~r.sent /\ r.attempts <= MaxAttempts

RowOK(r) ==
    /\ r.attempts <= MaxAttempts + 1 \/ r.attempts <= AckMax
    /\ r.err = "max_retries" => ~r.sent /\ r.attempts = MaxAttempts + 1
    /\ r.err = "ack_timeout_max" => r.sent /\ r.attempts >= AckMax
    /\ ~r.sent => r.attempts <= MaxAttempts + 1

WorkerOK ==
    /\ worker.pc = "idle" => worker.todo = {} /\ worker.job = {}
    /\ worker.pc = "send" => worker.job = {}
    /\ \A j, k \in worker.todo : j.msg = k.msg => j = k
    /\ \A j, k \in worker.job : j = k
    /\ \A j \in worker.todo, k \in worker.job : j.msg # k.msg
    /\ \A j \in worker.todo \cup worker.job :
          /\ client[j.msg] = "done"
          /\ j.msg \in rows => JobFits(j, q[j.msg])
    /\ \A m \in rows : client[m] = "done" /\ RowOK(q[m])

Custody ==
    /\ AckMeansStored
    /\ ProcessedMeansRead
    /\ \A i \in 1 .. Len(acks) : Stored(acks[i])
    /\ \A m \in acking : Stored(m)

IInv == TypeOK /\ WorkerOK /\ Custody

-----------------------------------------------------------------------------
(* The statements on one row.                                              *)

(* Ages stay within their cap.                                             *)
LEMMA Ages == 0 \in 0 .. Cap /\ \A a \in 0 .. Cap : Older(a) \in 0 .. Cap
  BY CapAssumption DEF Older

(* Every statement turns a row into a row: no column leaves its range.     *)
LEMMA NewRowType == NewUnsent \in Row /\ NewSent \in Row
  <1>1. NewUnsent \in Row
    BY Ages DEF NewUnsent, Row, LastError, AppStatus
  <1>2. NewSent \in Row
    BY <1>1 DEF NewSent, Row
  <1>. QED  BY <1>1, <1>2

(* The same for the statements of the first send and the ACK.              *)
LEMMA RowType ==
    ASSUME NEW r \in Row
    PROVE  /\ Marked(r) \in Row
           /\ AfterFirstSend(r) \in Row
           /\ AfterAckRetry(r) \in Row
           /\ AfterAck(r) \in Row
           /\ AfterReply(r) \in Row
           /\ AfterOverdue(r) \in Row
           /\ Aged(r) \in Row
  <1>. USE DEF Row, LastError, AppStatus
  <1>1. Marked(r) \in Row
    BY DEF Marked
  <1>2. AfterFirstSend(r) \in Row
    BY Ages DEF AfterFirstSend
  <1>3. AfterAckRetry(r) \in Row
    <2>1. r.attempts + 1 \in Nat
      OBVIOUS
    <2>. QED  BY <2>1, Ages DEF AfterAckRetry
  <1>4. AfterAck(r) \in Row /\ AfterReply(r) \in Row /\ AfterOverdue(r) \in Row
    BY DEF AfterAck, AfterReply, AfterOverdue
  <1>5. Aged(r) \in Row
    <2>1. (IF r.sent THEN Older(r.sentAge) ELSE 0) \in 0 .. Cap
      BY Ages
    <2>2. (IF r.wait > 0 THEN r.wait - 1 ELSE 0) \in Nat
      OBVIOUS
    <2>3. Older(r.age) \in 0 .. Cap
      BY Ages
    <2>. QED  BY <2>1, <2>2, <2>3 DEF Aged
  <1>. QED  BY <1>1, <1>2, <1>3, <1>4, <1>5

(* The same for a failed send, whose backoff is bounded by the budget.     *)
LEMMA FailedRowType ==
    ASSUME NEW r \in Row, r.attempts <= MaxAttempts
    PROVE  AfterFailedSend(r) \in Row
  <1>1. r.attempts \in 0 .. MaxAttempts
    BY BudgetAssumption DEF Row
  <1>2. Backoff(r.attempts) \in Nat /\ r.attempts + 1 \in Nat
    BY <1>1, BackoffAssumption
  <1>. QED  BY <1>2 DEF AfterFailedSend, Row, LastError

(* The marks tell the truth, and no statement on a row makes them lie.     *)
LEMMA RowKept ==
    ASSUME NEW r \in Row, RowOK(r)
    PROVE  /\ RowOK(Marked(r))
           /\ RowOK(AfterAck(r)) /\ RowOK(AfterReply(r))
           /\ RowOK(AfterOverdue(r)) /\ RowOK(Aged(r))
  <1>. USE BudgetAssumption DEF Row, RowOK
  <1>1. RowOK(Marked(r))
    BY DEF Marked, OutOfAttempts, OutOfAckRetries, LastError
  <1>2. RowOK(AfterAck(r)) /\ RowOK(AfterReply(r))
    BY DEF AfterAck, AfterReply
  <1>3. RowOK(AfterOverdue(r)) /\ RowOK(Aged(r))
    BY DEF AfterOverdue, Aged
  <1>. QED  BY <1>1, <1>2, <1>3

(* A new row fits the invariant.                                           *)
LEMMA NewRowOK == RowOK(NewUnsent) /\ RowOK(NewSent)
  BY BudgetAssumption DEF RowOK, NewUnsent, NewSent

(* The outcome of a job that fits its row.                                 *)
LEMMA SentRow ==
    ASSUME NEW r \in Row, NEW j \in Job, NEW success \in BOOLEAN, RowOK(r), JobFits(j, r)
    PROVE  /\ AfterSend(r, j.retry, success) \in Row
           /\ RowOK(AfterSend(r, j.retry, success))
           /\ AfterSend(r, j.retry, success).acked = r.acked
           /\ AfterSend(r, j.retry, success).app = r.app
           /\ ~GivenUp(AfterSend(r, j.retry, success))
  <1>. USE BudgetAssumption DEF JobFits, AfterSend
  <1>. j.retry \in BOOLEAN
    BY DEF Job
  <1>1. CASE j.retry
    <2>1. AfterSend(r, j.retry, success) \in Row
      BY <1>1, RowType
    <2>2. CASE success
      BY <1>1, <2>1, <2>2 DEF AfterAckRetry, Row, RowOK, GivenUp
    <2>3. CASE ~success
      BY <1>1, <2>1, <2>3
    <2>. QED  BY <2>1, <2>2, <2>3
  <1>2. CASE ~j.retry
    <2>1. AfterSend(r, j.retry, success) \in Row
      BY <1>2, RowType, FailedRowType
    <2>2. CASE success
      BY <1>2, <2>1, <2>2 DEF AfterFirstSend, Row, RowOK, GivenUp
    <2>3. CASE ~success
      BY <1>2, <2>1, <2>3 DEF AfterFailedSend, Row, RowOK, GivenUp
    <2>. QED  BY <2>1, <2>2, <2>3
  <1>. QED  BY <1>1, <1>2

(* ACK, reply, timeout and the passing of time leave a job in hand fitting. *)
LEMMA FitsKept ==
    ASSUME NEW r \in Row, NEW j, JobFits(j, r)
    PROVE  /\ JobFits(j, AfterAck(r)) /\ JobFits(j, AfterReply(r))
           /\ JobFits(j, AfterOverdue(r)) /\ JobFits(j, Aged(r))
  BY DEF JobFits, GivenUp, Row, AfterAck, AfterReply, AfterOverdue, Aged

-----------------------------------------------------------------------------
(* The parts of the steps.                                                 *)

(* One POST changes the replay cache and the queue, within their types.    *)
LEMMA PostType ==
    ASSUME TypeOK, NEW m \in Msgs, NEW ts, NEW success, Post(m, ts, success)
    PROVE  /\ seen' \in [Msgs -> 0 .. Window]
           /\ received' \in Seq(Msgs)
           /\ UNCHANGED <<batch, acking, inbox>>
  <1>1. CASE UNCHANGED receiver
    BY <1>1 DEF receiver, TypeOK
  <1>2. CASE Arrives(m, ts)
    <2>1. 0 \in 0 .. Window
      BY BoundAssumption, CapAssumption
    <2>. QED  BY <1>2, <2>1 DEF Arrives, TypeOK
  <1>. QED  BY <1>1, <1>2 DEF Post

(* A reply or an ACK flips at most one row, and that row is in the         *)
(* conversation.                                                           *)
LEMMA Answered ==
    ASSUME NEW T \in [Msgs -> Row], NEW c, ConversationAnswered(T, c), rows \subseteq Msgs
    PROVE  /\ q' \in [Msgs -> Row]
           /\ \A m \in Msgs : \/ q'[m] = T[m]
                              \/ m \in rows /\ Conv[m] = c /\ q'[m] = AfterReply(T[m])
  <1>1. CASE q' = T
    BY <1>1
  <1>2. ASSUME NEW m \in Newest(T, Waiting(T, c)), q' = [T EXCEPT ![m] = AfterReply(@)]
        PROVE  /\ q' \in [Msgs -> Row]
               /\ \A n \in Msgs : \/ q'[n] = T[n]
                                  \/ n \in rows /\ Conv[n] = c /\ q'[n] = AfterReply(T[n])
    <2>1. m \in rows /\ m \in Msgs /\ Conv[m] = c
      BY DEF Newest, Waiting
    <2>2. AfterReply(T[m]) \in Row
      BY <2>1, RowType
    <2>. QED  BY <1>2, <2>1, <2>2
  <1>. QED  BY <1>1, <1>2 DEF ConversationAnswered

(* An ACK taken from the queue, whichever of its two UPDATEs succeed: its  *)
(* own row may be acknowledged, a row of its conversation answered.        *)
LEMMA AckApplied ==
    ASSUME TypeOK, ProcessAck \/ ProcessAckFails
    PROVE  \E m \in Msgs : \E T \in [Msgs -> Row] :
              /\ m = Head(acks)
              /\ \A n \in Msgs : \/ T[n] = q[n]
                                 \/ n = m /\ m \in rows /\ T[n] = AfterAck(q[n])
              /\ q' \in [Msgs -> Row]
              /\ \A n \in Msgs : \/ q'[n] = T[n]
                                 \/ n \in rows /\ Conv[n] = Conv[m] /\ q'[n] = AfterReply(T[n])
  <1>1. PICK m \in Msgs : m = Head(acks)
    BY DEF ProcessAck, ProcessAckFails, TypeOK
  <1>2. /\ Acknowledged(m) \in [Msgs -> Row]
        /\ \A n \in Msgs : \/ Acknowledged(m)[n] = q[n]
                           \/ n = m /\ m \in rows /\ Acknowledged(m)[n] = AfterAck(q[n])
    BY RowType DEF TypeOK, Acknowledged
  <1>3. PICK T \in {q, Acknowledged(m)} : q' = T \/ ConversationAnswered(T, Conv[m])
    BY <1>1 DEF ProcessAck, ProcessAckFails
  <1>4. /\ T \in [Msgs -> Row]
        /\ \A n \in Msgs : T[n] = q[n] \/ (n = m /\ m \in rows /\ T[n] = AfterAck(q[n]))
    BY <1>2, <1>3 DEF TypeOK
  <1>5. rows \subseteq Msgs
    BY DEF TypeOK
  <1>6. /\ q' \in [Msgs -> Row]
        /\ \A n \in Msgs : \/ q'[n] = T[n]
                           \/ n \in rows /\ Conv[n] = Conv[m] /\ q'[n] = AfterReply(T[n])
    BY <1>3, <1>4, <1>5, Answered
  <1>. QED  BY <1>1, <1>4, <1>6

(* The snapshot: every job is for a row that is kept, that is not marked,  *)
(* and that the SELECT of its kind admits.                                 *)
LEMMA Snapshot ==
    ASSUME TypeOK, WorkerOK, DrainBegin
    PROVE  /\ rows' \subseteq rows
           /\ q' \in [Msgs -> Row]
           /\ \A m \in rows' : q'[m] = Marked(q[m])
           /\ \A m \in Msgs \ rows' : q'[m] = NewUnsent
           /\ \A m \in rows \ rows' : q[m].acked
           /\ worker' \in [pc : {"idle", "send", "record"}, todo : SUBSET Job,
                           job : SUBSET Job, success : BOOLEAN]
           /\ worker'.job = {}
           /\ worker'.pc = "idle" => worker'.todo = {}
           /\ \A j, k \in worker'.todo : j.msg = k.msg => j = k
           /\ \A j \in worker'.todo : j.msg \in rows' /\ JobFits(j, q'[j.msg])
  <1>0. PICK listed \in BOOLEAN : DrainTick(listed)
    BY DEF DrainBegin
  <1>. DEFINE kept == {m \in rows : ~Archivable(q[m])}
              table == [m \in Msgs |-> IF m \in kept THEN Marked(q[m]) ELSE NewUnsent]
              dueA == {m \in kept : listed /\ FirstSendDue(table[m])}
              dueB == {m \in kept : listed /\ AckRetryDue(table[m])}
              jobs(A, B) == {FirstSend(m, table[m]) : m \in A} \cup {AckRetry(m) : m \in B}
  <1>1. rows' = kept /\ q' = table
    BY <1>0 DEF DrainTick
  <1>2. PICK A \in Pick(dueA), B \in Pick(dueB) :
           worker' = IF A \cup B = {} THEN Idle
                     ELSE [Idle EXCEPT !.pc = "send", !.todo = jobs(A, B)]
    BY <1>0 DEF DrainTick
  <1>3. A \subseteq dueA /\ B \subseteq dueB /\ A \subseteq kept /\ B \subseteq kept
    <2>1. A \subseteq dueA /\ B \subseteq dueB
      BY DEF Pick
    <2>. QED  BY <2>1
  <1>4. kept \subseteq Msgs /\ table \in [Msgs -> Row]
    BY RowType, NewRowType DEF TypeOK
  <1>5. ASSUME NEW m \in A
        PROVE  /\ FirstSend(m, table[m]) \in Job
               /\ FirstSend(m, table[m]).msg = m
               /\ JobFits(FirstSend(m, table[m]), table[m])
    <2>1. m \in kept /\ m \in Msgs /\ table[m] \in Row /\ FirstSendDue(table[m])
      BY <1>3, <1>4
    <2>2. RowOK(table[m])
      BY <2>1, RowKept DEF TypeOK, WorkerOK
    <2>3. ~GivenUp(table[m])
      BY <2>1, <2>2, BudgetAssumption DEF GivenUp, RowOK, FirstSendDue, Row
    <2>. QED  BY <2>1, <2>3 DEF FirstSend, Job, JobFits, FirstSendDue, Row
  <1>6. ASSUME NEW m \in B
        PROVE  /\ AckRetry(m) \in Job
               /\ AckRetry(m).msg = m
               /\ JobFits(AckRetry(m), table[m])
    <2>1. m \in kept /\ m \in Msgs /\ table[m] \in Row /\ AckRetryDue(table[m])
      BY <1>3, <1>4
    <2>2. RowOK(table[m])
      BY <2>1, RowKept DEF TypeOK, WorkerOK
    <2>3. ~GivenUp(table[m])
      BY <2>1, <2>2, BudgetAssumption DEF GivenUp, RowOK, AckRetryDue, Row
    <2>. QED  BY <2>1, <2>3, Ages DEF AckRetry, Job, JobFits, AckRetryDue
  <1>7. \A m \in A : ~table[m].sent
    BY <1>3 DEF FirstSendDue
  <1>8. \A m \in B : table[m].sent
    BY <1>3 DEF AckRetryDue
  <1>9. /\ jobs(A, B) \subseteq Job
        /\ \A j \in jobs(A, B) : j.msg \in kept /\ JobFits(j, table[j.msg])
        /\ \A j, k \in jobs(A, B) : j.msg = k.msg => j = k
    <2>1. \A j \in jobs(A, B) : \/ \E m \in A : j = FirstSend(m, table[m])
                                \/ \E m \in B : j = AckRetry(m)
      OBVIOUS
    <2>2. jobs(A, B) \subseteq Job
      BY <2>1, <1>5, <1>6
    <2>3. \A j \in jobs(A, B) : j.msg \in kept /\ JobFits(j, table[j.msg])
      <3>. HIDE DEF jobs, table, kept, dueA, dueB
      <3>. QED  BY <2>1, <1>3, <1>5, <1>6
    <2>4. ASSUME NEW j \in jobs(A, B), NEW k \in jobs(A, B), j.msg = k.msg
          PROVE  j = k
      <3>. HIDE DEF jobs, table
      <3>1. ASSUME NEW m \in A, NEW n \in A, j = FirstSend(m, table[m]), k = FirstSend(n, table[n])
            PROVE  j = k
        BY <2>4, <3>1, <1>5
      <3>2. ASSUME NEW m \in A, NEW n \in B, FirstSend(m, table[m]).msg = AckRetry(n).msg
            PROVE  FALSE
        BY <3>2, <1>5, <1>6, <1>7, <1>8
      <3>3. ASSUME NEW m \in B, NEW n \in B, j = AckRetry(m), k = AckRetry(n)
            PROVE  j = k
        BY <2>4, <3>3, <1>6
      <3>. QED  BY <2>1, <2>4, <3>1, <3>2, <3>3
    <2>. QED  BY <2>2, <2>3, <2>4
  <1>10. \A m \in rows \ kept : q[m].acked
    BY DEF Archivable
  <1>11. \A m \in Msgs : table[m] = IF m \in kept THEN Marked(q[m]) ELSE NewUnsent
    OBVIOUS
  <1>12. CASE A \cup B = {}
    <2>. HIDE DEF table, kept
    <2>1. worker' = [pc |-> "idle", todo |-> {}, job |-> {}, success |-> FALSE]
      BY <1>2, <1>12 DEF Idle
    <2>2. worker' \in [pc : {"idle", "send", "record"}, todo : SUBSET Job,
                       job : SUBSET Job, success : BOOLEAN]
      BY <2>1
    <2>3. kept \subseteq rows
      BY DEF kept
    <2>. QED  BY <1>1, <1>4, <1>10, <1>11, <2>1, <2>2, <2>3
  <1>13. CASE A \cup B # {}
    <2>. HIDE DEF jobs, table, kept
    <2>1. worker' = [pc |-> "send", todo |-> jobs(A, B), job |-> {}, success |-> FALSE]
      BY <1>2, <1>13 DEF Idle
    <2>2. worker' \in [pc : {"idle", "send", "record"}, todo : SUBSET Job,
                       job : SUBSET Job, success : BOOLEAN]
      BY <2>1, <1>9
    <2>3. kept \subseteq rows
      BY DEF kept
    <2>. QED  BY <1>1, <1>4, <1>9, <1>10, <1>11, <2>1, <2>2, <2>3
  <1>. QED  BY <1>12, <1>13

(* The record of an outcome: the row in hand takes it, no other changes,   *)
(* and a row that is gone stays gone.                                      *)
LEMMA Outcome ==
    ASSUME TypeOK, WorkerOK, NEW j \in worker.job
    PROVE  /\ Recorded(j) \in [Msgs -> Row]
           /\ \A m \in Msgs : m # j.msg => Recorded(j)[m] = q[m]
           /\ j.msg \in Msgs /\ j.retry \in BOOLEAN
           /\ j.msg \notin rows => Recorded(j) = q
           /\ j.msg \in rows =>
                 /\ Recorded(j)[j.msg] = AfterSend(q[j.msg], j.retry, worker.success)
                 /\ RowOK(Recorded(j)[j.msg])
                 /\ Recorded(j)[j.msg].acked = q[j.msg].acked
                 /\ Recorded(j)[j.msg].app = q[j.msg].app
                 /\ ~GivenUp(Recorded(j)[j.msg])
  <1>1. j \in Job /\ j.msg \in Msgs /\ j.retry \in BOOLEAN /\ worker.success \in BOOLEAN
    BY DEF TypeOK, Job
  <1>2. CASE j.msg \in rows
    <2>1. q[j.msg] \in Row /\ RowOK(q[j.msg]) /\ JobFits(j, q[j.msg])
      BY <1>1, <1>2 DEF TypeOK, WorkerOK
    <2>. DEFINE r == AfterSend(q[j.msg], j.retry, worker.success)
    <2>2. /\ r \in Row /\ RowOK(r) /\ ~GivenUp(r)
          /\ r.acked = q[j.msg].acked /\ r.app = q[j.msg].app
      BY <1>1, <2>1, SentRow
    <2>. HIDE DEF r
    <2>3. Recorded(j) = [q EXCEPT ![j.msg] = r]
      BY <1>2 DEF Recorded, r
    <2>. QED  BY <1>1, <1>2, <2>2, <2>3 DEF TypeOK, r
  <1>3. CASE j.msg \notin rows
    BY <1>1, <1>3 DEF Recorded, TypeOK
  <1>. QED  BY <1>2, <1>3

(* ... whether the UPDATE succeeds or fails: only the row in hand changes, *)
(* only its send columns, and it is not marked afterwards.                 *)
LEMMA Recording ==
    ASSUME TypeOK, WorkerOK, DrainRecord \/ DrainRecordFails
    PROVE  /\ UNCHANGED <<client, rows, acks, receiver>>
           /\ q' \in [Msgs -> Row]
           /\ \A m \in Msgs \ rows : q'[m] = NewUnsent
           /\ \A m \in rows : /\ RowOK(q'[m])
                              /\ q'[m].acked = q[m].acked /\ q'[m].app = q[m].app
                              /\ q'[m] # q[m] => /\ \E j \in worker.job : j.msg = m
                                                /\ ~GivenUp(q'[m])
           /\ worker' \in [pc : {"idle", "send", "record"}, todo : SUBSET Job,
                           job : SUBSET Job, success : BOOLEAN]
           /\ worker'.pc = IF worker.todo = {} THEN "idle" ELSE "send"
           /\ worker'.todo = worker.todo /\ worker'.job = {}
  <1>1. UNCHANGED <<client, rows, acks, receiver>>
    BY DEF DrainRecord, DrainRecordFails
  <1>2. /\ worker' \in [pc : {"idle", "send", "record"}, todo : SUBSET Job,
                        job : SUBSET Job, success : BOOLEAN]
        /\ worker'.pc = IF worker.todo = {} THEN "idle" ELSE "send"
        /\ worker'.todo = worker.todo /\ worker'.job = {}
    <2>1. worker' = IF worker.todo = {} THEN Idle
                    ELSE [worker EXCEPT !.pc = "send", !.job = {}, !.success = FALSE]
      BY DEF DrainRecord, DrainRecordFails, NextJob
    <2>2. worker \in [pc : {"idle", "send", "record"}, todo : SUBSET Job,
                      job : SUBSET Job, success : BOOLEAN]
      BY DEF TypeOK
    <2>3. Idle \in [pc : {"idle", "send", "record"}, todo : SUBSET Job,
                    job : SUBSET Job, success : BOOLEAN]
      BY DEF Idle
    <2>. QED  BY <2>1, <2>2, <2>3 DEF Idle
  <1>3. CASE DrainRecord
    <2>1. PICK j \in worker.job : q' = Recorded(j)
      BY <1>3 DEF DrainRecord
    <2>2. q' \in [Msgs -> Row] /\ \A m \in Msgs : m # j.msg => q'[m] = q[m]
      BY <2>1, Outcome
    <2>3. j.msg \in Msgs /\ (j.msg \notin rows => q' = q)
      BY <2>1, Outcome
    <2>4. j.msg \in rows => /\ RowOK(q'[j.msg]) /\ ~GivenUp(q'[j.msg])
                            /\ q'[j.msg].acked = q[j.msg].acked
                            /\ q'[j.msg].app = q[j.msg].app
      BY <2>1, Outcome
    <2>5. rows \subseteq Msgs /\ \A m \in rows : RowOK(q[m])
      BY DEF TypeOK, WorkerOK
    <2>6. \A m \in Msgs \ rows : q'[m] = q[m] /\ q[m] = NewUnsent
      BY <2>2, <2>3 DEF TypeOK
    <2>. QED  BY <1>1, <1>2, <2>2, <2>4, <2>5, <2>6
  <1>4. CASE DrainRecordFails
    BY <1>1, <1>2, <1>4 DEF DrainRecordFails, TypeOK, WorkerOK
  <1>. QED  BY <1>3, <1>4

-----------------------------------------------------------------------------
(* The invariant.                                                          *)

(* It holds at the start: nothing is queued, sent or stored.               *)
LEMMA InitIInv == Init => IInv
  <1>. SUFFICES ASSUME Init PROVE IInv
    OBVIOUS
  <1>1. 0 \in 0 .. MaxCopies /\ Window \in 0 .. Window
    BY BoundAssumption, CapAssumption
  <1>2. TypeOK
    BY <1>1, NewRowType DEF Init, TypeOK, Idle
  <1>3. WorkerOK
    BY DEF Init, WorkerOK, Idle
  <1>4. Custody
    BY DEF Init, Custody, AckMeansStored, ProcessedMeansRead
  <1>. QED  BY <1>2, <1>3, <1>4 DEF IInv

(* Types are kept by every step.                                           *)
LEMMA TypeStep == TypeOK /\ WorkerOK /\ [Next]_vars => TypeOK'
  <1>. SUFFICES ASSUME TypeOK, WorkerOK, [Next]_vars PROVE TypeOK'
    OBVIOUS
  <1>. USE DEF sender, receiver
  <1>1. ASSUME NEW m \in Msgs, Enqueue(m) PROVE TypeOK'
    BY <1>1, NewRowType DEF Enqueue, TypeOK
  <1>2. ASSUME NEW m \in Msgs, DirectPost(m) PROVE TypeOK'
    <2>1. PICK success \in BOOLEAN :
             /\ Post(m, 0, success)
             /\ client' = [client EXCEPT ![m] = IF success THEN "posted" ELSE "done"]
      BY <1>2 DEF DirectPost
    <2>2. /\ seen' \in [Msgs -> 0 .. Window] /\ received' \in Seq(Msgs)
          /\ UNCHANGED <<batch, acking, inbox>>
      BY <2>1, PostType
    <2>. QED  BY <1>2, <2>1, <2>2 DEF DirectPost, TypeOK
  <1>3. ASSUME NEW m \in Msgs, DirectRecord(m) PROVE TypeOK'
    BY <1>3, NewRowType DEF DirectRecord, TypeOK
  <1>4. ASSUME NEW m \in Msgs, DirectRecordFails(m) PROVE TypeOK'
    BY <1>4 DEF DirectRecordFails, TypeOK
  <1>5. ASSUME DrainBegin PROVE TypeOK'
    <2>1. /\ rows' \subseteq rows /\ q' \in [Msgs -> Row]
          /\ \A m \in Msgs \ rows' : q'[m] = NewUnsent
          /\ worker' \in [pc : {"idle", "send", "record"}, todo : SUBSET Job,
                          job : SUBSET Job, success : BOOLEAN]
      BY <1>5, Snapshot
    <2>. QED  BY <1>5, <2>1 DEF DrainBegin, DrainTick, TypeOK
  <1>6. ASSUME DrainPost PROVE TypeOK'
    <2>1. PICK j \in worker.todo, success \in BOOLEAN :
             /\ Post(j.msg, j.ts, success)
             /\ worker' = [pc |-> "record", todo |-> worker.todo \ {j},
                           job |-> {j}, success |-> success]
      BY <1>6 DEF DrainPost
    <2>2. j \in Job /\ j.msg \in Msgs
      BY DEF TypeOK, Job
    <2>3. /\ seen' \in [Msgs -> 0 .. Window] /\ received' \in Seq(Msgs)
          /\ UNCHANGED <<batch, acking, inbox>>
      BY <2>1, <2>2, PostType
    <2>4. worker' \in [pc : {"idle", "send", "record"}, todo : SUBSET Job,
                       job : SUBSET Job, success : BOOLEAN]
      BY <2>1, <2>2 DEF TypeOK
    <2>. QED  BY <1>6, <2>3, <2>4 DEF DrainPost, TypeOK
  <1>7. ASSUME DrainRecord \/ DrainRecordFails PROVE TypeOK'
    BY <1>7, Recording DEF TypeOK
  <1>8. ASSUME DrainInbox \/ DrainInboxFails \/ StoreFails \/ AckLost PROVE TypeOK'
    <2>1. CASE DrainInbox \/ DrainInboxFails
      BY <2>1 DEF DrainInbox, DrainInboxFails, TypeOK
    <2>2. CASE StoreFails
      <3>1. Tail(batch) \in Seq(Msgs)
        BY <2>2 DEF StoreFails, TypeOK
      <3>. QED  BY <2>2, <3>1 DEF StoreFails, TypeOK
    <2>3. CASE AckLost
      BY <2>3 DEF AckLost, TypeOK
    <2>. QED  BY <1>8, <2>1, <2>2, <2>3
  <1>9. ASSUME StoreNext PROVE TypeOK'
    <2>1. Head(batch) \in Msgs /\ Tail(batch) \in Seq(Msgs)
      BY <1>9 DEF StoreNext, TypeOK
    <2>2. \A m \in Msgs : (IF inbox[m] < MaxCopies THEN inbox[m] + 1 ELSE inbox[m])
                             \in 0 .. MaxCopies
      BY BoundAssumption DEF TypeOK
    <2>3. inbox' \in [Msgs -> 0 .. MaxCopies]
      BY <1>9, <2>1, <2>2 DEF StoreNext, TypeOK
    <2>4. acking' \subseteq Msgs
      BY <1>9, <2>1 DEF StoreNext
    <2>. QED  BY <1>9, <2>1, <2>3, <2>4 DEF StoreNext, TypeOK
  <1>10. ASSUME SendAck PROVE TypeOK'
    BY <1>10 DEF SendAck, TypeOK
  <1>11. ASSUME ProcessAck \/ ProcessAckFails PROVE TypeOK'
    <2>1. acks' = Tail(acks) /\ Tail(acks) \in Seq(Msgs)
      <3>1. acks' = Tail(acks) /\ acks # <<>>
        BY <1>11 DEF ProcessAck, ProcessAckFails
      <3>. QED  BY <3>1 DEF TypeOK
    <2>2. q' \in [Msgs -> Row] /\ \A n \in Msgs \ rows : q'[n] = q[n]
      BY <1>11, AckApplied
    <2>3. UNCHANGED <<client, rows, worker, receiver>>
      BY <1>11 DEF ProcessAck, ProcessAckFails
    <2>. QED  BY <2>1, <2>2, <2>3 DEF TypeOK
  <1>12. ASSUME NEW m \in Msgs, ReplyArrives(m) PROVE TypeOK'
    <2>1. q' \in [Msgs -> Row] /\ \A n \in Msgs \ rows : q'[n] = NewUnsent
      BY <1>12, Answered DEF ReplyArrives, TypeOK
    <2>. QED  BY <1>12, <2>1 DEF ReplyArrives, TypeOK
  <1>13. ASSUME AppTimeout PROVE TypeOK'
    BY <1>13, RowType DEF AppTimeout, TypeOK
  <1>14. ASSUME DeleteThread PROVE TypeOK'
    BY <1>14, NewRowType DEF DeleteThread, TypeOK
  <1>15. ASSUME ReceiverRestart PROVE TypeOK'
    <2>1. Window \in 0 .. Window
      BY BoundAssumption, CapAssumption
    <2>. QED  BY <1>15, <2>1 DEF ReceiverRestart, TypeOK
  <1>16. ASSUME SenderRestart \/ AcksDropped PROVE TypeOK'
    <2>1. /\ Idle \in [pc : {"idle", "send", "record"}, todo : SUBSET Job,
                       job : SUBSET Job, success : BOOLEAN]
          /\ <<>> \in Seq(Msgs)
      BY DEF Idle
    <2>2. CASE SenderRestart
      BY <2>1, <2>2 DEF SenderRestart, TypeOK
    <2>3. CASE AcksDropped
      BY <2>1, <2>3 DEF AcksDropped, TypeOK
    <2>. QED  BY <1>16, <2>2, <2>3
  <1>17. ASSUME Tick PROVE TypeOK'
    <2>1. q' \in [Msgs -> Row] /\ \A m \in Msgs \ rows : q'[m] = NewUnsent
      BY <1>17, RowType DEF Tick, TypeOK
    <2>2. \A m \in Msgs : (IF seen[m] < Window THEN seen[m] + 1 ELSE Window) \in 0 .. Window
      BY BoundAssumption, CapAssumption DEF TypeOK
    <2>3. seen' \in [Msgs -> 0 .. Window]
      BY <1>17, <2>2 DEF Tick
    <2>4. \A j \in Job : (IF j.retry THEN j ELSE [j EXCEPT !.ts = Older(@)]) \in Job
      BY Ages DEF Job
    <2>5. worker' \in [pc : {"idle", "send", "record"}, todo : SUBSET Job,
                       job : SUBSET Job, success : BOOLEAN]
      <3>. DEFINE aged == {IF j.retry THEN j ELSE [j EXCEPT !.ts = Older(@)] : j \in worker.todo}
      <3>1. worker' = [worker EXCEPT !.todo = aged]
        BY <1>17 DEF Tick
      <3>2. aged \subseteq Job
        BY <2>4 DEF TypeOK
      <3>. HIDE DEF aged
      <3>. QED  BY <3>1, <3>2 DEF TypeOK
    <2>. QED  BY <1>17, <2>1, <2>3, <2>5 DEF Tick, TypeOK
  <1>18. CASE UNCHANGED vars
    BY <1>18 DEF vars, TypeOK
  <1>. QED
    BY <1>1, <1>2, <1>3, <1>4, <1>5, <1>6, <1>7, <1>8, <1>9, <1>10, <1>11, <1>12, <1>13,
       <1>14, <1>15, <1>16, <1>17, <1>18
    DEF Next, Submit, Drain, Inbound, Feedback, Fault

(* A step that leaves the worker alone and only deletes rows, or changes   *)
(* columns that neither the budget nor a job in hand looks at.             *)
LEMMA WorkerKept ==
    ASSUME TypeOK, WorkerOK, UNCHANGED <<worker, client>>, rows' \subseteq rows,
           \A m \in rows' : /\ RowOK(q'[m])
                            /\ \A j \in Job : JobFits(j, q[m]) => JobFits(j, q'[m])
    PROVE  WorkerOK'
  <1>1. \A j \in worker.todo \cup worker.job : j \in Job
    BY DEF TypeOK
  <1>. QED  BY <1>1 DEF WorkerOK

(* A new row is for a message that no job in hand is about.                *)
LEMMA WorkerNewRow ==
    ASSUME TypeOK, WorkerOK, NEW m \in Msgs, client[m] # "done", UNCHANGED worker,
           client' = [client EXCEPT ![m] = "done"], rows' = rows \cup {m},
           NEW r \in {NewUnsent, NewSent}, q' = [q EXCEPT ![m] = r]
    PROVE  WorkerOK'
  <1>1. RowOK(q'[m])
    BY NewRowOK DEF TypeOK
  <1>2. \A n \in Msgs : n # m => q'[n] = q[n] /\ client'[n] = client[n]
    BY DEF TypeOK
  <1>3. client'[m] = "done"
    BY DEF TypeOK
  <1>4. \A j \in worker.todo \cup worker.job : j.msg # m /\ j.msg \in Msgs
    BY DEF WorkerOK, TypeOK, Job
  <1>5. \A n \in rows : n # m /\ n \in Msgs
    BY DEF WorkerOK, TypeOK
  <1>. QED  BY <1>1, <1>2, <1>3, <1>4, <1>5 DEF WorkerOK

(* The worker may rely on its jobs after every step, whoever takes it.     *)
LEMMA WorkerStep == TypeOK /\ WorkerOK /\ [Next]_vars => WorkerOK'
  <1>. SUFFICES ASSUME TypeOK, WorkerOK, [Next]_vars PROVE WorkerOK'
    OBVIOUS
  <1>. USE DEF sender, receiver
  <1>1. ASSUME NEW m \in Msgs, Enqueue(m) PROVE WorkerOK'
    BY <1>1, WorkerNewRow DEF Enqueue
  <1>2. ASSUME NEW m \in Msgs, DirectPost(m) \/ DirectRecordFails(m) PROVE WorkerOK'
    <2>1. \A n \in Msgs : client[n] = "done" => client'[n] = "done"
      BY <1>2 DEF DirectPost, DirectRecordFails, TypeOK
    <2>2. UNCHANGED <<rows, q, worker>>
      BY <1>2 DEF DirectPost, DirectRecordFails
    <2>3. \A j \in worker.todo \cup worker.job : j.msg \in Msgs
      BY DEF TypeOK, Job
    <2>. QED  BY <2>1, <2>2, <2>3 DEF WorkerOK, TypeOK
  <1>3. ASSUME NEW m \in Msgs, DirectRecord(m) PROVE WorkerOK'
    BY <1>3, WorkerNewRow DEF DirectRecord
  <1>5. ASSUME DrainBegin PROVE WorkerOK'
    <2>1. /\ rows' \subseteq rows
          /\ \A m \in rows' : q'[m] = Marked(q[m])
          /\ worker'.job = {}
          /\ worker'.pc = "idle" => worker'.todo = {}
          /\ \A j, k \in worker'.todo : j.msg = k.msg => j = k
          /\ \A j \in worker'.todo : j.msg \in rows' /\ JobFits(j, q'[j.msg])
      BY <1>5, Snapshot
    <2>2. \A m \in rows' : client'[m] = "done" /\ RowOK(q'[m])
      BY <1>5, <2>1, RowKept DEF DrainBegin, DrainTick, WorkerOK, TypeOK
    <2>. QED  BY <2>1, <2>2 DEF WorkerOK
  <1>6. ASSUME DrainPost PROVE WorkerOK'
    <2>1. PICK j \in worker.todo, success \in BOOLEAN :
             worker' = [pc |-> "record", todo |-> worker.todo \ {j},
                        job |-> {j}, success |-> success]
      BY <1>6 DEF DrainPost
    <2>2. UNCHANGED <<client, rows, q>>
      BY <1>6 DEF DrainPost
    <2>. QED  BY <2>1, <2>2 DEF WorkerOK
  <1>7. ASSUME DrainRecord \/ DrainRecordFails PROVE WorkerOK'
    <2>2. \A m \in rows : RowOK(q'[m]) /\ (q'[m] # q[m] => \E j \in worker.job : m = j.msg)
      BY <1>7, Recording
    <2>3. /\ worker'.pc = IF worker.todo = {} THEN "idle" ELSE "send"
          /\ worker'.todo = worker.todo /\ worker'.job = {}
      BY <1>7, Recording
    <2>4. \A k \in worker.todo : k.msg \in rows => q'[k.msg] = q[k.msg]
      BY <2>2 DEF WorkerOK
    <2>5. \A m \in rows : client[m] = "done" /\ RowOK(q'[m])
      BY <2>2 DEF WorkerOK, TypeOK
    <2>6. UNCHANGED <<client, rows>>
      BY <1>7, Recording
    <2>7. \A k \in worker'.todo \cup worker'.job :
             /\ client'[k.msg] = "done"
             /\ k.msg \in rows' => JobFits(k, q'[k.msg])
      BY <2>3, <2>4, <2>6 DEF WorkerOK
    <2>. QED  BY <2>3, <2>5, <2>6, <2>7 DEF WorkerOK
  <1>8. ASSUME Inbound PROVE WorkerOK'
    <2>1. UNCHANGED <<client, rows, q, worker>>
      BY <1>8 DEF Inbound, DrainInbox, DrainInboxFails, StoreNext, StoreFails, SendAck, AckLost
    <2>. QED  BY <2>1 DEF WorkerOK
  <1>9. ASSUME ProcessAck \/ ProcessAckFails PROVE WorkerOK'
    <2>1. PICK T \in [Msgs -> Row] :
             /\ \A n \in Msgs : T[n] = q[n] \/ T[n] = AfterAck(q[n])
             /\ \A n \in Msgs : q'[n] = T[n] \/ q'[n] = AfterReply(T[n])
      BY <1>9, AckApplied
    <2>2. ASSUME NEW n \in rows
          PROVE  RowOK(q'[n]) /\ \A j \in Job : JobFits(j, q[n]) => JobFits(j, q'[n])
      <3>1. n \in Msgs /\ q[n] \in Row /\ RowOK(q[n]) /\ T[n] \in Row
        BY DEF TypeOK, WorkerOK
      <3>2. RowOK(T[n]) /\ \A j \in Job : JobFits(j, q[n]) => JobFits(j, T[n])
        BY <2>1, <3>1, RowKept, FitsKept
      <3>3. /\ RowOK(AfterReply(T[n]))
            /\ \A j \in Job : JobFits(j, T[n]) => JobFits(j, AfterReply(T[n]))
        BY <3>1, <3>2, RowKept, FitsKept
      <3>. QED  BY <2>1, <3>1, <3>2, <3>3
    <2>3. UNCHANGED <<client, rows, worker>>
      BY <1>9 DEF ProcessAck, ProcessAckFails
    <2>. QED  BY <2>2, <2>3, WorkerKept
  <1>10. ASSUME NEW m \in Msgs, ReplyArrives(m) PROVE WorkerOK'
    <2>1. \A n \in Msgs : q'[n] = q[n] \/ q'[n] = AfterReply(q[n])
      BY <1>10, Answered DEF ReplyArrives, TypeOK
    <2>2. ASSUME NEW n \in rows
          PROVE  RowOK(q'[n]) /\ \A j \in Job : JobFits(j, q[n]) => JobFits(j, q'[n])
      <3>1. n \in Msgs /\ q[n] \in Row /\ RowOK(q[n])
        BY DEF TypeOK, WorkerOK
      <3>2. RowOK(AfterReply(q[n]))
        BY <3>1, RowKept
      <3>3. \A j \in Job : JobFits(j, q[n]) => JobFits(j, AfterReply(q[n]))
        BY <3>1, FitsKept
      <3>. QED  BY <2>1, <3>1, <3>2, <3>3
    <2>3. UNCHANGED <<client, rows, worker>>
      BY <1>10 DEF ReplyArrives
    <2>. QED  BY <2>2, <2>3, WorkerKept
  <1>11. ASSUME AppTimeout PROVE WorkerOK'
    <2>1. \A n \in rows : /\ RowOK(q'[n])
                          /\ \A j \in Job : JobFits(j, q[n]) => JobFits(j, q'[n])
      BY <1>11, RowKept, FitsKept DEF AppTimeout, TypeOK, WorkerOK
    <2>2. UNCHANGED <<client, rows, worker>>
      BY <1>11 DEF AppTimeout
    <2>. QED  BY <2>1, <2>2, WorkerKept
  <1>12. ASSUME DeleteThread PROVE WorkerOK'
    BY <1>12, WorkerKept DEF DeleteThread
  <1>13. ASSUME ReceiverRestart \/ AcksDropped PROVE WorkerOK'
    BY <1>13 DEF ReceiverRestart, AcksDropped, WorkerOK
  <1>14. ASSUME SenderRestart PROVE WorkerOK'
    BY <1>14 DEF SenderRestart, WorkerOK, Idle
  <1>15. ASSUME Tick PROVE WorkerOK'
    <2>. DEFINE older(j) == IF j.retry THEN j ELSE [j EXCEPT !.ts = Older(@)]
    <2>1. /\ worker'.pc = worker.pc /\ worker'.job = worker.job
          /\ worker'.todo = {older(j) : j \in worker.todo}
      BY <1>15 DEF Tick, TypeOK
    <2>2. \A j \in Job : older(j) \in Job /\ older(j).msg = j.msg /\ older(j).retry = j.retry
      BY Ages DEF Job
    <2>3. \A n \in rows : /\ RowOK(q'[n])
                          /\ \A j \in Job : JobFits(j, q[n]) => JobFits(j, q'[n])
      BY <1>15, RowKept, FitsKept DEF Tick, TypeOK, WorkerOK
    <2>4. \A j \in Job : \A r : JobFits(j, r) => JobFits(older(j), r)
      BY <2>2 DEF JobFits
    <2>5. UNCHANGED <<client, rows>>
      BY <1>15 DEF Tick
    <2>6. \A j \in worker.todo \cup worker.job : j \in Job
      BY DEF TypeOK
    <2>. HIDE DEF older
    <2>7. \A j \in worker'.todo : \E k \in worker.todo : j = older(k)
      BY <2>1
    <2>8. \A j, k \in worker'.todo : j.msg = k.msg => j = k
      BY <2>2, <2>6, <2>7 DEF WorkerOK
    <2>9. \A j \in worker'.todo, k \in worker'.job : j.msg # k.msg
      BY <2>1, <2>2, <2>6, <2>7 DEF WorkerOK
    <2>10. \A j \in worker'.todo \cup worker'.job :
              /\ client'[j.msg] = "done"
              /\ j.msg \in rows' => JobFits(j, q'[j.msg])
      BY <2>1, <2>2, <2>3, <2>4, <2>5, <2>6, <2>7 DEF WorkerOK
    <2>11. /\ worker'.pc = "idle" => worker'.todo = {} /\ worker'.job = {}
           /\ worker'.pc = "send" => worker'.job = {}
           /\ \A j, k \in worker'.job : j = k
      BY <2>1 DEF WorkerOK
    <2>12. \A m \in rows' : client'[m] = "done" /\ RowOK(q'[m])
      BY <2>3, <2>5 DEF WorkerOK
    <2>. QED  BY <2>8, <2>9, <2>10, <2>11, <2>12 DEF WorkerOK
  <1>16. CASE UNCHANGED vars
    BY <1>16 DEF vars, WorkerOK
  <1>. QED
    BY <1>1, <1>2, <1>3, <1>5, <1>6, <1>7, <1>8, <1>9, <1>10, <1>11, <1>12, <1>13,
       <1>14, <1>15, <1>16
    DEF Next, Submit, Drain, Feedback, Fault

(* A reply leaves ack_at alone.                                            *)
LEMMA ReplyColumns ==
    ASSUME NEW r \in Row
    PROVE  AfterReply(r).acked = r.acked
  BY DEF AfterReply, Row

(* An ACK in the sender's table, on its way or in hand is for a stored     *)
(* message, and stays so: stored messages are never taken out of the       *)
(* store, and every other step only loses ACKs.                            *)
LEMMA CustodyStep == TypeOK /\ WorkerOK /\ Custody /\ [Next]_vars => Custody'
  <1>. SUFFICES ASSUME TypeOK, WorkerOK, Custody, [Next]_vars PROVE Custody'
    OBVIOUS
  <1>. USE DEF sender, receiver, Stored
  <1>1. ASSUME NEW m \in Msgs, Enqueue(m) \/ DirectRecord(m) PROVE Custody'
    <2>1. /\ \A n \in rows' : n = m \/ (n \in rows /\ q'[n] = q[n])
          /\ q'[m].acked = FALSE /\ q'[m].app = "none"
          /\ UNCHANGED <<acks, acking, inbox>>
      <3>1. /\ NewUnsent.acked = FALSE /\ NewUnsent.app = "none"
            /\ NewSent.acked = FALSE /\ NewSent.app = "none"
        BY DEF NewUnsent, NewSent
      <3>2. rows' = rows \cup {m} /\ UNCHANGED <<acks, acking, inbox>>
        BY <1>1 DEF Enqueue, DirectRecord
      <3>3. q' = [q EXCEPT ![m] = NewUnsent] \/ q' = [q EXCEPT ![m] = NewSent]
        BY <1>1 DEF Enqueue, DirectRecord
      <3>. QED  BY <3>1, <3>2, <3>3 DEF TypeOK
    <2>. QED  BY <2>1 DEF Custody, AckMeansStored, ProcessedMeansRead
  <1>2. ASSUME NEW m \in Msgs, DirectPost(m) \/ DirectRecordFails(m) PROVE Custody'
    <2>1. UNCHANGED <<rows, q, acks, acking, inbox>>
      BY <1>2 DEF DirectPost, DirectRecordFails, Post, Arrives
    <2>. QED  BY <2>1 DEF Custody, AckMeansStored, ProcessedMeansRead
  <1>3. ASSUME DrainBegin PROVE Custody'
    <2>1. rows' \subseteq rows /\ \A m \in rows' : q'[m] = Marked(q[m])
      BY <1>3, Snapshot
    <2>2. \A m \in rows' : q'[m].acked = q[m].acked /\ q'[m].app = q[m].app
      BY <2>1 DEF Marked, TypeOK, Row
    <2>3. UNCHANGED <<acks, acking, inbox>>
      BY <1>3 DEF DrainBegin, DrainTick
    <2>. QED  BY <2>1, <2>2, <2>3 DEF Custody, AckMeansStored, ProcessedMeansRead
  <1>4. ASSUME DrainPost PROVE Custody'
    <2>1. UNCHANGED <<rows, q, acks, acking, inbox>>
      BY <1>4 DEF DrainPost, Post, Arrives
    <2>. QED  BY <2>1 DEF Custody, AckMeansStored, ProcessedMeansRead
  <1>5. ASSUME DrainRecord \/ DrainRecordFails PROVE Custody'
    <2>1. /\ UNCHANGED <<rows, acks, acking, inbox>>
          /\ \A m \in rows : q'[m].acked = q[m].acked /\ q'[m].app = q[m].app
      BY <1>5, Recording
    <2>. QED  BY <2>1 DEF Custody, AckMeansStored, ProcessedMeansRead
  <1>6. ASSUME DrainInbox \/ DrainInboxFails \/ StoreFails \/ AckLost \/ ReceiverRestart
        PROVE  Custody'
    <2>1. UNCHANGED <<rows, q, acks, inbox>> /\ acking' \subseteq acking
      BY <1>6 DEF DrainInbox, DrainInboxFails, StoreFails, AckLost, ReceiverRestart
    <2>. QED  BY <2>1 DEF Custody, AckMeansStored, ProcessedMeansRead
  <1>7. ASSUME StoreNext PROVE Custody'
    <2>. DEFINE m == Head(batch)
    <2>1. m \in Msgs
      BY <1>7 DEF StoreNext, TypeOK
    <2>2. inbox'[m] > 0 /\ \A n \in Msgs : inbox[n] > 0 => inbox'[n] > 0
      BY <1>7, <2>1, BoundAssumption DEF StoreNext, TypeOK
    <2>3. acking' \subseteq {m} /\ UNCHANGED <<rows, q, acks>>
      BY <1>7 DEF StoreNext
    <2>4. \A i \in 1 .. Len(acks) : acks[i] \in Msgs
      BY DEF TypeOK
    <2>. HIDE DEF m
    <2>5. rows \subseteq Msgs
      BY DEF TypeOK
    <2>. QED  BY <2>2, <2>3, <2>4, <2>5 DEF Custody, AckMeansStored, ProcessedMeansRead
  <1>8. ASSUME SendAck PROVE Custody'
    <2>1. PICK m \in acking : acks' = Append(acks, m)
      BY <1>8 DEF SendAck
    <2>2. Stored(m)
      BY DEF Custody
    <2>3. \A i \in 1 .. Len(acks') : acks'[i] = m \/ (i \in 1 .. Len(acks) /\ acks'[i] = acks[i])
      <3>1. acks \in Seq(Msgs) /\ m \in Msgs
        BY DEF TypeOK
      <3>. QED  BY <2>1, <3>1
    <2>4. UNCHANGED <<rows, q, inbox>> /\ acking' = {}
      BY <1>8 DEF SendAck
    <2>. QED  BY <2>2, <2>3, <2>4 DEF Custody, AckMeansStored, ProcessedMeansRead
  <1>9. ASSUME ProcessAck \/ ProcessAckFails PROVE Custody'
    <2>1. PICK m \in Msgs : \E T \in [Msgs -> Row] :
             /\ m = Head(acks)
             /\ \A n \in Msgs : \/ T[n] = q[n]
                                \/ n = m /\ m \in rows /\ T[n] = AfterAck(q[n])
             /\ \A n \in Msgs : \/ q'[n] = T[n]
                                \/ n \in rows /\ Conv[n] = Conv[m] /\ q'[n] = AfterReply(T[n])
      BY <1>9, AckApplied
    <2>2. acks # <<>> /\ acks' = Tail(acks) /\ UNCHANGED <<rows, acking, inbox>>
      BY <1>9 DEF ProcessAck, ProcessAckFails
    <2>3. m = acks[1] /\ Stored(m)
      BY <2>1, <2>2 DEF TypeOK, Custody
    <2>4. \A n \in rows : /\ q'[n].acked => n = m \/ q[n].acked
                          /\ q'[n].app = q[n].app \/ Conv[n] = Conv[m]
      <3>1. \A r \in Row : AfterAck(r).app = r.app
        BY DEF AfterAck, Row
      <3>2. rows \subseteq Msgs /\ q \in [Msgs -> Row]
        BY DEF TypeOK
      <3>. QED  BY <2>1, <3>1, <3>2, ReplyColumns
    <2>5. AckMeansStored' /\ ProcessedMeansRead'
      BY <2>2, <2>3, <2>4 DEF Custody, AckMeansStored, ProcessedMeansRead
    <2>6. \A i \in 1 .. Len(Tail(acks)) : i + 1 \in 1 .. Len(acks) /\ Tail(acks)[i] = acks[i + 1]
      BY <2>2 DEF TypeOK
    <2>7. \A i \in 1 .. Len(acks') : Stored(acks'[i])
      BY <2>2, <2>6 DEF Custody
    <2>. QED  BY <2>2, <2>5, <2>7 DEF Custody
  <1>10. ASSUME NEW m \in Msgs, ReplyArrives(m) PROVE Custody'
    <2>1. \A n \in rows : /\ q'[n].acked = q[n].acked
                          /\ q'[n].app = q[n].app \/ Conv[n] = Conv[m]
      <3>1. rows \subseteq Msgs /\ q \in [Msgs -> Row]
        BY DEF TypeOK
      <3>2. ConversationAnswered(q, Conv[m])
        BY <1>10 DEF ReplyArrives
      <3>3. \A n \in Msgs : q'[n] = q[n] \/ (n \in rows /\ Conv[n] = Conv[m] /\ q'[n] = AfterReply(q[n]))
        BY <3>1, <3>2, Answered
      <3>. QED  BY <3>1, <3>3, ReplyColumns
    <2>2. inbox[m] > 0 /\ UNCHANGED <<rows, acks, acking, inbox>>
      BY <1>10 DEF ReplyArrives
    <2>. QED  BY <2>1, <2>2 DEF Custody, AckMeansStored, ProcessedMeansRead
  <1>11. ASSUME AppTimeout \/ Tick PROVE Custody'
    <2>1. \A n \in rows : q'[n].acked = q[n].acked /\ (q'[n].app = "processed" => q[n].app = "processed")
      <3>1. \A r \in Row : /\ AfterOverdue(r).acked = r.acked /\ AfterOverdue(r).app = "blocked"
                           /\ Aged(r).acked = r.acked /\ Aged(r).app = r.app
        BY DEF AfterOverdue, Aged, Row
      <3>2. \A n \in rows : q'[n] \in {q[n], AfterOverdue(q[n]), Aged(q[n])}
        BY <1>11 DEF AppTimeout, Tick, TypeOK
      <3>. QED  BY <3>1, <3>2 DEF TypeOK
    <2>2. UNCHANGED <<rows, acks, acking, inbox>>
      BY <1>11 DEF AppTimeout, Tick
    <2>. QED  BY <2>1, <2>2 DEF Custody, AckMeansStored, ProcessedMeansRead
  <1>12. ASSUME DeleteThread \/ SenderRestart \/ AcksDropped PROVE Custody'
    <2>1. /\ rows' \subseteq rows /\ \A n \in rows' : q'[n] = q[n]
          /\ acks' = acks \/ acks' = <<>>
          /\ UNCHANGED <<acking, inbox>>
      BY <1>12 DEF DeleteThread, SenderRestart, AcksDropped
    <2>. QED  BY <2>1 DEF Custody, AckMeansStored, ProcessedMeansRead
  <1>13. CASE UNCHANGED vars
    BY <1>13 DEF vars, Custody, AckMeansStored, ProcessedMeansRead
  <1>. QED
    BY <1>1, <1>2, <1>3, <1>4, <1>5, <1>6, <1>7, <1>8, <1>9, <1>10, <1>11, <1>12, <1>13
    DEF Next, Submit, Drain, Inbound, Feedback, Fault

-----------------------------------------------------------------------------
(* Types, workers and custody are kept together.                           *)
LEMMA NextIInv == IInv /\ [Next]_vars => IInv'
  BY TypeStep, WorkerStep, CustodyStep DEF IInv

(* Every reachable state satisfies the inductive invariant.                *)
THEOREM Invariance == Spec => []IInv
  BY InitIInv, NextIInv, PTL DEF Spec

(* Every variable keeps its type, whatever is lost, repeated, deleted or   *)
(* restarted.                                                              *)
THEOREM TypeCorrect == Spec => []TypeOK
  <1>1. IInv => TypeOK
    BY DEF IInv
  <1>. QED  BY <1>1, Invariance, PTL

(* The sender's ack_at is set only for a message in the receiver's store.  *)
THEOREM AckedWasStored == Spec => []AckMeansStored
  <1>1. IInv => AckMeansStored
    BY DEF IInv, Custody
  <1>. QED  BY <1>1, Invariance, PTL

(* app_ack_status 'processed' means that the peer has stored a message of  *)
(* the conversation.                                                       *)
THEOREM ProcessedWasRead == Spec => []ProcessedMeansRead
  <1>1. IInv => ProcessedMeansRead
    BY DEF IInv, Custody
  <1>. QED  BY <1>1, Invariance, PTL

(* The drain worker never holds, between two lock sections, a row that is  *)
(* marked as failed.                                                       *)
THEOREM WorkerSafe == Spec => []NothingGivenUpInHand
  <1>1. IInv => NothingGivenUpInHand
    BY DEF IInv, WorkerOK, NothingGivenUpInHand, JobFits
  <1>. QED  BY <1>1, Invariance, PTL

(* The attempts of every row stay within the budget of the SELECTs, and    *)
(* each mark is set at the end of its own budget only.                     *)
THEOREM Budget == Spec => []WithinBudget
  <1>1. IInv => WithinBudget
    BY DEF IInv, WorkerOK, RowOK, WithinBudget
  <1>. QED  BY <1>1, Invariance, PTL

-----------------------------------------------------------------------------
(* The columns a label depends on.                                         *)
SameSend(r, s) == s.err = r.err /\ s.attempts = r.attempts /\ s.sent = r.sent

(* Statements of the feedback side leave the send columns alone, and keep  *)
(* what was answered.                                                      *)
LEMMA FeedbackColumns ==
    ASSUME NEW r \in Row
    PROVE  /\ SameSend(r, AfterAck(r)) /\ SameSend(r, AfterReply(r))
           /\ SameSend(r, AfterOverdue(r)) /\ SameSend(r, Aged(r))
           /\ SameSend(r, r)
  BY DEF SameSend, AfterAck, AfterReply, AfterOverdue, Aged, Row

(* A step changes the send columns of a row only in DrainRecord, for the   *)
(* row in hand, and in DrainBegin, for rows that are out of budget.        *)
LEMMA SendColumns ==
    ASSUME TypeOK, WorkerOK, Next, ~DrainBegin, ~DrainRecord, NEW m \in rows, m \in rows'
    PROVE  SameSend(q[m], q'[m])
  <1>. USE DEF sender, receiver
  <1>0. m \in Msgs /\ q[m] \in Row /\ q \in [Msgs -> Row] /\ rows \subseteq Msgs
    BY DEF TypeOK
  <1>1. ASSUME NEW n \in Msgs, Enqueue(n) \/ DirectRecord(n) PROVE q'[m] = q[m]
    <2>1. client[m] = "done" /\ client[n] # "done"
      BY <1>1 DEF WorkerOK, Enqueue, DirectRecord
    <2>. QED  BY <1>0, <1>1, <2>1 DEF Enqueue, DirectRecord
  <1>2. ASSUME ProcessAck \/ ProcessAckFails PROVE SameSend(q[m], q'[m])
    <2>1. PICK T \in [Msgs -> Row] :
             /\ \A n \in Msgs : T[n] = q[n] \/ T[n] = AfterAck(q[n])
             /\ \A n \in Msgs : q'[n] = T[n] \/ q'[n] = AfterReply(T[n])
      BY <1>2, AckApplied
    <2>2. T[m] \in Row /\ SameSend(q[m], T[m])
      <3>1. T[m] = q[m] \/ T[m] = AfterAck(q[m])
        BY <1>0, <2>1
      <3>2. SameSend(q[m], q[m]) /\ SameSend(q[m], AfterAck(q[m]))
        BY <1>0, FeedbackColumns
      <3>. QED  BY <1>0, <3>1, <3>2
    <2>3. SameSend(T[m], q'[m])
      BY <1>0, <2>1, <2>2, FeedbackColumns
    <2>. QED  BY <2>2, <2>3 DEF SameSend
  <1>3. ASSUME NEW n \in Msgs, ReplyArrives(n) PROVE SameSend(q[m], q'[m])
    <2>1. ConversationAnswered(q, Conv[n])
      BY <1>3 DEF ReplyArrives
    <2>2. q'[m] = q[m] \/ q'[m] = AfterReply(q[m])
      BY <1>0, <2>1, Answered
    <2>. QED  BY <1>0, <2>2, FeedbackColumns
  <1>4. CASE AppTimeout \/ Tick
    <2>1. q'[m] \in {q[m], AfterOverdue(q[m]), Aged(q[m])}
      BY <1>0, <1>4 DEF AppTimeout, Tick
    <2>. QED  BY <1>0, <2>1, FeedbackColumns
  <1>5. ASSUME NEW n \in Msgs, DirectPost(n) \/ DirectRecordFails(n) PROVE q' = q
    BY <1>5 DEF DirectPost, DirectRecordFails
  <1>6. ASSUME DrainPost \/ Inbound \/ (Fault /\ ~ProcessAckFails) PROVE q' = q
    BY <1>6 DEF DrainPost, Inbound, DrainInbox, DrainInboxFails, StoreNext, StoreFails, SendAck,
                AckLost, Fault, ReceiverRestart, SenderRestart, AcksDropped, DrainRecordFails
  <1>7. ~DeleteThread
    BY DEF DeleteThread
  <1>8. SameSend(q[m], q[m])
    BY DEF SameSend
  <1>. QED
    BY <1>1, <1>2, <1>3, <1>4, <1>5, <1>6, <1>7, <1>8 DEF Next, Submit, Drain, Feedback

(* A row marked as failed keeps its label and is never sent again: the     *)
(* worker has no such row in hand (WorkerOK), and a second marking writes  *)
(* the same label because each label belongs to one kind of row (RowOK).   *)
THEOREM GivenUpForGood == Spec => GivenUpIsFinal
  <1>1. ASSUME IInv, Next, NEW m \in rows, m \in rows', GivenUp(q[m])
        PROVE  SameSend(q[m], q'[m])
    <2>. USE <1>1 DEF IInv
    <2>1. CASE DrainBegin
      <3>1. q'[m] = Marked(q[m])
        BY <2>1, Snapshot
      <3>2. RowOK(q[m]) /\ q[m] \in Row
        BY DEF WorkerOK, TypeOK
      <3>. QED  BY <3>1, <3>2, BudgetAssumption
           DEF Marked, OutOfAttempts, OutOfAckRetries, RowOK, GivenUp, SameSend, Row
    <2>2. CASE DrainRecord
      <3>1. PICK j \in worker.job : q' = Recorded(j)
        BY <2>2 DEF DrainRecord
      <3>2. m # j.msg
        BY <3>1 DEF WorkerOK, JobFits
      <3>3. q'[m] = q[m]
        BY <3>1, <3>2, Outcome DEF TypeOK
      <3>. QED  BY <3>3 DEF SameSend
    <2>. QED  BY <2>1, <2>2, SendColumns
  <1>2. IInv /\ [Next]_vars =>
          [\A m \in rows \cap rows' : GivenUp(q[m]) =>
             /\ q'[m].err = q[m].err
             /\ q'[m].attempts = q[m].attempts
             /\ q'[m].sent = q[m].sent]_vars
    BY <1>1 DEF SameSend
  <1>. QED  BY <1>2, Invariance, PTL DEF Spec, GivenUpIsFinal

-----------------------------------------------------------------------------
(* What a step does to ack_at.                                             *)
LEMMA AckColumn ==
    ASSUME TypeOK, WorkerOK, Next, NEW m \in rows, m \in rows'
    PROVE  /\ q'[m].acked = q[m].acked \/ ((ProcessAck \/ ProcessAckFails) /\ m = Head(acks) /\ q'[m].acked)
           /\ q[m].app = "processed" => q'[m].app = "processed"
  <1>. USE DEF sender, receiver
  <1>. DEFINE Kept(r, s) == s.acked = r.acked /\ (r.app = "processed" => s.app = "processed")
  <1>0. m \in Msgs /\ q[m] \in Row /\ q \in [Msgs -> Row] /\ rows \subseteq Msgs
    BY DEF TypeOK
  <1>1. ASSUME NEW r \in Row
        PROVE  /\ Kept(r, r) /\ Kept(r, AfterReply(r)) /\ Kept(r, Aged(r))
               /\ ReplyOverdue(r) => Kept(r, AfterOverdue(r))
               /\ Kept(r, Marked(r))
    BY DEF AfterReply, Aged, AfterOverdue, ReplyOverdue, Marked, Row
  <1>2. CASE DrainBegin
    <2>1. q'[m] = Marked(q[m])
      BY <1>2, Snapshot
    <2>. QED  BY <1>0, <1>1, <2>1
  <1>3. CASE DrainRecord
    <2>1. PICK j \in worker.job : q' = Recorded(j)
      BY <1>3 DEF DrainRecord
    <2>2. q'[m].acked = q[m].acked /\ q'[m].app = q[m].app
      BY <1>0, <2>1, Outcome
    <2>. QED  BY <2>2
  <1>4. CASE ProcessAck \/ ProcessAckFails
    <2>1. PICK T \in [Msgs -> Row] :
             /\ T[m] = q[m] \/ (m = Head(acks) /\ T[m] = AfterAck(q[m]))
             /\ q'[m] = T[m] \/ q'[m] = AfterReply(T[m])
      BY <1>0, <1>4, AckApplied
    <2>2. /\ T[m].acked = q[m].acked \/ (m = Head(acks) /\ T[m].acked)
          /\ T[m].app = q[m].app
      BY <1>0, <2>1 DEF AfterAck, Row
    <2>3. Kept(T[m], q'[m])
      BY <1>0, <1>1, <2>1
    <2>. QED  BY <1>4, <2>2, <2>3
  <1>5. ASSUME NEW n \in Msgs, ReplyArrives(n) PROVE Kept(q[m], q'[m])
    <2>1. ConversationAnswered(q, Conv[n])
      BY <1>5 DEF ReplyArrives
    <2>2. q'[m] = q[m] \/ q'[m] = AfterReply(q[m])
      BY <1>0, <2>1, Answered
    <2>. QED  BY <1>0, <1>1, <2>2
  <1>6. CASE AppTimeout \/ Tick
    <2>1. \/ q'[m] \in {q[m], Aged(q[m])}
          \/ ReplyOverdue(q[m]) /\ q'[m] = AfterOverdue(q[m])
      BY <1>0, <1>6 DEF AppTimeout, Tick
    <2>. HIDE DEF Kept
    <2>2. Kept(q[m], q'[m])
      BY <1>0, <1>1, <2>1
    <2>. QED  BY <2>2 DEF Kept
  <1>7. ASSUME NEW n \in Msgs, Enqueue(n) \/ DirectRecord(n) PROVE q'[m] = q[m]
    <2>1. client[m] = "done" /\ client[n] # "done"
      BY <1>7 DEF WorkerOK, Enqueue, DirectRecord
    <2>. QED  BY <1>0, <1>7, <2>1 DEF Enqueue, DirectRecord
  <1>8. ASSUME NEW n \in Msgs, DirectPost(n) \/ DirectRecordFails(n) PROVE q' = q
    BY <1>8 DEF DirectPost, DirectRecordFails
  <1>9. ASSUME DrainPost \/ Inbound \/ (Fault /\ ~ProcessAckFails) PROVE q' = q
    BY <1>9 DEF DrainPost, Inbound, DrainInbox, DrainInboxFails, StoreNext, StoreFails, SendAck,
                AckLost, Fault, ReceiverRestart, SenderRestart, AcksDropped, DrainRecordFails
  <1>10. ~DeleteThread
    BY DEF DeleteThread
  <1>. QED
    BY <1>2, <1>3, <1>4, <1>5, <1>6, <1>7, <1>8, <1>9, <1>10
    DEF Next, Submit, Drain, Feedback

(* Neither an ACK nor a reply that the sender has recorded is taken back   *)
(* (the timeout worker writes 'blocked' over an empty column only).        *)
THEOREM AnswersKept == Spec => AnswersAreKept
  <1>1. IInv /\ [Next]_vars =>
          [\A m \in rows \cap rows' :
             /\ q[m].app = "processed" => q'[m].app = "processed"
             /\ q[m].acked => q'[m].acked]_vars
    BY AckColumn DEF IInv
  <1>. QED  BY <1>1, Invariance, PTL DEF Spec, AnswersAreKept

-----------------------------------------------------------------------------
(* PeerDelivery implements DeliveryPromise: what the sender reads off      *)
(* outbound_queue about a message is at every step a verdict that the      *)
(* promise allows.                                                         *)
(*                                                                         *)
(* The proof follows the columns a verdict is read from: a step of the     *)
(* worker or of the inbound processor changes the verdict of a row only    *)
(* when it archives it, marks it, or applies the ACK of its message.       *)

StoredSet == {m \in Msgs : inbox[m] > 0}

(* A step that changes no verdict and no store is a stutter of the promise.*)
LEMMA SameVerdicts ==
    ASSUME \A m \in Msgs : Verdict(m)' = Verdict(m), inbox' = inbox
    PROVE  UNCHANGED Promise!promise
  BY DEF Promise!promise

(* A message has a row only once its call is done; a row that keeps its    *)
(* columns keeps its verdict.                                              *)
LEMMA VerdictFrame ==
    ASSUME NEW m \in Msgs, m \in rows <=> m \in rows', client'[m] = client[m],
           m \in rows => q'[m].acked = q[m].acked /\ (GivenUp(q[m]) <=> GivenUp(q'[m]))
    PROVE  Verdict(m)' = Verdict(m)
  BY DEF Verdict

(* Submitting: the verdict on m alone changes, from "unknown".             *)
LEMMA SubmitStep ==
    ASSUME IInv, Submit
    PROVE  [Promise!PromiseNext]_Promise!promise
  <1>. USE DEF receiver, IInv
  <1>1. PICK m \in Msgs : Enqueue(m) \/ DirectPost(m) \/ DirectRecord(m) \/ DirectRecordFails(m)
    BY DEF Submit
  <1>2. client[m] # "done" /\ m \notin rows /\ Verdict(m) = "unknown"
    BY <1>1 DEF Enqueue, DirectPost, DirectRecord, DirectRecordFails, WorkerOK, Verdict
  <1>3. inbox' = inbox
    BY <1>1 DEF Enqueue, DirectPost, DirectRecord, DirectRecordFails, Post, Arrives
  <1>4. ASSUME NEW n \in Msgs, n # m PROVE Verdict(n)' = Verdict(n)
    <2>1. client'[n] = client[n] /\ (n \in rows <=> n \in rows') /\ q'[n] = q[n]
      BY <1>1, <1>4 DEF Enqueue, DirectPost, DirectRecord, DirectRecordFails, TypeOK
    <2>. QED  BY <2>1, VerdictFrame
  <1>5. CASE Enqueue(m) \/ DirectRecord(m)
    <2>1. m \in rows' /\ (q'[m] = NewUnsent \/ q'[m] = NewSent)
      BY <1>5 DEF Enqueue, DirectRecord, TypeOK
    <2>2. \A r \in {NewUnsent, NewSent} : ~r.acked /\ ~GivenUp(r)
      BY DEF NewUnsent, NewSent, GivenUp
    <2>3. Verdict(m)' = "open"
      BY <2>1, <2>2 DEF Verdict
    <2>4. Promise!Track(m)
      BY <1>2, <1>3, <1>4, <2>3 DEF Promise!Track, Promise!Settle
    <2>. QED  BY <2>4 DEF Promise!PromiseNext
  <1>6. CASE DirectPost(m) \/ DirectRecordFails(m)
    <2>1. m \notin rows'
      BY <1>2, <1>6 DEF DirectPost, DirectRecordFails
    <2>2. client'[m] \in {"posted", "done"}
      BY <1>6 DEF DirectPost, DirectRecordFails, TypeOK
    <2>3. CASE client'[m] = "done"
      <3>1. Verdict(m)' = "dropped"
        BY <2>1, <2>3 DEF Verdict
      <3>2. Promise!Untracked(m)
        BY <1>2, <1>3, <1>4, <3>1 DEF Promise!Untracked, Promise!Settle
      <3>. QED  BY <3>2 DEF Promise!PromiseNext
    <2>4. CASE client'[m] = "posted"
      <3>1. Verdict(m)' = "unknown"
        BY <2>1, <2>4 DEF Verdict
      <3>. QED  BY <1>2, <1>3, <1>4, <3>1, SameVerdicts
    <2>. QED  BY <2>2, <2>3, <2>4
  <1>. QED  BY <1>1, <1>5, <1>6

(* One tick of the drain worker: archived rows were confirmed, and a row   *)
(* that is newly marked was open unless it was acknowledged.               *)
LEMMA HousekeepStep ==
    ASSUME IInv, DrainBegin
    PROVE  Promise!PromiseNext
  <1>. DEFINE A == rows \ rows'
              F == {m \in rows' : Verdict(m) = "open" /\ GivenUp(q'[m])}
  <1>1. /\ rows' \subseteq rows /\ rows \subseteq Msgs
        /\ \A m \in rows' : q'[m] = Marked(q[m])
        /\ \A m \in A : q[m].acked
    BY Snapshot DEF IInv, TypeOK
  <1>2. client' = client /\ inbox' = inbox
    BY DEF DrainBegin, DrainTick, receiver
  <1>3. \A m \in A : Verdict(m) = "confirmed" /\ Verdict(m)' = "dropped"
    BY <1>1, <1>2 DEF Verdict, IInv, WorkerOK
  <1>4. ASSUME NEW m \in rows'
        PROVE  /\ q'[m].acked = q[m].acked
               /\ GivenUp(q[m]) => GivenUp(q'[m])
    <2>1. q[m] \in Row /\ q'[m] = Marked(q[m])
      BY <1>1 DEF IInv, TypeOK
    <2>. QED  BY <2>1 DEF Marked, GivenUp, Row
  <1>5. \A m \in rows' : Verdict(m)' = IF m \in F THEN "failed" ELSE Verdict(m)
    BY <1>1, <1>4 DEF Verdict
  <1>6. \A m \in Msgs \ rows : Verdict(m)' = Verdict(m)
    BY <1>1, <1>2 DEF Verdict
  <1>7. A \in SUBSET Msgs /\ F \in SUBSET Msgs /\ A \cap F = {} /\ F \cap rows' = F
    BY <1>1
  <1>8. \A m \in F : Verdict(m) = "open"
    OBVIOUS
  <1>9. \A m \in Msgs : Verdict(m)' = IF m \in A THEN "dropped"
                                      ELSE IF m \in F THEN "failed" ELSE Verdict(m)
    BY <1>1, <1>3, <1>5, <1>6, <1>7
  <1>. HIDE DEF A, F
  <1>10. Promise!Housekeep(A, F)
    BY <1>2, <1>3, <1>7, <1>8, <1>9 DEF Promise!Housekeep
  <1>. QED  BY <1>7, <1>10 DEF Promise!PromiseNext

(* The worker posts and records: the row in hand is not marked before and  *)
(* not marked afterwards, and the POST reaches no store.                   *)
LEMMA WorkerStutters ==
    ASSUME IInv, DrainPost \/ DrainRecord
    PROVE  UNCHANGED Promise!promise
  <1>1. UNCHANGED <<client, rows, inbox>>
    BY DEF DrainPost, DrainRecord, Post, Arrives, receiver
  <1>2. CASE DrainPost
    BY <1>1, <1>2, VerdictFrame, SameVerdicts DEF DrainPost
  <1>3. CASE DrainRecord
    <2>1. PICK j \in worker.job : q' = Recorded(j)
      BY <1>3 DEF DrainRecord
    <2>2. j.msg \in rows => ~GivenUp(q[j.msg])
      BY DEF IInv, WorkerOK, JobFits
    <2>3. TypeOK /\ WorkerOK
      BY DEF IInv
    <2>4. \A m \in Msgs : m \in rows =>
             q'[m].acked = q[m].acked /\ (GivenUp(q[m]) <=> GivenUp(q'[m]))
      BY <2>1, <2>2, <2>3, Outcome
    <2>. QED  BY <1>1, <2>4, VerdictFrame, SameVerdicts
  <1>. QED  BY <1>2, <1>3

(* A store, an ACK applied, a deleted thread, and the rest.                *)
LEMMA InboundStep ==
    ASSUME IInv, Inbound
    PROVE  [Promise!PromiseNext]_Promise!promise
  <1>1. UNCHANGED <<client, rows, q>>
    BY DEF Inbound, DrainInbox, DrainInboxFails, StoreNext, StoreFails, SendAck, AckLost, sender
  <1>2. \A m \in Msgs : Verdict(m)' = Verdict(m)
    BY <1>1, VerdictFrame
  <1>3. CASE StoreNext
    <2>1. PICK m \in Msgs : m = Head(batch)
      BY <1>3 DEF StoreNext, IInv, TypeOK
    <2>2. inbox' = [inbox EXCEPT ![m] = IF @ < MaxCopies THEN @ + 1 ELSE @]
      BY <1>3, <2>1 DEF StoreNext
    <2>3. inbox \in [Msgs -> 0 .. MaxCopies] /\ MaxCopies \in Nat \ {0}
      BY BoundAssumption DEF IInv, TypeOK
    <2>4. inbox'[m] > 0 /\ \A n \in Msgs : n # m => inbox'[n] = inbox[n]
      BY <2>1, <2>2, <2>3
    <2>5. {n \in Msgs : inbox'[n] > 0} = {n \in Msgs : inbox[n] > 0} \cup {m}
      BY <2>1, <2>4
    <2>6. Promise!Store(m)
      BY <1>2, <2>5 DEF Promise!Store
    <2>. QED  BY <2>1, <2>6 DEF Promise!PromiseNext
  <1>4. ASSUME DrainInbox \/ DrainInboxFails \/ StoreFails \/ SendAck \/ AckLost
        PROVE  UNCHANGED Promise!promise
    <2>1. inbox' = inbox
      BY <1>4 DEF DrainInbox, DrainInboxFails, StoreFails, SendAck, AckLost
    <2>. QED  BY <1>2, <2>1, SameVerdicts
  <1>. QED  BY <1>3, <1>4 DEF Inbound

(* An ACK confirms the message it names, which is stored.                  *)
LEMMA ConfirmStep ==
    ASSUME IInv, ProcessAck \/ ProcessAckFails, ~DrainBegin, ~DrainRecord
    PROVE  [Promise!PromiseNext]_Promise!promise
  <1>1. PICK h \in Msgs : h = Head(acks) /\ inbox[h] > 0
    <2>1. Head(acks) \in Msgs /\ inbox[Head(acks)] > 0
      BY DEF ProcessAck, ProcessAckFails, IInv, TypeOK, Custody, Stored
    <2>. QED  BY <2>1
  <1>2. UNCHANGED <<client, rows, inbox>> /\ Next
    BY DEF ProcessAck, ProcessAckFails, receiver, Next, Feedback, Fault
  <1>3. \A m \in rows : /\ m \in rows' /\ m \in Msgs
                       /\ SameSend(q[m], q'[m])
                       /\ (q'[m].acked = q[m].acked \/ (m = h /\ q'[m].acked))
    BY <1>1, <1>2, SendColumns, AckColumn DEF IInv, TypeOK
  <1>4. ASSUME NEW m \in Msgs, ~(m = h /\ h \in rows /\ q'[h].acked) PROVE Verdict(m)' = Verdict(m)
    BY <1>2, <1>3, <1>4, VerdictFrame DEF SameSend, GivenUp
  <1>5. CASE h \in rows /\ q'[h].acked
    <2>1. Verdict(h)' = "confirmed" /\ Verdict(h) \in {"open", "failed", "confirmed"}
      BY <1>2, <1>5 DEF Verdict
    <2>2. Promise!Confirm(h)
      BY <1>1, <1>2, <1>4, <2>1 DEF Promise!Confirm, Promise!Settle
    <2>. QED  BY <1>1, <2>2 DEF Promise!PromiseNext
  <1>6. CASE ~(h \in rows /\ q'[h].acked)
    BY <1>2, <1>4, <1>6, SameVerdicts
  <1>. QED  BY <1>5, <1>6

(* Deleting the thread forgets every row; replies, the timeout worker,     *)
(* restarts and time change no verdict.                                    *)
LEMMA OtherStep ==
    ASSUME IInv, ~DrainBegin, ~DrainRecord, ~ProcessAck, ~ProcessAckFails,
           \/ DeleteThread \/ AppTimeout \/ Fault \/ Tick
           \/ \E m \in Msgs : ReplyArrives(m)
    PROVE  [Promise!PromiseNext]_Promise!promise
  <1>1. client' = client /\ inbox' = inbox
    BY DEF DeleteThread, AppTimeout, Fault, Tick, ReplyArrives,
           ReceiverRestart, SenderRestart, AcksDropped, DrainRecordFails, receiver, sender
  <1>2. CASE DeleteThread
    <2>1. \A m \in Msgs : Verdict(m)' = IF Verdict(m) = "unknown" THEN "unknown" ELSE "dropped"
      BY <1>1, <1>2 DEF DeleteThread, Verdict, IInv, WorkerOK
    <2>2. Promise!Forget
      BY <1>1, <2>1 DEF Promise!Forget
    <2>. QED  BY <2>2 DEF Promise!PromiseNext
  <1>3. CASE AppTimeout \/ Fault \/ Tick \/ \E m \in Msgs : ReplyArrives(m)
    <2>1. rows' = rows /\ Next
      BY <1>3 DEF AppTimeout, Fault, Tick, ReplyArrives, ReceiverRestart,
                  SenderRestart, AcksDropped, DrainRecordFails, sender, Next, Feedback
    <2>2. \A m \in rows : /\ SameSend(q[m], q'[m])
                         /\ q'[m].acked = q[m].acked
      BY <2>1, SendColumns, AckColumn DEF IInv
    <2>3. \A m \in Msgs : Verdict(m)' = Verdict(m)
      BY <1>1, <2>1, <2>2, VerdictFrame DEF SameSend, GivenUp
    <2>. QED  BY <1>1, <2>3, SameVerdicts
  <1>. QED  BY <1>2, <1>3

(* No message at the start, no promise.                                    *)
LEMMA InitialPromise == Init => Promise!PromiseInit
  BY DEF Init, Verdict, Promise!PromiseInit

(* Every step keeps the promise or leaves it alone.                        *)
LEMMA PromiseStep == IInv /\ [Next]_vars => [Promise!PromiseNext]_Promise!promise
  <1>. SUFFICES ASSUME IInv, [Next]_vars PROVE [Promise!PromiseNext]_Promise!promise
    OBVIOUS
  <1>1. CASE DrainBegin
    BY <1>1, HousekeepStep
  <1>2. CASE DrainPost \/ DrainRecord
    BY <1>2, WorkerStutters
  <1>3. CASE (ProcessAck \/ ProcessAckFails) /\ ~DrainBegin /\ ~DrainRecord
    BY <1>3, ConfirmStep
  <1>4. CASE Submit
    BY <1>4, SubmitStep
  <1>5. CASE Inbound
    BY <1>5, InboundStep
  <1>6. CASE /\ ~DrainBegin /\ ~DrainRecord /\ ~ProcessAck /\ ~ProcessAckFails
             /\ \/ DeleteThread \/ AppTimeout \/ Fault \/ Tick
                \/ \E m \in Msgs : ReplyArrives(m)
    BY <1>6, OtherStep
  <1>7. CASE UNCHANGED vars
    <2>1. UNCHANGED <<client, rows, q, inbox>>
      BY <1>7 DEF vars, sender, receiver
    <2>. QED  BY <2>1, VerdictFrame, SameVerdicts
  <1>. QED
    BY <1>1, <1>2, <1>3, <1>4, <1>5, <1>6, <1>7 DEF Next, Drain, Feedback

(* Peer delivery keeps the promise: confirmed means stored at the other    *)
(* end, a confirmed verdict is only ever archived or deleted, and a        *)
(* message without a row never gets one again.                             *)
THEOREM Implements == Spec => KeepsPromise
  BY InitialPromise, PromiseStep, Invariance, PTL DEF Spec, KeepsPromise, Promise!PromiseSpec
=============================================================================
