---------------------------- MODULE PeerDelivery ----------------------------
(***************************************************************************)
(* Delivery of peer messages from one machine to another, with the         *)
(* transport-level ACK and the application-level ACK.                      *)
(*                                                                         *)
(* Sender: the GUI handler and the CLI submit messages, the drain worker   *)
(* (v6_outbound_drain) posts and retransmits what outbound_queue holds,    *)
(* the inbound processor applies the ACKs and the replies that come back,  *)
(* a worker marks rows whose reply is overdue.                             *)
(* Receiver: POST /v1/message passes the replay cache and the timestamp    *)
(* window into a queue in memory; the inbound processor takes the whole    *)
(* queue, stores one message at a time and answers each with one ACK.      *)
(*                                                                         *)
(* The processes share the table only; requests and ACKs can be lost,      *)
(* and either daemon can stop between any two steps.                       *)
(***************************************************************************)
EXTENDS OutboundQueue, Sequences, FiniteSets

CONSTANTS
    Msgs,           \* message ids: msg_ulid = envelope nonce
    Conv,           \* the conversation_id of each message
    Control,        \* AGENT_ADD_* messages: stored, but never answered by an ACK
    Window,         \* 90 s: replay cache and timestamp tolerance
    Limit,          \* LIMIT 20 of each SELECT
    MaxQueue,       \* bound: envelopes waiting in the memory of a daemon
    MaxCopies       \* bound: where the count of stored copies stops

ASSUME MsgsAssumption ==
    /\ IsFiniteSet(Msgs)
    /\ Control \subseteq Msgs
    /\ DOMAIN Conv = Msgs

ASSUME BoundAssumption ==
    /\ Window \in 0 .. Cap - 1
    /\ Limit \in Nat \ {0}
    /\ MaxQueue \in Nat \ {0}
    /\ MaxCopies \in Nat \ {0}

VARIABLES
    (* sender *)
    client,     \* progress of the call that submits each message
    rows,       \* the messages that have a row in outbound_queue
    q,          \* the row of each message
    worker,     \* drain worker: snapshot still to do, row in hand, its outcome
    acks,       \* ACK envelopes in the memory of the sender's daemon
    (* receiver *)
    seen,       \* age of the nonce in the replay cache; Window: not in it
    received,   \* AppState.received: accepted, in memory
    batch,      \* the envelopes process_inbound still has to handle
    acking,     \* messages stored whose ACK is not sent yet (at most one)
    inbox       \* copies of each message that the L0 store has taken in

sender   == <<client, rows, q, worker, acks>>
receiver == <<seen, received, batch, acking, inbox>>
vars     == <<sender, receiver>>

(* One entry of the worker's snapshot: a row and the age of the timestamp  *)
(* in the body it read (a retransmission signs a fresh one: 0).            *)
Job == [msg : Msgs, retry : BOOLEAN, ts : 0 .. Cap]

FirstSend(m, r) == [msg |-> m, retry |-> FALSE, ts |-> r.age]
AckRetry(m)     == [msg |-> m, retry |-> TRUE, ts |-> 0]

Idle == [pc |-> "idle", todo |-> {}, job |-> {}, success |-> FALSE]

Init ==
    /\ client = [m \in Msgs |-> "new"]
    /\ rows = {}
    /\ q = [m \in Msgs |-> NewUnsent]
    /\ worker = Idle
    /\ acks = <<>>
    /\ seen = [m \in Msgs |-> Window]
    /\ received = <<>>
    /\ batch = <<>>
    /\ acking = {}
    /\ inbox = [m \in Msgs |-> 0]

-----------------------------------------------------------------------------
(* Receiver's HTTP handler.  A POST carries message m signed ts ago; the   *)
(* nonce goes into the replay cache before the timestamp is looked at.     *)
Replayed(m) == seen[m] < Window

Accepts(m, ts) == ~Replayed(m) /\ ts <= Window

Arrives(m, ts) ==
    /\ seen' = IF Replayed(m) THEN seen ELSE [seen EXCEPT ![m] = 0]
    /\ received' = IF Accepts(m, ts) THEN Append(received, m) ELSE received
    /\ UNCHANGED <<batch, acking, inbox>>

(* One POST: it is answered by the handler (success: HTTP 200), or it      *)
(* arrives and the answer is lost, or it does not get there (refused,      *)
(* timed out, or turned away by the rate limiter).                         *)
Post(m, ts, success) ==
    \/ /\ Len(received) < MaxQueue
       /\ Arrives(m, ts)
       /\ success \in {Accepts(m, ts), FALSE}
    \/ UNCHANGED receiver /\ success = FALSE

-----------------------------------------------------------------------------
(* Submitting a message.  The GUI queues a signed envelope.                *)
Enqueue(m) ==
    /\ client[m] = "new"
    /\ client' = [client EXCEPT ![m] = "done"]
    /\ rows' = rows \cup {m}
    /\ q' = [q EXCEPT ![m] = NewUnsent]
    /\ UNCHANGED <<worker, acks, receiver>>

(* The CLI posts first; when the POST fails the command fails.             *)
DirectPost(m) ==
    /\ client[m] = "new"
    /\ \E success \in BOOLEAN :
          /\ Post(m, 0, success)
          /\ client' = [client EXCEPT ![m] = IF success THEN "posted" ELSE "done"]
    /\ UNCHANGED <<rows, q, worker, acks>>

(* ... and records the row afterwards, for the ACK to find.                *)
DirectRecord(m) ==
    /\ client[m] = "posted"
    /\ client' = [client EXCEPT ![m] = "done"]
    /\ rows' = rows \cup {m}
    /\ q' = [q EXCEPT ![m] = NewSent]
    /\ UNCHANGED <<worker, acks, receiver>>

(* The INSERT fails (a warning only) or the command is killed before it.   *)
DirectRecordFails(m) ==
    /\ client[m] = "posted"
    /\ client' = [client EXCEPT ![m] = "done"]
    /\ UNCHANGED <<rows, q, worker, acks, receiver>>

-----------------------------------------------------------------------------
(* The drain worker.  One tick archives, marks, and takes a snapshot of at *)
(* most Limit rows of each kind (the SELECTs have no ORDER BY).  Both join *)
(* the table peers: while the peer is not listed there (deleted by the     *)
(* user, pruned by peer sync) nothing is due.                              *)
Pick(due) == {S \in SUBSET due : \/ S = due /\ Cardinality(due) <= Limit
                                 \/ Cardinality(S) = Limit}

DrainTick(listed) ==
    /\ worker.pc = "idle"
    /\ LET kept == {m \in rows : ~Archivable(q[m])}
           table == [m \in Msgs |-> IF m \in kept THEN Marked(q[m]) ELSE NewUnsent]
       IN /\ rows' = kept
          /\ q' = table
          /\ \E A \in Pick({m \in kept : listed /\ FirstSendDue(table[m])}),
                B \in Pick({m \in kept : listed /\ AckRetryDue(table[m])}) :
                worker' = IF A \cup B = {} THEN Idle ELSE
                    [Idle EXCEPT !.pc = "send",
                                 !.todo = {FirstSend(m, table[m]) : m \in A} \cup
                                          {AckRetry(m) : m \in B}]
    /\ UNCHANGED <<client, acks, receiver>>

DrainBegin == \E listed \in BOOLEAN : DrainTick(listed)

(* POST of the next entry, without the database lock.  First sends come    *)
(* before retransmissions; a retransmission has its timestamp refreshed, a *)
(* first send keeps the one it was signed with.                            *)
DrainPost ==
    /\ worker.pc = "send"
    /\ \E j \in worker.todo, success \in BOOLEAN :
          /\ j.retry => \A k \in worker.todo : k.retry
          /\ Post(j.msg, j.ts, success)
          /\ worker' = [pc |-> "record", todo |-> worker.todo \ {j},
                        job |-> {j}, success |-> success]
    /\ UNCHANGED <<client, rows, q, acks>>

(* The UPDATE that records the outcome; no row any more, no effect.        *)
Recorded(j) ==
    IF j.msg \in rows
    THEN [q EXCEPT ![j.msg] = AfterSend(@, j.retry, worker.success)]
    ELSE q

NextJob ==
    worker' = IF worker.todo = {} THEN Idle
              ELSE [worker EXCEPT !.pc = "send", !.job = {}, !.success = FALSE]

DrainRecord ==
    /\ worker.pc = "record"
    /\ \E j \in worker.job : q' = Recorded(j)
    /\ NextJob
    /\ UNCHANGED <<client, rows, acks, receiver>>

(* The UPDATE fails (the table is locked by another process): the result   *)
(* of execute is thrown away, and so is the outcome.                       *)
DrainRecordFails ==
    /\ worker.pc = "record"
    /\ NextJob
    /\ UNCHANGED <<client, rows, q, acks, receiver>>

-----------------------------------------------------------------------------
(* The receiver's inbound processor.  It takes the whole queue ...         *)
DrainInbox ==
    /\ batch = <<>> /\ acking = {} /\ received # <<>>
    /\ batch' = received
    /\ received' = <<>>
    /\ UNCHANGED <<sender, seen, acking, inbox>>

(* ... and loses all of it when the database cannot be opened.             *)
DrainInboxFails ==
    /\ batch = <<>> /\ acking = {} /\ received # <<>>
    /\ received' = <<>>
    /\ UNCHANGED <<sender, seen, batch, acking, inbox>>

(* The next envelope goes into the L0 store; a control message is handled  *)
(* and left without an ACK.                                                *)
StoreNext ==
    /\ batch # <<>> /\ acking = {}
    /\ LET m == Head(batch)
       IN /\ inbox' = [inbox EXCEPT ![m] = IF @ < MaxCopies THEN @ + 1 ELSE @]
          /\ acking' = IF m \in Control THEN {} ELSE {m}
    /\ batch' = Tail(batch)
    /\ UNCHANGED <<sender, seen, received>>

(* Peer lookup, session or insert fails: logged, no ACK, next envelope.    *)
StoreFailsAnswered ==     \* mutant: the ACK goes out before the insert is known to be done
    /\ batch # <<>> /\ acking = {}
    /\ acking' = {Head(batch)}
    /\ batch' = Tail(batch)
    /\ UNCHANGED <<sender, seen, received, inbox>>

StoreFails ==
    /\ batch # <<>> /\ acking = {}
    /\ batch' = Tail(batch)
    /\ UNCHANGED <<sender, seen, received, acking, inbox>>

(* One ACK, sent once with a timeout of 5 s: it arrives or it is lost.     *)
SendAck ==
    /\ Len(acks) < MaxQueue
    /\ \E m \in acking : acks' = Append(acks, m)
    /\ acking' = {}
    /\ UNCHANGED <<client, rows, q, worker, seen, received, batch, inbox>>

AckLost ==
    /\ acking # {}
    /\ acking' = {}
    /\ UNCHANGED <<sender, seen, received, batch, inbox>>

-----------------------------------------------------------------------------
(* The sender's inbound processor.  UPDATE ... WHERE rowid = (the newest   *)
(* row of the conversation without app_ack_at): ages that are equal leave  *)
(* the choice open.                                                        *)
Waiting(T, c) == {m \in rows : Conv[m] = c /\ AwaitsReply(T[m])}

Newest(T, S) == {m \in S : \A n \in S : T[m].age <= T[n].age}

ConversationAnswered(T, c) ==
    IF Waiting(T, c) = {} THEN q' = T
    ELSE \E m \in Newest(T, Waiting(T, c)) : q' = [T EXCEPT ![m] = AfterReply(@)]

(* An ACK marks its own row and then the newest row of its conversation.   *)
ProcessAckByConversation ==     \* mutant: every row of the conversation is acknowledged
    /\ acks # <<>>
    /\ LET c == Conv[Head(acks)]
           T == [m \in Msgs |-> IF m \in rows /\ Conv[m] = c THEN AfterAck(q[m]) ELSE q[m]]
       IN ConversationAnswered(T, c)
    /\ acks' = Tail(acks)
    /\ UNCHANGED <<client, rows, worker, receiver>>

Acknowledged(m) == IF m \in rows THEN [q EXCEPT ![m] = AfterAck(@)] ELSE q

ProcessAck ==
    /\ acks # <<>>
    /\ LET m == Head(acks) IN ConversationAnswered(Acknowledged(m), Conv[m])
    /\ acks' = Tail(acks)
    /\ UNCHANGED <<client, rows, worker, receiver>>

(* One of the two UPDATEs fails, or both: logged, and the ACK is used up.  *)
ProcessAckFails ==
    /\ acks # <<>>
    /\ LET m == Head(acks) IN \/ q' = Acknowledged(m)
                              \/ ConversationAnswered(q, Conv[m])
                              \/ q' = q
    /\ acks' = Tail(acks)
    /\ UNCHANGED <<client, rows, worker, receiver>>

(* A message of the peer in the same conversation, written after it read   *)
(* one of ours, is stored by the sender's inbound processor.               *)
ReplyArrives(m) ==
    /\ inbox[m] > 0
    /\ ConversationAnswered(q, Conv[m])
    /\ UNCHANGED <<client, rows, worker, acks, receiver>>

(* app_ack_timeout_drain.                                                  *)
AppTimeout ==
    /\ \E m \in rows : ReplyOverdue(q[m])
    /\ q' = [m \in Msgs |-> IF m \in rows /\ ReplyOverdue(q[m])
                            THEN AfterOverdue(q[m]) ELSE q[m]]
    /\ UNCHANGED <<client, rows, worker, acks, receiver>>

(* The user deletes the thread with the peer: every row goes, whatever the *)
(* worker has in hand.                                                     *)
DeleteThread ==
    /\ rows # {}
    /\ rows' = {}
    /\ q' = [m \in Msgs |-> NewUnsent]
    /\ UNCHANGED <<client, worker, acks, receiver>>

-----------------------------------------------------------------------------
(* A daemon stops and starts again: its memory is gone, its database stays. *)
ReceiverRestart ==
    /\ seen' = [m \in Msgs |-> Window]
    /\ received' = <<>> /\ batch' = <<>> /\ acking' = {}
    /\ UNCHANGED <<sender, inbox>>

SenderRestart ==
    /\ worker' = Idle
    /\ acks' = <<>>
    /\ UNCHANGED <<client, rows, q, receiver>>

(* The sender's database cannot be opened: the ACKs taken are dropped.     *)
AcksDropped ==
    /\ acks # <<>>
    /\ acks' = <<>>
    /\ UNCHANGED <<client, rows, q, worker, receiver>>

Tick ==
    /\ q' = [m \in Msgs |-> IF m \in rows THEN Aged(q[m]) ELSE q[m]]
    /\ seen' = [m \in Msgs |-> IF seen[m] < Window THEN seen[m] + 1 ELSE Window]
    /\ worker' = [worker EXCEPT !.todo = {IF j.retry THEN j ELSE [j EXCEPT !.ts = Older(@)] : j \in @}]
    /\ UNCHANGED <<client, rows, acks, received, batch, acking, inbox>>

-----------------------------------------------------------------------------
Submit   == \E m \in Msgs : \/ Enqueue(m) \/ DirectPost(m)
                            \/ DirectRecord(m) \/ DirectRecordFails(m)
Drain    == DrainBegin \/ DrainPost \/ DrainRecord
Inbound  == \/ DrainInbox \/ DrainInboxFails \/ StoreNext \/ StoreFails
            \/ SendAck \/ AckLost
Feedback == \/ ProcessAck \/ AppTimeout \/ DeleteThread
            \/ \E m \in Msgs : ReplyArrives(m)
Fault    == \/ ReceiverRestart \/ SenderRestart \/ AcksDropped
            \/ DrainRecordFails \/ ProcessAckFails

Next == Submit \/ Drain \/ Inbound \/ Feedback \/ Fault \/ Tick

Spec == Init /\ [][Next]_vars
-----------------------------------------------------------------------------
(* Properties.                                                             *)

(* Every variable has its type, and a message without a row keeps the      *)
(* blank row.                                                              *)
TypeOK ==
    /\ client \in [Msgs -> {"new", "posted", "done"}]
    /\ rows \subseteq Msgs
    /\ q \in [Msgs -> Row]
    /\ \A m \in Msgs \ rows : q[m] = NewUnsent
    /\ worker \in [pc : {"idle", "send", "record"}, todo : SUBSET Job,
                   job : SUBSET Job, success : BOOLEAN]
    /\ acks \in Seq(Msgs)
    /\ seen \in [Msgs -> 0 .. Window]
    /\ received \in Seq(Msgs)
    /\ batch \in Seq(Msgs)
    /\ acking \subseteq Msgs
    /\ inbox \in [Msgs -> 0 .. MaxCopies]

(* The sender believes in an ACK only for a message the receiver has in    *)
(* its store, whatever was lost, repeated or restarted in between          *)
(* (process_inbound: INSERT, then ACK, then UPDATE ack_at).                *)
AckMeansStored == \A m \in rows : q[m].acked => inbox[m] > 0

(* 'processed' is set only when the peer has read something of that        *)
(* conversation (ACK and reply both come after a store).                   *)
ProcessedMeansRead ==
    \A m \in rows : q[m].app = "processed" =>
        \E n \in Msgs : Conv[n] = Conv[m] /\ inbox[n] > 0

(* The worker never holds a row that is marked as failed: marks are set    *)
(* before the snapshot, and what is in hand during a POST stays alive.     *)
NothingGivenUpInHand ==
    \A j \in worker.todo \cup worker.job :
        j.msg \in rows => ~GivenUp(q[j.msg])

(* The counters stay inside the budget of the two SELECTs: eleven first    *)
(* sends, and AckMax retransmissions for a row sent at once.               *)
WithinBudget ==
    \A m \in rows :
        /\ q[m].attempts <= MaxAttempts + 1 \/ q[m].attempts <= AckMax
        /\ q[m].err = "max_retries" => ~q[m].sent /\ q[m].attempts = MaxAttempts + 1
        /\ q[m].err = "ack_timeout_max" => q[m].sent /\ q[m].attempts >= AckMax

(* A row marked as failed is never sent again and stays marked, even when  *)
(* its ACK comes late.                                                     *)
GivenUpIsFinal ==
    [][\A m \in rows \cap rows' : GivenUp(q[m]) =>
          /\ q'[m].err = q[m].err
          /\ q'[m].attempts = q[m].attempts
          /\ q'[m].sent = q[m].sent]_vars

(* No step takes 'processed' back to 'blocked' or an ACK back (timeout     *)
(* worker and inbound processor write the same columns).                   *)
AnswersAreKept ==
    [][\A m \in rows \cap rows' :
          /\ q[m].app = "processed" => q'[m].app = "processed"
          /\ q[m].acked => q'[m].acked]_vars

(* The table implements the promise: the sender's verdict on a message is  *)
(* read off its row.                                                       *)
Verdict(m) ==
    IF m \notin rows THEN (IF client[m] = "done" THEN "dropped" ELSE "unknown")
    ELSE IF q[m].acked THEN "confirmed"
    ELSE IF GivenUp(q[m]) THEN "failed"
    ELSE "open"

Promise == INSTANCE DeliveryPromise
    WITH verdict <- [m \in Msgs |-> Verdict(m)],
         stored  <- {m \in Msgs : inbox[m] > 0}

KeepsPromise == Promise!PromiseSpec

=============================================================================
