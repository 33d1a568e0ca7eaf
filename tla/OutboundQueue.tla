--------------------------- MODULE OutboundQueue ---------------------------
(***************************************************************************)
(* One row of the SQLite table outbound_queue and the SQL statements that  *)
(* the workers, the CLI and the inbound processor run against it.  The     *)
(* module has no state of its own: every statement is a predicate (its     *)
(* WHERE clause) or a function from the old row to the new one (its SET    *)
(* clause).  PeerDelivery holds the table and decides when each one runs.  *)
(*                                                                         *)
(* A timestamp column is kept as the time elapsed since it was written, an *)
(* age that saturates at Cap (every threshold of the code is below Cap),   *)
(* and next_retry_at as the time still to wait.                            *)
(***************************************************************************)
EXTENDS Integers

CONSTANTS
    MaxAttempts,    \* attempts <= 10 in the SELECT of first sends
    AckMax,         \* attempts < 3 in the SELECT of retransmissions
    AckWait,        \* 30 s, 5 min, 30 min: wait for an ACK, by attempts
    AckGiveUp,      \* 30 min: last wait before the row is marked
    AppWait,        \* 5 min: app_ack_check_after
    Archive,        \* 30 days: archive of acknowledged rows
    Backoff(_),     \* min(300, 2^min(attempts, 8)) seconds, by attempts
    Cap             \* where an age stops counting

ASSUME BudgetAssumption == MaxAttempts \in Nat /\ AckMax \in Nat

ASSUME CapAssumption == Cap \in Nat

ASSUME TimeAssumption ==
    /\ AckWait \in [0 .. AckMax - 1 -> 0 .. Cap - 1]
    /\ {AckGiveUp, AppWait, Archive} \subseteq 0 .. Cap - 1

ASSUME BackoffAssumption == \A n \in 0 .. MaxAttempts : Backoff(n) \in Nat

Older(age) == IF age < Cap THEN age + 1 ELSE Cap

(* last_error.  "ack_retry" stands for ack_timeout_retry_N, "send_failed"  *)
(* for 'transport send failed'.                                            *)
LastError == {"none", "send_failed", "max_retries", "ack_retry", "ack_timeout_max"}

(* app_ack_status; "none" is NULL.                                         *)
AppStatus == {"none", "processed", "blocked"}

Row == [sent     : BOOLEAN,        \* sent_at IS NOT NULL
        sentAge  : 0 .. Cap,       \* time since sent_at
        attempts : Nat,
        wait     : Nat,            \* time until next_retry_at, 0 when NULL or past
        err      : LastError,
        acked    : BOOLEAN,        \* ack_at IS NOT NULL
        app      : AppStatus,
        age      : 0 .. Cap]       \* time since enqueued_at

-----------------------------------------------------------------------------
(* INSERTs: by the GUI handler (not sent yet) and by the CLI, which writes *)
(* the row of a message it has posted already.                             *)
NewUnsent == [sent |-> FALSE, sentAge |-> 0, attempts |-> 0, wait |-> 0,
              err |-> "none", acked |-> FALSE, app |-> "none", age |-> 0]

NewSent == [NewUnsent EXCEPT !.sent = TRUE]

-----------------------------------------------------------------------------
(* WHERE clauses of the drain worker.                                      *)
Archivable(r) == r.sent /\ r.acked /\ r.sentAge > Archive

OutOfAttempts(r) == r.attempts > MaxAttempts /\ ~r.sent /\ r.err # "none"

OutOfAckRetriesByAge(r) ==     \* mutant: attempts not looked at
    r.sent /\ ~r.acked /\ r.sentAge > AckGiveUp

OutOfAckRetries(r) ==
    r.sent /\ ~r.acked /\ r.attempts >= AckMax /\ r.sentAge > AckGiveUp

FirstSendDue(r) == ~r.sent /\ r.attempts <= MaxAttempts /\ r.wait = 0

AckRetryDue(r) ==
    /\ r.sent /\ ~r.acked
    /\ r.attempts < AckMax
    /\ r.err # "ack_timeout_max"
    /\ r.sentAge >= AckWait[r.attempts]

(* The two UPDATEs that label a row the worker is done with.               *)
Marked(r) ==
    IF OutOfAttempts(r) THEN [r EXCEPT !.err = "max_retries"]
    ELSE IF OutOfAckRetries(r) THEN [r EXCEPT !.err = "ack_timeout_max"]
    ELSE r

(* SET clauses after a POST, by kind of send and outcome.                  *)
AfterFirstSend(r) == [r EXCEPT !.sent = TRUE, !.sentAge = 0, !.err = "none"]

AfterFailedSend(r) == [r EXCEPT !.attempts = @ + 1, !.wait = Backoff(r.attempts),
                                !.err = "send_failed"]

AfterAckRetryUncounted(r) ==     \* mutant: attempts stays
    [r EXCEPT !.sentAge = 0, !.err = "ack_retry"]

AfterAckRetry(r) == [r EXCEPT !.attempts = @ + 1, !.sentAge = 0, !.err = "ack_retry"]

AfterSend(r, retry, success) ==
    IF success THEN (IF retry THEN AfterAckRetry(r) ELSE AfterFirstSend(r))
    ELSE IF retry THEN r ELSE AfterFailedSend(r)

-----------------------------------------------------------------------------
(* The inbound processor (ACK, reply) and the app_ack timeout worker.      *)
AfterAckCleared(r) ==     \* mutant: the ACK clears last_error
    [r EXCEPT !.acked = TRUE, !.err = "none"]

ReplyOverdueAnyway(r) ==     \* mutant: app_ack_at not looked at
    r.app # "blocked" /\ r.age > AppWait

ReplyOverdueSent(r) ==     \* mutant: only rows with sent_at
    r.sent /\ r.app = "none" /\ r.age > AppWait

AfterAck(r)       == [r EXCEPT !.acked = TRUE]
AfterReply(r)     == [r EXCEPT !.app = "processed"]
AwaitsReply(r)    == r.app # "processed"          \* app_ack_at IS NULL
ReplyOverdue(r)   == r.app = "none" /\ r.age > AppWait
AfterOverdue(r)   == [r EXCEPT !.app = "blocked"]

(* One unit of time.                                                       *)
Aged(r) == [r EXCEPT !.sentAge = IF r.sent THEN Older(@) ELSE 0,
                     !.wait = IF @ > 0 THEN @ - 1 ELSE 0,
                     !.age = Older(@)]

-----------------------------------------------------------------------------
(* What a last_error label tells the reader of the table: the worker will  *)
(* never send this row again.                                              *)
GivenUp(r) == r.err \in {"max_retries", "ack_timeout_max"}

(* Nothing more will be sent for this row.                                 *)
Settled(r) == (r.sent /\ r.acked) \/ GivenUp(r)
=============================================================================
