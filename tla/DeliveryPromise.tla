-------------------------- MODULE DeliveryPromise --------------------------
(***************************************************************************)
(* What peer delivery promises, without queues, retries or time: for each  *)
(* message the sender keeps a verdict, the receiver keeps the message.     *)
(* A message counts as confirmed only once the receiver has stored it; a   *)
(* verdict "failed" may still turn into "confirmed" (the ACK was late), a  *)
(* confirmed one is never taken back, and a dropped one never returns.     *)
(***************************************************************************)
CONSTANT Msgs

VARIABLES
    verdict,    \* the sender's verdict on each message
    stored      \* the messages in the receiver's store

promise == <<verdict, stored>>

Verdict == {"unknown", "open", "failed", "confirmed", "dropped"}

PromiseInit ==
    /\ verdict = [m \in Msgs |-> "unknown"]
    /\ stored = {}

Settle(S, v) == verdict' = [m \in Msgs |-> IF m \in S THEN v ELSE verdict[m]]

(* The sender starts to keep a row of the message.                         *)
Track(m) ==
    /\ verdict[m] = "unknown"
    /\ Settle({m}, "open")
    /\ UNCHANGED stored

(* The message ends without a row: nobody will ever know.                  *)
Untracked(m) ==
    /\ verdict[m] = "unknown"
    /\ Settle({m}, "dropped")
    /\ UNCHANGED stored

Store(m) ==
    /\ stored' = stored \cup {m}
    /\ UNCHANGED verdict

Confirm(m) ==
    /\ verdict[m] \in {"open", "failed", "confirmed"}
    /\ m \in stored
    /\ Settle({m}, "confirmed")
    /\ UNCHANGED stored

(* Rows that are confirmed are archived, rows that stay open are given up. *)
Housekeep(archived, failed) ==
    /\ \A m \in archived : verdict[m] = "confirmed"
    /\ \A m \in failed : verdict[m] = "open"
    /\ verdict' = [m \in Msgs |-> IF m \in archived THEN "dropped"
                                  ELSE IF m \in failed THEN "failed"
                                  ELSE verdict[m]]
    /\ UNCHANGED stored

(* The user deletes every row.                                             *)
Forget ==
    /\ verdict' = [m \in Msgs |-> IF verdict[m] = "unknown" THEN "unknown" ELSE "dropped"]
    /\ UNCHANGED stored

PromiseNext ==
    \/ \E m \in Msgs : Track(m) \/ Untracked(m) \/ Store(m) \/ Confirm(m)
    \/ \E A, F \in SUBSET Msgs : Housekeep(A, F)
    \/ Forget

PromiseSpec == PromiseInit /\ [][PromiseNext]_promise

(* A confirmed message is in the receiver's store.                         *)
ConfirmedMeansStored == \A m \in Msgs : verdict[m] = "confirmed" => m \in stored
=============================================================================
