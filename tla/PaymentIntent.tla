--------------------------- MODULE PaymentIntent ---------------------------
(***************************************************************************)
(* Payment intents: a row of payment_intents goes from draft over signed   *)
(* and submitted to confirmed, and submit turns it into a transfer on the  *)
(* chain.                                                                  *)
(*                                                                         *)
(* The CLI signs and submits in two commands, the payment gateway of the   *)
(* MCP server creates, signs and submits in one call.  Between the SELECT  *)
(* that finds the intent signed, the broadcast and the UPDATE that records *)
(* it, other callers run and the call may be killed.                       *)
(*                                                                         *)
(* The chain is what the code assumes of it: a node takes one transaction  *)
(* per nonce of the wallet, mines them in the order of nonces, and tells   *)
(* the next free nonce (alloy fills it in just before sending).  The table *)
(* evm_nonce_counter is left out: nothing that submits reads it.           *)
(***************************************************************************)
EXTENDS Naturals, Sequences, FiniteSets

CONSTANTS
    Intents,        \* ids
    Callers,        \* calls that can run at the same time
    MaxSent         \* bound: transactions the node accepts

ASSUME PaymentAssumption == MaxSent \in Nat /\ "none" \notin Intents

State == {"none", "draft", "signed", "submitted", "confirmed", "failed"}

(* tx is the hash: the position in sent, 0 for NULL.                       *)
Intent == [state : State, signature : BOOLEAN, tx : 0 .. MaxSent]

(* One call of sign, submit or pay; onward: pay submits what it has signed. *)
Call == [pc : {"idle", "read", "sign", "reread", "fill", "send", "mark"},
         id : Intents \cup {"none"}, onward : BOOLEAN,
         nonce : 0 .. MaxSent, tx : 0 .. MaxSent]

VARIABLES
    intents,    \* payment_intents
    calls,      \* what each caller is doing
    sent,       \* transactions the node has accepted, in order
    mined       \* by nonce, the transaction that was mined

vars == <<intents, calls, sent, mined>>

Idle == [pc |-> "idle", id |-> "none", onward |-> FALSE, nonce |-> 0, tx |-> 0]

Init ==
    /\ intents = [i \in Intents |-> [state |-> "none", signature |-> FALSE, tx |-> 0]]
    /\ calls = [c \in Callers |-> Idle]
    /\ sent = <<>>
    /\ mined = <<>>

-----------------------------------------------------------------------------
(* The chain.  The transactions accepted with a nonce, the last of which   *)
(* has replaced the others, and the next free nonce.                       *)
WithNonce(n) == {t \in DOMAIN sent : sent[t].nonce = n}

NextNonce == Cardinality({sent[t].nonce : t \in DOMAIN sent})

(* The node refuses a nonce that is used up; a transaction that waits with *)
(* the same nonce is replaced when gas has become dearer in the meantime.  *)
Acceptable(n) == n \in Len(mined) .. NextNonce /\ Len(sent) < MaxSent

MineNext ==
    /\ \E t \in WithNonce(Len(mined)) :
          /\ \A u \in WithNonce(Len(mined)) : u <= t
          /\ mined' = Append(mined, t)
    /\ UNCHANGED <<intents, calls, sent>>

-----------------------------------------------------------------------------
(* Steps of a call.                                                        *)
At(c, pc) == calls[c].pc = pc

Row(c) == intents[calls[c].id]

Begin(c, i, pc, onward) ==
    /\ At(c, "idle")
    /\ calls' = [calls EXCEPT ![c] = [Idle EXCEPT !.pc = pc, !.id = i, !.onward = onward]]

Goto(c, pc) == calls' = [calls EXCEPT ![c].pc = pc]

End(c) == calls' = [calls EXCEPT ![c] = Idle]

(* create_draft, by `payment new` or as the first step of pay.             *)
Create(c, i) ==
    /\ intents[i].state = "none"
    /\ intents' = [intents EXCEPT ![i].state = "draft"]
    /\ UNCHANGED calls \/ Begin(c, i, "read", TRUE)
    /\ UNCHANGED <<sent, mined>>

(* `payment sign` of a row that exists.                                    *)
Sign(c, i) ==
    /\ intents[i].state # "none"
    /\ Begin(c, i, "read", FALSE)
    /\ UNCHANGED <<intents, sent, mined>>

(* sign: SELECT, and an error unless the state is draft ...                *)
SignRead(c) ==
    /\ At(c, "read")
    /\ IF Row(c).state = "draft" THEN Goto(c, "sign") ELSE End(c)
    /\ UNCHANGED <<intents, sent, mined>>

(* ... UPDATE ... WHERE id = ? AND state = 'draft' ...                     *)
Signed(i) == [intents EXCEPT ![i].state = "signed", ![i].signature = TRUE]

SignUpdateAny(c) ==     \* mutant: WHERE id only
    /\ At(c, "sign")
    /\ intents' = Signed(calls[c].id)
    /\ Goto(c, "reread")
    /\ UNCHANGED <<sent, mined>>

SignUpdate(c) ==
    /\ At(c, "sign")
    /\ intents' = IF Row(c).state = "draft" THEN Signed(calls[c].id) ELSE intents
    /\ Goto(c, "reread")
    /\ UNCHANGED <<sent, mined>>

(* ... SELECT again: the row is returned as it is, and pay goes on with    *)
(* submit_intent, which wants it signed.                                   *)
SignReread(c) ==
    /\ At(c, "reread")
    /\ IF calls[c].onward /\ Row(c).state = "signed" THEN Goto(c, "fill") ELSE End(c)
    /\ UNCHANGED <<intents, sent, mined>>

(* `payment submit`: SELECT, and an error unless the state is signed.      *)
SubmitUnsigned(c, i) ==     \* mutant: any row will do
    /\ intents[i].state # "none"
    /\ Begin(c, i, "fill", TRUE)
    /\ UNCHANGED <<intents, sent, mined>>

Submit(c, i) ==
    /\ intents[i].state = "signed"
    /\ Begin(c, i, "fill", TRUE)
    /\ UNCHANGED <<intents, sent, mined>>

(* submit_intent: send_transaction asks the node for the nonce ...         *)
Fill(c) ==
    /\ At(c, "fill")
    /\ calls' = [calls EXCEPT ![c].pc = "send", ![c].nonce = NextNonce]
    /\ UNCHANGED <<intents, sent, mined>>

(* ... and sends.  The node accepts the transaction and answers with its   *)
(* hash, or its answer is lost and the call ends with an error.            *)
Accepted(c) == Append(sent, [of |-> calls[c].id, nonce |-> calls[c].nonce])

Recording(c) == calls' = [calls EXCEPT ![c].pc = "mark", ![c].tx = Len(sent) + 1]

SendUnanswered(c) ==     \* mutant: a lost answer goes on to mark_submitted
    /\ At(c, "send") /\ Acceptable(calls[c].nonce)
    /\ sent' = Accepted(c)
    /\ Recording(c) \/ Goto(c, "mark")
    /\ UNCHANGED <<intents, mined>>

Send(c) ==
    /\ At(c, "send") /\ Acceptable(calls[c].nonce)
    /\ sent' = Accepted(c)
    /\ Recording(c) \/ End(c)
    /\ UNCHANGED <<intents, mined>>

(* The node refuses, cannot be reached, or the call is killed (at any      *)
(* other step as well).                                                    *)
Abort(c) ==
    /\ ~At(c, "idle")
    /\ End(c)
    /\ UNCHANGED <<intents, sent, mined>>

(* mark_submitted: UPDATE ... WHERE id = ? AND state = 'signed'; no row    *)
(* changed is an error, and the hash is gone.                              *)
Submitted(i, t) ==
    IF intents[i].state = "signed"
    THEN [intents EXCEPT ![i].state = "submitted", ![i].tx = t]
    ELSE intents

MarkSubmitted(c) ==
    /\ At(c, "mark")
    /\ intents' = Submitted(calls[c].id, calls[c].tx)
    /\ End(c)
    /\ UNCHANGED <<sent, mined>>

-----------------------------------------------------------------------------
(* `payment mark-*`, by hand; the hash is that of a transfer for the       *)
(* intent that the user has found on the chain.                            *)
MarkSubmittedByHand(i, t) ==
    /\ intents[i].state = "signed"
    /\ t \in DOMAIN sent /\ sent[t].of = i
    /\ intents' = Submitted(i, t)
    /\ UNCHANGED <<calls, sent, mined>>

MarkConfirmed(i) ==
    /\ intents[i].state = "submitted"
    /\ intents' = [intents EXCEPT ![i].state = "confirmed"]
    /\ UNCHANGED <<calls, sent, mined>>

MarkFailed(i) ==
    /\ intents[i].state # "none"
    /\ intents' = [intents EXCEPT ![i].state = "failed"]
    /\ UNCHANGED <<calls, sent, mined>>

-----------------------------------------------------------------------------
Pay(c) ==
    \/ \E i \in Intents : Create(c, i) \/ Sign(c, i) \/ Submit(c, i)
    \/ SignRead(c) \/ SignUpdate(c) \/ SignReread(c)
    \/ Fill(c) \/ Send(c) \/ MarkSubmitted(c)
    \/ Abort(c)

ByHand(i) ==
    \/ \E t \in 1 .. MaxSent : MarkSubmittedByHand(i, t)
    \/ MarkConfirmed(i) \/ MarkFailed(i)

Next ==
    \/ \E c \in Callers : Pay(c)
    \/ \E i \in Intents : ByHand(i)
    \/ MineNext

Spec == Init /\ [][Next]_vars
-----------------------------------------------------------------------------
(* Properties.                                                             *)

(* Every variable has its type, and a call that runs has an intent.        *)
TypeOK ==
    /\ intents \in [Intents -> Intent]
    /\ calls \in [Callers -> Call]
    /\ \A c \in Callers : ~At(c, "idle") => calls[c].id \in Intents
    /\ sent \in Seq([of : Intents, nonce : 0 .. MaxSent])
    /\ Len(sent) <= MaxSent
    /\ mined \in Seq(1 .. MaxSent)

(* Money moves only for an intent the master has signed, however the       *)
(* states have gone on in the meantime (submit_intent trusts the row that  *)
(* was read before).                                                       *)
SentWasSigned == \A t \in DOMAIN sent : intents[sent[t].of].signature

(* The hash a row names is that of a transfer for this very intent, and a  *)
(* row that calls itself submitted or confirmed names one.                 *)
RecordedIsOurs ==
    \A i \in Intents :
        /\ intents[i].tx # 0 => intents[i].tx \in DOMAIN sent /\ sent[intents[i].tx].of = i
        /\ intents[i].state \in {"submitted", "confirmed"} => intents[i].tx # 0

(* No step takes an intent back to a state from which it would be signed   *)
(* or paid once more, and a recorded hash stays: stale reads of two        *)
(* callers do no harm, because each UPDATE names the state it starts from. *)
Rank == [none |-> 0, draft |-> 1, signed |-> 2, submitted |-> 3, confirmed |-> 4, failed |-> 5]

ForwardOnly ==
    [][\A i \in Intents :
          /\ Rank[intents[i].state] <= Rank[intents'[i].state]
          /\ intents[i].tx # 0 => intents'[i].tx = intents[i].tx]_vars

=============================================================================
