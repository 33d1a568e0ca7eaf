--------------------------- MODULE PaymentProofs ---------------------------
(***************************************************************************)
(* Proofs about PaymentIntent, for any number of intents, callers and      *)
(* transactions.                                                           *)
(*                                                                         *)
(* A call trusts a row that it has read some steps before.  What it may    *)
(* trust is what no other step takes back: that the intent is signed       *)
(* (Trusted), and that the hash in its hand is that of its own transfer    *)
(* (InHand).                                                               *)
(***************************************************************************)
EXTENDS PaymentIntent, FiniteSetTheorems, FunctionTheorems, TLAPS

Busy == {"fill", "send", "mark"}

(* A state that says signed has its signature, and no hash is recorded     *)
(* before a state that says submitted.                                     *)
StatesAreBacked ==
    \A i \in Intents :
        /\ intents[i].state \in {"signed", "submitted", "confirmed"} => intents[i].signature
        /\ intents[i].state \in {"none", "draft", "signed"} => intents[i].tx = 0

Trusted == \A c \in Callers : calls[c].pc \in Busy => intents[calls[c].id].signature

InHand == \A c \in Callers : At(c, "mark") =>
    calls[c].tx \in DOMAIN sent /\ sent[calls[c].tx].of = calls[c].id

IInv ==
    /\ TypeOK
    /\ StatesAreBacked /\ Trusted /\ InHand
    /\ SentWasSigned /\ RecordedIsOurs

-----------------------------------------------------------------------------
(* The node counts at most as many nonces as it has accepted transactions. *)
LEMMA NonceBound == ASSUME TypeOK PROVE NextNonce \in 0 .. MaxSent
  <1>. DEFINE used == {sent[t].nonce : t \in DOMAIN sent}
              nonce == [t \in DOMAIN sent |-> sent[t].nonce]
  <1>1. DOMAIN sent = 1 .. Len(sent) /\ Len(sent) \in Nat /\ Len(sent) <= MaxSent
    BY DEF TypeOK
  <1>2. IsFiniteSet(DOMAIN sent) /\ Cardinality(DOMAIN sent) = Len(sent)
    <2>1. 1 \in Int /\ Len(sent) \in Int
      BY <1>1
    <2>2. IsFiniteSet(1 .. Len(sent))
      BY <2>1, FS_Interval
    <2>3. Cardinality(1 .. Len(sent)) = IF 1 > Len(sent) THEN 0 ELSE Len(sent) - 1 + 1
      BY <2>1, FS_Interval
    <2>. QED  BY <1>1, <2>2, <2>3
  <1>3. nonce \in Surjection(DOMAIN sent, used)
    BY DEF Surjection
  <1>4. IsFiniteSet(used) /\ Cardinality(used) <= Len(sent)
    BY <1>2, <1>3, FS_Surjection
  <1>5. Cardinality(used) \in Nat
    BY <1>4, FS_CardinalityType
  <1>. QED  BY <1>1, <1>4, <1>5, PaymentAssumption DEF NextNonce

(* No row, no call and no transfer to begin with.                          *)
LEMMA Initially == Init => IInv
  <1>. SUFFICES ASSUME Init PROVE IInv
    OBVIOUS
  <1>1. TypeOK
    BY PaymentAssumption DEF Init, TypeOK, Intent, State, Call, Idle, At
  <1>2. DOMAIN sent = {}
    BY DEF Init
  <1>. QED
    BY <1>1, <1>2 DEF IInv, Init, StatesAreBacked, Trusted, InHand, SentWasSigned,
                      RecordedIsOurs, Idle, At, Busy

-----------------------------------------------------------------------------
IntentsTyped == intents \in [Intents -> Intent]

CallsTyped ==
    /\ calls \in [Callers -> Call]
    /\ \A c \in Callers : calls[c].pc # "idle" => calls[c].id \in Intents

(* A call begins, goes on and ends as a call of its type.                  *)
LEMMA CallSet ==
  ASSUME CallsTyped, NEW c \in Callers, NEW r \in Call, r.pc # "idle" => r.id \in Intents,
         calls' = [calls EXCEPT ![c] = r]
  PROVE  CallsTyped'
  BY DEF CallsTyped

(* A call that ends is idle.                                               *)
LEMMA EndTyped == ASSUME CallsTyped, NEW c \in Callers, End(c) PROVE CallsTyped'
  <1>1. Idle \in Call /\ Idle.pc = "idle"
    BY PaymentAssumption DEF Idle, Call
  <1>. QED  BY <1>1, CallSet DEF End

(* A call that begins has an intent.                                       *)
LEMMA BeginTyped ==
  ASSUME CallsTyped, NEW c \in Callers, NEW i \in Intents, NEW pc \in {"read", "fill"},
         NEW onward \in BOOLEAN, Begin(c, i, pc, onward)
  PROVE  CallsTyped'
  <1>. DEFINE r == [Idle EXCEPT !.pc = pc, !.id = i, !.onward = onward]
  <1>0. Idle \in Call
    BY PaymentAssumption DEF Idle, Call
  <1>1. r \in Call /\ r.id \in Intents
    BY <1>0 DEF Call
  <1>2. calls' = [calls EXCEPT ![c] = r]
    BY DEF Begin
  <1>. HIDE DEF r
  <1>. QED  BY <1>1, <1>2, CallSet

(* A call that goes on keeps its intent.                                   *)
LEMMA GoOnTyped ==
  ASSUME CallsTyped, NEW c \in Callers, calls[c].pc # "idle",
         NEW pc \in {"sign", "reread", "fill", "send", "mark"},
         NEW n \in 0 .. MaxSent, NEW t \in 0 .. MaxSent,
         calls' = [calls EXCEPT ![c] = [calls[c] EXCEPT !.pc = pc, !.nonce = n, !.tx = t]]
  PROVE  CallsTyped'
  <1>. DEFINE r == [calls[c] EXCEPT !.pc = pc, !.nonce = n, !.tx = t]
  <1>1. calls[c] \in Call /\ calls[c].id \in Intents
    BY DEF CallsTyped
  <1>2. r \in Call
    BY <1>1 DEF Call
  <1>3. r.id = calls[c].id
    BY <1>1 DEF Call
  <1>4. calls' = [calls EXCEPT ![c] = r]
    OBVIOUS
  <1>. HIDE DEF r
  <1>. QED  BY <1>1, <1>2, <1>3, <1>4, CallSet

(* A call that only goes on to its next step.                              *)
LEMMA GotoTyped ==
  ASSUME CallsTyped, NEW c \in Callers, calls[c].pc # "idle",
         NEW pc \in {"sign", "reread", "fill", "send", "mark"}, Goto(c, pc)
  PROVE  CallsTyped'
  <1>1. calls[c] \in Call
    BY DEF CallsTyped
  <1>2. /\ calls[c].nonce \in 0 .. MaxSent /\ calls[c].tx \in 0 .. MaxSent
        /\ [calls[c] EXCEPT !.pc = pc]
             = [calls[c] EXCEPT !.pc = pc, !.nonce = calls[c].nonce, !.tx = calls[c].tx]
    BY <1>1 DEF Call
  <1>3. calls' = [calls EXCEPT ![c] = [calls[c] EXCEPT !.pc = pc]]
    BY DEF Goto
  <1>. QED  BY <1>2, <1>3, GoOnTyped, ZenonT(40)

-----------------------------------------------------------------------------
(* mark_submitted writes a row of its type.                                *)
LEMMA SubmittedTyped ==
  ASSUME IntentsTyped, NEW i \in Intents, NEW t \in 0 .. MaxSent, intents' = Submitted(i, t)
  PROVE  IntentsTyped'
  <1>. DEFINE r == [intents[i] EXCEPT !.state = "submitted", !.tx = t]
  <1>1. intents[i] \in Intent
    BY DEF IntentsTyped
  <1>2. r \in Intent
    BY <1>1 DEF Intent, State
  <1>3. intents' = [intents EXCEPT ![i] = r] \/ UNCHANGED intents
    BY DEF Submitted
  <1>. HIDE DEF r
  <1>. QED  BY <1>2, <1>3 DEF IntentsTyped

(* Every step keeps the types.                                             *)
LEMMA TypeStep == TypeOK /\ [Next]_vars => TypeOK'
  <1>. SUFFICES ASSUME TypeOK, [Next]_vars PROVE TypeOK'
    OBVIOUS
  <1>. DEFINE Chain == /\ sent \in Seq([of : Intents, nonce : 0 .. MaxSent])
                       /\ Len(sent) <= MaxSent
                       /\ mined \in Seq(1 .. MaxSent)
  <1>a. IntentsTyped /\ CallsTyped /\ Chain
    BY DEF TypeOK, IntentsTyped, CallsTyped, At
  <1>b. ASSUME IntentsTyped', CallsTyped', Chain' PROVE TypeOK'
    BY <1>b DEF TypeOK, IntentsTyped, CallsTyped, At
  <1>c. ASSUME UNCHANGED <<sent, mined>> PROVE Chain'
    BY <1>a, <1>c
  <1>d. ASSUME UNCHANGED intents PROVE IntentsTyped'
    BY <1>a, <1>d DEF IntentsTyped
  <1>e. ASSUME UNCHANGED calls PROVE CallsTyped'
    BY <1>a, <1>e DEF CallsTyped
  <1>. HIDE DEF Chain
  <1>1. ASSUME NEW c \in Callers, NEW i \in Intents, Create(c, i) PROVE TypeOK'
    <2>1. IntentsTyped'
      BY <1>1, <1>a DEF Create, IntentsTyped, Intent, State
    <2>2. CallsTyped'
      BY <1>1, <1>a, <1>e, BeginTyped DEF Create
    <2>. QED  BY <1>1, <1>b, <1>c, <2>1, <2>2 DEF Create
  <1>2. ASSUME NEW c \in Callers, NEW i \in Intents, Sign(c, i) \/ Submit(c, i) PROVE TypeOK'
    <2>1. CallsTyped'
      BY <1>2, <1>a, BeginTyped DEF Sign, Submit
    <2>. QED  BY <1>2, <1>b, <1>c, <1>d, <2>1 DEF Sign, Submit
  <1>3. ASSUME NEW c \in Callers, SignRead(c) \/ SignReread(c) PROVE TypeOK'
    <2>1. CallsTyped'
      BY <1>3, <1>a, GotoTyped, EndTyped DEF SignRead, SignReread, At
    <2>. QED  BY <1>3, <1>b, <1>c, <1>d, <2>1 DEF SignRead, SignReread
  <1>4. ASSUME NEW c \in Callers, SignUpdate(c) PROVE TypeOK'
    <2>1. CallsTyped' /\ calls[c].id \in Intents
      BY <1>4, <1>a, GotoTyped DEF SignUpdate, At, CallsTyped
    <2>2. IntentsTyped'
      BY <1>4, <1>a, <2>1 DEF SignUpdate, Signed, IntentsTyped, Intent, State
    <2>. QED  BY <1>4, <1>b, <1>c, <2>1, <2>2 DEF SignUpdate
  <1>5. ASSUME NEW c \in Callers, Fill(c) PROVE TypeOK'
    <2>1. calls[c] \in Call /\ calls[c].pc = "fill"
      BY <1>5, <1>a DEF Fill, At, CallsTyped
    <2>2. /\ calls[c].tx \in 0 .. MaxSent
          /\ [calls[c] EXCEPT !.pc = "send", !.nonce = NextNonce]
               = [calls[c] EXCEPT !.pc = "send", !.nonce = NextNonce, !.tx = calls[c].tx]
      BY <2>1 DEF Call
    <2>3. calls' = [calls EXCEPT ![c] = [calls[c] EXCEPT !.pc = "send", !.nonce = NextNonce]]
      BY <1>5 DEF Fill
    <2>4. CallsTyped'
      BY <1>a, <2>1, <2>2, <2>3, NonceBound, GoOnTyped
    <2>. QED  BY <1>5, <1>b, <1>c, <1>d, <2>4 DEF Fill
  <1>6. ASSUME NEW c \in Callers, Send(c) PROVE TypeOK'
    <2>1. calls[c] \in Call /\ calls[c].pc = "send" /\ calls[c].id \in Intents
      BY <1>6, <1>a DEF Send, At, CallsTyped
    <2>2. calls[c].nonce \in 0 .. MaxSent /\ Len(sent) \in Nat /\ Len(sent) < MaxSent
      BY <1>6, <1>a, <2>1 DEF Send, Acceptable, Call, Chain
    <2>3. Chain'
      BY <1>6, <1>a, <2>1, <2>2, PaymentAssumption DEF Send, Accepted, Chain
    <2>4. ASSUME Recording(c) PROVE CallsTyped'
      <3>1. calls' = [calls EXCEPT ![c] = [calls[c] EXCEPT !.pc = "mark", !.tx = Len(sent) + 1]]
        BY <2>4 DEF Recording
      <3>0. Len(sent) + 1 \in 0 .. MaxSent
        BY <2>2, PaymentAssumption
      <3>2. [calls[c] EXCEPT !.pc = "mark", !.tx = Len(sent) + 1]
              = [calls[c] EXCEPT !.pc = "mark", !.nonce = calls[c].nonce, !.tx = Len(sent) + 1]
        BY <2>1 DEF Call
      <3>. QED  BY <1>a, <2>1, <2>2, <3>0, <3>1, <3>2, GoOnTyped
    <2>5. CallsTyped'
      BY <1>6, <1>a, <2>4, EndTyped DEF Send
    <2>. QED  BY <1>6, <1>b, <1>d, <2>3, <2>5 DEF Send
  <1>7. ASSUME NEW c \in Callers, MarkSubmitted(c) PROVE TypeOK'
    <2>1. calls[c].id \in Intents /\ calls[c].tx \in 0 .. MaxSent
      BY <1>7, <1>a DEF MarkSubmitted, At, CallsTyped, Call
    <2>2. IntentsTyped'
      BY <1>7, <1>a, <2>1, SubmittedTyped DEF MarkSubmitted
    <2>3. CallsTyped'
      BY <1>7, <1>a, EndTyped DEF MarkSubmitted
    <2>. QED  BY <1>7, <1>b, <1>c, <2>2, <2>3 DEF MarkSubmitted
  <1>8. ASSUME NEW c \in Callers, Abort(c) PROVE TypeOK'
    BY <1>8, <1>a, <1>b, <1>c, <1>d, EndTyped DEF Abort
  <1>9. ASSUME NEW i \in Intents, ByHand(i) PROVE TypeOK'
    <2>1. IntentsTyped' /\ UNCHANGED <<calls, sent, mined>>
      <3>1. ASSUME NEW t \in 1 .. MaxSent, MarkSubmittedByHand(i, t) PROVE IntentsTyped'
        <4>1. t \in 0 .. MaxSent
          BY PaymentAssumption
        <4>. QED
          BY <3>1, <1>a, <4>1, SubmittedTyped DEF MarkSubmittedByHand
      <3>2. ASSUME MarkConfirmed(i) \/ MarkFailed(i) PROVE IntentsTyped'
        BY <3>2, <1>a DEF MarkConfirmed, MarkFailed, IntentsTyped, Intent, State
      <3>. QED
        BY <1>9, <3>1, <3>2 DEF ByHand, MarkSubmittedByHand, MarkConfirmed, MarkFailed
    <2>. QED  BY <1>b, <1>c, <1>e, <2>1
  <1>10. CASE MineNext
    <2>1. PICK t \in DOMAIN sent : mined' = Append(mined, t)
      BY <1>10 DEF MineNext, WithNonce
    <2>2. t \in 1 .. MaxSent
      BY <1>a, <2>1, PaymentAssumption DEF Chain
    <2>3. Chain'
      BY <1>10, <1>a, <2>1, <2>2 DEF MineNext, Chain
    <2>. QED  BY <1>10, <1>b, <1>d, <1>e, <2>3 DEF MineNext
  <1>11. CASE UNCHANGED vars
    BY <1>11, <1>b, <1>c, <1>d, <1>e DEF vars
  <1>. QED
    BY <1>1, <1>2, <1>3, <1>4, <1>5, <1>6, <1>7, <1>8, <1>9, <1>10, <1>11 DEF Next, Pay

-----------------------------------------------------------------------------
(* What no step takes back: a signature, a recorded hash, a transaction.   *)
Kept ==
    /\ \A i \in Intents : /\ intents[i].signature => intents'[i].signature
                          /\ intents[i].tx # 0 => intents'[i].tx = intents[i].tx
    /\ DOMAIN sent \subseteq DOMAIN sent'
    /\ \A t \in DOMAIN sent : sent'[t] = sent[t]

(* A row is written over with one that keeps them.                         *)
RowKept(r, i) ==
    /\ intents[i].signature => r.signature
    /\ intents[i].tx # 0 => r.tx = intents[i].tx

(* A step that writes one row keeps the rows if it keeps that one.         *)
LEMMA RowSet ==
  ASSUME TypeOK, NEW i \in Intents, NEW r, RowKept(r, i),
         intents' = [intents EXCEPT ![i] = r], UNCHANGED sent
  PROVE  Kept
  BY DEF TypeOK, Kept, RowKept

(* mark_submitted writes a hash only where there was none.                 *)
LEMMA SubmittedKept ==
  ASSUME IInv, NEW i \in Intents, NEW t, intents' = Submitted(i, t), UNCHANGED sent
  PROVE  Kept
  <1>0. TypeOK /\ intents[i] \in Intent
    BY DEF IInv, TypeOK
  <1>1. CASE intents[i].state = "signed"
    <2>. DEFINE r == [intents[i] EXCEPT !.state = "submitted", !.tx = t]
    <2>1. intents' = [intents EXCEPT ![i] = r]
      BY <1>1 DEF Submitted
    <2>2. RowKept(r, i)
      BY <1>0, <1>1 DEF IInv, StatesAreBacked, RowKept, Intent
    <2>. HIDE DEF r
    <2>. QED  BY <1>0, <2>1, <2>2, RowSet
  <1>2. CASE intents[i].state # "signed"
    BY <1>2 DEF Submitted, Kept
  <1>. QED  BY <1>1, <1>2

(* A step that writes only the state.                                      *)
LEMMA StateKept ==
  ASSUME TypeOK, NEW i \in Intents, NEW x, intents' = [intents EXCEPT ![i].state = x],
         UNCHANGED sent
  PROVE  Kept
  <1>. DEFINE r == [intents[i] EXCEPT !.state = x]
  <1>1. intents[i] \in Intent
    BY DEF TypeOK
  <1>2. RowKept(r, i)
    BY <1>1 DEF RowKept, Intent
  <1>3. intents' = [intents EXCEPT ![i] = r]
    OBVIOUS
  <1>. HIDE DEF r
  <1>. QED  BY <1>2, <1>3, RowSet

(* No step takes back a signature, a hash or a transfer.                   *)
LEMMA NothingTakenBack == IInv /\ [Next]_vars => Kept
  <1>. SUFFICES ASSUME IInv, [Next]_vars PROVE Kept
    OBVIOUS
  <1>0. TypeOK
    BY DEF IInv
  <1>a. ASSUME UNCHANGED <<intents, sent>> PROVE Kept
    BY <1>a DEF Kept
  <1>1. ASSUME NEW c \in Callers, NEW i \in Intents, Create(c, i) \/ Sign(c, i) \/ Submit(c, i)
        PROVE  Kept
    BY <1>0, <1>1, <1>a, StateKept DEF Create, Sign, Submit
  <1>2. ASSUME NEW c \in Callers, SignRead(c) \/ SignReread(c) \/ Fill(c) \/ Abort(c)
        PROVE  Kept
    BY <1>2, <1>a DEF SignRead, SignReread, Fill, Abort
  <1>3. ASSUME NEW c \in Callers, SignUpdate(c) PROVE Kept
    <2>. DEFINE i == calls[c].id
                r == [intents[i] EXCEPT !.state = "signed", !.signature = TRUE]
    <2>1. i \in Intents
      BY <1>0, <1>3 DEF SignUpdate, TypeOK, At
    <2>2. intents[i] \in Intent
      BY <1>0, <2>1 DEF TypeOK
    <2>3. RowKept(r, i)
      BY <2>2 DEF RowKept, Intent
    <2>4. intents' = [intents EXCEPT ![i] = r] \/ UNCHANGED intents
      BY <1>3 DEF SignUpdate, Signed
    <2>5. UNCHANGED sent
      BY <1>3 DEF SignUpdate
    <2>. HIDE DEF i, r
    <2>. QED  BY <1>0, <1>a, <2>1, <2>3, <2>4, <2>5, RowSet
  <1>4. ASSUME NEW c \in Callers, Send(c) PROVE Kept
    BY <1>0, <1>4 DEF Send, Accepted, TypeOK, Kept
  <1>5. ASSUME NEW c \in Callers, MarkSubmitted(c) PROVE Kept
    <2>1. calls[c].id \in Intents
      BY <1>0, <1>5 DEF MarkSubmitted, TypeOK, At
    <2>. QED  BY <1>5, <2>1, SubmittedKept DEF MarkSubmitted
  <1>6. ASSUME NEW i \in Intents, ByHand(i) PROVE Kept
    BY <1>0, <1>6, SubmittedKept, StateKept
       DEF ByHand, MarkSubmittedByHand, MarkConfirmed, MarkFailed
  <1>7. CASE MineNext
    BY <1>7, <1>a DEF MineNext
  <1>8. CASE UNCHANGED vars
    BY <1>8, <1>a DEF vars
  <1>. QED
    BY <1>1, <1>2, <1>3, <1>4, <1>5, <1>6, <1>7, <1>8 DEF Next, Pay

-----------------------------------------------------------------------------
(* What a call trusts is still true when it goes on.                       *)
LEMMA CallTrusted ==
  ASSUME IInv, TypeOK', Kept, NEW c \in Callers, NEW r,
         calls' = [calls EXCEPT ![c] = r],
         r.pc \in Busy => intents[r.id].signature,
         r.pc = "mark" => r.tx \in DOMAIN sent' /\ sent'[r.tx].of = r.id
  PROVE  Trusted' /\ InHand'
  <1>1. \A d \in Callers : /\ calls[d].pc # "idle" => calls[d].id \in Intents
                           /\ calls'[d].pc # "idle" => calls'[d].id \in Intents
    BY DEF IInv, TypeOK, At
  <1>2. calls'[c] = r /\ \A d \in Callers : d # c => calls'[d] = calls[d]
    BY DEF IInv, TypeOK
  <1>3. ASSUME NEW d \in Callers, calls'[d].pc \in Busy PROVE intents'[calls'[d].id].signature
    <2>1. intents[calls'[d].id].signature /\ calls'[d].id \in Intents
      BY <1>1, <1>2, <1>3 DEF IInv, Trusted, Busy
    <2>. QED  BY <2>1 DEF Kept
  <1>4. ASSUME NEW d \in Callers, calls'[d].pc = "mark"
        PROVE  calls'[d].tx \in DOMAIN sent' /\ sent'[calls'[d].tx].of = calls'[d].id
    BY <1>2, <1>4 DEF IInv, InHand, At, Kept
  <1>. QED  BY <1>3, <1>4 DEF Trusted, InHand, At

(* Callers that do not run trust what they trusted.                        *)
LEMMA CallsUntouched == ASSUME IInv, Kept, UNCHANGED calls PROVE Trusted' /\ InHand'
  <1>1. \A d \in Callers : calls[d].pc # "idle" => calls[d].id \in Intents
    BY DEF IInv, TypeOK, At
  <1>. QED  BY <1>1 DEF IInv, Trusted, InHand, At, Kept, Busy

(* Every step of a call hands on what it has read or been told.            *)
LEMMA TrustStep == IInv /\ TypeOK' /\ Kept /\ [Next]_vars => Trusted' /\ InHand'
  <1>. SUFFICES ASSUME IInv, TypeOK', Kept, [Next]_vars PROVE Trusted' /\ InHand'
    OBVIOUS
  <1>0. TypeOK
    BY DEF IInv
  <1>a. ASSUME NEW c \in Callers, NEW r, r.pc \notin Busy, calls' = [calls EXCEPT ![c] = r]
        PROVE  Trusted' /\ InHand'
    BY <1>a, CallTrusted DEF Busy
  <1>b. ASSUME NEW c \in Callers, End(c) PROVE Trusted' /\ InHand'
    <2>1. Idle.pc \notin Busy
      BY DEF Idle, Busy
    <2>. QED  BY <1>a, <1>b, <2>1 DEF End
  <1>c. ASSUME NEW c \in Callers, NEW i, NEW pc, NEW onward \in BOOLEAN,
               Begin(c, i, pc, onward), pc = "read"
        PROVE  Trusted' /\ InHand'
    <2>1. Idle \in Call
      BY PaymentAssumption DEF Idle, Call
    <2>. DEFINE r == [Idle EXCEPT !.pc = pc, !.id = i, !.onward = onward]
    <2>2. r.pc \notin Busy
      BY <1>c, <2>1 DEF Busy, Call
    <2>3. calls' = [calls EXCEPT ![c] = r]
      BY <1>c DEF Begin
    <2>. HIDE DEF r
    <2>. QED  BY <1>a, <2>2, <2>3
  <1>1. ASSUME NEW c \in Callers, NEW i \in Intents, Create(c, i) \/ Sign(c, i)
        PROVE  Trusted' /\ InHand'
    BY <1>1, <1>c, CallsUntouched DEF Create, Sign
  <1>2. ASSUME NEW c \in Callers, NEW i \in Intents, Submit(c, i) PROVE Trusted' /\ InHand'
    <2>1. Idle \in Call
      BY PaymentAssumption DEF Idle, Call
    <2>. DEFINE r == [Idle EXCEPT !.pc = "fill", !.id = i, !.onward = TRUE]
    <2>2. r.pc = "fill" /\ r.id = i
      BY <2>1 DEF Call
    <2>3. calls' = [calls EXCEPT ![c] = r]
      BY <1>2 DEF Submit, Begin
    <2>4. intents[i].signature
      BY <1>2 DEF Submit, IInv, StatesAreBacked
    <2>. HIDE DEF r
    <2>. QED  BY <2>2, <2>3, <2>4, CallTrusted
  <1>3. ASSUME NEW c \in Callers, NEW pc \in {"sign", "reread"}, Goto(c, pc)
        PROVE  Trusted' /\ InHand'
    <2>. DEFINE r == [calls[c] EXCEPT !.pc = pc]
    <2>1. calls[c] \in Call
      BY <1>0 DEF TypeOK
    <2>2. r.pc \notin Busy
      BY <2>1 DEF Call, Busy
    <2>3. calls' = [calls EXCEPT ![c] = r]
      BY <1>3 DEF Goto
    <2>. HIDE DEF r
    <2>. QED  BY <1>a, <2>2, <2>3
  <1>4. ASSUME NEW c \in Callers, SignRead(c) \/ SignUpdate(c) PROVE Trusted' /\ InHand'
    BY <1>4, <1>3, <1>b DEF SignRead, SignUpdate
  <1>5. ASSUME NEW c \in Callers, SignReread(c) PROVE Trusted' /\ InHand'
    <2>1. CASE End(c)
      BY <1>b, <2>1
    <2>2. CASE Row(c).state = "signed" /\ Goto(c, "fill")
      <3>. DEFINE r == [calls[c] EXCEPT !.pc = "fill"]
      <3>1. calls[c] \in Call /\ calls[c].id \in Intents
        BY <1>0, <1>5 DEF TypeOK, SignReread, At
      <3>2. r.pc = "fill" /\ r.id = calls[c].id
        BY <3>1 DEF Call
      <3>3. calls' = [calls EXCEPT ![c] = r]
        BY <2>2 DEF Goto
      <3>4. intents[calls[c].id].signature
        BY <2>2, <3>1 DEF Row, IInv, StatesAreBacked
      <3>. HIDE DEF r
      <3>. QED  BY <3>2, <3>3, <3>4, CallTrusted
    <2>. QED  BY <1>5, <2>1, <2>2 DEF SignReread
  <1>6. ASSUME NEW c \in Callers, Fill(c) PROVE Trusted' /\ InHand'
    <2>. DEFINE r == [calls[c] EXCEPT !.pc = "send", !.nonce = NextNonce]
    <2>1. calls[c] \in Call /\ calls[c].pc = "fill"
      BY <1>0, <1>6 DEF TypeOK, Fill, At
    <2>2. r.pc = "send" /\ r.id = calls[c].id
      BY <2>1 DEF Call
    <2>3. calls' = [calls EXCEPT ![c] = r]
      BY <1>6 DEF Fill
    <2>4. intents[calls[c].id].signature
      BY <2>1 DEF IInv, Trusted, Busy
    <2>. HIDE DEF r
    <2>. QED  BY <2>2, <2>3, <2>4, CallTrusted
  <1>7. ASSUME NEW c \in Callers, Send(c) PROVE Trusted' /\ InHand'
    <2>1. CASE End(c)
      BY <1>b, <2>1
    <2>2. CASE Recording(c)
      <3>. DEFINE r == [calls[c] EXCEPT !.pc = "mark", !.tx = Len(sent) + 1]
      <3>1. calls[c] \in Call /\ calls[c].pc = "send"
        BY <1>0, <1>7 DEF TypeOK, Send, At
      <3>2. r.pc = "mark" /\ r.id = calls[c].id /\ r.tx = Len(sent) + 1
        BY <3>1 DEF Call
      <3>3. calls' = [calls EXCEPT ![c] = r]
        BY <2>2 DEF Recording
      <3>4. intents[calls[c].id].signature
        BY <3>1 DEF IInv, Trusted, Busy
      <3>5. Len(sent) + 1 \in DOMAIN sent' /\ sent'[Len(sent) + 1].of = calls[c].id
        BY <1>0, <1>7 DEF TypeOK, Send, Accepted
      <3>. HIDE DEF r
      <3>. QED  BY <3>2, <3>3, <3>4, <3>5, CallTrusted
    <2>. QED  BY <1>7, <2>1, <2>2 DEF Send
  <1>8. ASSUME NEW c \in Callers, MarkSubmitted(c) \/ Abort(c) PROVE Trusted' /\ InHand'
    BY <1>8, <1>b DEF MarkSubmitted, Abort
  <1>9. ASSUME NEW i \in Intents, ByHand(i) PROVE Trusted' /\ InHand'
    BY <1>9, CallsUntouched DEF ByHand, MarkSubmittedByHand, MarkConfirmed, MarkFailed
  <1>10. CASE MineNext \/ UNCHANGED vars
    BY <1>10, CallsUntouched DEF MineNext, vars
  <1>. QED
    BY <1>1, <1>2, <1>4, <1>5, <1>6, <1>7, <1>8, <1>9, <1>10 DEF Next, Pay

-----------------------------------------------------------------------------
(* What is true of every row.                                              *)
RowOK(r, i) ==
    /\ r.state \in {"signed", "submitted", "confirmed"} => r.signature
    /\ r.state \in {"none", "draft", "signed"} => r.tx = 0
    /\ r.tx # 0 => r.tx \in DOMAIN sent /\ sent[r.tx].of = i
    /\ r.state \in {"submitted", "confirmed"} => r.tx # 0

(* The two invariants about rows, row by row.                              *)
LEMMA RowsOK == (\A i \in Intents : RowOK(intents[i], i)) <=> StatesAreBacked /\ RecordedIsOurs
  BY DEF RowOK, StatesAreBacked, RecordedIsOurs

(* The rank of each state.                                                 *)
LEMMA Ranks ==
    /\ Rank["none"] = 0 /\ Rank["draft"] = 1 /\ Rank["signed"] = 2
    /\ Rank["submitted"] = 3 /\ Rank["confirmed"] = 4 /\ Rank["failed"] = 5
  BY DEF Rank

(* The ranks are numbers, and failed is the highest.                       *)
LEMMA RankInNat == \A s \in State : Rank[s] \in Nat /\ Rank[s] <= 5
  BY Ranks DEF State

(* A row that is written is written forward, and is one that is true.      *)
RowsStep ==
    \A i \in Intents : /\ intents'[i] = intents[i] \/ RowOK(intents'[i], i)
                       /\ Rank[intents[i].state] <= Rank[intents'[i].state]

(* A row that only moves forward makes a step that is allowed.             *)
LEMMA RowWritten ==
  ASSUME TypeOK, NEW i \in Intents, NEW r, intents' = [intents EXCEPT ![i] = r],
         RowOK(r, i), Rank[intents[i].state] <= Rank[r.state]
  PROVE  RowsStep
  <1>1. \A j \in Intents : j # i => intents'[j] = intents[j] /\ intents[j].state \in State
    BY DEF TypeOK, Intent
  <1>2. intents'[i] = r
    BY DEF TypeOK
  <1>. QED  BY <1>1, <1>2, RankInNat DEF RowsStep

(* mark_submitted with the hash of a transfer for the intent.              *)
LEMMA SubmittedWritten ==
  ASSUME IInv, NEW i \in Intents, NEW t \in DOMAIN sent, sent[t].of = i,
         intents' = Submitted(i, t), intents[i].state = "signed"
  PROVE  RowsStep
  <1>. DEFINE r == [intents[i] EXCEPT !.state = "submitted", !.tx = t]
  <1>1. TypeOK /\ intents[i] \in Intent
    BY DEF IInv, TypeOK
  <1>2. r.state = "submitted" /\ r.tx = t /\ r.signature = intents[i].signature
    BY <1>1 DEF Intent
  <1>3. t # 0 /\ intents[i].signature
    BY <1>1 DEF IInv, StatesAreBacked, TypeOK
  <1>4. intents' = [intents EXCEPT ![i] = r]
    BY DEF Submitted
  <1>. HIDE DEF r
  <1>5. RowOK(r, i)
    BY <1>2, <1>3 DEF RowOK
  <1>6. Rank[intents[i].state] <= Rank[r.state]
    BY <1>2, Ranks
  <1>. QED  BY <1>1, <1>4, <1>5, <1>6, RowWritten

(* Every step writes rows forward.                                         *)
LEMMA RowsForward == IInv /\ [Next]_vars => RowsStep
  <1>. SUFFICES ASSUME IInv, [Next]_vars PROVE RowsStep
    OBVIOUS
  <1>0. TypeOK /\ \A i \in Intents : intents[i] \in Intent /\ RowOK(intents[i], i)
    BY RowsOK DEF IInv, TypeOK
  <1>a. ASSUME UNCHANGED intents PROVE RowsStep
    BY <1>0, <1>a, RankInNat DEF RowsStep, Intent
  <1>b. ASSUME NEW i \in Intents, NEW x, intents' = [intents EXCEPT ![i].state = x],
               RowOK([intents[i] EXCEPT !.state = x], i), Rank[intents[i].state] <= Rank[x]
        PROVE  RowsStep
    <2>. DEFINE r == [intents[i] EXCEPT !.state = x]
    <2>1. r.state = x
      BY <1>0 DEF Intent
    <2>2. intents' = [intents EXCEPT ![i] = r]
      BY <1>b
    <2>3. RowOK(r, i) /\ Rank[intents[i].state] <= Rank[r.state]
      BY <1>b, <2>1
    <2>. HIDE DEF r
    <2>. QED  BY <1>0, <2>2, <2>3, RowWritten
  <1>1. ASSUME NEW c \in Callers, NEW i \in Intents, Create(c, i) PROVE RowsStep
    <2>1. intents[i].state = "none" /\ intents' = [intents EXCEPT ![i].state = "draft"]
      BY <1>1 DEF Create
    <2>2. RowOK([intents[i] EXCEPT !.state = "draft"], i)
      BY <1>0, <2>1 DEF RowOK, Intent
    <2>3. Rank[intents[i].state] <= Rank["draft"]
      BY <2>1, Ranks
    <2>. QED  BY <1>b, <2>1, <2>2, <2>3
  <1>2. ASSUME NEW c \in Callers, SignUpdate(c) PROVE RowsStep
    <2>. DEFINE i == calls[c].id
                r == [intents[i] EXCEPT !.state = "signed", !.signature = TRUE]
    <2>1. i \in Intents
      BY <1>0, <1>2 DEF SignUpdate, TypeOK, At
    <2>2. CASE intents[i].state = "draft"
      <3>1. intents' = [intents EXCEPT ![i] = r]
        BY <1>2, <2>2 DEF SignUpdate, Signed, Row
      <3>2. intents[i] \in Intent /\ RowOK(intents[i], i)
        BY <1>0, <2>1
      <3>3. r.state = "signed" /\ r.signature = TRUE /\ r.tx = 0
        BY <2>2, <3>2 DEF RowOK, Intent
      <3>. HIDE DEF i, r
      <3>4. RowOK(r, i) /\ Rank[intents[i].state] <= Rank[r.state]
        BY <2>2, <3>3, Ranks DEF RowOK
      <3>. QED  BY <1>0, <2>1, <3>1, <3>4, RowWritten
    <2>. QED  BY <1>2, <1>a, <2>2 DEF SignUpdate, Row
  <1>3. ASSUME NEW c \in Callers, MarkSubmitted(c) PROVE RowsStep
    <2>. DEFINE i == calls[c].id
                t == calls[c].tx
    <2>1. i \in Intents /\ t \in DOMAIN sent /\ sent[t].of = i /\ intents' = Submitted(i, t)
      BY <1>0, <1>3 DEF MarkSubmitted, TypeOK, IInv, InHand, At
    <2>. HIDE DEF i, t
    <2>2. CASE intents[i].state = "signed"
      BY <2>1, <2>2, SubmittedWritten
    <2>. QED  BY <1>a, <2>1, <2>2 DEF Submitted
  <1>4. ASSUME NEW i \in Intents, NEW t \in 1 .. MaxSent, MarkSubmittedByHand(i, t)
        PROVE  RowsStep
    BY <1>4, SubmittedWritten DEF MarkSubmittedByHand
  <1>5. ASSUME NEW i \in Intents, MarkConfirmed(i) PROVE RowsStep
    <2>1. intents[i].state = "submitted" /\ intents' = [intents EXCEPT ![i].state = "confirmed"]
      BY <1>5 DEF MarkConfirmed
    <2>2. RowOK([intents[i] EXCEPT !.state = "confirmed"], i)
      BY <1>0, <2>1 DEF RowOK, Intent
    <2>3. Rank[intents[i].state] <= Rank["confirmed"]
      BY <2>1, Ranks
    <2>. QED  BY <1>b, <2>1, <2>2, <2>3
  <1>6. ASSUME NEW i \in Intents, MarkFailed(i) PROVE RowsStep
    <2>1. intents' = [intents EXCEPT ![i].state = "failed"]
      BY <1>6 DEF MarkFailed
    <2>2. RowOK([intents[i] EXCEPT !.state = "failed"], i)
      BY <1>0 DEF RowOK, Intent
    <2>3. Rank[intents[i].state] <= Rank["failed"]
      BY <1>0, Ranks, RankInNat DEF Intent
    <2>. QED  BY <1>b, <2>1, <2>2, <2>3
  <1>7. ASSUME NEW c \in Callers, NEW i \in Intents, Sign(c, i) \/ Submit(c, i) PROVE RowsStep
    BY <1>7, <1>a DEF Sign, Submit
  <1>8. ASSUME NEW c \in Callers,
               SignRead(c) \/ SignReread(c) \/ Fill(c) \/ Send(c) \/ Abort(c)
        PROVE  RowsStep
    BY <1>8, <1>a DEF SignRead, SignReread, Fill, Send, Abort
  <1>9. CASE MineNext \/ UNCHANGED vars
    BY <1>9, <1>a DEF MineNext, vars
  <1>. QED
    BY <1>1, <1>2, <1>3, <1>4, <1>5, <1>6, <1>7, <1>8, <1>9 DEF Next, Pay, ByHand

(* Rows that are not written stay true when transfers are added.           *)
LEMMA RowsStayOK == IInv /\ Kept /\ RowsStep => StatesAreBacked' /\ RecordedIsOurs'
  <1>. SUFFICES ASSUME IInv, Kept, RowsStep PROVE StatesAreBacked' /\ RecordedIsOurs'
    OBVIOUS
  <1>1. ASSUME NEW i \in Intents PROVE RowOK(intents'[i], i)
    BY RowsOK DEF IInv, RowsStep
  <1>2. ASSUME NEW i \in Intents PROVE RowOK(intents[i], i)'
    BY <1>1 DEF RowOK, Kept
  <1>3. (\A i \in Intents : RowOK(intents[i], i))'
    BY <1>2
  <1>. QED  BY <1>3 DEF RowOK, StatesAreBacked, RecordedIsOurs

-----------------------------------------------------------------------------
(* An entry of a sequence over S is in S.                                  *)
LEMMA EntryInSet == ASSUME NEW S, NEW s \in Seq(S), NEW t \in DOMAIN s PROVE s[t] \in S
  OBVIOUS

(* The only step that adds a transfer is that of a call that trusts a      *)
(* signature.                                                              *)
LEMMA SentStep == IInv /\ Kept /\ [Next]_vars => SentWasSigned'
  <1>. SUFFICES ASSUME IInv, Kept, [Next]_vars PROVE SentWasSigned'
    OBVIOUS
  <1>0. TypeOK
    BY DEF IInv
  <1>1. \A t \in DOMAIN sent : intents'[sent'[t].of].signature
    <2>1. ASSUME NEW t \in DOMAIN sent PROVE intents'[sent'[t].of].signature
      <3>1. sent[t] \in [of : Intents, nonce : 0 .. MaxSent]
        BY <1>0, EntryInSet DEF TypeOK
      <3>2. intents[sent[t].of].signature
        BY DEF IInv, SentWasSigned
      <3>. QED  BY <3>1, <3>2 DEF Kept
    <2>. QED  BY <2>1
  <1>2. CASE \E c \in Callers : Send(c)
    <2>1. PICK c \in Callers : Send(c)
      BY <1>2
    <2>2. calls[c].id \in Intents /\ intents[calls[c].id].signature
      BY <1>0, <2>1 DEF Send, IInv, Trusted, TypeOK, At, Busy
    <2>3. DOMAIN sent' = DOMAIN sent \cup {Len(sent) + 1} /\ sent'[Len(sent) + 1].of = calls[c].id
      BY <1>0, <2>1 DEF Send, Accepted, TypeOK
    <2>. QED  BY <1>1, <2>2, <2>3 DEF SentWasSigned, Kept
  <1>3. CASE ~ \E c \in Callers : Send(c)
    <2>1. UNCHANGED sent
      BY <1>3 DEF Next, Pay, ByHand, Create, Sign, Submit, SignRead, SignUpdate, SignReread,
                  Fill, MarkSubmitted, Abort, MarkSubmittedByHand, MarkConfirmed, MarkFailed,
                  MineNext, vars
    <2>. QED  BY <1>1, <2>1 DEF SentWasSigned
  <1>. QED  BY <1>2, <1>3

(* Every step keeps the inductive invariant.                               *)
LEMMA NextIInv == IInv /\ [Next]_vars => IInv'
  <1>. SUFFICES ASSUME IInv, [Next]_vars PROVE IInv'
    OBVIOUS
  <1>1. TypeOK' /\ Kept /\ RowsStep
    BY TypeStep, NothingTakenBack, RowsForward DEF IInv
  <1>. QED  BY <1>1, TrustStep, RowsStayOK, SentStep DEF IInv

(* IInv is an invariant.                                                   *)
THEOREM PaymentInvariance == Spec => []IInv
  BY Initially, NextIInv, PTL DEF Spec

(* Rows, calls and transactions keep their shape, and no more than MaxSent *)
(* transactions are sent.                                                  *)
THEOREM TypeCorrect == Spec => []TypeOK
  <1>1. IInv => TypeOK
    BY DEF IInv
  <1>. QED  BY <1>1, PaymentInvariance, PTL

(* Money moves only for an intent that has been signed: submit_intent      *)
(* trusts the row its caller has read, and is right to.                    *)
THEOREM PaidAreSigned == Spec => []SentWasSigned
  <1>1. IInv => SentWasSigned
    BY DEF IInv
  <1>. QED  BY <1>1, PaymentInvariance, PTL

(* The hash that mark_submitted records is that of a transfer for the      *)
(* intent, and an intent that is submitted or confirmed has one.           *)
THEOREM RecordedAreOurs == Spec => []RecordedIsOurs
  <1>1. IInv => RecordedIsOurs
    BY DEF IInv
  <1>. QED  BY <1>1, PaymentInvariance, PTL

(* The UPDATEs of sign, mark_submitted, mark_confirmed and mark_failed     *)
(* take no intent back and change no recorded hash, in any interleaving.   *)
THEOREM OnlyForward == Spec => ForwardOnly
  <1>1. IInv /\ [Next]_vars =>
            [\A i \in Intents : /\ Rank[intents[i].state] <= Rank[intents'[i].state]
                                /\ intents[i].tx # 0 => intents'[i].tx = intents[i].tx]_vars
    BY NothingTakenBack, RowsForward DEF Kept, RowsStep
  <1>. QED  BY <1>1, PaymentInvariance, PTL DEF Spec, ForwardOnly
=============================================================================
