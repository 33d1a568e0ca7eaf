------------------------ MODULE PeerDeliveryLiveness ------------------------
(***************************************************************************)
(* Liveness of peer delivery.  The specification of PeerDelivery with a    *)
(* moment after which the sender has no more faults (no daemon stops, its  *)
(* own UPDATEs succeed), and the fairness that the daemons' loops justify. *)
(***************************************************************************)
EXTENDS PeerDelivery

VARIABLE calm      \* no fault happens from now on

lvars == <<vars, calm>>

LiveInit == Init /\ calm = FALSE

CalmDown == ~calm /\ calm' = TRUE /\ UNCHANGED vars

LiveNext ==
    \/ (Submit \/ Drain \/ Inbound \/ Feedback \/ Tick) /\ UNCHANGED calm
    \/ Fault /\ ~calm /\ UNCHANGED calm
    \/ CalmDown

(* The loops of the daemons run: drain every 10 s, inbound every 1 s,      *)
(* app_ack every 60 s; time passes; faults end.  Nothing is assumed of the *)
(* user, of the peer's database or of the network.                         *)
LoopsRun ==
    /\ WF_lvars(DrainTick(FALSE) /\ UNCHANGED calm)
    /\ WF_lvars(DrainPost /\ UNCHANGED calm)
    /\ WF_lvars(DrainRecord /\ UNCHANGED calm)
    /\ WF_lvars((DrainInbox \/ DrainInboxFails) /\ UNCHANGED calm)
    /\ WF_lvars((StoreNext \/ StoreFails) /\ UNCHANGED calm)
    /\ WF_lvars((SendAck \/ AckLost) /\ UNCHANGED calm)
    /\ WF_lvars(ProcessAck /\ UNCHANGED calm)
    /\ WF_lvars(AppTimeout /\ UNCHANGED calm)
    /\ WF_lvars(Tick /\ UNCHANGED calm)
    /\ WF_lvars(CalmDown)

(* The peer has not left the table peers for good.                         *)
PeerListed == WF_lvars(DrainTick(TRUE) /\ UNCHANGED calm)

(* The network answers a retransmission that is tried again and again.     *)
RetryAnswered(m) ==
    /\ DrainPost
    /\ worker'.success
    /\ \E j \in worker'.job : j.msg = m /\ j.retry
    /\ UNCHANGED calm

NetworkHeals == \A m \in Msgs : SF_lvars(RetryAnswered(m))

FairSpec == LiveInit /\ [][LiveNext]_lvars /\ LoopsRun /\ PeerListed /\ NetworkHeals

-----------------------------------------------------------------------------
(* A row the worker keeps sending is acknowledged, marked or deleted in    *)
(* the end, when the network lets a retransmission through.                *)
Settles == \A m \in Msgs : (m \in rows) ~> (m \notin rows \/ Settled(q[m]))

(* The sender learns in the end whether the peer has read its message: no  *)
(* row waits for ever without an app_ack_status.                           *)
AppStatusComes == \A m \in Msgs : (m \in rows) ~> (m \notin rows \/ q[m].app # "none")

=============================================================================
