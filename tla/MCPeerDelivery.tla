--------------------------- MODULE MCPeerDelivery ---------------------------
(***************************************************************************)
(* Constants for model checking PeerDelivery.                              *)
(*                                                                         *)
(* Time scale "long" keeps the order of the real thresholds:               *)
(*   30 s (1) < replay window 90 s (2) < 5 min (3) < 30 min (4)            *)
(*   < archive (5) < Cap (6).                                              *)
(* Time scale "short", for two messages, knows young and old only: every   *)
(* threshold is 0, a row is past it after one unit.                        *)
(***************************************************************************)
EXTENDS PeerDelivery

CONSTANTS m1, m2

OneMsg  == {m1}
TwoMsgs == {m1, m2}

(* Every message of one conversation.                                      *)
OneConversation == [m \in Msgs |-> "c"]

NoControl == {}
ControlM2 == {m2}

LongAckWait  == [n \in 0 .. AckMax - 1 |-> IF n = 0 THEN 1 ELSE IF n = 1 THEN 3 ELSE 4]
ShortAckWait == [n \in 0 .. AckMax - 1 |-> 0]

(* 1, 2, 4, ... seconds, cap 5 min: less than a unit at first, then one.   *)
LongBackoff(n)  == IF n = 0 THEN 0 ELSE IF n = 1 THEN 1 ELSE 3
ShortBackoff(n) == n
=============================================================================
