----------------------- MODULE MCPeerDeliveryLiveness -----------------------
(* The constants of MCPeerDelivery for the liveness specification.         *)
EXTENDS PeerDeliveryLiveness, MCPeerDelivery
=============================================================================
