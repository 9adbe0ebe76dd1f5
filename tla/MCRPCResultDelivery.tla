------------------------ MODULE MCRPCResultDelivery ------------------------
(* One result, its alias and two replays. *)
EXTENDS RPCResultDelivery

CONSTANTS r1, r2
=============================================================================
