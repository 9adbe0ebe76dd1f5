------------------------- MODULE MCRPCDeliveryHooks -------------------------
(* Small instances of the delivery hook executor. *)
EXTENDS RPCDeliveryHooks

CONSTANTS t1, t2, t3, w1, w2
=============================================================================
