-------------------------- MODULE MCUpdateDelivery --------------------------
(* One account, its devices and the workers of its outbox lane. *)
EXTENDS UpdateDelivery

CONSTANTS d1, d2, w1, w2
=============================================================================
