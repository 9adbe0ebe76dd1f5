---------------------------- MODULE MCPhoneCalls ----------------------------
(* Private calls between two users. *)
EXTENDS PhoneCalls

CONSTANTS c1, c2, u1, u2, x1, x2
=============================================================================
