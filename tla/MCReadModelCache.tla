-------------------------- MODULE MCReadModelCache --------------------------
(* The read-model cache with two keys. *)
EXTENDS ReadModelCache, TLC

CONSTANTS k1, k2, r1, r2, b1, b2, u1

(* Version 2 weighs as much as the cache holds. *)
MCWeight == <<1, 2, 3>>

MCSymmetry == Permutations({r1, r2}) \cup Permutations({b1, b2})
=============================================================================
