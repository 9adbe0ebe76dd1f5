------------------------ MODULE MCRPCExecutionLedger ------------------------
(* Small instances of the execution ledger. *)
EXTENDS RPCExecutionLedger, TLC

CONSTANTS k1, k2, s1, s2, a1, h1, h2, r1, r2, r3, r4, b1

MCSessionOf == [k \in Keys |-> IF k = k1 THEN s1 ELSE s2]
MCAuthOf == [k \in Keys |-> a1]
MCShardOf == [k \in Keys |-> IF k = k1 THEN h1 ELSE h2]

MCKeyOf == [r \in Requests |-> k1]
MCTwoKeys == [r \in Requests |-> IF r = r2 THEN k2 ELSE k1]
MCOneIdentity == [r \in Requests |-> b1]
MCTwoIdentities == [r \in Requests |-> IF r = r1 THEN NoBody ELSE b1]
MCSymmetry == Permutations(Requests)
=============================================================================
