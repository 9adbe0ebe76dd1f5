------------------------------ MODULE RPCOnce ------------------------------
(***************************************************************************)
(* What the execution ledger promises about one request key, without its   *)
(* shards, budgets, waiters and clocks: at most one execution at a time,   *)
(* and no new one while the answer of an earlier one is remembered.        *)
(***************************************************************************)
CONSTANT Keys

VARIABLE status

TypeOK == status \in [Keys -> {"idle", "running", "answered"}]

Init == status = [k \in Keys |-> "idle"]

Become(k, from, to) ==
  /\ status[k] = from
  /\ status' = [status EXCEPT ![k] = to]

(* acquire installs an owner. *)
Start(k) == Become(k, "idle", "running")

(* Complete turns the owner's flight into a receipt. *)
Answer(k) == Become(k, "running", "answered")

(* Abort, or Complete after the client's ACK: the key is free again. *)
Drop(k) == Become(k, "running", "idle")

(* An error is answered for a request nobody owns. *)
Refuse(k) == Become(k, "idle", "answered")

(* Receipts go by ACK, by age, and by session. *)
Forget(S) ==
  /\ \A k \in S : status[k] = "answered"
  /\ status' = [k \in Keys |-> IF k \in S THEN "idle" ELSE status[k]]

Next ==
  \/ \E k \in Keys : Start(k) \/ Answer(k) \/ Drop(k) \/ Refuse(k)
  \/ \E S \in SUBSET Keys : Forget(S)

Spec == Init /\ [][Next]_status
=============================================================================
