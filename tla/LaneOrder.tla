----------------------------- MODULE LaneOrder -----------------------------
(***************************************************************************)
(* What an outbox lane promises about order, without its head row, its     *)
(* triggers, leases and attempts: updates join at the end, only the first  *)
(* is handed to a worker, and they leave from the front.  An update is     *)
(* therefore never pushed while an earlier one still waits.                *)
(***************************************************************************)
EXTENDS Integers

VARIABLES
  queue,               \* the pts of the updates that wait
  held                 \* the pts that workers have in hand

Init == queue = {} /\ held = {}

(* A producer commits the row of p. *)
Join(p) ==
  /\ \A q \in queue \cup held : q < p
  /\ queue' = queue \cup {p}
  /\ UNCHANGED held

(* A worker claims the first update, maybe after another did. *)
Hand(p) ==
  /\ \A q \in queue : p <= q
  /\ held' = held \cup {p}
  /\ UNCHANGED queue

(* A worker ends or gives up its claim; an update that was delivered or given
   up, or a prefix that every device owns, leaves. *)
Leave ==
  /\ held' \subseteq held
  /\ queue' \subseteq queue
  /\ \A q \in queue', p \in queue \ queue' : p < q

Next ==
  \/ \E p \in queue' \ queue : Join(p)
  \/ \E p \in queue : Hand(p)
  \/ Leave

Spec == Init /\ [][Next]_<<queue, held>>
=============================================================================
