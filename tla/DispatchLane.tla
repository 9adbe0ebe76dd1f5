---------------------------- MODULE DispatchLane ----------------------------
(***************************************************************************)
(* The outbox lane of one account: the online pushes of its events, in pts *)
(* order, by workers that claim the lane's head for the time of a lease.   *)
(*                                                                         *)
(* The head row is kept by triggers.  A producer that inserts a row takes  *)
(* the lane's fence shared, makes its row the head if it sees none, and    *)
(* commits later.  A statement that deletes rows takes the fence           *)
(* exclusively, so it waits for the open producer, and promotes the next   *)
(* row of those it sees.  A lease is a number of attempts: the statements  *)
(* that end a claim name the attempts they were given.                     *)
(***************************************************************************)
EXTENDS Integers, FiniteSets, FiniteSetsExt

CONSTANTS
  Workers,
  MaxAttempts,         \* 5 in MarkDispatchFailed
  MaxClaims            \* bound: how often a row may be claimed

ASSUME LaneAssumption ==
  /\ IsFiniteSet(Workers)
  /\ MaxAttempts \in Nat \ {0}
  /\ MaxClaims \in Nat /\ MaxClaims >= MaxAttempts

VARIABLES
  rows,                \* the committed rows: [pts, status, attempts]
  head,                \* the pts of the lane's head row, 0: no head
  enqueued,            \* the row of the open producer transaction, at most one
  lease                \* [Workers -> the claim it works on, or NoLease]

lanevars == <<rows, head, enqueued, lease>>

NoLease == [pts |-> 0, attempts |-> 0, at |-> "idle"]

LaneInit ==
  /\ rows = {}
  /\ head = 0
  /\ enqueued = {}
  /\ lease = [w \in Workers |-> NoLease]

HeadRow == CHOOSE r \in rows : r.pts = head

Replace(r, s) == (rows \ {r}) \cup {s}

-----------------------------------------------------------------------------
(* The producer.  takesHead is what the insert trigger saw. *)

Enqueue(p) ==
  /\ enqueued' = {[pts |-> p, takesHead |-> head = 0]}
  /\ UNCHANGED <<rows, head, lease>>

CommitEnqueue ==
  /\ rows' = rows \cup {[pts |-> r.pts, status |-> "pending", attempts |-> 0] : r \in enqueued}
  /\ head' = IF \E r \in enqueued : r.takesHead
             THEN (CHOOSE r \in enqueued : TRUE).pts ELSE head
  /\ enqueued' = {}
  /\ UNCHANGED lease

(* Mutant: no fence, the deleting statement does not wait for a producer. *)
DeleteUnfenced(gone) ==
  LET left == rows \ gone IN
  /\ rows' = left
  /\ head' = IF \E r \in gone : r.pts = head
             THEN IF left = {} THEN 0 ELSE Min({r.pts : r \in left})
             ELSE head

(* A DELETE of dispatch_outbox under the exclusive fence, with its trigger. *)
DeleteRows(gone) ==
  LET left == rows \ gone IN
  /\ enqueued = {}
  /\ rows' = left
  /\ head' = IF \E r \in gone : r.pts = head
             THEN IF left = {} THEN 0 ELSE Min({r.pts : r \in left})
             ELSE head

-----------------------------------------------------------------------------
(* The workers *)

(* Mutant: only rows that nobody has claimed are claimed. *)
ClaimPending(w) ==
  /\ lease[w] = NoLease
  /\ head # 0
  /\ HeadRow.status = "pending"
  /\ HeadRow.attempts < MaxClaims
  /\ rows' = Replace(HeadRow, [pts |-> head, status |-> "dispatching",
                               attempts |-> HeadRow.attempts + 1])
  /\ lease' = [lease EXCEPT ![w] =
       [pts |-> head, attempts |-> HeadRow.attempts + 1, at |-> "claimed"]]
  /\ UNCHANGED <<head, enqueued>>

(* Mutant: a head given up as failed does not hold up the lane. *)
ClaimPastFailed(w) ==
  LET open == {r \in rows : r.status # "failed"}
      first == CHOOSE r \in open : \A s \in open : r.pts <= s.pts IN
  /\ lease[w] = NoLease
  /\ open # {}
  /\ first.attempts < MaxClaims
  /\ rows' = Replace(first, [pts |-> first.pts, status |-> "dispatching",
                             attempts |-> first.attempts + 1])
  /\ lease' = [lease EXCEPT ![w] =
       [pts |-> first.pts, attempts |-> first.attempts + 1, at |-> "claimed"]]
  /\ UNCHANGED <<head, enqueued>>

(* The head is due, or its lease has run out, whoever holds it. *)
Claim(w) ==
  /\ lease[w] = NoLease
  /\ head # 0
  /\ HeadRow.status \in {"pending", "dispatching"}
  /\ HeadRow.attempts < MaxClaims
  /\ rows' = Replace(HeadRow, [pts |-> head, status |-> "dispatching",
                               attempts |-> HeadRow.attempts + 1])
  /\ lease' = [lease EXCEPT ![w] =
       [pts |-> head, attempts |-> HeadRow.attempts + 1, at |-> "claimed"]]
  /\ UNCHANGED <<head, enqueued>>

(* The event is read by its cursor: retention may have deleted it. *)
LoadEvent(w, found) ==
  /\ lease[w].at = "claimed"
  /\ lease' = [lease EXCEPT ![w].at = IF found THEN "loaded" ELSE "failed"]
  /\ UNCHANGED <<rows, head, enqueued>>

(* The push was handed to the sessions, or the event needs none. *)
PushSucceeds(w) ==
  /\ lease[w].at = "loaded"
  /\ lease' = [lease EXCEPT ![w].at = "pushed"]
  /\ UNCHANGED <<rows, head, enqueued>>

PushFails(w) ==
  /\ lease[w].at = "loaded"
  /\ lease' = [lease EXCEPT ![w].at = "failed"]
  /\ UNCHANGED <<rows, head, enqueued>>

(* A retriable push error, an error of the marking statement, or a crash of
   the process: the row stays dispatching until its lease has run out.  The
   bound on claims leaves the last claim to be finished. *)
Abandon(w) ==
  /\ lease[w] # NoLease
  /\ lease[w].attempts < MaxClaims
  /\ lease' = [lease EXCEPT ![w] = NoLease]
  /\ UNCHANGED <<rows, head, enqueued>>

Claimed(w) ==
  {r \in rows : /\ r.pts = lease[w].pts
                /\ r.status = "dispatching"
                /\ r.attempts = lease[w].attempts}

(* No row deleted is ErrDispatchLeaseLost, which is logged. *)
MarkDelivered(w) ==
  /\ lease[w].at = "pushed"
  /\ DeleteRows(Claimed(w))
  /\ lease' = [lease EXCEPT ![w] = NoLease]
  /\ UNCHANGED enqueued

(* Mutant: the failure of a lost lease is recorded all the same. *)
MarkFailedAnyLease(w) ==
  /\ lease[w].at = "failed"
  /\ rows' = {IF r.pts = lease[w].pts /\ r.status = "dispatching"
              THEN [r EXCEPT !.status = IF r.attempts >= MaxAttempts
                                        THEN "failed" ELSE "pending"]
              ELSE r : r \in rows}
  /\ lease' = [lease EXCEPT ![w] = NoLease]
  /\ UNCHANGED <<head, enqueued>>

MarkFailed(w) ==
  /\ lease[w].at = "failed"
  /\ rows' = {IF r \in Claimed(w)
              THEN [r EXCEPT !.status = IF r.attempts >= MaxAttempts
                                        THEN "failed" ELSE "pending"]
              ELSE r : r \in rows}
  /\ lease' = [lease EXCEPT ![w] = NoLease]
  /\ UNCHANGED <<head, enqueued>>

(* The sweep deletes a failed head once it is old; its event stays. *)
DeleteFailed ==
  /\ head # 0
  /\ HeadRow.status = "failed"
  /\ DeleteRows({HeadRow})
  /\ UNCHANGED <<enqueued, lease>>
=============================================================================
