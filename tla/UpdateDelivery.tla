--------------------------- MODULE UpdateDelivery ---------------------------
(***************************************************************************)
(* How an account's updates reach its devices: the log that getDifference  *)
(* reads, and the outbox lane that pushes online.  One transaction appends *)
(* to both, and one prunes both; a push is read from the log by its pts.   *)
(***************************************************************************)
EXTENDS UpdateLog, DispatchLane

vars == <<logvars, devicevars, lanevars>>

Init == LogInit /\ DeviceInit /\ LaneInit

-----------------------------------------------------------------------------
(* appendInTx: the watermark, the event and, if the event is to be pushed,
   the outbox row. *)
Append(n, dispatch) ==
  /\ BeginAppend(n)
  /\ IF dispatch THEN Enqueue(watermark + n) ELSE UNCHANGED lanevars
  /\ UNCHANGED devicevars

Commit == CommitAppend /\ CommitEnqueue /\ UNCHANGED devicevars

(* The rows of the pruned events go first, claimed or not. *)
Prune(e) ==
  /\ PruneConfirmedPrefix(e)
  /\ DeleteRows({r \in rows : r.pts <= e.pts})
  /\ UNCHANGED <<enqueued, lease>>

Load(w) ==
  /\ LoadEvent(w, \E e \in Retained : e.pts = lease[w].pts)
  /\ UNCHANGED <<logvars, devicevars>>

Push(w, S) ==
  /\ PushSucceeds(w)
  /\ TakePush(S, CHOOSE e \in log : e.pts = lease[w].pts)

Handle(d) ==
  /\ \/ ObserveDifferenceRequest(d)
     \/ MeasureGap(d)
     \/ ReadCurrent(d)
     \/ Probe(d)
     \/ List(d)
  /\ UNCHANGED lanevars

Deliver(d) == WriteAnswer(d) /\ UNCHANGED lanevars

RunHook(d) == CommitDeliveredState(d) /\ UNCHANGED lanevars

Ask(d) == (GetState(d) \/ GetDifference(d)) /\ UNCHANGED lanevars

Take(d) == TakeAnswer(d) /\ UNCHANGED lanevars

Device(d) ==
  /\ \/ Bind(d)
     \/ LogOut(d)
     \/ ClearAuthKey(d)
     \/ LoseAnswer(d)
     \/ Restore(d)
  /\ UNCHANGED lanevars

Mark(w) == (MarkDelivered(w) \/ MarkFailed(w)) /\ UNCHANGED <<logvars, devicevars>>

ClaimHead(w) == Claim(w) /\ UNCHANGED <<logvars, devicevars>>

Fail(w) == (PushFails(w) \/ Abandon(w)) /\ UNCHANGED <<logvars, devicevars>>

Sweep == DeleteFailed /\ UNCHANGED <<logvars, devicevars>>

Next ==
  \/ \E n \in Counts, dispatch \in BOOLEAN : Append(n, dispatch)
  \/ Commit
  \/ \E e \in log : Prune(e)
  \/ \E d \in Devices : Ask(d) \/ Handle(d) \/ Deliver(d) \/ RunHook(d)
                        \/ Take(d) \/ Device(d)
  \/ \E w \in Workers : ClaimHead(w) \/ Load(w) \/ Mark(w) \/ Fail(w)
  \/ \E w \in Workers, S \in SUBSET Devices : Push(w, S)
  \/ Sweep

Spec == Init /\ [][Next]_vars

(* Transactions, handlers and workers run to their ends, the failed rows are
   swept, a logged-in device keeps asking, and not every answer is lost. *)
Fairness ==
  /\ WF_vars(Commit)
  /\ WF_vars(Sweep)
  /\ \A d \in Devices :
       /\ WF_vars(Ask(d)) /\ WF_vars(Handle(d))
       /\ SF_vars(Deliver(d)) /\ SF_vars(Take(d))
  /\ WF_vars(\E w \in Workers : ClaimHead(w))
  /\ \A w \in Workers :
       WF_vars(Load(w) \/ Mark(w) \/ Fail(w) \/ \E S \in SUBSET Devices : Push(w, S))

FairSpec == Spec /\ Fairness

-----------------------------------------------------------------------------
(* Properties *)

(* A device's cursor never passes an event that it was not given: neither a
   pushed event, nor an answer of getDifference, nor a checkpoint that skips
   the pruned prefix, may step over an event the device never had.  Retention
   trusts observed_pts for this, which must count what the device said it
   owns and not what was written to its socket. *)
NothingSkipped ==
  \A d \in Devices : PtsUpTo(cursor[d]) \subseteq received[d]

(* The lane's head is its first committed row whenever there is one, however
   producers, completions, sweeps and retention interleave: a row without a
   head would never be claimed. *)
LaneHead ==
  head = IF rows = {} THEN 0 ELSE Min({r.pts : r \in rows})

(* The row of the latest claim is nobody else's to end: until its worker
   marks it, or another claim or retention takes it, it is dispatching. *)
LeaseHolds ==
  \A w \in Workers, r \in rows :
    r.pts = lease[w].pts /\ r.attempts = lease[w].attempts => r.status = "dispatching"

(* The pts of the updates that wait in the lane, and of those that a worker
   has claimed and not yet marked or abandoned, its lease lost or not. *)
Waiting == {r.pts : r \in rows}
InHand == {lease[w].pts : w \in {v \in Workers : lease[v] # NoLease}}

Order == INSTANCE LaneOrder WITH queue <- Waiting, held <- InHand

(* The lane hands out its updates in pts order: a worker that was slow, lost
   its lease or crashed, a row given up as failed and retention let no update
   overtake an earlier one, and no late mark takes a later one away. *)
ImplementsOrder == Order!Spec

(* A device that stays logged in and keeps asking has every update again and
   again: no answer of getDifference, no error of the checkpoint, leaves it
   behind the account for good, whatever retention pruned meanwhile. *)
DevicesConverge ==
  \A d \in Devices : []<>(d \in Authorized => cursor[d] = watermark)

(* The lane is emptied again and again: a crashed worker, a deferred push or
   a row given up as failed does not block what is behind it for ever. *)
LaneDrains == []<>(rows = {})
=============================================================================
