------------------------ MODULE UpdateDeliveryProofs ------------------------
(***************************************************************************)
(* That the outbox lane always has its first row as head, that a lease     *)
(* holds, and that no device's cursor passes an event it was not given,    *)
(* for any devices, workers, counts and limits.                            *)
(***************************************************************************)
EXTENDS UpdateDelivery, FiniteSetTheorems, WellFoundedInduction, TLAPS

(* Every leaf that names no prover: Zenon, then SMT, which is tried again as Z3
   when the translation ran out of time. *)
USE ZenonT(10), SMTT(30), Z3T(30)

-----------------------------------------------------------------------------
(* The log and the lane *)

(* What an append adds to the log. *)
Events == [pts : Nat, count : Nat \ {0}]

(* The append lock makes pts follow commits: events do not overlap, and the
   open append lies beyond the watermark. *)
LogOK ==
  /\ watermark \in Nat /\ floor \in Nat /\ floor <= watermark
  /\ log \subseteq Events /\ IsFiniteSet(log)
  /\ \A e \in log : e.count <= e.pts /\ e.pts <= watermark
  /\ \A e, f \in log : f.pts < e.pts => f.pts <= e.pts - e.count
  /\ \A e \in appending : e \in Events /\ e.pts = watermark + e.count
  /\ \A e, f \in appending : e = f

(* The rows of the outbox, and what a worker holds of a claimed one. *)
Statuses == {"pending", "dispatching", "failed"}
Rows == [pts : Nat, status : Statuses, attempts : Nat]

Stages == {"idle", "claimed", "loaded", "pushed", "failed"}
Leases == [pts : Nat, attempts : Nat, at : Stages]

(* A row stands for one pts that was appended. *)
RowsOK ==
  /\ rows \subseteq Rows
  /\ \A r \in rows : 0 < r.pts /\ r.pts <= watermark
  /\ \A r, s \in rows : r.pts = s.pts => r = s

(* LaneHead without its minimum. *)
HeadFirst ==
  /\ head \in Nat
  /\ rows = {} => head = 0
  /\ rows # {} => (\E r \in rows : r.pts = head) /\ \A r \in rows : head <= r.pts

(* What the insert trigger saw is still so: a statement that could change it
   waits for the fence. *)
EnqueuedOK ==
  /\ \A q \in enqueued : /\ \E e \in appending : q.pts = e.pts
                          /\ q.takesHead = (rows = {})
  /\ \A p, q \in enqueued : p = q

(* A row's attempts count its claims, so that no two workers have the same
   lease.  A loaded event is in the log, which only grows. *)
LeasesOK ==
  /\ lease \in [Workers -> Leases]
  /\ \A w \in Workers : lease[w].pts <= watermark
  /\ \A w \in Workers, r \in rows : r.pts = lease[w].pts => lease[w].attempts <= r.attempts
  /\ \A w, v \in Workers :
       w # v /\ lease[w].pts = lease[v].pts /\ lease[w].pts # 0
         => lease[w].attempts # lease[v].attempts
  /\ \A w \in Workers : lease[w].at = "loaded" => \E e \in log : e.pts = lease[w].pts

(* The inductive invariant of the log and the lane. *)
LaneInv ==
  /\ LogOK
  /\ RowsOK
  /\ HeadFirst
  /\ EnqueuedOK
  /\ LeasesOK
  /\ LeaseHolds

-----------------------------------------------------------------------------
(* The log *)

(* An append extends beyond the watermark. *)
LEMMA AppendLog ==
  ASSUME LogOK, NEW n \in Counts, BeginAppend(n)
  PROVE  LogOK'
  <1>1. n \in Nat \ {0}
    BY LogAssumption
  <1>2. \A e \in appending' : e \in Events /\ e.pts = watermark + e.count
    BY <1>1 DEF BeginAppend, Events, LogOK
  <1> QED BY <1>2 DEF BeginAppend, LogOK

(* Commits keep the events apart: nobody else can have moved the watermark. *)
LEMMA CommitLog ==
  ASSUME LogOK, CommitAppend
  PROVE  LogOK'
  <1>1. PICK e \in appending : /\ log' = log \cup {e} /\ watermark' = e.pts
                               /\ appending' = {} /\ floor' = floor
    BY DEF CommitAppend
  <1>2. e \in Events /\ e.pts = watermark + e.count
    BY DEF LogOK
  <1>3. IsFiniteSet(log')
    BY <1>1, FS_AddElement DEF LogOK
  <1>4. e.pts \in Nat /\ e.count \in Nat \ {0} /\ watermark \in Nat
    BY <1>2 DEF Events, LogOK
  <1>5. \A f \in log' : f.count <= f.pts /\ f.pts <= watermark'
    <2> SUFFICES ASSUME NEW f \in log'
                 PROVE  f.count <= f.pts /\ f.pts <= watermark'
      OBVIOUS
    <2>1. CASE f = e
      BY <2>1, <1>1, <1>2, <1>4
    <2>2. CASE f \in log
      <3>1. f.pts \in Nat /\ f.count \in Nat
        BY <2>2 DEF LogOK, Events
      <3> QED BY <2>2, <3>1, <1>1, <1>2, <1>4 DEF LogOK
    <2> QED BY <2>1, <2>2, <1>1
  <1>6. ASSUME NEW f \in log', NEW g \in log', g.pts < f.pts
        PROVE  g.pts <= f.pts - f.count
    <2>1. CASE f \in log /\ g \in log
      BY <2>1, <1>6 DEF LogOK
    <2>2. CASE f = e /\ g \in log
      <3>1. g.pts \in Nat /\ g.pts <= watermark
        BY <2>2 DEF LogOK, Events
      <3> QED BY <2>2, <3>1, <1>2, <1>4
    <2>3. CASE f \in log /\ g = e
      <3>1. f.pts \in Nat /\ f.pts <= watermark
        BY <2>3 DEF LogOK, Events
      <3> QED BY <2>3, <3>1, <1>2, <1>4, <1>6
    <2>4. CASE f = e /\ g = e
      BY <2>4, <1>4, <1>6
    <2> QED BY <2>1, <2>2, <2>3, <2>4, <1>1
  <1>7. watermark' \in Nat /\ floor' \in Nat /\ floor' <= watermark'
    BY <1>1, <1>2, <1>4 DEF LogOK
  <1>8. log' \subseteq Events
    BY <1>1, <1>2 DEF LogOK
  <1> QED BY <1>1, <1>3, <1>5, <1>6, <1>7, <1>8 DEF LogOK

(* Pruning moves the floor up, within the log. *)
LEMMA PruneLog ==
  ASSUME LogOK, NEW e \in log, PruneConfirmedPrefix(e)
  PROVE  LogOK' /\ floor < e.pts /\ floor' = e.pts
  <1>1. floor < e.pts
    BY DEF PruneConfirmedPrefix, Contiguous, After, LogOK, Events
  <1> QED BY <1>1 DEF PruneConfirmedPrefix, LogOK, Events

-----------------------------------------------------------------------------
(* The lane's head *)

(* A set of naturals has its minimum. *)
LEMMA MinNat ==
  ASSUME NEW S \in SUBSET Nat, S # {}
  PROVE  Min(S) \in S /\ \A y \in S : Min(S) <= y
  <1> DEFINE R == OpToRel(<, Nat)
  <1>1. IsWellFoundedOn(R, Nat)
    BY NatLessThanWellFounded, Zenon
  <1>2. \A x, y \in Nat : x < y => <<x, y>> \in R
    BY DEF OpToRel
  <1> HIDE DEF R
  <1>3. PICK x \in S : \A y \in S : ~ (<<y, x>> \in R)
    <2>1. S \subseteq Nat
      OBVIOUS
    <2> QED BY <1>1, <2>1, WFMin, Zenon
  <1>4. ASSUME NEW y \in S
        PROVE  x <= y
    <2>1. x \in Nat /\ y \in Nat
      OBVIOUS
    <2>2. ~ (y < x)
      BY <1>2, <1>3, <2>1, Zenon
    <2> QED BY <2>1, <2>2
  <1> QED BY <1>4, Zenon DEF Min

(* HeadFirst says what LaneHead says. *)
LEMMA HeadIsMin ==
  ASSUME RowsOK, HeadFirst
  PROVE  LaneHead
  <1> DEFINE P == {r.pts : r \in rows}
  <1>1. CASE rows = {}
    BY <1>1 DEF LaneHead, HeadFirst
  <1>2. CASE rows # {}
    <2>1. P \in SUBSET Nat /\ P # {}
      BY <1>2 DEF RowsOK, Rows
    <2>2. head \in P /\ \A p \in P : head <= p
      BY <1>2 DEF HeadFirst
    <2> HIDE DEF P
    <2>3. Min(P) \in P /\ \A p \in P : Min(P) <= p
      BY <2>1, MinNat, Zenon
    <2>4. \A m \in P : (\A p \in P : m <= p) => head = m
      BY <2>1, <2>2
    <2>5. head = Min(P)
      BY <2>3, <2>4, Zenon
    <2> QED BY <1>2, <2>5 DEF LaneHead, P
  <1> QED BY <1>1, <1>2

(* The head row is one of the rows. *)
LEMMA HeadRowIn ==
  ASSUME RowsOK, HeadFirst, head # 0
  PROVE  /\ HeadRow \in rows /\ HeadRow.pts = head
         /\ HeadRow.attempts \in Nat /\ HeadRow.status \in Statuses
  <1>1. \E r \in rows : r.pts = head
    BY DEF HeadFirst
  <1>2. HeadRow \in rows /\ HeadRow.pts = head
    BY <1>1 DEF HeadRow
  <1> QED BY <1>2 DEF RowsOK, Rows

(* A deletion leaves a head, and touches no lease. *)
LEMMA DeleteKeeps ==
  ASSUME RowsOK, HeadFirst, NEW gone \in SUBSET rows, DeleteRows(gone), watermark' = watermark
  PROVE  RowsOK' /\ HeadFirst' /\ rows' \subseteq rows /\ enqueued = {}
  <1> DEFINE left == rows \ gone
             P == {r.pts : r \in left}
  <1>1. rows' = left /\ left \subseteq rows /\ enqueued = {}
    BY DEF DeleteRows
  <1>2. RowsOK'
    BY <1>1 DEF RowsOK
  <1>3. CASE left = {}
    <2>1. head' = 0
      BY <1>3 DEF DeleteRows, HeadFirst
    <2> QED BY <1>1, <1>2, <1>3, <2>1 DEF HeadFirst
  <1>4. CASE left # {} /\ \E r \in gone : r.pts = head
    <2>1. P \in SUBSET Nat /\ P # {}
      BY <1>1, <1>4 DEF RowsOK, Rows
    <2>2. head' = Min(P)
      BY <1>4 DEF DeleteRows
    <2> HIDE DEF P
    <2>3. head' \in P /\ \A p \in P : head' <= p
      BY <2>1, <2>2, MinNat
    <2>4. HeadFirst'
      BY <1>1, <1>4, <2>1, <2>3 DEF HeadFirst, P
    <2> QED BY <1>1, <1>2, <2>4
  <1>5. CASE left # {} /\ ~ \E r \in gone : r.pts = head
    <2>1. head' = head
      BY <1>5 DEF DeleteRows
    <2>2. PICK r \in rows : r.pts = head
      BY <1>5 DEF HeadFirst
    <2>3. r \in left
      BY <1>5, <2>2
    <2>4. HeadFirst'
      BY <1>1, <1>5, <2>1, <2>2, <2>3 DEF HeadFirst
    <2> QED BY <1>1, <1>2, <2>4
  <1> QED BY <1>3, <1>4, <1>5

-----------------------------------------------------------------------------
(* The leases *)

(* Rows that went, or that keep their pts and do not lose attempts, leave the
   other facts about leases alone. *)
LEMMA LeasesKept ==
  ASSUME LeasesOK, UNCHANGED <<lease, watermark, log>>,
         \A r \in rows' : \E s \in rows : s.pts = r.pts /\ s.attempts <= r.attempts,
         RowsOK, RowsOK'
  PROVE  LeasesOK'
  <1>1. ASSUME NEW w \in Workers, NEW r \in rows', r.pts = lease[w].pts
        PROVE  lease[w].attempts <= r.attempts
    <2>1. PICK s \in rows : s.pts = r.pts /\ s.attempts <= r.attempts
      OBVIOUS
    <2>2. lease[w].attempts <= s.attempts
      BY <1>1, <2>1 DEF LeasesOK
    <2>3. lease[w].attempts \in Nat /\ s.attempts \in Nat /\ r.attempts \in Nat
      BY DEF LeasesOK, Leases, RowsOK, Rows
    <2> QED BY <2>1, <2>2, <2>3
  <1> QED BY <1>1 DEF LeasesOK

(* A worker that leaves its claim, or moves on with it. *)
LEMMA LeaseMoves ==
  ASSUME LogOK, RowsOK, LeasesOK, LeaseHolds, NEW w \in Workers, NEW l \in Leases,
         l = NoLease \/ (l.pts = lease[w].pts /\ l.attempts = lease[w].attempts),
         l.at = "loaded" => \E e \in log : e.pts = l.pts,
         lease' = [lease EXCEPT ![w] = l], UNCHANGED <<rows, watermark, log>>
  PROVE  LeasesOK' /\ LeaseHolds'
  <1>1. lease' \in [Workers -> Leases] /\ lease'[w] = l
    BY DEF LeasesOK
  <1>2. \A v \in Workers : v # w => lease'[v] = lease[v]
    BY DEF LeasesOK
  <1>3. \A v \in Workers : \/ lease'[v] = NoLease
                           \/ /\ lease'[v].pts = lease[v].pts
                              /\ lease'[v].attempts = lease[v].attempts
    BY <1>1, <1>2
  <1>4. \A r \in rows : r.pts \in Nat /\ r.pts # 0
    BY DEF RowsOK, Rows
  <1>5. watermark \in Nat /\ NoLease.pts = 0
    BY DEF LogOK, NoLease
  <1>6. \A v \in Workers : lease'[v].pts <= watermark
    BY <1>3, <1>5 DEF LeasesOK
  <1>7. \A v \in Workers, r \in rows : r.pts = lease'[v].pts =>
          lease[v].pts = r.pts /\ lease'[v].attempts = lease[v].attempts
    BY <1>3, <1>4, <1>5
  <1>8. \A u, v \in Workers :
          u # v /\ lease'[u].pts = lease'[v].pts /\ lease'[u].pts # 0
            => lease'[u].attempts # lease'[v].attempts
    BY <1>3, <1>5 DEF LeasesOK
  <1>9. \A v \in Workers : lease'[v].at = "loaded" => \E e \in log : e.pts = lease'[v].pts
    BY <1>1, <1>2 DEF LeasesOK
  <1>10. LeasesOK'
    BY <1>1, <1>6, <1>7, <1>8, <1>9 DEF LeasesOK
  <1>11. LeaseHolds'
    BY <1>7 DEF LeaseHolds
  <1> QED BY <1>10, <1>11

(* Claiming the head. *)
LEMMA ClaimKeeps ==
  ASSUME LaneInv, NEW w \in Workers, ClaimHead(w)
  PROVE  LaneInv'
  <1> DEFINE h == HeadRow
             g == [pts |-> head, status |-> "dispatching", attempts |-> h.attempts + 1]
             l == [pts |-> head, attempts |-> h.attempts + 1, at |-> "claimed"]
  <1>1. /\ h \in rows /\ h.pts = head /\ h.attempts \in Nat /\ head \in Nat /\ head # 0
        /\ head <= watermark
    BY HeadRowIn DEF LaneInv, ClaimHead, Claim, HeadFirst, RowsOK
  <1>2. /\ rows' = (rows \ {h}) \cup {g} /\ lease' = [lease EXCEPT ![w] = l]
        /\ UNCHANGED <<head, enqueued, logvars>>
    BY DEF ClaimHead, Claim, Replace
  <1>3. /\ g \in Rows /\ g.pts = head /\ g.attempts = h.attempts + 1
        /\ g.status = "dispatching"
        /\ l \in Leases /\ l.pts = head /\ l.attempts = h.attempts + 1 /\ l.at = "claimed"
    BY <1>1 DEF Rows, Statuses, Leases, Stages
  <1> HIDE DEF h, g, l
  <1>4. LogOK' /\ watermark' = watermark /\ log' = log /\ appending' = appending
    BY <1>2 DEF LaneInv, LogOK, logvars
  <1>5. \A r \in rows' : r = g \/ (r \in rows /\ r.pts # head)
    BY <1>1, <1>2 DEF LaneInv, RowsOK
  <1>6. RowsOK'
    <2>1. rows' \subseteq Rows
      BY <1>2, <1>3 DEF LaneInv, RowsOK
    <2>2. \A r \in rows' : 0 < r.pts /\ r.pts <= watermark'
      BY <1>1, <1>3, <1>4, <1>5 DEF LaneInv, RowsOK
    <2>3. \A r, s \in rows' : r.pts = s.pts => r = s
      BY <1>3, <1>5 DEF LaneInv, RowsOK
    <2> QED BY <2>1, <2>2, <2>3 DEF RowsOK
  <1>7. HeadFirst'
    BY <1>1, <1>2, <1>3, <1>5 DEF LaneInv, HeadFirst
  <1>8. EnqueuedOK'
    BY <1>1, <1>2, <1>4 DEF LaneInv, EnqueuedOK
  <1>9. \A v \in Workers : lease[v].pts = head => lease[v].attempts <= h.attempts
    BY <1>1 DEF LaneInv, LeasesOK
  <1>10. /\ lease' \in [Workers -> Leases] /\ lease'[w] = l
         /\ \A v \in Workers : v # w => lease'[v] = lease[v]
         /\ \A v \in Workers : lease[v].attempts \in Nat /\ lease[v].pts \in Nat
    BY <1>2, <1>3 DEF LaneInv, LeasesOK, Leases
  <1>11. LeasesOK'
    <2>1. \A v \in Workers : lease'[v].pts <= watermark'
      BY <1>1, <1>3, <1>4, <1>10 DEF LaneInv, LeasesOK
    <2>2. ASSUME NEW v \in Workers, NEW r \in rows', r.pts = lease'[v].pts
          PROVE  lease'[v].attempts <= r.attempts
      <3>1. CASE r = g
        BY <1>1, <1>3, <1>9, <1>10, <2>2, <3>1
      <3>2. CASE r \in rows /\ r.pts # head
        BY <1>3, <1>10, <2>2, <3>2 DEF LaneInv, LeasesOK
      <3> QED BY <1>5, <3>1, <3>2
    <2>3. \A u, v \in Workers :
            u # v /\ lease'[u].pts = lease'[v].pts /\ lease'[u].pts # 0
              => lease'[u].attempts # lease'[v].attempts
      <3>1. \A v \in Workers : lease[v].pts = head => lease[v].attempts # h.attempts + 1
        BY <1>1, <1>9, <1>10
      <3> QED BY <1>3, <1>10, <3>1 DEF LaneInv, LeasesOK
    <2>4. \A v \in Workers : lease'[v].at = "loaded" => \E e \in log' : e.pts = lease'[v].pts
      BY <1>3, <1>4, <1>10 DEF LaneInv, LeasesOK
    <2> QED BY <1>10, <2>1, <2>2, <2>3, <2>4 DEF LeasesOK
  <1>12. LeaseHolds'
    BY <1>3, <1>5, <1>10 DEF LaneInv, LeaseHolds
  <1> QED BY <1>4, <1>6, <1>7, <1>8, <1>11, <1>12 DEF LaneInv

(* A worker's step that touches nothing but its lease. *)
LEMMA LeaseStepKeeps ==
  ASSUME LaneInv, NEW w \in Workers, NEW l \in Leases,
         l = NoLease \/ (l.pts = lease[w].pts /\ l.attempts = lease[w].attempts),
         l.at = "loaded" => \E e \in log : e.pts = l.pts,
         lease' = [lease EXCEPT ![w] = l], UNCHANGED <<rows, head, enqueued, logvars>>
  PROVE  LaneInv'
  <1>1. UNCHANGED <<watermark, log, floor, appending>>
    BY DEF logvars
  <1>2. LogOK' /\ RowsOK' /\ HeadFirst' /\ EnqueuedOK'
    BY <1>1 DEF LaneInv, LogOK, RowsOK, HeadFirst, EnqueuedOK
  <1>3. LeasesOK' /\ LeaseHolds'
    BY <1>1, LeaseMoves, Zenon DEF LaneInv
  <1> QED BY <1>2, <1>3 DEF LaneInv

(* A worker at another stage of its claim. *)
LEMMA StageOf ==
  ASSUME LaneInv, NEW w \in Workers, NEW a \in Stages,
         lease' = [lease EXCEPT ![w].at = a]
  PROVE  \E l \in Leases : /\ l.pts = lease[w].pts /\ l.attempts = lease[w].attempts
                           /\ l.at = a /\ lease' = [lease EXCEPT ![w] = l]
  <1> DEFINE l == [pts |-> lease[w].pts, attempts |-> lease[w].attempts, at |-> a]
  <1>1. lease[w] \in Leases
    BY DEF LaneInv, LeasesOK
  <1>2. l \in Leases
    BY <1>1 DEF Leases
  <1>3. [lease[w] EXCEPT !.at = a] = l
    BY <1>1 DEF Leases
  <1>4. lease' = [lease EXCEPT ![w] = l]
    BY <1>3, Zenon
  <1> QED BY <1>2, <1>4, Zenon

(* Reading the event, pushing it, failing to, giving up. *)
LEMMA WorkKeeps ==
  ASSUME LaneInv, NEW w \in Workers,
         Load(w) \/ (PushSucceeds(w) /\ UNCHANGED logvars) \/ Fail(w)
  PROVE  LaneInv'
  <1>1. CASE Load(w)
    <2> DEFINE found == \E e \in Retained : e.pts = lease[w].pts
               a == IF found THEN "loaded" ELSE "failed"
    <2>1. /\ lease' = [lease EXCEPT ![w].at = a]
          /\ UNCHANGED <<rows, head, enqueued, logvars>>
      BY <1>1 DEF Load, LoadEvent
    <2>2. a \in Stages /\ (a = "loaded" => \E e \in log : e.pts = lease[w].pts)
      BY DEF Stages, Retained
    <2> HIDE DEF a
    <2>3. PICK l \in Leases : /\ l.pts = lease[w].pts /\ l.attempts = lease[w].attempts
                              /\ l.at = a /\ lease' = [lease EXCEPT ![w] = l]
      BY <2>1, <2>2, StageOf, Zenon
    <2>4. l.at = "loaded" => \E e \in log : e.pts = l.pts
      BY <2>2, <2>3
    <2> QED BY <2>1, <2>3, <2>4, LeaseStepKeeps, Zenon
  <1>2. ASSUME NEW a \in {"pushed", "failed"}, lease' = [lease EXCEPT ![w].at = a],
               UNCHANGED <<rows, head, enqueued, logvars>>
        PROVE  LaneInv'
    <2>1. a \in Stages /\ a # "loaded"
      BY DEF Stages
    <2>2. PICK l \in Leases : /\ l.pts = lease[w].pts /\ l.attempts = lease[w].attempts
                              /\ l.at = a /\ lease' = [lease EXCEPT ![w] = l]
      BY <1>2, <2>1, StageOf, Zenon
    <2> QED BY <1>2, <2>1, <2>2, LeaseStepKeeps, Zenon
  <1>3. CASE PushSucceeds(w) /\ UNCHANGED logvars
    BY <1>2, <1>3 DEF PushSucceeds
  <1>4. CASE Fail(w) /\ PushFails(w)
    BY <1>2, <1>4 DEF Fail, PushFails
  <1>5. CASE Fail(w) /\ Abandon(w)
    <2>1. NoLease \in Leases /\ NoLease.at = "idle"
      BY DEF NoLease, Leases, Stages
    <2>2. lease' = [lease EXCEPT ![w] = NoLease] /\ UNCHANGED <<rows, head, enqueued, logvars>>
      BY <1>5 DEF Fail, Abandon
    <2> QED BY <2>1, <2>2, LeaseStepKeeps, Zenon
  <1> QED BY <1>1, <1>3, <1>4, <1>5 DEF Fail

(* A deletion under the fence. *)
LEMMA DeletionKeeps ==
  ASSUME LaneInv, NEW gone \in SUBSET rows, DeleteRows(gone),
         UNCHANGED <<enqueued, lease, watermark, log>>, LogOK'
  PROVE  LaneInv'
  <1>1. RowsOK' /\ HeadFirst' /\ rows' \subseteq rows /\ enqueued' = {}
    BY DeleteKeeps DEF LaneInv
  <1>2. \A r \in rows' : r.attempts \in Nat /\ r \in rows
    BY <1>1 DEF RowsOK, Rows
  <1>3. \A r \in rows' : \E s \in rows : s.pts = r.pts /\ s.attempts <= r.attempts
    BY <1>2
  <1>4. LeasesOK'
    BY <1>1, <1>3, LeasesKept DEF LaneInv
  <1>5. EnqueuedOK' /\ LeaseHolds'
    BY <1>1 DEF LaneInv, EnqueuedOK, LeaseHolds
  <1> QED BY <1>1, <1>4, <1>5 DEF LaneInv

(* Retention and the sweep of failed rows. *)
LEMMA CleanKeeps ==
  ASSUME LaneInv, (\E e \in log : Prune(e)) \/ Sweep
  PROVE  LaneInv'
  <1>1. ASSUME NEW e \in log, Prune(e)
        PROVE  LaneInv'
    <2>1. LogOK' /\ UNCHANGED <<watermark, log>>
      BY <1>1, PruneLog DEF Prune, LaneInv, PruneConfirmedPrefix
    <2> DEFINE gone == {r \in rows : r.pts <= e.pts}
    <2>2. gone \in SUBSET rows /\ DeleteRows(gone) /\ UNCHANGED <<enqueued, lease>>
      BY <1>1 DEF Prune
    <2> HIDE DEF gone
    <2> QED BY <2>1, <2>2, DeletionKeeps
  <1>2. CASE Sweep
    <2>1. LogOK' /\ UNCHANGED <<watermark, log>>
      BY <1>2 DEF Sweep, LaneInv, LogOK, logvars
    <2>2. {HeadRow} \in SUBSET rows
      BY <1>2, HeadRowIn DEF Sweep, DeleteFailed, LaneInv
    <2>3. DeleteRows({HeadRow}) /\ UNCHANGED <<enqueued, lease>>
      BY <1>2 DEF Sweep, DeleteFailed
    <2> QED BY <2>1, <2>2, <2>3, DeletionKeeps
  <1> QED BY <1>1, <1>2

(* A worker that is done, with the rows of its claim settled: no other worker
   has the same lease. *)
LEMMA EndLease ==
  ASSUME LaneInv, LogOK', RowsOK', NEW w \in Workers,
         \A r \in rows' : \E s \in rows :
           s.pts = r.pts /\ s.attempts = r.attempts /\ (s = r \/ s \in Claimed(w)),
         lease' = [lease EXCEPT ![w] = NoLease], UNCHANGED <<watermark, log>>
  PROVE  LeasesOK' /\ LeaseHolds'
  <1>1. /\ NoLease \in Leases /\ NoLease.pts = 0 /\ NoLease.at = "idle"
        /\ NoLease.attempts = 0
    BY DEF NoLease, Leases, Stages
  <1>2. lease' \in [Workers -> Leases] /\ lease'[w] = NoLease
    BY <1>1 DEF LaneInv, LeasesOK
  <1>3. \A v \in Workers : v # w => lease'[v] = lease[v]
    BY DEF LaneInv, LeasesOK
  <1>4. watermark \in Nat /\ \A r \in rows' : r.pts # 0
    BY DEF LaneInv, LogOK, RowsOK, Rows
  <1>5. ASSUME NEW v \in Workers, NEW r \in rows', r.pts = lease'[v].pts
        PROVE  /\ v # w /\ lease[v].attempts <= r.attempts
               /\ r.attempts = lease'[v].attempts => r.status = "dispatching"
    <2>1. v # w /\ lease'[v] = lease[v] /\ r.pts = lease[v].pts /\ r.pts # 0
      BY <1>1, <1>2, <1>3, <1>4, <1>5
    <2>2. PICK s \in rows :
            s.pts = r.pts /\ s.attempts = r.attempts /\ (s = r \/ s \in Claimed(w))
      OBVIOUS
    <2>3. lease[v].attempts <= r.attempts
      BY <2>1, <2>2 DEF LaneInv, LeasesOK
    <2>4. r.attempts = lease[v].attempts => s \notin Claimed(w)
      BY <2>1, <2>2 DEF Claimed, LaneInv, LeasesOK
    <2>5. r.attempts = lease[v].attempts => s = r /\ s.status = "dispatching"
      BY <2>1, <2>2, <2>4 DEF LaneInv, LeaseHolds
    <2> QED BY <2>1, <2>3, <2>5
  <1>6. LeasesOK'
    <2>1. \A v \in Workers : lease'[v].pts <= watermark'
      BY <1>1, <1>2, <1>3, <1>4 DEF LaneInv, LeasesOK
    <2>2. \A v \in Workers, r \in rows' :
            r.pts = lease'[v].pts => lease'[v].attempts <= r.attempts
      BY <1>3, <1>5
    <2>3. \A u, v \in Workers :
            u # v /\ lease'[u].pts = lease'[v].pts /\ lease'[u].pts # 0
              => lease'[u].attempts # lease'[v].attempts
      BY <1>1, <1>2, <1>3 DEF LaneInv, LeasesOK
    <2>4. \A v \in Workers : lease'[v].at = "loaded" => \E e \in log' : e.pts = lease'[v].pts
      BY <1>1, <1>2, <1>3 DEF LaneInv, LeasesOK
    <2> QED BY <1>2, <2>1, <2>2, <2>3, <2>4 DEF LeasesOK
  <1>7. LeaseHolds'
    BY <1>5 DEF LeaseHolds
  <1> QED BY <1>6, <1>7

(* The statements that end a claim. *)
LEMMA MarkKeeps ==
  ASSUME LaneInv, NEW w \in Workers, Mark(w)
  PROVE  LaneInv'
  <1>1. LogOK' /\ UNCHANGED <<watermark, log, appending>>
    BY DEF Mark, LaneInv, LogOK, logvars
  <1>2. lease' = [lease EXCEPT ![w] = NoLease] /\ enqueued' = enqueued
    BY DEF Mark, MarkDelivered, MarkFailed
  <1>3. Claimed(w) \in SUBSET rows
    BY DEF Claimed
  <1>4. CASE MarkDelivered(w)
    <2>1. RowsOK' /\ HeadFirst' /\ rows' \subseteq rows /\ enqueued = {}
      BY <1>1, <1>3, <1>4, DeleteKeeps DEF MarkDelivered, LaneInv
    <2>2. LeasesOK' /\ LeaseHolds'
      BY <1>1, <1>2, <2>1, EndLease, Zenon
    <2>3. EnqueuedOK'
      BY <1>2, <2>1 DEF EnqueuedOK
    <2> QED BY <1>1, <2>1, <2>2, <2>3 DEF LaneInv
  <1>5. CASE MarkFailed(w)
    <2> DEFINE Set(r) == [pts |-> r.pts, attempts |-> r.attempts,
                          status |-> IF r.attempts >= MaxAttempts THEN "failed" ELSE "pending"]
               M(r) == IF r \in Claimed(w) THEN Set(r) ELSE r
    <2>1. ASSUME NEW r \in rows
          PROVE  [r EXCEPT !.status = IF r.attempts >= MaxAttempts THEN "failed" ELSE "pending"]
                   = Set(r)
      BY DEF LaneInv, RowsOK, Rows
    <2>2. rows' = {M(r) : r \in rows} /\ head' = head
      <3>1. rows' = {IF r \in Claimed(w)
                     THEN [r EXCEPT !.status = IF r.attempts >= MaxAttempts
                                               THEN "failed" ELSE "pending"]
                     ELSE r : r \in rows} /\ head' = head
        BY <1>5 DEF MarkFailed
      <3> HIDE DEF Set
      <3> QED BY <2>1, <3>1
    <2>3. ASSUME NEW r \in rows
          PROVE  /\ M(r) \in Rows /\ M(r).pts = r.pts /\ M(r).attempts = r.attempts
                 /\ r = M(r) \/ r \in Claimed(w)
      <3>1. r \in Rows
        BY DEF LaneInv, RowsOK
      <3>2. Set(r) \in Rows
        BY <3>1 DEF Rows, Statuses
      <3> QED BY <3>1, <3>2
    <2> HIDE DEF M
    <2>4. RowsOK'
      BY <1>1, <2>2, <2>3 DEF LaneInv, RowsOK
    <2>5. HeadFirst'
      BY <2>2, <2>3 DEF LaneInv, HeadFirst
    <2>6. (rows' = {}) = (rows = {})
      BY <2>2
    <2>7. EnqueuedOK'
      BY <1>1, <1>2, <2>6 DEF LaneInv, EnqueuedOK
    <2>8. \A r \in rows' : \E s \in rows :
            s.pts = r.pts /\ s.attempts = r.attempts /\ (s = r \/ s \in Claimed(w))
      BY <2>2, <2>3
    <2>9. LeasesOK' /\ LeaseHolds'
      BY <1>1, <1>2, <2>4, <2>8, EndLease, Zenon
    <2> QED BY <1>1, <2>4, <2>5, <2>7, <2>9 DEF LaneInv
  <1> QED BY <1>4, <1>5 DEF Mark

-----------------------------------------------------------------------------
(* The producer *)

(* A row is enqueued with the event of the open append. *)
LEMMA AppendKeeps ==
  ASSUME LaneInv, NEW n \in Counts, NEW dispatch \in BOOLEAN, Append(n, dispatch)
  PROVE  LaneInv'
  <1>1. LogOK' /\ UNCHANGED <<watermark, log>>
    BY AppendLog DEF Append, BeginAppend, LaneInv
  <1>2. appending = {} /\ enqueued = {}
    BY DEF Append, BeginAppend, LaneInv, EnqueuedOK
  <1>3. UNCHANGED <<rows, head, lease>>
    BY DEF Append, Enqueue, lanevars
  <1>4. (head = 0) = (rows = {})
    BY DEF LaneInv, HeadFirst, RowsOK, Rows
  <1>5. EnqueuedOK'
    <2>1. CASE dispatch
      <3> DEFINE q == [pts |-> watermark + n, takesHead |-> head = 0]
                 e == [pts |-> watermark + n, count |-> n]
      <3>1. enqueued' = {q} /\ appending' = {e}
        BY <2>1 DEF Append, BeginAppend, Enqueue
      <3>2. q.pts = e.pts /\ q.takesHead = (rows = {})
        BY <1>4
      <3> HIDE DEF q, e
      <3> QED BY <1>3, <3>1, <3>2 DEF EnqueuedOK
    <2>2. CASE ~ dispatch
      BY <1>2, <2>2 DEF Append, lanevars, EnqueuedOK
    <2> QED BY <2>1, <2>2
  <1>6. RowsOK' /\ HeadFirst' /\ LeasesOK' /\ LeaseHolds'
    BY <1>1, <1>3 DEF LaneInv, RowsOK, HeadFirst, LeasesOK, LeaseHolds
  <1> QED BY <1>1, <1>5, <1>6 DEF LaneInv

(* The new row is behind every row and beyond every lease. *)
LEMMA CommitKeeps ==
  ASSUME LaneInv, Commit
  PROVE  LaneInv'
  <1>1. LogOK' /\ enqueued' = {} /\ lease' = lease
    BY CommitLog DEF Commit, CommitEnqueue, LaneInv
  <1>2. PICK e \in appending : log' = log \cup {e} /\ watermark' = e.pts
    BY DEF Commit, CommitAppend
  <1>3. /\ e \in Events /\ e.pts = watermark + e.count /\ e.pts \in Nat /\ watermark < e.pts
        /\ watermark \in Nat
    BY <1>2 DEF LaneInv, LogOK, Events
  <1>4. EnqueuedOK'
    BY <1>1 DEF EnqueuedOK
  <1>5. CASE enqueued = {}
    <2>1. rows' = rows /\ head' = head
      BY <1>5 DEF Commit, CommitEnqueue
    <2>2. RowsOK' /\ HeadFirst'
      BY <1>2, <1>3, <2>1 DEF LaneInv, RowsOK, Rows, HeadFirst
    <2>3. LeasesOK'
      BY <1>1, <1>2, <1>3, <2>1 DEF LaneInv, LeasesOK, Leases
    <2>4. LeaseHolds'
      BY <1>1, <2>1 DEF LaneInv, LeaseHolds
    <2> QED BY <1>1, <1>4, <2>2, <2>3, <2>4 DEF LaneInv
  <1>6. CASE enqueued # {}
    <2>1. PICK q \in enqueued : TRUE
      BY <1>6
    <2>2. enqueued = {q} /\ q.takesHead = (rows = {}) /\ (CHOOSE r \in enqueued : TRUE) = q
      BY <2>1 DEF LaneInv, EnqueuedOK
    <2>3. q.pts \in Nat /\ watermark < q.pts /\ q.pts <= watermark'
      <3>1. PICK f \in appending : q.pts = f.pts
        BY <2>1 DEF LaneInv, EnqueuedOK
      <3>2. f = e
        BY DEF LaneInv, LogOK
      <3> QED BY <1>2, <1>3, <3>1, <3>2
    <2> DEFINE n == [pts |-> q.pts, status |-> "pending", attempts |-> 0]
    <2>4. rows' = rows \cup {n} /\ head' = IF rows = {} THEN q.pts ELSE head
      <3>1. rows' = rows \cup {[pts |-> r.pts, status |-> "pending", attempts |-> 0] : r \in {q}}
        BY <2>2 DEF Commit, CommitEnqueue
      <3>2. head' = IF \E r \in {q} : r.takesHead THEN q.pts ELSE head
        BY <2>2 DEF Commit, CommitEnqueue
      <3>3. head' = IF rows = {} THEN q.pts ELSE head
        BY <2>2, <3>2, Zenon
      <3> QED BY <3>1, <3>3
    <2>5. n \in Rows /\ n.pts = q.pts /\ n.attempts = 0
      BY <2>3 DEF Rows, Statuses
    <2> HIDE DEF n
    <2>6. \A r \in rows : r.pts \in Nat /\ 0 < r.pts /\ r.pts <= watermark /\ r \in Rows
      BY DEF LaneInv, RowsOK, Rows
    <2>7. RowsOK'
      <3>1. \A r \in rows' : r \in Rows /\ 0 < r.pts /\ r.pts <= watermark'
        BY <1>2, <1>3, <2>3, <2>4, <2>5, <2>6
      <3>2. \A r \in rows : r.pts # n.pts
        BY <1>3, <2>3, <2>5, <2>6
      <3>3. \A r, s \in rows' : r.pts = s.pts => r = s
        BY <2>4, <3>2 DEF LaneInv, RowsOK
      <3> QED BY <3>1, <3>3 DEF RowsOK
    <2>8. HeadFirst'
      <3>1. CASE rows = {}
        BY <2>3, <2>4, <2>5, <3>1 DEF HeadFirst
      <3>2. CASE rows # {}
        <4>1. PICK r \in rows : r.pts = head
          BY <3>2 DEF LaneInv, HeadFirst
        <4>2. head <= n.pts /\ head \in Nat
          BY <1>3, <2>3, <2>5, <2>6, <4>1
        <4> QED BY <2>4, <3>2, <4>1, <4>2 DEF LaneInv, HeadFirst
      <3> QED BY <3>1, <3>2
    <2>9. \A w \in Workers : lease[w].pts \in Nat /\ lease[w].pts <= watermark
      BY DEF LaneInv, LeasesOK, Leases
    <2>10. \A w \in Workers : lease[w].pts # n.pts
      BY <1>3, <2>3, <2>5, <2>9
    <2>11. LeasesOK'
      <3>1. \A w \in Workers : lease[w].pts <= watermark'
        BY <1>2, <1>3, <2>9
      <3>2. \A w \in Workers, r \in rows' : r.pts = lease[w].pts => lease[w].attempts <= r.attempts
        BY <2>4, <2>10 DEF LaneInv, LeasesOK
      <3> QED BY <1>1, <1>2, <3>1, <3>2 DEF LaneInv, LeasesOK
    <2>12. LeaseHolds'
      BY <1>1, <2>4, <2>10 DEF LaneInv, LeaseHolds
    <2> QED BY <1>1, <1>4, <2>7, <2>8, <2>11, <2>12 DEF LaneInv
  <1> QED BY <1>5, <1>6

-----------------------------------------------------------------------------
(* The devices do not touch the lane or the log. *)
LEMMA OthersKeep ==
  ASSUME LaneInv, UNCHANGED <<logvars, lanevars>>
  PROVE  LaneInv'
  <1>1. LogOK'
    BY DEF LaneInv, LogOK, logvars
  <1>2. RowsOK' /\ HeadFirst' /\ EnqueuedOK' /\ LeasesOK' /\ LeaseHolds'
    BY DEF LaneInv, RowsOK, HeadFirst, EnqueuedOK, LeasesOK, LeaseHolds, logvars, lanevars
  <1> QED BY <1>1, <1>2 DEF LaneInv

(* What a device or its handler does. *)
LEMMA DeviceStep ==
  ASSUME NEW d \in Devices,
         Ask(d) \/ Handle(d) \/ Deliver(d) \/ RunHook(d) \/ Take(d) \/ Device(d)
  PROVE  UNCHANGED <<logvars, lanevars>>
  <1>1. CASE Ask(d)
    BY <1>1 DEF Ask, GetState, GetDifference, Step
  <1>2. CASE Handle(d)
    <2>1. UNCHANGED lanevars
      BY <1>2 DEF Handle
    <2>2. \E c : Step(d, c)
      BY <1>2 DEF Handle, ObserveDifferenceRequest, MeasureGap, ReadCurrent, Probe, List
    <2> QED BY <2>1, <2>2 DEF Step
  <1>3. CASE Deliver(d) \/ RunHook(d)
    BY <1>3, ZenonT(30) DEF Deliver, WriteAnswer, RunHook, CommitDeliveredState
  <1>4. CASE Take(d)
    BY <1>4, ZenonT(30) DEF Take, TakeAnswer
  <1>5. CASE Device(d)
    BY <1>5, ZenonT(30)
       DEF Device, Bind, LogOut, ClearAuthKey, LoseAnswer, Restore, Step
  <1> QED BY <1>1, <1>2, <1>3, <1>4, <1>5

(* The initial states. *)
LEMMA LaneInitially ==
  ASSUME Init
  PROVE  LaneInv
  <1> DEFINE first == [pts |-> 1, count |-> 1]
  <1>1. log = {} \/ log = {first}
    BY DEF Init, LogInit
  <1>2. IsFiniteSet({}) /\ IsFiniteSet({first}) /\ Cardinality({first}) = 1
    <2> HIDE DEF first
    <2> QED BY FS_EmptySet, FS_Singleton
  <1>3. IsFiniteSet(log)
    <2> HIDE DEF first
    <2> QED BY <1>1, <1>2
  <1>4. watermark = IF log = {} THEN 0 ELSE 1
    <2> HIDE DEF first
    <2> QED BY <1>1, <1>2, FS_EmptySet DEF Init, LogInit
  <1>5. LogOK
    BY <1>1, <1>3, <1>4 DEF Init, LogInit, LogOK, Events
  <1>6. RowsOK /\ HeadFirst /\ EnqueuedOK /\ LeaseHolds
    BY DEF Init, LaneInit, RowsOK, HeadFirst, EnqueuedOK, LeaseHolds
  <1>7. LeasesOK
    BY <1>5 DEF Init, LaneInit, LeasesOK, NoLease, Leases, Stages, LogOK
  <1> QED BY <1>5, <1>6, <1>7 DEF LaneInv

(* Every step keeps the lane's invariant. *)
LEMMA LaneStep ==
  ASSUME LaneInv, [Next]_vars
  PROVE  LaneInv'
  <1>1. CASE \E n \in Counts, dispatch \in BOOLEAN : Append(n, dispatch)
    BY <1>1, AppendKeeps
  <1>2. CASE Commit
    BY <1>2, CommitKeeps
  <1>3. CASE (\E e \in log : Prune(e)) \/ Sweep
    BY <1>3, CleanKeeps
  <1>4. CASE \E d \in Devices : Ask(d) \/ Handle(d) \/ Deliver(d) \/ RunHook(d)
                                  \/ Take(d) \/ Device(d)
    BY <1>4, DeviceStep, OthersKeep
  <1>5. CASE \E w \in Workers : ClaimHead(w) \/ Load(w) \/ Mark(w) \/ Fail(w)
    BY <1>5, ClaimKeeps, WorkKeeps, MarkKeeps
  <1>6. CASE \E w \in Workers, S \in SUBSET Devices : Push(w, S)
    BY <1>6, WorkKeeps DEF Push, TakePush
  <1>7. CASE UNCHANGED vars
    BY <1>7, OthersKeep DEF vars
  <1> QED BY <1>1, <1>2, <1>3, <1>4, <1>5, <1>6, <1>7 DEF Next

(* The inductive invariant of the log and the lane. *)
THEOREM LaneInvHolds == Spec => []LaneInv
  BY LaneInitially, LaneStep, PTL DEF Spec

(* The head is the first committed row, or there is none: no interleaving of
   producers, completions, sweeps and retention loses the lane's head. *)
THEOREM LaneHeadHolds == Spec => []LaneHead
  <1>1. LaneInv => LaneHead
    BY HeadIsMin DEF LaneInv
  <1> QED BY <1>1, LaneInvHolds, PTL

(* The row of a lease that is still the row's latest is dispatching: the
   attempts fence the statements of workers that lost theirs. *)
THEOREM LeaseHoldsHolds == Spec => []LeaseHolds
  <1>1. LaneInv => LeaseHolds
    BY DEF LaneInv
  <1> QED BY <1>1, LaneInvHolds, PTL

-----------------------------------------------------------------------------
(* The order *)

(* No row is before one that a worker claimed, even if its lease was lost
   since: rows leave the lane from the front and join it at the end. *)
LeaseFirst == \A w \in Workers, r \in rows : lease[w].pts <= r.pts

(* What the steps that claim nothing do to the workers and to the rows. *)
Yields ==
  \A v \in Workers :
    lease'[v] = NoLease \/ (lease[v] # NoLease /\ lease'[v].pts = lease[v].pts)

Shrinks ==
  /\ \A r \in rows' : \E s \in rows : s.pts = r.pts
  /\ \A r \in rows', s \in rows : (\A t \in rows' : t.pts # s.pts) => s.pts < r.pts

(* Such a step takes a prefix of the lane away, or nothing. *)
LEMMA LeaveInOrder ==
  ASSUME LeaseFirst, RowsOK', Yields, Shrinks
  PROVE  LeaseFirst' /\ Order!Next
  <1>1. \A r \in rows' : r.pts \in Nat
    BY DEF RowsOK, Rows
  <1>2. LeaseFirst'
    <2> SUFFICES ASSUME NEW w \in Workers, NEW r \in rows'
                 PROVE  lease'[w].pts <= r.pts
      BY DEF LeaseFirst
    <2>1. CASE lease'[w] = NoLease
      BY <1>1, <2>1 DEF NoLease
    <2>2. CASE lease'[w].pts = lease[w].pts
      <3>1. PICK s \in rows : s.pts = r.pts
        BY DEF Shrinks
      <3>2. lease[w].pts <= s.pts
        BY DEF LeaseFirst
      <3> QED BY <2>2, <3>1, <3>2
    <2> QED BY <2>1, <2>2 DEF Yields
  <1>3. InHand' \subseteq InHand
    BY DEF Yields, InHand
  <1>4. Waiting' \subseteq Waiting
    BY DEF Shrinks, Waiting
  <1>5. \A q \in Waiting', p \in Waiting \ Waiting' : p < q
    BY DEF Shrinks, Waiting
  <1>6. Order!Leave
    BY <1>3, <1>4, <1>5 DEF Order!Leave
  <1> QED BY <1>2, <1>6 DEF Order!Next

(* A deletion of the first rows. *)
LEMMA FrontShrinks ==
  ASSUME RowsOK, NEW gone \in SUBSET rows, DeleteRows(gone),
         \A s \in gone, r \in rows \ gone : s.pts < r.pts
  PROVE  Shrinks
  <1>1. rows' = rows \ gone
    BY DEF DeleteRows
  <1> QED BY <1>1 DEF Shrinks

(* What may be deleted, if it is all of the rows of the least pts. *)
LEMMA OneFirst ==
  ASSUME RowsOK, NEW h \in rows, \A r \in rows : h.pts <= r.pts
  PROVE  \A r \in rows \ {h} : h.pts < r.pts
  BY DEF RowsOK, Rows

(* Retention takes the rows up to a pts, the sweep takes the head. *)
LEMMA CleanInOrder ==
  ASSUME LaneInv, RowsOK', LeaseFirst, (\E e \in log : Prune(e)) \/ Sweep
  PROVE  LeaseFirst' /\ Order!Next
  <1>1. Yields
    BY Zenon DEF Yields, Prune, Sweep, DeleteFailed
  <1>2. ASSUME NEW e \in log, Prune(e)
        PROVE  Shrinks
    <2> DEFINE gone == {r \in rows : r.pts <= e.pts}
    <2>1. e.pts \in Nat /\ \A r \in rows : r.pts \in Nat
      BY DEF LaneInv, LogOK, Events, RowsOK, Rows
    <2>2. DeleteRows(gone) /\ gone \in SUBSET rows
      BY <1>2 DEF Prune
    <2>3. \A s \in gone, r \in rows \ gone : s.pts < r.pts
      BY <2>1
    <2> HIDE DEF gone
    <2> QED BY <2>2, <2>3, FrontShrinks DEF LaneInv
  <1>3. ASSUME Sweep
        PROVE  Shrinks
    <2>1. DeleteRows({HeadRow}) /\ head # 0
      BY <1>3 DEF Sweep, DeleteFailed
    <2>2. HeadRow \in rows /\ HeadRow.pts = head
      BY <2>1, HeadRowIn DEF LaneInv
    <2>3. \A r \in rows : HeadRow.pts <= r.pts
      BY <2>2 DEF LaneInv, HeadFirst
    <2>4. \A r \in rows \ {HeadRow} : HeadRow.pts < r.pts
      BY <2>2, <2>3, OneFirst DEF LaneInv
    <2>5. {HeadRow} \in SUBSET rows /\ \A s \in {HeadRow}, r \in rows \ {HeadRow} : s.pts < r.pts
      BY <2>2, <2>4
    <2> QED BY <2>1, <2>5, FrontShrinks, Zenon DEF LaneInv
  <1> QED BY <1>1, <1>2, <1>3, LeaveInOrder

(* A step of one worker that ends its claim or goes on with it. *)
LEMMA WorkerYields ==
  ASSUME LeasesOK, NEW w \in Workers, NEW l, lease[w] # NoLease,
         l = NoLease \/ l.pts = lease[w].pts, lease' = [lease EXCEPT ![w] = l]
  PROVE  Yields
  <1>1. lease'[w] = l /\ \A v \in Workers \ {w} : lease'[v] = lease[v]
    BY DEF LeasesOK
  <1> QED BY <1>1 DEF Yields

(* Reading the event, pushing it, failing to, giving up. *)
LEMMA WorkInOrder ==
  ASSUME LaneInv, LaneInv', LeaseFirst, NEW w \in Workers,
         Load(w) \/ PushSucceeds(w) \/ Fail(w)
  PROVE  LeaseFirst' /\ Order!Next
  <1>1. rows' = rows /\ lease[w] # NoLease
    BY DEF Load, LoadEvent, PushSucceeds, Fail, PushFails, Abandon, NoLease
  <1>2. ASSUME Abandon(w)
        PROVE  Yields
    BY <1>1, <1>2, WorkerYields, Zenon DEF Abandon, LaneInv
  <1>3. ASSUME NEW a \in Stages, lease' = [lease EXCEPT ![w].at = a]
        PROVE  Yields
    <2>1. PICK l \in Leases : /\ l.pts = lease[w].pts /\ l.attempts = lease[w].attempts
                              /\ l.at = a /\ lease' = [lease EXCEPT ![w] = l]
      BY <1>3, StageOf, Zenon
    <2> QED BY <1>1, <2>1, WorkerYields, Zenon DEF LaneInv
  <1>4. Yields
    <2>1. "loaded" \in Stages /\ "failed" \in Stages /\ "pushed" \in Stages
      BY DEF Stages
    <2>2. CASE Load(w)
      <3> DEFINE a == IF \E e \in Retained : e.pts = lease[w].pts THEN "loaded" ELSE "failed"
      <3>1. a \in Stages /\ lease' = [lease EXCEPT ![w].at = a]
        BY <2>1, <2>2 DEF Load, LoadEvent
      <3> HIDE DEF a
      <3> QED BY <1>3, <3>1, Zenon
    <2>3. CASE PushSucceeds(w)
      BY <1>3, <2>1, <2>3, Zenon DEF PushSucceeds
    <2>4. CASE PushFails(w)
      BY <1>3, <2>1, <2>4, Zenon DEF PushFails
    <2> QED BY <1>2, <2>2, <2>3, <2>4 DEF Fail
  <1>5. Shrinks
    BY <1>1 DEF Shrinks
  <1> QED BY <1>4, <1>5, LeaveInOrder DEF LaneInv

(* A mark deletes the first row, or none, or makes it wait in its place. *)
LEMMA MarkInOrder ==
  ASSUME LaneInv, LaneInv', LeaseFirst, NEW w \in Workers, Mark(w)
  PROVE  LeaseFirst' /\ Order!Next
  <1>1. lease[w] # NoLease /\ lease' = [lease EXCEPT ![w] = NoLease]
    BY DEF Mark, MarkDelivered, MarkFailed, NoLease
  <1>2. Yields
    BY <1>1, WorkerYields, Zenon DEF LaneInv
  <1>3. CASE MarkDelivered(w)
    <2>1. Claimed(w) \in SUBSET rows /\ DeleteRows(Claimed(w))
      BY <1>3 DEF MarkDelivered, Claimed
    <2>2. ASSUME NEW s \in Claimed(w), NEW r \in rows \ Claimed(w)
          PROVE  s.pts < r.pts
      <3>1. s \in rows /\ r \in rows \ {s} /\ s.pts = lease[w].pts
        BY <2>2 DEF Claimed
      <3>2. \A t \in rows : s.pts <= t.pts
        BY <3>1 DEF LeaseFirst
      <3> QED BY <3>1, <3>2, OneFirst DEF LaneInv
    <2>3. Shrinks
      BY <2>1, <2>2, FrontShrinks DEF LaneInv
    <2> QED BY <1>2, <2>3, LeaveInOrder DEF LaneInv
  <1>4. CASE MarkFailed(w)
    <2> DEFINE S(r) == IF r.attempts >= MaxAttempts THEN "failed" ELSE "pending"
               M(r) == IF r \in Claimed(w) THEN [r EXCEPT !.status = S(r)] ELSE r
    <2>1. rows' = {M(r) : r \in rows}
      BY <1>4 DEF MarkFailed
    <2>2. \A r \in rows : M(r).pts = r.pts
      BY DEF LaneInv, RowsOK, Rows
    <2> HIDE DEF M
    <2>3. Shrinks
      BY <2>1, <2>2 DEF Shrinks
    <2> QED BY <1>2, <2>3, LeaveInOrder DEF LaneInv
  <1> QED BY <1>3, <1>4 DEF Mark

(* A claim is of the first row. *)
LEMMA ClaimInOrder ==
  ASSUME LaneInv, LeaseFirst, NEW w \in Workers, ClaimHead(w)
  PROVE  LeaseFirst' /\ Order!Next
  <1> DEFINE g == [pts |-> head, status |-> "dispatching", attempts |-> HeadRow.attempts + 1]
             l == [pts |-> head, attempts |-> HeadRow.attempts + 1, at |-> "claimed"]
  <1>1. head # 0 /\ lease[w] = NoLease
    BY DEF ClaimHead, Claim
  <1>2. HeadRow \in rows /\ HeadRow.pts = head
    BY <1>1, HeadRowIn DEF LaneInv
  <1>3. \A r \in rows : head <= r.pts
    BY <1>2 DEF LaneInv, HeadFirst
  <1>4. rows' = (rows \ {HeadRow}) \cup {g} /\ lease' = [lease EXCEPT ![w] = l]
    BY DEF ClaimHead, Claim, Replace
  <1>5. g.pts = head /\ l.pts = head /\ l # NoLease
    BY <1>1 DEF NoLease
  <1> HIDE DEF g, l
  <1>6. lease'[w] = l /\ \A v \in Workers \ {w} : lease'[v] = lease[v]
    BY <1>4 DEF LaneInv, LeasesOK
  <1>7. \A r \in rows' : \E s \in rows : s.pts = r.pts
    BY <1>2, <1>4, <1>5
  <1>8. LeaseFirst'
    <2>1. \A r \in rows' : head <= r.pts /\ \A v \in Workers : lease[v].pts <= r.pts
      BY <1>3, <1>7 DEF LeaseFirst
    <2> QED BY <1>5, <1>6, <2>1 DEF LeaseFirst
  <1>9. Waiting' = Waiting
    <2>1. \A s \in rows : \E r \in rows' : r.pts = s.pts
      BY <1>2, <1>4, <1>5
    <2> QED BY <1>7, <2>1 DEF Waiting
  <1>10. InHand' = InHand \cup {head}
    BY <1>1, <1>5, <1>6 DEF InHand
  <1>11. head \in Waiting /\ \A q \in Waiting : head <= q
    BY <1>2, <1>3 DEF Waiting
  <1>12. Order!Hand(head)
    BY <1>9, <1>10, <1>11 DEF Order!Hand
  <1> QED BY <1>8, <1>11, <1>12 DEF Order!Next

(* A row joins beyond the watermark, and so beyond every row and lease. *)
LEMMA CommitInOrder ==
  ASSUME LaneInv, LeaseFirst, Commit
  PROVE  LeaseFirst' /\ (Order!Next \/ UNCHANGED <<Waiting, InHand>>)
  <1>1. lease' = lease
    BY DEF Commit, CommitEnqueue
  <1>2. InHand' = InHand
    BY <1>1 DEF InHand
  <1>3. rows' = rows \cup {[pts |-> q.pts, status |-> "pending", attempts |-> 0] : q \in enqueued}
    BY DEF Commit, CommitEnqueue
  <1>4. CASE enqueued = {}
    <2>1. rows' = rows
      BY <1>3, <1>4
    <2> QED BY <1>1, <1>2, <2>1 DEF LeaseFirst, Waiting
  <1>5. CASE enqueued # {}
    <2>1. PICK q \in enqueued : enqueued = {q}
      BY <1>5 DEF LaneInv, EnqueuedOK
    <2>2. q.pts \in Nat /\ watermark < q.pts /\ watermark \in Nat
      <3>1. PICK e \in appending : q.pts = e.pts
        BY DEF LaneInv, EnqueuedOK
      <3>2. e \in Events /\ e.pts = watermark + e.count /\ watermark \in Nat
        BY DEF LaneInv, LogOK
      <3> QED BY <3>1, <3>2 DEF Events
    <2> DEFINE n == [pts |-> q.pts, status |-> "pending", attempts |-> 0]
    <2>3. rows' = rows \cup {n} /\ n.pts = q.pts
      BY <1>3, <2>1
    <2> HIDE DEF n
    <2>4. \A r \in rows : r.pts \in Nat /\ r.pts < q.pts
      BY <2>2 DEF LaneInv, RowsOK, Rows
    <2>5. \A w \in Workers : lease[w].pts \in Nat /\ lease[w].pts < q.pts
      BY <2>2 DEF LaneInv, LeasesOK, Leases
    <2>6. LeaseFirst'
      BY <1>1, <2>2, <2>3, <2>5 DEF LeaseFirst
    <2>7. Waiting' = Waiting \cup {q.pts}
      BY <2>3 DEF Waiting
    <2>8. \A p \in Waiting \cup InHand : p < q.pts
      BY <2>4, <2>5 DEF Waiting, InHand
    <2>9. q.pts \in Waiting' /\ q.pts \notin Waiting
      BY <2>2, <2>7, <2>8
    <2>10. Order!Join(q.pts)
      BY <1>2, <2>7, <2>8 DEF Order!Join
    <2> QED BY <2>6, <2>9, <2>10 DEF Order!Next
  <1> QED BY <1>4, <1>5

(* Every step of the account is a step of the ordered lane, or none. *)
LEMMA OrderStep ==
  ASSUME LaneInv, LeaseFirst, [Next]_vars
  PROVE  LeaseFirst' /\ [Order!Next]_<<Waiting, InHand>>
  <1>1. LaneInv'
    BY LaneStep
  <1>2. ASSUME UNCHANGED <<rows, lease>>
        PROVE  LeaseFirst' /\ UNCHANGED <<Waiting, InHand>>
    BY <1>2 DEF LeaseFirst, Waiting, InHand
  <1>3. CASE \E n \in Counts, dispatch \in BOOLEAN : Append(n, dispatch)
    BY <1>2, <1>3 DEF Append, Enqueue, lanevars
  <1>4. CASE Commit
    BY <1>4, CommitInOrder
  <1>5. CASE (\E e \in log : Prune(e)) \/ Sweep
    BY <1>1, <1>5, CleanInOrder DEF LaneInv
  <1>6. CASE \E d \in Devices : Ask(d) \/ Handle(d) \/ Deliver(d) \/ RunHook(d)
                                  \/ Take(d) \/ Device(d)
    BY <1>2, <1>6, DeviceStep DEF lanevars
  <1>7. CASE \E w \in Workers : ClaimHead(w) \/ Load(w) \/ Mark(w) \/ Fail(w)
    BY <1>1, <1>7, ClaimInOrder, WorkInOrder, MarkInOrder
  <1>8. CASE \E w \in Workers, S \in SUBSET Devices : Push(w, S)
    BY <1>1, <1>8, WorkInOrder DEF Push
  <1>9. CASE UNCHANGED vars
    BY <1>2, <1>9 DEF vars, lanevars
  <1> QED BY <1>3, <1>4, <1>5, <1>6, <1>7, <1>8, <1>9 DEF Next

(* The outbox, its triggers, leases and marks, with producers, retention and
   the sweep, implements the lane that hands out updates in pts order. *)
THEOREM ImplementsOrderHolds == Spec => ImplementsOrder
  <1>1. Init => Order!Init /\ LeaseFirst
    BY DEF Init, LaneInit, Order!Init, Waiting, InHand, LeaseFirst
  <1>2. LaneInv /\ LeaseFirst /\ [Next]_vars => LeaseFirst' /\ [Order!Next]_<<Waiting, InHand>>
    BY OrderStep
  <1> QED BY <1>1, <1>2, LaneInvHolds, PTL DEF Spec, ImplementsOrder, Order!Spec

-----------------------------------------------------------------------------
(* The devices *)

(* Where a call of getDifference may be, and its locals. *)
Pipeline == {"observe", "measure", "current", "probe", "reprobe", "list"}

Calls == [at : Pipeline \cup Answers \cup {"idle"}, from : Int, st : Int,
          events : SUBSET Events]

(* The types of the devices. *)
DeviceTypes ==
  /\ phase \in [Devices -> {"new", "in", "leaving", "out"}]
  /\ observed \in [Devices -> Int]
  /\ cursor \in [Devices -> Int]
  /\ received \in [Devices -> SUBSET Nat]
  /\ call \in [Devices -> Calls]

(* The device has been given everything up to p. *)
Owns(d, p) == PtsUpTo(p) \subseteq received[d]

(* What is true of the call c and the observed pts o of a device that is
   logged in.  Retention may rely on the observed pts once the device has a
   cursor; until then, the state it is about to adopt covers it. *)
LoggedIn(d, c, o) ==
  /\ floor <= o
  /\ cursor[d] # NoCursor => Owns(d, o)
  /\ c.at = "state" => cursor[d] = NoCursor /\ o <= c.st
  /\ c.at \in Pipeline \cup {"difference", "too_long"} => cursor[d] # NoCursor
  /\ c.at \in Pipeline => Owns(d, c.from)
  /\ c.at = "difference" =>
       PtsUpTo(c.st) \subseteq received[d] \cup {e.pts : e \in c.events}

(* What is true of the call of any device. *)
CallOK(d, c, o) ==
  /\ o <= watermark
  /\ phase[d] = "new" => c = Idle
  /\ c.at \in Pipeline => 0 <= c.from /\ c.from <= watermark
  /\ c.at \in Answers => 0 <= c.st /\ c.st <= watermark
  /\ phase[d] = "in" => LoggedIn(d, c, o)

(* What is true of one device. *)
Sound(d) ==
  /\ -1 <= cursor[d] /\ cursor[d] <= watermark
  /\ Owns(d, cursor[d])
  /\ phase[d] # "in" => cursor[d] = NoCursor
  /\ CallOK(d, call[d], observed[d])

(* What is true of the pts p of a delivery hook that has yet to run, whatever
   d does meanwhile: once it has a cursor, d owns p, and until then the state
   that it is about to adopt covers p. *)
Due(d, p) ==
  /\ p <= watermark
  /\ phase[d] # "new"
  /\ phase[d] = "in" => /\ cursor[d] # NoCursor => Owns(d, p)
                        /\ call[d].at = "state" => p <= call[d].st

(* What is true of the hooks. *)
Hooked ==
  /\ baselines \in [Devices -> SUBSET Int]
  /\ \A d \in Devices : \A p \in baselines[d] : Due(d, p)

(* The inductive invariant. *)
UInv ==
  /\ LaneInv
  /\ DeviceTypes
  /\ \A d \in Devices : Sound(d)
  /\ Hooked

USE DEF NoCursor, NoRow

-----------------------------------------------------------------------------
(* What a device owns does not depend on events it cannot have passed. *)

(* PtsUpTo grows with its bound. *)
LEMMA UpToMonotone ==
  ASSUME log \subseteq Events, NEW p \in Int, NEW q \in Int, p <= q
  PROVE  PtsUpTo(p) \subseteq PtsUpTo(q)
  BY DEF PtsUpTo, Events

(* A commit adds nothing at or below the watermark. *)
LEMMA UpToCommit ==
  ASSUME LogOK, CommitAppend, NEW p \in Int, p <= watermark
  PROVE  PtsUpTo(p)' = PtsUpTo(p)
  <1>1. PICK e \in appending : log' = log \cup {e}
    BY DEF CommitAppend
  <1>2. e \in Events /\ ~ (e.pts <= p)
    BY DEF LogOK, Events
  <1>3. {f \in log' : f.pts <= p} = {f \in log : f.pts <= p}
    BY <1>1, <1>2
  <1> QED BY <1>3 DEF PtsUpTo

(* Nothing is at or below no cursor, and no pts is negative. *)
LEMMA NoneBelow ==
  ASSUME LogOK
  PROVE  PtsUpTo(-1) = {} /\ \A p \in Int : PtsUpTo(p) \subseteq Nat
  <1>1. \A e \in log : e.pts \in Nat
    BY DEF LogOK, Events
  <1>2. \A e \in log : ~ (e.pts <= -1)
    BY <1>1
  <1>3. PtsUpTo(-1) = {}
    BY <1>2, ZenonT(30) DEF PtsUpTo
  <1>4. \A p \in Int : PtsUpTo(p) \subseteq Nat
    BY <1>1, ZenonT(30) DEF PtsUpTo
  <1> QED BY <1>3, <1>4, ZenonT(30)

(* The log alone decides what is up to p. *)
LEMMA UpToSame ==
  ASSUME log' = log
  PROVE  \A p : PtsUpTo(p)' = PtsUpTo(p)
  BY ZenonT(30) DEF PtsUpTo

(* Nothing of x changed. *)
Same(x) ==
  /\ phase'[x] = phase[x] /\ observed'[x] = observed[x] /\ cursor'[x] = cursor[x]
  /\ received'[x] = received[x] /\ call'[x] = call[x]

(* A device that a step does not touch stays sound. *)
LEMMA Frame ==
  ASSUME NEW x \in Devices, Sound(x), Same(x),
         watermark' = watermark, log' = log, floor' = floor
  PROVE  Sound(x)'
  <1>1. \A p : PtsUpTo(p)' = PtsUpTo(p)
    BY UpToSame, ZenonT(30)
  <1>2. CallOK(x, call[x], observed[x])'
    BY <1>1, Zenon DEF Sound, CallOK, LoggedIn, Owns, Same
  <1> QED BY <1>1, <1>2 DEF Sound, Owns, Same

(* What a step must not do to x while hooks of x have yet to run: it gives x
   a cursor only by the state that x was waiting for, takes nothing from it
   that it keeps a cursor for, and a new state is the account's. *)
Carries(x) ==
  phase[x] # "new" =>
    /\ phase'[x] # "new"
    /\ phase'[x] = "in" =>
         /\ phase[x] = "in"
         /\ received[x] \subseteq received'[x]
         /\ cursor'[x] # NoCursor /\ cursor[x] = NoCursor =>
              call[x].at = "state" /\ PtsUpTo(call[x].st) \subseteq received'[x]
         /\ call'[x].at = "state" /\ call'[x] # call[x] => call'[x].st = watermark'

(* A device that a step does not touch. *)
LEMMA SameCarries ==
  ASSUME NEW x \in Devices, Same(x)
  PROVE  Carries(x)
  BY Zenon DEF Same, Carries

(* Hooks run in any order, or never: those that are left stay due. *)
LEMMA HooksKept ==
  ASSUME LogOK, DeviceTypes, Hooked,
         watermark' \in Nat, watermark <= watermark',
         \A p \in Int : p <= watermark => PtsUpTo(p)' = PtsUpTo(p),
         \A x \in Devices : Carries(x),
         baselines' \in [Devices -> SUBSET Int],
         \A x \in Devices : baselines'[x] \subseteq baselines[x]
  PROVE  Hooked'
  <1> SUFFICES ASSUME NEW x \in Devices, NEW p \in baselines'[x]
               PROVE  Due(x, p)'
    BY Zenon DEF Hooked
  <1>1. p \in Int /\ Due(x, p) /\ Carries(x)
    BY Zenon DEF Hooked
  <1>2. watermark \in Nat /\ log \subseteq Events /\ call[x].st \in Int
    BY DEF LogOK, DeviceTypes, Calls
  <1>3. p <= watermark /\ p <= watermark'
    BY <1>1, <1>2 DEF Due
  <1>4. PtsUpTo(p)' = PtsUpTo(p)
    BY <1>1, <1>3
  <1>5. phase'[x] # "new"
    BY <1>1, Zenon DEF Due, Carries
  <1>6. ASSUME phase'[x] = "in", cursor'[x] # NoCursor
        PROVE  PtsUpTo(p) \subseteq received'[x]
    <2>1. CASE cursor[x] # NoCursor
      BY <1>1, <1>6, <2>1, Zenon DEF Due, Carries, Owns
    <2>2. CASE cursor[x] = NoCursor
      <3>1. p <= call[x].st /\ PtsUpTo(call[x].st) \subseteq received'[x]
        BY <1>1, <1>6, <2>2, Zenon DEF Due, Carries
      <3> QED BY <1>1, <1>2, <3>1, UpToMonotone, Zenon
    <2> QED BY <2>1, <2>2
  <1>7. ASSUME phase'[x] = "in", call'[x].at = "state"
        PROVE  p <= call'[x].st
    <2>1. CASE call'[x] = call[x]
      BY <1>1, <1>7, <2>1, Zenon DEF Due, Carries
    <2>2. CASE call'[x] # call[x]
      BY <1>1, <1>3, <1>7, <2>2, Zenon DEF Due, Carries
    <2> QED BY <2>1, <2>2
  <1> QED BY <1>3, <1>4, <1>5, <1>6, <1>7, Zenon DEF Due, Owns

-----------------------------------------------------------------------------
(* The initial states. *)
LEMMA UInit ==
  ASSUME Init
  PROVE  UInv
  <1>1. LaneInv /\ LogOK
    BY LaneInitially DEF LaneInv
  <1>2. DeviceTypes
    BY DEF Init, DeviceInit, DeviceTypes, Calls, Idle
  <1>3. ASSUME NEW d \in Devices
        PROVE  Sound(d)
    <2>1. PtsUpTo(-1) = {}
      BY <1>1, NoneBelow, ZenonT(30)
    <2> QED
      BY <1>1, <2>1
         DEF Init, DeviceInit, Sound, CallOK, Owns, Idle, Pipeline, Answers, LogOK
  <1>4. Hooked
    BY DEF Init, DeviceInit, Hooked
  <1> QED BY <1>1, <1>2, <1>3, <1>4 DEF UInv

-----------------------------------------------------------------------------
(* The log under the devices. *)

(* A commit leaves every device as it was: what it has passed, observed or is
   about to adopt is not beyond the old watermark. *)
LEMMA CommitSound ==
  ASSUME LogOK, DeviceTypes, CommitAppend, UNCHANGED devicevars,
         NEW x \in Devices, Sound(x)
  PROVE  Sound(x)'
  <1>1. /\ watermark \in Nat /\ watermark' \in Nat /\ watermark <= watermark'
        /\ floor' = floor
    BY DEF LogOK, CommitAppend, Events
  <1>2. /\ cursor[x] \in Int /\ observed[x] \in Int /\ call[x] \in Calls
        /\ Same(x)
    BY DEF DeviceTypes, Same, devicevars
  <1>3. call[x].from \in Int /\ call[x].st \in Int
    BY <1>2 DEF Calls
  <1>4. \A p \in Int : p <= watermark => PtsUpTo(p)' = PtsUpTo(p)
    BY UpToCommit
  <1>5. CallOK(x, call[x], observed[x])'
    BY <1>1, <1>2, <1>3, <1>4 DEF CallOK, LoggedIn, Owns, Same, Sound, Answers
  <1>6. -1 <= cursor'[x] /\ cursor'[x] <= watermark'
    BY <1>1, <1>2 DEF Sound, Same
  <1>7. Owns(x, cursor[x])'
    <2>1. PICK p \in Int : p <= watermark /\ p = cursor[x] /\ p = cursor'[x]
      BY <1>2, ZenonT(30) DEF Sound, Same
    <2>2. PtsUpTo(p)' = PtsUpTo(p)
      BY <1>4, <2>1, ZenonT(30)
    <2> QED BY <1>2, <2>1, <2>2, ZenonT(30) DEF Sound, Owns, Same
  <1> QED BY <1>2, <1>5, <1>6, <1>7, ZenonT(30) DEF Sound, Same

(* Retention asks every logged-in device. *)
LEMMA PruneSound ==
  ASSUME LogOK, DeviceTypes, NEW e \in log, PruneConfirmedPrefix(e),
         NEW x \in Devices, Sound(x)
  PROVE  Sound(x)'
  <1>1. floor < e.pts /\ floor' = e.pts /\ e.pts \in Nat /\ floor \in Nat
    BY PruneLog DEF LogOK, Events
  <1>2. Same(x) /\ watermark' = watermark /\ log' = log
    BY ZenonT(30) DEF PruneConfirmedPrefix, devicevars, Same
  <1>3. \A p : PtsUpTo(p)' = PtsUpTo(p)
    BY <1>2, UpToSame, ZenonT(30)
  <1>4. phase[x] = "in" => floor' <= observed[x]
    <2>1. observed[x] \in Int
      BY DEF DeviceTypes
    <2> QED BY <1>1, <2>1 DEF PruneConfirmedPrefix, Authorized, Greatest
  <1>5. CallOK(x, call[x], observed[x])'
    BY <1>2, <1>3, <1>4, Zenon DEF Sound, CallOK, LoggedIn, Owns, Same
  <1> QED BY <1>2, <1>3, <1>5, Zenon DEF Sound, Owns, Same

-----------------------------------------------------------------------------
(* The handlers *)

(* Only the call, and perhaps the observed pts, of d change. *)
Moves(d, c) ==
  call' = [call EXCEPT ![d] = c] /\ UNCHANGED <<logvars, phase, cursor, received>>

(* Such a step keeps what the device may rely on. *)
LEMMA MoveSound ==
  ASSUME DeviceTypes, NEW d \in Devices, Sound(d), NEW c \in Calls, NEW o \in Int,
         Moves(d, c), observed' = [observed EXCEPT ![d] = o], CallOK(d, c, o)
  PROVE  /\ DeviceTypes' /\ Sound(d)'
         /\ \A x \in Devices \ {d} : Same(x)
         /\ UNCHANGED logvars
  <1>1. DeviceTypes' /\ UNCHANGED logvars
    BY DEF DeviceTypes, Moves, logvars
  <1>2. call'[d] = c /\ observed'[d] = o
    BY DEF DeviceTypes, Moves
  <1>3. \A p : PtsUpTo(p)' = PtsUpTo(p)
    BY ZenonT(30) DEF PtsUpTo, Moves, logvars
  <1>4. CallOK(d, call[d], observed[d])'
    BY <1>2, <1>3, ZenonT(30) DEF CallOK, LoggedIn, Owns, Moves, logvars
  <1>5. Sound(d)'
    BY <1>3, <1>4, Zenon DEF Sound, Owns, Moves, logvars
  <1>6. \A x \in Devices \ {d} : Same(x)
    BY DEF Same, Moves, DeviceTypes
  <1> QED BY <1>1, <1>5, <1>6

(* A step of a handler is one. *)
LEMMA StepSound ==
  ASSUME DeviceTypes, NEW d \in Devices, Sound(d), NEW c \in Calls, NEW o \in Int,
         Step(d, c), observed' = [observed EXCEPT ![d] = o], CallOK(d, c, o)
  PROVE  /\ DeviceTypes' /\ Sound(d)'
         /\ \A x \in Devices \ {d} : Same(x)
         /\ UNCHANGED logvars
  <1>1. Moves(d, c)
    BY Zenon DEF Step, Moves
  <1> QED BY <1>1, MoveSound, Zenon

(* What is known of a device and its call. *)
LEMMA DeviceFacts ==
  ASSUME LogOK, DeviceTypes, NEW d \in Devices, Sound(d)
  PROVE  /\ cursor[d] \in Int /\ observed[d] \in Int /\ received[d] \subseteq Nat
         /\ call[d] \in Calls /\ call[d].from \in Int /\ call[d].st \in Int
         /\ observed = [observed EXCEPT ![d] = observed[d]]
         /\ watermark \in Nat /\ floor \in Nat /\ floor <= watermark
         /\ CallOK(d, call[d], observed[d])
  <1>1. call[d] \in Calls
    BY DEF DeviceTypes
  <1>2. call[d].from \in Int /\ call[d].st \in Int
    BY <1>1 DEF Calls
  <1> QED BY <1>1, <1>2 DEF LogOK, DeviceTypes, Sound

(* The device asks. *)
LEMMA AskSound ==
  ASSUME LogOK, DeviceTypes, NEW d \in Devices, Sound(d), GetState(d) \/ GetDifference(d)
  PROVE  /\ DeviceTypes' /\ Sound(d)'
         /\ \A x \in Devices \ {d} : Same(x)
         /\ UNCHANGED logvars
  <1> DEFINE s == Answer("state", watermark, {})
             c == [at |-> "observe", from |-> cursor[d], st |-> 0, events |-> {}]
  <1>1. s \in Calls /\ c \in Calls
    BY DeviceFacts DEF Answer, Answers, Calls, Pipeline
  <1>2. CASE GetState(d)
    <2>1. CallOK(d, s, observed[d])
      BY <1>2, DeviceFacts
         DEF GetState, Answer, Answers, Pipeline, CallOK, LoggedIn
    <2>2. Step(d, s) /\ observed' = [observed EXCEPT ![d] = observed[d]]
      BY <1>2, DeviceFacts DEF GetState
    <2> HIDE DEF s
    <2> QED BY <1>1, <2>1, <2>2, DeviceFacts, StepSound, ZenonT(30)
  <1>3. CASE GetDifference(d)
    <2>1. CallOK(d, c, observed[d])
      <3>1. /\ phase[d] = "in" /\ cursor[d] # NoCursor
            /\ 0 <= cursor[d] /\ cursor[d] <= watermark /\ Owns(d, cursor[d])
        BY <1>3, DeviceFacts DEF GetDifference, Sound
      <3>2. observed[d] <= watermark /\ LoggedIn(d, call[d], observed[d])
        BY <3>1, DeviceFacts, ZenonT(30) DEF CallOK
      <3>3. c.at = "observe" /\ c.from = cursor[d]
        OBVIOUS
      <3> HIDE DEF c
      <3>4. LoggedIn(d, c, observed[d])
        BY <3>1, <3>2, <3>3, ZenonT(30) DEF LoggedIn, Pipeline
      <3> QED BY <3>1, <3>2, <3>3, <3>4, ZenonT(30) DEF CallOK, Answers
    <2>2. Step(d, c) /\ observed' = [observed EXCEPT ![d] = observed[d]]
      BY <1>3, DeviceFacts DEF GetDifference
    <2> HIDE DEF c
    <2> QED BY <1>1, <2>1, <2>2, DeviceFacts, StepSound, ZenonT(30)
  <1> QED BY <1>2, <1>3

(* Recording the request's cursor: the device owns what it claims to own. *)
LEMMA ObserveSound ==
  ASSUME LogOK, DeviceTypes, NEW d \in Devices, Sound(d), ObserveDifferenceRequest(d)
  PROVE  /\ DeviceTypes' /\ Sound(d)'
         /\ \A x \in Devices \ {d} : Same(x)
         /\ UNCHANGED logvars
  <1> DEFINE o == Greatest(observed[d], call[d].from)
             c == [call[d] EXCEPT !.at = IF d \in Limited /\ call[d].from > 0
                                         THEN "measure" ELSE "current"]
  <1>1. /\ c = [at |-> c.at, from |-> call[d].from, st |-> call[d].st,
                events |-> call[d].events]
        /\ c.at \in {"measure", "current"}
    <2>1. call[d] \in Calls
      BY DeviceFacts
    <2> QED BY <2>1 DEF Calls
  <1>2. c \in Calls
    BY <1>1, DeviceFacts DEF Calls, Pipeline
  <1>3. o \in Int /\ (o = observed[d] \/ o = call[d].from) /\ observed[d] <= o
    BY DeviceFacts DEF Greatest
  <1>4. Step(d, c) /\ observed' = [observed EXCEPT ![d] = o]
    BY DeviceFacts DEF ObserveDifferenceRequest, DeviceTypes
  <1>5. CallOK(d, c, o)
    <2>1. call[d].at \in Pipeline
      BY DEF ObserveDifferenceRequest, Pipeline
    <2>2. o <= watermark
      BY <1>3, <2>1, DeviceFacts DEF CallOK
    <2>3. phase[d] # "new"
      BY <2>1, DeviceFacts DEF CallOK, Idle, Pipeline
    <2>4. phase[d] = "in" => LoggedIn(d, c, o)
      BY <1>1, <1>3, <2>1, DeviceFacts DEF CallOK, LoggedIn, Pipeline
    <2> QED BY <1>1, <2>1, <2>2, <2>3, <2>4, DeviceFacts DEF CallOK, Pipeline, Answers
  <1> HIDE DEF c, o
  <1> QED BY <1>2, <1>3, <1>4, <1>5, StepSound, Zenon

(* What a call in the pipeline has established. *)
LEMMA PipelineFacts ==
  ASSUME LogOK, DeviceTypes, NEW d \in Devices, Sound(d), call[d].at \in Pipeline
  PROVE  /\ phase[d] # "new"
         /\ 0 <= call[d].from /\ call[d].from <= watermark
         /\ observed[d] <= watermark
         /\ phase[d] = "in" =>
              /\ floor <= observed[d] /\ cursor[d] # NoCursor
              /\ Owns(d, observed[d]) /\ Owns(d, call[d].from) /\ Owns(d, floor)
  <1>1. phase[d] # "new"
    BY DeviceFacts DEF CallOK, Idle, Pipeline
  <1>2. phase[d] = "in" =>
          /\ floor <= observed[d] /\ cursor[d] # NoCursor
          /\ Owns(d, observed[d]) /\ Owns(d, call[d].from)
    BY DeviceFacts DEF CallOK, LoggedIn
  <1>3. phase[d] = "in" => Owns(d, floor)
    <2>1. log \subseteq Events
      BY DEF LogOK
    <2> QED BY <1>2, <2>1, DeviceFacts, UpToMonotone DEF Owns
  <1> QED BY <1>1, <1>2, <1>3, DeviceFacts DEF CallOK

(* An answer, or an error, ends the pipeline without touching the database. *)
LEMMA EndSound ==
  ASSUME LogOK, DeviceTypes, NEW d \in Devices, Sound(d), call[d].at \in Pipeline,
         NEW how \in {"difference", "too_long"}, NEW p \in Int, 0 <= p, p <= watermark,
         NEW E \in SUBSET Events,
         how = "difference" /\ phase[d] = "in" =>
           PtsUpTo(p) \subseteq received[d] \cup {e.pts : e \in E},
         Step(d, Answer(how, p, E)), UNCHANGED observed
  PROVE  /\ DeviceTypes' /\ Sound(d)'
         /\ \A x \in Devices \ {d} : Same(x)
         /\ UNCHANGED logvars
  <1> DEFINE c == Answer(how, p, E)
  <1>1. c \in Calls /\ c.at = how /\ c.st = p /\ c.events = E
    BY DEF Answer, Calls, Answers
  <1>2. CallOK(d, c, observed[d])
    <2> HIDE DEF c
    <2>1. phase[d] = "in" => LoggedIn(d, c, observed[d])
      BY <1>1, PipelineFacts, ZenonT(30) DEF LoggedIn, Pipeline
    <2> QED BY <1>1, <2>1, PipelineFacts, ZenonT(30) DEF CallOK, Pipeline
  <1>3. observed' = [observed EXCEPT ![d] = observed[d]] /\ observed[d] \in Int
    BY DeviceFacts
  <1> HIDE DEF c
  <1>4. Step(d, c)
    BY DEF c
  <1> QED BY <1>1, <1>2, <1>3, <1>4, StepSound, ZenonT(30)

(* One pipeline stage to the next. *)
LEMMA AdvanceSound ==
  ASSUME LogOK, DeviceTypes, NEW d \in Devices, Sound(d), call[d].at \in Pipeline,
         NEW c \in Calls, c.at \in Pipeline, c.from = call[d].from,
         Step(d, c), UNCHANGED observed
  PROVE  /\ DeviceTypes' /\ Sound(d)'
         /\ \A x \in Devices \ {d} : Same(x)
         /\ UNCHANGED logvars
  <1>1. phase[d] = "in" => LoggedIn(d, c, observed[d])
    BY PipelineFacts, ZenonT(30) DEF LoggedIn, Pipeline
  <1>2. CallOK(d, c, observed[d])
    BY <1>1, PipelineFacts DEF CallOK, Pipeline, Answers
  <1>3. observed' = [observed EXCEPT ![d] = observed[d]] /\ observed[d] \in Int
    BY DeviceFacts
  <1> QED BY <1>2, <1>3, StepSound, ZenonT(30)

(* A handler that ends with an error, and an answer that is lost. *)
LEMMA IdleSound ==
  ASSUME LogOK, DeviceTypes, NEW d \in Devices, Sound(d), Step(d, Idle), UNCHANGED observed
  PROVE  /\ DeviceTypes' /\ Sound(d)'
         /\ \A x \in Devices \ {d} : Same(x)
         /\ UNCHANGED logvars
  <1>1. Idle \in Calls /\ Idle.at = "idle"
    BY DEF Idle, Calls
  <1>2. phase[d] = "in" => LoggedIn(d, Idle, observed[d])
    BY <1>1, DeviceFacts DEF LoggedIn, Pipeline, CallOK
  <1>3. CallOK(d, Idle, observed[d])
    BY <1>1, <1>2, DeviceFacts DEF CallOK, Pipeline, Answers
  <1>4. observed' = [observed EXCEPT ![d] = observed[d]] /\ observed[d] \in Int
    BY DeviceFacts
  <1> QED BY <1>1, <1>3, <1>4, StepSound, ZenonT(30)

(* pts_total_limit: the answer restarts the device, or the call goes on. *)
LEMMA MeasureSound ==
  ASSUME LogOK, DeviceTypes, NEW d \in Devices, Sound(d), MeasureGap(d)
  PROVE  /\ DeviceTypes' /\ Sound(d)'
         /\ \A x \in Devices \ {d} : Same(x)
         /\ UNCHANGED logvars
  <1>1. call[d].at \in Pipeline /\ UNCHANGED observed
    BY DEF MeasureGap, Pipeline
  <1>2. CASE watermark - call[d].from > TotalLimit
    <2>1. Step(d, Answer("too_long", watermark, {}))
      BY <1>2 DEF MeasureGap
    <2> QED BY <1>1, <2>1, DeviceFacts, EndSound
  <1>3. CASE ~ (watermark - call[d].from > TotalLimit)
    <2> DEFINE c == [call[d] EXCEPT !.at = "current"]
    <2>1. Step(d, c)
      BY <1>3 DEF MeasureGap
    <2>2. c \in Calls /\ c.at \in Pipeline /\ c.from = call[d].from
      BY DeviceFacts DEF Calls, Pipeline
    <2> HIDE DEF c
    <2> QED BY <1>1, <2>1, <2>2, AdvanceSound
  <1> QED BY <1>2, <1>3

(* Reading the account's state. *)
LEMMA CurrentSound ==
  ASSUME LogOK, DeviceTypes, NEW d \in Devices, Sound(d), ReadCurrent(d)
  PROVE  /\ DeviceTypes' /\ Sound(d)'
         /\ \A x \in Devices \ {d} : Same(x)
         /\ UNCHANGED logvars
  <1> DEFINE c == [at |-> "probe", from |-> call[d].from, st |-> watermark, events |-> {}]
  <1>1. call[d].at \in Pipeline /\ UNCHANGED observed /\ Step(d, c)
    BY DEF ReadCurrent, Pipeline
  <1>2. c \in Calls /\ c.at \in Pipeline /\ c.from = call[d].from
    BY DeviceFacts DEF Calls, Pipeline
  <1> HIDE DEF c
  <1> QED BY <1>1, <1>2, AdvanceSound

(* The checkpoint covers only what the device said it owned. *)
LEMMA ProbeSound ==
  ASSUME LogOK, DeviceTypes, NEW d \in Devices, Sound(d), Probe(d)
  PROVE  /\ DeviceTypes' /\ Sound(d)'
         /\ \A x \in Devices \ {d} : Same(x)
         /\ UNCHANGED logvars
  <1>1. call[d].at \in Pipeline /\ UNCHANGED observed
    BY DEF Probe, Pipeline
  <1> DEFINE c == [call[d] EXCEPT !.at = "list"]
  <1>2. \/ Step(d, Idle)
        \/ CheckpointFound(d) /\ Step(d, Answer("difference", floor, {}))
        \/ Step(d, c)
        \/ Step(d, Answer("difference", call[d].from, {}))
    BY DEF Probe
  <1>3. CASE Step(d, Idle)
    BY <1>1, <1>3, IdleSound
  <1>4. CASE CheckpointFound(d) /\ Step(d, Answer("difference", floor, {}))
    <2>1. phase[d] = "in" => PtsUpTo(floor) \subseteq received[d]
      BY <1>1, PipelineFacts DEF Owns
    <2> QED BY <1>1, <1>4, <2>1, DeviceFacts, EndSound
  <1>5. CASE Step(d, c)
    <2>1. c \in Calls /\ c.at \in Pipeline /\ c.from = call[d].from
      BY DeviceFacts DEF Calls, Pipeline
    <2> HIDE DEF c
    <2> QED BY <1>1, <1>5, <2>1, AdvanceSound
  <1>6. CASE Step(d, Answer("difference", call[d].from, {}))
    <2>1. phase[d] = "in" => PtsUpTo(call[d].from) \subseteq received[d]
      BY <1>1, PipelineFacts DEF Owns
    <2>2. 0 <= call[d].from /\ call[d].from <= watermark
      BY <1>1, PipelineFacts
    <2> QED BY <1>1, <1>6, <2>1, <2>2, DeviceFacts, EndSound
  <1> QED BY <1>2, <1>3, <1>4, <1>5, <1>6

(* ListAfter with a limit returns the first events: with one it returns all
   those before it. *)
LEMMA FirstClosed ==
  ASSUME NEW E \in SUBSET Events, IsFiniteSet(E), NEW n \in Nat,
         NEW e \in FirstOf(E, n), NEW f \in E, f.pts <= e.pts
  PROVE  f \in FirstOf(E, n)
  <1> DEFINE A == {g \in E : g.pts <= f.pts}
             B == {g \in E : g.pts <= e.pts}
  <1>1. A \subseteq B /\ B \subseteq E
    BY DEF FirstOf, Events
  <1>2. IsFiniteSet(B)
    BY <1>1, FS_Subset
  <1>3. Cardinality(A) <= Cardinality(B) /\ IsFiniteSet(A)
    BY <1>1, <1>2, FS_Subset
  <1>4. Cardinality(A) \in Nat /\ Cardinality(B) \in Nat
    BY <1>2, <1>3, FS_CardinalityType
  <1>5. Cardinality(B) <= n
    BY DEF FirstOf
  <1>6. Cardinality(A) <= n
    BY <1>3, <1>4, <1>5
  <1> QED BY <1>6 DEF FirstOf

(* So is the contiguous prefix of what was read. *)
LEMMA ContiguousClosed ==
  ASSUME NEW E \in SUBSET Events, NEW p \in Int,
         NEW e \in Contiguous(p, E), NEW f \in E, p < f.pts, f.pts <= e.pts
  PROVE  f \in Contiguous(p, E)
  <1>1. e \in Events /\ f \in Events /\ e \in After(p, E) /\ f \in After(p, E)
    BY DEF Contiguous, After
  <1>2. \A g \in After(p, E) : g.pts <= f.pts => g.pts <= e.pts
    BY <1>1 DEF After, Events
  <1> QED BY <1>1, <1>2, Zenon DEF Contiguous

(* The events of a difference, and what the device has, are all the events
   up to the pts that it carries. *)
LEMMA ListSound ==
  ASSUME LogOK, DeviceTypes, NEW d \in Devices, Sound(d), List(d)
  PROVE  /\ DeviceTypes' /\ Sound(d)'
         /\ \A x \in Devices \ {d} : Same(x)
         /\ UNCHANGED logvars
  <1> DEFINE from == call[d].from
             E == After(from, Retained)
             read == FirstOf(E, DifferenceLimit)
             prefix == Contiguous(from, read)
             c == [call[d] EXCEPT !.at = "reprobe"]
  <1>1. call[d].at \in Pipeline /\ UNCHANGED observed
    BY DEF List, Pipeline
  <1>2. \/ Step(d, c)
        \/ \E e \in prefix : IsLast(e, prefix) /\ Step(d, Answer("difference", e.pts, prefix))
    BY DEF List
  <1>3. CASE Step(d, c)
    <2>1. c \in Calls /\ c.at \in Pipeline /\ c.from = call[d].from
      BY DeviceFacts DEF Calls, Pipeline
    <2> HIDE DEF c
    <2> QED BY <1>1, <1>3, <2>1, AdvanceSound
  <1>4. ASSUME NEW e \in prefix, Step(d, Answer("difference", e.pts, prefix))
        PROVE  /\ DeviceTypes' /\ Sound(d)'
               /\ \A x \in Devices \ {d} : Same(x)
               /\ UNCHANGED logvars
    <2>1. E \subseteq log /\ read \subseteq E /\ prefix \subseteq read /\ log \subseteq Events
      BY Zenon DEF Retained, After, FirstOf, Contiguous, LogOK
    <2>2. IsFiniteSet(E) /\ E \in SUBSET Events /\ read \in SUBSET Events
      BY <2>1, FS_Subset DEF LogOK
    <2>3. e \in log /\ e \in read /\ e.pts \in Nat /\ e.pts <= watermark
      BY <2>1 DEF LogOK, Events
    <2>4. ASSUME phase[d] = "in", NEW f \in log, f.pts <= e.pts
          PROVE  f.pts \in received[d] \/ f \in prefix
      <3>1. f.pts \in Nat /\ f \in Events
        BY <2>1 DEF Events
      <3>2. CASE f.pts <= from
        BY <1>1, <2>4, <3>2, PipelineFacts, ZenonT(30) DEF Owns, PtsUpTo
      <3>3. CASE f.pts <= floor
        BY <1>1, <2>4, <3>3, PipelineFacts, ZenonT(30) DEF Owns, PtsUpTo
      <3>4. CASE from < f.pts /\ floor < f.pts
        <4>1. f \in E
          BY <3>1, <3>4, DeviceFacts DEF After, Retained
        <4>2. DifferenceLimit \in Nat
          BY LogAssumption
        <4> HIDE DEF E
        <4>3. f \in read
          BY <2>2, <2>3, <2>4, <4>1, <4>2, FirstClosed
        <4> HIDE DEF read
        <4>4. from \in Int
          BY DeviceFacts
        <4> HIDE DEF from
        <4> QED BY <2>2, <2>4, <3>4, <4>3, <4>4, ContiguousClosed
      <3> QED BY <3>1, <3>2, <3>3, <3>4, DeviceFacts
    <2>5. phase[d] = "in" => PtsUpTo(e.pts) \subseteq received[d] \cup {g.pts : g \in prefix}
      BY <2>4, Zenon DEF PtsUpTo
    <2>6. prefix \in SUBSET Events /\ e.pts \in Int /\ 0 <= e.pts
      BY <2>1, <2>3
    <2> HIDE DEF prefix
    <2> QED BY <1>1, <1>4, <2>3, <2>5, <2>6, EndSound, Zenon
  <1> QED BY <1>2, <1>3, <1>4

(* An answer is written to the socket.  Its hook is due: the answer is the
   state that the device, which has no cursor, is about to adopt. *)
LEMMA WriteSound ==
  ASSUME LogOK, DeviceTypes, NEW d \in Devices, Sound(d), Hooked, WriteAnswer(d)
  PROVE  /\ DeviceTypes' /\ Sound(d)' /\ Hooked'
         /\ \A x \in Devices \ {d} : Same(x)
         /\ UNCHANGED logvars
  <1> DEFINE c == [call[d] EXCEPT !.from = 1]
             B == IF call[d].at = "state" /\ d \in Audited /\ call[d].st > observed[d]
                  THEN {call[d].st} ELSE {}
  <1>1. /\ call[d].at \in Answers /\ UNCHANGED <<logvars, phase, cursor, received, observed>>
        /\ call' = [call EXCEPT ![d] = c] /\ call'[d] = c
        /\ baselines' = [baselines EXCEPT ![d] = baselines[d] \cup B]
    BY DEF WriteAnswer, DeviceTypes, Hooked
  <1>2. c \in Calls /\ c.at = call[d].at /\ c.st = call[d].st /\ c.events = call[d].events
    BY DeviceFacts DEF Calls
  <1>3. B \subseteq {call[d].st} /\ (call[d].at # "state" => B = {})
    OBVIOUS
  <1> HIDE DEF B, c
  <1>4. Moves(d, c) /\ observed' = [observed EXCEPT ![d] = observed[d]]
    BY <1>1, DeviceFacts, Zenon DEF Moves
  <1>5. CallOK(d, c, observed[d])
    <2>1. CallOK(d, call[d], observed[d]) /\ phase[d] # "new"
      BY <1>1, DeviceFacts DEF CallOK, Idle, Answers
    <2>2. c.at \notin Pipeline
      BY <1>1, <1>2 DEF Answers, Pipeline
    <2> QED BY <1>1, <1>2, <2>1, <2>2, Zenon DEF CallOK, LoggedIn
  <1>6. \A x \in Devices \ {d} : baselines'[x] = baselines[x]
    BY <1>1 DEF Hooked
  <1>7. DeviceTypes' /\ Sound(d)' /\ (\A x \in Devices \ {d} : Same(x)) /\ UNCHANGED logvars
    BY <1>2, <1>4, <1>5, DeviceFacts, MoveSound, Zenon
  <1>8. /\ baselines' \in [Devices -> SUBSET Int]
        /\ baselines'[d] = baselines[d] \cup B
    BY <1>1, <1>3, DeviceFacts DEF Hooked
  <1>9. ASSUME NEW x \in Devices, NEW p \in Int, Due(x, p)
        PROVE  Due(x, p)'
    <2>1. PtsUpTo(p)' = PtsUpTo(p)
      BY <1>1, UpToSame, Zenon DEF logvars
    <2>2. call'[x].at = call[x].at /\ call'[x].st = call[x].st
      BY <1>1, <1>2 DEF DeviceTypes
    <2> QED BY <1>1, <1>9, <2>1, <2>2, Zenon DEF Due, Owns, logvars
  <1>10. ASSUME NEW p \in B
         PROVE  Due(d, p)
    <2>1. p = call[d].st /\ call[d].at = "state"
      BY <1>3
    <2>2. p <= watermark /\ phase[d] # "new"
      BY <1>1, <2>1, DeviceFacts DEF CallOK, Idle
    <2>3. phase[d] = "in" => cursor[d] = NoCursor
      BY <2>1, DeviceFacts, Zenon DEF CallOK, LoggedIn
    <2>4. p <= call[d].st
      BY <2>1, DeviceFacts
    <2> QED BY <2>2, <2>3, <2>4, Zenon DEF Due
  <1>11. ASSUME NEW x \in Devices, NEW p \in baselines'[x]
         PROVE  Due(x, p)'
    <2>1. p \in Int
      BY <1>8
    <2>2. p \in baselines[x] \/ (x = d /\ p \in B)
      BY <1>6, <1>8
    <2> QED BY <1>9, <1>10, <2>1, <2>2, Zenon DEF Hooked
  <1> QED BY <1>7, <1>8, <1>11, Zenon DEF Hooked

(* A hook runs, at whatever time: retention may rely on its pts. *)
LEMMA HookSound ==
  ASSUME LogOK, DeviceTypes, NEW d \in Devices, Sound(d), Hooked, CommitDeliveredState(d)
  PROVE  /\ DeviceTypes' /\ Sound(d)' /\ Hooked'
         /\ \A x \in Devices \ {d} : Same(x)
         /\ UNCHANGED logvars
  <1>1. PICK p \in baselines[d] :
          /\ observed' = [observed EXCEPT ![d] = Greatest(observed[d], p)]
          /\ baselines' = [baselines EXCEPT ![d] = {q \in baselines[d] : q > p}]
          /\ UNCHANGED <<logvars, phase, cursor, received, call>>
    BY DEF CommitDeliveredState, DeviceTypes, Hooked
  <1> DEFINE o == Greatest(observed[d], p)
  <1>2. p \in Int /\ Due(d, p)
    BY Zenon DEF Hooked
  <1>3. o \in Int /\ (o = observed[d] \/ o = p) /\ observed[d] <= o
    BY <1>2, DeviceFacts DEF Greatest
  <1> HIDE DEF o
  <1>4. observed' = [observed EXCEPT ![d] = o]
    BY <1>1 DEF o
  <1>5. Moves(d, call[d])
    <2>1. call = [call EXCEPT ![d] = call[d]]
      BY DEF DeviceTypes
    <2> QED BY <1>1, <2>1, Zenon DEF Moves
  <1>6. CallOK(d, call[d], o)
    <2>1. CallOK(d, call[d], observed[d])
      BY DeviceFacts
    <2>2. phase[d] = "in" => floor <= o
      BY <1>3, <2>1, DeviceFacts DEF CallOK, LoggedIn
    <2>3. phase[d] = "in" => LoggedIn(d, call[d], o)
      BY <1>2, <1>3, <2>1, <2>2, Zenon DEF CallOK, LoggedIn, Due
    <2> QED BY <1>2, <1>3, <2>1, <2>3, Zenon DEF CallOK, Due
  <1>7. DeviceTypes' /\ Sound(d)' /\ (\A x \in Devices \ {d} : Same(x)) /\ UNCHANGED logvars
    BY <1>3, <1>4, <1>5, <1>6, DeviceFacts, MoveSound, Zenon
  <1>8. /\ baselines' \in [Devices -> SUBSET Int]
        /\ \A x \in Devices : baselines'[x] \subseteq baselines[x]
    BY <1>1 DEF Hooked
  <1>9. \A x \in Devices : Carries(x)
    BY <1>1, Zenon DEF Carries
  <1>10. /\ watermark' \in Nat /\ watermark <= watermark'
         /\ \A q \in Int : q <= watermark => PtsUpTo(q)' = PtsUpTo(q)
    BY <1>1, UpToSame, DeviceFacts DEF logvars
  <1>11. Hooked'
    BY <1>8, <1>9, <1>10, HooksKept, Zenon
  <1> QED BY <1>7, <1>11

-----------------------------------------------------------------------------
(* The device *)

(* The device takes an answer: all it passes is in the answer, or it has it. *)
LEMMA TakeSound ==
  ASSUME LogOK, DeviceTypes, NEW d \in Devices, Sound(d), TakeAnswer(d)
  PROVE  /\ DeviceTypes' /\ Sound(d)'
         /\ \A x \in Devices \ {d} : Same(x)
         /\ UNCHANGED logvars
  <1> DEFINE c == call[d]
             E == IF c.at = "difference" THEN {e.pts : e \in c.events} ELSE PtsUpTo(c.st)
  <1>1. c.at \in Answers /\ UNCHANGED <<logvars, phase, observed>>
    BY DEF TakeAnswer
  <1>2. log \subseteq Events /\ c.events \subseteq Events
    BY DeviceFacts DEF LogOK, Calls
  <1>3. E \subseteq Nat
    <2>1. {e.pts : e \in c.events} \subseteq Nat
      BY <1>2 DEF Events
    <2>2. PtsUpTo(c.st) \subseteq Nat
      BY NoneBelow, DeviceFacts, ZenonT(30)
    <2> QED BY <2>1, <2>2, ZenonT(30)
  <1>4. Idle \in Calls /\ Idle.at = "idle"
    BY DEF Idle, Calls
  <1>5. call' = [call EXCEPT ![d] = Idle] /\ call'[d] = Idle
    BY DEF TakeAnswer, DeviceTypes
  <1>6. /\ cursor' = [cursor EXCEPT ![d] = cursor'[d]]
        /\ received' = [received EXCEPT ![d] = received'[d]]
        /\ phase[d] = "in" =>
             cursor'[d] = Greatest(cursor[d], c.st) /\ received'[d] = received[d] \cup E
        /\ phase[d] # "in" => cursor'[d] = cursor[d] /\ received'[d] = received[d]
    BY DEF TakeAnswer, DeviceTypes
  <1> HIDE DEF E
  <1>7. cursor'[d] \in Int /\ received'[d] \subseteq Nat
    BY <1>3, <1>6, DeviceFacts DEF Greatest
  <1>8. DeviceTypes'
    BY <1>1, <1>4, <1>5, <1>6, <1>7 DEF DeviceTypes
  <1>9. \A x \in Devices \ {d} : Same(x)
    BY <1>1, <1>5, <1>6 DEF Same, DeviceTypes
  <1>10. \A p : PtsUpTo(p)' = PtsUpTo(p)
    BY <1>1, UpToSame, ZenonT(30) DEF logvars
  <1>11. CASE phase[d] # "in"
    <2>1. phase[d] # "new"
      BY <1>1, DeviceFacts DEF CallOK, Idle, Answers
    <2>2. CallOK(d, call[d], observed[d])'
      BY <1>1, <1>4, <1>5, <1>11, <2>1, DeviceFacts DEF CallOK, Pipeline, Answers, logvars
    <2>3. Sound(d)'
      BY <1>1, <1>6, <1>10, <1>11, <2>2, ZenonT(30) DEF Sound, Owns, logvars
    <2> QED BY <1>1, <1>8, <1>9, <2>3
  <1>12. CASE phase[d] = "in"
    <2>1. LoggedIn(d, c, observed[d]) /\ 0 <= c.st /\ c.st <= watermark
      BY <1>1, <1>12, DeviceFacts DEF CallOK
    <2>2. PtsUpTo(c.st) \subseteq received'[d] /\ PtsUpTo(cursor[d]) \subseteq received'[d]
      BY <1>1, <1>6, <1>12, <2>1, ZenonT(30) DEF E, LoggedIn, Sound, Owns
    <2>3. /\ cursor'[d] = c.st \/ cursor'[d] = cursor[d]
          /\ -1 <= cursor'[d] /\ cursor'[d] <= watermark
      BY <1>6, <1>12, <2>1, DeviceFacts DEF Greatest, Sound
    <2>4. PtsUpTo(observed[d]) \subseteq received'[d]
      <3>1. CASE cursor[d] # NoCursor
        BY <1>6, <1>12, <2>1, <3>1, Zenon DEF LoggedIn, Owns
      <3>2. CASE cursor[d] = NoCursor
        <4>1. observed[d] <= c.st
          BY <1>1, <2>1, <3>2, ZenonT(30) DEF LoggedIn, Answers
        <4> QED BY <1>2, <2>2, <4>1, DeviceFacts, UpToMonotone
      <3> QED BY <3>1, <3>2
    <2>5. CallOK(d, call[d], observed[d])'
      BY <1>1, <1>4, <1>5, <1>10, <1>12, <2>1, <2>4, DeviceFacts, ZenonT(30)
         DEF CallOK, LoggedIn, Owns, Pipeline, Answers, logvars
    <2>6. Sound(d)'
      BY <1>1, <1>10, <1>12, <2>2, <2>3, <2>5, ZenonT(30) DEF Sound, Owns, logvars
    <2> QED BY <1>1, <1>8, <1>9, <2>6
  <1> QED BY <1>11, <1>12

(* Logging in, logging out, and an older copy of the local state. *)
LEMMA DeviceSound ==
  ASSUME LogOK, DeviceTypes, NEW d \in Devices, Sound(d),
         Bind(d) \/ LogOut(d) \/ ClearAuthKey(d) \/ LoseAnswer(d) \/ Restore(d)
  PROVE  /\ DeviceTypes' /\ Sound(d)'
         /\ \A x \in Devices \ {d} : Same(x)
         /\ UNCHANGED logvars
  <1>1. CASE LoseAnswer(d)
    BY <1>1, IdleSound DEF LoseAnswer
  <1>2. CASE Bind(d)
    <2>1. UNCHANGED <<logvars, cursor, call>> /\ phase[d] = "new"
      BY <1>2 DEF Bind
    <2>2. PtsUpTo(floor) \subseteq Nat
      BY NoneBelow, DeviceFacts
    <2>3. Greatest(observed[d], floor) \in Int
      BY DeviceFacts DEF Greatest
    <2>4. DeviceTypes' /\ \A x \in Devices \ {d} : Same(x)
      BY <1>2, <2>1, <2>2, <2>3 DEF Bind, DeviceTypes, Same
    <2>5. phase'[d] = "in" /\ observed'[d] = Greatest(observed[d], floor)
      BY <1>2 DEF Bind, DeviceTypes
    <2>6. call[d] = Idle /\ cursor[d] = NoCursor
      BY <2>1, DeviceFacts DEF CallOK, Sound
    <2>7. PtsUpTo(cursor[d])' = {}
      BY <2>1, <2>6, NoneBelow, ZenonT(30) DEF PtsUpTo, logvars
    <2>8. CallOK(d, call[d], observed[d])'
      BY <2>1, <2>5, <2>6, DeviceFacts
         DEF CallOK, LoggedIn, Idle, Pipeline, Answers, Greatest, logvars
    <2>9. Sound(d)'
      BY <2>1, <2>5, <2>6, <2>7, <2>8, DeviceFacts DEF Sound, Owns, logvars
    <2> QED BY <2>1, <2>4, <2>9
  <1>3. CASE LogOut(d) \/ ClearAuthKey(d)
    <2>1. UNCHANGED <<logvars, call>>
      BY <1>3 DEF LogOut, ClearAuthKey
    <2>2. DeviceTypes' /\ \A x \in Devices \ {d} : Same(x)
      BY <1>3, <2>1 DEF LogOut, ClearAuthKey, DeviceTypes, Same
    <2>3. phase'[d] \in {"leaving", "out"} /\ cursor'[d] = NoCursor
      BY <1>3 DEF LogOut, ClearAuthKey, DeviceTypes, Sound
    <2>4. observed'[d] <= watermark
      BY <1>3, DeviceFacts DEF LogOut, ClearAuthKey, DeviceTypes, CallOK
    <2>5. PtsUpTo(cursor[d])' = {}
      BY <2>1, <2>3, NoneBelow, ZenonT(30) DEF PtsUpTo, logvars
    <2>6. CallOK(d, call[d], observed[d])'
      BY <2>1, <2>3, <2>4, DeviceFacts DEF CallOK, logvars
    <2>7. Sound(d)'
      BY <2>1, <2>3, <2>5, <2>6, DeviceFacts DEF Sound, Owns, logvars
    <2> QED BY <2>1, <2>2, <2>7
  <1>4. CASE Restore(d)
    <2>1. PICK p \in {0} \cup PtsUpTo(watermark) :
            p < cursor[d] /\ cursor' = [cursor EXCEPT ![d] = p]
      BY <1>4, ZenonT(30) DEF Restore
    <2>2. p \in Nat
      BY <2>1, NoneBelow, DeviceFacts
    <2>3. UNCHANGED <<logvars, phase, observed, received, call>> /\ call[d] = Idle
          /\ phase[d] = "in" /\ cursor'[d] = p
      BY <1>4, <2>1 DEF Restore, DeviceTypes
    <2>4. DeviceTypes' /\ \A x \in Devices \ {d} : Same(x)
      BY <2>1, <2>2, <2>3 DEF DeviceTypes, Same
    <2>5. PtsUpTo(p) \subseteq received[d] /\ cursor[d] # NoCursor /\ cursor[d] <= watermark
      BY <2>1, <2>2, DeviceFacts, UpToMonotone DEF LogOK, Sound, Owns
    <2>6. \A q : PtsUpTo(q)' = PtsUpTo(q)
      BY <2>3, UpToSame, ZenonT(30) DEF logvars
    <2>7. CallOK(d, call[d], observed[d])'
      BY <2>3, <2>5, <2>6, DeviceFacts DEF CallOK, LoggedIn, Owns, Idle, Pipeline, Answers, logvars
    <2>8. Sound(d)'
      BY <2>1, <2>2, <2>3, <2>5, <2>6, <2>7, DeviceFacts DEF Sound, Owns, logvars
    <2> QED BY <2>3, <2>4, <2>8, Zenon
  <1> QED BY <1>1, <1>2, <1>3, <1>4

(* A push is taken by the devices for which it is the next event: nothing
   lies between their cursor and it. *)
LEMMA PushSound ==
  ASSUME LogOK, DeviceTypes, \A d \in Devices : Sound(d), NEW S \in SUBSET Devices,
         NEW e \in log, TakePush(S, e)
  PROVE  DeviceTypes' /\ \A d \in Devices : Sound(d)'
  <1> DEFINE T == {d \in S \cap Authorized : cursor[d] = e.pts - e.count}
  <1>1. /\ e.pts \in Nat /\ e.count \in Nat \ {0} /\ e.count <= e.pts /\ e.pts <= watermark
        /\ log \subseteq Events
    BY DEF LogOK, Events
  <1>2. UNCHANGED <<logvars, phase, observed, call>>
    BY ZenonT(30) DEF TakePush
  <1>3. ASSUME NEW d \in Devices
        PROVE  /\ cursor'[d] = IF d \in T THEN e.pts ELSE cursor[d]
               /\ received'[d] = IF d \in T THEN received[d] \cup {e.pts} ELSE received[d]
    BY Zenon DEF TakePush
  <1>4. DeviceTypes'
    <2>1. cursor' \in [Devices -> Int]
      BY <1>1 DEF TakePush, DeviceTypes
    <2>2. received' \in [Devices -> SUBSET Nat]
      BY <1>1 DEF TakePush, DeviceTypes
    <2> QED BY <1>2, <2>1, <2>2 DEF DeviceTypes
  <1>5. \A p : PtsUpTo(p)' = PtsUpTo(p)
    BY <1>2, UpToSame, ZenonT(30) DEF logvars
  <1>6. ASSUME NEW d \in Devices
        PROVE  Sound(d)'
    <2>1. CASE d \notin T
      <3>1. Same(d)
        BY <1>2, <1>3, <2>1, Zenon DEF Same
      <3> QED BY <1>2, <3>1, Frame DEF logvars
    <2>2. CASE d \in T
      <3>1. /\ phase[d] = "in" /\ cursor[d] = e.pts - e.count /\ cursor[d] # NoCursor
            /\ cursor'[d] = e.pts /\ received'[d] = received[d] \cup {e.pts}
        <4>1. phase[d] = "in" /\ cursor[d] = e.pts - e.count
          BY <2>2 DEF Authorized
        <4>2. cursor[d] # NoCursor
          BY <1>1, <4>1
        <4> HIDE DEF T
        <4> QED BY <1>3, <2>2, <4>1, <4>2, Zenon
      <3>2. LoggedIn(d, call[d], observed[d])
        BY <3>1, DeviceFacts DEF CallOK
      <3>3. ASSUME NEW f \in log, f.pts <= e.pts
            PROVE  f.pts \in received'[d]
        <4>1. f.pts \in Nat
          BY <1>1 DEF Events
        <4>2. f.pts < e.pts => f.pts <= cursor[d]
          BY <3>1 DEF LogOK
        <4>3. f.pts <= cursor[d] => f.pts \in received[d]
          BY ZenonT(30) DEF Sound, Owns, PtsUpTo
        <4> QED BY <1>1, <3>1, <3>3, <4>1, <4>2, <4>3
      <3>4. PtsUpTo(e.pts) \subseteq received'[d]
        BY <3>3, ZenonT(30) DEF PtsUpTo
      <3>5. LoggedIn(d, call[d], observed[d])'
        <4>1. /\ floor' = floor /\ observed'[d] = observed[d] /\ call'[d] = call[d]
              /\ received[d] \subseteq received'[d] /\ cursor'[d] # NoCursor
          <5>1. floor' = floor /\ observed'[d] = observed[d] /\ call'[d] = call[d]
            BY <1>2, Zenon DEF logvars
          <5>2. received[d] \subseteq received'[d]
            BY <3>1, ZenonT(30)
          <5>3. cursor'[d] # NoCursor
            BY <1>1, <3>1
          <5> QED BY <5>1, <5>2, <5>3, Zenon
        <4>2. call[d].at # "state"
          BY <3>1, <3>2 DEF LoggedIn
        <4> QED BY <1>5, <3>1, <3>2, <4>1, <4>2 DEF LoggedIn, Owns
      <3>6. CallOK(d, call[d], observed[d])'
        BY <1>2, <3>1, <3>5, DeviceFacts DEF CallOK, logvars
      <3>7. phase'[d] = "in" /\ watermark' = watermark /\ -1 <= e.pts
        BY <1>1, <1>2, <3>1 DEF logvars
      <3>8. PtsUpTo(cursor[d])' \subseteq received'[d]
        BY <1>5, <3>1, <3>4, Zenon
      <3> QED BY <1>1, <3>1, <3>6, <3>7, <3>8, Zenon DEF Sound, Owns
    <2> QED BY <2>1, <2>2
  <1> QED BY <1>4, <1>6

(* What d and its handlers do leaves the hooks due. *)
LEMMA DeviceCarries ==
  ASSUME LogOK, DeviceTypes, NEW d \in Devices, Sound(d),
         Ask(d) \/ Handle(d) \/ Take(d) \/ Device(d)
  PROVE  Carries(d) /\ UNCHANGED baselines
  <1>1. ASSUME NEW c, Step(d, c), c.at = "state" => c.st = watermark
        PROVE  Carries(d) /\ UNCHANGED baselines
    <2>1. /\ call'[d] = c
          /\ UNCHANGED <<watermark, phase, cursor, received, baselines>>
      BY <1>1 DEF Step, DeviceTypes, logvars
    <2> QED BY <1>1, <2>1, Zenon DEF Carries
  <1>2. CASE GetState(d)
    BY <1>1, <1>2 DEF GetState, Answer
  <1>3. CASE GetDifference(d)
    BY <1>1, <1>3 DEF GetDifference
  <1>4. CASE Handle(d)
    <2> DEFINE c(at) == [call[d] EXCEPT !.at = at]
    <2>1. \A at : at # "state" => c(at).at # "state"
      BY DEF DeviceTypes, Calls
    <2>2. Idle.at # "state" /\ \A how, p, E : how # "state" => Answer(how, p, E).at # "state"
      BY DEF Idle, Answer
    <2>3. CASE ObserveDifferenceRequest(d)
      BY <1>1, <2>1, <2>3 DEF ObserveDifferenceRequest
    <2>4. CASE MeasureGap(d)
      BY <1>1, <2>1, <2>2, <2>4 DEF MeasureGap
    <2>5. CASE ReadCurrent(d)
      BY <1>1, <2>5 DEF ReadCurrent
    <2>6. CASE Probe(d)
      <3>1. \/ Step(d, Idle) \/ Step(d, c("list")) \/ \E p : Step(d, Answer("difference", p, {}))
        BY <2>6 DEF Probe
      <3> QED BY <1>1, <2>1, <2>2, <3>1
    <2>7. CASE List(d)
      <3>1. Step(d, c("reprobe")) \/ \E p, E : Step(d, Answer("difference", p, E))
        BY <2>7, ZenonT(30) DEF List
      <3> QED BY <1>1, <2>1, <2>2, <3>1
    <2> QED BY <1>4, <2>3, <2>4, <2>5, <2>6, <2>7 DEF Handle
  <1>5. CASE TakeAnswer(d)
    <2>1. /\ call[d].at \in Answers /\ UNCHANGED <<phase, baselines>>
          /\ call'[d] = Idle
      BY <1>5 DEF TakeAnswer, DeviceTypes
    <2>2. Idle.at # "state"
      BY DEF Idle
    <2>3. received[d] \subseteq received'[d]
      BY <1>5 DEF TakeAnswer, DeviceTypes
    <2>4. ASSUME phase[d] = "in", cursor[d] = NoCursor
          PROVE  call[d].at = "state" /\ PtsUpTo(call[d].st) \subseteq received'[d]
      <3>1. call[d].at = "state"
        BY <2>1, <2>4, DeviceFacts, Zenon DEF CallOK, LoggedIn, Answers
      <3> QED BY <1>5, <2>4, <3>1 DEF TakeAnswer, DeviceTypes
    <2> QED BY <2>1, <2>2, <2>3, <2>4, Zenon DEF Carries
  <1>6. CASE LoseAnswer(d)
    BY <1>1, <1>6 DEF LoseAnswer, Idle
  <1>7. CASE Bind(d) \/ LogOut(d) \/ ClearAuthKey(d)
    <2>1. UNCHANGED baselines /\ (phase[d] = "new" \/ phase'[d] \in {"leaving", "out"})
      BY <1>7 DEF Bind, LogOut, ClearAuthKey, DeviceTypes
    <2> QED BY <2>1 DEF Carries
  <1>8. CASE Restore(d)
    <2>1. UNCHANGED <<phase, received, call, baselines>>
      BY <1>8, Zenon DEF Restore
    <2>2. PICK p \in {0} \cup PtsUpTo(watermark) : p < cursor[d]
      BY <1>8, Zenon DEF Restore
    <2>3. p \in Nat
      BY NoneBelow, DeviceFacts
    <2>4. cursor[d] # NoCursor
      BY <2>2, <2>3
    <2> QED BY <2>1, <2>4, Zenon DEF Carries
  <1> QED BY <1>2, <1>3, <1>4, <1>5, <1>6, <1>7, <1>8 DEF Ask, Take, Device

-----------------------------------------------------------------------------
(* Every step keeps the invariant. *)
LEMMA UStep ==
  ASSUME UInv, [Next]_vars
  PROVE  UInv'
  <1>1. /\ LaneInv' /\ LogOK /\ DeviceTypes /\ Hooked
        /\ \A d \in Devices : Sound(d)
    BY LaneStep DEF UInv, LaneInv
  <1>2. ASSUME UNCHANGED <<watermark, log>> \/ CommitAppend, UNCHANGED baselines,
               \A x \in Devices : Carries(x)
        PROVE  Hooked'
    <2>1. \A p \in Int : p <= watermark => PtsUpTo(p)' = PtsUpTo(p)
      BY <1>1, <1>2, UpToSame, UpToCommit
    <2>2. watermark' \in Nat /\ watermark <= watermark'
      BY <1>1, <1>2 DEF LogOK, CommitAppend, Events
    <2>3. /\ baselines' \in [Devices -> SUBSET Int]
          /\ \A x \in Devices : baselines'[x] \subseteq baselines[x]
      BY <1>1, <1>2 DEF Hooked
    <2> QED BY <1>1, <1>2, <2>1, <2>2, <2>3, HooksKept, Zenon
  <1>3. ASSUME NEW d \in Devices, DeviceTypes', Sound(d)', Hooked',
               \A x \in Devices \ {d} : Same(x), UNCHANGED logvars
        PROVE  UInv'
    <2>1. \A x \in Devices \ {d} : Sound(x)'
      BY <1>1, <1>3, Frame DEF logvars
    <2> QED BY <1>1, <1>3, <2>1 DEF UInv
  <1>4. ASSUME UNCHANGED <<watermark, log>> \/ CommitAppend, UNCHANGED devicevars
        PROVE  DeviceTypes' /\ Hooked' /\ \A d \in Devices : Same(d)
    <2>1. (\A d \in Devices : Same(d)) /\ UNCHANGED baselines
      BY <1>4, Zenon DEF Same, devicevars
    <2>2. DeviceTypes'
      BY <1>1, <1>4 DEF DeviceTypes, devicevars
    <2> QED BY <1>2, <1>4, <2>1, <2>2, SameCarries
  <1>5. ASSUME UNCHANGED <<watermark, log, floor, devicevars>>
        PROVE  UInv'
    BY <1>1, <1>4, <1>5, Frame DEF UInv
  <1>6. CASE \E n \in Counts, dispatch \in BOOLEAN : Append(n, dispatch)
    BY <1>5, <1>6 DEF Append, BeginAppend
  <1>7. CASE Commit
    <2>1. CommitAppend /\ UNCHANGED devicevars
      BY <1>7 DEF Commit
    <2> QED BY <1>1, <1>4, <2>1, CommitSound DEF UInv
  <1>8. CASE \E e \in log : Prune(e)
    <2>1. PICK e \in log : PruneConfirmedPrefix(e)
      BY <1>8 DEF Prune
    <2>2. UNCHANGED <<watermark, log, devicevars>>
      BY <2>1, Zenon DEF PruneConfirmedPrefix
    <2> QED BY <1>1, <1>4, <2>1, <2>2, PruneSound DEF UInv
  <1>9. ASSUME NEW d \in Devices, Ask(d) \/ Handle(d) \/ Take(d) \/ Device(d),
               DeviceTypes', Sound(d)', \A x \in Devices \ {d} : Same(x), UNCHANGED logvars
        PROVE  UInv'
    <2>1. Carries(d) /\ UNCHANGED baselines
      BY <1>1, <1>9, DeviceCarries
    <2>2. \A x \in Devices : Carries(x)
      BY <1>9, <2>1, SameCarries
    <2>3. Hooked'
      BY <1>2, <1>9, <2>1, <2>2 DEF logvars
    <2> QED BY <1>3, <1>9, <2>3
  <1>10. ASSUME NEW d \in Devices, Ask(d)
         PROVE  UInv'
    BY <1>1, <1>9, <1>10, AskSound DEF Ask
  <1>11. ASSUME NEW d \in Devices, Handle(d)
         PROVE  UInv'
    <2>1. CASE ObserveDifferenceRequest(d)
      BY <1>1, <1>9, <1>11, <2>1, ObserveSound
    <2>2. CASE MeasureGap(d)
      BY <1>1, <1>9, <1>11, <2>2, MeasureSound
    <2>3. CASE ReadCurrent(d)
      BY <1>1, <1>9, <1>11, <2>3, CurrentSound
    <2>4. CASE Probe(d)
      BY <1>1, <1>9, <1>11, <2>4, ProbeSound
    <2>5. CASE List(d)
      BY <1>1, <1>9, <1>11, <2>5, ListSound
    <2> QED BY <1>11, <2>1, <2>2, <2>3, <2>4, <2>5 DEF Handle
  <1>12. ASSUME NEW d \in Devices, Deliver(d) \/ RunHook(d)
         PROVE  UInv'
    <2>1. CASE WriteAnswer(d)
      BY <1>1, <1>3, <2>1, WriteSound
    <2>2. CASE CommitDeliveredState(d)
      BY <1>1, <1>3, <2>2, HookSound
    <2> QED BY <1>12, <2>1, <2>2 DEF Deliver, RunHook
  <1>13. ASSUME NEW d \in Devices, Take(d)
         PROVE  UInv'
    BY <1>1, <1>9, <1>13, TakeSound DEF Take
  <1>14. ASSUME NEW d \in Devices, Device(d)
         PROVE  UInv'
    BY <1>1, <1>9, <1>14, DeviceSound DEF Device
  <1>15. CASE \E w \in Workers, S \in SUBSET Devices : Push(w, S)
    <2>1. PICK w \in Workers, S \in SUBSET Devices : Push(w, S)
      BY <1>15
    <2>2. \E e \in log : e.pts = lease[w].pts
      BY <2>1 DEF Push, PushSucceeds, UInv, LaneInv, LeasesOK
    <2>3. PICK e \in log : TakePush(S, e)
      BY <2>1, <2>2 DEF Push
    <2>4. e.pts - e.count # NoCursor
      BY <1>1 DEF LogOK, Events
    <2>5. \A x \in Devices : Carries(x)
      BY <1>1, <2>3, <2>4, Zenon DEF TakePush, Carries
    <2>6. Hooked'
      BY <1>2, <2>3, <2>5, Zenon DEF TakePush, logvars
    <2> QED BY <1>1, <2>3, <2>6, PushSound DEF UInv
  <1>16. CASE \E w \in Workers : ClaimHead(w) \/ Load(w) \/ Mark(w) \/ Fail(w)
    BY <1>5, <1>16, Zenon DEF ClaimHead, Load, Mark, Fail, logvars
  <1>17. CASE Sweep \/ UNCHANGED vars
    BY <1>5, <1>17, Zenon DEF Sweep, vars, logvars
  <1> QED
    BY <1>6, <1>7, <1>8, <1>10, <1>11, <1>12, <1>13, <1>14, <1>15, <1>16, <1>17 DEF Next

(* The inductive invariant of the devices, the log and the lane. *)
THEOREM UInvHolds == Spec => []UInv
  BY UInit, UStep, PTL DEF Spec

(* No device's cursor passes an event that it was not given, whatever is
   appended, pruned, pushed, lost or answered meanwhile. *)
THEOREM NothingSkippedHolds == Spec => []NothingSkipped
  <1>1. UInv => NothingSkipped
    BY DEF UInv, Sound, Owns, NothingSkipped
  <1> QED BY <1>1, UInvHolds, PTL

=============================================================================
