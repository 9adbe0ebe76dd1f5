------------------------- MODULE RPCPipelineProofs -------------------------
(***************************************************************************)
(* Proofs about the parts of the RPC path around the execution ledger, one *)
(* section each:                                                           *)
(*  - the admission tracker: its floor, for any number of admissions,      *)
(*    scans and shards and any width of the sequence;                      *)
(*  - the delivery hook executor, for any number of tickets and workers;   *)
(*  - the delivery of a result: its hook runs at most once and only after  *)
(*    a write, and its deferral has an owner, for any set of replays.      *)
(***************************************************************************)
EXTENDS RPCAdmissionTracker, RPCDeliveryHooks, RPCResultDelivery,
        FiniteSetTheorems, TLAPS

(* Every leaf that names no prover: Zenon, then SMT, which is tried again as Z3
   when the translation ran out of time. *)
USE ZenonT(10), SMTT(30), Z3T(30)

-----------------------------------------------------------------------------
(* The admission tracker *)

(* The barrier excludes admissions from a scan and scans from each other. *)
Barrier ==
  /\ Readers # {} => Writers = {}
  /\ \A s, t \in Writers : s = t

(* An admission has a sequence once it claimed one, and shares it with no
   other; exactly the active ones are registered. *)
Sequences ==
  /\ \A o \in Owners :
       /\ owner[o] \in {"claimed", "active", "retired"} <=> seq[o] # 0
       /\ seq[o] <= nextSeq
  /\ \A o, p \in Owners : seq[o] = seq[p] /\ seq[o] # 0 => o = p
  /\ \A o \in Owners : owner[o] = "active" => seq[o] \in active
  /\ \A n \in active : \E o \in Owners : owner[o] = "active" /\ seq[o] = n

(* What a scan knows of the shards it has visited. *)
Scanned ==
  /\ \A s \in Scans : scan[s] = "new" => at[s] = 0 /\ minimum[s] = 0
  /\ \A s \in Scans : minimum[s] <= nextSeq
  /\ \A s \in Writers, o \in Owners :
       owner[o] = "active" /\ ShardOf(seq[o]) < at[s]
         => minimum[s] # 0 /\ minimum[s] <= seq[o]
  /\ \A s \in Scans, t \in Writers :
       scan[s] = "done" /\ minimum[t] # 0 => floor[s] <= minimum[t]

(* The inductive invariant of the tracker. *)
TInv == TrackerTypeOK /\ Barrier /\ Sequences /\ Scanned /\ FloorSafe

(* A sequence lies in one of the shards a scan visits. *)
LEMMA ShardRange ==
  ASSUME NEW n \in Nat
  PROVE  ShardOf(n) \in 0..(NumShards - 1)
  BY TrackerAssumption DEF ShardOf

(* The invariant holds before the first admission. *)
LEMMA TInit ==
  ASSUME TrackerInit
  PROVE  TInv
  <1>1. Readers = {} /\ Writers = {} /\ InFlight = {}
    BY DEF TrackerInit, Readers, Writers, InFlight
  <1> QED
    BY <1>1, TrackerAssumption
       DEF TrackerInit, TInv, TrackerTypeOK, Barrier, Sequences, Scanned, FloorSafe, InFlight

(* Types are kept by every step. *)
LEMMA TTypes ==
  ASSUME TrackerTypeOK, Sequences, [TrackerNext]_trackerVars
  PROVE  TrackerTypeOK'
  <1> USE TrackerAssumption DEF TrackerTypeOK
  <1>1. ASSUME NEW o \in Owners, EnterBarrier(o) \/ Exhausted(o)
        PROVE  TrackerTypeOK'
    BY <1>1, Zenon DEF EnterBarrier, Exhausted, scanVars
  <1>2. ASSUME NEW o \in Owners, Claim(o)
        PROVE  TrackerTypeOK'
    BY <1>2 DEF Claim, scanVars
  <1>3. ASSUME NEW s \in Scans, BeginScan(s)
        PROVE  TrackerTypeOK'
    BY <1>3 DEF BeginScan
  <1>4. ASSUME NEW s \in Scans, ScanShard(s)
        PROVE  TrackerTypeOK'
    <2>1. at' \in [Scans -> 0..NumShards]
      <3>1. at' = [at EXCEPT ![s] = @ + 1] /\ at[s] < NumShards
        BY <1>4 DEF ScanShard
      <3>2. at[s] + 1 \in 0..NumShards
        BY <3>1
      <3> QED BY <3>1, <3>2
    <2>2. ASSUME NEW m \in Candidates(s)
          PROVE  m \in 0..MaxSeq
      <3>1. m \in active \/ m = minimum[s]
        BY <2>2 DEF Candidates, ActiveIn
      <3>2. \A n \in active : n \in 0..MaxSeq
        BY DEF TrackerTypeOK
      <3> QED BY <3>1, <3>2, Zenon
    <2>3. minimum' = minimum
          \/ \E m \in 0..MaxSeq : minimum' = [minimum EXCEPT ![s] = m]
      BY <1>4, <2>2 DEF ScanShard
    <2>4. minimum' \in [Scans -> 0..MaxSeq]
      BY <2>3
    <2> QED BY <1>4, <2>1, <2>4 DEF ScanShard
  <1>5. ASSUME NEW s \in Scans, EndScan(s)
        PROVE  TrackerTypeOK'
    <2>1. FloorOf(s) \in 0..MaxSeq
      BY DEF FloorOf
    <2> QED BY <1>5, <2>1 DEF EndScan
  <1>6. CASE UNCHANGED trackerVars
    BY <1>6 DEF trackerVars, scanVars
  <1>7. ASSUME NEW o \in Owners, Retire(o)
        PROVE  TrackerTypeOK'
    BY <1>7, Zenon DEF Retire, scanVars
  <1>8. ASSUME NEW o \in Owners, Register(o)
        PROVE  TrackerTypeOK'
    <2>1. seq[o] \in 1..MaxSeq
      BY <1>8 DEF Register, Sequences
    <2> QED BY <1>8, <2>1, Zenon DEF Register, scanVars
  <1> QED
    BY <1>1, <1>2, <1>3, <1>4, <1>5, <1>6, <1>7, <1>8 DEF TrackerNext

(* A step of an admission keeps the invariant. *)
LEMMA OwnerSteps ==
  ASSUME TInv, TrackerTypeOK', NEW o \in Owners,
         EnterBarrier(o) \/ Claim(o) \/ Exhausted(o) \/ Register(o) \/ Retire(o)
  PROVE  Barrier' /\ Sequences' /\ Scanned' /\ FloorSafe'
  <1> USE DEF TInv, scanVars
  <1>1. Writers' = Writers
    BY DEF Writers, EnterBarrier, Claim, Exhausted, Register, Retire
  <1>2. Barrier'
    <2>1. CASE EnterBarrier(o)
      BY <1>1, <2>1 DEF EnterBarrier, Barrier
    <2>2. CASE Claim(o) \/ Exhausted(o) \/ Register(o) \/ Retire(o)
      <3>1. Readers' \subseteq Readers
        BY <2>2 DEF Readers, TrackerTypeOK, Claim, Exhausted, Register, Retire
      <3> QED BY <1>1, <3>1 DEF Barrier
    <2> QED BY <2>1, <2>2
  <1>3. CASE EnterBarrier(o) \/ Exhausted(o)
    <2>1. Sequences'
      BY <1>3 DEF EnterBarrier, Exhausted, Sequences, TrackerTypeOK
    <2>2. Scanned'
      BY <1>1, <1>3 DEF EnterBarrier, Exhausted, Scanned, TrackerTypeOK
    <2>3. InFlight' = InFlight
      BY <1>3 DEF InFlight, EnterBarrier, Exhausted, TrackerTypeOK
    <2>4. FloorSafe'
      BY <1>3, <2>3 DEF EnterBarrier, Exhausted, FloorSafe
    <2> QED BY <1>2, <2>1, <2>2, <2>4
  <1>4. CASE Claim(o)
    <2>1. Sequences'
      <3>1. /\ nextSeq' = nextSeq + 1
            /\ seq' = [seq EXCEPT ![o] = nextSeq + 1]
            /\ owner' = [owner EXCEPT ![o] = "claimed"]
            /\ active' = active /\ owner[o] = "barrier"
        BY <1>4 DEF Claim
      <3>2. nextSeq \in Nat /\ seq \in [Owners -> Nat]
        BY TrackerAssumption DEF TrackerTypeOK
      <3>3. \A p \in Owners : seq[p] <= nextSeq
        BY DEF Sequences
      <3>4. \A p \in Owners :
              /\ owner'[p] \in {"claimed", "active", "retired"} <=> seq'[p] # 0
              /\ seq'[p] <= nextSeq'
        BY <3>1, <3>2, <3>3 DEF Sequences, TrackerTypeOK
      <3>5. \A p, q \in Owners : seq'[p] = seq'[q] /\ seq'[p] # 0 => p = q
        BY <3>1, <3>2, <3>3 DEF Sequences
      <3>6. \A p \in Owners : owner'[p] = "active" => seq'[p] \in active'
        BY <3>1, <3>2 DEF Sequences, TrackerTypeOK
      <3>7. \A n \in active' : \E p \in Owners : owner'[p] = "active" /\ seq'[p] = n
        BY <3>1, <3>2 DEF Sequences, TrackerTypeOK
      <3> QED BY <3>4, <3>5, <3>6, <3>7 DEF Sequences
    <2>2. Writers = {}
      BY <1>4 DEF Claim, Barrier, Readers
    <2>3. Scanned'
      <3>1. \A s \in Scans : minimum'[s] <= nextSeq'
        BY <1>4, TrackerAssumption DEF Claim, Scanned, TrackerTypeOK
      <3> QED BY <1>1, <1>4, <2>2, <3>1 DEF Claim, Scanned
    <2>4. FloorSafe'
      <3>1. InFlight' = InFlight \cup {o}
        BY <1>4 DEF InFlight, Claim, TrackerTypeOK
      <3>2. \A p \in InFlight' : p = o \/ (p \in InFlight /\ seq'[p] = seq[p])
        BY <1>4, <3>1 DEF Claim, TrackerTypeOK
      <3>3. seq'[o] = nextSeq + 1 /\ nextSeq < MaxSeq /\ nextSeq' = nextSeq + 1
        BY <1>4 DEF Claim, TrackerTypeOK
      <3> QED
        BY <1>4, <3>2, <3>3, TrackerAssumption
           DEF FloorSafe, Claim, TrackerTypeOK
    <2> QED BY <1>2, <2>1, <2>3, <2>4
  <1>5. CASE Register(o)
    <2>1. Sequences'
      BY <1>5 DEF Register, Sequences, TrackerTypeOK
    <2>2. Writers = {}
      BY <1>5 DEF Register, Barrier, Readers
    <2>3. Scanned'
      BY <1>1, <1>5, <2>2 DEF Register, Scanned
    <2>4. InFlight' = InFlight
      BY <1>5 DEF InFlight, Register, TrackerTypeOK
    <2>5. FloorSafe'
      BY <1>5, <2>4 DEF Register, FloorSafe
    <2> QED BY <1>2, <2>1, <2>3, <2>5
  <1>6. CASE Retire(o)
    <2>1. Sequences'
      BY <1>6 DEF Retire, Sequences, TrackerTypeOK
    <2>2. Scanned'
      BY <1>1, <1>6 DEF Retire, Scanned, TrackerTypeOK
    <2>3. InFlight' \subseteq InFlight
      BY <1>6 DEF InFlight, Retire, TrackerTypeOK
    <2>4. FloorSafe'
      BY <1>6, <2>3 DEF Retire, FloorSafe
    <2> QED BY <1>2, <2>1, <2>2, <2>4
  <1> QED BY <1>3, <1>4, <1>5, <1>6

(* A step of a scan keeps the invariant. *)
LEMMA ScanSteps ==
  ASSUME TInv, TrackerTypeOK', NEW s \in Scans,
         BeginScan(s) \/ ScanShard(s) \/ EndScan(s)
  PROVE  Barrier' /\ Sequences' /\ Scanned' /\ FloorSafe'
  <1> USE DEF TInv
  <1>1. Sequences'
    BY DEF Sequences, BeginScan, ScanShard, EndScan
  <1>2. Readers' = Readers /\ InFlight' = InFlight
    BY DEF Readers, InFlight, BeginScan, ScanShard, EndScan
  <1>3. CASE BeginScan(s)
    <2>1. Writers' = {s}
      BY <1>3 DEF BeginScan, Writers, TrackerTypeOK
    <2>2. Barrier'
      BY <1>2, <1>3, <2>1 DEF BeginScan, Barrier
    <2>3. at[s] = 0 /\ minimum[s] = 0
      BY <1>3 DEF BeginScan, Scanned
    <2>4. Scanned'
      <3>1. \A o \in Owners : ~(ShardOf(seq[o]) < 0)
        BY ShardRange, TrackerAssumption DEF TrackerTypeOK
      <3> QED BY <1>3, <2>1, <2>3, <3>1 DEF BeginScan, Scanned, TrackerTypeOK
    <2>5. FloorSafe'
      BY <1>2, <1>3 DEF BeginScan, FloorSafe, TrackerTypeOK
    <2> QED BY <1>1, <2>2, <2>4, <2>5
  <1>4. CASE ScanShard(s)
    <2>1. Writers' = Writers /\ s \in Writers
      BY <1>4 DEF ScanShard, Writers
    <2>2. Barrier'
      BY <1>2, <2>1 DEF Barrier
    <2>3. FloorSafe'
      BY <1>2, <1>4 DEF ScanShard, FloorSafe
    <2>4. \A t \in Writers : t = s
      BY <2>1 DEF Barrier
    <2>5. \/ minimum' = minimum /\ Candidates(s) = {}
          \/ \E m \in Candidates(s) :
               /\ \A n \in Candidates(s) : m <= n
               /\ minimum' = [minimum EXCEPT ![s] = m]
      BY <1>4 DEF ScanShard
    <2>6. \A n \in active : n <= nextSeq
      BY DEF Sequences
    <2>7. \A m \in Candidates(s) : m <= nextSeq /\ m # 0 /\ m \in Nat
      <3>1. ASSUME NEW m \in Candidates(s)
            PROVE  m <= nextSeq /\ m # 0 /\ m \in Nat
        <4>1. m \in active \/ (m = minimum[s] /\ m # 0)
          BY <3>1 DEF Candidates, ActiveIn
        <4>2. CASE m \in active
          <5>1. m \in 1..MaxSeq
            BY <4>2 DEF TrackerTypeOK
          <5> QED BY <2>6, <4>2, <5>1
        <4>3. CASE m = minimum[s] /\ m # 0
          <5>1. m \in 0..MaxSeq /\ m <= nextSeq
            BY <4>3 DEF TrackerTypeOK, Scanned
          <5> QED BY <4>3, <5>1
        <4> QED BY <4>1, <4>2, <4>3
      <3> QED BY <3>1
    <2>8. \A n \in Candidates(s) : minimum'[s] # 0 /\ minimum'[s] <= n
      BY <2>5, <2>7 DEF TrackerTypeOK
    <2>9. ASSUME NEW o \in Owners, owner[o] = "active",
                 ShardOf(seq[o]) < at[s] + 1
          PROVE  minimum'[s] # 0 /\ minimum'[s] <= seq[o]
      <3>1. seq[o] \in active /\ seq[o] \in Nat /\ ShardOf(seq[o]) \in Int
            /\ at[s] \in Int
        BY <2>9, ShardRange, TrackerAssumption DEF Sequences, TrackerTypeOK
      <3>2. CASE ShardOf(seq[o]) = at[s]
        BY <2>8, <3>1, <3>2 DEF Candidates, ActiveIn
      <3>3. CASE ShardOf(seq[o]) < at[s]
        <4>1. minimum[s] # 0 /\ minimum[s] <= seq[o]
          BY <2>1, <2>9, <3>3 DEF Scanned
        <4>2. minimum'[s] # 0 /\ minimum'[s] <= minimum[s]
          BY <2>8, <4>1 DEF Candidates
        <4> QED BY <3>1, <4>1, <4>2, TrackerAssumption DEF TrackerTypeOK
      <3> QED BY <2>9, <3>1, <3>2, <3>3
    <2>10. \A t \in Scans : minimum'[t] <= nextSeq'
      BY <1>4, <2>5, <2>7 DEF ScanShard, Scanned, TrackerTypeOK
    <2>11. ASSUME NEW t \in Scans, scan[t] = "done", minimum'[s] # 0
           PROVE  floor[t] <= minimum'[s]
      <3>1. ASSUME NEW n \in Candidates(s)
            PROVE  floor[t] <= n
        <4>1. CASE n \in active
          <5>1. PICK o \in Owners : owner[o] = "active" /\ seq[o] = n
            BY <4>1 DEF Sequences
          <5> QED BY <2>11, <5>1 DEF FloorSafe, InFlight
        <4>2. CASE n = minimum[s] /\ n # 0
          BY <2>1, <2>11, <4>2 DEF Scanned
        <4> QED BY <3>1, <4>1, <4>2 DEF Candidates, ActiveIn
      <3>2. CASE minimum' = minimum
        BY <2>1, <2>11, <3>2 DEF Scanned
      <3>3. CASE \E m \in Candidates(s) : minimum' = [minimum EXCEPT ![s] = m]
        BY <3>1, <3>3 DEF TrackerTypeOK
      <3> QED BY <2>5, <3>2, <3>3
    <2>12. /\ scan' = scan /\ owner' = owner /\ seq' = seq /\ floor' = floor
           /\ at' = [at EXCEPT ![s] = @ + 1] /\ scan[s] = "scanning"
           /\ \A t \in Scans : t # s => minimum'[t] = minimum[t] /\ at'[t] = at[t]
      BY <1>4 DEF ScanShard, TrackerTypeOK
    <2>13. at'[s] = at[s] + 1
      BY <2>12 DEF TrackerTypeOK
    <2>14. Scanned'
      <3>1. \A t \in Scans : scan'[t] = "new" => at'[t] = 0 /\ minimum'[t] = 0
        BY <2>12 DEF Scanned
      <3>2. \A t \in Writers', o \in Owners :
              owner'[o] = "active" /\ ShardOf(seq'[o]) < at'[t]
                => minimum'[t] # 0 /\ minimum'[t] <= seq'[o]
        BY <2>1, <2>4, <2>9, <2>12, <2>13
      <3>3. \A u \in Scans, t \in Writers' :
              scan'[u] = "done" /\ minimum'[t] # 0 => floor'[u] <= minimum'[t]
        BY <2>1, <2>4, <2>11, <2>12
      <3>4. \A t \in Writers', o \in Owners : ShardOf(seq[o])' = ShardOf(seq'[o])
        BY DEF ShardOf
      <3> QED BY <2>10, <3>1, <3>2, <3>3, <3>4 DEF Scanned, ShardOf
    <2> QED BY <1>1, <2>2, <2>3, <2>14
  <1>5. CASE EndScan(s)
    <2>1. s \in Writers /\ Readers = {} /\ Writers = {s}
      BY <1>5 DEF EndScan, Writers, Barrier
    <2>2. Writers' = {}
      BY <1>5, <2>1 DEF EndScan, Writers, TrackerTypeOK
    <2>3. Barrier'
      BY <2>2 DEF Barrier
    <2>4. Scanned'
      BY <1>5, <2>2 DEF EndScan, Scanned, TrackerTypeOK
    <2>5. ASSUME NEW o \in InFlight
          PROVE  FloorOf(s) <= seq[o]
      <3>1. owner[o] = "active" /\ o \in Owners
        BY <2>1, <2>5 DEF InFlight, Readers
      <3>2. ShardOf(seq[o]) < at[s]
        BY <1>5, <3>1, ShardRange, TrackerAssumption DEF EndScan, TrackerTypeOK
      <3>3. minimum[s] # 0 /\ minimum[s] <= seq[o]
        BY <2>1, <3>1, <3>2 DEF Scanned
      <3> QED BY <3>3 DEF FloorOf
    <2>6. nextSeq < MaxSeq => FloorOf(s) <= nextSeq + 1
      BY TrackerAssumption DEF FloorOf, Scanned, TrackerTypeOK
    <2>7. FloorSafe'
      BY <1>2, <1>5, <2>5, <2>6 DEF EndScan, FloorSafe, TrackerTypeOK
    <2> QED BY <1>1, <2>3, <2>4, <2>7
  <1> QED BY <1>3, <1>4, <1>5

(* Every step keeps the invariant. *)
LEMMA TNext ==
  ASSUME TInv, [TrackerNext]_trackerVars
  PROVE  TInv'
  <1>1. TrackerTypeOK'
    BY TTypes DEF TInv
  <1>2. CASE TrackerNext
    <2>1. Barrier' /\ Sequences' /\ Scanned' /\ FloorSafe'
      BY <1>1, <1>2, OwnerSteps, ScanSteps DEF TrackerNext
    <2> QED BY <1>1, <2>1 DEF TInv
  <1>3. CASE UNCHANGED trackerVars
    BY <1>3 DEF trackerVars, scanVars, TInv, TrackerTypeOK, Barrier, Sequences, Scanned,
                FloorSafe, Readers, Writers, InFlight, ShardOf
  <1> QED BY <1>2, <1>3

(* The invariant is one. *)
THEOREM TrackerInvariance == TrackerSpec => []TInv
  <1>1. TrackerInit => TInv
    BY TInit
  <1>2. TInv /\ [TrackerNext]_trackerVars => TInv'
    BY TNext
  <1> QED BY <1>1, <1>2, PTL DEF TrackerSpec

(* The tracker is type correct: the counter stops at its maximum, and so does
   every floor. *)
THEOREM TrackerTypes == TrackerSpec => []TrackerTypeOK
  BY TrackerInvariance, PTL DEF TInv

(* stableSafeFloor never returns a floor above a sequence that is in flight
   or still to be allocated, however many admissions, scans and shards. *)
THEOREM FloorSafeHolds == TrackerSpec => []FloorSafe
  <1>1. TInv => FloorSafe
    BY DEF TInv
  <1> QED BY <1>1, TrackerInvariance, PTL

(* retire never reaches its panic. *)
THEOREM RetireFindsSequenceHolds == TrackerSpec => []RetireFindsSequence
  <1>1. TInv => RetireFindsSequence
    BY DEF TInv, Sequences, RetireFindsSequence
  <1> QED BY <1>1, TrackerInvariance, PTL

(* Floors are returned in increasing order. *)
THEOREM FloorsRiseHolds == TrackerSpec => FloorsRise
  <1>1. ASSUME TInv, [TrackerNext]_trackerVars, NEW s \in Scans, NEW t \in Scans,
               scan[s] = "done", scan[t] # "done", scan'[t] = "done"
        PROVE  floor[s] <= floor'[t]
    <2>1. EndScan(t)
      <3>1. ASSUME NEW u \in Scans, EndScan(u)
            PROVE  u = t
        BY <1>1, <3>1 DEF EndScan, TInv, TrackerTypeOK
      <3>2. scan' # scan
        BY <1>1
      <3>3. ASSUME NEW u \in Scans, BeginScan(u)
            PROVE  FALSE
        BY <1>1, <3>3 DEF BeginScan, TInv, TrackerTypeOK
      <3> QED
        BY <1>1, <3>1, <3>2, <3>3
           DEF TrackerNext, trackerVars, scanVars, EnterBarrier, Claim, Exhausted, Register,
               Retire, ScanShard
    <2>2. floor'[t] = FloorOf(t) /\ t \in Writers
      <3>1. floor' = [floor EXCEPT ![t] = FloorOf(t)] /\ scan[t] = "scanning"
        BY <2>1 DEF EndScan
      <3>2. floor \in [Scans -> 0..MaxSeq]
        BY <1>1 DEF TInv, TrackerTypeOK
      <3> QED BY <3>1, <3>2 DEF Writers
    <2>3. floor[s] <= FloorOf(t)
      <3>1. CASE minimum[t] # 0
        BY <1>1, <2>2, <3>1 DEF TInv, Scanned, FloorOf
      <3>2. CASE minimum[t] = 0
        BY <1>1, <3>2, TrackerAssumption DEF TInv, FloorSafe, FloorOf, TrackerTypeOK
      <3> QED BY <3>1, <3>2
    <2> QED BY <2>2, <2>3
  <1>2. TInv /\ [TrackerNext]_trackerVars =>
          [\A s, t \in Scans :
             scan[s] = "done" /\ scan[t] # "done" /\ scan'[t] = "done"
               => floor[s] <= floor'[t]]_trackerVars
    BY <1>1
  <1> QED BY <1>2, TrackerInvariance, PTL DEF TrackerSpec, FloorsRise

-----------------------------------------------------------------------------
(* The delivery hook executor *)

(* Workers are spawned once, before the first reservation, unless stop came
   first; whoever holds a ticket finds them spawned. *)
Launched ==
  /\ \A t \in Tickets : ticket[t] # "new" => started
  /\ ~started => \A w \in Workers : worker[w] = "off"
  /\ started /\ ~stopping => \A w \in Workers : worker[w] # "off"
  /\ Outstanding # {} => \A w \in Workers : worker[w] # "off"

(* The inductive invariant. *)
HInv ==
  /\ HooksTypeOK
  /\ SlotsExact
  /\ HookOnce
  /\ NoHookAbandoned
  /\ SomebodyAwake
  /\ Launched

(* How one ticket's move changes the number of outstanding tickets. *)
LEMMA OutstandingMoves ==
  ASSUME HooksTypeOK, NEW t \in Tickets, NEW s \in TicketStates,
         ticket' = [ticket EXCEPT ![t] = s]
  PROVE  LET out == {"reserved", "releasing", "submitting", "queued", "running"}
         IN
         /\ IsFiniteSet(Outstanding)
         /\ Cardinality(Outstanding) \in Nat
         /\ ticket[t] \in out /\ s \in out => Outstanding' = Outstanding
         /\ ticket[t] \notin out /\ s \notin out => Outstanding' = Outstanding
         /\ ticket[t] \notin out /\ s \in out =>
              /\ Outstanding' = Outstanding \cup {t}
              /\ Cardinality(Outstanding') = Cardinality(Outstanding) + 1
         /\ ticket[t] \in out /\ s \notin out =>
              /\ Outstanding' = Outstanding \ {t}
              /\ Cardinality(Outstanding') = Cardinality(Outstanding) - 1
              /\ Cardinality(Outstanding) > 0
  <1> DEFINE out == {"reserved", "releasing", "submitting", "queued", "running"}
  <1>1. IsFiniteSet(Outstanding)
    <2>1. Outstanding \subseteq Tickets
      BY DEF Outstanding
    <2> QED BY <2>1, HookAssumption, FS_Subset
  <1>2. Cardinality(Outstanding) \in Nat
    BY <1>1, FS_CardinalityType
  <1>3. \A u \in Tickets : ticket'[u] = IF u = t THEN s ELSE ticket[u]
    BY DEF HooksTypeOK
  <1>4. ASSUME ticket[t] \in out <=> s \in out
        PROVE  Outstanding' = Outstanding
    BY <1>3, <1>4 DEF Outstanding
  <1>5. ASSUME ticket[t] \notin out, s \in out
        PROVE  /\ Outstanding' = Outstanding \cup {t}
               /\ Cardinality(Outstanding') = Cardinality(Outstanding) + 1
    <2>1. Outstanding' = Outstanding \cup {t}
      BY <1>3, <1>5 DEF Outstanding
    <2>2. t \notin Outstanding
      BY <1>5 DEF Outstanding
    <2> QED BY <1>1, <2>1, <2>2, FS_AddElement, Zenon
  <1>6. ASSUME ticket[t] \in out, s \notin out
        PROVE  /\ Outstanding' = Outstanding \ {t}
               /\ Cardinality(Outstanding') = Cardinality(Outstanding) - 1
               /\ Cardinality(Outstanding) > 0
    <2>1. Outstanding' = Outstanding \ {t}
      BY <1>3, <1>6 DEF Outstanding
    <2>2. t \in Outstanding
      BY <1>6 DEF Outstanding
    <2>3. Cardinality(Outstanding') = Cardinality(Outstanding) - 1
      BY <1>1, <2>1, <2>2, FS_RemoveElement, Zenon
    <2>4. Cardinality(Outstanding') \in Nat
      BY <1>1, <2>1, FS_Subset, FS_CardinalityType
    <2> QED BY <1>2, <2>1, <2>3, <2>4
  <1> QED BY <1>1, <1>2, <1>4, <1>5, <1>6

(* The unused executor satisfies the invariant. *)
LEMMA HInit == HooksInit => HInv
  <1> SUFFICES ASSUME HooksInit PROVE HInv
    OBVIOUS
  <1>1. HooksTypeOK
    <2>1. slots \in 0..Capacity /\ queue \in Seq(Tickets)
      BY HookAssumption DEF HooksInit
    <2> QED BY <2>1, Zenon DEF HooksInit, HooksTypeOK, TicketStates
  <1>2. Outstanding = {}
    BY DEF HooksInit, Outstanding
  <1>3. SlotsExact
    BY <1>2, FS_EmptySet DEF HooksInit, SlotsExact
  <1>4. HookOnce
    BY HookAssumption DEF HooksInit, HookOnce
  <1>5. NoHookAbandoned /\ SomebodyAwake /\ Launched
    BY <1>2 DEF HooksInit, NoHookAbandoned, SomebodyAwake, Launched
  <1> QED BY <1>1, <1>3, <1>4, <1>5 DEF HInv

(* The steps of a ticket keep the invariant. *)
LEMMA TicketKeeps ==
  ASSUME HInv, NEW t \in Tickets, StartWorkers(t) \/ TicketStep(t)
  PROVE  HInv'
  <1> USE DEF HInv
  <1>1. CASE StartWorkers(t)
    <2>1. Outstanding' = Outstanding
      BY <1>1, OutstandingMoves, Zenon DEF StartWorkers, TicketStates
    <2>2. HooksTypeOK'
      BY <1>1 DEF StartWorkers, HooksTypeOK, TicketStates
    <2>3. SlotsExact'
      BY <1>1, <2>1 DEF StartWorkers, SlotsExact
    <2>4. HookOnce'
      BY <1>1 DEF StartWorkers, HookOnce, Launched, HooksTypeOK
    <2>5. NoHookAbandoned' /\ SomebodyAwake'
      BY <1>1, <2>1 DEF StartWorkers, NoHookAbandoned, SomebodyAwake, HooksTypeOK
    <2>6. Launched'
      BY <1>1, <2>1 DEF StartWorkers, Launched, HooksTypeOK
    <2> QED BY <2>2, <2>3, <2>4, <2>5, <2>6
  <1>2. CASE Reserve(t)
    <2>1. CASE HasRoom
      <3>1. /\ Outstanding' = Outstanding \cup {t}
            /\ Cardinality(Outstanding') = Cardinality(Outstanding) + 1
        BY <1>2, <2>1, OutstandingMoves DEF Reserve, workerVars, TicketStates
      <3>2. HooksTypeOK'
        BY <1>2, <2>1, HookAssumption
        DEF Reserve, workerVars, HasRoom, HooksTypeOK, TicketStates
      <3>3. SlotsExact'
        BY <1>2, <2>1, <3>1 DEF Reserve, workerVars, SlotsExact
      <3>4. HookOnce'
        BY <1>2, <2>1 DEF Reserve, workerVars, HookOnce, HooksTypeOK
      <3>5. NoHookAbandoned' /\ SomebodyAwake' /\ Launched'
        BY <1>2, <2>1
        DEF Reserve, workerVars, HasRoom, NoHookAbandoned, SomebodyAwake, Launched, HooksTypeOK
      <3> QED BY <3>2, <3>3, <3>4, <3>5
    <2>2. CASE ~HasRoom
      <3>1. Outstanding' = Outstanding
        BY <1>2, <2>2, OutstandingMoves DEF Reserve, workerVars, TicketStates
      <3>2. HooksTypeOK'
        BY <1>2, <2>2 DEF Reserve, workerVars, HooksTypeOK, TicketStates
      <3>3. SlotsExact'
        BY <1>2, <2>2, <3>1 DEF Reserve, workerVars, SlotsExact
      <3>4. HookOnce'
        BY <1>2, <2>2 DEF Reserve, workerVars, HookOnce, HooksTypeOK
      <3>5. NoHookAbandoned' /\ SomebodyAwake' /\ Launched'
        BY <1>2, <2>2, <3>1
        DEF Reserve, workerVars, NoHookAbandoned, SomebodyAwake, Launched, HooksTypeOK
      <3> QED BY <3>2, <3>3, <3>4, <3>5
    <2> QED BY <2>1, <2>2
  <1>3. CASE Release(t)
    <2>1. Outstanding' = Outstanding
      BY <1>3, OutstandingMoves, Zenon DEF Release, TicketStates
    <2>2. HooksTypeOK' /\ SlotsExact'
      BY <1>3, <2>1 DEF Release, HooksTypeOK, TicketStates, SlotsExact, workerVars
    <2>3. HookOnce'
      BY <1>3 DEF Release, HookOnce, HooksTypeOK, workerVars
    <2>4. NoHookAbandoned' /\ SomebodyAwake' /\ Launched'
      BY <1>3, <2>1
      DEF Release, NoHookAbandoned, SomebodyAwake, Launched, HooksTypeOK, workerVars
    <2> QED BY <2>2, <2>3, <2>4
  <1>4. CASE ReleaseSlot(t)
    <2>1. /\ Outstanding' = Outstanding \ {t}
          /\ Cardinality(Outstanding') = Cardinality(Outstanding) - 1
          /\ Cardinality(Outstanding) > 0
      BY <1>4, OutstandingMoves, Zenon DEF ReleaseSlot, TicketStates
    <2>2. slots > 0
      BY <2>1 DEF SlotsExact
    <2>3. HooksTypeOK'
      BY <1>4, <2>2, HookAssumption DEF ReleaseSlot, HooksTypeOK, TicketStates,
         workerVars
    <2>4. SlotsExact'
      BY <1>4, <2>1 DEF ReleaseSlot, SlotsExact
    <2>5. HookOnce'
      BY <1>4 DEF ReleaseSlot, HookOnce, HooksTypeOK, workerVars
    <2>6. NoHookAbandoned' /\ SomebodyAwake' /\ Launched'
      BY <1>4, <2>1
      DEF ReleaseSlot, NoHookAbandoned, SomebodyAwake, Launched, HooksTypeOK,
          workerVars
    <2> QED BY <2>3, <2>4, <2>5, <2>6
  <1>5. CASE Released(t)
    <2>1. Outstanding' = Outstanding
      BY <1>5, OutstandingMoves, Zenon DEF Released, TicketStates
    <2>2. HooksTypeOK' /\ SlotsExact'
      BY <1>5, <2>1 DEF Released, HooksTypeOK, TicketStates, SlotsExact, Broadcast,
         Woken, Waiting
    <2>3. HookOnce'
      BY <1>5 DEF Released, HookOnce, HooksTypeOK, Broadcast, Woken, Waiting
    <2>4. NoHookAbandoned' /\ SomebodyAwake' /\ Launched'
      BY <1>5, <2>1
      DEF Released, NoHookAbandoned, SomebodyAwake, Launched, HooksTypeOK,
          Broadcast, Woken, Waiting
    <2> QED BY <2>2, <2>3, <2>4
  <1>6. CASE Submit(t)
    <2>1. Outstanding' = Outstanding
      BY <1>6, OutstandingMoves, Zenon DEF Submit, TicketStates
    <2>2. HooksTypeOK' /\ SlotsExact'
      BY <1>6, <2>1 DEF Submit, HooksTypeOK, TicketStates, SlotsExact, workerVars
    <2>3. HookOnce'
      BY <1>6 DEF Submit, HookOnce, HooksTypeOK, workerVars
    <2>4. NoHookAbandoned' /\ SomebodyAwake' /\ Launched'
      BY <1>6, <2>1
      DEF Submit, NoHookAbandoned, SomebodyAwake, Launched, HooksTypeOK, workerVars
    <2> QED BY <2>2, <2>3, <2>4
  <1>7. CASE Enqueue(t)
    <2>1. Outstanding' = Outstanding
      BY <1>7, OutstandingMoves, Zenon DEF Enqueue, TicketStates
    <2>2. t \in Outstanding
      BY <1>7 DEF Enqueue, Outstanding
    <2>3. PICK S \in SUBSET Waiting : worker' = Woken(S)
      BY <1>7, Zenon DEF Enqueue, Signal, Woken, HooksTypeOK
    <2>4. \A w \in Workers : worker[w] \in {"ready", "waiting", "running",
                                            "signalling"}
      BY <2>2 DEF Launched, NoHookAbandoned, HooksTypeOK
    <2>5. SomebodyAwake'
      <3>1. CASE Waiting = {}
        BY <1>7, <2>4, <3>1, HookAssumption
        DEF Enqueue, Signal, SomebodyAwake, Waiting
      <3>2. CASE Waiting # {}
        BY <1>7, <3>2 DEF Enqueue, Signal, SomebodyAwake, Waiting, Woken
      <3> QED BY <3>1, <3>2
    <2>6. HooksTypeOK' /\ SlotsExact'
      BY <1>7, <2>1, <2>3 DEF Enqueue, HooksTypeOK, TicketStates, SlotsExact, Woken
    <2>7. HookOnce'
      <3>1. /\ Len(queue') = Len(queue) + 1
            /\ Len(queue) \in Nat
            /\ queue'[Len(queue) + 1] = t
            /\ \A i \in 1..Len(queue) : queue'[i] = queue[i]
        BY <1>7 DEF Enqueue, HooksTypeOK
      <3>2. \A i \in 1..Len(queue) : queue[i] # t
        BY <1>7, Zenon DEF Enqueue, HookOnce
      <3>3. \A u \in Tickets : ticket'[u] = IF u = t THEN "queued" ELSE ticket[u]
        BY <1>7 DEF Enqueue, HooksTypeOK
      <3>4. \A u \in Tickets : ticket'[u] = "queued"
              <=> \E i \in 1..Len(queue') : queue'[i] = u
        BY <3>1, <3>3 DEF HookOnce
      <3>5. \A i, j \in 1..Len(queue') : queue'[i] = queue'[j] => i = j
        BY <3>1, <3>2 DEF HookOnce
      <3>6. \A u \in Tickets :
              ticket'[u] = "running" <=> \E w \in Workers : job'[w] = u
        BY <1>7, <3>3 DEF Enqueue, HookOnce
      <3>7. \A w \in Workers : worker'[w] = "running" <=> job'[w] # NoTicket
        BY <1>7, <2>3 DEF Enqueue, HookOnce, Woken, Waiting
      <3>8. \A v, w \in Workers :
              job'[v] = job'[w] /\ job'[v] # NoTicket => v = w
        BY <1>7 DEF Enqueue, HookOnce
      <3> QED BY <3>4, <3>5, <3>6, <3>7, <3>8 DEF HookOnce
    <2>8. NoHookAbandoned' /\ Launched'
      BY <1>7, <2>1, <2>2, <2>3, <2>4
      DEF Enqueue, NoHookAbandoned, Launched, HooksTypeOK, Woken, Waiting
    <2> QED BY <2>5, <2>6, <2>7, <2>8
  <1> QED BY <1>1, <1>2, <1>3, <1>4, <1>5, <1>6, <1>7 DEF TicketStep

(* The steps of a worker keep it. *)
LEMMA WorkerKeeps ==
  ASSUME HInv, NEW w \in Workers, WorkerStep(w)
  PROVE  HInv'
  <1> USE DEF HInv
  <1>1. CASE Take(w)
    <2> DEFINE t == Head(queue)
    <2>1. /\ Len(queue) \in Nat \ {0}
          /\ queue[1] = t
          /\ t \in Tickets
          /\ Len(queue') = Len(queue) - 1
          /\ \A i \in 1..Len(queue') : queue'[i] = queue[i + 1]
          /\ queue' \in Seq(Tickets)
      BY <1>1 DEF Take, HooksTypeOK
    <2> HIDE DEF t
    <2>2. /\ ticket[t] = "queued"
          /\ ticket' = [ticket EXCEPT ![t] = "running"]
          /\ job' = [job EXCEPT ![w] = t]
      BY <1>1, <2>1 DEF Take, HookOnce, t
    <2>3. Outstanding' = Outstanding
      BY <2>1, <2>2, OutstandingMoves, Zenon DEF TicketStates
    <2>4. HooksTypeOK' /\ SlotsExact'
      BY <1>1, <2>1, <2>2, <2>3 DEF Take, HooksTypeOK, TicketStates, SlotsExact
    <2>5. HookOnce'
      <3>1. \A u \in Tickets : ticket'[u] = IF u = t THEN "running" ELSE ticket[u]
        BY <2>1, <2>2 DEF HooksTypeOK
      <3>2. \A v \in Workers : job'[v] = IF v = w THEN t ELSE job[v]
        BY <2>2 DEF HooksTypeOK
      <3>3. job[w] = NoTicket /\ \A v \in Workers : job[v] # t
        BY <1>1, <2>1, <2>2 DEF Take, HookOnce
      <3>4. t # NoTicket
        BY <2>1, HookAssumption, ZenonT(30)
      <3>5. ASSUME NEW u \in Tickets
            PROVE  ticket'[u] = "queued"
                     <=> \E i \in 1..Len(queue') : queue'[i] = u
        <4>1. CASE u = t
          <5>1. \A i \in 1..Len(queue') : i + 1 \in 1..Len(queue) /\ i + 1 # 1
            BY <2>1
          <5>2. \A i \in 1..Len(queue') : queue'[i] # t
            BY <2>1, <5>1 DEF HookOnce
          <5> QED BY <3>1, <4>1, <5>2
        <4>2. CASE u # t
          <5>1. ASSUME NEW i \in 1..Len(queue), queue[i] = u
                PROVE  \E j \in 1..Len(queue') : queue'[j] = u
            <6>1. i # 1
              BY <2>1, <4>2, <5>1
            <6>2. i - 1 \in 1..Len(queue') /\ (i - 1) + 1 = i
              BY <2>1, <6>1
            <6> QED BY <2>1, <5>1, <6>2
          <5>2. ASSUME NEW j \in 1..Len(queue'), queue'[j] = u
                PROVE  \E i \in 1..Len(queue) : queue[i] = u
            <6>1. j + 1 \in 1..Len(queue)
              BY <2>1
            <6> QED BY <2>1, <5>2, <6>1
          <5> QED BY <3>1, <4>2, <5>1, <5>2 DEF HookOnce
        <4> QED BY <4>1, <4>2
      <3>6. \A u \in Tickets :
              ticket'[u] = "running" <=> \E v \in Workers : job'[v] = u
        <4>1. ASSUME NEW u \in Tickets, u # t
              PROVE  ticket'[u] = "running" <=> \E v \in Workers : job'[v] = u
          BY <3>1, <3>2, <3>3, <4>1, HookAssumption DEF HookOnce
        <4>2. ticket'[t] = "running" /\ \E v \in Workers : job'[v] = t
          BY <2>1, <3>1, <3>2
        <4> QED BY <4>1, <4>2
      <3>7. \A i, j \in 1..Len(queue') : queue'[i] = queue'[j] => i = j
        <4>1. \A i \in 1..Len(queue') : i \in Nat /\ i + 1 \in 1..Len(queue)
          BY <2>1
        <4>2. ASSUME NEW i \in 1..Len(queue'), NEW j \in 1..Len(queue'),
                     queue'[i] = queue'[j]
              PROVE  i = j
          <5>1. queue[i + 1] = queue[j + 1]
            BY <2>1, <4>2
          <5>2. i + 1 = j + 1
            BY <4>1, <5>1 DEF HookOnce
          <5> QED BY <4>1, <5>2
        <4> QED BY <4>2
      <3>8. \A v, u \in Workers :
              job'[v] = job'[u] /\ job'[v] # NoTicket => v = u
        BY <3>2, <3>3 DEF HookOnce
      <3>9. \A v \in Workers : worker'[v] = "running" <=> job'[v] # NoTicket
        BY <1>1, <3>2, <3>4 DEF Take, HookOnce, HooksTypeOK
      <3> QED BY <3>5, <3>6, <3>7, <3>8, <3>9, ZenonT(30) DEF HookOnce
    <2>6. NoHookAbandoned' /\ Launched'
      BY <1>1, <2>1, <2>2, <2>3 DEF Take, NoHookAbandoned, Launched, HooksTypeOK
    <2>7. SomebodyAwake'
      BY <1>1 DEF Take, SomebodyAwake, HooksTypeOK
    <2> QED BY <2>4, <2>5, <2>6, <2>7
  <1>2. CASE Idle(w)
    <2>1. Outstanding' = Outstanding
      BY <1>2 DEF Idle, Outstanding
    <2>2. MayExit => Outstanding = {}
      <3>1. IsFiniteSet(Outstanding)
        <4>1. Outstanding \subseteq Tickets
          BY DEF Outstanding
        <4> QED BY <4>1, HookAssumption, FS_Subset
      <3> QED BY <3>1, FS_EmptySet, Zenon DEF MayExit, SlotsExact
    <2>3. HooksTypeOK' /\ SlotsExact' /\ SomebodyAwake'
      BY <1>2, <2>1 DEF Idle, HooksTypeOK, SlotsExact, SomebodyAwake
    <2>4. HookOnce'
      BY <1>2 DEF Idle, HookOnce, HooksTypeOK
    <2>5. NoHookAbandoned'
      BY <1>2, <2>1, <2>2 DEF Idle, NoHookAbandoned, MayExit, HooksTypeOK
    <2>6. Launched'
      BY <1>2, <2>1 DEF Idle, Launched, HooksTypeOK
    <2> QED BY <2>3, <2>4, <2>5, <2>6
  <1>3. CASE RunOne(w)
    <2> DEFINE t == job[w]
    <2>1. t \in Tickets /\ ticket[t] = "running"
      BY <1>3 DEF RunOne, HookOnce, HooksTypeOK
    <2>2. ticket' = [ticket EXCEPT ![t] = "done"]
      BY <1>3 DEF RunOne
    <2>3. \A v \in Workers : v # w => job[v] # t
      BY <1>3, <2>1 DEF RunOne, HookOnce
    <2>4. \A v \in Workers : job'[v] = IF v = w THEN NoTicket ELSE job[v]
      BY <1>3 DEF RunOne, HooksTypeOK
    <2> HIDE DEF t
    <2>5. /\ Outstanding' = Outstanding \ {t}
          /\ Cardinality(Outstanding') = Cardinality(Outstanding) - 1
          /\ Cardinality(Outstanding) > 0
      BY <2>1, <2>2, OutstandingMoves, Zenon DEF TicketStates
    <2>6. slots > 0
      BY <2>5 DEF SlotsExact
    <2>7. HooksTypeOK'
      BY <1>3, <2>1, <2>2, <2>6, HookAssumption DEF RunOne, HooksTypeOK,
         TicketStates
    <2>8. SlotsExact'
      BY <1>3, <2>5 DEF RunOne, SlotsExact
    <2>9. HookOnce'
      <3>1. \A u \in Tickets : ticket'[u] = IF u = t THEN "done" ELSE ticket[u]
        BY <2>1, <2>2 DEF HooksTypeOK
      <3>2. \A u \in Tickets : ticket'[u] = "queued"
              <=> \E i \in 1..Len(queue') : queue'[i] = u
        BY <1>3, <2>1, <3>1 DEF RunOne, HookOnce
      <3>3. \A u \in Tickets :
              ticket'[u] = "running" <=> \E v \in Workers : job'[v] = u
        <4> TAKE u \in Tickets
        <4>1. CASE u = t
          BY <2>1, <2>3, <2>4, <3>1, <4>1, HookAssumption
        <4>2. CASE u # t
          <5>1. ticket[u] = "running" <=> \E v \in Workers : job[v] = u
            BY DEF HookOnce
          <5>2. ticket'[u] = ticket[u] /\ job[w] # u
            BY <3>1, <4>2 DEF t
          <5> QED BY <2>4, <5>1, <5>2, HookAssumption
        <4> QED BY <4>1, <4>2
      <3>4. \A v, u \in Workers :
              job'[v] = job'[u] /\ job'[v] # NoTicket => v = u
        BY <2>4 DEF HookOnce
      <3>5. \A v \in Workers : worker'[v] = "running" <=> job'[v] # NoTicket
        BY <1>3, <2>4 DEF RunOne, HookOnce, HooksTypeOK
      <3>6. \A i, j \in 1..Len(queue') : queue'[i] = queue'[j] => i = j
        <4>1. queue' = queue
          BY <1>3 DEF RunOne
        <4> QED BY <4>1 DEF HookOnce
      <3> QED BY <3>2, <3>3, <3>4, <3>5, <3>6 DEF HookOnce
    <2>10. NoHookAbandoned' /\ SomebodyAwake'
      BY <1>3, <2>5 DEF RunOne, NoHookAbandoned, SomebodyAwake, HooksTypeOK
    <2>11. Launched'
      BY <1>3, <2>1, <2>2, <2>5 DEF RunOne, Launched, HooksTypeOK
    <2> QED BY <2>7, <2>8, <2>9, <2>10, <2>11
  <1>4. CASE SignalDone(w)
    <2>1. Outstanding' = Outstanding
      BY <1>4 DEF SignalDone, Outstanding
    <2>2. HooksTypeOK' /\ SlotsExact'
      BY <1>4, <2>1 DEF SignalDone, HooksTypeOK, SlotsExact, Woken, Waiting
    <2>3. HookOnce'
      BY <1>4 DEF SignalDone, HookOnce, HooksTypeOK, Woken, Waiting
    <2>4. NoHookAbandoned' /\ SomebodyAwake' /\ Launched'
      BY <1>4, <2>1
      DEF SignalDone, NoHookAbandoned, SomebodyAwake, Launched, HooksTypeOK, Woken,
          Waiting
    <2> QED BY <2>2, <2>3, <2>4
  <1> QED BY <1>1, <1>2, <1>3, <1>4 DEF WorkerStep

(* Every step keeps the invariant; stop finds no ticket once all its workers
   have returned, since none was spawned or all have left. *)
LEMMA HNext == HInv /\ [HooksNext]_hooksVars => HInv'
  <1> SUFFICES ASSUME HInv, [HooksNext]_hooksVars PROVE HInv'
    OBVIOUS
  <1>1. CASE Stop
    <2>1. Outstanding' = Outstanding
      BY <1>1 DEF Stop, Outstanding
    <2>2. HooksTypeOK' /\ SlotsExact'
      BY <1>1, <2>1
      DEF HInv, Stop, HooksTypeOK, SlotsExact, Broadcast, Woken, Waiting
    <2>3. HookOnce'
      BY <1>1 DEF HInv, Stop, HookOnce, HooksTypeOK, Broadcast, Woken, Waiting
    <2>4. NoHookAbandoned' /\ SomebodyAwake' /\ Launched'
      BY <1>1, <2>1
      DEF HInv, Stop, NoHookAbandoned, SomebodyAwake, Launched, HooksTypeOK,
          Broadcast, Woken, Waiting
    <2> QED BY <2>2, <2>3, <2>4 DEF HInv
  <1>2. CASE Drained
    <2>1. Outstanding' = Outstanding /\ Outstanding = {}
      <3>1. Outstanding' = Outstanding
        BY <1>2 DEF Drained, Outstanding
      <3>2. Outstanding # {} => FALSE
        BY <1>2, HookAssumption DEF HInv, Drained, Launched, NoHookAbandoned
      <3> QED BY <3>1, <3>2
    <2>2. HooksTypeOK' /\ SlotsExact' /\ HookOnce'
      BY <1>2, <2>1
      DEF HInv, Drained, HooksTypeOK, SlotsExact, HookOnce, workerVars
    <2>3. NoHookAbandoned' /\ SomebodyAwake' /\ Launched'
      BY <1>2, <2>1
      DEF HInv, Drained, NoHookAbandoned, SomebodyAwake, Launched, workerVars
    <2> QED BY <2>2, <2>3 DEF HInv
  <1>3. CASE UNCHANGED hooksVars
    BY <1>3
    DEF HInv, hooksVars, workerVars, HooksTypeOK, SlotsExact, HookOnce, NoHookAbandoned,
        SomebodyAwake, Launched, Outstanding
  <1> QED BY <1>1, <1>2, <1>3, TicketKeeps, WorkerKeeps DEF HooksNext

(* The invariant holds in every reachable state of the executor. *)
THEOREM HookInvariance == HooksSpec => []HInv
  BY HInit, HNext, PTL DEF HooksSpec

(* The executor is type correct: in particular the slots never leave the
   channel's range, so no receive of release or runOne blocks. *)
THEOREM HookTypes == HooksSpec => []HooksTypeOK
  <1>1. HInv => HooksTypeOK
    BY DEF HInv
  <1> QED BY HookInvariance, <1>1, PTL

(* Every slot is held by exactly one outstanding ticket. *)
THEOREM SlotsExactHolds == HooksSpec => []SlotsExact
  <1>1. HInv => SlotsExact
    BY DEF HInv
  <1> QED BY HookInvariance, <1>1, PTL

(* No hook is run twice, run by two workers, or dropped from the queue,
   however submit, the workers and stop interleave. *)
THEOREM HookOnceHolds == HooksSpec => []HookOnce
  <1>1. HInv => HookOnce
    BY DEF HInv
  <1> QED BY HookInvariance, <1>1, PTL

(* No worker leaves, and stop does not return, while a ticket could still
   bring a hook. *)
THEOREM NoHookAbandonedHolds == HooksSpec => []NoHookAbandoned
  <1>1. HInv => NoHookAbandoned
    BY DEF HInv
  <1> QED BY HookInvariance, <1>1, PTL

(* While a hook is queued, some worker is awake: one Signal per enqueue is
   enough, whatever wakes the workers in the meantime. *)
THEOREM SomebodyAwakeHolds == HooksSpec => []SomebodyAwake
  <1>1. HInv => SomebodyAwake
    BY DEF HInv
  <1> QED BY HookInvariance, <1>1, PTL

-----------------------------------------------------------------------------
(* The delivery of a result *)

(* Where the hook, the source and whoever was handed the result may be. *)
HookStates == {"unset", "pending", "claimed", "in_progress", "done"}

Attempt == {"handler", "ready", "admit", "enqueued", "writing", "written",
            "delivered", "failed"}

Delivered == {"claim", "waiting_claim", "timed_out", "restore", "wait"}

(* The result may still be retargeted. *)
Fresh == source.state \in {"prepared", "queued"}

(* The fields of the alias. *)
AliasFields == {"activation", "retargeted", "flight", "barrier", "kind", "control",
                "at", "timer"}

(* The fields of the records, and the types that the argument needs. *)
Shape ==
  /\ DOMAIN source = {"at", "state", "target", "written", "ticket", "ok", "lost"}
  /\ DOMAIN alias = AliasFields
  /\ replay \in [Replays -> {"idle", "ended"} \cup Delivered]
  /\ hook \in HookStates
  /\ deferred \in BOOLEAN
  /\ onWire \in BOOLEAN
  /\ source.at \in Attempt \cup {"done"}
  /\ source.ok \in BOOLEAN /\ source.lost \in BOOLEAN

(* Until the actor begins to write nobody has been given the hook, and there is
   nothing to replay. *)
SourceFirst ==
  /\ source.at \in {"handler", "ready"} => source.state = "prepared"
  /\ source.at = "handler" => source.ok = FALSE
  /\ source.at = "delivered" => source.state = "delivered"
  /\ source.at = "done" /\ source.ok = TRUE => ~Fresh
  /\ Fresh =>
       /\ hook \in {"unset", "pending"}
       /\ source.written = "none"
       /\ \A r \in Replays : replay[r] = "idle"

(* The alias comes after the source, unless it was given another's error. *)
AliasAfter ==
  /\ alias.activation = "none" => alias.at = "waiting"
  /\ alias.at = "waiting" => alias.timer = "off" /\ alias.control = "none"
  /\ alias.timer = "fired" => alias.control = "failed"
  /\ source.lost = FALSE /\ (alias.at \notin {"waiting", "ended"} \/ alias.timer # "off")
       => source.at = "done" /\ source.ok = TRUE
  /\ alias.at \in {"waiting_claim", "timed_out"} => source.lost = FALSE

(* Whoever may claim the hook comes from a write. *)
Written ==
  /\ source.at \in {"written", "delivered"} => onWire = TRUE
  /\ source.state = "delivered" => onWire = TRUE
  /\ alias.kind = "restore" => onWire = TRUE
  /\ alias.at = "queued" => alias.kind \in {"send", "restore"}
  /\ alias.at = "commit" => alias.kind = "restore"
  /\ alias.at \in Delivered /\ source.lost = FALSE => onWire = TRUE
  /\ \A r \in Replays : replay[r] \in Delivered => onWire = TRUE
  /\ hook \in {"claimed", "in_progress", "done"} => onWire = TRUE

(* The hook has run once it was entered, and not before. *)
Counted == runs = IF hook \in {"in_progress", "done"} THEN 1 ELSE 0

(* The hook of a retargeted result stays deferred until the source is over.  A
   deferred hook has no claimant, and only the alias, once it is over or was
   failed, can have made it free for others. *)
Reserved ==
  /\ hook \in {"unset", "pending"} => claim = NoClaim
  /\ source.target = "new" =>
       /\ source.at # "done" => deferred = TRUE
       /\ deferred = TRUE => hook \in {"unset", "pending"}
       /\ deferred = FALSE /\ hook = "pending" => AliasReleased
       /\ claim # NoClaim /\ claim[1] # "alias" => AliasReleased

(* The inductive invariant of the delivery. *)
DInv == Shape /\ SourceFirst /\ AliasAfter /\ Written /\ Counted /\ Reserved

USE DEF HookStates, Attempt, Delivered, Fresh

-----------------------------------------------------------------------------
(* The coordinator starts without a hook, and nothing is on its way. *)
LEMMA DInit == Init => DInv
  <1> SUFFICES ASSUME Init PROVE DInv
    OBVIOUS
  <1>1. Shape
    BY ZenonT(30) DEF Init, Shape, AliasFields
  <1>2. SourceFirst /\ AliasAfter /\ Written
    BY DEF Init, SourceFirst, AliasAfter, Written
  <1>3. Counted /\ Reserved
    BY DEF Init, Counted, Reserved
  <1> QED BY <1>1, <1>2, <1>3 DEF DInv

USE DEF DInv, Shape, SourceFirst, AliasAfter, Written, Counted, Reserved, coordinator,
        AliasReleased

(* A step of the source that leaves the coordinator and the others alone. *)
LEMMA SourceMoves ==
  ASSUME DInv,
         UNCHANGED <<hook, claim, deferred, runs, alias, replay>>,
         DOMAIN source' = DOMAIN source,
         source'.at \in Attempt \cup {"done"}, source.at # "done",
         source'.ok = source.ok, source'.lost \in {source.lost, TRUE},
         source'.target = source.target,
         SourceFirst',
         onWire' \in {onWire, TRUE},
         source'.at \in {"written", "delivered"} \/ source'.state = "delivered"
            => onWire' = TRUE
  PROVE  DInv'
  <1> HIDE DEF SourceFirst
  <1>1. Shape'
    BY Zenon
  <1>2. AliasAfter'
    BY Zenon
  <1>3. Written'
    BY Zenon
  <1>4. Counted' /\ Reserved'
    BY Zenon
  <1> QED BY <1>1, <1>2, <1>3, <1>4, Zenon

(* The source keeps the invariant: only its last step may hand out the hook. *)
LEMMA SourcePart ==
  ASSUME DInv, SourceStep \/ SourceAnswered
  PROVE  DInv'
  <1>1. CASE PublishRPCResult
    <2>1. /\ DOMAIN source' = DOMAIN source /\ source'.at \in {"ready", "done"}
          /\ source'.target = source.target /\ source'.written = source.written
          /\ source'.lost = source.lost
          /\ source'.ok = TRUE \/ source'.ok = source.ok
          /\ source'.state = source.state \/ source'.state = "replayable"
          /\ source'.at = "ready" => source'.state = source.state
          /\ source'.at = "done" /\ source'.state = source.state => source'.ok = source.ok
      BY <1>1, ZenonT(30) DEF PublishRPCResult
    <2>2. /\ source.at = "handler" /\ hook' \in {"pending", "unset"}
          /\ UNCHANGED <<claim, deferred, runs, onWire, alias, replay>>
      BY <1>1, Zenon DEF PublishRPCResult
    <2>3. Shape' /\ SourceFirst'
      BY <2>1, <2>2, Zenon
    <2>4. AliasAfter' /\ Written'
      BY <2>1, <2>2, Zenon
    <2>5. Counted' /\ Reserved'
      BY <2>1, <2>2, Zenon
    <2> QED BY <2>3, <2>4, <2>5, Zenon
  <1>2. CASE AbortOwner
    <2>1. /\ DOMAIN source' = DOMAIN source /\ source'.at = "done"
          /\ source'.target = source.target /\ source'.written = source.written
          /\ source'.lost = source.lost /\ source'.ok = source.ok
          /\ source'.state = source.state
      BY <1>2 DEF AbortOwner
    <2>2. source.at = "handler" /\ UNCHANGED <<coordinator, onWire, alias, replay>>
      BY <1>2 DEF AbortOwner
    <2>3. SourceFirst'
      BY <2>1, <2>2, Zenon
    <2>4. source'.state = "prepared"
      BY <2>1, <2>2, Zenon
    <2> HIDE DEF DInv
    <2> QED BY <2>1, <2>2, <2>3, <2>4, SourceMoves, Zenon
  <1>3. CASE MarkQueued
    <2>1. /\ DOMAIN source' = DOMAIN source /\ source'.at = "admit"
          /\ source'.target = source.target /\ source'.written = source.written
          /\ source'.lost = source.lost /\ source'.ok = source.ok
          /\ source'.state = "queued"
      BY <1>3 DEF MarkQueued
    <2>2. source.at = "ready" /\ UNCHANGED <<coordinator, onWire, alias, replay>>
      BY <1>3 DEF MarkQueued
    <2>3. SourceFirst'
      BY <2>1, <2>2, Zenon
    <2> HIDE DEF DInv
    <2> QED BY <2>1, <2>2, <2>3, SourceMoves, Zenon
  <1>4. CASE AdmitSource
    <2>1. /\ DOMAIN source' = DOMAIN source /\ source'.at \in {"enqueued", "failed"}
          /\ source'.target = source.target /\ source'.written = source.written
          /\ source'.lost = source.lost /\ source'.ok = source.ok
          /\ source'.state = source.state
      BY <1>4, ZenonT(30) DEF AdmitSource
    <2>2. source.at = "admit" /\ UNCHANGED <<coordinator, onWire, alias, replay>>
      BY <1>4 DEF AdmitSource
    <2>3. SourceFirst'
      BY <2>1, <2>2, Zenon
    <2> HIDE DEF SourceFirst
    <2>4. source.state # "delivered" \/ onWire = TRUE
      BY Zenon
    <2> HIDE DEF DInv
    <2> QED BY <2>1, <2>2, <2>3, <2>4, SourceMoves, Zenon
  <1>5. CASE BeginWriting
    <2>1. /\ DOMAIN source' = DOMAIN source /\ source'.at \in {"writing", "failed"}
          /\ source'.target = source.target
          /\ source'.lost = source.lost /\ source'.ok = source.ok
          /\ \/ source'.state = source.state /\ source'.written = source.written
             \/ source'.state = "writing"
      BY <1>5, ZenonT(30) DEF BeginWriting
    <2>2. source.at = "enqueued" /\ UNCHANGED <<coordinator, onWire, alias, replay>>
      BY <1>5 DEF BeginWriting
    <2>3. SourceFirst'
      BY <2>1, <2>2, Zenon
    <2> HIDE DEF SourceFirst
    <2>4. source'.state # "delivered" \/ onWire = TRUE
      BY <2>1, Zenon
    <2> HIDE DEF DInv
    <2> QED BY <2>1, <2>2, <2>3, <2>4, SourceMoves, Zenon
  <1>6. CASE WriteSource
    <2>1. /\ DOMAIN source' = DOMAIN source /\ source'.at \in {"written", "failed"}
          /\ source'.target = source.target /\ source'.written = source.written
          /\ source'.lost = source.lost /\ source'.ok = source.ok
          /\ source'.state = source.state
          /\ source'.at = "failed" => onWire' = onWire
          /\ source'.at = "written" => onWire' = TRUE
      BY <1>6, ZenonT(30) DEF WriteSource
    <2>2. source.at = "writing" /\ UNCHANGED <<coordinator, alias, replay>>
      BY <1>6 DEF WriteSource
    <2>3. SourceFirst'
      BY <2>1, <2>2, Zenon
    <2> HIDE DEF SourceFirst
    <2>4. /\ onWire' \in {onWire, TRUE}
          /\ source'.at = "written" \/ source'.state = "delivered" => onWire' = TRUE
      BY <2>1, Zenon
    <2> HIDE DEF DInv
    <2> QED BY <2>1, <2>2, <2>3, <2>4, SourceMoves, Zenon
  <1>7. CASE SourceFails
    <2>1. /\ DOMAIN source' = DOMAIN source /\ source'.at = "done"
          /\ source'.target = source.target /\ source'.written = source.written
          /\ source'.lost = source.lost /\ source'.ok = source.ok
          /\ source'.state = "replayable"
      BY <1>7 DEF SourceFails
    <2>2. source.at = "failed" /\ UNCHANGED <<coordinator, onWire, alias, replay>>
      BY <1>7 DEF SourceFails
    <2>3. SourceFirst'
      BY <2>1, <2>2, Zenon
    <2> HIDE DEF DInv
    <2> QED BY <2>1, <2>2, <2>3, SourceMoves, Zenon
  <1>8. CASE MarkSourceDelivered
    <2>1. /\ DOMAIN source' = DOMAIN source /\ source'.at = "delivered"
          /\ source'.target = source.target /\ source'.written = source.written
          /\ source'.lost = source.lost /\ source'.ok = source.ok
          /\ source'.state = "delivered"
      BY <1>8 DEF MarkSourceDelivered
    <2>2. source.at = "written" /\ UNCHANGED <<coordinator, onWire, alias, replay>>
      BY <1>8 DEF MarkSourceDelivered
    <2>3. SourceFirst'
      BY <2>1, <2>2, Zenon
    <2> HIDE DEF SourceFirst
    <2>4. onWire = TRUE
      BY <2>2, Zenon
    <2> HIDE DEF DInv
    <2> QED BY <2>1, <2>2, <2>3, <2>4, SourceMoves, Zenon
  <1>9. CASE SourceDelivered
    <2>1. /\ DOMAIN source' = DOMAIN source /\ source'.at = "done"
          /\ source'.target = source.target /\ source'.written = source.written
          /\ source'.lost = source.lost /\ source'.ok = source.ok
          /\ source'.state = source.state
      BY <1>9, Zenon DEF SourceDelivered
    <2>2. source.at = "delivered" /\ UNCHANGED <<runs, onWire, alias, replay>>
      BY <1>9, Zenon DEF SourceDelivered, MarkDeliveredHook, ClaimAs
    <2>3. \/ hook = "pending" /\ hook' = "claimed" /\ deferred = FALSE /\ deferred' = FALSE
          \/ UNCHANGED <<hook, claim, deferred>>
      BY <1>9, Zenon DEF SourceDelivered, MarkDeliveredHook, ClaimAs, Claimable
    <2>4. Shape' /\ SourceFirst'
      BY <2>1, <2>2, <2>3, Zenon
    <2>5. AliasAfter' /\ Written'
      BY <2>1, <2>2, <2>3, Zenon
    <2>6. Counted' /\ Reserved'
      BY <2>1, <2>2, <2>3, Zenon
    <2> QED BY <2>4, <2>5, <2>6, Zenon
  <1>10. CASE SourceAnswered
    <2>1. /\ DOMAIN source' = DOMAIN source /\ source'.at = source.at
          /\ source'.target = source.target /\ source'.written = source.written
          /\ source'.lost = TRUE /\ source'.ok = source.ok
          /\ source'.state = source.state
      BY <1>10 DEF SourceAnswered
    <2>2. source.at # "done" /\ UNCHANGED <<coordinator, onWire, alias, replay>>
      BY <1>10 DEF SourceAnswered
    <2>3. SourceFirst'
      BY <2>1, <2>2, Zenon
    <2> HIDE DEF SourceFirst
    <2>4. source.at \in Attempt \cup {"done"}
      BY Zenon
    <2>5. source.at \in {"written", "delivered"} \/ source.state = "delivered" => onWire = TRUE
      BY Zenon
    <2> HIDE DEF DInv
    <2> QED BY <2>1, <2>2, <2>3, <2>4, <2>5, SourceMoves, Zenon
  <1> HIDE DEF DInv
  <1> QED BY <1>1, <1>2, <1>3, <1>4, <1>5, <1>6, <1>7, <1>8, <1>9, <1>10, Zenon
          DEF SourceStep

(* What the operators of the delivery job keep of an alias. *)
LEMMA FailJobFields ==
  ASSUME NEW a, DOMAIN a = AliasFields
  PROVE  /\ DOMAIN FailJob(a) = AliasFields
         /\ FailJob(a).at = a.at /\ FailJob(a).kind = a.kind
         /\ FailJob(a).timer = a.timer /\ FailJob(a).control = a.control
         /\ FailJob(a).activation = a.activation
  BY DEF FailJob, Stored, AliasFields

(* Who leaves arms no watchdog. *)
LEMMA CompleteFields ==
  ASSUME NEW a, DOMAIN a = AliasFields
  PROVE  /\ DOMAIN Complete(a) = AliasFields
         /\ Complete(a).at = "ended" /\ Complete(a).kind = a.kind
         /\ Complete(a).activation = a.activation
         /\ a.timer = "off" => Complete(a).timer = "off"
         /\ Complete(a).timer = "fired" => a.timer = "fired"
         /\ a.control = "failed" => Complete(a).control = "failed"
  BY DEF Complete, AliasFields

(* Nor does a job that fails before it leaves. *)
LEMMA FailedFields ==
  ASSUME NEW a, DOMAIN a = AliasFields
  PROVE  /\ DOMAIN Complete(FailJob(a)) = AliasFields
         /\ Complete(FailJob(a)).at = "ended" /\ Complete(FailJob(a)).kind = a.kind
         /\ Complete(FailJob(a)).activation = a.activation
         /\ a.timer = "off" => Complete(FailJob(a)).timer = "off"
         /\ Complete(FailJob(a)).timer = "fired" => a.timer = "fired"
         /\ a.control = "failed" => Complete(FailJob(a)).control = "failed"
  <1> PICK b : b = FailJob(a)
    OBVIOUS
  <1>1. /\ DOMAIN b = AliasFields /\ b.kind = a.kind /\ b.timer = a.timer
        /\ b.activation = a.activation /\ b.control = a.control
    BY FailJobFields
  <1>2. /\ DOMAIN Complete(b) = AliasFields
        /\ Complete(b).at = "ended" /\ Complete(b).kind = b.kind
        /\ Complete(b).activation = b.activation
        /\ b.timer = "off" => Complete(b).timer = "off"
        /\ Complete(b).timer = "fired" => b.timer = "fired"
        /\ b.control = "failed" => Complete(b).control = "failed"
    <2> HIDE DEF AliasFields
    <2> QED BY <1>1, CompleteFields
  <1> QED BY <1>1, <1>2, Zenon

(* A commit changes the control alone. *)
LEMMA CommitFields ==
  ASSUME NEW a, DOMAIN a = AliasFields
  PROVE  /\ DOMAIN Commit(a) = AliasFields
         /\ Commit(a).at = a.at /\ Commit(a).kind = a.kind
         /\ Commit(a).timer = a.timer /\ Commit(a).activation = a.activation
         /\ Commit(a).control = IF a.control = "running" THEN "committed" ELSE a.control
  BY DEF Commit, AliasFields

(* The alias leaves.  It may have released a deferral that was its own, claimed
   the hook, or given its claim back. *)
LEMMA AliasLeaves ==
  ASSUME DInv,
         DOMAIN alias' = AliasFields, alias'.at = "ended", alias'.kind = alias.kind,
         alias'.activation # "none", alias.timer = "off" => alias'.timer = "off",
         alias'.timer = "fired" => alias.timer = "fired",
         alias.control = "failed" => alias'.control = "failed",
         UNCHANGED <<runs, onWire, source, replay>>,
         \/ UNCHANGED <<hook, claim, deferred>>
         \/ UNCHANGED <<hook, claim>> /\ deferred' = FALSE /\ source.at = "done"
         \/ /\ hook = "pending" /\ hook' = "claimed" /\ deferred' = FALSE
            /\ source.at = "done" /\ source.ok = TRUE /\ onWire = TRUE
         \/ hook = "claimed" /\ hook' = "pending" /\ claim' = NoClaim /\ deferred' = deferred
  PROVE  DInv'
  <1>1. Shape' /\ SourceFirst'
    BY Zenon
  <1>2. AliasAfter' /\ Written'
    BY Zenon
  <1>3. Counted' /\ Reserved'
    BY Zenon
  <1> QED BY <1>1, <1>2, <1>3, Zenon

(* The alias goes on, and leaves the coordinator alone. *)
LEMMA AliasMoves ==
  ASSUME DInv,
         UNCHANGED <<hook, claim, deferred, runs, source, replay>>,
         onWire' \in {onWire, TRUE},
         DOMAIN alias' = AliasFields, alias'.activation # "none",
         alias'.kind = alias.kind \/ (alias'.kind = "restore" => onWire' = TRUE),
         alias'.at = "queued" => alias'.kind \in {"send", "restore"},
         alias'.at = "commit" => alias'.kind = "restore",
         alias'.at \in Delivered /\ source.lost = FALSE => onWire' = TRUE,
         AliasAfter',
         AliasReleased => AliasReleased'
  PROVE  DInv'
  <1> HIDE DEF AliasAfter
  <1>1. Shape' /\ SourceFirst'
    BY Zenon
  <1>2. Written'
    BY Zenon
  <1> HIDE DEF AliasReleased
  <1>3. Counted' /\ Reserved'
    BY Zenon
  <1> QED BY <1>1, <1>2, <1>3, Zenon

(* Activation and the subscriber keep the invariant. *)
LEMMA ActivationPart ==
  ASSUME DInv, Activate \/ AliasAnswered \/ TryRetarget \/ StoreRetargeted \/ ResultSubscriber
  PROVE  DInv'
  <1>1. CASE Activate
    <2>1. UNCHANGED <<coordinator, onWire, source, replay>> /\ alias.activation = "none"
      BY <1>1, Zenon DEF Activate
    <2>2. /\ DOMAIN alias' = AliasFields /\ alias'.activation # "none"
          /\ alias'.at \in {alias.at, "ended"} /\ alias'.kind = alias.kind
          /\ alias'.control = alias.control /\ alias'.timer = alias.timer
      <3>1. CASE alias' = [alias EXCEPT !.activation = "done", !.flight = "aborted",
                                        !.at = "ended"]
        BY <3>1 DEF AliasFields
      <3>2. CASE \E next \in {"subscribed", "done"} :
                   alias' = [alias EXCEPT !.activation = next, !.flight = "pending",
                                          !.barrier = TRUE]
        BY <3>2 DEF AliasFields
      <3> QED BY <1>1, <3>1, <3>2, Zenon DEF Activate
    <2>3. AliasAfter' /\ (AliasReleased => AliasReleased')
      BY <2>1, <2>2, Zenon
    <2>4. alias'.at \in {"waiting", "ended"}
      BY <2>1, <2>2, Zenon
    <2> HIDE DEF DInv
    <2> QED BY <2>1, <2>2, <2>3, <2>4, AliasMoves, Zenon
  <1>2. CASE AliasAnswered
    <2>1. UNCHANGED <<coordinator, onWire, source, replay>> /\ alias.flight = "pending"
      BY <1>2, Zenon DEF AliasAnswered
    <2>2. /\ DOMAIN alias' = AliasFields /\ alias'.activation = alias.activation
          /\ alias'.at = alias.at /\ alias'.kind = alias.kind
          /\ alias'.control = alias.control /\ alias'.timer = alias.timer
      BY <1>2 DEF AliasAnswered, AliasFields
    <2>3. Shape' /\ SourceFirst'
      BY <2>1, <2>2, Zenon
    <2>4. AliasAfter' /\ Written'
      BY <2>1, <2>2, Zenon
    <2>5. Counted' /\ Reserved'
      BY <2>1, <2>2, Zenon
    <2> QED BY <2>3, <2>4, <2>5, Zenon
  <1>3. CASE TryRetarget
    <2>1. /\ DOMAIN alias' = AliasFields /\ alias'.activation # "none"
          /\ alias'.at = alias.at /\ alias'.kind = alias.kind
          /\ alias'.control = alias.control /\ alias'.timer = alias.timer
      BY <1>3 DEF TryRetarget, AliasFields
    <2>2. /\ DOMAIN source' = DOMAIN source
          /\ source'.at = source.at /\ source'.state = source.state
          /\ source'.ok = source.ok /\ source'.lost = source.lost
          /\ source'.written = source.written
          /\ UNCHANGED <<hook, claim, runs, onWire, replay>>
      BY <1>3, ZenonT(30) DEF TryRetarget
    <2>3. \/ Fresh /\ deferred' = (deferred \/ hook # "done")
          \/ source'.target = source.target /\ deferred' = deferred
      BY <1>3, ZenonT(30) DEF TryRetarget
    <2>4. \/ Fresh /\ deferred' = TRUE
          \/ source'.target = source.target /\ deferred' = deferred
      BY <2>3, Zenon
    <2>5. Shape' /\ SourceFirst'
      BY <2>1, <2>2, <2>4, Zenon
    <2>6. AliasAfter' /\ Written'
      BY <2>1, <2>2, Zenon
    <2>7. Counted'
      BY <2>2, Zenon
    <2>8. Reserved'
      <3>1. AliasReleased => AliasReleased'
        BY <2>1, Zenon
      <3> HIDE DEF AliasReleased
      <3> QED BY <2>1, <2>2, <2>4, <3>1, Zenon
    <2> QED BY <2>5, <2>6, <2>7, <2>8, Zenon
  <1>4. CASE StoreRetargeted
    <2>1. UNCHANGED <<coordinator, onWire, source, replay>>
      BY <1>4, Zenon DEF StoreRetargeted
    <2>2. /\ DOMAIN alias' = AliasFields /\ alias'.activation # "none"
          /\ alias'.at = alias.at /\ alias'.kind = alias.kind
          /\ alias'.control = alias.control /\ alias'.timer = alias.timer
      BY <1>4 DEF StoreRetargeted, AliasFields
    <2>3. AliasAfter' /\ (AliasReleased => AliasReleased')
      BY <2>1, <2>2, Zenon
    <2>4. Written'
      BY <2>1, <2>2, Zenon
    <2> HIDE DEF DInv, AliasAfter, AliasReleased
    <2> QED BY <2>1, <2>2, <2>3, <2>4, AliasMoves, Zenon
  <1>5. CASE ResultSubscriber
    <2>1. /\ source.at = "done" \/ source.lost = TRUE
          /\ alias.at = "waiting" /\ alias.activation # "none"
          /\ UNCHANGED <<onWire, tasks, source, replay>>
      BY <1>5, Zenon DEF ResultSubscriber
    <2>2. CASE /\ ~source.lost /\ ReleaseDeferredHook
               /\ alias' = Ended(Aborted(alias))
      <3>1. /\ DOMAIN alias' = AliasFields /\ alias'.at = "ended" /\ alias'.kind = alias.kind
            /\ alias'.timer = alias.timer /\ alias'.activation = alias.activation
            /\ alias'.control = alias.control
        BY <2>2 DEF Ended, Aborted, AliasFields
      <3> HIDE DEF DInv
      <3> QED BY <2>1, <2>2, <3>1, AliasLeaves, Zenon DEF ReleaseDeferredHook
    <2>3. CASE /\ UNCHANGED coordinator
               /\ alias' = Ended(Aborted(alias)) \/ alias' = Ended(alias)
      <3>1. /\ DOMAIN alias' = AliasFields /\ alias'.at = "ended" /\ alias'.kind = alias.kind
            /\ alias'.timer = alias.timer /\ alias'.activation = alias.activation
            /\ alias'.control = alias.control
        <4>1. CASE alias' = Ended(alias)
          BY <4>1 DEF Ended, AliasFields
        <4>2. CASE alias' = Ended(Aborted(alias))
          BY <4>2 DEF Ended, Aborted, AliasFields
        <4> QED BY <2>3, <4>1, <4>2, Zenon
      <3> HIDE DEF DInv
      <3> QED BY <2>1, <2>3, <3>1, AliasLeaves, Zenon
    <2>4. CASE /\ UNCHANGED coordinator /\ alias' = Scheduled
               /\ source.ok \/ source.lost
      <3>1. /\ DOMAIN alias' = AliasFields /\ alias'.at = "queued"
            /\ alias'.activation = alias.activation /\ alias'.timer = "armed"
            /\ alias'.kind \in {"send", "restore"}
            /\ alias'.kind = "restore" => source.state = "delivered"
        BY <2>4 DEF Scheduled, AliasFields, RetargetDelivered
      <3>2. source.lost = FALSE => source.at = "done" /\ source.ok = TRUE
        BY <2>1, <2>4, Zenon
      <3>3. AliasAfter' /\ (AliasReleased => AliasReleased')
        BY <2>1, <3>1, <3>2, Zenon
      <3> HIDE DEF AliasAfter, AliasReleased
      <3>4. alias'.kind = "restore" => onWire = TRUE
        BY <3>1, Zenon
      <3> HIDE DEF DInv
      <3> QED BY <2>1, <2>4, <3>1, <3>3, <3>4, AliasMoves, Zenon
    <2>5. CASE /\ alias' = Ended(FailJob(alias)) /\ ReleaseByAlias
      <3>1. /\ DOMAIN alias' = AliasFields /\ alias'.at = "ended" /\ alias'.kind = alias.kind
            /\ alias'.timer = alias.timer /\ alias'.activation = alias.activation
            /\ alias'.control = alias.control
        BY <2>5, FailJobFields DEF Ended, AliasFields
      <3>2. \/ UNCHANGED <<hook, claim, deferred>>
            \/ UNCHANGED <<hook, claim>> /\ deferred' = FALSE /\ source.at = "done"
        BY <2>1, <2>5, Zenon DEF ReleaseByAlias, OwnResult, ReleaseDeferredHook
      <3>3. UNCHANGED runs
        BY <2>5, Zenon DEF ReleaseByAlias, ReleaseDeferredHook
      <3> HIDE DEF DInv
      <3> QED BY <2>1, <3>1, <3>2, <3>3, AliasLeaves, Zenon
    <2> HIDE DEF DInv
    <2> QED BY <1>5, <2>2, <2>3, <2>4, <2>5, Zenon DEF ResultSubscriber
  <1> HIDE DEF DInv
  <1> QED BY <1>1, <1>2, <1>3, <1>4, <1>5, Zenon

(* The job and its watchdog keep the invariant. *)
LEMMA JobPart ==
  ASSUME DInv,
         \/ StartJob \/ CommitRestore \/ HandOffAlias \/ ClaimForAlias \/ AliasTimedOut
         \/ RestoreAlias \/ WaitAlias \/ WriteAlias \/ Timer
  PROVE  DInv'
  <1>1. CASE StartJob
    <2>1. /\ alias.at = "queued" /\ alias.control = "pending"
          /\ UNCHANGED <<coordinator, onWire, source, replay>>
      BY <1>1 DEF StartJob
    <2>2. /\ DOMAIN alias' = AliasFields /\ alias'.kind = alias.kind
          /\ alias'.activation = alias.activation /\ alias'.timer = alias.timer
          /\ alias'.at = IF alias.kind = "send" THEN "hand_off" ELSE "commit"
      BY <1>1 DEF StartJob, AliasFields
    <2>3. AliasAfter' /\ (AliasReleased => AliasReleased')
      BY <2>1, <2>2, Zenon
    <2>4. alias.activation # "none" /\ (alias'.at = "commit" => alias'.kind = "restore")
      BY <2>1, <2>2, Zenon
    <2> HIDE DEF DInv, AliasAfter, AliasReleased
    <2> QED BY <2>1, <2>2, <2>3, <2>4, AliasMoves, Zenon
  <1>2. CASE CommitRestore
    <2>1. alias.at = "commit" /\ UNCHANGED <<coordinator, onWire, source, replay>>
      BY <1>2 DEF CommitRestore
    <2>2. CASE alias.control = "running"
      <3>1. alias' = [Commit(alias) EXCEPT !.at = "claim"]
        BY <1>2, <2>2 DEF CommitRestore
      <3>2. /\ DOMAIN alias' = AliasFields /\ alias'.at = "claim" /\ alias'.kind = alias.kind
            /\ alias'.activation = alias.activation /\ alias'.timer = alias.timer
        BY <3>1, CommitFields DEF AliasFields
      <3>3. AliasAfter' /\ (AliasReleased => AliasReleased')
        BY <2>1, <2>2, <3>2, Zenon
      <3>4. alias.activation # "none" /\ onWire = TRUE
        BY <2>1, Zenon
      <3> HIDE DEF DInv, AliasAfter, AliasReleased
      <3> QED BY <2>1, <3>2, <3>3, <3>4, AliasMoves, Zenon
    <2>3. CASE alias.control # "running"
      <3>1. alias' = Complete(alias)
        BY <1>2, <2>3 DEF CommitRestore
      <3>2. alias.activation # "none" /\ DOMAIN alias = AliasFields
        BY <2>1, Zenon
      <3> HIDE DEF DInv
      <3> QED BY <2>1, <3>1, <3>2, CompleteFields, AliasLeaves, Zenon
    <2> QED BY <2>2, <2>3, Zenon
  <1>3. CASE HandOffAlias
    <2>1. /\ alias.at = "hand_off" /\ alias.activation # "none"
          /\ UNCHANGED <<coordinator, onWire, source, replay>>
      BY <1>3, Zenon DEF HandOffAlias
    <2>2. CASE alias' = [Complete(alias) EXCEPT !.barrier = FALSE]
      <3>1. /\ DOMAIN alias' = AliasFields /\ alias'.at = "ended" /\ alias'.kind = alias.kind
            /\ alias'.activation = alias.activation
            /\ alias.timer = "off" => alias'.timer = "off"
            /\ alias'.timer = "fired" => alias.timer = "fired"
            /\ alias.control = "failed" => alias'.control = "failed"
        BY <2>2, CompleteFields DEF AliasFields
      <3> HIDE DEF DInv
      <3> QED BY <2>1, <2>2, <3>1, AliasLeaves, Zenon
    <2>3. CASE alias' = [alias EXCEPT !.at = "sending"]
      <3>1. /\ DOMAIN alias' = AliasFields /\ alias'.at = "sending"
            /\ alias'.kind = alias.kind /\ alias'.control = alias.control
            /\ alias'.timer = alias.timer /\ alias'.activation = alias.activation
        BY <2>3 DEF AliasFields
      <3>2. AliasAfter' /\ (AliasReleased => AliasReleased')
        BY <2>1, <3>1, Zenon
      <3> HIDE DEF DInv, AliasAfter, AliasReleased
      <3> QED BY <2>1, <3>1, <3>2, AliasMoves, Zenon
    <2>4. CASE alias' = Complete(alias)
      <3>1. DOMAIN alias = AliasFields
        BY Zenon
      <3> HIDE DEF DInv
      <3> QED BY <2>1, <2>4, <3>1, CompleteFields, AliasLeaves, Zenon
    <2> QED BY <1>3, <2>2, <2>3, <2>4, Zenon DEF HandOffAlias
  <1>4. CASE ClaimForAlias
    <2>1. \E next \in {"restore", "waiting_claim", "timed_out"} :
            alias' = [alias EXCEPT !.at = next]
      BY <1>4, Zenon DEF ClaimForAlias
    <2>2. /\ DOMAIN alias' = AliasFields /\ alias'.kind = alias.kind
          /\ alias'.at \in {"restore", "waiting_claim", "timed_out"}
          /\ alias'.timer = alias.timer /\ alias'.control = alias.control
          /\ alias'.activation = alias.activation
      BY <2>1 DEF AliasFields
    <2>3. /\ alias.at \in {"claim", "waiting_claim"} /\ alias.activation # "none"
          /\ UNCHANGED <<runs, onWire, source, replay>>
      BY <1>4, Zenon DEF ClaimForAlias, ClaimAs
    <2>4. \/ /\ hook = "pending" /\ hook' = "claimed" /\ deferred' = FALSE
             /\ claim' = Token("alias", "sync") /\ source.lost = FALSE
             /\ alias' = [alias EXCEPT !.at = "restore"]
          \/ UNCHANGED <<hook, claim, deferred>>
      BY <1>4, Zenon DEF ClaimForAlias, ClaimAs, Claimable, OwnResult
    <2>5. alias'.at \in {"waiting_claim", "timed_out"} => source.lost = FALSE
      <3>1. \/ alias' = [alias EXCEPT !.at = "restore"]
            \/ source.lost = FALSE
            \/ alias.at = "waiting_claim"
        BY <1>4, Zenon DEF ClaimForAlias, OwnResult
      <3>2. alias' = [alias EXCEPT !.at = "restore"] => alias'.at = "restore"
        BY DEF AliasFields
      <3> QED BY <3>1, <3>2, Zenon
    <2>6. AliasAfter' /\ (AliasReleased => AliasReleased')
      BY <2>2, <2>3, <2>5, Zenon
    <2>7. CASE UNCHANGED <<hook, claim, deferred>>
      <3>1. source.lost = FALSE => onWire = TRUE
        BY <2>3, Zenon
      <3> HIDE DEF DInv, AliasAfter, AliasReleased
      <3> QED BY <2>2, <2>3, <2>6, <2>7, <3>1, AliasMoves, Zenon
    <2>8. CASE /\ hook = "pending" /\ hook' = "claimed" /\ deferred' = FALSE
               /\ claim' = Token("alias", "sync") /\ source.lost = FALSE
      <3>1. source.at = "done" /\ source.ok = TRUE /\ onWire = TRUE
        BY <2>3, <2>8, Zenon
      <3>2. claim'[1] = "alias"
        BY <2>8 DEF Token
      <3>3. Shape' /\ SourceFirst'
        BY <2>2, <2>3, <2>8, <3>1, Zenon
      <3>4. Written' /\ Counted'
        BY <2>2, <2>3, <2>8, <3>1, Zenon
      <3>5. Reserved'
        BY <2>3, <2>8, <3>1, <3>2, Zenon
      <3> QED BY <2>6, <3>3, <3>4, <3>5, Zenon
    <2> QED BY <2>4, <2>7, <2>8, Zenon
  <1>5. CASE AliasTimedOut
    <2>1. alias.at = "timed_out" /\ UNCHANGED <<runs, onWire, source, replay>>
      BY <1>5, Zenon DEF AliasTimedOut, MarkDeliveredHook, ClaimAs
    <2>2. /\ DOMAIN alias' = AliasFields /\ alias'.at = "ended" /\ alias'.kind = alias.kind
          /\ alias'.activation = alias.activation
          /\ alias.timer = "off" => alias'.timer = "off"
          /\ alias'.timer = "fired" => alias.timer = "fired"
          /\ alias.control = "failed" => alias'.control = "failed"
      BY <1>5, FailedFields, ZenonT(30) DEF AliasTimedOut
    <2>3. \/ hook = "pending" /\ hook' = "claimed" /\ deferred' = FALSE
          \/ UNCHANGED <<hook, claim, deferred>>
      BY <1>5, Zenon DEF AliasTimedOut, MarkDeliveredHook, ClaimAs, Claimable
    <2>4. /\ alias.activation # "none" /\ source.at = "done" /\ source.ok = TRUE
          /\ onWire = TRUE
      BY <2>1, Zenon
    <2> HIDE DEF DInv
    <2> QED BY <2>1, <2>2, <2>3, <2>4, AliasLeaves, Zenon
  <1>6. CASE RestoreAlias
    <2>1. /\ alias.at = "restore" /\ alias.activation # "none"
          /\ UNCHANGED <<onWire, source, replay>>
      BY <1>6, Zenon DEF RestoreAlias
    <2>2. CASE alias' = [alias EXCEPT !.at = "wait"] /\ UNCHANGED coordinator
      <3>1. /\ DOMAIN alias' = AliasFields /\ alias'.at = "wait" /\ alias'.kind = alias.kind
            /\ alias'.timer = alias.timer /\ alias'.control = alias.control
            /\ alias'.activation = alias.activation
        BY <2>2 DEF AliasFields
      <3>2. AliasAfter' /\ (AliasReleased => AliasReleased')
        BY <2>1, <3>1, Zenon
      <3>3. source.lost = FALSE => onWire = TRUE
        BY <2>1, Zenon
      <3> HIDE DEF DInv, AliasAfter, AliasReleased
      <3> QED BY <2>1, <2>2, <3>1, <3>2, <3>3, AliasMoves, Zenon
    <2>3. CASE alias' = Complete(FailJob(alias)) /\ Abandon(Token("alias", "sync"))
      <3>1. /\ DOMAIN alias' = AliasFields /\ alias'.at = "ended" /\ alias'.kind = alias.kind
            /\ alias'.activation = alias.activation
            /\ alias.timer = "off" => alias'.timer = "off"
            /\ alias'.timer = "fired" => alias.timer = "fired"
            /\ alias.control = "failed" => alias'.control = "failed"
        BY <2>3, FailedFields, ZenonT(30)
      <3>2. /\ UNCHANGED runs
            /\ \/ UNCHANGED <<hook, claim, deferred>>
               \/ /\ hook = "claimed" /\ hook' = "pending" /\ claim' = NoClaim
                  /\ deferred' = deferred
        BY <2>3, Zenon DEF Abandon
      <3> HIDE DEF DInv
      <3> QED BY <2>1, <3>1, <3>2, AliasLeaves, Zenon
    <2> QED BY <1>6, <2>2, <2>3, Zenon DEF RestoreAlias
  <1>7. CASE WaitAlias
    <2>1. /\ alias.at = "wait" /\ alias.activation # "none"
          /\ UNCHANGED <<onWire, source, replay>>
      BY <1>7, Zenon DEF WaitAlias
    <2>2. /\ DOMAIN alias' = AliasFields /\ alias'.at = "ended" /\ alias'.kind = alias.kind
          /\ alias'.activation = alias.activation
          /\ alias.timer = "off" => alias'.timer = "off"
          /\ alias'.timer = "fired" => alias.timer = "fired"
          /\ alias.control = "failed" => alias'.control = "failed"
      BY <1>7, FailedFields, ZenonT(30) DEF WaitAlias
    <2>3. /\ UNCHANGED runs
          /\ \/ UNCHANGED <<hook, claim, deferred>>
             \/ /\ hook = "claimed" /\ hook' = "pending" /\ claim' = NoClaim
                /\ deferred' = deferred
      BY <1>7, Zenon DEF WaitAlias, Abandon
    <2> HIDE DEF DInv
    <2> QED BY <2>1, <2>2, <2>3, AliasLeaves, Zenon
  <1>8. CASE WriteAlias
    <2>1. /\ alias.at = "sending" /\ alias.activation # "none"
          /\ UNCHANGED <<source, replay>>
          /\ source.lost = FALSE => source.at = "done" /\ source.ok = TRUE
      BY <1>8, Zenon DEF WriteAlias
    <2>2. CASE /\ onWire' = (onWire \/ OwnResult)
               /\ alias' = [Commit(alias) EXCEPT !.at = "claim"] /\ UNCHANGED coordinator
      <3>1. /\ DOMAIN alias' = AliasFields /\ alias'.at = "claim" /\ alias'.kind = alias.kind
            /\ alias'.timer = alias.timer /\ alias'.activation = alias.activation
            /\ alias'.control = IF alias.control = "running" THEN "committed"
                                ELSE alias.control
        BY <2>2, CommitFields DEF AliasFields
      <3>2. /\ onWire' \in {onWire, TRUE}
            /\ source.lost = FALSE => onWire' = TRUE
        BY <2>2, Zenon DEF OwnResult
      <3>3. AliasAfter' /\ (AliasReleased => AliasReleased')
        BY <2>1, <3>1, Zenon
      <3> HIDE DEF DInv, AliasAfter, AliasReleased
      <3> QED BY <2>1, <2>2, <3>1, <3>2, <3>3, AliasMoves, Zenon
    <2>3. CASE /\ alias' = Complete(FailJob(Commit(alias)))
               /\ ReleaseByAlias /\ UNCHANGED onWire
      <3>1. /\ DOMAIN alias' = AliasFields /\ alias'.at = "ended" /\ alias'.kind = alias.kind
            /\ alias'.activation = alias.activation
            /\ alias.timer = "off" => alias'.timer = "off"
            /\ alias'.timer = "fired" => alias.timer = "fired"
            /\ alias.control = "failed" => alias'.control = "failed"
        <4>1. PICK b : b = Commit(alias)
          OBVIOUS
        <4>2. /\ DOMAIN b = AliasFields /\ b.kind = alias.kind /\ b.timer = alias.timer
              /\ b.activation = alias.activation
              /\ alias.control = "failed" => b.control = "failed"
          BY <4>1, CommitFields
        <4>3. /\ DOMAIN Complete(FailJob(b)) = AliasFields
              /\ Complete(FailJob(b)).at = "ended" /\ Complete(FailJob(b)).kind = b.kind
              /\ Complete(FailJob(b)).activation = b.activation
              /\ b.timer = "off" => Complete(FailJob(b)).timer = "off"
              /\ Complete(FailJob(b)).timer = "fired" => b.timer = "fired"
              /\ b.control = "failed" => Complete(FailJob(b)).control = "failed"
          BY ONLY <4>2, FailedFields, ZenonT(30), SMTT(30)
        <4> QED BY <2>3, <4>1, <4>2, <4>3, ZenonT(30)
      <3>2. /\ UNCHANGED runs
            /\ \/ UNCHANGED <<hook, claim, deferred>>
               \/ UNCHANGED <<hook, claim>> /\ deferred' = FALSE /\ source.at = "done"
        BY <2>1, <2>3, Zenon DEF ReleaseByAlias, OwnResult, ReleaseDeferredHook
      <3> HIDE DEF DInv
      <3> QED BY <2>1, <2>3, <3>1, <3>2, AliasLeaves, Zenon
    <2>4. CASE alias' = Complete(alias) /\ UNCHANGED <<coordinator, onWire>>
      <3>1. DOMAIN alias = AliasFields
        BY Zenon
      <3> HIDE DEF DInv
      <3> QED BY <2>1, <2>4, <3>1, CompleteFields, AliasLeaves, Zenon
    <2> QED BY <1>8, <2>2, <2>3, <2>4, Zenon DEF WriteAlias
  <1>9. CASE TimerFires
    <2>1. UNCHANGED <<coordinator, onWire, source, replay>> /\ alias.timer = "armed"
      BY <1>9 DEF TimerFires
    <2>2. /\ DOMAIN alias' = AliasFields /\ alias'.timer = "fired" /\ alias'.control = "failed"
          /\ alias'.kind = alias.kind /\ alias'.activation = alias.activation
          /\ alias'.at = IF alias.at = "queued" THEN "ended" ELSE alias.at
          /\ alias.control # "failed"
      BY <1>9 DEF TimerFires, AliasFields
    <2>3. AliasAfter' /\ (AliasReleased => AliasReleased')
      BY <2>1, <2>2, Zenon
    <2>4. /\ alias.activation # "none"
          /\ alias'.at # "queued" /\ (alias'.at = "commit" => alias'.kind = "restore")
          /\ alias'.at \in Delivered /\ source.lost = FALSE => onWire = TRUE
      BY <2>1, <2>2, Zenon
    <2> HIDE DEF DInv, AliasAfter, AliasReleased
    <2> QED BY <2>1, <2>2, <2>3, <2>4, AliasMoves, Zenon
  <1>10. CASE TimerFails
    <2>1. /\ alias.timer = "fired" /\ UNCHANGED <<hook, claim, runs, onWire, source, replay>>
          /\ (deferred' = FALSE /\ source.lost = FALSE) \/ deferred' = deferred
      BY <1>10, Zenon DEF TimerFails, ReleaseByAlias, OwnResult, ReleaseDeferredHook
    <2>2. /\ DOMAIN alias' = AliasFields /\ alias'.kind = alias.kind /\ alias'.at = alias.at
          /\ alias'.timer = "off" /\ alias'.control = alias.control
          /\ alias'.activation = alias.activation
      BY <1>10, FailJobFields DEF TimerFails, AliasFields
    <2>3. Shape' /\ SourceFirst'
      BY <2>1, <2>2, Zenon
    <2>4. AliasAfter' /\ Written'
      BY <2>1, <2>2, Zenon
    <2>5. Counted'
      BY <2>1, Zenon
    <2>6. AliasReleased'
      BY <2>1, <2>2, Zenon
    <2>7. Reserved'
      <3> HIDE DEF AliasReleased
      <3> QED BY <2>1, <2>6, Zenon
    <2> QED BY <2>3, <2>4, <2>5, <2>7, Zenon
  <1> HIDE DEF DInv
  <1> QED BY <1>1, <1>2, <1>3, <1>4, <1>5, <1>6, <1>7, <1>8, <1>9, <1>10 DEF Timer

(* A replay keeps the invariant: it claims after its own write, and never a
   deferred hook. *)
LEMMA ReplayPart ==
  ASSUME DInv, NEW r \in Replays, ReplayStep(r)
  PROVE  DInv'
  <1>0. r # "alias"
    BY ReplayAssumption
  <1>1. CASE SendReplay(r)
    <2>1. /\ replay' \in [Replays -> {"idle", "ended"} \cup Delivered]
          /\ \A q \in Replays \ {r} : replay'[q] = replay[q]
          /\ replay'[r] \in Delivered => onWire' = TRUE
          /\ onWire' = TRUE \/ onWire' = onWire
      BY <1>1 DEF SendReplay, Go
    <2>2. UNCHANGED <<coordinator, source, alias>>
      BY <1>1, Zenon DEF SendReplay
    <2>3. ~Fresh
      BY <1>1, Zenon DEF SendReplay, Replayable
    <2>4. Shape' /\ SourceFirst'
      BY <2>1, <2>2, <2>3, Zenon
    <2>5. Written'
      BY <2>1, <2>2
    <2>6. AliasAfter' /\ Counted' /\ Reserved'
      BY <2>2, Zenon
    <2> QED BY <2>4, <2>5, <2>6, Zenon
  <1>2. CASE ~SendReplay(r)
    <2>1. /\ replay' \in [Replays -> {"idle", "ended"} \cup Delivered]
          /\ \A q \in Replays \ {r} : replay'[q] = replay[q]
          /\ replay[r] \in Delivered
          /\ UNCHANGED <<runs, onWire, source, alias>>
      BY <1>2, ZenonT(30) DEF ReplayStep, ClaimForReplay, ReplayTimedOut, RestoreReplay,
         WaitReplay, Go, MarkDeliveredHook, ClaimAs, Abandon
    <2>2. \/ UNCHANGED <<hook, claim, deferred>>
          \/ hook = "pending" /\ hook' = "claimed" /\ deferred = FALSE /\ deferred' = FALSE
          \/ /\ hook = "claimed" /\ hook' = "pending" /\ claim = Token(r, "sync")
             /\ claim' = NoClaim /\ deferred' = deferred
      BY <1>2, ZenonT(30) DEF ReplayStep, ClaimForReplay, ReplayTimedOut, RestoreReplay,
         WaitReplay, MarkDeliveredHook, ClaimAs, Claimable, Abandon
    <2>3. claim = Token(r, "sync") => claim # NoClaim /\ claim[1] # "alias"
      BY <1>0 DEF Token, NoClaim
    <2>4. ~Fresh /\ onWire = TRUE
      BY <2>1, Zenon
    <2>5. Shape' /\ SourceFirst'
      BY <2>1, <2>2, <2>4, Zenon
    <2>6. AliasAfter' /\ Written'
      BY <2>1, <2>4, Zenon
    <2>7. Counted'
      BY <2>1, <2>2, Zenon
    <2>8. Reserved'
      <3>1. AliasReleased' = AliasReleased
        BY <2>1, Zenon
      <3> HIDE DEF AliasReleased
      <3> QED BY <2>1, <2>2, <2>3, <3>1, Zenon
    <2> QED BY <2>5, <2>6, <2>7, <2>8, Zenon
  <1> QED BY <1>1, <1>2, Zenon

(* A queued task enters the hook only for the claim that holds it. *)
LEMMA HookPart ==
  ASSUME DInv, NEW token, StartHook(token) \/ FinishHook(token)
  PROVE  DInv'
  <1>1. UNCHANGED <<onWire, source, alias, replay>>
    BY Zenon DEF StartHook, FinishHook
  <1>2. \/ /\ hook = "claimed" /\ hook' = "in_progress" /\ runs' = runs + 1
           /\ UNCHANGED <<claim, deferred>>
        \/ /\ hook = "in_progress" /\ hook' = "done" /\ claim' = NoClaim /\ deferred' = FALSE
           /\ UNCHANGED runs
        \/ UNCHANGED <<hook, claim, deferred, runs>>
    BY ZenonT(30) DEF StartHook, FinishHook
  <1>3. Shape' /\ SourceFirst'
    BY <1>1, <1>2, Zenon
  <1>4. AliasAfter' /\ Written'
    BY <1>1, <1>2, Zenon
  <1>5. Counted'
    <2>1. runs = 0 => runs + 1 = 1
      OBVIOUS
    <2> QED BY <1>2, <2>1, Zenon
  <1>6. Reserved'
    BY <1>1, <1>2, Zenon
  <1> QED BY <1>3, <1>4, <1>5, <1>6, Zenon

(* Every step keeps the invariant. *)
LEMMA DStep == DInv /\ [Next]_vars => DInv'
  <1> SUFFICES ASSUME DInv, [Next]_vars PROVE DInv'
    BY Zenon
  <1>1. CASE Next
    <2>1. CASE \E task \in tasks : StartHook(task[1]) \/ FinishHook(task[1])
      <3>1. PICK task \in tasks : StartHook(task[1]) \/ FinishHook(task[1])
        BY <2>1
      <3> QED BY <3>1, HookPart, Zenon
    <2> HIDE DEF DInv
    <2>2. CASE SourceStep \/ SourceAnswered
      BY <2>2, SourcePart, Zenon
    <2>3. CASE Activate \/ AliasAnswered
      BY <2>3, ActivationPart, Zenon
    <2>4. CASE AliasStep
      BY <2>4, ActivationPart, JobPart, Zenon DEF AliasStep
    <2>5. CASE WriteAlias \/ Timer
      BY <2>5, JobPart, Zenon
    <2>6. CASE \E r \in Replays : ReplayStep(r)
      BY <2>6, ReplayPart, Zenon
    <2> QED BY <1>1, <2>1, <2>2, <2>3, <2>4, <2>5, <2>6, Zenon DEF Next
  <1>2. CASE UNCHANGED vars
    <2>1. UNCHANGED <<hook, claim, deferred, runs, onWire, source, alias, replay>>
      BY <1>2, Zenon DEF vars
    <2>2. Shape' /\ SourceFirst'
      BY <2>1, Zenon
    <2>3. AliasAfter' /\ Written'
      BY <2>1, Zenon
    <2>4. Counted' /\ Reserved'
      BY <2>1, Zenon
    <2> QED BY <2>2, <2>3, <2>4, Zenon
  <1> QED BY <1>1, <1>2, Zenon

(* The invariant implies the two properties. *)
LEMMA DImplies == DInv => LogicalHookOnce /\ ReservedForAlias
  <1>1. DInv => LogicalHookOnce
    BY DEF LogicalHookOnce
  <1>2. DInv => ReservedForAlias
    BY Zenon DEF ReservedForAlias
  <1> QED BY <1>1, <1>2, Zenon

HIDE DEF DInv, Shape, SourceFirst, AliasAfter, Written, Counted, Reserved, AliasReleased

(* DInv is an invariant of the delivery of a result. *)
THEOREM DInvHolds == Spec => []DInv
  BY DInit, DStep, PTL DEF Spec

(* The delivery hook of a result (rpcResultDeliveryHookClaim.run) is entered at
   most once, and only after an attempt was written. *)
THEOREM LogicalHookOnceHolds == Spec => []LogicalHookOnce
  BY DImplies, DInvHolds, PTL

(* The hook of a result that tryRetarget has deferred is claimed by nobody but
   the alias until the alias is over or its watchdog has failed it. *)
THEOREM ReservedForAliasHolds == Spec => []ReservedForAlias
  BY DImplies, DInvHolds, PTL

=============================================================================
