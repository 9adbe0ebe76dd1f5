------------------------ MODULE RPCAdmissionTracker ------------------------
(***************************************************************************)
(* The registry of admission sequences whose owner can still publish, and  *)
(* the scan that tells the rest of the server which sequences are over.    *)
(*                                                                         *)
(* The allocation barrier is a read-write lock: admissions hold it shared  *)
(* from the increment of the sequence to its registration, a scan holds it *)
(* exclusively while it visits the shards one by one.  Retiring a sequence *)
(* takes only its shard's lock and interleaves with a scan.                *)
(***************************************************************************)
EXTENDS Integers

CONSTANTS
  Owners,          \* admissions, one sequence each
  Scans,           \* calls of stableSafeFloor
  NumShards,       \* rpcAdmissionTrackerShards
  MaxSeq           \* math.MaxUint64

ASSUME TrackerAssumption == NumShards \in Nat \ {0} /\ MaxSeq \in Nat \ {0}

VARIABLES
  nextSeq,         \* the ledger's nextAdmissionSeq
  owner,           \* [Owners -> where the admission is]
  seq,             \* [Owners -> its sequence, 0 before it has one]
  active,          \* the registered sequences, over all shards
  scan,            \* [Scans -> where the scan is]
  at,              \* [Scans -> the next shard it visits]
  minimum,         \* [Scans -> the least sequence seen, 0 for none]
  floor            \* [Scans -> what it returned]

scanVars == <<scan, at, minimum, floor>>
trackerVars == <<nextSeq, owner, seq, active, scanVars>>

TrackerInit ==
  /\ nextSeq = 0
  /\ owner = [o \in Owners |-> "new"]
  /\ seq = [o \in Owners |-> 0]
  /\ active = {}
  /\ scan = [s \in Scans |-> "new"]
  /\ at = [s \in Scans |-> 0]
  /\ minimum = [s \in Scans |-> 0]
  /\ floor = [s \in Scans |-> 0]

ShardOf(n) == n % NumShards

(* Mutant: the barrier is released between the increment and the
   registration. *)
ReadersUntilClaim == {o \in Owners : owner[o] = "barrier"}

(* The barrier: who holds it shared, who exclusively. *)
Readers == {o \in Owners : owner[o] \in {"barrier", "claimed"}}
Writers == {s \in Scans : scan[s] = "scanning"}

-----------------------------------------------------------------------------
(* allocateAndRegister *)

EnterBarrier(o) ==
  /\ owner[o] = "new"
  /\ Writers = {}
  /\ owner' = [owner EXCEPT ![o] = "barrier"]
  /\ UNCHANGED <<nextSeq, seq, active, scanVars>>

(* Mutant: the counter wraps instead of being exhausted. *)
ClaimWrapping(o) ==
  /\ owner[o] = "barrier"
  /\ nextSeq' = (nextSeq % MaxSeq) + 1
  /\ seq' = [seq EXCEPT ![o] = nextSeq']
  /\ owner' = [owner EXCEPT ![o] = "claimed"]
  /\ UNCHANGED <<active, scanVars>>

(* The compare-and-swap that succeeds; the failed ones change nothing. *)
Claim(o) ==
  /\ owner[o] = "barrier"
  /\ nextSeq < MaxSeq
  /\ nextSeq' = nextSeq + 1
  /\ seq' = [seq EXCEPT ![o] = nextSeq + 1]
  /\ owner' = [owner EXCEPT ![o] = "claimed"]
  /\ UNCHANGED <<active, scanVars>>

(* ErrRPCAdmissionSeqExhausted: the owner is admitted nowhere. *)
Exhausted(o) ==
  /\ owner[o] = "barrier"
  /\ nextSeq = MaxSeq
  /\ owner' = [owner EXCEPT ![o] = "refused"]
  /\ UNCHANGED <<nextSeq, seq, active, scanVars>>

Register(o) ==
  /\ owner[o] = "claimed"
  /\ active' = active \cup {seq[o]}
  /\ owner' = [owner EXCEPT ![o] = "active"]
  /\ UNCHANGED <<nextSeq, seq, scanVars>>

(* retire, by Complete or Abort.  A sequence that is not registered is the
   code's panic: it has no step here and RetireFindsSequence rules it out. *)
Retire(o) ==
  /\ owner[o] = "active"
  /\ seq[o] \in active
  /\ active' = active \ {seq[o]}
  /\ owner' = [owner EXCEPT ![o] = "retired"]
  /\ UNCHANGED <<nextSeq, seq, scanVars>>

-----------------------------------------------------------------------------
(* stableSafeFloor *)

BeginScan(s) ==
  /\ scan[s] = "new"
  /\ Readers = {}
  /\ Writers = {}
  /\ scan' = [scan EXCEPT ![s] = "scanning"]
  /\ UNCHANGED <<nextSeq, owner, seq, active, at, minimum, floor>>

ActiveIn(i) == {n \in active : ShardOf(n) = i}

(* Mutant: the scan forgets what earlier shards held. *)
CandidatesOfShard(s) == ActiveIn(at[s])

(* What the least sequence is taken from after one more shard. *)
Candidates(s) == ActiveIn(at[s]) \cup ({minimum[s]} \ {0})

ScanShard(s) ==
  /\ scan[s] = "scanning"
  /\ at[s] < NumShards
  /\ at' = [at EXCEPT ![s] = @ + 1]
  /\ \/ /\ Candidates(s) = {}
        /\ UNCHANGED minimum
     \/ \E m \in Candidates(s) :
          /\ \A n \in Candidates(s) : m <= n
          /\ minimum' = [minimum EXCEPT ![s] = m]
  /\ UNCHANGED <<nextSeq, owner, seq, active, scan, floor>>

(* Mutant: the floor past the last sequence is not clamped. *)
FloorUnclamped(s) == IF minimum[s] # 0 THEN minimum[s] ELSE nextSeq + 1

FloorOf(s) ==
  IF minimum[s] # 0 THEN minimum[s]
  ELSE IF nextSeq = MaxSeq THEN MaxSeq
  ELSE nextSeq + 1

EndScan(s) ==
  /\ scan[s] = "scanning"
  /\ at[s] = NumShards
  /\ floor' = [floor EXCEPT ![s] = FloorOf(s)]
  /\ scan' = [scan EXCEPT ![s] = "done"]
  /\ UNCHANGED <<nextSeq, owner, seq, active, at, minimum>>

TrackerNext ==
  \/ \E o \in Owners : EnterBarrier(o)
  \/ \E o \in Owners : Claim(o)
  \/ \E o \in Owners : Exhausted(o)
  \/ \E o \in Owners : Register(o)
  \/ \E o \in Owners : Retire(o)
  \/ \E s \in Scans : BeginScan(s)
  \/ \E s \in Scans : ScanShard(s)
  \/ \E s \in Scans : EndScan(s)

TrackerSpec == TrackerInit /\ [][TrackerNext]_trackerVars

-----------------------------------------------------------------------------
(* Properties *)

InFlight == {o \in Owners : owner[o] \in {"claimed", "active"}}

(* The variables have their types; nothing but a sequence is registered. *)
TrackerTypeOK ==
  /\ nextSeq \in 0..MaxSeq
  /\ owner \in [Owners -> {"new", "barrier", "claimed", "active", "retired",
                           "refused"}]
  /\ seq \in [Owners -> 0..MaxSeq]
  /\ active \in SUBSET (1..MaxSeq)
  /\ scan \in [Scans -> {"new", "scanning", "done"}]
  /\ at \in [Scans -> 0..NumShards]
  /\ minimum \in [Scans -> 0..MaxSeq]
  /\ floor \in [Scans -> 0..MaxSeq]

(* stableSafeFloor: no sequence below a floor it returned is in flight, then
   or ever after; the eviction of published layer evidence relies on it. *)
FloorSafe == \A s \in Scans : scan[s] = "done" =>
  /\ \A o \in InFlight : floor[s] <= seq[o]
  /\ nextSeq < MaxSeq => floor[s] <= nextSeq + 1

(* retire finds the sequence it was given, whatever was retired or scanned in
   the meantime: two owners never share one, so the panic is unreachable. *)
RetireFindsSequence == \A o \in Owners : owner[o] = "active" => seq[o] \in active

(* A later scan never returns a lower floor than an earlier one. *)
FloorsRise == [][
  \A s, t \in Scans :
    scan[s] = "done" /\ scan[t] # "done" /\ scan'[t] = "done"
      => floor[s] <= floor'[t]]_trackerVars

=============================================================================
