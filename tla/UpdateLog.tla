------------------------------ MODULE UpdateLog ------------------------------
(***************************************************************************)
(* The durable update log of one account, and the devices that follow it.  *)
(* An append reserves its pts, writes its event and commits, holding the   *)
(* account's watermark row from the first statement to the commit.         *)
(* Retention prunes the prefix that every authorized device has reported   *)
(* to own.  A device catches up with updates.getDifference, a handler of   *)
(* several statements, each of which reads the database as it is then.     *)
(*                                                                         *)
(* Of a device's row in update_states the model keeps observed_pts, the    *)
(* only column that another decision reads.  An event is its pts and its   *)
(* pts_count; dates, qts and payloads are left out, so the age cutoff of   *)
(* retention and its batch limit are a choice of how far to prune.         *)
(***************************************************************************)
EXTENDS Integers, FiniteSets, FiniteSetsExt

CONSTANTS
  Devices,             \* the auth keys of the account
  Audited,             \* devices whose getState is an observed baseline
  Limited,             \* devices that send pts_total_limit
  MaxEvents,           \* bound: the account's events
  Counts,              \* the pts_counts of events
  DifferenceLimit,     \* getDifferenceLimit: events per answer
  TotalLimit,          \* the pts_total_limit that devices send
  MaxRestores          \* bound: how often a device falls back to an old cursor

ASSUME LogAssumption ==
  /\ IsFiniteSet(Devices)
  /\ Audited \subseteq Devices /\ Limited \subseteq Devices
  /\ MaxEvents \in Nat /\ MaxRestores \in Nat
  /\ Counts \subseteq Nat \ {0}
  /\ DifferenceLimit \in Nat \ {0} /\ TotalLimit \in Nat \ {0}

VARIABLES
  watermark,           \* contiguous_pts, committed
  log,                 \* the events ever committed
  floor,               \* retained_through_pts
  appending,           \* the events of the open append transaction, at most one
  phase,               \* [Devices -> "new", "in", "leaving" or "out"]
  observed,            \* [Devices -> observed_pts, or NoRow]
  cursor,              \* [Devices -> the device's own pts, or NoCursor]
  received,            \* [Devices -> the pts of events the device was ever given]
  call,                \* [Devices -> its one RPC in progress]
  baselines,           \* [Devices -> the pts of states whose hook has yet to run]
  restores             \* [Devices -> how often its cursor fell back]

logvars == <<watermark, log, floor, appending>>
devicevars == <<phase, observed, cursor, received, call, baselines, restores>>

NoRow == -1
NoCursor == -1
Idle == [at |-> "idle", from |-> 0, st |-> 0, events |-> {}]

(* GREATEST of SQL. *)
Greatest(a, b) == IF a >= b THEN a ELSE b

Authorized == {d \in Devices : phase[d] = "in"}

(* The rows of user_update_events. *)
Retained == {e \in log : e.pts > floor}

PtsUpTo(p) == {e.pts : e \in {f \in log : f.pts <= p}}

(* A new account, or one whose devices have all gone: what they owned may
   have been pruned. *)
LogInit ==
  /\ log \in {{}, {[pts |-> 1, count |-> 1]}}
  /\ watermark = Cardinality(log)
  /\ floor = watermark
  /\ appending = {}

DeviceInit ==
  /\ phase = [d \in Devices |-> "new"]
  /\ observed = [d \in Devices |-> NoRow]
  /\ cursor = [d \in Devices |-> NoCursor]
  /\ received = [d \in Devices |-> {}]
  /\ call = [d \in Devices |-> Idle]
  /\ baselines = [d \in Devices |-> {}]
  /\ restores = [d \in Devices |-> 0]

-----------------------------------------------------------------------------
(* The log *)

After(from, E) == {e \in E : e.pts > from}

(* The loop of contiguousPrefixAndGap: it stops at the first event whose pts
   is not the cursor plus its count. *)
Contiguous(from, E) ==
  LET Tiles(e) == MapThenSumSet(LAMBDA f : f.count,
                                {f \in After(from, E) : f.pts <= e.pts}) = e.pts - from
  IN {e \in After(from, E) : \A f \in After(from, E) : f.pts <= e.pts => Tiles(f)}

FirstOf(E, n) == {e \in E : Cardinality({f \in E : f.pts <= e.pts}) <= n}

IsLast(e, E) == e \in E /\ \A f \in E : f.pts <= e.pts

(* reserveUserPts and appendUserUpdateEvent, not yet committed.  An append
   that is rolled back leaves everything as it was, and is left out. *)
BeginAppend(n) ==
  /\ appending = {}
  /\ Cardinality(log) < MaxEvents
  /\ appending' = {[pts |-> watermark + n, count |-> n]}
  /\ UNCHANGED <<watermark, log, floor>>

CommitAppend ==
  \E e \in appending :
    /\ log' = log \cup {e}
    /\ watermark' = e.pts
    /\ appending' = {}
    /\ UNCHANGED floor

(* pruneConfirmedUserPrefixTx waits for the watermark row, so for the open
   append; e is the last event it deletes.  A device without a row has
   observed nothing. *)
PruneConfirmedPrefix(e) ==
  /\ appending = {}
  /\ Authorized # {}
  /\ e \in Contiguous(floor, Retained)
  /\ \A d \in Authorized : e.pts <= Greatest(observed[d], 0)
  /\ floor' = e.pts
  /\ UNCHANGED <<watermark, log, appending, devicevars>>

-----------------------------------------------------------------------------
(* Logging in and out.  A device logs in once. *)

(* Bind holds the watermark and the retention row.  What retention deleted
   before it is not this device's to recover. *)
Bind(d) ==
  /\ phase[d] = "new"
  /\ appending = {}
  /\ phase' = [phase EXCEPT ![d] = "in"]
  /\ observed' = [observed EXCEPT ![d] = Greatest(@, floor)]
  /\ received' = [received EXCEPT ![d] = PtsUpTo(floor)]
  /\ UNCHANGED <<logvars, cursor, call, baselines, restores>>

(* logOut deletes the authorization first and the update state last.  The
   device forgets what it had. *)
LogOut(d) ==
  /\ phase[d] = "in"
  /\ phase' = [phase EXCEPT ![d] = "leaving"]
  /\ cursor' = [cursor EXCEPT ![d] = NoCursor]
  /\ received' = [received EXCEPT ![d] = {}]
  /\ restores' = [restores EXCEPT ![d] = 0]
  /\ UNCHANGED <<logvars, observed, call, baselines>>

ClearAuthKey(d) ==
  /\ phase[d] = "leaving"
  /\ phase' = [phase EXCEPT ![d] = "out"]
  /\ observed' = [observed EXCEPT ![d] = NoRow]
  /\ UNCHANGED <<logvars, cursor, received, call, baselines, restores>>

-----------------------------------------------------------------------------
(* updates.getState and updates.getDifference *)

Step(d, c) ==
  /\ call' = [call EXCEPT ![d] = c]
  /\ UNCHANGED <<logvars, phase, cursor, received, baselines, restores>>

(* The answer on its way: the pts the device will adopt, the events it
   carries, and how it was produced. *)
Answer(how, pts, E) == [at |-> how, from |-> 0, st |-> pts, events |-> E]

Answers == {"state", "difference", "too_long"}

(* A device without a cursor asks for the current state. *)
GetState(d) ==
  /\ phase[d] = "in"
  /\ call[d] = Idle
  /\ cursor[d] = NoCursor
  /\ Step(d, Answer("state", watermark, {}))
  /\ UNCHANGED observed

GetDifference(d) ==
  /\ phase[d] = "in"
  /\ call[d] = Idle
  /\ cursor[d] # NoCursor
  /\ Step(d, [at |-> "observe", from |-> cursor[d], st |-> 0, events |-> {}])
  /\ UNCHANGED observed

(* The cursor in the request is recorded before anything else. *)
ObserveDifferenceRequest(d) ==
  /\ call[d].at = "observe"
  /\ observed' = [observed EXCEPT ![d] = Greatest(@, call[d].from)]
  /\ Step(d, [call[d] EXCEPT !.at = IF d \in Limited /\ call[d].from > 0
                                    THEN "measure" ELSE "current"])

(* Mutant: the device is told to start afresh from where it is. *)
MeasureGapInPlace(d) ==
  /\ call[d].at = "measure"
  /\ Step(d, IF watermark - call[d].from > TotalLimit
             THEN Answer("too_long", call[d].from, {})
             ELSE [call[d] EXCEPT !.at = "current"])
  /\ UNCHANGED observed

(* pts_total_limit: too far behind, the device is told to start afresh. *)
MeasureGap(d) ==
  /\ call[d].at = "measure"
  /\ Step(d, IF watermark - call[d].from > TotalLimit
             THEN Answer("too_long", watermark, {})
             ELSE [call[d] EXCEPT !.at = "current"])
  /\ UNCHANGED observed

ReadCurrent(d) ==
  /\ call[d].at = "current"
  /\ Step(d, [at |-> "probe", from |-> call[d].from, st |-> watermark, events |-> {}])
  /\ UNCHANGED observed

(* UserUpdateRetentionCheckpoint: a device below the floor that never
   reported to own the prefix is an error, not a checkpoint. *)
CheckpointError(d) == floor > 0 /\ phase[d] = "in" /\ observed[d] < floor

CheckpointFound(d) ==
  floor > 0 /\ phase[d] = "in" /\ observed[d] >= floor /\ call[d].from < floor

Probe(d) ==
  LET c == call[d] IN
  /\ c.at \in {"probe", "reprobe"}
  /\ Step(d, CASE CheckpointError(d) -> Idle
               [] CheckpointFound(d) -> Answer("difference", floor, {})
               [] c.at = "probe" /\ c.from < c.st -> [c EXCEPT !.at = "list"]
               [] OTHER -> Answer("difference", c.from, {}))
  /\ UNCHANGED observed

(* ListAfter reads the log of now.  Nothing contiguous: retention may have
   passed the cursor since the first probe, so the handler probes again. *)
List(d) ==
  LET c == call[d]
      read == FirstOf(After(c.from, Retained), DifferenceLimit)
      prefix == Contiguous(c.from, read) IN
  /\ c.at = "list"
  /\ \/ prefix = {} /\ Step(d, [c EXCEPT !.at = "reprobe"])
     \/ \E e \in prefix : IsLast(e, prefix) /\ Step(d, Answer("difference", e.pts, prefix))
  /\ UNCHANGED observed

(* Mutant: a difference that was written to the socket counts as owned. *)
WriteEveryBaseline(d) ==
  /\ call[d].at \in Answers
  /\ call[d].from = 0
  /\ call' = [call EXCEPT ![d].from = 1]
  /\ baselines' = [baselines EXCEPT ![d] = @ \cup {call[d].st}]
  /\ UNCHANGED <<logvars, phase, observed, cursor, received, restores>>

(* The rpc_result is written to the socket, which queues its delivery hook: of
   the hooks, only that of an audited getState makes its pts an observed one.
   The upsert keeps the greatest pts: a hook that would not raise it is not
   kept.  from = 1 says that the answer is written. *)
WriteAnswer(d) ==
  LET c == call[d]
      baseline == c.at = "state" /\ d \in Audited /\ c.st > observed[d] IN
  /\ c.at \in Answers
  /\ c.from = 0
  /\ call' = [call EXCEPT ![d].from = 1]
  /\ baselines' = [baselines EXCEPT ![d] = @ \cup IF baseline THEN {c.st} ELSE {}]
  /\ UNCHANGED <<logvars, phase, observed, cursor, received, restores>>

(* A hook runs some time after the write.  One that fails is not run again,
   which is one that never runs. *)
CommitDeliveredState(d) ==
  \E p \in baselines[d] :
    /\ observed' = [observed EXCEPT ![d] = Greatest(@, p)]
    /\ baselines' = [baselines EXCEPT ![d] = {q \in @ : q > p}]
    /\ UNCHANGED <<logvars, phase, cursor, received, call, restores>>

(* The device takes the answer.  A state and a tooLong replace what it knew:
   it loads its dialogs afresh. *)
TakeAnswer(d) ==
  LET c == call[d] IN
  /\ c.at \in Answers
  /\ c.from = 1
  /\ call' = [call EXCEPT ![d] = Idle]
  /\ IF phase[d] = "in"
     THEN /\ cursor' = [cursor EXCEPT ![d] = Greatest(@, c.st)]
          /\ received' = [received EXCEPT ![d] = @ \cup
               IF c.at = "difference" THEN {e.pts : e \in c.events} ELSE PtsUpTo(c.st)]
     ELSE UNCHANGED <<cursor, received>>
  /\ UNCHANGED <<logvars, phase, observed, baselines, restores>>

(* The connection is gone before the answer was written, or after. *)
LoseAnswer(d) ==
  /\ call[d].at \in Answers
  /\ Step(d, Idle)
  /\ UNCHANGED observed

(* A device comes back with an older copy of its local state. *)
Restore(d) ==
  /\ phase[d] = "in"
  /\ call[d] = Idle
  /\ restores[d] < MaxRestores
  /\ restores' = [restores EXCEPT ![d] = @ + 1]
  /\ \E p \in {0} \cup PtsUpTo(watermark) :
       p < cursor[d] /\ cursor' = [cursor EXCEPT ![d] = p]
  /\ UNCHANGED <<logvars, phase, observed, received, call, baselines>>

(* An online push reaches the devices in S; one takes it when it is the next
   event, drops it when it is old, and leaves a gap to getDifference. *)
TakePush(S, e) ==
  LET takers == {d \in S \cap Authorized : cursor[d] = e.pts - e.count} IN
  /\ cursor' = [d \in Devices |-> IF d \in takers THEN e.pts ELSE cursor[d]]
  /\ received' = [d \in Devices |->
       IF d \in takers THEN received[d] \cup {e.pts} ELSE received[d]]
  /\ UNCHANGED <<logvars, phase, observed, call, baselines, restores>>
=============================================================================
