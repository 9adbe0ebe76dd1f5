---------------------- MODULE RPCExecutionLedgerProofs ----------------------
(***************************************************************************)
(* Proofs about the execution ledger, for any number of keys, requests,    *)
(* shards, sessions and any capacities.                                    *)
(***************************************************************************)
EXTENDS RPCExecutionLedger, FiniteSetTheorems, TLAPS

(* Every leaf that names no prover: Zenon, then SMT, which is tried again as Z3
   when the translation ran out of time. *)
USE ZenonT(10), SMTT(30), Z3T(30)

-----------------------------------------------------------------------------
(* Types of the tables. *)

(* The tables and the callbacks' flight pointers have their types. *)
Typed == TableTypes /\ JoinedFlight

(* Removing receipts leaves a receipt table. *)
LEMMA SweptType ==
  ASSUME TableTypes, NEW gone
  PROVE  Swept(gone) \in [Keys -> Receipts \cup {NoReceipt}]
  BY DEF TableTypes, Swept

(* A new flight is a flight. *)
LEMMA NewFlightType ==
  NewFlight \in FlightRecords /\ NoFlightYet \in FlightRecords
  <1> DEFINE F(live) ==
        [live |-> live, ok |-> FALSE, executionDone |-> FALSE,
         executionOK |-> FALSE, acknowledged |-> FALSE, handedOff |-> FALSE,
         subscribers |-> {}, executionSubscribers |-> {}, subscriberSlots |-> 0]
  <1>1. F("pending") \in FlightRecords
    BY DEF FlightRecords
  <1>2. NewFlight \in FlightRecords
    BY <1>1 DEF NewFlight
  <1> QED BY <1>2 DEF NoFlightYet, FlightRecords

(* Charging the subscriber budget leaves integers. *)
LEMMA SubDeltaTypes ==
  ASSUME TableTypes, NEW k \in Keys, NEW d \in Int, SubDelta(k, d)
  PROVE  /\ subUsed' \in Int
         /\ subAuth' \in [Auths -> Int]
         /\ subSession' \in [Sessions -> Int]
  <1>1. AuthOf[k] \in Auths /\ SessionOf[k] \in Sessions
    BY KeyAssumption
  <1>2. subUsed' \in Int
    BY DEF TableTypes, SubDelta
  <1>3. subAuth' \in [Auths -> Int]
    BY <1>1 DEF TableTypes, SubDelta
  <1>4. subSession' \in [Sessions -> Int]
    BY <1>1 DEF TableTypes, SubDelta
  <1> QED BY <1>2, <1>3, <1>4

(* The fields of a flight, and the size of its callback sets. *)
LEMMA FlightFields ==
  ASSUME TableTypes, NEW f \in Requests
  PROVE  /\ flight[f] \in FlightRecords
         /\ flight[f].subscribers \in SUBSET Requests
         /\ flight[f].executionSubscribers \in SUBSET Requests
         /\ flight[f].executionOK \in BOOLEAN
         /\ flight[f].executionDone \in BOOLEAN
         /\ flight[f].acknowledged \in BOOLEAN
         /\ flight[f].handedOff \in BOOLEAN
         /\ flight[f].ok \in BOOLEAN
         /\ flight[f].subscriberSlots \in Int
         /\ Cardinality(flight[f].executionSubscribers) \in Nat
         /\ Cardinality(flight[f].subscribers) \in Nat
         /\ KeyOf[f] \in Keys
  <1>1. flight[f] \in FlightRecords /\ KeyOf[f] \in Keys
    BY KeyAssumption DEF TableTypes
  <1>2. /\ flight[f].subscribers \in SUBSET Requests
        /\ flight[f].executionSubscribers \in SUBSET Requests
    BY <1>1 DEF FlightRecords
  <1>3. /\ Cardinality(flight[f].executionSubscribers) \in Nat
        /\ Cardinality(flight[f].subscribers) \in Nat
    BY <1>2, KeyAssumption, FS_Subset, FS_CardinalityType
  <1> QED BY <1>1, <1>2, <1>3 DEF FlightRecords

(* HandOff and Acknowledge only mark the flight. *)
LEMMA MarkedFlightTypes ==
  ASSUME TableTypes, NEW f \in Requests
  PROVE  /\ HandedOffFlight(f) \in FlightRecords
         /\ AcknowledgedFlight(f) \in FlightRecords
  <1>1. flight[f] \in FlightRecords
    BY FlightFields
  <1>2. HandedOffFlight(f) \in FlightRecords
    BY <1>1, Zenon DEF HandedOffFlight, FlightRecords
  <1>3. AcknowledgedFlight(f) \in FlightRecords
    BY <1>1, Zenon DEF AcknowledgedFlight, FlightRecords
  <1> QED BY <1>2, <1>3

(* Closing a flight keeps the types of all it writes. *)
LEMMA CloseFlightTypes ==
  ASSUME TableTypes, NEW f \in Requests, NEW ok \in BOOLEAN, CloseFlight(f, ok)
  PROVE  /\ pending' \in [Keys -> Requests \cup {NoFlight}]
         /\ flight' \in [Requests -> FlightRecords]
         /\ activeAdmissions' \in SUBSET Requests
         /\ subUsed' \in Int
         /\ subAuth' \in [Auths -> Int]
         /\ subSession' \in [Sessions -> Int]
         /\ due' \in SUBSET Callbacks
  <1>1. RetainedCallbacks(f) \in Int
    BY FlightFields DEF RetainedCallbacks
  <1>2. FinalOutcome(f) \in BOOLEAN
    BY FlightFields DEF FinalOutcome
  <1>3. TerminalCalls(f, ok) \subseteq Callbacks
    BY FlightFields, <1>2 DEF TerminalCalls, Calls, Callbacks
  <1>4. pending' \in [Keys -> Requests \cup {NoFlight}]
    BY FlightFields DEF CloseFlight, TableTypes
  <1>5. ClosedFlight(f, ok) \in FlightRecords
    BY FlightFields, <1>1, <1>2 DEF ClosedFlight, FlightRecords
  <1>6. flight' \in [Requests -> FlightRecords]
    BY <1>5 DEF CloseFlight, TableTypes
  <1>7. /\ subUsed' \in Int
        /\ subAuth' \in [Auths -> Int]
        /\ subSession' \in [Sessions -> Int]
    <2>1. SubDelta(KeyOf[f], -RetainedCallbacks(f)) /\ -RetainedCallbacks(f) \in Int
      BY <1>1 DEF CloseFlight
    <2> QED BY <2>1, FlightFields, SubDeltaTypes
  <1>8. activeAdmissions' \in SUBSET Requests /\ due' \in SUBSET Callbacks
    BY <1>3 DEF CloseFlight, TableTypes
  <1> QED BY <1>4, <1>6, <1>7, <1>8

(* So does publishing an execution outcome. *)
LEMMA CompleteExecutionTypes ==
  ASSUME TableTypes, NEW f \in Requests, NEW ok \in BOOLEAN,
         CompleteExecution(f, ok)
  PROVE  /\ flight' \in [Requests -> FlightRecords]
         /\ subUsed' \in Int
         /\ subAuth' \in [Auths -> Int]
         /\ subSession' \in [Sessions -> Int]
         /\ due' \in SUBSET Callbacks
  <1> DEFINE n == Cardinality(flight[f].executionSubscribers)
  <1>1. CASE OutcomeOpen(f)
    <2>1. -n \in Int
      BY FlightFields
    <2>2. /\ subUsed' \in Int
          /\ subAuth' \in [Auths -> Int]
          /\ subSession' \in [Sessions -> Int]
      BY <1>1, <2>1, FlightFields, SubDeltaTypes DEF CompleteExecution
    <2>3. Calls(flight[f].executionSubscribers, "execution", ok) \subseteq Callbacks
      BY FlightFields DEF Calls, Callbacks
    <2>4. due' \in SUBSET Callbacks
      BY <1>1, <2>3 DEF CompleteExecution, TableTypes
    <2>5. ExecutedFlight(f, ok) \in FlightRecords
      BY FlightFields DEF ExecutedFlight, FlightRecords
    <2>6. flight' \in [Requests -> FlightRecords]
      BY <1>1, <2>5 DEF CompleteExecution, TableTypes
    <2> QED BY <2>2, <2>4, <2>6
  <1>2. CASE ~OutcomeOpen(f)
    BY <1>2 DEF CompleteExecution, subVars, TableTypes
  <1> QED BY <1>1, <1>2

(* So does every way a request record is written. *)
LEMMA RequestToTypes ==
  ASSUME Typed, NEW r \in Requests
  PROVE  /\ \A pc \in {"reap", "retry", "reject", "done"} :
              RequestTo(r, pc) => req' \in [Requests -> RequestRecords] /\ JoinedFlight'
         /\ RequestTo(r, "waiting") /\ req[r].flight \in Requests =>
              req' \in [Requests -> RequestRecords] /\ JoinedFlight'
         /\ Done(r) => req' \in [Requests -> RequestRecords] /\ JoinedFlight'
         /\ \A f \in Requests, want \in SUBSET {"result", "execution"} :
              JoinFlight(r, f, want) =>
                req' \in [Requests -> RequestRecords] /\ JoinedFlight'
  <1> USE DEF Typed, TableTypes, JoinedFlight, RequestRecords, Heard
  <1>1. ASSUME NEW pc \in {"reap", "retry", "reject", "done"}, RequestTo(r, pc)
        PROVE  req' \in [Requests -> RequestRecords] /\ JoinedFlight'
    BY <1>1 DEF RequestTo
  <1>2. ASSUME RequestTo(r, "waiting"), req[r].flight \in Requests
        PROVE  req' \in [Requests -> RequestRecords] /\ JoinedFlight'
    BY <1>2 DEF RequestTo
  <1>3. ASSUME Done(r)
        PROVE  req' \in [Requests -> RequestRecords] /\ JoinedFlight'
    BY <1>3 DEF Done, NewRequest
  <1>4. ASSUME NEW f \in Requests, NEW want \in SUBSET {"result", "execution"},
               JoinFlight(r, f, want)
        PROVE  req' \in [Requests -> RequestRecords] /\ JoinedFlight'
    BY <1>4 DEF JoinFlight
  <1> QED BY <1>1, <1>2, <1>3, <1>4

(* So does every way a publication record is written. *)
LEMMA PubTypes ==
  ASSUME TableTypes, NEW p \in Requests
  PROVE  /\ \A pc \in {"send", "check", "once", "reap", "final"} :
              PubAt(p, pc) => pub' \in [Requests -> PubRecords]
         /\ PubEnd(p) => /\ pub' \in [Requests -> PubRecords]
                         /\ task' \in [Requests -> TaskStates]
                         /\ Done(p)
         /\ StartReject(p) => /\ pub' \in [Requests -> PubRecords]
                              /\ todo' = todo
                              /\ RequestTo(p, "reject")
  <1>1. ASSUME NEW pc \in {"send", "check", "once", "reap", "final"}, PubAt(p, pc)
        PROVE  pub' \in [Requests -> PubRecords]
    BY <1>1 DEF PubAt, TableTypes, PubRecords
  <1>2. ASSUME PubEnd(p)
        PROVE  /\ pub' \in [Requests -> PubRecords]
               /\ task' \in [Requests -> TaskStates]
               /\ Done(p)
    BY <1>2 DEF PubEnd, TableTypes, PubRecords, IdlePub, TaskStates
  <1>3. ASSUME StartReject(p)
        PROVE  /\ pub' \in [Requests -> PubRecords]
               /\ todo' = todo
               /\ RequestTo(p, "reject")
    BY <1>3, Zenon DEF StartReject, TableTypes, PubRecords, IdlePub
  <1> QED BY <1>1, <1>2, <1>3

(* Sweeping a shard, in the form acquire uses it. *)
LEMMA AcquireTypes ==
  ASSUME Typed, NEW r \in Requests, NEW reclaimed \in BOOLEAN,
         Acquire(r, reclaimed)
  PROVE  Typed'
  <1> USE DEF Typed
  <1> PICK gone \in SUBSET Expired(ShardOf[KeyOf[r]]) :
        \/ AcquireReceipt(r, gone)
        \/ AcquireFlight(r, gone)
        \/ AcquireCapacity(r, gone, reclaimed)
        \/ AcquireOwner(r, gone)
    BY DEF Acquire
  <1> USE DEF ledgerVars, entryVars, subVars, taskVars, envVars
  <1>0. /\ receipt' = Swept(gone) => receipt' \in [Keys -> Receipts \cup {NoReceipt}]
        /\ KeyOf[r] \in Keys
    BY SweptType, KeyAssumption
  <1>1. CASE AcquireReceipt(r, gone)
    <2>1. req' \in [Requests -> RequestRecords] /\ JoinedFlight'
      BY <1>1, RequestToTypes, PubTypes DEF AcquireReceipt, EndRequest
    <2>2. pub' \in [Requests -> PubRecords] /\ todo' = todo
      BY <1>1, PubTypes DEF AcquireReceipt, EndRequest, TableTypes
    <2> QED BY <1>0, <1>1, <2>1, <2>2 DEF AcquireReceipt, TableTypes
  <1>2. CASE AcquireFlight(r, gone)
    <2>1. pending[KeyOf[r]] \in Requests
      BY <1>0, <1>2 DEF AcquireFlight, TableTypes
    <2>2. req' \in [Requests -> RequestRecords] /\ JoinedFlight'
      BY <1>2, <2>1, RequestToTypes DEF AcquireFlight, EndRequest
    <2>3. pub' = pub /\ todo' = todo
      BY <1>2 DEF AcquireFlight, EndRequest, JoinFlight
    <2> QED BY <1>0, <1>2, <2>2, <2>3 DEF AcquireFlight, TableTypes
  <1>3. CASE AcquireCapacity(r, gone, reclaimed)
    <2>1. req' \in [Requests -> RequestRecords] /\ JoinedFlight'
      BY <1>3, RequestToTypes, PubTypes, Zenon DEF AcquireCapacity, EndRequest
    <2>2. /\ pub' \in [Requests -> PubRecords]
          /\ todo' \in [Requests -> SUBSET Shards]
      BY <1>3, PubTypes, ZenonT(30) DEF AcquireCapacity, EndRequest, TableTypes
    <2> QED BY <1>0, <1>3, <2>1, <2>2 DEF AcquireCapacity, TableTypes
  <1>4. CASE AcquireOwner(r, gone)
    <2>1. req' \in [Requests -> RequestRecords] /\ JoinedFlight'
      BY <1>4, RequestToTypes DEF AcquireOwner, EndRequest
    <2>2. pub' = pub /\ todo' = todo
      BY <1>4 DEF AcquireOwner, EndRequest
    <2>3. flight' \in [Requests -> FlightRecords]
      <3>1. flight' = [flight EXCEPT ![r] = NewFlight]
        BY <1>4 DEF AcquireOwner
      <3>2. flight \in [Requests -> FlightRecords]
        BY DEF TableTypes
      <3> QED BY <3>1, <3>2, NewFlightType
    <2>4. /\ pending' \in [Keys -> Requests \cup {NoFlight}]
          /\ activeAdmissions' \in SUBSET Requests
          /\ task' \in [Requests -> TaskStates]
      BY <1>0, <1>4, ZenonT(30) DEF AcquireOwner, TableTypes, TaskStates
    <2> QED
      BY <1>0, <1>4, <2>1, <2>2, <2>3, <2>4 DEF AcquireOwner, TableTypes
  <1> QED BY <1>1, <1>2, <1>3, <1>4

(* A flight with one more subscriber is a flight. *)
LEMMA SubscribedFlightType ==
  ASSUME TableTypes, NEW f \in Requests, NEW r \in Requests,
         NEW result \in BOOLEAN, NEW execution \in BOOLEAN, NEW slots \in Int
  PROVE  SubscribedFlight(f, r, result, execution, slots) \in FlightRecords
  BY FlightFields DEF SubscribedFlight, FlightRecords

(* The steps of a request keep the types. *)
LEMMA RequestStepTypes ==
  ASSUME Typed, NEW r \in Requests, RequestStep(r)
  PROVE  Typed'
  <1> USE DEF Typed, ledgerVars, entryVars, subVars, taskVars, envVars
  <1>1. CASE Retry(r)
    BY <1>1, AcquireTypes, Zenon DEF Retry
  <1>2. CASE SubscribeOpen(r)
    <2> DEFINE f == req[r].flight
               res == req[r].want \cap {"result"}
               exec == IF flight[f].executionDone THEN {}
                       ELSE req[r].want \cap {"execution"}
               slots == Cardinality(res) + Cardinality(exec)
    <2>1. f \in Requests
      BY <1>2, Zenon DEF SubscribeOpen, JoinedFlight
    <2>2. slots \in Int
      <3>1. IsFiniteSet({"result"}) /\ IsFiniteSet({"execution"})
        BY FS_Singleton, Zenon
      <3>2. res \subseteq {"result"} /\ exec \subseteq {"execution"}
        OBVIOUS
      <3> HIDE DEF res, exec
      <3>3. IsFiniteSet(res) /\ IsFiniteSet(exec)
        BY <3>1, <3>2, FS_Subset, Zenon
      <3>4. Cardinality(res) \in Nat /\ Cardinality(exec) \in Nat
        BY <3>3, FS_CardinalityType
      <3> QED BY <3>4
    <2>3. req' \in [Requests -> RequestRecords] /\ JoinedFlight'
      BY <1>2, <2>1, RequestToTypes DEF SubscribeOpen
    <2>4. /\ flight' \in [Requests -> FlightRecords]
          /\ subUsed' \in Int
          /\ subAuth' \in [Auths -> Int]
          /\ subSession' \in [Sessions -> Int]
          /\ due' \in SUBSET Callbacks
      <3>1. CASE slots > 0 /\ ~CanSubscribe(f, slots)
        BY <1>2, <3>1, ZenonT(30) DEF SubscribeOpen, TableTypes
      <3>2. CASE ~(slots > 0 /\ ~CanSubscribe(f, slots))
        <4>1. SubDelta(KeyOf[f], slots)
          BY <1>2, <3>2, ZenonT(30) DEF SubscribeOpen
        <4>2. /\ subUsed' \in Int
              /\ subAuth' \in [Auths -> Int]
              /\ subSession' \in [Sessions -> Int]
          BY <2>1, <2>2, <4>1, FlightFields, SubDeltaTypes
        <4>3. Calls({r}, "execution", flight[f].executionOK) \subseteq Callbacks
          BY <2>1, FlightFields DEF Calls, Callbacks
        <4>4. due' \in SUBSET Callbacks
          <5>1. due' = due \/ due' = due \cup
                                 Calls({r}, "execution", flight[f].executionOK)
            BY <1>2, <3>2 DEF SubscribeOpen
          <5>2. due \in SUBSET Callbacks
            BY DEF TableTypes
          <5> QED BY <4>3, <5>1, <5>2
        <4>5. flight' \in [Requests -> FlightRecords]
          <5>1. SubscribedFlight(f, r, res # {}, exec # {}, slots) \in FlightRecords
            BY <2>1, <2>2, SubscribedFlightType, Zenon
          <5>2. flight' = [flight EXCEPT ![f] =
                             SubscribedFlight(f, r, res # {}, exec # {}, slots)]
            BY <1>2, <3>2 DEF SubscribeOpen
          <5>3. flight \in [Requests -> FlightRecords]
            BY DEF TableTypes
          <5> HIDE DEF f, res, exec, slots
          <5> QED BY <2>1, <5>1, <5>2, <5>3
        <4> QED BY <4>2, <4>4, <4>5
      <3> QED BY <3>1, <3>2
    <2> QED BY <1>2, <2>3, <2>4, Zenon DEF SubscribeOpen, TableTypes
  <1>3. CASE SubscribeClosed(r)
    <2> DEFINE f == req[r].flight
    <2>1. f \in Requests
      BY <1>3 DEF SubscribeClosed, JoinedFlight
    <2>2. req' \in [Requests -> RequestRecords] /\ JoinedFlight'
      BY <1>3, <2>1, RequestToTypes, Zenon DEF SubscribeClosed
    <2>3. /\ Calls({r}, "execution", flight[f].executionOK) \subseteq Callbacks
          /\ Calls({r}, "result", flight[f].ok) \subseteq Callbacks
      BY <2>1, FlightFields, Zenon DEF Calls, Callbacks
    <2>4. due' \in SUBSET Callbacks
      BY <1>3, <2>3, Zenon DEF SubscribeClosed, TableTypes
    <2> QED BY <1>3, <2>2, <2>4 DEF SubscribeClosed, TableTypes
  <1>4. CASE FinishWait(r)
    BY <1>4, RequestToTypes DEF FinishWait, EndRequest, TableTypes
  <1> QED BY <1>1, <1>2, <1>3, <1>4 DEF RequestStep

(* The steps of a publication keep the types. *)
LEMMA PubStepTypes ==
  ASSUME Typed, NEW p \in Requests, PubStep(p)
  PROVE  Typed'
  <1> USE DEF Typed, ledgerVars, entryVars, subVars, taskVars, envVars
  <1> DEFINE k == KeyOf[p]
  <1>0. k \in Keys /\ p \in Requests
    BY KeyAssumption
  <1>1. CASE Send(p)
    <2>1. CASE PubAt(p, "check") /\ UNCHANGED <<req, task>>
               /\ frames' \in {frames, frames \cup {k}}
      <3>1. pub' \in [Requests -> PubRecords]
        BY <2>1, PubTypes
      <3> QED BY <1>0, <1>1, <2>1, <3>1 DEF Send, TableTypes, JoinedFlight
    <2>2. CASE PubEnd(p) /\ UNCHANGED frames
      BY <1>1, <2>2, PubTypes, RequestToTypes, Zenon DEF Send, TableTypes
    <2> QED BY <1>1, <2>1, <2>2 DEF Send
  <1>2. CASE ReplayCheck(p)
    <2>1. pub' \in [Requests -> PubRecords]
      <3>1. pub' = [pub EXCEPT ![p] =
                      [pc |-> "once", replayable |-> KeyOf[p] \in frames]]
        BY <1>2, Zenon DEF ReplayCheck
      <3>2. pub \in [Requests -> PubRecords]
        BY DEF TableTypes
      <3> QED BY <3>1, <3>2 DEF PubRecords
    <2> QED BY <1>2, <2>1, Zenon DEF ReplayCheck, TableTypes, JoinedFlight
  <1>3. CASE CompleteFlight(p)
    <2> DEFINE f == pending[k]
    <2>1. f \in Requests /\ f # NoFlight
      BY <1>0, <1>3, Zenon DEF CompleteFlight, TableTypes
    <2>2. NewReceipt(f, pub[p].replayable) \in Receipts
      <3>1. pub[p].replayable \in BOOLEAN
        BY DEF TableTypes, PubRecords
      <3>2. IdentityOf[f] \in Identities
        BY <2>1, KeyAssumption, Zenon
      <3> QED BY <2>1, <3>1, <3>2, FlightFields, Zenon DEF NewReceipt, Receipts
    <2>3. receipt' \in [Keys -> Receipts \cup {NoReceipt}]
      BY <1>0, <1>3, <2>2, SweptType DEF CompleteFlight
    <2>4. CloseFlight(f, TRUE) /\ PubEnd(p)
      BY <1>3, ZenonT(30) DEF CompleteFlight
    <2>5. /\ pub' \in [Requests -> PubRecords]
          /\ task' \in [Requests -> TaskStates]
          /\ req' \in [Requests -> RequestRecords]
          /\ JoinedFlight'
      BY <2>4, PubTypes, RequestToTypes
    <2>6. /\ pending' \in [Keys -> Requests \cup {NoFlight}]
          /\ flight' \in [Requests -> FlightRecords]
          /\ activeAdmissions' \in SUBSET Requests
          /\ subUsed' \in Int
          /\ subAuth' \in [Auths -> Int]
          /\ subSession' \in [Sessions -> Int]
          /\ due' \in SUBSET Callbacks
      BY <2>1, <2>4, CloseFlightTypes, Zenon
    <2> QED BY <1>3, <2>3, <2>5, <2>6, Zenon DEF CompleteFlight, TableTypes
  <1>4. CASE CompleteLate(p)
    <2>1. receipt' \in [Keys -> Receipts \cup {NoReceipt}]
      BY <1>4, SweptType, Zenon DEF CompleteLate, LateReceipt
    <2> QED BY <1>4, <2>1, PubTypes, RequestToTypes, Zenon
               DEF CompleteLate, TableTypes
  <1>5. CASE CompleteOwnerless(p)
    <2>1. receipt' \in [Keys -> Receipts \cup {NoReceipt}]
      <3> DEFINE fresh == [identity |-> NoBody, executionKnown |-> FALSE,
                executionOK |-> FALSE, unavailable |-> ~pub[p].replayable,
                expired |-> FALSE]
      <3>1. fresh \in Receipts
        BY DEF Receipts, Identities
      <3> HIDE DEF fresh
      <3>2. \/ receipt' = [Swept(Expired(ShardOf[k])) EXCEPT ![k] = fresh]
            \/ receipt' = Swept(Expired(ShardOf[k]))
        BY <1>5, Zenon DEF CompleteOwnerless, fresh
      <3> QED BY <1>0, <3>1, <3>2, SweptType
    <2>2. /\ pub' \in [Requests -> PubRecords]
          /\ task' \in [Requests -> TaskStates]
          /\ todo' \in [Requests -> SUBSET Shards]
          /\ req' \in [Requests -> RequestRecords]
          /\ JoinedFlight'
      <3>1. CASE PubEnd(p) /\ UNCHANGED todo
        BY <3>1, PubTypes, RequestToTypes DEF TableTypes
      <3>2. CASE /\ PubAt(p, "reap") /\ UNCHANGED <<req, task>>
                 /\ todo' = [todo EXCEPT ![p] = Shards]
        <4>1. pub' \in [Requests -> PubRecords]
          BY <3>2, PubTypes
        <4> QED BY <3>2, <4>1, Zenon DEF TableTypes, JoinedFlight
      <3> QED BY <1>5, <3>1, <3>2, Zenon DEF CompleteOwnerless
    <2> QED BY <1>5, <2>1, <2>2, Zenon DEF CompleteOwnerless, TableTypes
  <1> QED BY <1>1, <1>2, <1>3, <1>4, <1>5 DEF PubStep

(* The steps of an owner task keep the types. *)
LEMMA TaskStepTypes ==
  ASSUME Typed, NEW f \in Requests, TaskStep(f)
  PROVE  Typed'
  <1> USE DEF Typed, ledgerVars, entryVars, subVars, taskVars, envVars
  <1>0. \A st \in TaskStates : TaskTo(f, st) => task' \in [Requests -> TaskStates]
    BY DEF TaskTo, TableTypes
  <1>1. CASE StartHandler(f)
    BY <1>0, <1>1 DEF StartHandler, TableTypes, TaskStates, JoinedFlight
  <1>2. CASE DropTask(f)
    BY <1>0, <1>2 DEF DropTask, TableTypes, TaskStates, JoinedFlight
  <1>3. CASE QueueTimeout(f)
    BY <1>0, <1>3, PubTypes DEF QueueTimeout, TableTypes, TaskStates, JoinedFlight
  <1>4. CASE RejectOwner(f)
    BY <1>0, <1>4, PubTypes, CompleteExecutionTypes, Zenon
       DEF RejectOwner, TableTypes, TaskStates, JoinedFlight
  <1>5. CASE FailGate(f)
    BY <1>0, <1>5, CompleteExecutionTypes, Zenon
       DEF FailGate, TableTypes, TaskStates, JoinedFlight
  <1>6. CASE \E ok, reported \in BOOLEAN : FinishHandler(f, ok, reported)
    BY <1>0, <1>6, CompleteExecutionTypes
    DEF FinishHandler, TableTypes, TaskStates, JoinedFlight
  <1>7. CASE \E ok \in BOOLEAN : CancelHandler(f, ok)
    BY <1>0, <1>7 DEF CancelHandler, TableTypes, TaskStates, JoinedFlight
  <1>8. CASE Publish(f)
    <2>1. flight' \in [Requests -> FlightRecords]
      <3>1. \/ flight' = flight
            \/ flight' = [flight EXCEPT ![f] = HandedOffFlight(f)]
        BY <1>8 DEF Publish
      <3> QED BY <3>1, MarkedFlightTypes DEF TableTypes
    <2>2. pub' \in [Requests -> PubRecords]
      <3>1. \/ pub' = pub
            \/ \E pc \in {"send", "once"} :
                 pub' = [pub EXCEPT ![f] = [pc |-> pc, replayable |-> FALSE]]
        BY <1>8 DEF Publish
      <3>2. \A pc \in {"send", "once"} :
              [pc |-> pc, replayable |-> FALSE] \in PubRecords
        BY DEF PubRecords
      <3> QED BY <3>1, <3>2, Zenon DEF TableTypes
    <2>3. task' \in [Requests -> TaskStates]
      BY <1>0, <1>8 DEF Publish, TaskStates
    <2> QED BY <1>8, <2>1, <2>2, <2>3, Zenon
               DEF Publish, TableTypes, JoinedFlight
  <1>9. CASE Abort(f)
    <2>1. task' \in [Requests -> TaskStates]
      BY <1>0, <1>9, Zenon DEF Abort, TaskStates
    <2>2. /\ pending' \in [Keys -> Requests \cup {NoFlight}]
          /\ flight' \in [Requests -> FlightRecords]
          /\ activeAdmissions' \in SUBSET Requests
          /\ subUsed' \in Int
          /\ subAuth' \in [Auths -> Int]
          /\ subSession' \in [Sessions -> Int]
          /\ due' \in SUBSET Callbacks
      <3>1. CASE MayAbort(f)
        BY <1>9, <3>1, CloseFlightTypes, Zenon DEF Abort
      <3>2. CASE ~MayAbort(f)
        BY <1>9, <3>2 DEF Abort, TableTypes
      <3> QED BY <3>1, <3>2
    <2> QED BY <1>9, <2>1, <2>2, Zenon DEF Abort, TableTypes, JoinedFlight
  <1> QED
    BY <1>1, <1>2, <1>3, <1>4, <1>5, <1>6, <1>7, <1>8, <1>9 DEF TaskStep

(* Every step keeps the types. *)
LEMMA TypedInv ==
  ASSUME Typed, [Next]_vars
  PROVE  Typed'
  <1> USE DEF ledgerVars, entryVars, subVars, taskVars, envVars
  <1>1. ASSUME NEW r \in Requests, Request(r) PROVE Typed'
    BY <1>1, AcquireTypes, Zenon DEF Request
  <1>2. ASSUME NEW r \in Requests, RequestStep(r) PROVE Typed'
    BY <1>2, RequestStepTypes
  <1>3. ASSUME NEW r \in Requests, AbandonWaiter(r) PROVE Typed'
    BY <1>3, RequestToTypes DEF AbandonWaiter, EndRequest, Typed, TableTypes
  <1>4. ASSUME NEW r \in Requests, RejectUnclaimed(r) PROVE Typed'
    BY <1>4, RequestToTypes, PubTypes DEF RejectUnclaimed, Typed, TableTypes
  <1>5. ASSUME NEW r \in Requests, NEW k \in Keys, ObserveDependency(r, k)
        PROVE  Typed'
    <2>1. pending[k] \in Requests
      BY <1>5 DEF ObserveDependency, Typed, TableTypes
    <2>2. req' \in [Requests -> RequestRecords] /\ JoinedFlight'
      BY <1>5, <2>1, RequestToTypes, Zenon DEF ObserveDependency
    <2> QED
      BY <1>5, <2>2, Zenon DEF ObserveDependency, JoinFlight, Typed, TableTypes
  <1>6. ASSUME NEW m \in Callbacks, Callback(m) PROVE Typed'
    <2>1. m.who \in Requests /\ m.ok \in BOOLEAN
      BY DEF Callbacks
    <2>2. req' \in [Requests -> RequestRecords] /\ JoinedFlight'
      BY <1>6, <2>1
      DEF Callback, Typed, TableTypes, RequestRecords, Heard, JoinedFlight
    <2> QED BY <1>6, <2>2 DEF Callback, Typed, TableTypes
  <1>7. ASSUME NEW p \in Requests, PubStep(p) PROVE Typed'
    BY <1>7, PubStepTypes
  <1>8. ASSUME NEW p \in Requests, ReapStep(p) PROVE Typed'
    <2>1. PICK h \in Shards : ExpireReceipts(p, h)
      BY <1>8 DEF ReapStep
    <2>2. receipt' \in [Keys -> Receipts \cup {NoReceipt}]
      BY <2>1, SweptType DEF ExpireReceipts, Typed
    <2>3. /\ req' \in [Requests -> RequestRecords]
          /\ JoinedFlight'
          /\ pub' \in [Requests -> PubRecords]
      <3>1. CASE UNCHANGED <<req, pub>>
        BY <3>1 DEF Typed, TableTypes, JoinedFlight
      <3>2. CASE RequestTo(p, "retry") /\ UNCHANGED pub
        BY <3>2, RequestToTypes DEF Typed, TableTypes
      <3>3. CASE PubAt(p, "final") /\ UNCHANGED req
        <4>1. pub' \in [Requests -> PubRecords]
          BY <3>3, PubTypes DEF Typed
        <4> QED BY <3>3, <4>1 DEF Typed, TableTypes, JoinedFlight
      <3> QED BY <2>1, <3>1, <3>2, <3>3 DEF ExpireReceipts, RequestTo, PubAt
    <2> QED BY <2>1, <2>2, <2>3, Zenon DEF ExpireReceipts, Typed, TableTypes
  <1>9. ASSUME NEW f \in Requests, TaskStep(f) PROVE Typed'
    BY <1>9, TaskStepTypes
  <1>10. ASSUME NEW k \in Keys, DropExpired(k) PROVE Typed'
    <2>1. receipt' \in [Keys -> Receipts \cup {NoReceipt}]
      BY <1>10, SweptType DEF DropExpired, Typed
    <2> QED BY <1>10, <2>1, Zenon
               DEF DropExpired, Typed, TableTypes, JoinedFlight
  <1>11. ASSUME NEW k \in Keys, AckFrame(k) PROVE Typed'
    BY <1>11 DEF AckFrame, Typed, TableTypes, JoinedFlight
  <1>12. ASSUME NEW k \in Keys, Acknowledge(k) PROVE Typed'
    <2>1. receipt' \in [Keys -> Receipts \cup {NoReceipt}]
      BY <1>12, SweptType, Zenon DEF Acknowledge, Typed
    <2>2. flight' \in [Requests -> FlightRecords]
      <3>0. pending[k] \in Requests \cup {NoFlight}
        BY DEF Typed, TableTypes
      <3>1. \/ flight' = flight
            \/ /\ pending[k] # NoFlight
               /\ flight' = [flight EXCEPT ![pending[k]] =
                                          AcknowledgedFlight(pending[k])]
        BY <1>12 DEF Acknowledge
      <3> QED BY <3>0, <3>1, MarkedFlightTypes DEF Typed, TableTypes
    <2> QED BY <1>12, <2>1, <2>2, Zenon
               DEF Acknowledge, Typed, TableTypes, JoinedFlight
  <1>13. ASSUME NEW k \in Keys, ReceiptTTL(k) PROVE Typed'
    <2>1. receipt[k] \in Receipts
      BY <1>13 DEF ReceiptTTL, Typed, TableTypes
    <2>2. [receipt[k] EXCEPT !.expired = TRUE] \in Receipts
      BY <2>1, Zenon DEF Receipts
    <2> QED BY <1>13, <2>2 DEF ReceiptTTL, Typed, TableTypes, JoinedFlight
  <1>14. ASSUME NEW s \in Sessions, ReleaseLogicalSession(s) PROVE Typed'
    BY <1>14 DEF ReleaseLogicalSession, Typed, TableTypes, JoinedFlight
  <1>15. ASSUME NEW s \in Sessions, NEW h \in Shards, ForgetSession(s, h)
         PROVE  Typed'
    <2>1. receipt' \in [Keys -> Receipts \cup {NoReceipt}]
      BY <1>15, SweptType, Zenon DEF ForgetSession, Typed
    <2> QED BY <1>15, <2>1, Zenon
               DEF ForgetSession, Typed, TableTypes, JoinedFlight
  <1>16. CASE UNCHANGED vars
    BY <1>16 DEF vars, Typed, TableTypes, JoinedFlight
  <1> QED
    BY <1>1, <1>2, <1>3, <1>4, <1>5, <1>6, <1>7, <1>8, <1>9, <1>10, <1>11,
       <1>12, <1>13, <1>14, <1>15, <1>16
    DEF Next

-----------------------------------------------------------------------------
(* The budgets: counters against the sets they count. *)

(* The size of a set of keys after some left it and others joined. *)
LEMMA CardUpdate ==
  ASSUME NEW A \in SUBSET Keys, NEW G \in SUBSET A, NEW N \in SUBSET Keys,
         N \cap (A \ G) = {}
  PROVE  /\ Cardinality((A \ G) \cup N)
              = Cardinality(A) - Cardinality(G) + Cardinality(N)
         /\ Cardinality((A \ G) \cup N) \in Nat
         /\ Cardinality(A) \in Nat
  <1>1. IsFiniteSet(A) /\ IsFiniteSet(G) /\ IsFiniteSet(N) /\ IsFiniteSet(A \ G)
    BY KeyAssumption, FS_Subset
  <1>2. /\ Cardinality(A) \in Nat /\ Cardinality(G) \in Nat
        /\ Cardinality(N) \in Nat /\ Cardinality(A \ G) \in Nat
    BY <1>1, FS_CardinalityType
  <1>3. Cardinality(A \ G) = Cardinality(A) - Cardinality(G)
    <2>1. A \cap G = G
      OBVIOUS
    <2> QED BY <1>1, <2>1, FS_Difference, Zenon
  <1>4. Cardinality((A \ G) \cup N)
          = Cardinality(A \ G) + Cardinality(N) - Cardinality((A \ G) \cap N)
    BY <1>1, FS_Union
  <1>5. Cardinality((A \ G) \cap N) = 0
    <2>1. (A \ G) \cap N = {}
      OBVIOUS
    <2> QED BY <2>1, FS_EmptySet
  <1>6. IsFiniteSet((A \ G) \cup N)
    BY <1>1, FS_Union, Zenon
  <1>7. Cardinality((A \ G) \cup N) \in Nat
    BY <1>6, FS_CardinalityType
  <1> QED BY <1>2, <1>3, <1>4, <1>5, <1>7

(* The three scopes of the fair budget count the keys of A. *)
Charged(A) ==
  /\ reservedEntries = Cardinality(A)
  /\ \A a \in Auths : authEntries[a] = Cardinality(SharingAuth(A, a))
  /\ \A s \in Sessions : sessionEntries[s] = Cardinality(SharingSession(A, s))

(* The same of the next state, for a set given in this one. *)
ChargedNext(A) ==
  /\ reservedEntries' = Cardinality(A)
  /\ \A a \in Auths : authEntries'[a] = Cardinality(SharingAuth(A, a))
  /\ \A s \in Sessions : sessionEntries'[s] = Cardinality(SharingSession(A, s))

(* None of the entry counters is negative. *)
EntryCounterTypes ==
  /\ reservedEntries \in Nat
  /\ authEntries \in [Auths -> Nat]
  /\ sessionEntries \in [Sessions -> Nat]

(* Rebalance moves the counters from A to what A becomes. *)
LEMMA RebalanceCharges ==
  ASSUME NEW A \in SUBSET Keys, NEW G \in SUBSET A, NEW N \in SUBSET Keys,
         N \cap (A \ G) = {}, Charged(A), Rebalance(G, N)
  PROVE  ChargedNext((A \ G) \cup N) /\ EntryCounterTypes'
  <1> DEFINE B == (A \ G) \cup N
  <1>1. reservedEntries' = Cardinality(B) /\ reservedEntries' \in Nat
    <2>1. /\ reservedEntries = Cardinality(A)
          /\ reservedEntries' = reservedEntries - Cardinality(G) + Cardinality(N)
      BY DEF Charged, Rebalance
    <2>2. /\ Cardinality(B) = Cardinality(A) - Cardinality(G) + Cardinality(N)
          /\ Cardinality(B) \in Nat
      BY CardUpdate
    <2> HIDE DEF B
    <2> QED BY <2>1, <2>2
  <1>2. ASSUME NEW a \in Auths
        PROVE  /\ authEntries'[a] = Cardinality(SharingAuth(B, a))
               /\ authEntries'[a] \in Nat
    <2> DEFINE SA == SharingAuth(A, a)
               SG == SharingAuth(G, a)
               SN == SharingAuth(N, a)
    <2>1. /\ SA \in SUBSET Keys /\ SG \in SUBSET SA /\ SN \in SUBSET Keys
          /\ SN \cap (SA \ SG) = {}
      BY DEF SharingAuth
    <2>2. SharingAuth(B, a) = (SA \ SG) \cup SN
      BY DEF SharingAuth
    <2>3. authEntries'[a] = authEntries[a] - Cardinality(SG) + Cardinality(SN)
      BY DEF Rebalance
    <2>4. authEntries[a] = Cardinality(SA)
      BY DEF Charged
    <2> HIDE DEF SA, SG, SN
    <2>5. /\ Cardinality((SA \ SG) \cup SN)
               = Cardinality(SA) - Cardinality(SG) + Cardinality(SN)
          /\ Cardinality((SA \ SG) \cup SN) \in Nat
      BY ONLY <2>1, CardUpdate, SMTT(30), Z3T(30)
    <2> QED BY ONLY <2>2, <2>3, <2>4, <2>5, Zenon
  <1>3. ASSUME NEW s \in Sessions
        PROVE  /\ sessionEntries'[s] = Cardinality(SharingSession(B, s))
               /\ sessionEntries'[s] \in Nat
    <2> DEFINE SA == SharingSession(A, s)
               SG == SharingSession(G, s)
               SN == SharingSession(N, s)
    <2>1. /\ SA \in SUBSET Keys /\ SG \in SUBSET SA /\ SN \in SUBSET Keys
          /\ SN \cap (SA \ SG) = {}
      BY DEF SharingSession
    <2>2. SharingSession(B, s) = (SA \ SG) \cup SN
      BY DEF SharingSession
    <2>3. sessionEntries'[s]
            = sessionEntries[s] - Cardinality(SG) + Cardinality(SN)
      BY DEF Rebalance
    <2>4. sessionEntries[s] = Cardinality(SA)
      BY DEF Charged
    <2> HIDE DEF SA, SG, SN
    <2>5. /\ Cardinality((SA \ SG) \cup SN)
               = Cardinality(SA) - Cardinality(SG) + Cardinality(SN)
          /\ Cardinality((SA \ SG) \cup SN) \in Nat
      BY ONLY <2>1, CardUpdate, SMTT(30), Z3T(30)
    <2> QED BY ONLY <2>2, <2>3, <2>4, <2>5, Zenon
  <1>4. authEntries' \in [Auths -> Nat] /\ sessionEntries' \in [Sessions -> Nat]
    BY <1>2, <1>3 DEF Rebalance
  <1> QED
    BY <1>1, <1>2, <1>3, <1>4, Zenon DEF ChargedNext, EntryCounterTypes

-----------------------------------------------------------------------------
(* The ownership invariant, one lemma per way a critical section can move a
   key between the pending table and the receipts. *)

(* The ownership invariant: who holds a key, and what is charged for it. *)
Core ==
  /\ CounterTypes
  /\ Exclusive
  /\ OwnerIdentity
  /\ EntryBudget
  /\ OwnerBudget
  /\ HandOffIsFinal

(* No flight opens or closes, and a closed one keeps how it ended. *)
SameFlights == \A f \in Requests :
  /\ flight'[f].live = flight[f].live
  /\ flight[f].live = "closed" => /\ flight'[f].ok = flight[f].ok
                                  /\ flight'[f].handedOff = flight[f].handedOff

(* A step that leaves the pending table alone keeps its half of Core. *)
LEMMA KeptOwners ==
  ASSUME TableTypes, TableTypes', Core, pending' = pending, SameFlights,
         UNCHANGED <<flightUsed, activeAdmissions, authPending>>
  PROVE  /\ Owned' = Owned
         /\ OwnerIdentity'
         /\ OwnerBudget'
         /\ HandOffIsFinal'
         /\ flightUsed' \in Nat
         /\ authPending' \in [Auths -> Nat]
  <1>1. Owned' = Owned
    BY DEF Owned
  <1>2. LiveFlights' = LiveFlights
    BY DEF LiveFlights, SameFlights
  <1>3. OwnerIdentity'
    BY <1>1, <1>2 DEF Core, OwnerIdentity
  <1>4. OwnerBudget'
    BY <1>1, <1>2 DEF Core, OwnerBudget
  <1>5. HandOffIsFinal'
    BY DEF Core, HandOffIsFinal, SameFlights
  <1> QED
    BY <1>1, <1>3, <1>4, <1>5 DEF Core, CounterTypes

(* A step that moves no key keeps Core. *)
LEMMA QuietCore ==
  ASSUME TableTypes, TableTypes', Core, pending' = pending, SameFlights,
         UNCHANGED <<flightUsed, activeAdmissions, authPending>>,
         Answered' = Answered, UNCHANGED entryVars
  PROVE  Core'
  <1>1. /\ Owned' = Owned /\ OwnerIdentity' /\ OwnerBudget' /\ HandOffIsFinal'
        /\ flightUsed' \in Nat /\ authPending' \in [Auths -> Nat]
    BY KeptOwners
  <1>2. CounterTypes'
    BY <1>1 DEF Core, CounterTypes, entryVars
  <1>3. Exclusive'
    BY <1>1 DEF Core, Exclusive
  <1>4. EntryBudget'
    BY <1>1 DEF Core, EntryBudget, entryVars
  <1> QED BY <1>1, <1>2, <1>3, <1>4 DEF Core

(* A step that removes receipts, or adds one nobody owned, keeps Core. *)
LEMMA SweepCore ==
  ASSUME TableTypes, TableTypes', Core, pending' = pending, SameFlights,
         UNCHANGED <<flightUsed, activeAdmissions, authPending>>,
         NEW G \in SUBSET Answered, NEW N \in SUBSET (Keys \ Owned),
         N \cap (Answered \ G) = {},
         Answered' = (Answered \ G) \cup N, Rebalance(G, N)
  PROVE  Core'
  <1>1. /\ Owned' = Owned /\ OwnerIdentity' /\ OwnerBudget' /\ HandOffIsFinal'
        /\ flightUsed' \in Nat /\ authPending' \in [Auths -> Nat]
    BY KeptOwners
  <1>2. Owned \cap Answered = {}
    BY DEF Core, Exclusive
  <1>3. Exclusive'
    BY <1>1, <1>2 DEF Exclusive
  <1> DEFINE A == Owned \cup Answered
  <1>4. /\ A \in SUBSET Keys /\ G \in SUBSET A /\ N \in SUBSET Keys
        /\ N \cap (A \ G) = {}
    BY DEF Owned, Answered
  <1>5. Charged(A)
    BY DEF Charged, Core, EntryBudget
  <1>6. ChargedNext((A \ G) \cup N) /\ EntryCounterTypes'
    <2> HIDE DEF A
    <2> QED BY <1>4, <1>5, RebalanceCharges
  <1>7. (A \ G) \cup N = Owned' \cup Answered'
    BY <1>1, <1>2
  <1>8. EntryBudget'
    BY <1>6, <1>7 DEF ChargedNext, EntryBudget
  <1> QED
    BY <1>1, <1>3, <1>6, <1>8 DEF Core, CounterTypes, EntryCounterTypes

(* The owner counters follow one key entering or leaving the pending table. *)
LEMMA OwnerDelta ==
  ASSUME TableTypes, Core, NEW k \in Keys,
         NEW d \in {-1, 1}, PendingDelta(k, d), flightUsed' = flightUsed + d,
         d = 1 => k \notin Owned /\ Owned' = Owned \cup {k},
         d = -1 => k \in Owned /\ Owned' = Owned \ {k}
  PROVE  /\ flightUsed' = Cardinality(Owned')
         /\ \A a \in Auths : authPending'[a] = Cardinality(SharingAuth(Owned', a))
         /\ flightUsed' \in Nat
         /\ authPending' \in [Auths -> Nat]
  <1> DEFINE G == IF d = 1 THEN {} ELSE {k}
             N == IF d = 1 THEN {k} ELSE {}
  <1>1. Cardinality({}) = 0 /\ Cardinality({k}) = 1
    BY FS_EmptySet, FS_Singleton, Zenon
  <1>2. Owned \in SUBSET Keys /\ G \in SUBSET Owned /\ N \in SUBSET Keys
        /\ N \cap (Owned \ G) = {}
    BY DEF Owned
  <1>3. Owned' = (Owned \ G) \cup N
    OBVIOUS
  <1>4. flightUsed = Cardinality(Owned) /\ authPending \in [Auths -> Nat]
        /\ \A a \in Auths : authPending[a] = Cardinality(SharingAuth(Owned, a))
    BY DEF Core, OwnerBudget, CounterTypes
  <1>5. d = Cardinality(N) - Cardinality(G)
    BY <1>1
  <1>6. flightUsed' = Cardinality(Owned') /\ flightUsed' \in Nat
    <2>1. /\ Cardinality((Owned \ G) \cup N)
               = Cardinality(Owned) - Cardinality(G) + Cardinality(N)
          /\ Cardinality((Owned \ G) \cup N) \in Nat
          /\ Cardinality(Owned) \in Nat
      <3> HIDE DEF G, N
      <3> QED BY <1>2, CardUpdate
    <2> QED BY <2>1, <1>1, <1>3, <1>4
  <1>7. ASSUME NEW a \in Auths
        PROVE  /\ authPending'[a] = Cardinality(SharingAuth(Owned', a))
               /\ authPending'[a] \in Nat
    <2> DEFINE SA == SharingAuth(Owned, a)
               SG == SharingAuth(G, a)
               SN == SharingAuth(N, a)
    <2>1. SA \in SUBSET Keys /\ SG \in SUBSET SA /\ SN \in SUBSET Keys
          /\ SN \cap (SA \ SG) = {}
      BY <1>2 DEF SharingAuth
    <2>2. SharingAuth(Owned', a) = (SA \ SG) \cup SN
      BY <1>3 DEF SharingAuth
    <2>3. /\ Cardinality((SA \ SG) \cup SN)
               = Cardinality(SA) - Cardinality(SG) + Cardinality(SN)
          /\ Cardinality((SA \ SG) \cup SN) \in Nat
          /\ Cardinality(SA) \in Nat
      <3> HIDE DEF SA, SG, SN
      <3> QED BY ONLY <2>1, CardUpdate, ZenonT(30)
    <2>4. CASE AuthOf[k] = a
      <3>1. SG = G /\ SN = N
        BY <2>4 DEF SharingAuth
      <3>2. authPending'[a] = authPending[a] + d
        BY <2>4, <1>4 DEF PendingDelta
      <3> QED BY <3>1, <3>2, <2>2, <2>3, <1>1, <1>4
    <2>5. CASE AuthOf[k] # a
      <3>1. SG = {} /\ SN = {}
        BY <2>5 DEF SharingAuth
      <3>2. authPending'[a] = authPending[a]
        BY <2>5, <1>4 DEF PendingDelta
      <3> QED BY <3>1, <3>2, <2>2, <2>3, <1>1, <1>4, Zenon
    <2> QED BY <2>4, <2>5
  <1>8. authPending' \in [Auths -> Nat]
    <2>1. authPending' = [a \in Auths |-> authPending'[a]]
      BY <1>4, Zenon DEF PendingDelta
    <2> QED BY <2>1, <1>7
  <1> QED BY <1>6, <1>7, <1>8

(* The two amounts by which an owner counter moves. *)
LEMMA Units == 1 \in {-1, 1} /\ -1 \in {-1, 1} /\ 1 # -1 /\ -1 # 1
  OBVIOUS

(* Installing an owner keeps Core. *)
LEMMA OwnCore ==
  ASSUME TableTypes, TableTypes', Core, NEW r \in Requests,
         NEW G \in SUBSET Answered, flight[r].live = "none",
         KeyOf[r] \notin Owned, KeyOf[r] \notin Answered \ G,
         pending' = [pending EXCEPT ![KeyOf[r]] = r],
         flight' = [flight EXCEPT ![r] = NewFlight],
         flightUsed' = flightUsed + 1,
         activeAdmissions' = activeAdmissions
                               \cup (IF IdentityOf[r] = NoBody THEN {} ELSE {r}),
         Answered' = Answered \ G, Rebalance(G, {KeyOf[r]}),
         PendingDelta(KeyOf[r], 1)
  PROVE  Core'
  <1> DEFINE k == KeyOf[r]
  <1>1. k \in Keys /\ r # NoFlight
    BY KeyAssumption, NullAssumption
  <1>2. Owned' = Owned \cup {k}
    <2>1. pending \in [Keys -> Requests \cup {NoFlight}]
      BY Zenon DEF TableTypes
    <2> HIDE DEF k
    <2>2. pending'[k] = r /\ \A x \in Keys \ {k} : pending'[x] = pending[x]
      BY <1>1, <2>1, Zenon DEF k
    <2> QED BY <1>1, <2>2 DEF Owned
  <1>3. LiveFlights' = LiveFlights \cup {r}
    <2>1. flight \in [Requests -> FlightRecords]
      BY ZenonT(30) DEF TableTypes
    <2>2. NewFlight.live = "pending"
      BY DEF NewFlight
    <2>3. /\ flight'[r].live = "pending"
          /\ \A x \in Requests \ {r} : flight'[x].live = flight[x].live
      BY <2>1, <2>2
    <2> QED BY <2>3 DEF LiveFlights
  <1>4. r \notin LiveFlights
    BY DEF LiveFlights
  <1>5. OwnerIdentity'
    <2>1. ASSUME NEW x \in Owned'
          PROVE  pending'[x] \in LiveFlights' /\ KeyOf[pending'[x]] = x
      BY <2>1, <1>1, <1>2, <1>3, Zenon
         DEF Core, OwnerIdentity, TableTypes, Owned
    <2>2. ASSUME NEW f \in LiveFlights'
          PROVE  pending'[KeyOf[f]] = f
      <3>1. CASE f = r
        BY <3>1, <1>1, Zenon DEF TableTypes
      <3>2. CASE f # r
        <4>1. f \in LiveFlights /\ pending[KeyOf[f]] = f
          BY <3>2, <1>3 DEF Core, OwnerIdentity
        <4>2. f \in Requests /\ KeyOf[f] \in Keys /\ f # NoFlight
          BY <4>1, KeyAssumption, NullAssumption DEF LiveFlights
        <4>3. KeyOf[f] # k
          BY <4>1, <4>2, Zenon DEF Owned
        <4> QED BY <4>1, <4>2, <4>3, <1>1, ZenonT(30) DEF TableTypes
      <3> QED BY <3>1, <3>2, Zenon
    <2> QED BY <2>1, <2>2 DEF OwnerIdentity
  <1>6. /\ flightUsed' = Cardinality(Owned')
        /\ \A a \in Auths : authPending'[a] = Cardinality(SharingAuth(Owned', a))
        /\ flightUsed' \in Nat
        /\ authPending' \in [Auths -> Nat]
    <2> DEFINE d == 1
    <2>1. d \in {-1, 1} /\ d # -1
      BY Units, Zenon
    <2>2. PendingDelta(k, d) /\ flightUsed' = flightUsed + d /\ k \notin Owned
      BY ZenonT(30)
    <2> HIDE DEF d, k
    <2> QED BY <2>1, <2>2, <1>1, <1>2, OwnerDelta, Zenon
  <1>7. activeAdmissions' = {f \in LiveFlights' : IdentityOf[f] # NoBody}
    BY <1>3 DEF Core, OwnerBudget
  <1>8. Exclusive'
    BY <1>2, ZenonT(30) DEF Core, Exclusive
  <1> DEFINE A == Owned \cup Answered
  <1>9. /\ A \in SUBSET Keys /\ G \in SUBSET A /\ {k} \in SUBSET Keys
        /\ {k} \cap (A \ G) = {}
    BY <1>1 DEF Owned, Answered
  <1>10. Charged(A)
    BY ZenonT(30) DEF Charged, Core, EntryBudget
  <1>11. ChargedNext((A \ G) \cup {k}) /\ EntryCounterTypes'
    <2> HIDE DEF A
    <2> QED BY <1>9, <1>10, RebalanceCharges
  <1>12. (A \ G) \cup {k} = Owned' \cup Answered'
    BY <1>2 DEF Core, Exclusive
  <1>13. EntryBudget'
    BY <1>11, <1>12, Zenon DEF ChargedNext, EntryBudget
  <1>14. HandOffIsFinal'
    BY Zenon DEF Core, HandOffIsFinal, TableTypes, NewFlight
  <1> QED
    BY <1>5, <1>6, <1>7, <1>8, <1>11, <1>13, <1>14, Zenon
       DEF Core, CounterTypes, EntryCounterTypes, OwnerBudget

(* Closing a flight, with or without a receipt in its place, keeps Core. *)
LEMMA CloseCore ==
  ASSUME TableTypes, TableTypes', Core, NEW k \in Owned, NEW f \in Requests,
         f = pending[k], NEW ok \in BOOLEAN, CloseFlight(f, ok),
         ok \/ ~flight[f].handedOff, NEW G \in SUBSET Answered,
         \/ Answered' = (Answered \ G) \cup {k} /\ Rebalance(G, {})
         \/ Answered' = Answered \ G /\ Rebalance(G \cup {k}, {})
  PROVE  Core'
  <1>1. k \in Keys /\ KeyOf[f] = k /\ f \in LiveFlights /\ f # NoFlight
    BY NullAssumption, Zenon DEF Core, OwnerIdentity, Owned
  <1>2. pending' = [pending EXCEPT ![k] = NoFlight]
    BY <1>1, Zenon DEF CloseFlight
  <1>3. Owned' = Owned \ {k}
    BY <1>1, <1>2 DEF TableTypes, Owned
  <1>4. LiveFlights' = LiveFlights \ {f}
    BY DEF TableTypes, LiveFlights, CloseFlight, ClosedFlight
  <1>5. OwnerIdentity'
    <2>1. ASSUME NEW x \in Owned'
          PROVE  pending'[x] \in LiveFlights' /\ KeyOf[pending'[x]] = x
      <3>1. x \in Keys /\ x \in Owned /\ x # k
        BY <1>3 DEF Owned
      <3>2. pending'[x] = pending[x]
        BY <3>1, <1>1, <1>2 DEF TableTypes
      <3>3. pending[x] \in LiveFlights /\ KeyOf[pending[x]] = x
        BY <3>1 DEF Core, OwnerIdentity
      <3> QED BY <3>1, <3>2, <3>3, <1>1, <1>4, ZenonT(30)
    <2>2. ASSUME NEW g \in LiveFlights'
          PROVE  pending'[KeyOf[g]] = g
      <3>1. g \in LiveFlights /\ g # f
        BY <1>4
      <3>2. pending[KeyOf[g]] = g /\ KeyOf[g] \in Keys
        BY <3>1, KeyAssumption, Zenon DEF Core, OwnerIdentity, LiveFlights
      <3> QED BY <3>1, <3>2, <1>1, <1>2 DEF TableTypes
    <2> QED BY <2>1, <2>2, ZenonT(30) DEF OwnerIdentity
  <1>6. /\ flightUsed' = Cardinality(Owned')
        /\ \A a \in Auths : authPending'[a] = Cardinality(SharingAuth(Owned', a))
        /\ flightUsed' \in Nat
        /\ authPending' \in [Auths -> Nat]
    <2> DEFINE d == -1
    <2>1. d \in {-1, 1} /\ d # 1
      BY Units, ZenonT(30)
    <2>2. PendingDelta(k, d) /\ flightUsed' = flightUsed + d
      BY <1>1 DEF CloseFlight, Core, CounterTypes
    <2> HIDE DEF d
    <2> QED BY <2>1, <2>2, <1>1, <1>3, OwnerDelta, Zenon
  <1>7. activeAdmissions' = {g \in LiveFlights' : IdentityOf[g] # NoBody}
    BY <1>4, Zenon DEF Core, OwnerBudget, CloseFlight
  <1>8. Owned \cap Answered = {}
    BY DEF Core, Exclusive
  <1>9. Exclusive'
    BY <1>3, <1>8 DEF Exclusive
  <1> DEFINE A == Owned \cup Answered
  <1>10. A \in SUBSET Keys /\ G \in SUBSET A /\ G \cup {k} \in SUBSET A
    BY DEF Owned, Answered
  <1>11. Charged(A)
    BY DEF Charged, Core, EntryBudget
  <1>12. ChargedNext(Owned' \cup Answered') /\ EntryCounterTypes'
    <2>1. CASE Answered' = (Answered \ G) \cup {k} /\ Rebalance(G, {})
      <3>1. ChargedNext((A \ G) \cup {}) /\ EntryCounterTypes'
        <4> HIDE DEF A
        <4> DEFINE N == {}
        <4>1. N \in SUBSET Keys /\ N \cap (A \ G) = {} /\ Rebalance(G, N)
          BY <2>1
        <4> HIDE DEF N
        <4>2. ChargedNext((A \ G) \cup N) /\ EntryCounterTypes'
          BY <4>1, <1>10, <1>11, RebalanceCharges
        <4> QED BY <4>2 DEF N
      <3>2. (A \ G) \cup {} = Owned' \cup Answered'
        BY <2>1, <1>3, <1>8
      <3> QED BY <3>1, <3>2
    <2>2. CASE Answered' = Answered \ G /\ Rebalance(G \cup {k}, {})
      <3>1. ChargedNext((A \ (G \cup {k})) \cup {}) /\ EntryCounterTypes'
        <4> DEFINE N == {}
                   H == G \cup {k}
        <4>1. /\ N \in SUBSET Keys /\ N \cap (A \ H) = {} /\ Rebalance(H, N)
              /\ H \in SUBSET A
          BY <2>2, <1>10
        <4> HIDE DEF A, N, H
        <4>2. ChargedNext((A \ H) \cup N) /\ EntryCounterTypes'
          BY <4>1, <1>10, <1>11, RebalanceCharges
        <4> QED BY <4>2 DEF N, H
      <3>2. (A \ (G \cup {k})) \cup {} = Owned' \cup Answered'
        BY <2>2, <1>3, <1>8
      <3> QED BY <3>1, <3>2
    <2> QED BY <2>1, <2>2
  <1>13. EntryBudget'
    BY <1>12 DEF ChargedNext, EntryBudget
  <1>14. HandOffIsFinal'
    <2>1. flight \in [Requests -> FlightRecords]
      BY DEF TableTypes
    <2>2. flight' = [flight EXCEPT ![f] = ClosedFlight(f, ok)]
      BY DEF CloseFlight
    <2>3. /\ ClosedFlight(f, ok).ok = ok
          /\ ClosedFlight(f, ok).handedOff = flight[f].handedOff
      BY Zenon DEF ClosedFlight
    <2>4. /\ flight'[f].handedOff => flight'[f].ok
          /\ \A x \in Requests \ {f} : flight'[x] = flight[x]
      BY <2>1, <2>2, <2>3
    <2> QED BY <2>4 DEF Core, HandOffIsFinal
  <1> QED
    BY <1>5, <1>6, <1>7, <1>9, <1>12, <1>13, <1>14, Zenon
       DEF Core, CounterTypes, EntryCounterTypes, OwnerBudget

-----------------------------------------------------------------------------
(* Every step keeps the ownership invariant. *)

(* A request that has not yet won or lost its key. *)
Unclaimed == {"new", "reap", "retry"}

(* Such a request has no flight: a flight's name is never used twice. *)
Fresh == \A r \in Requests :
  req[r].pc \in Unclaimed =>
    flight[r].live = "none" /\ ~flight[r].executionDone

(* SweepCore for a step that only removes receipts. *)
LEMMA SweepStep ==
  ASSUME TableTypes, TableTypes', Core, NEW gone \in SUBSET Answered,
         receipt' = Swept(gone), Rebalance(gone, {}), pending' = pending,
         SameFlights, UNCHANGED <<flightUsed, activeAdmissions, authPending>>
  PROVE  Core'
  <1>1. Answered' = (Answered \ gone) \cup {}
    BY DEF Answered, Swept
  <1> QED BY <1>1, SweepCore

(* QuietCore for a step that writes no receipt. *)
LEMMA QuietStep ==
  ASSUME TableTypes, TableTypes', Core, SameFlights,
         UNCHANGED <<pending, receipt, flightUsed, activeAdmissions, entryVars,
                     authPending>>
  PROVE  Core'
  <1>1. Answered' = Answered
    BY DEF Answered
  <1> QED BY <1>1, QuietCore

(* Only receipts expire. *)
LEMMA ExpiredAnswered ==
  ASSUME NEW h
  PROVE  Expired(h) \in SUBSET Answered
  BY DEF Expired, Answered

(* acquire keeps Core. *)
LEMMA AcquireCore ==
  ASSUME TableTypes, TableTypes', Core, Fresh, NEW r \in Requests,
         req[r].pc \in Unclaimed, NEW reclaimed, Acquire(r, reclaimed)
  PROVE  Core'
  <1>1. PICK gone \in SUBSET Expired(ShardOf[KeyOf[r]]) :
          \/ AcquireReceipt(r, gone)
          \/ AcquireFlight(r, gone)
          \/ AcquireCapacity(r, gone, reclaimed)
          \/ AcquireOwner(r, gone)
    BY DEF Acquire
  <1>2. gone \in SUBSET Answered
    BY <1>1, ExpiredAnswered
  <1>3. CASE AcquireReceipt(r, gone)
    BY <1>2, <1>3, SweepStep DEF AcquireReceipt, SameFlights
  <1>4. CASE AcquireFlight(r, gone)
    BY <1>2, <1>4, SweepStep, Zenon DEF AcquireFlight, SameFlights
  <1>5. CASE AcquireCapacity(r, gone, reclaimed)
    BY <1>2, <1>5, SweepStep, Zenon DEF AcquireCapacity, SameFlights
  <1>6. CASE AcquireOwner(r, gone)
    <2>1. /\ pending' = [pending EXCEPT ![KeyOf[r]] = r]
          /\ flight' = [flight EXCEPT ![r] = NewFlight]
          /\ flightUsed' = flightUsed + 1
          /\ activeAdmissions' = activeAdmissions
                               \cup (IF IdentityOf[r] = NoBody THEN {} ELSE {r})
          /\ Rebalance(gone, {KeyOf[r]})
          /\ PendingDelta(KeyOf[r], 1)
      BY <1>6, Zenon DEF AcquireOwner
    <2>2. flight[r].live = "none"
      BY Zenon DEF Fresh
    <2>3. KeyOf[r] \notin Owned /\ KeyOf[r] \notin Answered \ gone
      BY <1>6, KeyAssumption, Zenon
         DEF AcquireOwner, Vacant, Swept, Owned, Answered
    <2>4. Answered' = Answered \ gone
      BY <1>6, Zenon DEF AcquireOwner, Answered, Swept
    <2> QED BY <1>2, <2>1, <2>2, <2>3, <2>4, OwnCore, Zenon
  <1> QED BY <1>1, <1>3, <1>4, <1>5, <1>6

(* A flight its key points at is live. *)
LEMMA OwnedIsLive ==
  ASSUME TableTypes, Core, NEW f \in Requests, pending[KeyOf[f]] = f
  PROVE  flight[f].live = "pending"
  <1>1. KeyOf[f] \in Keys
    BY KeyAssumption
  <1>2. f # NoFlight
    BY NullAssumption
  <1>3. KeyOf[f] \in Owned
    BY <1>1, <1>2 DEF Owned
  <1>4. pending[KeyOf[f]] \in LiveFlights
    BY <1>3 DEF Core, OwnerIdentity
  <1> QED BY <1>4 DEF LiveFlights

(* What subscribe leaves of every flight. *)
LEMMA SubscribeFlights ==
  ASSUME TableTypes, NEW r \in Requests, SubscribeOpen(r),
         req[r].flight \in Requests, NEW x \in Requests
  PROVE  /\ flight'[x].live = flight[x].live
         /\ flight'[x].ok = flight[x].ok
         /\ flight'[x].handedOff = flight[x].handedOff
         /\ flight'[x].executionDone = flight[x].executionDone
         /\ flight'[x].executionOK = flight[x].executionOK
  <1> DEFINE f == req[r].flight
             res == req[r].want \cap {"result"}
             exec == IF flight[f].executionDone THEN {}
                     ELSE req[r].want \cap {"execution"}
             slots == Cardinality(res) + Cardinality(exec)
             new == SubscribedFlight(f, r, res # {}, exec # {}, slots)
  <1>1. flight' = flight \/ flight' = [flight EXCEPT ![f] = new]
    BY Zenon DEF SubscribeOpen
  <1>2. flight \in [Requests -> FlightRecords]
    BY DEF TableTypes
  <1>3. /\ new.live = flight[f].live
        /\ new.ok = flight[f].ok
        /\ new.handedOff = flight[f].handedOff
        /\ new.executionDone = flight[f].executionDone
        /\ new.executionOK = flight[f].executionOK
    BY Zenon DEF SubscribedFlight
  <1> HIDE DEF new
  <1> QED BY <1>1, <1>2, <1>3

(* subscribe keeps Core. *)
LEMMA SubscribeCore ==
  ASSUME TableTypes, TableTypes', Core, NEW r \in Requests,
         SubscribeOpen(r), req[r].flight \in Requests
  PROVE  Core'
  <1>1. SameFlights
    BY SubscribeFlights, Zenon DEF SameFlights
  <1> QED BY <1>1, QuietStep, Zenon DEF SubscribeOpen

(* CompleteExecution opens and closes nothing. *)
LEMMA CompleteExecutionCore ==
  ASSUME TableTypes, NEW f \in Requests, NEW ok \in BOOLEAN,
         CompleteExecution(f, ok)
  PROVE  SameFlights
  <1> DEFINE new == ExecutedFlight(f, ok)
  <1>1. flight' = flight \/ flight' = [flight EXCEPT ![f] = new]
    BY DEF CompleteExecution
  <1>2. flight \in [Requests -> FlightRecords]
    BY DEF TableTypes
  <1>3. /\ new.live = flight[f].live
        /\ new.ok = flight[f].ok
        /\ new.handedOff = flight[f].handedOff
    BY Zenon DEF ExecutedFlight
  <1> HIDE DEF new
  <1> QED BY <1>1, <1>2, <1>3 DEF SameFlights

(* The steps of a publication, Complete among them, keep Core. *)
LEMMA PubStepCore ==
  ASSUME TableTypes, TableTypes', Core, NEW p \in Requests, PubStep(p)
  PROVE  Core'
  <1> DEFINE k == KeyOf[p]
             gone == Expired(ShardOf[k])
  <1>1. k \in Keys /\ gone \in SUBSET Answered
    BY KeyAssumption, ExpiredAnswered
  <1>2. CASE Send(p)
    BY <1>2, QuietStep, Zenon DEF Send, ledgerVars, SameFlights
  <1>3. CASE ReplayCheck(p)
    BY <1>3, QuietStep, Zenon DEF ReplayCheck, ledgerVars, SameFlights
  <1>4. CASE CompleteFlight(p)
    <2> DEFINE f == pending[k]
    <2>1. k \in Owned /\ f \in Requests /\ CloseFlight(f, TRUE)
      BY <1>1, <1>4, Zenon DEF CompleteFlight, Owned, TableTypes
    <2>2. \/ Answered' = (Answered \ gone) \cup {k} /\ Rebalance(gone, {})
          \/ Answered' = Answered \ gone /\ Rebalance(gone \cup {k}, {})
      <3>1. CASE Remembered(f)
        <4>1. /\ receipt' = [Swept(gone) EXCEPT ![k] =
                               NewReceipt(f, pub[p].replayable)]
              /\ Rebalance(gone, {})
          BY <3>1, <1>4, ZenonT(30) DEF CompleteFlight
        <4>2. receipt'[k] # NoReceipt
          <5>1. flight[f] \in FlightRecords /\ pub[p] \in PubRecords
            BY <2>1 DEF TableTypes
          <5>2. NewReceipt(f, pub[p].replayable) \in Receipts
            BY <2>1, <5>1, KeyAssumption, Zenon
               DEF NewReceipt, Receipts, FlightRecords, PubRecords
          <5> QED BY <4>1, <5>2, <1>1, NullAssumption DEF Swept
        <4> QED BY <4>1, <4>2, <1>1, Zenon DEF Answered, Swept
      <3>2. CASE ~Remembered(f)
        <4>1. /\ receipt' = [Swept(gone) EXCEPT ![k] = NoReceipt]
              /\ Rebalance(gone \cup {k}, {})
          BY <3>2, <1>4, Zenon DEF CompleteFlight
        <4>2. k \notin Answered
          BY <2>1, Zenon DEF Core, Exclusive
        <4> QED BY <4>1, <4>2, <1>1, Zenon DEF Answered, Swept
      <3> QED BY <3>1, <3>2, Zenon
    <2> HIDE DEF f, k, gone
    <2> QED BY <1>1, <2>1, <2>2, CloseCore, Zenon DEF f
  <1>5. CASE CompleteLate(p)
    BY <1>1, <1>5, SweepStep, Zenon DEF CompleteLate, LateReceipt, SameFlights
  <1>6. CASE CompleteOwnerless(p)
    <2>1. CASE CanReserve(k, FALSE, gone)
      <3> DEFINE fresh == [identity |-> NoBody, executionKnown |-> FALSE,
                     executionOK |-> FALSE, unavailable |-> ~pub[p].replayable,
                     expired |-> FALSE]
      <3>1. /\ receipt' = [Swept(gone) EXCEPT ![k] = fresh]
            /\ Rebalance(gone, {k})
            /\ pending' = pending /\ flight' = flight
            /\ UNCHANGED <<flightUsed, activeAdmissions, authPending>>
            /\ pending[k] = NoFlight
            /\ Swept(gone)[k] = NoReceipt
        BY <1>6, <2>1, Zenon DEF CompleteOwnerless
      <3>2. fresh \in Receipts
        <4>1. pub[p] \in PubRecords
          BY DEF TableTypes
        <4> QED BY <4>1, Zenon DEF Receipts, PubRecords, Identities
      <3>3. Answered' = (Answered \ gone) \cup {k}
        <4> HIDE DEF fresh
        <4> QED BY <3>1, <3>2, <1>1, NullAssumption, Zenon DEF Answered, Swept
      <3>4. {k} \in SUBSET (Keys \ Owned) /\ {k} \cap (Answered \ gone) = {}
        BY <3>1, <1>1, Zenon DEF Owned, Answered, Swept
      <3>5. SameFlights
        BY <3>1, Zenon DEF SameFlights
      <3> QED BY <1>1, <3>1, <3>3, <3>4, <3>5, SweepCore, Zenon
    <2>2. CASE ~CanReserve(k, FALSE, gone)
      BY <1>1, <1>6, <2>2, SweepStep, Zenon DEF CompleteOwnerless, SameFlights
    <2> QED BY <2>1, <2>2, Zenon
  <1> QED BY <1>2, <1>3, <1>4, <1>5, <1>6 DEF PubStep

(* The steps of an owner task, HandOff and Abort among them, keep Core. *)
LEMMA TaskStepCore ==
  ASSUME TableTypes, TableTypes', Core, NEW f \in Requests, TaskStep(f)
  PROVE  Core'
  <1>1. CASE StartHandler(f) \/ DropTask(f) \/ QueueTimeout(f)
             \/ \E ok \in BOOLEAN : CancelHandler(f, ok)
    BY <1>1, QuietStep, Zenon
       DEF StartHandler, DropTask, QueueTimeout, CancelHandler, ledgerVars,
           SameFlights
  <1>2. CASE RejectOwner(f)
    BY <1>2, CompleteExecutionCore, QuietStep, Zenon DEF RejectOwner
  <1>3. CASE FailGate(f)
    BY <1>3, CompleteExecutionCore, QuietStep, Zenon DEF FailGate
  <1>4. ASSUME NEW ok \in BOOLEAN, NEW reported \in BOOLEAN,
               FinishHandler(f, ok, reported)
        PROVE  Core'
    BY <1>4, CompleteExecutionCore, QuietStep DEF FinishHandler
  <1>5. CASE Publish(f)
    <2>1. CASE UNCHANGED flight
      BY <1>5, <2>1, QuietStep, Zenon DEF Publish, SameFlights
    <2>2. CASE /\ pending[KeyOf[f]] = f
               /\ flight' = [flight EXCEPT ![f] = HandedOffFlight(f)]
      <3>1. flight[f].live = "pending"
        BY <2>2, OwnedIsLive, Zenon
      <3>2. HandedOffFlight(f).live = "pending"
        <4>1. flight[f] \in FlightRecords
          BY DEF TableTypes
        <4> QED BY <4>1, <3>1 DEF HandedOffFlight, FlightRecords
      <3>3. SameFlights
        BY <2>2, <3>1, <3>2 DEF SameFlights, TableTypes
      <3> QED BY <1>5, <3>3, QuietStep, Zenon DEF Publish
    <2> QED BY <1>5, <2>1, <2>2, Zenon DEF Publish
  <1>6. CASE Abort(f)
    <2>1. CASE MayAbort(f)
      <3> DEFINE k == KeyOf[f]
                 G == {}
                 ok == FALSE
      <3>1. /\ CloseFlight(f, ok) /\ Rebalance({k}, {}) /\ receipt' = receipt
            /\ ~flight[f].handedOff /\ pending[k] = f
        BY <1>6, <2>1, Zenon DEF Abort, MayAbort
      <3>2. k \in Owned
        BY <3>1, KeyAssumption, NullAssumption, Zenon DEF Owned
      <3>3. Answered' = Answered \ G /\ Rebalance(G \cup {k}, {})
        <4>1. G \cup {k} = {k}
          OBVIOUS
        <4> QED BY <3>1, <4>1, Zenon DEF Answered
      <3>4. G \in SUBSET Answered /\ ok \in BOOLEAN
        OBVIOUS
      <3> HIDE DEF k, G, ok
      <3> QED BY <3>1, <3>2, <3>3, <3>4, CloseCore, Zenon
    <2>2. CASE ~MayAbort(f)
      BY <1>6, <2>2, QuietStep DEF Abort, SameFlights
    <2> QED BY <2>1, <2>2
  <1> QED
    BY <1>1, <1>2, <1>3, <1>4, <1>5, <1>6 DEF TaskStep

(* Acknowledge keeps Core. *)
LEMMA AcknowledgeCore ==
  ASSUME TableTypes, TableTypes', Core, NEW k \in Keys, Acknowledge(k)
  PROVE  Core'
  <1> DEFINE gone == Expired(ShardOf[k])
             f == pending[k]
  <1>1. gone \in SUBSET Answered
    BY ExpiredAnswered
  <1>2. CASE Swept(gone)[k] # NoReceipt
    <2>1. gone \cup {k} \in SUBSET Answered
      BY <1>1, <1>2 DEF Swept, Answered
    <2>2. /\ receipt' = Swept(gone \cup {k}) /\ Rebalance(gone \cup {k}, {})
          /\ UNCHANGED <<pending, flight, flightUsed, activeAdmissions,
                         authPending>>
      BY <1>2, Zenon DEF Acknowledge
    <2> QED BY <2>1, <2>2, SweepStep DEF SameFlights
  <1>3. CASE Swept(gone)[k] = NoReceipt
    <2>1. /\ receipt' = Swept(gone) /\ Rebalance(gone, {})
          /\ UNCHANGED <<pending, flightUsed, activeAdmissions, authPending>>
          /\ flight' = IF f = NoFlight THEN flight
                       ELSE [flight EXCEPT ![f] = AcknowledgedFlight(f)]
      BY <1>3, Zenon DEF Acknowledge
    <2>2. SameFlights
      <3>1. CASE f = NoFlight
        BY <2>1, <3>1, Zenon DEF SameFlights
      <3>2. CASE f # NoFlight
        <4>1. f \in Requests /\ flight[f] \in FlightRecords
          BY <3>2 DEF TableTypes
        <4>2. /\ AcknowledgedFlight(f).live = flight[f].live
              /\ AcknowledgedFlight(f).ok = flight[f].ok
              /\ AcknowledgedFlight(f).handedOff = flight[f].handedOff
          BY <4>1 DEF AcknowledgedFlight, FlightRecords
        <4> HIDE DEF f
        <4> QED BY <2>1, <3>2, <4>1, <4>2 DEF SameFlights, TableTypes
      <3> QED BY <3>1, <3>2
    <2> QED BY <1>1, <2>1, <2>2, SweepStep, Zenon
  <1> QED BY <1>2, <1>3

(* A receipt that only grew old is still a receipt. *)
LEMMA ReceiptTTLCore ==
  ASSUME TableTypes, TableTypes', Core, NEW k \in Keys, ReceiptTTL(k)
  PROVE  Core'
  <1>1. receipt[k] \in Receipts
    BY DEF ReceiptTTL, TableTypes
  <1>2. [receipt[k] EXCEPT !.expired = TRUE] \in Receipts
    BY <1>1, Zenon DEF Receipts
  <1>3. Answered' = Answered
    BY <1>2, NullAssumption, Zenon DEF ReceiptTTL, Answered, TableTypes
  <1> QED BY <1>3, QuietCore DEF ReceiptTTL, SameFlights

(* Every step keeps Core. *)
LEMMA CoreInv ==
  ASSUME Typed, TableTypes', Core, Fresh, [Next]_vars
  PROVE  Core'
  <1> USE DEF Typed
  <1>1. ASSUME NEW r \in Requests, Request(r)
        PROVE  Core'
    BY <1>1, AcquireCore, Zenon DEF Request, Unclaimed
  <1>2. ASSUME NEW r \in Requests, RequestStep(r)
        PROVE  Core'
    <2>1. CASE Retry(r)
      BY <2>1, AcquireCore, Zenon DEF Retry, Unclaimed
    <2>2. CASE SubscribeOpen(r)
      <3>1. req[r].flight \in Requests
        BY <2>2, Zenon DEF SubscribeOpen, JoinedFlight
      <3> QED BY <2>2, <3>1, SubscribeCore
    <2>3. CASE SubscribeClosed(r) \/ FinishWait(r)
      BY <2>3, QuietStep, Zenon
         DEF SubscribeClosed, FinishWait, ledgerVars, SameFlights
    <2> QED BY <1>2, <2>1, <2>2, <2>3 DEF RequestStep
  <1>3. ASSUME NEW r \in Requests,
               AbandonWaiter(r) \/ RejectUnclaimed(r)
                 \/ \E k \in Keys : ObserveDependency(r, k)
        PROVE  Core'
    BY <1>3, QuietStep, Zenon
       DEF AbandonWaiter, RejectUnclaimed, ObserveDependency, ledgerVars,
           SameFlights
  <1>4. ASSUME NEW m \in Callbacks, Callback(m)
        PROVE  Core'
    BY <1>4, QuietStep DEF Callback, ledgerVars, SameFlights
  <1>5. ASSUME NEW p \in Requests, PubStep(p)
        PROVE  Core'
    BY <1>5, PubStepCore
  <1>6. ASSUME NEW p \in Requests, NEW h \in Shards, ExpireReceipts(p, h)
        PROVE  Core'
    BY <1>6, ExpiredAnswered, SweepStep DEF ExpireReceipts, SameFlights
  <1>7. ASSUME NEW f \in Requests, TaskStep(f)
        PROVE  Core'
    BY <1>7, TaskStepCore
  <1>8. ASSUME NEW k \in Keys, DropExpired(k)
        PROVE  Core'
    <2>1. {k} \in SUBSET Answered
      BY <1>8 DEF DropExpired, Answered
    <2> QED BY <1>8, <2>1, SweepStep, Zenon DEF DropExpired, SameFlights
  <1>9. ASSUME NEW k \in Keys, AckFrame(k)
        PROVE  Core'
    BY <1>9, QuietStep DEF AckFrame, ledgerVars, SameFlights
  <1>10. ASSUME NEW k \in Keys, Acknowledge(k)
         PROVE  Core'
    BY <1>10, AcknowledgeCore
  <1>11. ASSUME NEW k \in Keys, ReceiptTTL(k)
         PROVE  Core'
    BY <1>11, ReceiptTTLCore
  <1>12. ASSUME NEW s \in Sessions, ReleaseLogicalSession(s)
         PROVE  Core'
    BY <1>12, QuietStep DEF ReleaseLogicalSession, ledgerVars, SameFlights
  <1>13. ASSUME NEW s \in Sessions, NEW h \in Shards, ForgetSession(s, h)
         PROVE  Core'
    <2> DEFINE gone == {k \in Keys : /\ SessionOf[k] = s /\ ShardOf[k] = h
                                     /\ receipt[k] # NoReceipt}
    <2>1. gone \in SUBSET Answered
      BY DEF Answered
    <2>2. /\ receipt' = Swept(gone) /\ Rebalance(gone, {})
          /\ UNCHANGED <<pending, flight, flightUsed, activeAdmissions,
                         authPending>>
      BY <1>13, Zenon DEF ForgetSession
    <2> HIDE DEF gone
    <2> QED BY <2>1, <2>2, SweepStep, Zenon DEF SameFlights
  <1>14. CASE UNCHANGED vars
    BY <1>14, QuietStep DEF vars, ledgerVars, SameFlights
  <1> QED
    BY <1>1, <1>2, <1>3, <1>4, <1>5, <1>6, <1>7, <1>8, <1>9, <1>10, <1>11,
       <1>12, <1>13, <1>14 DEF Next, ReapStep

(* Fresh survives a step that makes no request unclaimed. *)
LEMMA FreshStep ==
  ASSUME Fresh,
         \A r \in Requests : req'[r].pc \in Unclaimed =>
            /\ req[r].pc \in Unclaimed
            /\ flight'[r].live = flight[r].live
            /\ flight'[r].executionDone = flight[r].executionDone
  PROVE  Fresh'
  BY DEF Fresh

(* CompleteExecution writes no flight of an unclaimed request. *)
LEMMA ExecutionFresh ==
  ASSUME TableTypes, Core, Fresh, NEW f \in Requests, NEW ok \in BOOLEAN,
         CompleteExecution(f, ok), req' = req
  PROVE  Fresh'
  <1>1. CASE OutcomeOpen(f)
    <2>1. req[f].pc \notin Unclaimed
      BY <1>1, OwnedIsLive, Zenon DEF OutcomeOpen, Fresh
    <2> QED BY <1>1, <2>1 DEF CompleteExecution, Fresh, TableTypes
  <1>2. CASE ~OutcomeOpen(f)
    BY <1>2, Zenon DEF CompleteExecution, Fresh
  <1> QED BY <1>1, <1>2

(* Nor does closing a flight. *)
LEMMA CloseFresh ==
  ASSUME TableTypes, Core, Fresh, NEW f \in Requests, NEW ok \in BOOLEAN,
         pending[KeyOf[f]] = f, CloseFlight(f, ok),
         \A r \in Requests : req'[r].pc \in Unclaimed => req[r].pc \in Unclaimed
  PROVE  Fresh'
  <1>1. req[f].pc \notin Unclaimed
    BY OwnedIsLive, Zenon DEF Fresh
  <1> QED BY <1>1, Zenon DEF CloseFlight, Fresh, TableTypes

(* The ways a request moves on never lead back to its start. *)
LEMMA NoNewcomer ==
  ASSUME TableTypes, NEW r \in Requests,
         \/ Done(r)
         \/ \E f, want : JoinFlight(r, f, want)
         \/ \E pc \in {"waiting", "reject"} : RequestTo(r, pc)
         \/ req[r].pc \in Unclaimed /\ \E pc \in Unclaimed : RequestTo(r, pc)
  PROVE  \A x \in Requests : req'[x].pc \in Unclaimed => req[x].pc \in Unclaimed
  <1>1. req[r] \in RequestRecords
    BY DEF TableTypes
  <1> QED
    BY <1>1 DEF Done, JoinFlight, RequestTo, NewRequest, RequestRecords,
                Unclaimed, TableTypes

(* acquire keeps Fresh: a winner is no longer unclaimed. *)
LEMMA AcquireFresh ==
  ASSUME TableTypes, Fresh, NEW r \in Requests, req[r].pc \in Unclaimed,
         NEW reclaimed, Acquire(r, reclaimed)
  PROVE  Fresh'
  <1>1. PICK gone \in SUBSET Expired(ShardOf[KeyOf[r]]) :
          \/ AcquireReceipt(r, gone)
          \/ AcquireFlight(r, gone)
          \/ AcquireCapacity(r, gone, reclaimed)
          \/ AcquireOwner(r, gone)
    BY ZenonT(30) DEF Acquire
  <1>2. CASE AcquireReceipt(r, gone)
    <2>1. \A x \in Requests : req'[x].pc \in Unclaimed => req[x].pc \in Unclaimed
      BY <1>2, NoNewcomer DEF AcquireReceipt, StartReject, EndRequest
    <2> QED BY <1>2, <2>1, FreshStep, ZenonT(30) DEF AcquireReceipt
  <1>3. CASE AcquireFlight(r, gone)
    <2>1. \A x \in Requests : req'[x].pc \in Unclaimed => req[x].pc \in Unclaimed
      BY <1>3, NoNewcomer, Zenon DEF AcquireFlight, EndRequest
    <2> QED BY <1>3, <2>1, FreshStep, Zenon DEF AcquireFlight
  <1>4. CASE AcquireCapacity(r, gone, reclaimed)
    <2>1. \A x \in Requests : req'[x].pc \in Unclaimed => req[x].pc \in Unclaimed
      BY <1>4, NoNewcomer, ZenonT(30)
         DEF AcquireCapacity, StartReject, EndRequest, Unclaimed
    <2> QED BY <1>4, <2>1, FreshStep, Zenon DEF AcquireCapacity
  <1>5. CASE AcquireOwner(r, gone)
    <2>1. req' = [req EXCEPT ![r] = [NewRequest EXCEPT !.pc = "done"]]
      BY <1>5 DEF AcquireOwner, EndRequest, Done
    <2>2. req'[r].pc = "done"
      BY <2>1 DEF TableTypes, NewRequest
    <2>3. \A x \in Requests : x # r => req'[x] = req[x] /\ flight'[x] = flight[x]
      BY <1>5, <2>1 DEF TableTypes, AcquireOwner
    <2> QED BY <2>2, <2>3 DEF Fresh, Unclaimed
  <1> QED BY <1>1, <1>2, <1>3, <1>4, <1>5, Zenon

(* The steps of a publication keep Fresh. *)
LEMMA PubFresh ==
  ASSUME TableTypes, Core, Fresh, NEW p \in Requests, PubStep(p)
  PROVE  Fresh'
  <1>1. \A x \in Requests : req'[x].pc \in Unclaimed => req[x].pc \in Unclaimed
    <2>1. CASE Done(p)
      BY <2>1, NoNewcomer, Zenon
    <2>2. CASE req' = req
      BY <2>2
    <2> QED
      BY <2>1, <2>2, Zenon
         DEF PubStep, Send, ReplayCheck, CompleteFlight, CompleteLate,
             CompleteOwnerless, PubEnd
  <1>2. CASE CompleteFlight(p)
    <2> DEFINE f == pending[KeyOf[p]]
    <2>1. f \in Requests /\ pending[KeyOf[f]] = f /\ CloseFlight(f, TRUE)
      BY <1>2, KeyAssumption, ZenonT(30)
         DEF CompleteFlight, TableTypes, Core, OwnerIdentity, Owned
    <2> HIDE DEF f
    <2> QED BY <1>1, <2>1, CloseFresh, Zenon
  <1>3. CASE flight' = flight
    BY <1>1, <1>3, FreshStep
  <1> QED
    BY <1>2, <1>3, Zenon
       DEF PubStep, Send, ReplayCheck, CompleteLate, CompleteOwnerless,
           ledgerVars

(* The steps of an owner task keep Fresh. *)
LEMMA TaskFresh ==
  ASSUME TableTypes, Core, Fresh, NEW f \in Requests, TaskStep(f)
  PROVE  Fresh'
  <1>1. CASE StartHandler(f) \/ DropTask(f) \/ QueueTimeout(f)
             \/ \E ok \in BOOLEAN : CancelHandler(f, ok)
    BY <1>1, Zenon
       DEF StartHandler, DropTask, QueueTimeout, CancelHandler, ledgerVars,
           Fresh
  <1>2. CASE RejectOwner(f) \/ FailGate(f)
    BY <1>2, ExecutionFresh, Zenon DEF RejectOwner, FailGate
  <1>3. ASSUME NEW ok \in BOOLEAN, NEW reported \in BOOLEAN,
               FinishHandler(f, ok, reported)
        PROVE  Fresh'
    BY <1>3, ExecutionFresh DEF FinishHandler
  <1>4. CASE Publish(f)
    <2>1. CASE UNCHANGED flight
      BY <1>4, <2>1, ZenonT(30) DEF Publish, Fresh
    <2>2. CASE /\ pending[KeyOf[f]] = f
               /\ flight' = [flight EXCEPT ![f] = HandedOffFlight(f)]
      <3>1. req[f].pc \notin Unclaimed
        BY <2>2, OwnedIsLive DEF Fresh
      <3> QED BY <1>4, <2>2, <3>1 DEF Publish, Fresh, TableTypes
    <2> QED BY <1>4, <2>1, <2>2, Zenon DEF Publish
  <1>5. CASE Abort(f)
    <2>1. CASE MayAbort(f)
      BY <1>5, <2>1, CloseFresh, Zenon DEF Abort, MayAbort
    <2>2. CASE ~MayAbort(f)
      BY <1>5, <2>2, ZenonT(30) DEF Abort, Fresh
    <2> QED BY <2>1, <2>2
  <1> QED BY <1>1, <1>2, <1>3, <1>4, <1>5 DEF TaskStep

(* Every step keeps Fresh. *)
LEMMA FreshInv ==
  ASSUME Typed, Core, Fresh, [Next]_vars
  PROVE  Fresh'
  <1> USE DEF Typed
  <1>1. ASSUME NEW r \in Requests, Request(r) \/ Retry(r)
        PROVE  Fresh'
    <2>1. CASE Request(r)
      <3>1. req[r].pc \in Unclaimed /\ Acquire(r, FALSE)
        BY <2>1, Zenon DEF Request, Unclaimed
      <3> QED BY <3>1, AcquireFresh, Zenon
    <2>2. CASE Retry(r)
      <3>1. req[r].pc \in Unclaimed /\ Acquire(r, TRUE)
        BY <2>2, Zenon DEF Retry, Unclaimed
      <3> QED BY <3>1, AcquireFresh, Zenon
    <2> QED BY <1>1, <2>1, <2>2
  <1>2. ASSUME NEW r \in Requests, SubscribeOpen(r)
        PROVE  Fresh'
    <2>1. \A x \in Requests : req'[x].pc \in Unclaimed => req[x].pc \in Unclaimed
      BY <1>2, NoNewcomer, Zenon DEF SubscribeOpen
    <2>2. req[r].flight \in Requests
      BY <1>2, Zenon DEF SubscribeOpen, JoinedFlight
    <2>3. \A x \in Requests :
            /\ flight'[x].live = flight[x].live
            /\ flight'[x].executionDone = flight[x].executionDone
      BY <1>2, <2>2, SubscribeFlights, Zenon
    <2> QED BY <2>1, <2>3, FreshStep
  <1>3. ASSUME NEW r \in Requests,
               \/ SubscribeClosed(r) \/ FinishWait(r) \/ AbandonWaiter(r)
               \/ RejectUnclaimed(r)
               \/ \E k \in Keys : ObserveDependency(r, k)
        PROVE  Fresh'
    <2>1. \A x \in Requests : req'[x].pc \in Unclaimed => req[x].pc \in Unclaimed
      BY <1>3, NoNewcomer DEF SubscribeClosed, FinishWait, AbandonWaiter,
                              RejectUnclaimed, StartReject, EndRequest,
                              ObserveDependency
    <2> QED
      BY <1>3, <2>1, FreshStep, Zenon
         DEF SubscribeClosed, FinishWait, AbandonWaiter, RejectUnclaimed,
             ObserveDependency, ledgerVars
  <1>4. ASSUME NEW m \in Callbacks, Callback(m)
        PROVE  Fresh'
    <2>1. m.who \in Requests /\ req[m.who] \in RequestRecords
      BY DEF Callbacks, TableTypes
    <2>2. \A x \in Requests : req'[x].pc = req[x].pc
      BY <1>4, <2>1 DEF Callback, TableTypes, RequestRecords
    <2> QED BY <1>4, <2>2, FreshStep DEF Callback, ledgerVars
  <1>5. ASSUME NEW p \in Requests, PubStep(p)
        PROVE  Fresh'
    BY <1>5, PubFresh
  <1>6. ASSUME NEW p \in Requests, NEW h \in Shards, ExpireReceipts(p, h)
        PROVE  Fresh'
    <2>1. \A x \in Requests : req'[x].pc \in Unclaimed => req[x].pc \in Unclaimed
      <3>1. CASE req' = req
        BY <3>1
      <3>2. CASE req[p].pc = "reap" /\ RequestTo(p, "retry")
        BY <3>2, NoNewcomer, Zenon DEF Unclaimed
      <3> QED BY <1>6, <3>1, <3>2 DEF ExpireReceipts, RequestTo
    <2> QED BY <1>6, <2>1, FreshStep DEF ExpireReceipts
  <1>7. ASSUME NEW f \in Requests, TaskStep(f)
        PROVE  Fresh'
    BY <1>7, TaskFresh
  <1>8. ASSUME NEW k \in Keys, Acknowledge(k)
        PROVE  Fresh'
    <2> DEFINE f == pending[k]
    <2>1. CASE flight' = flight
      BY <1>8, <2>1, Zenon DEF Acknowledge, Fresh
    <2>2. CASE f # NoFlight /\ flight' = [flight EXCEPT ![f] = AcknowledgedFlight(f)]
      <3>1. f \in Requests /\ pending[KeyOf[f]] = f
        <4>1. k \in Owned
          BY <2>2 DEF Owned
        <4>2. f \in LiveFlights /\ KeyOf[f] = k
          BY <4>1 DEF Core, OwnerIdentity
        <4> QED BY <4>2 DEF LiveFlights
      <3> HIDE DEF f
      <3>2. req[f].pc \notin Unclaimed
        BY <3>1, OwnedIsLive DEF Fresh
      <3> QED BY <1>8, <2>2, <3>1, <3>2, Zenon
                 DEF Acknowledge, Fresh, TableTypes
    <2> QED BY <1>8, <2>1, <2>2, Zenon DEF Acknowledge
  <1>9. CASE \/ \E k \in Keys : DropExpired(k) \/ AckFrame(k) \/ ReceiptTTL(k)
             \/ \E s \in Sessions : ReleaseLogicalSession(s)
             \/ \E s \in Sessions, h \in Shards : ForgetSession(s, h)
             \/ UNCHANGED vars
    BY <1>9, Zenon
       DEF DropExpired, AckFrame, ReceiptTTL, ReleaseLogicalSession,
           ForgetSession, vars, ledgerVars, Fresh
  <1> QED
    BY <1>1, <1>2, <1>3, <1>4, <1>5, <1>6, <1>7, <1>8, <1>9
       DEF Next, RequestStep, ReapStep

-----------------------------------------------------------------------------
(* The inductive invariant and its consequences. *)

(* The inductive invariant. *)
IInv == Typed /\ Core /\ Fresh

(* The empty ledger satisfies it. *)
LEMMA InitIInv ==
  ASSUME Init
  PROVE  IInv
  <1> USE DEF Init
  <1>1. NoFlightYet \in FlightRecords
    BY NewFlightType
  <1>2. NewRequest \in RequestRecords /\ IdlePub \in PubRecords
    BY Zenon DEF NewRequest, RequestRecords, Heard, IdlePub, PubRecords
  <1>3. NoFlightYet.live = "none" /\ ~NoFlightYet.executionDone
    BY DEF NoFlightYet, NewFlight
  <1>4. TableTypes
    BY <1>1, <1>2 DEF TableTypes, TaskStates
  <1>5. JoinedFlight /\ Fresh
    BY <1>3 DEF JoinedFlight, NewRequest, Fresh
  <1>6. Owned = {} /\ Answered = {} /\ LiveFlights = {}
    BY <1>3 DEF Owned, Answered, LiveFlights
  <1>7. Cardinality({}) = 0
    BY FS_EmptySet
  <1>8. /\ \A a \in Auths : SharingAuth({}, a) = {}
        /\ \A s \in Sessions : SharingSession({}, s) = {}
    BY DEF SharingAuth, SharingSession
  <1>9. EntryBudget
    <2>1. Owned \cup Answered = {}
      BY <1>6
    <2> QED BY <2>1, <1>7, <1>8, Zenon DEF EntryBudget
  <1>10. OwnerBudget /\ OwnerIdentity /\ Exclusive
    BY <1>6, <1>7, <1>8, Zenon DEF OwnerBudget, OwnerIdentity, Exclusive
  <1>11. HandOffIsFinal /\ CounterTypes
    BY <1>3 DEF HandOffIsFinal, CounterTypes
  <1> QED BY <1>4, <1>5, <1>9, <1>10, <1>11 DEF IInv, Typed, Core

(* Every step keeps it. *)
LEMMA NextIInv ==
  ASSUME IInv, [Next]_vars
  PROVE  IInv'
  <1>1. Typed'
    BY TypedInv DEF IInv
  <1>2. Core'
    BY <1>1, CoreInv DEF IInv, Typed
  <1>3. Fresh'
    BY FreshInv DEF IInv
  <1> QED BY <1>1, <1>2, <1>3 DEF IInv

(* It holds in every reachable state of the ledger. *)
THEOREM Invariance == Spec => []IInv
  <1>1. Init => IInv
    BY InitIInv
  <1>2. IInv /\ [Next]_vars => IInv'
    BY NextIInv
  <1> QED BY <1>1, <1>2, PTL DEF Spec

(* The ledger is type correct; in particular no release of the fair budget
   or of the flight limit ever underflows into its panic. *)
THEOREM TypeCorrect == Spec => []TypeOK
  <1>1. IInv => TypeOK
    BY DEF IInv, Typed, Core, TypeOK
  <1> QED BY <1>1, Invariance, PTL

(* A request key never has both an in-flight owner and a receipt, so acquire,
   completeOnce and Abort move it between exactly three states. *)
THEOREM ExclusiveHolds == Spec => []Exclusive
  <1>1. IInv => Exclusive
    BY DEF IInv, Core
  <1> QED BY <1>1, Invariance, PTL

(* A lease that compares equal to its key's pending flight is the live owner,
   and every live flight is found at its key: the pointer comparisons of
   HandOff, CompleteExecution and Abort are exact. *)
THEOREM OwnerIdentityHolds == Spec => []OwnerIdentity
  <1>1. IInv => OwnerIdentity
    BY DEF IInv, Core
  <1> QED BY <1>1, Invariance, PTL

(* The fair budget is charged once for every flight or receipt and for nothing
   else, globally, per auth key and per session, in every interleaving of
   Complete, Abort, ACK, expiry and the end of sessions. *)
THEOREM EntryBudgetHolds == Spec => []EntryBudget
  <1>1. IInv => EntryBudget
    BY DEF IInv, Core
  <1> QED BY <1>1, Invariance, PTL

(* The flight limit, the pending owners per auth key and the set of active
   admissions follow the pending table exactly. *)
THEOREM OwnerBudgetHolds == Spec => []OwnerBudget
  <1>1. IInv => OwnerBudget
    BY DEF IInv, Core
  <1> QED BY <1>1, Invariance, PTL

(* A handed-off flight is only ever closed by Complete: the release of the
   inbound task never aborts what egress owns. *)
THEOREM HandOffIsFinalHolds == Spec => []HandOffIsFinal
  <1>1. IInv => HandOffIsFinal
    BY DEF IInv, Core
  <1> QED BY <1>1, Invariance, PTL

=============================================================================
