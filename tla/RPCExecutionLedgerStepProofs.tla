-------------------- MODULE RPCExecutionLedgerStepProofs --------------------
(***************************************************************************)
(* What the steps of the execution ledger may do, proved from its          *)
(* inductive invariant: the hard limits, the action properties, the        *)
(* refinement of RPCOnce, and the subscriber budget, which charges every   *)
(* scope for the callbacks its flights retain.                             *)
(***************************************************************************)
EXTENDS RPCExecutionLedgerCallbackProofs

(* Every leaf that names no prover: Zenon, then SMT, which is tried again as Z3
   when the translation ran out of time. *)
USE ZenonT(10), SMTT(30), Z3T(30)

(* The only actions that write a flight. *)
LEMMA FlightWriters ==
  ASSUME [Next]_vars
  PROVE  \/ flight' = flight
         \/ \E r \in Requests : Request(r) \/ Retry(r) \/ SubscribeOpen(r)
         \/ \E p \in Requests : CompleteFlight(p)
         \/ \E f \in Requests : TaskStep(f)
         \/ \E k \in Keys : Acknowledge(k)
  BY Zenon
     DEF Next, RequestStep, PubStep, ReapStep, SubscribeClosed, FinishWait,
         AbandonWaiter, RejectUnclaimed, ObserveDependency, Callback, Send,
         ReplayCheck, CompleteLate, CompleteOwnerless, ExpireReceipts,
         DropExpired, AckFrame, ReceiptTTL, ReleaseLogicalSession,
         ForgetSession, vars, ledgerVars

-----------------------------------------------------------------------------
(* The execution outcome is published once. *)

(* A known execution outcome stays what it is. *)
OutcomeKept == \A f \in Requests :
  flight[f].executionDone => flight'[f].executionOK = flight[f].executionOK

(* Closing a flight settles only an open outcome. *)
LEMMA CloseKeepsOutcome ==
  ASSUME TableTypes, NEW f \in Requests, NEW ok, CloseFlight(f, ok)
  PROVE  OutcomeKept
  <1>1. ClosedFlight(f, ok).executionOK
          = (flight[f].executionDone /\ flight[f].executionOK)
    BY DEF ClosedFlight, FinalOutcome
  <1>2. flight[f] \in FlightRecords
    BY DEF TableTypes
  <1>3. flight[f].executionDone =>
          ClosedFlight(f, ok).executionOK = flight[f].executionOK
    BY <1>1, <1>2 DEF FlightRecords
  <1> QED BY <1>3 DEF OutcomeKept, CloseFlight, TableTypes

(* CompleteExecution writes only an open outcome. *)
LEMMA ExecutionKeepsOutcome ==
  ASSUME TableTypes, NEW f \in Requests, NEW ok, CompleteExecution(f, ok)
  PROVE  OutcomeKept
  BY DEF OutcomeKept, CompleteExecution, OutcomeOpen, ExecutedFlight, TableTypes

(* A new flight takes the place of none. *)
LEMMA AcquireKeepsOutcome ==
  ASSUME TableTypes, Fresh, NEW r \in Requests, req[r].pc \in Unclaimed,
         NEW reclaimed, Acquire(r, reclaimed)
  PROVE  OutcomeKept
  <1>1. ~flight[r].executionDone
    BY DEF Fresh
  <1>2. flight' = flight \/ flight' = [flight EXCEPT ![r] = NewFlight]
    BY Zenon
       DEF Acquire, AcquireReceipt, AcquireFlight, AcquireCapacity,
           AcquireOwner
  <1> QED BY <1>1, <1>2 DEF OutcomeKept, TableTypes

(* No step changes a known outcome. *)
LEMMA StepKeepsOutcome ==
  ASSUME IInv, [Next]_vars
  PROVE  OutcomeKept
  <1> USE DEF IInv, Typed
  <1>1. ASSUME NEW r \in Requests, Request(r) \/ Retry(r)
        PROVE  OutcomeKept
    <2>1. req[r].pc \in Unclaimed /\ (Acquire(r, FALSE) \/ Acquire(r, TRUE))
      BY <1>1, Zenon DEF Request, Retry, Unclaimed
    <2> QED BY <2>1, AcquireKeepsOutcome, Zenon
  <1>2. ASSUME NEW r \in Requests, SubscribeOpen(r)
        PROVE  OutcomeKept
    <2>1. \/ flight' = flight
          \/ \E x, y, n : flight' = [flight EXCEPT ![req[r].flight] =
                                       SubscribedFlight(req[r].flight, r, x, y, n)]
      BY <1>2 DEF SubscribeOpen
    <2>2. \A x, y, n : SubscribedFlight(req[r].flight, r, x, y, n).executionOK
                         = flight[req[r].flight].executionOK
      BY ZenonT(30) DEF SubscribedFlight
    <2>3. DOMAIN flight = Requests
      BY ZenonT(30) DEF TableTypes
    <2>4. ASSUME NEW x, NEW y, NEW n, NEW v, v = SubscribedFlight(req[r].flight, r, x, y, n),
                 flight' = [flight EXCEPT ![req[r].flight] = v]
          PROVE  \A g \in Requests : flight'[g].executionOK = flight[g].executionOK
      BY <2>2, <2>3, <2>4, ZenonT(30)
    <2> QED BY <2>1, <2>4 DEF OutcomeKept
  <1>3. ASSUME NEW p \in Requests, CompleteFlight(p)
        PROVE  OutcomeKept
    <2>1. pending[KeyOf[p]] \in Requests /\ CloseFlight(pending[KeyOf[p]], TRUE)
      BY <1>3, KeyAssumption, Zenon DEF CompleteFlight, TableTypes
    <2> QED BY <2>1, CloseKeepsOutcome, Zenon
  <1>4. ASSUME NEW f \in Requests, TaskStep(f)
        PROVE  OutcomeKept
    <2>1. CASE RejectOwner(f) \/ FailGate(f)
      BY <2>1, ExecutionKeepsOutcome, Zenon DEF RejectOwner, FailGate
    <2>2. ASSUME NEW ok \in BOOLEAN, NEW reported \in BOOLEAN,
                 FinishHandler(f, ok, reported)
          PROVE  OutcomeKept
      BY <2>2, ExecutionKeepsOutcome DEF FinishHandler
    <2>3. CASE Publish(f)
      <3>1. flight[f] \in FlightRecords
        BY DEF TableTypes
      <3>2. HandedOffFlight(f).executionOK = flight[f].executionOK
        BY <3>1 DEF HandedOffFlight, FlightRecords
      <3> QED BY <2>3, <3>2 DEF Publish, OutcomeKept, TableTypes
    <2>4. CASE Abort(f)
      <3>1. CASE CloseFlight(f, FALSE)
        BY <3>1, CloseKeepsOutcome, Zenon
      <3>2. CASE flight' = flight
        BY <3>2 DEF OutcomeKept
      <3> QED BY <2>4, <3>1, <3>2, Zenon DEF Abort
    <2>5. CASE StartHandler(f) \/ DropTask(f) \/ QueueTimeout(f)
               \/ \E ok \in BOOLEAN : CancelHandler(f, ok)
      BY <2>5 DEF StartHandler, DropTask, QueueTimeout, CancelHandler,
                  ledgerVars, OutcomeKept
    <2> QED BY <1>4, <2>1, <2>2, <2>3, <2>4, <2>5 DEF TaskStep
  <1>5. ASSUME NEW k \in Keys, Acknowledge(k)
        PROVE  OutcomeKept
    <2> DEFINE f == pending[k]
    <2>1. CASE flight' = flight
      BY <2>1 DEF OutcomeKept
    <2>2. CASE f # NoFlight
               /\ flight' = [flight EXCEPT ![f] = AcknowledgedFlight(f)]
      <3>1. f \in Requests /\ flight[f] \in FlightRecords
        BY <2>2 DEF TableTypes
      <3>2. AcknowledgedFlight(f).executionOK = flight[f].executionOK
        BY <3>1 DEF AcknowledgedFlight, FlightRecords
      <3> HIDE DEF f
      <3> QED BY <2>2, <3>1, <3>2 DEF OutcomeKept, TableTypes
    <2> QED BY <1>5, <2>1, <2>2 DEF Acknowledge
  <1>6. CASE flight' = flight
    BY <1>6 DEF OutcomeKept
  <1>7. \/ flight' = flight
        \/ \E r \in Requests : Request(r) \/ Retry(r) \/ SubscribeOpen(r)
        \/ \E p \in Requests : CompleteFlight(p)
        \/ \E f \in Requests : TaskStep(f)
        \/ \E k \in Keys : Acknowledge(k)
    BY FlightWriters
  <1> QED BY <1>1, <1>2, <1>3, <1>4, <1>5, <1>6, <1>7

(* CompleteExecution, Complete and Abort never change an execution outcome
   that was published: the first one wins, whoever races for it. *)
THEOREM OutcomeImmutableHolds == Spec => OutcomeImmutable
  <1>1. IInv /\ [Next]_vars =>
          [\A f \in Requests : flight[f].executionDone =>
             flight'[f].executionOK = flight[f].executionOK]_vars
    BY StepKeepsOutcome DEF OutcomeKept
  <1> QED BY <1>1, Invariance, PTL DEF Spec, OutcomeImmutable

-----------------------------------------------------------------------------
(* A result acknowledged before its flight closed leaves no receipt. *)

(* A live, acknowledged flight that this step closes leaves no receipt. *)
AckKept == \A f \in LiveFlights :
  flight[f].acknowledged /\ flight'[f].live = "closed"
    => receipt'[KeyOf[f]] = NoReceipt

(* A step that closes nothing resurrects nothing. *)
LEMMA SameFlightsKeepAck ==
  ASSUME SameFlights
  PROVE  AckKept
  BY DEF SameFlights, AckKept, LiveFlights

(* acquire closes nothing. *)
LEMMA AcquireKeepsAck ==
  ASSUME TableTypes, NEW r \in Requests, NEW reclaimed, Acquire(r, reclaimed)
  PROVE  AckKept
  <1>1. flight' = flight \/ flight' = [flight EXCEPT ![r] = NewFlight]
    BY Zenon
       DEF Acquire, AcquireReceipt, AcquireFlight, AcquireCapacity,
           AcquireOwner
  <1>2. NewFlight.live = "pending"
    BY DEF NewFlight
  <1> QED BY <1>1, <1>2 DEF AckKept, LiveFlights, TableTypes

(* completeOnce remembers no acknowledged flight. *)
LEMMA CompleteKeepsAck ==
  ASSUME TableTypes, Core, NEW p \in Requests, CompleteFlight(p)
  PROVE  AckKept
  <1> DEFINE k == KeyOf[p]
             f == pending[k]
  <1>1. k \in Keys /\ f \in Requests /\ KeyOf[f] = k
    BY KeyAssumption DEF CompleteFlight, TableTypes, Core, OwnerIdentity, Owned
  <1>2. \A g \in Requests : g # f => flight'[g] = flight[g]
    BY <1>1 DEF CompleteFlight, CloseFlight, TableTypes
  <1>3. flight[f].acknowledged => receipt'[k] = NoReceipt
    BY <1>1 DEF CompleteFlight, Remembered, Swept
  <1> QED BY <1>1, <1>2, <1>3 DEF AckKept, LiveFlights

(* Abort leaves no receipt, since its key had none. *)
LEMMA AbortKeepsAck ==
  ASSUME TableTypes, Core, NEW f \in Requests, Abort(f)
  PROVE  AckKept
  <1>1. CASE MayAbort(f)
    <2>1. KeyOf[f] \in Owned /\ receipt' = receipt
      BY <1>1, KeyAssumption, NullAssumption DEF MayAbort, Owned, Abort
    <2>2. receipt'[KeyOf[f]] = NoReceipt
      BY <2>1 DEF Core, Exclusive, Owned, Answered
    <2>3. \A g \in Requests : g # f => flight'[g] = flight[g]
      BY <1>1 DEF Abort, CloseFlight, TableTypes
    <2> QED BY <2>2, <2>3 DEF AckKept, LiveFlights
  <1>2. CASE ~MayAbort(f)
    BY <1>2 DEF Abort, AckKept, LiveFlights
  <1> QED BY <1>1, <1>2

(* No step resurrects an acknowledged result. *)
LEMMA StepKeepsAck ==
  ASSUME IInv, [Next]_vars
  PROVE  AckKept
  <1> USE DEF IInv, Typed
  <1>1. ASSUME NEW r \in Requests, Request(r) \/ Retry(r)
        PROVE  AckKept
    BY <1>1, AcquireKeepsAck, Zenon DEF Request, Retry
  <1>2. ASSUME NEW r \in Requests, SubscribeOpen(r)
        PROVE  AckKept
    <2>1. req[r].flight \in Requests
      BY <1>2 DEF SubscribeOpen, JoinedFlight
    <2>2. SameFlights
      BY <1>2, <2>1, SubscribeFlights DEF SameFlights
    <2> QED BY <2>2, SameFlightsKeepAck
  <1>3. ASSUME NEW p \in Requests, CompleteFlight(p)
        PROVE  AckKept
    BY <1>3, CompleteKeepsAck
  <1>4. ASSUME NEW f \in Requests, TaskStep(f)
        PROVE  AckKept
    <2>1. CASE RejectOwner(f) \/ FailGate(f)
      BY <2>1, CompleteExecutionCore, SameFlightsKeepAck, Zenon
         DEF RejectOwner, FailGate
    <2>2. ASSUME NEW ok \in BOOLEAN, NEW reported \in BOOLEAN,
                 FinishHandler(f, ok, reported)
          PROVE  AckKept
      BY <2>2, CompleteExecutionCore, SameFlightsKeepAck DEF FinishHandler
    <2>3. CASE Publish(f)
      <3>1. flight[f] \in FlightRecords
        BY DEF TableTypes
      <3>2. HandedOffFlight(f).live = flight[f].live
        BY <3>1 DEF HandedOffFlight, FlightRecords
      <3>3. \A g \in Requests : flight'[g].live = flight[g].live
        BY <2>3, <3>2 DEF Publish, TableTypes
      <3> QED BY <3>3 DEF AckKept, LiveFlights
    <2>4. CASE Abort(f)
      BY <2>4, AbortKeepsAck
    <2>5. CASE flight' = flight
      BY <2>5 DEF AckKept, LiveFlights
    <2> QED
      BY <1>4, <2>1, <2>2, <2>3, <2>4, <2>5
         DEF TaskStep, StartHandler, DropTask, QueueTimeout, CancelHandler,
             ledgerVars
  <1>5. ASSUME NEW k \in Keys, Acknowledge(k)
        PROVE  AckKept
    <2> DEFINE f == pending[k]
    <2>1. CASE flight' = flight
      BY <2>1 DEF AckKept, LiveFlights
    <2>2. CASE f # NoFlight
               /\ flight' = [flight EXCEPT ![f] = AcknowledgedFlight(f)]
      <3>1. f \in Requests /\ flight[f] \in FlightRecords
        BY <2>2 DEF TableTypes
      <3>2. AcknowledgedFlight(f).live = flight[f].live
        BY <3>1 DEF AcknowledgedFlight, FlightRecords
      <3> HIDE DEF f
      <3>3. \A g \in Requests : flight'[g].live = flight[g].live
        BY <2>2, <3>1, <3>2 DEF TableTypes
      <3> QED BY <3>3 DEF AckKept, LiveFlights
    <2> QED BY <1>5, <2>1, <2>2 DEF Acknowledge
  <1>6. CASE flight' = flight
    BY <1>6 DEF AckKept, LiveFlights
  <1>7. \/ flight' = flight
        \/ \E r \in Requests : Request(r) \/ Retry(r) \/ SubscribeOpen(r)
        \/ \E p \in Requests : CompleteFlight(p)
        \/ \E f \in Requests : TaskStep(f)
        \/ \E k \in Keys : Acknowledge(k)
    BY FlightWriters
  <1> QED BY <1>1, <1>2, <1>3, <1>4, <1>5, <1>6, <1>7

(* An ACK that overtakes Complete is not undone by it: the flight closes
   without leaving a receipt. *)
THEOREM AckNotResurrectedHolds == Spec => AckNotResurrected
  <1>1. IInv /\ [Next]_vars =>
          [\A f \in LiveFlights :
             flight[f].acknowledged /\ flight'[f].live = "closed"
               => receipt'[KeyOf[f]] = NoReceipt]_vars
    BY StepKeepsAck DEF AckKept
  <1> QED BY <1>1, Invariance, PTL DEF Spec, AckNotResurrected

-----------------------------------------------------------------------------
(* The ledger implements RPCOnce. *)

(* The status of every key, as RPCOnce sees it. *)
Bar == [k \in Keys |-> StatusOf(k)]

(* The status function at a key. *)
LEMMA BarOf ==
  /\ \A k \in Keys : Bar[k] = StatusOf(k) /\ Bar'[k] = StatusOf(k)'
  /\ DOMAIN Bar = Keys /\ DOMAIN Bar' = Keys
  BY DEF Bar

(* A step that writes neither table is a stutter of RPCOnce. *)
LEMMA BarStutter ==
  ASSUME pending' = pending, receipt' = receipt
  PROVE  Bar' = Bar
  BY DEF Bar, StatusOf

(* Removing receipts is Forget of the ones that had not expired. *)
LEMMA BarForget ==
  ASSUME Core, NEW gone \in SUBSET Answered, pending' = pending,
         receipt' = Swept(gone)
  PROVE  Once!Next
  <1> DEFINE S == {k \in gone : ~receipt[k].expired}
  <1>1. S \in SUBSET Keys
    BY DEF Answered
  <1>2. \A k \in S : Bar[k] = "answered"
    BY <1>1, BarOf DEF Core, Exclusive, Owned, Answered, StatusOf
  <1>3. \A k \in Keys : Bar'[k] = IF k \in S THEN "idle" ELSE Bar[k]
    BY BarOf DEF Core, Exclusive, Owned, Answered, StatusOf, Swept
  <1>4. Bar' = [k \in Keys |-> IF k \in S THEN "idle" ELSE Bar[k]]
    BY <1>3 DEF Bar
  <1>5. Once!Forget(S)
    BY <1>2, <1>4 DEF Once!Forget, Bar
  <1> HIDE DEF S
  <1> QED BY <1>1, <1>5 DEF Once!Next

(* A step that changes the status of one key. *)
LEMMA BarBecome ==
  ASSUME NEW k \in Keys, NEW from, NEW to, StatusOf(k) = from,
         StatusOf(k)' = to,
         \A x \in Keys \ {k} : StatusOf(x)' = StatusOf(x)
  PROVE  Once!Become(k, from, to)
  BY Zenon DEF Once!Become

(* acquire is Start, or Forget of nothing. *)
LEMMA BarAcquire ==
  ASSUME TableTypes, Core, NEW r \in Requests, NEW reclaimed,
         Acquire(r, reclaimed)
  PROVE  Once!Next
  <1> DEFINE k == KeyOf[r]
  <1>1. PICK gone \in SUBSET Expired(ShardOf[k]) :
          \/ AcquireReceipt(r, gone)
          \/ AcquireFlight(r, gone)
          \/ AcquireCapacity(r, gone, reclaimed)
          \/ AcquireOwner(r, gone)
    BY DEF Acquire
  <1>2. gone \in SUBSET Answered /\ k \in Keys
    BY <1>1, ExpiredAnswered, KeyAssumption
  <1>3. CASE pending' = pending /\ receipt' = Swept(gone)
    BY <1>2, <1>3, BarForget
  <1>4. CASE AcquireOwner(r, gone)
    <2>1. \A x \in gone : receipt[x].expired
      BY <1>1 DEF Expired
    <2>2. /\ pending' = [pending EXCEPT ![k] = r]
          /\ receipt' = Swept(gone)
          /\ Vacant(k, gone)
      BY <1>4 DEF AcquireOwner
    <2>3. StatusOf(k) = "idle"
      BY <1>2, <2>1, <2>2 DEF Vacant, Swept, StatusOf
    <2>4. StatusOf(k)' = "running"
      BY <1>2, <2>2, NullAssumption DEF StatusOf, TableTypes
    <2>5. \A x \in Keys \ {k} : StatusOf(x)' = StatusOf(x)
      BY <1>2, <2>1, <2>2 DEF StatusOf, Swept, TableTypes
    <2>6. Once!Start(k)
      <3> HIDE DEF k
      <3> QED BY <1>2, <2>3, <2>4, <2>5, BarBecome DEF Once!Start
    <2> HIDE DEF k
    <2> QED BY <1>2, <2>6 DEF Once!Next
  <1> QED
    BY <1>1, <1>3, <1>4, Zenon
       DEF AcquireReceipt, AcquireFlight, AcquireCapacity

(* completeOnce on a flight is Answer, or Drop after an ACK. *)
LEMMA BarComplete ==
  ASSUME TableTypes, Core, NEW p \in Requests, CompleteFlight(p)
  PROVE  Once!Next
  <1> DEFINE k == KeyOf[p]
             f == pending[k]
             gone == Expired(ShardOf[k])
  <1>1. k \in Keys /\ f \in Requests /\ KeyOf[f] = k /\ f # NoFlight
    BY KeyAssumption DEF CompleteFlight, TableTypes, Core, OwnerIdentity, Owned
  <1>2. \A x \in gone : receipt[x].expired
    BY DEF Expired
  <1>3. pending' = [pending EXCEPT ![k] = NoFlight]
    BY <1>1 DEF CompleteFlight, CloseFlight
  <1>4. receipt' = [Swept(gone) EXCEPT ![k] =
                      IF Remembered(f) THEN NewReceipt(f, pub[p].replayable)
                      ELSE NoReceipt]
    BY DEF CompleteFlight
  <1>5. StatusOf(k) = "running"
    BY <1>1 DEF StatusOf
  <1>6. \A x \in Keys \ {k} : StatusOf(x)' = StatusOf(x)
    <2>1. \A x \in Keys \ {k} : /\ pending'[x] = pending[x]
                                /\ receipt'[x] = Swept(gone)[x]
      BY <1>1, <1>3, <1>4 DEF TableTypes, Swept
    <2> HIDE DEF gone, k
    <2> QED BY <1>2, <2>1 DEF StatusOf, Swept
  <1>7. CASE Remembered(f)
    <2>1. receipt'[k] = NewReceipt(f, pub[p].replayable)
      BY <1>1, <1>4, <1>7 DEF Swept
    <2>2. receipt'[k] \in Receipts
      <3>1. flight[f] \in FlightRecords /\ pub[p] \in PubRecords
        BY <1>1 DEF TableTypes
      <3>2. IdentityOf[f] \in Identities
        BY <1>1, KeyAssumption
      <3>3. /\ flight[f].executionDone \in BOOLEAN
            /\ flight[f].executionOK \in BOOLEAN
            /\ pub[p].replayable \in BOOLEAN
        BY <3>1 DEF FlightRecords, PubRecords
      <3>4. (~pub[p].replayable) \in BOOLEAN
        OBVIOUS
      <3> HIDE DEF k, f
      <3>5. NewReceipt(f, pub[p].replayable) \in Receipts
        BY <3>2, <3>3, <3>4, ZenonT(30) DEF NewReceipt, Receipts
      <3> QED BY <2>1, <3>5
    <2>3. ~receipt'[k].expired
      BY <2>1 DEF NewReceipt
    <2>4. StatusOf(k)' = "answered"
      <3>1. pending \in [Keys -> Requests \cup {NoFlight}]
        BY DEF TableTypes
      <3>2. receipt'[k] # NoReceipt
        BY <2>2, NullAssumption
      <3> HIDE DEF k
      <3>3. pending'[k] = NoFlight
        BY <1>1, <1>3, <3>1
      <3> QED BY <2>3, <3>2, <3>3 DEF StatusOf
    <2>5. Once!Answer(k)
      <3> HIDE DEF k
      <3> QED BY <1>1, <1>5, <1>6, <2>4, BarBecome DEF Once!Answer
    <2> HIDE DEF k
    <2> QED BY <1>1, <2>5 DEF Once!Next
  <1>8. CASE ~Remembered(f)
    <2>1. receipt'[k] = NoReceipt
      BY <1>1, <1>4, <1>8 DEF Swept
    <2>2. StatusOf(k)' = "idle"
      BY <1>1, <1>3, <2>1 DEF StatusOf, TableTypes
    <2>3. Once!Drop(k)
      <3> HIDE DEF k
      <3> QED BY <1>1, <1>5, <1>6, <2>2, BarBecome DEF Once!Drop
    <2> HIDE DEF k
    <2> QED BY <1>1, <2>3 DEF Once!Next
  <1> QED BY <1>7, <1>8

(* completeOnce without a flight is Refuse, or Forget of nothing. *)
LEMMA BarOwnerless ==
  ASSUME TableTypes, Core, NEW p \in Requests, CompleteOwnerless(p)
  PROVE  Once!Next
  <1> DEFINE k == KeyOf[p]
             gone == Expired(ShardOf[k])
             fresh == [identity |-> NoBody, executionKnown |-> FALSE,
                     executionOK |-> FALSE, unavailable |-> ~pub[p].replayable,
                     expired |-> FALSE]
  <1>1. k \in Keys /\ gone \in SUBSET Answered
    BY KeyAssumption, ExpiredAnswered
  <1>2. \A x \in gone : receipt[x].expired
    BY DEF Expired
  <1>3. CASE receipt' = [Swept(gone) EXCEPT ![k] = fresh]
    <2>1. pending' = pending /\ pending[k] = NoFlight /\ Swept(gone)[k] = NoReceipt
      BY Zenon DEF CompleteOwnerless
    <2>2. fresh \in Receipts
      <3>1. pub[p] \in PubRecords
        BY DEF TableTypes
      <3> QED BY <3>1 DEF Receipts, PubRecords, Identities
    <2>3. receipt'[k] = fresh
      BY <1>1, <1>3 DEF Swept
    <2>4. receipt'[k] # NoReceipt /\ ~receipt'[k].expired
      <3>1. ~fresh.expired
        OBVIOUS
      <3> HIDE DEF fresh
      <3> QED BY <2>2, <2>3, <3>1, NullAssumption
    <2>5. StatusOf(k)' = "answered"
      BY <2>1, <2>4 DEF StatusOf
    <2>6. StatusOf(k) = "idle"
      BY <1>1, <1>2, <2>1 DEF StatusOf, Swept
    <2>7. \A x \in Keys \ {k} : StatusOf(x)' = StatusOf(x)
      <3>1. \A x \in Keys \ {k} : receipt'[x] = Swept(gone)[x]
        BY <1>3 DEF Swept
      <3> HIDE DEF gone, k, fresh
      <3> QED BY <1>2, <2>1, <3>1 DEF StatusOf, Swept
    <2>8. Once!Refuse(k)
      <3> HIDE DEF k
      <3> QED BY <1>1, <2>5, <2>6, <2>7, BarBecome DEF Once!Refuse
    <2> HIDE DEF k
    <2> QED BY <1>1, <2>8 DEF Once!Next
  <1>4. CASE receipt' = Swept(gone)
    BY <1>1, <1>4, BarForget DEF CompleteOwnerless
  <1> QED BY <1>3, <1>4, Zenon DEF CompleteOwnerless

(* Abort is Drop, or a stutter when it may not abort. *)
LEMMA BarAbort ==
  ASSUME TableTypes, Core, NEW f \in Requests, Abort(f)
  PROVE  Once!Next \/ Bar' = Bar
  <1>1. CASE MayAbort(f)
    <2> DEFINE k == KeyOf[f]
    <2>1. /\ pending' = [pending EXCEPT ![k] = NoFlight] /\ receipt' = receipt
          /\ pending[k] = f /\ f # NoFlight /\ k \in Keys
      BY <1>1, KeyAssumption, NullAssumption, Zenon DEF Abort, MayAbort, CloseFlight
    <2>2. receipt[k] = NoReceipt
      BY <2>1 DEF Core, Exclusive, Owned, Answered
    <2>3. StatusOf(k) = "running" /\ StatusOf(k)' = "idle"
      BY <2>1, <2>2 DEF StatusOf, TableTypes
    <2>4. \A x \in Keys \ {k} : StatusOf(x)' = StatusOf(x)
      BY <2>1 DEF StatusOf, TableTypes
    <2>5. Once!Drop(k)
      <3> HIDE DEF k
      <3> QED BY <2>1, <2>3, <2>4, BarBecome DEF Once!Drop
    <2> HIDE DEF k
    <2> QED BY <2>1, <2>5 DEF Once!Next
  <1>2. CASE ~MayAbort(f)
    BY <1>2, BarStutter DEF Abort
  <1> QED BY <1>1, <1>2

(* A receipt growing old is Forget. *)
LEMMA BarTTL ==
  ASSUME TableTypes, Core, NEW k \in Keys, ReceiptTTL(k)
  PROVE  Once!Next
  <1>1. receipt[k] \in Receipts /\ receipt[k] # NoReceipt /\ ~receipt[k].expired
    BY DEF ReceiptTTL, TableTypes
  <1>2. pending[k] = NoFlight
    BY <1>1 DEF Core, Exclusive, Owned, Answered
  <1>3. receipt'[k].expired
    BY <1>1 DEF ReceiptTTL, TableTypes, Receipts
  <1>4. pending' = pending /\ \A x \in Keys \ {k} : receipt'[x] = receipt[x]
    BY DEF ReceiptTTL, TableTypes
  <1>5. Bar[k] = "answered"
    BY <1>1, <1>2, BarOf DEF StatusOf
  <1>6. \A x \in Keys : Bar'[x] = IF x \in {k} THEN "idle" ELSE Bar[x]
    BY <1>2, <1>3, <1>4, BarOf DEF StatusOf
  <1>7. Bar' = [x \in Keys |-> IF x \in {k} THEN "idle" ELSE Bar[x]]
    BY <1>6 DEF Bar
  <1>8. Once!Forget({k})
    BY <1>5, <1>7 DEF Once!Forget, Bar
  <1> QED BY <1>8 DEF Once!Next

(* Every step of the ledger is a step of RPCOnce or a stutter. *)
LEMMA BarStep ==
  ASSUME IInv, [Next]_vars
  PROVE  Once!Next \/ Bar' = Bar
  <1> USE DEF IInv, Typed
  <1>1. ASSUME NEW r \in Requests, Request(r) \/ Retry(r)
        PROVE  Once!Next
    BY <1>1, BarAcquire, Zenon DEF Request, Retry
  <1>2. ASSUME NEW p \in Requests, CompleteFlight(p) \/ CompleteOwnerless(p)
        PROVE  Once!Next
    BY <1>2, BarComplete, BarOwnerless
  <1>3. ASSUME NEW p \in Requests, CompleteLate(p)
        PROVE  Once!Next
    BY <1>3, ExpiredAnswered, BarForget DEF CompleteLate, LateReceipt
  <1>4. ASSUME NEW p \in Requests, NEW h \in Shards, ExpireReceipts(p, h)
        PROVE  Once!Next
    BY <1>4, ExpiredAnswered, BarForget DEF ExpireReceipts
  <1>5. ASSUME NEW f \in Requests, Abort(f)
        PROVE  Once!Next \/ Bar' = Bar
    BY <1>5, BarAbort
  <1>6. ASSUME NEW k \in Keys, DropExpired(k)
        PROVE  Once!Next
    <2>1. {k} \in SUBSET Answered
      BY <1>6 DEF DropExpired, Answered
    <2> QED BY <1>6, <2>1, BarForget DEF DropExpired
  <1>7. ASSUME NEW k \in Keys, Acknowledge(k)
        PROVE  Once!Next
    <2> DEFINE gone == Expired(ShardOf[k])
    <2>1. gone \in SUBSET Answered
      BY ExpiredAnswered
    <2>2. CASE Swept(gone)[k] # NoReceipt
      <3>1. gone \cup {k} \in SUBSET Answered
        BY <2>1, <2>2 DEF Swept, Answered
      <3>2. receipt' = Swept(gone \cup {k}) /\ pending' = pending
        BY <1>7, <2>2 DEF Acknowledge
      <3> QED BY <3>1, <3>2, BarForget
    <2>3. CASE Swept(gone)[k] = NoReceipt
      BY <1>7, <2>1, <2>3, BarForget DEF Acknowledge
    <2> QED BY <2>2, <2>3
  <1>8. ASSUME NEW k \in Keys, ReceiptTTL(k)
        PROVE  Once!Next
    BY <1>8, BarTTL
  <1>9. ASSUME NEW s \in Sessions, NEW h \in Shards, ForgetSession(s, h)
        PROVE  Once!Next
    <2> DEFINE gone == {k \in Keys : /\ SessionOf[k] = s /\ ShardOf[k] = h
                                     /\ receipt[k] # NoReceipt}
    <2>1. gone \in SUBSET Answered
      BY DEF Answered
    <2>2. receipt' = Swept(gone) /\ pending' = pending
      BY <1>9 DEF ForgetSession
    <2> HIDE DEF gone
    <2> QED BY <2>1, <2>2, BarForget
  <1>10. CASE pending' = pending /\ receipt' = receipt
    BY <1>10, BarStutter
  <1>11. \/ pending' = pending /\ receipt' = receipt
         \/ \E r \in Requests : Request(r) \/ Retry(r)
         \/ \E p \in Requests :
              CompleteFlight(p) \/ CompleteOwnerless(p) \/ CompleteLate(p)
         \/ \E p \in Requests, h \in Shards : ExpireReceipts(p, h)
         \/ \E f \in Requests : Abort(f)
         \/ \E k \in Keys : DropExpired(k) \/ Acknowledge(k) \/ ReceiptTTL(k)
         \/ \E s \in Sessions, h \in Shards : ForgetSession(s, h)
    BY Zenon
       DEF Next, RequestStep, PubStep, ReapStep, TaskStep, SubscribeOpen,
           SubscribeClosed, FinishWait, AbandonWaiter, RejectUnclaimed,
           ObserveDependency, Callback, Send, ReplayCheck, StartHandler,
           DropTask, QueueTimeout, RejectOwner, FailGate, FinishHandler,
           CancelHandler, Publish, AckFrame, ReleaseLogicalSession, vars,
           ledgerVars
  <1> QED
    BY <1>1, <1>2, <1>3, <1>4, <1>5, <1>6, <1>7, <1>8, <1>9, <1>10, <1>11

(* The ledger implements RPCOnce: at most one execution of a request key at a
   time, and none while the answer of an earlier one is remembered. *)
THEOREM ImplementsOnceHolds == Spec => ImplementsOnce
  <1>1. Init => Once!Init
    BY DEF Init, Once!Init, StatusOf
  <1>2. IInv /\ [Next]_vars => [Once!Next]_Bar
    BY BarStep
  <1> QED BY <1>1, <1>2, Invariance, PTL DEF Spec, ImplementsOnce, Once!Spec, Bar

-----------------------------------------------------------------------------
(* The hard limits. *)

(* The limits on entries. *)
EntryLimits ==
  /\ reservedEntries <= GlobalMaxEntries
  /\ \A a \in Auths : authEntries[a] <= AuthMaxEntries
  /\ \A s \in Sessions : sessionEntries[s] <= SessionMaxEntries

(* The limits on owners. *)
OwnerLimits ==
  /\ flightUsed <= MaxPending
  /\ \A a \in Auths : authPending[a] <= MaxPendingPerAuth

(* Limits is both. *)
LEMMA LimitsSplit == /\ Limits <=> EntryLimits /\ OwnerLimits
                     /\ Limits' <=> EntryLimits' /\ OwnerLimits'
  BY DEF Limits, EntryLimits, OwnerLimits

(* The counts Rebalance uses are naturals. *)
LEMMA SharingSize ==
  ASSUME NEW G \in SUBSET Keys
  PROVE  /\ Cardinality(G) \in Nat
         /\ \A a \in Auths : Cardinality(SharingAuth(G, a)) \in Nat
         /\ \A s \in Sessions : Cardinality(SharingSession(G, s)) \in Nat
  <1>1. ASSUME NEW S \in SUBSET Keys
        PROVE  Cardinality(S) \in Nat
    BY KeyAssumption, FS_Subset, FS_CardinalityType
  <1>2. /\ \A a \in Auths : SharingAuth(G, a) \in SUBSET Keys
        /\ \A s \in Sessions : SharingSession(G, s) \in SUBSET Keys
    BY DEF SharingAuth, SharingSession
  <1> QED BY <1>1, <1>2

(* Nothing is shared of the empty set. *)
LEMMA SharingNone ==
  /\ Cardinality({}) = 0
  /\ \A a \in Auths : Cardinality(SharingAuth({}, a)) = 0
  /\ \A s \in Sessions : Cardinality(SharingSession({}, s)) = 0
  <1>1. /\ \A a \in Auths : SharingAuth({}, a) = {}
        /\ \A s \in Sessions : SharingSession({}, s) = {}
    BY DEF SharingAuth, SharingSession
  <1> QED BY <1>1, FS_EmptySet

(* One key counts once, in its own auth key and session. *)
LEMMA SharingOne ==
  ASSUME NEW k \in Keys
  PROVE  /\ Cardinality({k}) = 1
         /\ \A a \in Auths : Cardinality(SharingAuth({k}, a))
                               = IF AuthOf[k] = a THEN 1 ELSE 0
         /\ \A s \in Sessions : Cardinality(SharingSession({k}, s))
                                  = IF SessionOf[k] = s THEN 1 ELSE 0
  <1>1. /\ \A a \in Auths : SharingAuth({k}, a)
                              = IF AuthOf[k] = a THEN {k} ELSE {}
        /\ \A s \in Sessions : SharingSession({k}, s)
                                 = IF SessionOf[k] = s THEN {k} ELSE {}
    BY DEF SharingAuth, SharingSession
  <1>2. Cardinality({k}) = 1 /\ Cardinality({}) = 0
    BY FS_EmptySet, FS_Singleton
  <1> QED BY <1>1, <1>2

(* Returning entries keeps the limits. *)
LEMMA SweepLimits ==
  ASSUME CounterTypes, EntryLimits, NEW G \in SUBSET Keys, Rebalance(G, {})
  PROVE  EntryLimits'
  <1>1. reservedEntries' <= GlobalMaxEntries
    BY SharingSize, SharingNone, CapacityAssumption
       DEF CounterTypes, EntryLimits, Rebalance
  <1>2. ASSUME NEW a \in Auths
        PROVE  authEntries'[a] <= AuthMaxEntries
    <2>1. authEntries'[a] = authEntries[a] - Cardinality(SharingAuth(G, a)) + 0
      BY SharingNone DEF Rebalance
    <2>2. Cardinality(SharingAuth(G, a)) \in Nat
      BY SharingSize
    <2> QED BY <2>1, <2>2, CapacityAssumption DEF CounterTypes, EntryLimits
  <1>3. ASSUME NEW s \in Sessions
        PROVE  sessionEntries'[s] <= SessionMaxEntries
    <2>1. sessionEntries'[s]
            = sessionEntries[s] - Cardinality(SharingSession(G, s)) + 0
      BY SharingNone DEF Rebalance
    <2>2. Cardinality(SharingSession(G, s)) \in Nat
      BY SharingSize
    <2> QED BY <2>1, <2>2, CapacityAssumption DEF CounterTypes, EntryLimits
  <1> QED BY <1>1, <1>2, <1>3 DEF EntryLimits

(* So does taking one that CanReserve allowed. *)
LEMMA ReserveLimits ==
  ASSUME CounterTypes, EntryLimits, NEW G \in SUBSET Keys, NEW k \in Keys,
         NEW owner, CanReserve(k, owner, G), Rebalance(G, {k})
  PROVE  EntryLimits'
  <1>1. reservedEntries' <= GlobalMaxEntries
    <2>1. Within(reservedEntries - Cardinality(G), 1, GlobalMaxEntries)
      BY DEF CanReserve
    <2>2. reservedEntries' = reservedEntries - Cardinality(G) + 1
      BY SharingOne DEF Rebalance
    <2>3. Cardinality(G) \in Nat /\ reservedEntries \in Nat
      BY SharingSize DEF CounterTypes
    <2> QED BY <2>1, <2>2, <2>3, CapacityAssumption DEF Within
  <1>2. ASSUME NEW a \in Auths
        PROVE  authEntries'[a] <= AuthMaxEntries
    <2>1. authEntries'[a] = authEntries[a] - Cardinality(SharingAuth(G, a))
                              + (IF AuthOf[k] = a THEN 1 ELSE 0)
      BY SharingOne DEF Rebalance
    <2>2. Cardinality(SharingAuth(G, a)) \in Nat /\ authEntries[a] \in Nat
      BY SharingSize DEF CounterTypes
    <2>3. CASE AuthOf[k] = a
      <3>1. Within(authEntries[a] - Cardinality(SharingAuth(G, a)), 1,
                   AuthMaxEntries)
        BY <2>3 DEF CanReserve
      <3> QED BY <2>1, <2>2, <2>3, <3>1, CapacityAssumption DEF Within
    <2>4. CASE AuthOf[k] # a
      <3>1. authEntries[a] <= AuthMaxEntries
        BY DEF EntryLimits
      <3>2. AuthMaxEntries \in Nat
        BY CapacityAssumption
      <3> DEFINE c == Cardinality(SharingAuth(G, a))
                 e == authEntries[a]
      <3>3. authEntries'[a] = e - c + 0 /\ c \in Nat /\ e \in Nat
        BY <2>1, <2>2, <2>4
      <3> HIDE DEF c, e
      <3>4. e - c + 0 <= e
        BY <3>3
      <3> QED BY <3>1, <3>2, <3>3, <3>4 DEF e
    <2> QED BY <2>3, <2>4
  <1>3. ASSUME NEW s \in Sessions
        PROVE  sessionEntries'[s] <= SessionMaxEntries
    <2>1. sessionEntries'[s]
            = sessionEntries[s] - Cardinality(SharingSession(G, s))
                + (IF SessionOf[k] = s THEN 1 ELSE 0)
      BY SharingOne DEF Rebalance
    <2>2. Cardinality(SharingSession(G, s)) \in Nat /\ sessionEntries[s] \in Nat
      BY SharingSize, ZenonT(30) DEF CounterTypes
    <2>3. CASE SessionOf[k] = s
      <3>1. Within(sessionEntries[s] - Cardinality(SharingSession(G, s)), 1,
                   SessionMaxEntries)
        BY <2>3 DEF CanReserve
      <3> QED BY <2>1, <2>2, <2>3, <3>1, CapacityAssumption DEF Within
    <2>4. CASE SessionOf[k] # s
      BY <2>1, <2>2, <2>4, CapacityAssumption DEF EntryLimits
    <2> QED BY <2>3, <2>4
  <1> QED BY <1>1, <1>2, <1>3 DEF EntryLimits

(* Closing a flight returns its owner slots. *)
LEMMA CloseLimits ==
  ASSUME CounterTypes, OwnerLimits, NEW f \in Requests, NEW ok,
         CloseFlight(f, ok)
  PROVE  OwnerLimits'
  <1>1. flightUsed' = flightUsed - 1 /\ PendingDelta(KeyOf[f], -1)
    BY DEF CloseFlight
  <1>2. \A a \in Auths : authPending'[a] \in {authPending[a], authPending[a] - 1}
    BY <1>1 DEF PendingDelta, CounterTypes
  <1> QED
    BY <1>1, <1>2, CapacityAssumption DEF OwnerLimits, CounterTypes

(* acquire keeps the limits. *)
LEMMA AcquireLimits ==
  ASSUME CounterTypes, Limits, NEW r \in Requests, NEW reclaimed,
         Acquire(r, reclaimed)
  PROVE  Limits'
  <1> DEFINE k == KeyOf[r]
  <1>1. PICK gone \in SUBSET Expired(ShardOf[k]) :
          \/ AcquireReceipt(r, gone)
          \/ AcquireFlight(r, gone)
          \/ AcquireCapacity(r, gone, reclaimed)
          \/ AcquireOwner(r, gone)
    BY DEF Acquire
  <1>2. gone \in SUBSET Keys /\ k \in Keys /\ EntryLimits /\ OwnerLimits
    BY <1>1, KeyAssumption, LimitsSplit DEF Expired
  <1>3. CASE Rebalance(gone, {}) /\ UNCHANGED <<flightUsed, authPending>>
    <2>1. EntryLimits'
      BY <1>2, <1>3, SweepLimits
    <2>2. OwnerLimits'
      BY <1>2, <1>3 DEF OwnerLimits
    <2> QED BY <2>1, <2>2, LimitsSplit
  <1>4. CASE AcquireOwner(r, gone)
    <2>1. CanReserve(k, TRUE, gone) /\ Rebalance(gone, {k})
      BY <1>4, Zenon DEF AcquireOwner
    <2>2. EntryLimits'
      <3> DEFINE owner == TRUE
      <3> HIDE DEF owner, k
      <3> QED BY <1>2, <2>1, ReserveLimits, ZenonT(30) DEF owner
    <2>3. Within(flightUsed, 1, MaxPending) /\ flightUsed' = flightUsed + 1
      BY <1>4 DEF AcquireOwner
    <2>4. Within(authPending[AuthOf[k]], 1, MaxPendingPerAuth)
      BY <2>1, Zenon DEF CanReserve
    <2>5. authPending' = [authPending EXCEPT ![AuthOf[k]] = @ + 1]
      BY <1>4, Zenon DEF AcquireOwner, PendingDelta
    <2>6. OwnerLimits'
      <3>1. \A a \in Auths : authPending'[a] <= MaxPendingPerAuth
        <4>1. MaxPendingPerAuth \in Nat /\ authPending \in [Auths -> Nat]
          BY CapacityAssumption DEF CounterTypes
        <4>2. \A a \in Auths : authPending[a] <= MaxPendingPerAuth
          BY <1>2 DEF OwnerLimits
        <4>3. authPending[AuthOf[k]] <= MaxPendingPerAuth - 1
          BY <2>4 DEF Within
        <4>4. ASSUME NEW a \in Auths
              PROVE  authPending'[a] <= MaxPendingPerAuth
          <5> DEFINE n == authPending[a]
          <5>1. n \in Nat /\ n <= MaxPendingPerAuth
            BY <4>1, <4>2
          <5>2. CASE a = AuthOf[k]
            <6>1. authPending'[a] = n + 1
              BY <2>5, <4>1, <5>2
            <6>2. n <= MaxPendingPerAuth - 1
              BY <4>3, <5>2
            <6> HIDE DEF n
            <6> QED BY <4>1, <5>1, <6>1, <6>2
          <5>3. CASE a # AuthOf[k]
            <6>1. authPending'[a] = n
              BY <2>5, <4>1, <5>3
            <6> QED BY <5>1, <6>1
          <5> QED BY <5>2, <5>3
        <4> QED BY <4>4, Zenon
      <3>2. flightUsed' <= MaxPending
        BY <2>3, CapacityAssumption DEF Within, CounterTypes
      <3> QED BY <3>1, <3>2 DEF OwnerLimits
    <2> QED BY <2>2, <2>6, LimitsSplit
  <1> QED
    BY <1>1, <1>3, <1>4, Zenon
       DEF AcquireReceipt, AcquireFlight, AcquireCapacity

(* A step that only removes receipts keeps the limits. *)
LEMMA SweptLimits ==
  ASSUME CounterTypes, Limits, NEW G \in SUBSET Keys, Rebalance(G, {}),
         UNCHANGED <<flightUsed, authPending>>
  PROVE  Limits'
  <1>1. EntryLimits'
    BY SweepLimits, LimitsSplit
  <1>2. OwnerLimits'
    BY LimitsSplit DEF OwnerLimits
  <1> QED BY <1>1, <1>2, LimitsSplit

(* The steps of a publication keep the limits. *)
LEMMA PubLimits ==
  ASSUME TableTypes, Core, Limits, NEW p \in Requests, PubStep(p)
  PROVE  Limits'
  <1> DEFINE k == KeyOf[p]
             gone == Expired(ShardOf[k])
  <1>1. CounterTypes /\ k \in Keys /\ gone \in SUBSET Keys
    BY KeyAssumption DEF Core, Expired
  <1>2. CASE CompleteFlight(p)
    <2>1. pending[k] \in Requests /\ CloseFlight(pending[k], TRUE)
      BY <1>1, <1>2, Zenon DEF CompleteFlight, TableTypes
    <2>2. \E G \in SUBSET Keys : Rebalance(G, {})
      <3>1. CASE Rebalance(gone, {})
        BY <1>1, <3>1
      <3>2. CASE Rebalance(gone \cup {k}, {})
        <4>1. gone \cup {k} \in SUBSET Keys
          BY <1>1
        <4> QED BY <3>2, <4>1
      <3> QED BY <1>2, <3>1, <3>2, Zenon DEF CompleteFlight
    <2>3. EntryLimits'
      BY <1>1, <2>2, SweepLimits, LimitsSplit
    <2>4. OwnerLimits'
      BY <1>1, <2>1, CloseLimits, LimitsSplit, ZenonT(30)
    <2> QED BY <2>3, <2>4, LimitsSplit
  <1>3. CASE CompleteLate(p)
    BY <1>1, <1>3, SweptLimits DEF CompleteLate
  <1>4. CASE CompleteOwnerless(p)
    <2>1. UNCHANGED <<flightUsed, authPending>>
      BY <1>4, Zenon DEF CompleteOwnerless
    <2>2. CASE CanReserve(k, FALSE, gone) /\ Rebalance(gone, {k})
      <3>1. EntryLimits'
        <4> DEFINE owner == FALSE
        <4> HIDE DEF owner, k, gone
        <4> QED BY <1>1, <2>2, ReserveLimits, LimitsSplit, Zenon DEF owner
      <3>2. OwnerLimits'
        BY <2>1, LimitsSplit DEF OwnerLimits
      <3> QED BY <3>1, <3>2, LimitsSplit
    <2>3. CASE Rebalance(gone, {})
      BY <1>1, <2>1, <2>3, SweptLimits
    <2> QED BY <1>4, <2>2, <2>3, Zenon DEF CompleteOwnerless
  <1>5. CASE Send(p) \/ ReplayCheck(p)
    BY <1>5 DEF Send, ReplayCheck, ledgerVars, entryVars, Limits
  <1> QED BY <1>2, <1>3, <1>4, <1>5 DEF PubStep

(* Every step keeps the limits. *)
LEMMA StepLimits ==
  ASSUME IInv, Limits, [Next]_vars
  PROVE  Limits'
  <1> USE DEF IInv, Typed
  <1>1. CounterTypes
    BY DEF Core
  <1>2. ASSUME NEW r \in Requests, Request(r) \/ Retry(r)
        PROVE  Limits'
    BY <1>1, <1>2, AcquireLimits, Zenon DEF Request, Retry
  <1>3. ASSUME NEW p \in Requests, PubStep(p)
        PROVE  Limits'
    BY <1>3, PubLimits
  <1>4. ASSUME NEW p \in Requests, NEW h \in Shards, ExpireReceipts(p, h)
        PROVE  Limits'
    <2>1. Expired(h) \in SUBSET Keys
      BY DEF Expired
    <2> QED BY <1>1, <1>4, <2>1, SweptLimits DEF ExpireReceipts
  <1>5. ASSUME NEW f \in Requests, Abort(f)
        PROVE  Limits'
    <2>1. CASE MayAbort(f)
      <3>1. CloseFlight(f, FALSE) /\ Rebalance({KeyOf[f]}, {})
        BY <1>5, <2>1, Zenon DEF Abort
      <3>2. {KeyOf[f]} \in SUBSET Keys
        BY KeyAssumption
      <3>3. EntryLimits'
        BY <1>1, <3>1, <3>2, SweepLimits, LimitsSplit
      <3>4. OwnerLimits'
        BY <1>1, <3>1, CloseLimits, LimitsSplit, ZenonT(30)
      <3> QED BY <3>3, <3>4, LimitsSplit
    <2>2. CASE ~MayAbort(f)
      BY <1>5, <2>2 DEF Abort, Limits, entryVars
    <2> QED BY <2>1, <2>2
  <1>6. ASSUME NEW k \in Keys, DropExpired(k)
        PROVE  Limits'
    <2>1. {k} \in SUBSET Keys
      OBVIOUS
    <2> QED BY <1>1, <1>6, <2>1, SweptLimits DEF DropExpired
  <1>7. ASSUME NEW k \in Keys, Acknowledge(k)
        PROVE  Limits'
    <2> DEFINE gone == Expired(ShardOf[k])
    <2>1. gone \in SUBSET Keys /\ gone \cup {k} \in SUBSET Keys
      BY DEF Expired
    <2>2. /\ Rebalance(gone, {}) \/ Rebalance(gone \cup {k}, {})
          /\ UNCHANGED <<flightUsed, authPending>>
      BY <1>7 DEF Acknowledge
    <2> HIDE DEF gone
    <2> QED BY <1>1, <2>1, <2>2, SweptLimits
  <1>8. ASSUME NEW s \in Sessions, NEW h \in Shards, ForgetSession(s, h)
        PROVE  Limits'
    <2>1. \E G \in SUBSET Keys : Rebalance(G, {})
      BY <1>8 DEF ForgetSession
    <2>2. UNCHANGED <<flightUsed, authPending>>
      BY <1>8 DEF ForgetSession
    <2> QED BY <1>1, <2>1, <2>2, SweptLimits
  <1>9. CASE UNCHANGED <<entryVars, flightUsed, authPending>>
    BY <1>9 DEF entryVars, Limits
  <1>10. \/ UNCHANGED <<entryVars, flightUsed, authPending>>
         \/ \E r \in Requests : Request(r) \/ Retry(r)
         \/ \E p \in Requests : PubStep(p)
         \/ \E p \in Requests, h \in Shards : ExpireReceipts(p, h)
         \/ \E f \in Requests : Abort(f)
         \/ \E k \in Keys : DropExpired(k) \/ Acknowledge(k)
         \/ \E s \in Sessions, h \in Shards : ForgetSession(s, h)
    BY ZenonT(30)
       DEF Next, RequestStep, ReapStep, TaskStep, SubscribeOpen,
           SubscribeClosed, FinishWait, AbandonWaiter, RejectUnclaimed,
           ObserveDependency, Callback, StartHandler, DropTask, QueueTimeout,
           RejectOwner, FailGate, FinishHandler, CancelHandler, Publish,
           AckFrame, ReceiptTTL, ReleaseLogicalSession, vars, ledgerVars
  <1> QED
    BY <1>2, <1>3, <1>4, <1>5, <1>6, <1>7, <1>8, <1>9, <1>10

(* No interleaving of admissions, completions and expiry exceeds a capacity
   of newRPCExecutionLedger. *)
THEOREM LimitsHold == Spec => []Limits
  <1>1. Init => Limits
    BY CapacityAssumption DEF Init, Limits
  <1>2. IInv /\ Limits /\ [Next]_vars => Limits'
    BY StepLimits
  <1> QED BY <1>1, <1>2, Invariance, PTL DEF Spec

(* The budgets are exact and within their limits, whatever the order in which
   admission, Complete, Abort, ACK, expiry and session end come. *)
THEOREM BudgetsHold == Spec => []Budgets
  <1>1. EntryBudget /\ OwnerBudget /\ Limits => Budgets
    BY DEF Budgets
  <1> QED BY <1>1, EntryBudgetHolds, OwnerBudgetHolds, LimitsHold, PTL

-----------------------------------------------------------------------------
(* The subscriber budget. *)

(* The members of the sets S[g], for g in F, told apart by g. *)
Pairs(F, S) == {x \in F \X Requests : x[2] \in S[x[1]]}

(* Those of F grow and shrink with the one set that changes. *)
PairsGrow(F, f, S, T) ==
  /\ Cardinality(Pairs(F, T)) = Cardinality(Pairs(F, S))
       + (IF f \in F THEN Cardinality(T[f]) - Cardinality(S[f]) ELSE 0)
  /\ Cardinality(Pairs({f}, S)) = Cardinality(S[f])
  /\ Cardinality(Pairs(F, S)) \in Nat
  /\ Cardinality(S[f]) \in Nat
  /\ Cardinality(T[f]) \in Nat

(* One set changes: the pairs change by as many elements. *)
LEMMA PairsUpdate ==
  ASSUME NEW S \in [Requests -> SUBSET Requests],
         NEW T \in [Requests -> SUBSET Requests],
         NEW f \in Requests, \A g \in Requests : g # f => T[g] = S[g],
         NEW F \in SUBSET Requests
  PROVE  PairsGrow(F, f, S, T)
  <1>1. ASSUME NEW G \in SUBSET Requests, NEW U \in [Requests -> SUBSET Requests]
        PROVE  IsFiniteSet(Pairs(G, U)) /\ Cardinality(Pairs(G, U)) \in Nat
    <2>1. IsFiniteSet(Requests \X Requests)
      BY KeyAssumption, FS_Product
    <2>2. Pairs(G, U) \in SUBSET (Requests \X Requests)
      BY DEF Pairs
    <2> QED BY <2>1, <2>2, FS_Subset, FS_CardinalityType
  <1>2. ASSUME NEW U \in [Requests -> SUBSET Requests]
        PROVE  /\ Cardinality(Pairs({f}, U)) = Cardinality(U[f])
               /\ Cardinality(U[f]) \in Nat
    <2>1. Pairs({f}, U) = {f} \X U[f]
      BY DEF Pairs
    <2>2. IsFiniteSet(U[f]) /\ IsFiniteSet({f}) /\ Cardinality({f}) = 1
      BY KeyAssumption, FS_Subset, FS_Singleton, Zenon
    <2>3. Cardinality(U[f]) \in Nat
      BY <2>2, FS_CardinalityType
    <2>4. Cardinality({f} \X U[f]) = Cardinality({f}) * Cardinality(U[f])
      BY <2>2, FS_Product, Zenon
    <2>5. Cardinality({f}) * Cardinality(U[f]) = Cardinality(U[f])
      BY <2>2, <2>3
    <2> QED BY <2>1, <2>3, <2>4, <2>5, Zenon
  <1>3. ASSUME NEW U \in [Requests -> SUBSET Requests], f \in F
        PROVE  Cardinality(Pairs(F, U))
                 = Cardinality(Pairs(F \ {f}, U)) + Cardinality(U[f])
    <2> DEFINE P == Pairs(F \ {f}, U)
               Q == Pairs({f}, U)
    <2>1. P \cap Q = {} /\ P \cup Q = Pairs(F, U)
      BY <1>3 DEF Pairs
    <2>2. /\ IsFiniteSet(P) /\ IsFiniteSet(Q)
          /\ Cardinality(P) \in Nat /\ Cardinality(Q) \in Nat
      <3>1. F \ {f} \in SUBSET Requests /\ {f} \in SUBSET Requests
        OBVIOUS
      <3> QED BY <1>1, <3>1
    <2>3. Cardinality(Q) = Cardinality(U[f])
      BY <1>2, Zenon
    <2> HIDE DEF P, Q
    <2>4. Cardinality(P \cup Q)
            = Cardinality(P) + Cardinality(Q) - Cardinality(P \cap Q)
      BY <2>2, FS_Union
    <2>5. Cardinality(P \cap Q) = 0
      BY <2>1, FS_EmptySet
    <2>6. Cardinality(P \cup Q) = Cardinality(P) + Cardinality(U[f])
      BY ONLY <2>2, <2>3, <2>4, <2>5, SMTT(30), Z3T(30), SMTT(31)
    <2> QED BY <2>1, <2>6, Zenon DEF P
  <1>4. CASE f \notin F
    <2>1. Pairs(F, T) = Pairs(F, S)
      BY <1>4 DEF Pairs
    <2> QED BY <1>1, <1>2, <1>4, <2>1 DEF PairsGrow
  <1>5. CASE f \in F
    <2>1. Pairs(F \ {f}, T) = Pairs(F \ {f}, S)
      BY DEF Pairs
    <2>2. F \ {f} \in SUBSET Requests
      OBVIOUS
    <2>3. Cardinality(Pairs(F \ {f}, S)) \in Nat
      BY <1>1, <2>2
    <2>4. /\ Cardinality(Pairs(F, S))
               = Cardinality(Pairs(F \ {f}, S)) + Cardinality(S[f])
          /\ Cardinality(Pairs(F, T))
               = Cardinality(Pairs(F \ {f}, S)) + Cardinality(T[f])
      BY <1>3, <1>5, <2>1, Zenon
    <2>5. /\ Cardinality(S[f]) \in Nat /\ Cardinality(T[f]) \in Nat
          /\ Cardinality(Pairs({f}, S)) = Cardinality(S[f])
          /\ Cardinality(Pairs(F, S)) \in Nat
      BY <1>1, <1>2, Zenon
    <2> QED BY <1>5, <2>3, <2>4, <2>5 DEF PairsGrow
  <1> QED BY <1>4, <1>5

(* The callbacks a flight retains, and its part of what F is charged. *)
SubsOf == [g \in Requests |-> flight[g].subscribers]
ExecSubsOf == [g \in Requests |-> flight[g].executionSubscribers]

(* One flight changes its callbacks: every charge that counts it follows. *)
LEMMA ChargeUpdate ==
  ASSUME TableTypes, TableTypes', NEW f \in Requests,
         \A g \in Requests : g # f => SameSubs(g), NEW F \in SUBSET Requests
  PROVE  /\ Charge(F)' = Charge(F)
              + (IF f \in F THEN RetainedCallbacks(f)' - RetainedCallbacks(f) ELSE 0)
         /\ Charge({f}) = RetainedCallbacks(f)
         /\ Charge({f})' = RetainedCallbacks(f)'
         /\ Charge(F) \in Nat
         /\ RetainedCallbacks(f) \in Nat
         /\ RetainedCallbacks(f)' \in Nat
  <1>1. /\ SubsOf \in [Requests -> SUBSET Requests]
        /\ SubsOf' \in [Requests -> SUBSET Requests]
        /\ ExecSubsOf \in [Requests -> SUBSET Requests]
        /\ ExecSubsOf' \in [Requests -> SUBSET Requests]
    BY Zenon DEF SubsOf, ExecSubsOf, TableTypes, FlightRecords
  <1>2. \A G \in SUBSET Requests :
          /\ ResultSlots(G) = Pairs(G, SubsOf)
          /\ ResultSlots(G)' = Pairs(G, SubsOf')
          /\ ExecutionSlots(G) = Pairs(G, ExecSubsOf)
          /\ ExecutionSlots(G)' = Pairs(G, ExecSubsOf')
    BY Zenon DEF ResultSlots, ExecutionSlots, Pairs, SubsOf, ExecSubsOf
  <1>3. /\ \A g \in Requests : g # f => /\ SubsOf'[g] = SubsOf[g]
                                       /\ ExecSubsOf'[g] = ExecSubsOf[g]
        /\ RetainedCallbacks(f)
             = Cardinality(SubsOf[f]) + Cardinality(ExecSubsOf[f])
        /\ RetainedCallbacks(f)'
             = Cardinality(SubsOf'[f]) + Cardinality(ExecSubsOf'[f])
    BY DEF SubsOf, ExecSubsOf, SameSubs, RetainedCallbacks
  <1>4. {f} \in SUBSET Requests
    OBVIOUS
  <1>5. PICK S, T, U, V : S = SubsOf /\ T = SubsOf' /\ U = ExecSubsOf /\ V = ExecSubsOf'
    OBVIOUS
  <1>a. /\ S \in [Requests -> SUBSET Requests] /\ T \in [Requests -> SUBSET Requests]
        /\ U \in [Requests -> SUBSET Requests] /\ V \in [Requests -> SUBSET Requests]
        /\ \A g \in Requests : g # f => T[g] = S[g]
        /\ \A g \in Requests : g # f => V[g] = U[g]
    BY <1>1, <1>3, <1>5
  <1>6. PairsGrow(F, f, S, T) /\ PairsGrow(F, f, U, V)
    BY ONLY <1>a, f \in Requests, F \in SUBSET Requests, PairsUpdate, ZenonT(30)
  <1>7. PairsGrow(F, f, T, T) /\ PairsGrow(F, f, V, V)
    BY ONLY <1>a, f \in Requests, F \in SUBSET Requests, PairsUpdate, ZenonT(30)
  <1>10. \A G \in SUBSET Requests :
           /\ Charge(G) = Cardinality(Pairs(G, S)) + Cardinality(Pairs(G, U))
           /\ Charge(G)' = Cardinality(Pairs(G, T)) + Cardinality(Pairs(G, V))
    BY <1>2, <1>5 DEF Charge
  <1>11. /\ RetainedCallbacks(f) = Cardinality(S[f]) + Cardinality(U[f])
         /\ RetainedCallbacks(f)' = Cardinality(T[f]) + Cardinality(V[f])
    BY <1>3, <1>5, Zenon
  <1>12. /\ Charge({f}) = Cardinality(Pairs({f}, S)) + Cardinality(Pairs({f}, U))
         /\ Charge({f})' = Cardinality(Pairs({f}, T)) + Cardinality(Pairs({f}, V))
         /\ Charge(F) = Cardinality(Pairs(F, S)) + Cardinality(Pairs(F, U))
         /\ Charge(F)' = Cardinality(Pairs(F, T)) + Cardinality(Pairs(F, V))
    BY <1>4, <1>10
  <1>13. /\ Charge({f}) = RetainedCallbacks(f) /\ Charge({f})' = RetainedCallbacks(f)'
         /\ Charge(F) \in Nat
         /\ RetainedCallbacks(f) \in Nat /\ RetainedCallbacks(f)' \in Nat
    BY ONLY <1>6, <1>7, <1>11, <1>12, SMTT(30), Z3T(30), SMTT(31) DEF PairsGrow
  <1>14. Charge(F)' = Charge(F)
           + (IF f \in F THEN RetainedCallbacks(f)' - RetainedCallbacks(f) ELSE 0)
    BY ONLY <1>6, <1>11, <1>12, SMTT(30), Z3T(30), SMTT(31) DEF PairsGrow
  <1> QED BY ONLY <1>13, <1>14, ZenonT(30)

(* The flights of one auth key, and of one session. *)
ByAuth(a) == {f \in Requests : AuthOf[KeyOf[f]] = a}
BySession(s) == {f \in Requests : SessionOf[KeyOf[f]] = s}

(* The counters against the callbacks of all flights: those that are not live
   retain none. *)
SubCharged ==
  /\ \A f \in Requests : flight[f].subscriberSlots = RetainedCallbacks(f)
  /\ subUsed = Charge(Requests)
  /\ \A a \in Auths : subAuth[a] = Charge(ByAuth(a))
  /\ \A s \in Sessions : subSession[s] = Charge(BySession(s))

(* A flight keeps its subscribers and its slots. *)
SameSlots(f) ==
  SameSubs(f) /\ flight'[f].subscriberSlots = flight[f].subscriberSlots

(* A step that stores or releases callbacks of one flight charges the same. *)
LEMMA ChargeStep ==
  ASSUME TableTypes, TableTypes', SubCharged, NEW f \in Requests, NEW d \in Int,
         \A g \in Requests : g # f => SameSlots(g),
         RetainedCallbacks(f)' = RetainedCallbacks(f) + d,
         flight'[f].subscriberSlots = flight[f].subscriberSlots + d,
         SubDelta(KeyOf[f], d)
  PROVE  SubCharged'
  <1>0. \A g \in Requests : g # f => SameSubs(g)
    BY DEF SameSlots
  <1>1. ASSUME NEW F \in SUBSET Requests
        PROVE  Charge(F)' = Charge(F) + (IF f \in F THEN d ELSE 0) /\ Charge(F) \in Nat
    <2>1. /\ Charge(F)' = Charge(F)
               + (IF f \in F THEN RetainedCallbacks(f)' - RetainedCallbacks(f) ELSE 0)
          /\ Charge(F) \in Nat /\ RetainedCallbacks(f) \in Nat
      BY <1>0, ChargeUpdate, Zenon
    <2> QED BY <2>1
  <1>2. KeyOf[f] \in Keys /\ AuthOf[KeyOf[f]] \in Auths /\ SessionOf[KeyOf[f]] \in Sessions
    BY KeyAssumption, Zenon
  <1>3. \A g \in Requests : (flight[g].subscriberSlots = RetainedCallbacks(g))'
    <2> TAKE g \in Requests
    <2>1. CASE g = f
      BY <2>1 DEF SubCharged
    <2>2. CASE g # f
      BY <2>2, Zenon DEF SubCharged, SameSlots, SameSubs, RetainedCallbacks
    <2> QED BY <2>1, <2>2
  <1>4. subUsed' = Charge(Requests)'
    <2>1. Requests \in SUBSET Requests /\ f \in Requests
      BY Zenon
    <2>2. Charge(Requests)' = Charge(Requests) + d
      BY <1>1, <2>1
    <2> QED BY <2>2, Zenon DEF SubCharged, SubDelta
  <1>5. \A a \in Auths : subAuth'[a] = Charge(ByAuth(a))'
    <2> TAKE a \in Auths
    <2>1. ByAuth(a) \in SUBSET Requests /\ (f \in ByAuth(a) <=> AuthOf[KeyOf[f]] = a)
      BY Zenon DEF ByAuth
    <2>2. PICK F \in SUBSET Requests : F = ByAuth(a)
      BY <2>1
    <2>3. Charge(F)' = Charge(F) + (IF f \in F THEN d ELSE 0) /\ Charge(F) \in Nat
      BY <1>1
    <2>4. Charge(ByAuth(a))' = Charge(F)' /\ Charge(ByAuth(a)) = Charge(F)
      BY <2>2 DEF ByAuth
    <2>5. subAuth'[a] = subAuth[a] + (IF AuthOf[KeyOf[f]] = a THEN d ELSE 0)
      <3>1. subAuth' = [subAuth EXCEPT ![AuthOf[KeyOf[f]]] = @ + d]
        BY ZenonT(30) DEF SubDelta
      <3>2. DOMAIN subAuth = Auths /\ subAuth[a] \in Int
        BY DEF TableTypes
      <3> QED BY ONLY <1>2, <3>1, <3>2, a \in Auths, d \in Int, SMTT(30), Z3T(30), SMTT(31)
    <2>6. subAuth[a] = Charge(F)
      BY <2>4, Zenon DEF SubCharged
    <2> QED BY <2>1, <2>2, <2>3, <2>4, <2>5, <2>6, ZenonT(30)
  <1>6. \A s \in Sessions : subSession'[s] = Charge(BySession(s))'
    <2> TAKE s \in Sessions
    <2>1. /\ BySession(s) \in SUBSET Requests
          /\ f \in BySession(s) <=> SessionOf[KeyOf[f]] = s
      BY Zenon DEF BySession
    <2>2. PICK F \in SUBSET Requests : F = BySession(s)
      BY <2>1, ZenonT(30)
    <2>3. Charge(F)' = Charge(F) + (IF f \in F THEN d ELSE 0) /\ Charge(F) \in Nat
      BY <1>1
    <2>4. Charge(BySession(s))' = Charge(F)' /\ Charge(BySession(s)) = Charge(F)
      BY <2>2 DEF BySession
    <2>5. subSession'[s] = subSession[s] + (IF SessionOf[KeyOf[f]] = s THEN d ELSE 0)
      <3>1. subSession' = [subSession EXCEPT ![SessionOf[KeyOf[f]]] = @ + d]
        BY ZenonT(30) DEF SubDelta
      <3>2. DOMAIN subSession = Sessions /\ subSession[s] \in Int
        BY DEF TableTypes
      <3> QED BY ONLY <1>2, <3>1, <3>2, s \in Sessions, d \in Int, SMTT(30), Z3T(30), SMTT(31)
    <2>6. subSession[s] = Charge(F)
      BY <2>4, Zenon DEF SubCharged
    <2> QED BY <2>1, <2>2, <2>3, <2>4, <2>5, <2>6, ZenonT(30)
  <1> QED BY <1>3, <1>4, <1>5, <1>6, ZenonT(30) DEF SubCharged

(* A step that stores and releases none. *)
LEMMA ChargeKept ==
  ASSUME SubCharged, \A g \in Requests : SameSlots(g), UNCHANGED subVars
  PROVE  SubCharged'
  <1>1. \A F \in SUBSET Requests : Charge(F)' = Charge(F)
    <2> TAKE F \in SUBSET Requests
    <2>1. ResultSlots(F)' = ResultSlots(F) /\ ExecutionSlots(F)' = ExecutionSlots(F)
      BY DEF SameSlots, SameSubs, ResultSlots, ExecutionSlots
    <2> QED BY <2>1 DEF Charge
  <1>2. \A g \in Requests : RetainedCallbacks(g)' = RetainedCallbacks(g)
    BY DEF SameSlots, SameSubs, RetainedCallbacks
  <1>3. Requests \in SUBSET Requests
    OBVIOUS
  <1>4. \A a, s : /\ ByAuth(a) \in SUBSET Requests /\ BySession(s) \in SUBSET Requests
                  /\ Charge(ByAuth(a))' = Charge(ByAuth(a))
                  /\ Charge(BySession(s))' = Charge(BySession(s))
    BY <1>1, Zenon DEF ByAuth, BySession
  <1> QED BY <1>1, <1>2, <1>3, <1>4, Zenon DEF SubCharged, SameSlots, subVars

(* CompleteExecution returns the slots of the execution subscribers. *)
LEMMA CompleteExecutionCharge ==
  ASSUME TableTypes, TableTypes', SubCharged, NEW f \in Requests, NEW ok \in BOOLEAN,
         CompleteExecution(f, ok)
  PROVE  SubCharged'
  <1> DEFINE new == ExecutedFlight(f, ok)
             d == -Cardinality(flight[f].executionSubscribers)
  <1>1. CASE ~OutcomeOpen(f)
    BY <1>1, ChargeKept DEF CompleteExecution, SameSlots, SameSubs
  <1>2. CASE OutcomeOpen(f)
    <2>1. flight' = [flight EXCEPT ![f] = new] /\ SubDelta(KeyOf[f], d)
      BY <1>2 DEF CompleteExecution
    <2>2. /\ Cardinality(flight[f].subscribers) \in Nat
          /\ Cardinality(flight[f].executionSubscribers) \in Nat
          /\ flight[f].subscriberSlots \in Int
      BY FlightFields
    <2>3. /\ new.subscribers = flight[f].subscribers
          /\ new.executionSubscribers = {}
          /\ new.subscriberSlots = flight[f].subscriberSlots
               - Cardinality(flight[f].executionSubscribers)
      BY ZenonT(30) DEF ExecutedFlight
    <2>4. flight'[f] = new /\ \A g \in Requests : g # f => flight'[g] = flight[g]
      BY <2>1 DEF TableTypes
    <2>5. RetainedCallbacks(f)' = RetainedCallbacks(f) + d
      <3>1. RetainedCallbacks(f)' = Cardinality(flight[f].subscribers) + Cardinality({})
        BY <2>3, <2>4 DEF RetainedCallbacks
      <3>2. Cardinality({}) = 0
        BY FS_EmptySet
      <3> QED BY <2>2, <3>1, <3>2 DEF RetainedCallbacks
    <2>6. flight'[f].subscriberSlots = flight[f].subscriberSlots + d
      BY <2>2, <2>3, <2>4, Zenon
    <2>7. PICK e \in Int : e = d
      BY <2>2
    <2> HIDE DEF new, d
    <2> QED BY <2>1, <2>4, <2>5, <2>6, <2>7, ChargeStep DEF SameSlots, SameSubs
  <1> QED BY <1>1, <1>2

(* Closing a flight returns all of them. *)
LEMMA CloseCharge ==
  ASSUME TableTypes, TableTypes', SubCharged, NEW f \in Requests, NEW ok \in BOOLEAN,
         CloseFlight(f, ok)
  PROVE  SubCharged'
  <1> DEFINE new == ClosedFlight(f, ok)
             d == -RetainedCallbacks(f)
  <1>1. flight' = [flight EXCEPT ![f] = new] /\ SubDelta(KeyOf[f], d)
    BY DEF CloseFlight
  <1>2. RetainedCallbacks(f) \in Nat /\ flight[f].subscriberSlots \in Int
    BY FlightFields DEF RetainedCallbacks
  <1>3. /\ new.subscribers = {} /\ new.executionSubscribers = {}
        /\ new.subscriberSlots = flight[f].subscriberSlots - RetainedCallbacks(f)
    BY ZenonT(30) DEF ClosedFlight
  <1>4. flight'[f] = new /\ \A g \in Requests : g # f => flight'[g] = flight[g]
    BY <1>1 DEF TableTypes
  <1>5. RetainedCallbacks(f)' = 0
    <2>1. flight'[f].subscribers = {} /\ flight'[f].executionSubscribers = {}
      BY <1>3, <1>4, Zenon
    <2>2. RetainedCallbacks(f)' = Cardinality({}) + Cardinality({})
      BY <2>1, ZenonT(30) DEF RetainedCallbacks
    <2> QED BY ONLY <2>2, FS_EmptySet, SMTT(30), Z3T(30)
  <1>6. /\ RetainedCallbacks(f)' = RetainedCallbacks(f) + d
        /\ flight'[f].subscriberSlots = flight[f].subscriberSlots + d
    BY <1>2, <1>3, <1>4, <1>5
  <1>7. PICK e \in Int : e = d
    BY <1>2
  <1> HIDE DEF new, d
  <1> QED BY <1>1, <1>4, <1>6, <1>7, ChargeStep DEF SameSlots, SameSubs

(* subscribe charges one slot for every callback it stores. *)
LEMMA SubscribeCharge ==
  ASSUME Typed, TableTypes', Core, CallInv, SubCharged, NEW r \in Requests,
         SubscribeOpen(r)
  PROVE  SubCharged'
  <1>0. PICK f \in Requests : f = req[r].flight
    BY WaiterFlight, Zenon DEF SubscribeOpen
  <1> DEFINE fl == flight[f]
             res == req[r].want \cap {"result"}
             exec == IF fl.executionDone THEN {} ELSE req[r].want \cap {"execution"}
             slots == Cardinality(res) + Cardinality(exec)
             new == SubscribedFlight(f, r, res # {}, exec # {}, slots)
  <1>1. TableTypes /\ req[r].pc = "joined"
    BY Zenon DEF Typed, SubscribeOpen
  <1>2. CASE UNCHANGED <<flight, subVars>>
    BY <1>2, ChargeKept DEF SameSlots, SameSubs
  <1>3. CASE flight' = [flight EXCEPT ![f] = new] /\ SubDelta(KeyOf[f], slots)
    <2>1. /\ Cardinality(res) = IF res # {} THEN 1 ELSE 0
          /\ Cardinality(exec) = IF exec # {} THEN 1 ELSE 0
      <3>1. res \in {{}, {"result"}} /\ exec \in {{}, {"execution"}}
        BY Zenon
      <3>2. Cardinality({}) = 0 /\ Cardinality({"result"}) = 1
            /\ Cardinality({"execution"}) = 1
        BY FS_EmptySet, FS_Singleton, ZenonT(30)
      <3> HIDE DEF res, exec
      <3> QED BY <3>1, <3>2
    <2>2. r \notin fl.subscribers /\ r \notin fl.executionSubscribers
      BY <1>1 DEF CallInv, StoredOpen, Subs, Wants, Kinds
    <2>3. /\ new.subscribers = fl.subscribers \cup (IF res # {} THEN {r} ELSE {})
          /\ new.executionSubscribers =
               fl.executionSubscribers \cup (IF exec # {} THEN {r} ELSE {})
          /\ new.subscriberSlots = fl.subscriberSlots + slots
      BY Zenon DEF SubscribedFlight
    <2>4. flight'[f] = new /\ \A g \in Requests : g # f => flight'[g] = flight[g]
      BY <1>1, <1>3, Zenon DEF TableTypes
    <2>5. /\ IsFiniteSet(fl.subscribers) /\ IsFiniteSet(fl.executionSubscribers)
          /\ Cardinality(fl.subscribers) \in Nat
          /\ Cardinality(fl.executionSubscribers) \in Nat
      <3>1. fl.subscribers \in SUBSET Requests /\ fl.executionSubscribers \in SUBSET Requests
        BY <1>1, FlightFields
      <3> QED BY <3>1, KeyAssumption, FS_Subset, FS_CardinalityType, ZenonT(30)
    <2>6. PICK n \in Int : n = slots
      BY <2>1
    <2> HIDE DEF new, res, exec, fl
    <2>7. /\ Cardinality(new.subscribers)
               = Cardinality(fl.subscribers) + Cardinality(res)
          /\ Cardinality(new.executionSubscribers)
               = Cardinality(fl.executionSubscribers) + Cardinality(exec)
      <3>1. /\ Cardinality(fl.subscribers \cup {r}) = Cardinality(fl.subscribers) + 1
            /\ Cardinality(fl.executionSubscribers \cup {r})
                 = Cardinality(fl.executionSubscribers) + 1
        BY <2>2, <2>5, FS_AddElement, Zenon
      <3>2. new.subscribers = IF res # {} THEN fl.subscribers \cup {r} ELSE fl.subscribers
        BY <2>3, ZenonT(30)
      <3>3. new.executionSubscribers
              = IF exec # {} THEN fl.executionSubscribers \cup {r}
                ELSE fl.executionSubscribers
        BY <2>3
      <3> QED BY <2>1, <2>5, <3>1, <3>2, <3>3
    <2>8. RetainedCallbacks(f)' = RetainedCallbacks(f) + n
      <3>1. RetainedCallbacks(f)'
              = Cardinality(new.subscribers) + Cardinality(new.executionSubscribers)
        BY <2>4 DEF RetainedCallbacks
      <3>2. RetainedCallbacks(f)
              = Cardinality(fl.subscribers) + Cardinality(fl.executionSubscribers)
        BY DEF RetainedCallbacks, fl
      <3> QED BY <2>1, <2>5, <2>6, <2>7, <3>1, <3>2
    <2>9. /\ flight'[f].subscriberSlots = flight[f].subscriberSlots + n
          /\ SubDelta(KeyOf[f], n)
      BY <1>3, <2>3, <2>4, <2>6, ZenonT(30) DEF fl
    <2>10. \A g \in Requests : g # f => SameSlots(g)
      BY <2>4 DEF SameSlots, SameSubs
    <2> QED BY <1>1, <2>8, <2>9, <2>10, ChargeStep, ZenonT(30)
  <1> QED BY <1>0, <1>2, <1>3, Zenon DEF SubscribeOpen

(* Every step keeps the subscriber budget. *)
LEMMA ChargeInv ==
  ASSUME IInv, TableTypes', CallInv, SubCharged, [Next]_vars
  PROVE  SubCharged'
  <1>0. Typed /\ TableTypes /\ Core
    BY DEF IInv, Typed
  <1>1. ASSUME NEW r \in Requests, Request(r) \/ Retry(r)
        PROVE  SubCharged'
    <2>1. /\ req[r].pc \in Unclaimed /\ subVars' = subVars
          /\ flight' = flight \/ flight' = [flight EXCEPT ![r] = NewFlight]
      BY <1>1, Zenon
         DEF Request, Retry, Acquire, AcquireReceipt, AcquireFlight, AcquireCapacity,
             AcquireOwner, Unclaimed
    <2>2. CASE flight' = flight
      BY <2>1, <2>2, ChargeKept DEF SameSlots, SameSubs
    <2>3. CASE flight' = [flight EXCEPT ![r] = NewFlight]
      <3>1. flight[r].live = "none"
        BY <2>1 DEF IInv, Fresh
      <3>2. flight[r].subscribers = {} /\ flight[r].executionSubscribers = {}
        BY <3>1 DEF CallInv, StoredOpen, Subs, Open, Kinds
      <3>3. flight[r].subscriberSlots = 0
        <4>1. RetainedCallbacks(r) = Cardinality({}) + Cardinality({})
          BY <3>2 DEF RetainedCallbacks
        <4>2. Cardinality({}) = 0
          BY FS_EmptySet
        <4> QED BY <4>1, <4>2 DEF SubCharged
      <3>4. /\ NewFlight.subscribers = {} /\ NewFlight.executionSubscribers = {}
            /\ NewFlight.subscriberSlots = 0
        BY DEF NewFlight
      <3>5. flight'[r] = NewFlight /\ \A g \in Requests : g # r => flight'[g] = flight[g]
        BY <1>0, <2>3 DEF TableTypes
      <3>6. \A g \in Requests : SameSlots(g)
        BY <3>2, <3>3, <3>4, <3>5, ZenonT(30) DEF SameSlots, SameSubs
      <3> QED BY <2>1, <3>6, ChargeKept
    <2> QED BY <2>1, <2>2, <2>3
  <1>2. ASSUME NEW r \in Requests, SubscribeOpen(r)
        PROVE  SubCharged'
    BY <1>0, <1>2, SubscribeCharge
  <1>3. ASSUME NEW p \in Requests, CompleteFlight(p)
        PROVE  SubCharged'
    <2>1. PICK f \in Requests : f = pending[KeyOf[p]]
      BY <1>0, <1>3, KeyAssumption, ZenonT(30) DEF CompleteFlight, TableTypes
    <2>2. CloseFlight(f, TRUE)
      BY <1>3, <2>1, ZenonT(30) DEF CompleteFlight
    <2> QED BY <1>0, <2>2, CloseCharge, ZenonT(30)
  <1>4. ASSUME NEW f \in Requests, TaskStep(f)
        PROVE  SubCharged'
    <2>1. CASE RejectOwner(f) \/ FailGate(f)
      BY <1>0, <2>1, CompleteExecutionCharge, ZenonT(30) DEF RejectOwner, FailGate
    <2>2. ASSUME NEW ok \in BOOLEAN, NEW reported \in BOOLEAN,
                 FinishHandler(f, ok, reported)
          PROVE  SubCharged'
      BY <1>0, <2>2, CompleteExecutionCharge DEF FinishHandler
    <2>3. CASE Publish(f)
      <3>1. flight[f] \in FlightRecords
        BY <1>0 DEF TableTypes
      <3> DEFINE new == HandedOffFlight(f)
      <3>2. /\ new.subscribers = flight[f].subscribers
            /\ new.executionSubscribers = flight[f].executionSubscribers
            /\ new.subscriberSlots = flight[f].subscriberSlots
        BY <3>1 DEF HandedOffFlight, FlightRecords
      <3>3. /\ flight' = flight \/ flight' = [flight EXCEPT ![f] = new]
            /\ UNCHANGED subVars
        BY <2>3, Zenon DEF Publish
      <3> HIDE DEF new
      <3>4. \A g \in Requests : SameSlots(g)
        BY <1>0, <3>2, <3>3, ZenonT(30) DEF SameSlots, SameSubs, TableTypes
      <3> QED BY <3>3, <3>4, ChargeKept
    <2>4. CASE Abort(f)
      <3>1. CASE CloseFlight(f, FALSE)
        BY <1>0, <3>1, CloseCharge, ZenonT(30)
      <3>2. CASE UNCHANGED <<flight, subVars>>
        BY <3>2, ChargeKept DEF SameSlots, SameSubs
      <3> QED BY <2>4, <3>1, <3>2, Zenon DEF Abort
    <2>5. CASE UNCHANGED <<flight, subVars>>
      BY <2>5, ChargeKept DEF SameSlots, SameSubs
    <2> QED
      BY <1>4, <2>1, <2>2, <2>3, <2>4, <2>5, ZenonT(30)
         DEF TaskStep, StartHandler, DropTask, QueueTimeout, CancelHandler, ledgerVars
  <1>5. ASSUME NEW k \in Keys, Acknowledge(k)
        PROVE  SubCharged'
    <2>1. UNCHANGED subVars
      BY <1>5, Zenon DEF Acknowledge
    <2>2. CASE flight' = flight
      BY <2>1, <2>2, ChargeKept DEF SameSlots, SameSubs
    <2>3. CASE /\ pending[k] # NoFlight
               /\ flight' = [flight EXCEPT ![pending[k]] = AcknowledgedFlight(pending[k])]
      <3>1. PICK f \in Requests : f = pending[k]
        BY <1>0, <2>3 DEF TableTypes
      <3> DEFINE new == AcknowledgedFlight(f)
      <3>2. flight[f] \in FlightRecords
        BY <1>0 DEF TableTypes
      <3>3. /\ new.subscribers = flight[f].subscribers
            /\ new.executionSubscribers = flight[f].executionSubscribers
            /\ new.subscriberSlots = flight[f].subscriberSlots
        BY <3>2 DEF AcknowledgedFlight, FlightRecords
      <3>4. flight'[f] = new /\ \A g \in Requests : g # f => flight'[g] = flight[g]
        BY <1>0, <2>3, <3>1 DEF TableTypes
      <3> HIDE DEF new
      <3>5. \A g \in Requests : SameSlots(g)
        BY <3>3, <3>4 DEF SameSlots, SameSubs
      <3> QED BY <2>1, <3>5, ChargeKept
    <2> QED BY <1>5, <2>2, <2>3, Zenon DEF Acknowledge
  <1>6. CASE UNCHANGED <<flight, subVars>>
    BY <1>6, ChargeKept DEF SameSlots, SameSubs
  <1> QED
    BY <1>1, <1>2, <1>3, <1>4, <1>5, <1>6, ZenonT(30)
       DEF Next, RequestStep, PubStep, ReapStep, SubscribeClosed, FinishWait,
           AbandonWaiter, RejectUnclaimed, ObserveDependency, Callback, Send,
           ReplayCheck, CompleteLate, CompleteOwnerless, ExpireReceipts,
           DropExpired, AckFrame, ReceiptTTL, ReleaseLogicalSession,
           ForgetSession, vars, ledgerVars

(* The empty ledger charges nobody. *)
LEMMA InitCharge ==
  ASSUME Init
  PROVE  SubCharged
  <1>1. \A f \in Requests : /\ flight[f].subscribers = {}
                            /\ flight[f].executionSubscribers = {}
                            /\ flight[f].subscriberSlots = 0
    BY DEF Init, NoFlightYet, NewFlight
  <1>2. Cardinality({}) = 0
    BY FS_EmptySet
  <1>3. \A f \in Requests : RetainedCallbacks(f) = 0
    <2> TAKE f \in Requests
    <2>1. RetainedCallbacks(f) = Cardinality({}) + Cardinality({})
      BY <1>1, Zenon DEF RetainedCallbacks
    <2> QED BY <1>2, <2>1
  <1>4. ASSUME NEW F \in SUBSET Requests
        PROVE  Charge(F) = 0
    <2>1. ResultSlots(F) = {} /\ ExecutionSlots(F) = {}
      BY <1>1 DEF ResultSlots, ExecutionSlots
    <2> QED BY <1>2, <2>1 DEF Charge
  <1>5. \A a, s : Charge(ByAuth(a)) = 0 /\ Charge(BySession(s)) = 0
    BY <1>4 DEF ByAuth, BySession
  <1>6. Charge(Requests) = 0
    BY <1>4
  <1> QED BY <1>1, <1>3, <1>5, <1>6, Zenon DEF SubCharged, Init

(* A flight is charged for the callbacks it retains, and every scope of the
   subscriber budget for those of its live flights: subscribe reserves,
   CompleteExecution, Complete and Abort release, exactly. *)
THEOREM SubscriberBudgetHolds == Spec => []SubscriberBudget
  <1>1. ASSUME TableTypes, CallInv, SubCharged
        PROVE  SubscriberBudget
    <2>1. \A f \in Requests : flight[f].live # "pending" =>
            flight[f].subscribers = {} /\ flight[f].executionSubscribers = {}
      BY <1>1, Zenon DEF CallInv, StoredOpen, Subs, Open, Kinds
    <2>2. ASSUME NEW F \in SUBSET Requests
          PROVE  Charge({f \in LiveFlights : f \in F}) = Charge(F)
      <3> DEFINE L == {f \in LiveFlights : f \in F}
      <3>1. /\ \A f \in F : \/ f \in L
                            \/ /\ flight[f].subscribers = {}
                               /\ flight[f].executionSubscribers = {}
            /\ L \subseteq F
        BY <2>1 DEF LiveFlights
      <3> HIDE DEF L
      <3>2. ResultSlots(L) = ResultSlots(F)
        BY <3>1 DEF ResultSlots
      <3>3. ExecutionSlots(L) = ExecutionSlots(F)
        BY <3>1 DEF ExecutionSlots
      <3> QED BY <3>2, <3>3 DEF Charge, L
    <2>3. \A a \in Auths :
            Charge({f \in LiveFlights : AuthOf[KeyOf[f]] = a}) = Charge(ByAuth(a))
      <3> TAKE a \in Auths
      <3>1. ByAuth(a) \in SUBSET Requests
        BY DEF ByAuth
      <3>2. {f \in LiveFlights : AuthOf[KeyOf[f]] = a}
              = {f \in LiveFlights : f \in ByAuth(a)}
        BY DEF ByAuth, LiveFlights
      <3> QED BY <2>2, <3>1, <3>2, ZenonT(30)
    <2>4. \A s \in Sessions :
            Charge({f \in LiveFlights : SessionOf[KeyOf[f]] = s}) = Charge(BySession(s))
      <3> TAKE s \in Sessions
      <3>1. BySession(s) \in SUBSET Requests
        BY DEF BySession
      <3>2. {f \in LiveFlights : SessionOf[KeyOf[f]] = s}
              = {f \in LiveFlights : f \in BySession(s)}
        BY DEF BySession, LiveFlights
      <3> QED BY <2>2, <3>1, <3>2, Zenon
    <2>5. \A f \in Requests : Charge({f}) = RetainedCallbacks(f)
      <3> TAKE f \in Requests
      <3>1. SubsOf \in [Requests -> SUBSET Requests] /\ ExecSubsOf \in [Requests -> SUBSET Requests]
        BY <1>1, ZenonT(30) DEF SubsOf, ExecSubsOf, TableTypes, FlightRecords
      <3>2. PICK S, U : S = SubsOf /\ U = ExecSubsOf
        OBVIOUS
      <3>3. PairsGrow({f}, f, S, S) /\ PairsGrow({f}, f, U, U)
        BY <3>1, <3>2, PairsUpdate
      <3>4. ResultSlots({f}) = Pairs({f}, S) /\ ExecutionSlots({f}) = Pairs({f}, U)
        BY <3>2 DEF ResultSlots, ExecutionSlots, Pairs, SubsOf, ExecSubsOf
      <3>5. RetainedCallbacks(f) = Cardinality(S[f]) + Cardinality(U[f])
        BY <3>2 DEF RetainedCallbacks, SubsOf, ExecSubsOf
      <3> QED BY <3>3, <3>4, <3>5, ZenonT(30) DEF PairsGrow, Charge
    <2> QED BY <1>1, <2>3, <2>4, <2>5, Zenon DEF SubscriberBudget, SubCharged
  <1>2. Init => SubCharged
    BY InitCharge
  <1>3. /\ IInv /\ CallInv /\ Roles /\ SubCharged /\ [Next]_vars /\ IInv' => SubCharged'
        /\ IInv /\ CallInv /\ SubCharged => SubscriberBudget
    BY <1>1, ChargeInv DEF IInv, Typed
  <1> HIDE DEF IInv, CallInv, Roles, SubCharged, SubscriberBudget
  <1> QED BY <1>2, <1>3, CallInvariance, PTL DEF Spec

-----------------------------------------------------------------------------
(* What a receipt says. *)

(* This step leaves every receipt as it was, or writes the outcome of the
   flight it replaces. *)
ReceiptKept == \A k \in Keys : receipt'[k] # NoReceipt =>
  IF receipt[k] # NoReceipt /\ ~receipt[k].expired
  THEN [receipt'[k] EXCEPT !.expired = FALSE] = receipt[k]
  ELSE receipt'[k].executionOK /\ receipt[k] = NoReceipt
         => pending[k] # NoFlight /\ pending[k] \in succeeded

(* Writing FALSE over the FALSE of a live receipt changes nothing. *)
LEMMA LiveReceipt ==
  ASSUME TableTypes, NEW k \in Keys, receipt[k] # NoReceipt, ~receipt[k].expired
  PROVE  [receipt[k] EXCEPT !.expired = FALSE] = receipt[k]
  <1>1. receipt[k] \in Receipts
    BY DEF TableTypes
  <1> QED BY <1>1, ZenonT(30) DEF Receipts

(* Removing receipts changes none of those that stay. *)
LEMMA RemovedReceipts ==
  ASSUME TableTypes, \A k \in Keys : receipt'[k] \in {receipt[k], NoReceipt}
  PROVE  ReceiptKept
  BY LiveReceipt DEF ReceiptKept

(* Sweeping removes receipts. *)
LEMMA SweptReceipts ==
  ASSUME NEW gone, receipt' = Swept(gone)
  PROVE  \A k \in Keys : receipt'[k] \in {receipt[k], NoReceipt}
  BY DEF Swept

(* completeOnce writes the receipt of the flight it closes. *)
LEMMA CompleteFlightReceipt ==
  ASSUME TableTypes, Core, CallInv, NEW p \in Requests, CompleteFlight(p)
  PROVE  ReceiptKept
  <1> DEFINE k == KeyOf[p]
             f == pending[k]
             gone == Expired(ShardOf[k])
             new == IF Remembered(f) THEN NewReceipt(f, pub[p].replayable)
                    ELSE NoReceipt
  <1>1. /\ k \in Keys /\ f \in Requests /\ f # NoFlight
        /\ receipt' = [Swept(gone) EXCEPT ![k] = new]
    BY KeyAssumption, Zenon DEF CompleteFlight, TableTypes
  <1>2. receipt[k] = NoReceipt
    BY <1>1, Zenon DEF Core, Exclusive, Owned, Answered
  <1>3. NewReceipt(f, pub[p].replayable).executionOK = flight[f].executionOK
    BY Zenon DEF NewReceipt
  <1>4. flight[f].executionOK => f \in succeeded
    BY <1>1, Zenon DEF CallInv, Outcomes
  <1>5. receipt'[k] = new
    BY <1>1, Zenon DEF Swept
  <1>6. \A x \in Keys : x # k => receipt'[x] \in {receipt[x], NoReceipt}
    BY <1>1, Zenon DEF Swept
  <1>7. receipt'[k] # NoReceipt /\ receipt'[k].executionOK => f \in succeeded
    BY <1>3, <1>4, <1>5, ZenonT(30)
  <1> HIDE DEF k, new
  <1> QED BY <1>1, <1>2, <1>6, <1>7, LiveReceipt DEF ReceiptKept

(* A receipt that never had an owner claims no success. *)
LEMMA OwnerlessReceipt ==
  ASSUME TableTypes, NEW p \in Requests, CompleteOwnerless(p)
  PROVE  ReceiptKept
  <1> DEFINE k == KeyOf[p]
             gone == Expired(ShardOf[k])
             fresh == [identity |-> NoBody, executionKnown |-> FALSE,
                       executionOK |-> FALSE, unavailable |-> ~pub[p].replayable,
                       expired |-> FALSE]
  <1>1. k \in Keys /\ Swept(gone)[k] = NoReceipt
    BY KeyAssumption, ZenonT(30) DEF CompleteOwnerless
  <1>2. CASE receipt' = Swept(gone)
    BY <1>2, SweptReceipts, RemovedReceipts
  <1>3. CASE receipt' = [Swept(gone) EXCEPT ![k] = fresh]
    <2>1. receipt[k] = NoReceipt \/ receipt[k].expired
      BY <1>1, Zenon DEF Swept, Expired
    <2>2. receipt'[k] = fresh /\ fresh.executionOK = FALSE
      BY <1>1, <1>3, Zenon DEF Swept
    <2>3. \A x \in Keys : x # k => receipt'[x] \in {receipt[x], NoReceipt}
      BY <1>3, Zenon DEF Swept
    <2> HIDE DEF k, fresh
    <2> QED BY <2>1, <2>2, <2>3, LiveReceipt DEF ReceiptKept
  <1> QED BY <1>2, <1>3, ZenonT(30) DEF CompleteOwnerless

(* Time marks a receipt and says nothing else of it. *)
LEMMA ExpiringReceipt ==
  ASSUME TableTypes, NEW k \in Keys, ReceiptTTL(k)
  PROVE  ReceiptKept
  <1>1. /\ receipt[k] \in Receipts /\ receipt[k].expired = FALSE
        /\ receipt'[k] = [receipt[k] EXCEPT !.expired = TRUE]
        /\ \A x \in Keys : x # k => receipt'[x] = receipt[x]
    BY DEF ReceiptTTL, TableTypes, Receipts
  <1>2. [receipt'[k] EXCEPT !.expired = FALSE] = receipt[k]
    BY <1>1, Zenon DEF Receipts
  <1> QED BY <1>1, <1>2, LiveReceipt, NullAssumption DEF ReceiptKept

(* Every step keeps what the receipts say. *)
LEMMA StepKeepsReceipts ==
  ASSUME IInv, CallInv, [Next]_vars
  PROVE  ReceiptKept
  <1>0. TableTypes /\ Core
    BY DEF IInv, Typed
  <1>1. CASE receipt' = receipt
    BY <1>0, <1>1, RemovedReceipts
  <1>2. CASE \E gone : receipt' = Swept(gone)
    BY <1>0, <1>2, SweptReceipts, RemovedReceipts
  <1>3. CASE \E p \in Requests : CompleteFlight(p) \/ CompleteOwnerless(p)
    BY <1>0, <1>3, CompleteFlightReceipt, OwnerlessReceipt
  <1>4. CASE \E k \in Keys : ReceiptTTL(k)
    BY <1>0, <1>4, ExpiringReceipt
  <1>5. ASSUME NEW r \in Requests, NEW reclaimed, Acquire(r, reclaimed)
        PROVE  \E gone : receipt' = Swept(gone)
    BY <1>5, Zenon
       DEF Acquire, AcquireReceipt, AcquireFlight, AcquireCapacity, AcquireOwner
  <1>6. ASSUME NEW k \in Keys, Acknowledge(k) \/ DropExpired(k)
        PROVE  \E gone : receipt' = Swept(gone)
    BY <1>6, Zenon DEF Acknowledge, DropExpired
  <1>7. ASSUME NEW p \in Requests, CompleteLate(p) \/ ReapStep(p)
        PROVE  \E gone : receipt' = Swept(gone)
    BY <1>7, Zenon DEF CompleteLate, LateReceipt, ReapStep, ExpireReceipts
  <1>8. ASSUME NEW s \in Sessions, NEW h \in Shards, ForgetSession(s, h)
        PROVE  \E gone : receipt' = Swept(gone)
    BY <1>8, Zenon DEF ForgetSession
  <1>9. ASSUME NEW f \in Requests, TaskStep(f)
        PROVE  receipt' = receipt
    BY <1>9, Zenon DEF TaskStep, StartHandler, DropTask, QueueTimeout, RejectOwner, FailGate,
                FinishHandler, CancelHandler, Publish, Abort, ledgerVars
  <1> QED
    BY <1>1, <1>2, <1>3, <1>4, <1>5, <1>6, <1>7, <1>8, <1>9, ZenonT(30)
       DEF Next, Request, RequestStep, Retry, PubStep, SubscribeOpen, SubscribeClosed,
           FinishWait, AbandonWaiter, RejectUnclaimed, ObserveDependency, Callback,
           Send, ReplayCheck, AckFrame, ReleaseLogicalSession, vars, ledgerVars

(* What a receipt says of an execution comes from the flight it replaced, and
   stays what it is until the receipt is removed. *)
THEOREM ReceiptFaithfulHolds == Spec => ReceiptFaithful
  <1>1. IInv /\ CallInv /\ [Next]_vars =>
          [\A k \in Keys : receipt'[k] # NoReceipt =>
             IF receipt[k] # NoReceipt /\ ~receipt[k].expired
             THEN [receipt'[k] EXCEPT !.expired = FALSE] = receipt[k]
             ELSE receipt'[k].executionOK /\ receipt[k] = NoReceipt
                    => pending[k] # NoFlight /\ pending[k] \in succeeded]_vars
    BY StepKeepsReceipts DEF ReceiptKept
  <1> HIDE DEF IInv, CallInv, Roles
  <1> QED BY <1>1, CallInvariance, PTL DEF Spec, ReceiptFaithful

=============================================================================
