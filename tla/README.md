# A TLA+ model of gramsrv

gramsrv is a Telegram-compatible MTProto server in Go. This project holds TLA+
models of its concurrent parts, the TLC configurations that check them on small
instances, and TLAPS proofs of the most important results for every instance.
It starts with the part everything else depends on: what happens to an RPC
between the moment its bytes are decoded and the moment its answer has been
delivered and acknowledged.

## The system and its parts

A connection (`internal/mtprotoedge`) authenticates and decrypts frames, plans
the messages of each frame (*preflight*), admits every RPC to the **execution
ledger**, queues the owners on the **inbound scheduler**, executes them, and
publishes their results through the connection's **outbound actor**. A client
that hears nothing resends the request with the same `msg_id`, often on another
connection of the same session; the ledger decides whether that duplicate
joins the running execution, is answered from the retained result, or executes.
Effects that may become visible only after a result was written are **delivery
hooks**, run by a bounded executor. The ledger gives every identified owner an
**admission sequence**; the layer registry in `internal/rpc` uses the floor of
the active sequences to evict evidence that nobody can still publish.

Behind the RPC router are services over PostgreSQL and Redis: the per-user
update log (pts, difference, retention), the dispatch outbox that pushes
updates to live sessions, secret chats with their per-device qts queue, phone
calls, group calls, the read-model cache, login codes, payments, broadcasts,
and the large message, channel and dialog stores.

| Part (sources) | Module | Status |
| --- | --- | --- |
| Execution ledger (`rpc_flight.go`, `rpc_execution_ledger.go`, `rpc_execution_budget.go`, `rpc_result_subscriber_budget.go`) | `RPCExecutionLedger`, `RPCOnce` | modelled, proved |
| Admission tracker (`rpc_admission_tracker.go`) | `RPCAdmissionTracker` | modelled, proved |
| Delivery hook executor (`rpc_result_egress.go`) | `RPCDeliveryHooks` | modelled, proved |
| Task execution and publication (`encrypted.go`, `layer_rpc_execution.go`) | in `RPCExecutionLedger` | partly |
| Inbound scheduler, preflight (`inbound_rpc.go`, `inbound_preflight.go`, `inbound_layer_rpc.go`) | in `RPCExecutionLedger` | partly |
| Logical sessions (`logical_session.go`) | in `RPCExecutionLedger` | partly |
| Result delivery coordinator, replay restore (`outbound.go`, `rpc_replay_restore.go`) | `RPCResultDelivery` | modelled, proved |
| initConnection aliases (`rpc_rewrap.go`) | `RPCResultDelivery` | partly: one alias, not the table of candidates |
| Update log and difference (`app/updates`, `rpc/updates.go`, `store/postgres/update_event*.go`, `updatestate.go`, `user_pts.go`) | `UpdateLog`, `UpdateDelivery` | modelled, proved |
| Dispatch outbox (`dispatch_outbox.go`, `outbox_dispatcher.go`, migration 0186) | `DispatchLane`, `LaneOrder`, `UpdateDelivery` | modelled, proved |
| Read-model cache (`readmodelcache/cache.go`) | `CacheStore`, `ReadModelCache` | modelled, proved |
| Phone calls (`app/phone`, `rpc/phone_*.go`) | `PhoneCalls`, `CallLife` | partly: no signaling data; proved |
| Layer evidence (`rpc/layer_inheritance.go`), secret chats | | not modelled |
| Everything else (see `PROJECT.json`, "components") | | not modelled |

`PROJECT.json` lists every part with its reason, the lines each definition
translates, the runs, the hazards and the theorems.

## RPCExecutionLedger

**State.** `pending` and `receipt` are the tables of the shards, keyed by
(auth key, session, msg_id); `flight` holds the flight objects. A request that
becomes an owner names its flight, which stands for the pointer that leases,
waiters and shards compare. `flightUsed`, `reservedEntries`, `authEntries`,
`sessionEntries`, `authPending` are the flight limit and the fair budget;
`subUsed`, `subAuth`, `subSession` the subscriber budget; `activeAdmissions`
the flights whose sequence is registered. `req`, `task`, `pub` are the program
counters of admissions, owner tasks and result publications; `due` the
callbacks detached under a lock and not yet called; `todo` and `forgetting` the
shards that an `expireReceipts` or `forgetSession` in progress has still to
visit; `frames` and `acking` what the outbox retains and what the client acked.

**Actions.** Each critical section of a shard is one action.

| Code | Actions |
| --- | --- |
| `acquire` | `Request`, `Retry` (`AcquireReceipt`, `AcquireFlight`, `AcquireCapacity`, `AcquireOwner`) |
| `expireReceipts`, `expireLocked` | `ExpireReceipts`, `Expired`, `DropExpired` |
| `ObserveDependency`, `subscribe` | `ObserveDependency`, `SubscribeOpen`, `SubscribeClosed`, `AbandonWaiter`, `Callback`, `FinishWait` |
| `CompleteExecution`, `HandOff`, `Abort` | `CompleteExecution`, `Publish`, `Abort` |
| `Complete`, `completeOnce` | `ReplayCheck`, `CompleteFlight`, `CompleteLate`, `CompleteOwnerless` |
| `Acknowledge`, `forgetSession` | `AckFrame`, `Acknowledge`, `ReleaseLogicalSession`, `ForgetSession` |
| task life (`runInboundRPC`, `publishRPCResult`, timeouts, plan closing) | `StartHandler`, `DropTask`, `QueueTimeout`, `RejectOwner`, `FailGate`, `FinishHandler`, `CancelHandler`, `Publish`, `Send`, `RejectUnclaimed` |

**Abstractions.** Time is a flag `expired` on a receipt. `acquire` reads its
clock before it takes the lock, so it may treat any part of the expired
receipts as live. `completeOnce` can merge an older receipt into a flight's
outcome; `Exclusive`, proved below, says that no such receipt exists, and the
merge is left out. `ReleaseLogicalSession` has no guard: a session may end at
any time, more often than the code ends it. A request that takes an
`ObserveDependency` waiter stands for the invokeAfter gate of another request.
Bodies are opaque identities, replies are not represented. Not in the model:
the aliases of rewrapped requests, the fencing of connections, the metrics.

**What it promises.** `RPCOnce` is the abstract specification: a key is idle,
running or answered; it starts running only from idle, so there is never a
second owner beside the first nor an execution while an answer is remembered.
`ImplementsOnce` is the refinement, under the mapping `StatusOf`.

## RPCAdmissionTracker

Owners take the allocation barrier shared, claim the next sequence, register
it in its shard and later retire it; a scan takes the barrier exclusively and
visits the shards one by one, while owners retire. A failed compare-and-swap
changes nothing and is a stutter. Writer preference of Go's `RWMutex` is not
modelled (it only removes behaviours). `MaxSeq` stands for `math.MaxUint64`.
`FloorSafe` is the promise to the layer registry, `RetireFindsSequence` says
that the panic in `retire` is unreachable, `FloorsRise` that floors of
successive scans never fall.

## RPCDeliveryHooks

Tickets, the slots channel, the queue under the executor's mutex, its condition
variable and its workers. `release` and `runOne` receive from the channel
without the mutex and signal afterwards, so they are two steps each; `reserve`
starts the workers first and is two steps because `stop` may come in between.
`Signal` may wake any waiter. Storing a ticket's final state and receiving its
slot in `runOne` are one step. A second `stop` only broadcasts again and is left
out; a timeout of `stop` ends only its caller's wait.

## RPCResultDelivery

One `rpc_result`, the logical delivery hook its handler registered, and
everybody who may run that hook: the *source* (the task that publishes and the
outbound actor that writes), an *alias* (a later request that wraps the same
query in `initConnection` and wants the same answer), and `Replays`, later
duplicates answered from the retained result.

`coordinator` is `rpcResultDeliveryCoordinator` (`state`, `claim`,
`deferredToReplay`); a claim is a token, so that one abandoned is told from the
next of the same owner. The source is queued, possibly retargeted by the alias,
written or failed. The alias retargets the result before it is written, or
subscribes to the ledger and hands a rewrapped copy to a delivery job with a
watchdog (`rpcRewrapDeliveryControl`): pending, running, committed, complete or
failed. Every lock-protected section, compare-and-swap and channel operation is
one action; the write, the hook and the wait for the coordinator lie between
actions.

A handler without a hook leaves the hook "unset". A result whose retained bytes
exceed the budget leaves a tombstone: the second case of `PublishRPCResult`. An
alias without an owner of its own behaves like a replay and is one of them.
`Activate` includes a subscription that is refused for capacity.

Source and alias each have a flight in the ledger, and a refused duplicate closes
it by its key (`SourceAnswered`, `AliasAnswered`, for the ids in `Refusable`). The
owner does not know: its `HandOff` fails later, at the source (`PublishRPCResult`)
or at the alias (`ResultSubscriber`, `HandOffAlias`), and an alias may be given the
duplicate's error in place of the result (`OwnResult`). A replay needs a result
that was completed, or a receipt whose frame the actor has retained
(`Replayable`).

`ReservedForAlias` is what the deferral is for: after a retarget, only the alias
may claim the hook until its delivery is over. That the deferral then ends is not
so on every path; see `DeferralReleased` under Findings.

## UpdateLog, DispatchLane and UpdateDelivery

`UpdateLog` is one account: the watermark (`user_update_watermarks`), the open
append transaction, the log with its retained floor, and for each device its
authorization, `observed_pts` of its `update_states` row, its own cursor and what
it has received, and the handler of `getState` or `getDifference` it has running. A handler is one action per
database statement, so an append, a prune or a log-out may come between any two:
`ObserveDifferenceRequest`, `MeasureGap` (the audit of a too long gap),
`ReadCurrent`, the checkpoint `Probe` before and after the `List`, and the write
of the answer (`WriteAnswer`). The write queues a delivery hook, which commits the
state of an audited `getState` (`CommitDeliveredState`) at any time after it: the
device may have taken the answer, asked again or logged out by then, and a hook
that fails is one that never runs. `baselines` holds the pts of the hooks that
have yet to run; the upsert keeps the greatest pts, so those that could not raise
it are left out. The device
itself (`TakeAnswer`, `LoseAnswer`, `Restore` of an older local database,
`TakePush`) is external.

`DispatchLane` is the user's lane of `dispatch_outbox`: rows, the head that the
triggers of migration 0186 maintain, and the lease of every worker. A claim
increments the attempts, which then fence the marks. An interrupted push, a
failed mark and a crash of the process are all `Abandon`: the row stays
dispatching until another worker claims it.

`UpdateDelivery` composes the two: an append enqueues its row in the same
transaction, pruning deletes the rows of the events it deletes, a worker loads
its event from the log, and a push reaches any of the devices that are logged
in.

**What the lane promises.** `LaneOrder` is the abstract specification: the pts
that wait and the pts that workers have in hand. An update joins at the end, only
the first is handed out, and updates leave from the front. `ImplementsOrder` is
the refinement; the mapping forgets head, triggers, status, attempts and
leases, and counts a worker whose lease was lost as having its update in hand
until it marks or abandons it. So a stale worker may repeat an update that is
still first, and may be late with one that is gone, but nobody is ever ahead of
one that waits.

Abstractions: an event is its pts and pts_count; a rolled-back append leaves no
trace and is not a step; of an update state only `observed_pts` is kept, the one
column that another decision reads; an account may start with a pruned history
(`LogInit`), which stands for a long past. A device
logs in once: `logOut` deletes the authorization first and clears the update
state by auth key later (`rpc/auth.go:923`, `947`), so a second log-in on the
same key in between would lose its row; a client waits for the answer.

The comments at `outbox_dispatcher.go:390` and `460` say that a deferral leaves a
row "without incrementing attempts". That is so of the deferral; the claim that
follows it increments them in SQL.

## CacheStore and ReadModelCache

`CacheStore` is the ordered, weighted map (`storeLocked`, `evictOverflow`,
`removeElement`) as pure operators; a loop over the list (`EvictOverflow`,
`RemoveAll`) is a recursive function of the number of rounds. `ReadModelCache` is the protocol around it:
`GetOrLoad` (lookup, singleflight, lookup again, epoch snapshot, load, guarded
write-back), `GetOrLoadBatch` (passes, claimed flights, one load for the owned
keys, completion, collection), `LoadEpoch` with `StoreIfEpoch`, the unguarded
`Store`, and invalidation and flush, which advance the epoch. The backend behind
it is external: `Write` commits a newer version, and whoever wrote invalidates
afterwards. An entry whose time to live is over is one that a lookup may remove
at any moment. Keys outside `Mutable` are never written, and may be invalidated
all the same, as an invalidation may name any set of keys.

A loader that panics is not modelled. `GetOrLoadBatch` calls `loadMissing` without
a deferred completion (`cache.go:405`), and the panic is recovered further up
(`rpc/router.go:484`), so the flights that the batch had claimed stay open:
`FlightsAttended` is about loaders that return.

What is promised differs: `Store` and `StoreVersioned` are warm paths without a
guard and promise nothing (entries not `guarded`). A single reader may join a
singleflight between its write-back decision and its end, and the key of that
flight has no epoch, so what sharers are promised is relative to that decision;
batch flights carry the epoch in their key and promise freshness from the
beginning of the call.

## PhoneCalls

The registry (`calls`, `byRandom`, `active`, tombstones) and the state machine
of a call from request to end, each service method one action under the
registry's lock; `work` is what handlers and the expiry worker still have to do
after it: push the end to both sides, then record it in the history. Requests
are idempotent by (caller, random id) while the call is alive; one that repeats
the random id of an ended call starts a new call. A forced end
in `ConfirmCall` (a key that does not match its commitment) is pushed and not
recorded, as in the code; a failed history write is only logged. That both sides
were told of the end means that the pushes were issued: a push reaches the sessions
that are online, and nothing repeats it.

**What a call promises.** `CallLife` is the abstract specification: a call is
unused, offered, answered, talking, dropped or finished, and at last gone, and
only goes forward; its history gets at most one message, after its end, with a
duration only if there was a conversation. `ImplementsLife` is the refinement.
`Stage` reads the stage of an ended call from what is still kept of it, the
tombstone or the snapshot of a handler that is slower than the sweep.

Not modelled: `Signal`, which reads the call under the registry lock and forwards
under another (`service.go:337`), so that the order of packets is not that of
their reception; pushes of live states, which are sent after the lock and may
follow the push of the end; protocol negotiation.

## Runs

| Run | Instance | Shows |
| --- | --- | --- |
| `ledger_races` | 1 key, 3 identical requests, symmetric | ownership, callbacks, outcomes, receipts; refinement of `RPCOnce` |
| `ledger_budgets` | 2 keys, 2 sessions, 2 shards, 1 auth key, room for one entry | counters follow the tables; limits; reaping of another shard and the retry |
| `ledger_liveness` | 1 key, an identified and an unidentified request | flights close, subscribers hear |
| `admission_tracker` | 4 owners, 3 sequences, 2 shards, 2 scans | floors, exhaustion |
| `delivery_hooks` | 3 tickets, 2 slots, 2 workers, stop at any time | hooks run once, no lost wakeup, stop drains |
| `result_delivery` | a result, an alias, 2 replays, duplicates of either id refused | the hook runs once, a retargeted one is reserved for the alias, the alias is finalised |
| `update_delivery` | 1 device, 2 events of 2 pts, 2 workers, 2 claims of a row, 1 restore | no gap for the device, head and leases of the lane; refinement of `LaneOrder`; the device catches up, the lane drains |
| `read_model_cache` | 2 keys, 2 readers, 2 batches, 1 builder, 2 versions, 1 invalidation, room for 2 entries | fresh entries and answers, flights completed |
| `phone_calls` | 2 calls, 2 users, 2 random ids, 1 active call each, registry of 2 | indexes exact, calls end once and end; refinement of `CallLife` |
| `ledger_terminal`, `ledger_executed` | 1 key, 2 requests | see Findings |
| `result_deferral` | a result, an alias, 1 replay, no refused duplicates | see Findings |

*Bounds.* Three requests for one key are enough for an owner, its successor
and a subscriber or late completer of either at the same time; requests are
one-shot, so a longer chain of owners repeats the states of the second. The
subscriber limit is 3, below the four slots that two combined subscriptions
would need, so refusal and partial occupancy both occur. In `ledger_budgets` a single entry makes
every admission of the second key meet the limit, with the first key's receipt
live or expired in another shard. One owner more than there are sequences
reaches the exhaustion; one ticket more than there are slots, the refusal.
Two replays and an alias give every pair of competitors a third that waits. Two
events of two pts with a difference limit of one make every answer partial and
put a prune between any two of its reads; two workers and two claims let a lease
run out under its worker; `MaxClaims` leaves the last claim to be finished. One
version more than the first and one invalidation separate a load from its
write-back; the second key shares the batch, the room and the flights. Registry
and active-call limits of the phone run equal the number of calls and of one
call, so both refusals and the sweep of a tombstone that makes room occur.
Several devices, differences that continue from a late cursor and values heavier
than the cache hardly occur in these instances; the proofs of the safety
properties cover them, and liveness is checked without them.
Symmetry is used in `ledger_races` and `read_model_cache` only, which check no
liveness property; the requests have the same key and identity, and the readers
and the batches do not differ either.

*Deadlock.* Requests, owners, scans and tickets are one-shot and a client need
not send anything, so the models may come to rest: deadlock checking is off.
That nothing rests with work left is what the liveness properties say.

*Fairness.* Weak fairness for the steps of a task (the scheduler runs every
admitted task; a handler's context has a deadline), of a publication (the
outbound actor ends every delivery, written or failed), of reaping, of an
admission and of callbacks (they run in the goroutine that detached them). In
the executor, for workers, for owners of tickets (`markDelivered` or
`markReplayable` disposes of each) and for the waiting `stop`. Of a result's
delivery, only the alias's own steps and its watchdog are fair: a socket write and a
hook may block for ever. In the phone run the clock, the expiry worker and the
handlers in progress are fair. In the update run the workers, the sweep of failed
heads, the handlers and the commit of an open append are; `DevicesConverge` is
about a device that keeps asking and whose answers are not lost for ever, so
asking and taking an answer are fair there too; the delivery hooks are not. Other clients, time, session ends
and new requests are not.

## Findings

The three runs expected to fail state what a comment says and what the code
does not keep. None breaks a property above; each matters to whoever changes the
code relying on the comment.

* `RunningOwnsTerminal`: "the running handler owns the only terminal response"
  (`inbound_rpc.go:1008`). A duplicate that is refused before it acquires
  anything answers through `sendResult`, whose `Complete` does not ask for a
  lease and closes the flight of the handler that is running.
* `ExecutedIsAnswered`: "no business re-execution hidden behind a local
  capacity error" (`encrypted.go:939`). When neither the result nor its
  substitute can be encoded in time, the flight of a successful execution is
  aborted and a retry executes again.
* `DeferralReleased`: "On terminal alias failure the flag is released so a later
  logical-outbox replay can retry" (`outbound.go:400`). An alias that has
  retargeted the result and cannot reserve a clone of it aborts its flight and
  ends with the flag set (`rpc_rewrap.go:947`), as do the two failed hand-offs of
  the alias (`957`, `1082`). A replay that is written then waits for the claim
  until its deadline, and the hook is not run.

The queue timeout answers a request without publishing an execution outcome
(`layer_rpc_execution.go:137`). `Complete` has a branch for that, and records a
failure: `OutcomeAgreement` covers it.

## Proofs

TLAPS checks all of these for every value of the constants that the named
assumptions allow: finite sets of keys and requests, any sessions, auth keys,
shards and capacities (`KeyAssumption`, `NullAssumption`, `CapacityAssumption`);
any number of sequences, shards, owners and scans (`TrackerAssumption`); any
finite set of tickets, any workers and any capacity (`HookAssumption`); any finite
set of replays and any refusable ids (`ReplayAssumption`); finite sets of devices and workers, any
counts, limits and numbers of attempts (`LogAssumption`, `LaneAssumption`); any
users and finite set of calls, any limits (`PhoneAssumption`); any finite set of
keys, any readers, batches and builders, any versions, weights and limits
(`StoreAssumption`, `CacheAssumption`). `NoneAssumption` and `EntryAssumption` only
keep a missing value apart from a present one. `CallInv`, `Roles`,
`SubCharged`, `DInv`, `UInv`, `PhoneInv`, `CacheInv`, `LeaseFirst` and `LifeInv` were first checked by TLC on the
instances above (`PhoneInv` with its infinite types bounded).

| Module | Theorems |
| --- | --- |
| `RPCExecutionLedgerProofs` | `TypeCorrect`, `ExclusiveHolds`, `OwnerIdentityHolds`, `EntryBudgetHolds`, `OwnerBudgetHolds`, `HandOffIsFinalHolds` |
| `RPCExecutionLedgerCallbackProofs` | `CallbackOnceHolds`, `OutcomeAgreementHolds` |
| `RPCExecutionLedgerStepProofs` | `OutcomeImmutableHolds`, `AckNotResurrectedHolds`, `ReceiptFaithfulHolds`, `ImplementsOnceHolds`, `LimitsHold`, `BudgetsHold`, `SubscriberBudgetHolds` |
| `RPCPipelineProofs` | `TrackerTypes`, `FloorSafeHolds`, `RetireFindsSequenceHolds`, `FloorsRiseHolds`; `HookTypes`, `SlotsExactHolds`, `HookOnceHolds`, `NoHookAbandonedHolds`, `SomebodyAwakeHolds`; `LogicalHookOnceHolds`, `ReservedForAliasHolds` |
| `UpdateDeliveryProofs` | `LaneHeadHolds`, `LeaseHoldsHolds`, `ImplementsOrderHolds`, `NothingSkippedHolds` |
| `PhoneCallsProofs` | `RegistryExactHolds`, `EndsOnceHolds`, `ImplementsLifeHolds` |
| `ReadModelCacheProofs`, `ReadModelCacheBatchProofs` | `CacheTypeHolds`, `EntriesFreshHolds`, `ReadFreshHolds`, `FlightsAttendedHolds` |

* **Ledger.** The inductive invariant is `IInv == Typed /\ Core /\ Fresh`. `Core` is
  the conjunction of the counter types, `Exclusive`, `OwnerIdentity`,
  `EntryBudget`, `OwnerBudget` and `HandOffIsFinal`; they need each other: a
  counter does not underflow because it counts a set from which an element is
  removed, the set is the union of two tables that are disjoint by `Exclusive`,
  and the flight that closes is the one its key points at by `OwnerIdentity`.
  `Fresh` says that a request that has not acquired yet has no flight, so that
  installing one overwrites none. Steps fall into four classes with one lemma each
  (receipts removed, nothing of the tables touched, a flight opened, a flight
  closed). The action properties, the refinement of `RPCOnce` and the limits
  follow from `IInv` step by step.
* **Callbacks.** `CallbackOnce` counts three places where a callback may be, and
  none of its conjuncts is kept by itself. `CallInv` says where each may be while
  the subscriber waits: stored only in the open flight it joined and only for an
  outcome that is not settled, detached or heard with what that flight decided,
  and in one place at least. `Roles` says that a request that publishes, runs a
  task or reaps is not waiting as a subscriber at the same time: without it the
  end of a publication could be taken for the end of a wait. `OutcomeAgreement` is
  a consequence.
* **Subscriber budget.** `SubCharged` is `SubscriberBudget` with the slots of one
  flight counted as `releaseFlightSubscriberSlotsLocked` counts them. The sums
  over flights are cardinalities of sets of pairs (flight, request); the lemma
  `ChargeUpdate` says what changing the subscribers of one flight does to the sum
  over any set of flights, and every action that stores or releases callbacks is
  an instance of it. That a subscription adds as many pairs as it reserves slots
  needs `CallInv`: its callback is not stored yet.
* **Tracker.** `TInv` adds to `FloorSafe` that the barrier is a read-write lock,
  that sequences are unique and exactly the active ones are registered, and what a
  scan in progress knows of the shards behind it.
* **Hook executor.** `HInv` adds to the safety properties that the workers run
  whenever a ticket is outstanding.
* **Result delivery.** `DInv` says that nobody is given the hook before the actor
  begins to write (`SourceFirst`), that the alias has something to deliver only
  after the source is over or its flight was closed by a duplicate (`AliasAfter`),
  that whoever is in a position to claim the hook comes from a write (`Written`),
  that the hook's state tells how often it was entered (`Counted`), and that the
  hook of a retargeted result stays deferred until the source is over, has no
  claimant while it is deferred, and is free for others only once the alias is
  over or was failed (`Reserved`). `LogicalHookOnce` needs `Written` and `Counted`,
  because a claim can be abandoned and made again but an entered hook never
  returns to pending; `ReservedForAlias` needs `Reserved`.
* **Update log and lane.** `LaneInv` says that events of the log do not overlap
  and the open append lies beyond the watermark, that rows have distinct pts up to
  the watermark and the head is the least of them, that what the insert trigger
  saw of the lane still holds when its transaction commits (the fence), and that no
  lease has more attempts than its row. The refinement of `LaneOrder` needs one
  fact more, `LeaseFirst`: no row is before one that some worker has claimed, its
  lease lost or not. It is kept because claims take the least row and rows join
  beyond the watermark, and it is why a late `MarkDelivered` can only take the
  first row. Then a claim is `Hand`, a commit with a row is `Join`, and every other
  step takes a prefix away or nothing (`LeaveInOrder`). `UInv` adds `Sound(d)` for every device: the
  floor is at most what it observed, and whatever a handler has read, whatever
  answer is on its way and whatever the tables say of a device claims no more than
  the device has received. That is what `NothingSkipped` needs in the state in
  which the answer is taken, several steps after the reads. `Hooked` says the same of
  the hooks that have yet to run: once the device has a cursor it owns their pts,
  and until then the state that it is about to adopt covers them (`Due`). It is kept
  by whatever the device does meanwhile (`Carries`), so a hook may run late.
* **Phone calls.** The methods of the registry are operators on a registry; each
  is shown to map one that is `InOrder` (types, keys and calls agree, counts exact
  and within the limits) to one that is `InOrder`, and to leave an ended call as it
  ended (`Fewer`); the expiry worker, which sweeps and then ends any number of due
  calls, is their composition. `PhoneInv` adds that at most one handler has the end
  of a call in hand (`WorkOnce`) and that a recorded call has ended and is in
  nobody's hands (`HistoryOnce`). The refinement of `CallLife` is shown call by call
  (`CallSound`: what is kept of a call agrees about the conversation, a live call is
  started exactly when it is confirmed, and what never started has no duration),
  because one critical section may end some calls and sweep others: whatever it
  does, each call is untouched, moves while alive, ends, or is swept, with one
  lemma for each.
* **Read-model cache.** `CacheInv` ties what a caller holds in its locals to the
  epoch: a value loaded under epoch e is at least as new as the floor of its key
  *if the epoch is still e* (`CallFine`, `BuildFine`, `BatchFine`), which is what the
  guard of the write-back tests. `Shares` relates two batches of one epoch, so that
  what one completes is new enough for another that waits. `GroupOK` and `FlightsOK`
  say that a flight is open exactly while its owner is on the way to closing it.
  Eviction and invalidation are loops; what they preserve is proved by the lemma
  `Rounds` (what holds before the first round and after a round if it did before,
  holds after all), which rests on the least element of a set of naturals
  (`LeastNat`) and is first-order: the set takes the place of the predicate that
  the induction theorems of the library are parameterised by.

*Only model-checked.* `FlightsClose`, `SubscribersHear`, `TicketsEnd`, `StopDrains`,
`AliasSettles`, `DevicesConverge`, `LaneDrains` and `CallsSettle` are liveness under
fairness, outside the prover's reach. Every invariant and every action property
that a passing run checks is proved, and so are the three refinements; the types
of the ledger and of the hook executor are proved (`TypeCorrect`, `HookTypes`) and
in no run.

## Not modelled

Cryptography, the key exchange and transport codecs; TL conversion and generated
code; HTTP front ends and tools; media transfer. The message, channel and
dialog stores do their work in single database transactions; what is worth
modelling of them is their interaction with the update log. Metrics and logs.

In the parts that are modelled: the table of rewrap candidates; queue priorities,
containers and resends of the outbound actor; qts, seq and the channel logs;
signaling data. The layer evidence registry has its order from the database in
production (observation ids); its process-local order, which uses the floor of the
admission tracker, serves instances without that store. The secret chat queue
allocates a qts and inserts its row under one row lock and only marks rows as
acknowledged, so it has no step between which another could come; the races of
request, accept and discard are worth a module.

## Plan

1. Logical session adoption against the offline sweep; the inbound scheduler's
   queues; the bulk scheduler.
2. Secret chats; the candidate table of rewraps; `RPCResultDelivery` composed with
   `RPCDeliveryHooks`.
3. An abstract specification of the read-model cache (a value no older than the
   last invalidation) with `ReadModelCache` shown to implement it.
