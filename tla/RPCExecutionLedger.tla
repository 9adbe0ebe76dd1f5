------------------------- MODULE RPCExecutionLedger -------------------------
(***************************************************************************)
(* The RPC execution ledger of the MTProto edge: who may execute a request *)
(* (auth key, session, msg_id), who waits for the outcome, and what is     *)
(* remembered afterwards.                                                  *)
(*                                                                         *)
(* A request key has at most one in-flight owner (a flight).  Completing   *)
(* the flight turns it into a receipt that lives for a fixed time; an      *)
(* abort forgets it.  Duplicates of the request, possibly on a second      *)
(* connection, join the flight, hit the receipt, or become the next owner. *)
(*                                                                         *)
(* Every critical section of a ledger shard is one action.  What the code  *)
(* does after it unlocks (callbacks, the replay lookup, the reaping of     *)
(* other shards) is a step of its own.  A request that becomes the owner   *)
(* names its flight: the name stands for the pointer that the lease, the   *)
(* waiters and the shard compare, and is never used twice.                 *)
(***************************************************************************)
EXTENDS Integers, FiniteSets

CONSTANTS
  Keys,            \* (authKeyID, sessionID, reqMsgID) triples
  Sessions,        \* (authKeyID, sessionID) pairs
  Auths,           \* raw auth keys
  Shards,          \* ledger shards
  SessionOf,       \* [Keys -> Sessions]
  AuthOf,          \* [Keys -> Auths]
  ShardOf,         \* [Keys -> Shards], the seeded hash of the key
  Bodies,          \* prepared identities a request can carry
  NoBody,          \* a request without an API identity
  NoFlight,
  NoReceipt,
  Requests,        \* inbound requests; an owner's flight bears its name
  KeyOf,           \* [Requests -> Keys]
  IdentityOf       \* [Requests -> Bodies or NoBody]

CONSTANTS          \* the capacities of newRPCExecutionLedger
  MaxPending, MaxPendingPerAuth, GlobalMaxEntries, AuthMaxEntries,
  SessionMaxEntries, SubscriberMaxGlobal, SubscriberMaxAuth,
  SubscriberMaxSession, SubscriberMaxPerFlight

Identities == Bodies \cup {NoBody}

Receipts ==
  [identity : Identities, executionKnown : BOOLEAN, executionOK : BOOLEAN,
   unavailable : BOOLEAN, expired : BOOLEAN]

ASSUME KeyAssumption ==
  /\ SessionOf \in [Keys -> Sessions]
  /\ AuthOf \in [Keys -> Auths]
  /\ ShardOf \in [Keys -> Shards]
  /\ KeyOf \in [Requests -> Keys]
  /\ IdentityOf \in [Requests -> Identities]
  /\ IsFiniteSet(Keys)
  /\ IsFiniteSet(Requests)

ASSUME NullAssumption ==
  /\ NoBody \notin Bodies
  /\ NoFlight \notin Requests
  /\ NoReceipt \notin Receipts

ASSUME CapacityAssumption ==
  /\ MaxPending \in Nat
  /\ MaxPendingPerAuth \in Nat
  /\ GlobalMaxEntries \in Nat
  /\ AuthMaxEntries \in Nat
  /\ SessionMaxEntries \in Nat
  /\ SubscriberMaxGlobal \in Nat
  /\ SubscriberMaxAuth \in Nat
  /\ SubscriberMaxSession \in Nat
  /\ SubscriberMaxPerFlight \in Nat

VARIABLES
  pending,         \* [Keys -> flight or NoFlight], shard.pending
  receipt,         \* [Keys -> receipt or NoReceipt], shard.byKey
  flight,          \* the flight objects
  flightUsed,      \* flightLimit.used
  reservedEntries, \* the global entry counter of the fair budget
  authEntries,     \* per-auth entries of the fair budget
  sessionEntries,  \* per-session entries of the fair budget
  authPending,     \* per-auth pending owners of the fair budget
  activeAdmissions,\* identified flights whose sequence is registered
  subUsed,         \* subscriber budget: global
  subAuth,         \* subscriber budget: per auth
  subSession,      \* subscriber budget: per session
  due,             \* callbacks detached under the lock, not yet called
  req,             \* the admission of each request
  task,            \* the inbound RPC task that owns a flight
  pub,             \* the result publication of each request
  todo,            \* shards an expireReceipts in progress has still to visit
  succeeded,       \* owners whose business handler returned without error
  frames,          \* keys whose rpc_result frame the outbox retains
  acking,          \* keys whose frame was acked, Acknowledge not called yet
  forgetting       \* session/shard pairs a forgetSession has still to visit

ledgerVars == <<pending, receipt, flight, flightUsed, activeAdmissions>>
entryVars == <<reservedEntries, authEntries, sessionEntries>>
subVars == <<subUsed, subAuth, subSession>>
taskVars == <<task, succeeded>>
envVars == <<frames, acking, forgetting>>
vars == <<ledgerVars, entryVars, authPending, subVars, due, req, taskVars,
          pub, todo, envVars>>

FlightRecords ==
  [live : {"none", "pending", "closed"}, ok : BOOLEAN,
   executionDone : BOOLEAN, executionOK : BOOLEAN, acknowledged : BOOLEAN,
   handedOff : BOOLEAN, subscribers : SUBSET Requests,
   executionSubscribers : SUBSET Requests, subscriberSlots : Int]

Heard == {"none", "yes", "no"}

RequestRecords ==
  [pc : {"new", "reap", "retry", "joined", "waiting", "reject", "done"},
   flight : Requests \cup {NoFlight}, want : SUBSET {"result", "execution"},
   result : Heard, execution : Heard]

Callbacks == [who : Requests, kind : {"result", "execution"}, ok : BOOLEAN]

PubRecords ==
  [pc : {"idle", "send", "check", "once", "reap", "final"},
   replayable : BOOLEAN]

TaskStates == {"none", "queued", "running", "publish", "await", "release"}

NewFlight ==
  [live |-> "pending", ok |-> FALSE, executionDone |-> FALSE,
   executionOK |-> FALSE, acknowledged |-> FALSE, handedOff |-> FALSE,
   subscribers |-> {}, executionSubscribers |-> {}, subscriberSlots |-> 0]
NoFlightYet == [NewFlight EXCEPT !.live = "none"]

NewRequest ==
  [pc |-> "new", flight |-> NoFlight, want |-> {}, result |-> "none",
   execution |-> "none"]
IdlePub == [pc |-> "idle", replayable |-> FALSE]

(* rpcResultRequestIdentity.matches: an unidentified request joins anything,
   an identified one only its own winner. *)
Matches(winner, requested) == requested = NoBody \/ winner = requested

-----------------------------------------------------------------------------
(* The fair budget.  `gone` are keys whose entry is returned, `new` keys that
   take one, in the same critical section. *)

SharingAuth(S, a) == {k \in S : AuthOf[k] = a}
SharingSession(S, s) == {k \in S : SessionOf[k] = s}

(* withinRPCExecutionBudget(used, delta, limit) *)
Within(used, delta, limit) == limit > 0 /\ used >= 0 /\ used <= limit - delta

CanReserve(k, owner, gone) ==
  /\ Within(authEntries[AuthOf[k]] - Cardinality(SharingAuth(gone, AuthOf[k])),
            1, AuthMaxEntries)
  /\ Within(sessionEntries[SessionOf[k]]
              - Cardinality(SharingSession(gone, SessionOf[k])),
            1, SessionMaxEntries)
  /\ owner => Within(authPending[AuthOf[k]], 1, MaxPendingPerAuth)
  /\ Within(reservedEntries - Cardinality(gone), 1, GlobalMaxEntries)

(* Mutant: the session scope never gets its entries back. *)
RebalanceTwoScopes(gone, new) ==
  /\ reservedEntries' = reservedEntries - Cardinality(gone) + Cardinality(new)
  /\ authEntries' = [a \in Auths |-> authEntries[a]
                       - Cardinality(SharingAuth(gone, a))
                       + Cardinality(SharingAuth(new, a))]
  /\ sessionEntries' = [s \in Sessions |-> sessionEntries[s]
                          + Cardinality(SharingSession(new, s))]

Rebalance(gone, new) ==
  /\ reservedEntries' = reservedEntries - Cardinality(gone) + Cardinality(new)
  /\ authEntries' = [a \in Auths |-> authEntries[a]
                       - Cardinality(SharingAuth(gone, a))
                       + Cardinality(SharingAuth(new, a))]
  /\ sessionEntries' = [s \in Sessions |-> sessionEntries[s]
                          - Cardinality(SharingSession(gone, s))
                          + Cardinality(SharingSession(new, s))]

PendingDelta(k, d) == authPending' = [authPending EXCEPT ![AuthOf[k]] = @ + d]

(* expireLocked: the receipts a sweep of a shard removes.  Completion times
   only grow within a shard, so the expired prefix of its order list is the
   set of its expired receipts. *)
Expired(h) ==
  {k \in Keys : ShardOf[k] = h /\ receipt[k] # NoReceipt /\ receipt[k].expired}

Swept(gone) == [k \in Keys |-> IF k \in gone THEN NoReceipt ELSE receipt[k]]

(* Mutant: released callbacks stay charged to their session. *)
SubDeltaTwoScopes(k, d) ==
  /\ subUsed' = subUsed + d
  /\ subAuth' = [subAuth EXCEPT ![AuthOf[k]] = @ + d]
  /\ subSession' =
       [subSession EXCEPT ![SessionOf[k]] = IF d > 0 THEN @ + d ELSE @]

(* The subscriber budget, and the slots of one flight. *)
SubDelta(k, d) ==
  /\ subUsed' = subUsed + d
  /\ subAuth' = [subAuth EXCEPT ![AuthOf[k]] = @ + d]
  /\ subSession' = [subSession EXCEPT ![SessionOf[k]] = @ + d]

CanSubscribe(f, slots) ==
  LET k == KeyOf[f] IN
  /\ flight[f].subscriberSlots <= SubscriberMaxPerFlight - slots
  /\ Within(subAuth[AuthOf[k]], slots, SubscriberMaxAuth)
  /\ Within(subSession[SessionOf[k]], slots, SubscriberMaxSession)
  /\ Within(subUsed, slots, SubscriberMaxGlobal)

Calls(S, kind, ok) == [who : S, kind : {kind}, ok : {ok}]

-----------------------------------------------------------------------------
Init ==
  /\ pending = [k \in Keys |-> NoFlight]
  /\ receipt = [k \in Keys |-> NoReceipt]
  /\ flight = [f \in Requests |-> NoFlightYet]
  /\ flightUsed = 0
  /\ reservedEntries = 0
  /\ authEntries = [a \in Auths |-> 0]
  /\ sessionEntries = [s \in Sessions |-> 0]
  /\ authPending = [a \in Auths |-> 0]
  /\ activeAdmissions = {}
  /\ subUsed = 0
  /\ subAuth = [a \in Auths |-> 0]
  /\ subSession = [s \in Sessions |-> 0]
  /\ due = {}
  /\ req = [r \in Requests |-> NewRequest]
  /\ task = [f \in Requests |-> "none"]
  /\ pub = [p \in Requests |-> IdlePub]
  /\ todo = [p \in Requests |-> {}]
  /\ succeeded = {}
  /\ frames = {}
  /\ acking = {}
  /\ forgetting = {}

-----------------------------------------------------------------------------
(* Closing a flight: the common part of Complete and Abort, under the lock. *)

(* Mutant: a result without a handler outcome counts as a success. *)
FinalOutcomeOptimistic(f) == flight[f].executionDone => flight[f].executionOK

(* A flight closed before its execution outcome is known has failed. *)
FinalOutcome(f) == flight[f].executionDone /\ flight[f].executionOK

(* Mutant: only the result subscribers are called. *)
TerminalResultCalls(f, ok) == Calls(flight[f].subscribers, "result", ok)

TerminalCalls(f, ok) ==
  Calls(flight[f].subscribers, "result", ok)
    \cup Calls(flight[f].executionSubscribers, "execution", FinalOutcome(f))

RetainedCallbacks(f) ==
  Cardinality(flight[f].subscribers) + Cardinality(flight[f].executionSubscribers)

ClosedFlight(f, ok) ==
  [live |-> "closed", ok |-> ok, executionDone |-> TRUE,
   executionOK |-> FinalOutcome(f), acknowledged |-> flight[f].acknowledged,
   handedOff |-> flight[f].handedOff, subscribers |-> {},
   executionSubscribers |-> {},
   subscriberSlots |-> flight[f].subscriberSlots - RetainedCallbacks(f)]

CloseFlight(f, ok) ==
  /\ pending' = [pending EXCEPT ![KeyOf[f]] = NoFlight]
  /\ flight' = [flight EXCEPT ![f] = ClosedFlight(f, ok)]
  /\ flightUsed' = flightUsed - 1
  /\ activeAdmissions' = activeAdmissions \ {f}
  /\ PendingDelta(KeyOf[f], -1)
  /\ SubDelta(KeyOf[f], -RetainedCallbacks(f))
  /\ due' = due \cup TerminalCalls(f, ok)

(* Mutant: neither ownership nor an earlier outcome is looked at. *)
OutcomeAlwaysOpen(f) == TRUE

OutcomeOpen(f) == pending[KeyOf[f]] = f /\ ~flight[f].executionDone

ExecutedFlight(f, ok) ==
  [live |-> flight[f].live, ok |-> flight[f].ok, executionDone |-> TRUE,
   executionOK |-> ok, acknowledged |-> flight[f].acknowledged,
   handedOff |-> flight[f].handedOff, subscribers |-> flight[f].subscribers,
   executionSubscribers |-> {},
   subscriberSlots |-> flight[f].subscriberSlots
                         - Cardinality(flight[f].executionSubscribers)]

(* rpcResultOwnerLease.CompleteExecution: the first outcome wins, and only
   while the lease still owns the pending flight. *)
CompleteExecution(f, ok) ==
  IF OutcomeOpen(f)
  THEN /\ flight' = [flight EXCEPT ![f] = ExecutedFlight(f, ok)]
       /\ SubDelta(KeyOf[f], -Cardinality(flight[f].executionSubscribers))
       /\ due' = due \cup
                    Calls(flight[f].executionSubscribers, "execution", ok)
  ELSE UNCHANGED <<flight, subVars, due>>

-----------------------------------------------------------------------------
(* acquire.  Its clock is read before the shard lock is taken, so a receipt
   that expired in between may still count as live: `gone` is any part of the
   expired receipts. *)

RequestTo(r, pc) == req' = [req EXCEPT ![r] = [@ EXCEPT !.pc = pc]]

StartReject(r) ==
  /\ RequestTo(r, "reject")
  /\ pub' = [pub EXCEPT ![r] = [IdlePub EXCEPT !.pc = "send"]]
  /\ UNCHANGED todo

Done(r) == req' = [req EXCEPT ![r] = [NewRequest EXCEPT !.pc = "done"]]

EndRequest(r) ==
  /\ Done(r)
  /\ UNCHANGED <<pub, todo>>

JoinFlight(r, f, want) ==
  /\ req' = [req EXCEPT ![r] =
               [pc |-> "joined", flight |-> f, want |-> want,
                result |-> "none", execution |-> "none"]]
  /\ UNCHANGED <<pub, todo>>

(* A receipt answers the duplicate: an identity mismatch is an error, an
   unavailable tombstone reads as a capacity error, anything else is looked
   up in the outbox after the unlock, which changes no ledger state.  A
   receipt whose ACK came first is removed before its shard is unlocked, so
   none is ever seen here. *)
AcquireReceipt(r, gone) ==
  LET k == KeyOf[r] IN
  /\ k \notin gone
  /\ receipt[k] # NoReceipt
  /\ IF Matches(receipt[k].identity, IdentityOf[r]) /\ receipt[k].unavailable
     THEN StartReject(r)
     ELSE EndRequest(r)
  /\ receipt' = Swept(gone)
  /\ Rebalance(gone, {})
  /\ UNCHANGED <<pending, flight, flightUsed, activeAdmissions, authPending,
                 subVars, due, taskVars, envVars>>

AcquireFlight(r, gone) ==
  LET k == KeyOf[r]
      f == pending[k]
  IN
  /\ Swept(gone)[k] = NoReceipt
  /\ f # NoFlight
  /\ IF Matches(IdentityOf[f], IdentityOf[r]) /\ ~flight[f].acknowledged
     THEN \E want \in {{"result"}, {"result", "execution"}} :
            JoinFlight(r, f, want)
     ELSE EndRequest(r)
  /\ receipt' = Swept(gone)
  /\ Rebalance(gone, {})
  /\ UNCHANGED <<pending, flight, flightUsed, activeAdmissions, authPending,
                 subVars, due, taskVars, envVars>>

(* Mutant: the receipt is not looked up again. *)
VacantIgnoringReceipt(k, gone) == pending[k] = NoFlight

(* Mutant: the pending table is not looked up again. *)
VacantIgnoringFlight(k, gone) == Swept(gone)[k] = NoReceipt

Vacant(k, gone) == Swept(gone)[k] = NoReceipt /\ pending[k] = NoFlight

(* No flight, no reservation, or no admission sequence left: in the last case
   the reservation is given back, and the error ends the request. *)
AcquireCapacity(r, gone, reclaimed) ==
  LET k == KeyOf[r] IN
  /\ Vacant(k, gone)
  /\ \/ /\ ~Within(flightUsed, 1, MaxPending)
        /\ StartReject(r)
     \/ /\ Within(flightUsed, 1, MaxPending)
        /\ ~CanReserve(k, TRUE, gone)
        /\ IF reclaimed
           THEN StartReject(r)
           ELSE /\ RequestTo(r, "reap")
                /\ todo' = [todo EXCEPT ![r] = Shards]
                /\ UNCHANGED pub
     \/ /\ Within(flightUsed, 1, MaxPending)
        /\ CanReserve(k, TRUE, gone)
        /\ IdentityOf[r] # NoBody
        /\ EndRequest(r)
  /\ receipt' = Swept(gone)
  /\ Rebalance(gone, {})
  /\ UNCHANGED <<pending, flight, flightUsed, activeAdmissions, authPending,
                 subVars, due, taskVars, envVars>>

AcquireOwner(r, gone) ==
  LET k == KeyOf[r] IN
  /\ Vacant(k, gone)
  /\ Within(flightUsed, 1, MaxPending)
  /\ CanReserve(k, TRUE, gone)
  /\ pending' = [pending EXCEPT ![k] = r]
  /\ flight' = [flight EXCEPT ![r] = NewFlight]
  /\ flightUsed' = flightUsed + 1
  /\ activeAdmissions' = activeAdmissions
                          \cup (IF IdentityOf[r] = NoBody THEN {} ELSE {r})
  /\ receipt' = Swept(gone)
  /\ Rebalance(gone, {k})
  /\ PendingDelta(k, 1)
  /\ task' = [task EXCEPT ![r] = "queued"]
  /\ EndRequest(r)
  /\ UNCHANGED <<subVars, due, succeeded, envVars>>

Acquire(r, reclaimed) ==
  \E gone \in SUBSET Expired(ShardOf[KeyOf[r]]) :
    \/ AcquireReceipt(r, gone)
    \/ AcquireFlight(r, gone)
    \/ AcquireCapacity(r, gone, reclaimed)
    \/ AcquireOwner(r, gone)

Request(r) ==
  /\ req[r].pc = "new"
  /\ Acquire(r, FALSE)

Retry(r) ==
  /\ req[r].pc = "retry"
  /\ Acquire(r, TRUE)

(* A request refused before it could claim anything: no materialization memory
   for its batch, or a body that does not decode. *)
RejectUnclaimed(r) ==
  /\ req[r].pc = "new"
  /\ StartReject(r)
  /\ UNCHANGED <<ledgerVars, entryVars, authPending, subVars, due, taskVars,
                 envVars>>

(* One shard of expireReceipts, called by acquire or by Complete. *)
ExpireReceipts(p, h) ==
  LET rest == todo[p] \ {h} IN
  /\ h \in todo[p]
  /\ receipt' = Swept(Expired(h))
  /\ Rebalance(Expired(h), {})
  /\ todo' = [todo EXCEPT ![p] = rest]
  /\ IF rest # {}
     THEN UNCHANGED <<req, pub>>
     ELSE IF req[p].pc = "reap"
     THEN /\ req' = [req EXCEPT ![p] = [@ EXCEPT !.pc = "retry"]]
          /\ UNCHANGED pub
     ELSE /\ pub' = [pub EXCEPT ![p] = [@ EXCEPT !.pc = "final"]]
          /\ UNCHANGED req
  /\ UNCHANGED <<pending, flight, flightUsed, activeAdmissions, authPending,
                 subVars, due, taskVars, envVars>>

(* Replay, ExactAdmissionProfile and ObserveDependency remove the receipt
   they looked up when it has expired, and change nothing else. *)
DropExpired(k) ==
  /\ receipt[k] # NoReceipt
  /\ receipt[k].expired
  /\ receipt' = Swept({k})
  /\ Rebalance({k}, {})
  /\ UNCHANGED <<pending, flight, flightUsed, activeAdmissions, authPending,
                 subVars, due, req, taskVars, pub, todo, envVars>>

(* ObserveDependency: an invokeAfter request finds a running dependency and
   takes a waiter for its execution outcome. *)
ObserveDependency(r, k) ==
  /\ req[r].pc = "new"
  /\ receipt[k] = NoReceipt
  /\ pending[k] # NoFlight
  /\ ~flight[pending[k]].executionDone
  /\ JoinFlight(r, pending[k], {"execution"})
  /\ UNCHANGED <<ledgerVars, entryVars, authPending, subVars, due, taskVars,
                 envVars>>

-----------------------------------------------------------------------------
(* subscribe.  On a pending flight the callbacks are stored, or refused as a
   whole; a known execution outcome is called back after the unlock.  On a
   closed flight every requested outcome is called back at once. *)

SubscribedFlight(f, r, result, execution, slots) ==
  LET fl == flight[f] IN
  [live |-> fl.live, ok |-> fl.ok, executionDone |-> fl.executionDone,
   executionOK |-> fl.executionOK, acknowledged |-> fl.acknowledged,
   handedOff |-> fl.handedOff,
   subscribers |-> fl.subscribers \cup (IF result THEN {r} ELSE {}),
   executionSubscribers |->
     fl.executionSubscribers \cup (IF execution THEN {r} ELSE {}),
   subscriberSlots |-> fl.subscriberSlots + slots]

SubscribeOpen(r) ==
  LET f == req[r].flight
      fl == flight[f]
      res == req[r].want \cap {"result"}
      exec == IF fl.executionDone THEN {} ELSE req[r].want \cap {"execution"}
      slots == Cardinality(res) + Cardinality(exec)
  IN
  /\ req[r].pc = "joined"
  /\ pending[KeyOf[f]] = f
  /\ IF slots > 0 /\ ~CanSubscribe(f, slots)
     THEN /\ Done(r)
          /\ UNCHANGED <<flight, subVars, due>>
     ELSE /\ flight' = [flight EXCEPT ![f] =
                          SubscribedFlight(f, r, res # {}, exec # {}, slots)]
          /\ SubDelta(KeyOf[f], slots)
          /\ due' = IF "execution" \in req[r].want /\ fl.executionDone
                    THEN due \cup Calls({r}, "execution", fl.executionOK)
                    ELSE due
          /\ RequestTo(r, "waiting")
  /\ UNCHANGED <<pending, receipt, flightUsed, activeAdmissions, entryVars,
                 authPending, taskVars, pub, todo, envVars>>

SubscribeClosed(r) ==
  LET f == req[r].flight
      fl == flight[f]
  IN
  /\ req[r].pc = "joined"
  /\ pending[KeyOf[f]] # f
  /\ IF fl.live = "closed" /\ fl.executionDone
     THEN /\ due' = due \cup (IF "execution" \in req[r].want
                              THEN Calls({r}, "execution", fl.executionOK)
                              ELSE {})
                        \cup (IF "result" \in req[r].want
                              THEN Calls({r}, "result", fl.ok) ELSE {})
          /\ RequestTo(r, "waiting")
     ELSE /\ Done(r)
          /\ UNCHANGED due
  /\ UNCHANGED <<ledgerVars, entryVars, authPending, subVars, taskVars, pub,
                 todo, envVars>>

(* The plan is closed before the waiter was used. *)
AbandonWaiter(r) ==
  /\ req[r].pc = "joined"
  /\ EndRequest(r)
  /\ UNCHANGED <<ledgerVars, entryVars, authPending, subVars, due, taskVars,
                 envVars>>

(* A detached callback reaches its subscriber. *)
Callback(m) ==
  LET said == IF m.ok THEN "yes" ELSE "no" IN
  /\ m \in due
  /\ due' = due \ {m}
  /\ req' = [req EXCEPT ![m.who] =
                  IF m.kind = "result" THEN [@ EXCEPT !.result = said]
                                       ELSE [@ EXCEPT !.execution = said]]
  /\ UNCHANGED <<ledgerVars, entryVars, authPending, subVars, taskVars, pub,
                 todo, envVars>>

HeardAll(r) ==
  /\ "result" \in req[r].want => req[r].result # "none"
  /\ "execution" \in req[r].want => req[r].execution # "none"

FinishWait(r) ==
  /\ req[r].pc = "waiting"
  /\ HeardAll(r)
  /\ EndRequest(r)
  /\ UNCHANGED <<ledgerVars, entryVars, authPending, subVars, due, taskVars,
                 envVars>>

-----------------------------------------------------------------------------
(* Publishing a result: retain the frame in the outbox, ask the outbox whether
   it holds it, complete the ledger entry.  A request publishes as the owner of
   its flight, or (pc "reject") an error for a request it owns nothing of. *)

PubAt(p, pc) == pub' = [pub EXCEPT ![p] = [@ EXCEPT !.pc = pc]]

(* Mutant: a task that sent its own result is never released. *)
PubEndForgetsTask(p) ==
  /\ pub' = [pub EXCEPT ![p] = IdlePub]
  /\ Done(p)
  /\ UNCHANGED task

(* The publisher returns: a rejection ends, a task that sent its own result
   goes on to its release. *)
PubEnd(p) ==
  /\ pub' = [pub EXCEPT ![p] = IdlePub]
  /\ Done(p)
  /\ task' = [task EXCEPT ![p] = IF @ = "await" THEN "release" ELSE @]

(* sendResult / the outbound actor: the frame is retained or refused; only a
   result that was not handed off can still fail to encode. *)
Send(p) ==
  /\ pub[p].pc = "send"
  /\ \/ /\ PubAt(p, "check")
        /\ frames' \in {frames, frames \cup {KeyOf[p]}}
        /\ UNCHANGED <<req, task>>
     \/ /\ ~flight[p].handedOff
        /\ PubEnd(p)
        /\ UNCHANGED frames
  /\ UNCHANGED <<ledgerVars, entryVars, authPending, subVars, due, succeeded,
                 todo, acking, forgetting>>

(* Complete verifies the egress claim against the replay store, unlocked. *)
ReplayCheck(p) ==
  /\ pub[p].pc = "check"
  /\ pub' = [pub EXCEPT ![p] =
               [pc |-> "once", replayable |-> KeyOf[p] \in frames]]
  /\ UNCHANGED <<ledgerVars, entryVars, authPending, subVars, due, req,
                 taskVars, todo, envVars>>

NewReceipt(f, replayable) ==
  [identity |-> IdentityOf[f], executionKnown |-> flight[f].executionDone,
   executionOK |-> flight[f].executionOK, unavailable |-> ~replayable,
   expired |-> FALSE]

(* Mutant: an ACK that came first is ignored. *)
RememberedAlways(f) == TRUE

Remembered(f) == ~flight[f].acknowledged

(* completeOnce on a pending flight: the flight's entry becomes the receipt's,
   unless the ACK came first.  A key never has both a flight and a receipt
   (Exclusive), so the code's merge of an older receipt has nothing to do. *)
CompleteFlight(p) ==
  LET k == KeyOf[p]
      f == pending[k]
      gone == Expired(ShardOf[k])
  IN
  /\ pub[p].pc \in {"once", "final"}
  /\ f # NoFlight
  /\ receipt' = [Swept(gone) EXCEPT ![k] =
                   IF Remembered(f) THEN NewReceipt(f, pub[p].replayable)
                   ELSE NoReceipt]
  /\ Rebalance(IF Remembered(f) THEN gone ELSE gone \cup {k}, {})
  /\ CloseFlight(f, TRUE)
  /\ PubEnd(p)
  /\ UNCHANGED <<succeeded, todo, envVars>>

(* Mutant: a late completion replaces what the receipt says of the body. *)
LateReceiptOverwritten(p, gone) ==
  [Swept(gone) EXCEPT ![KeyOf[p]] = [@ EXCEPT !.unavailable = ~pub[p].replayable]]

LateReceipt(p, gone) == Swept(gone)

(* completeOnce without a flight: a receipt is immutable. *)
CompleteLate(p) ==
  LET k == KeyOf[p]
      gone == Expired(ShardOf[k])
  IN
  /\ pub[p].pc \in {"once", "final"}
  /\ pending[k] = NoFlight
  /\ Swept(gone)[k] # NoReceipt
  /\ receipt' = LateReceipt(p, gone)
  /\ Rebalance(gone, {})
  /\ PubEnd(p)
  /\ UNCHANGED <<pending, flight, flightUsed, activeAdmissions, authPending,
                 subVars, due, succeeded, todo, envVars>>

(* completeOnce with neither: a receipt that never had an owner needs an entry
   of its own; without one the expired receipts are reaped once. *)
CompleteOwnerless(p) ==
  LET k == KeyOf[p]
      gone == Expired(ShardOf[k])
      fresh == [identity |-> NoBody, executionKnown |-> FALSE,
                executionOK |-> FALSE, unavailable |-> ~pub[p].replayable,
                expired |-> FALSE]
  IN
  /\ pub[p].pc \in {"once", "final"}
  /\ pending[k] = NoFlight
  /\ Swept(gone)[k] = NoReceipt
  /\ IF CanReserve(k, FALSE, gone)
     THEN /\ receipt' = [Swept(gone) EXCEPT ![k] = fresh]
          /\ Rebalance(gone, {k})
          /\ PubEnd(p)
          /\ UNCHANGED todo
     ELSE /\ receipt' = Swept(gone)
          /\ Rebalance(gone, {})
          /\ IF pub[p].pc = "once"
             THEN /\ PubAt(p, "reap")
                  /\ todo' = [todo EXCEPT ![p] = Shards]
                  /\ UNCHANGED <<req, task>>
             ELSE /\ PubEnd(p)
                  /\ UNCHANGED todo
  /\ UNCHANGED <<pending, flight, flightUsed, activeAdmissions, authPending,
                 subVars, due, succeeded, envVars>>

-----------------------------------------------------------------------------
(* The inbound task that owns the flight. *)

TaskTo(f, st) == task' = [task EXCEPT ![f] = st]

StartHandler(f) ==
  /\ task[f] = "queued"
  /\ TaskTo(f, "running")
  /\ UNCHANGED <<ledgerVars, entryVars, authPending, subVars, due, req,
                 succeeded, pub, todo, envVars>>

(* The connection closed, the request context ended, or the admission plan was
   abandoned before the handler started. *)
DropTask(f) ==
  /\ task[f] = "queued"
  /\ TaskTo(f, "release")
  /\ UNCHANGED <<ledgerVars, entryVars, authPending, subVars, due, req,
                 succeeded, pub, todo, envVars>>

(* expireInboundRPCTicket / runInboundRPC past the deadline: RPC_TIMEOUT is
   sent for a request that never succeeded, with no hand-off. *)
QueueTimeout(f) ==
  /\ task[f] = "queued"
  /\ TaskTo(f, "await")
  /\ PubAt(f, "send")
  /\ UNCHANGED <<ledgerVars, entryVars, authPending, subVars, due, req,
                 succeeded, todo, envVars>>

(* executeInboundPlan, capacity error of an item that owns its flight: the
   execution fails, then the busy error is sent. *)
RejectOwner(f) ==
  /\ task[f] = "queued"
  /\ CompleteExecution(f, FALSE)
  /\ TaskTo(f, "await")
  /\ PubAt(f, "send")
  /\ UNCHANGED <<pending, receipt, flightUsed, activeAdmissions, entryVars,
                 authPending, req, succeeded, todo, envVars>>

(* The invokeAfter gate failed: MSG_WAIT_FAILED without running the handler. *)
FailGate(f) ==
  /\ task[f] = "queued"
  /\ CompleteExecution(f, FALSE)
  /\ TaskTo(f, "publish")
  /\ UNCHANGED <<pending, receipt, flightUsed, activeAdmissions, entryVars,
                 authPending, req, succeeded, pub, todo, envVars>>

(* publishAdmittedLayerRPCResult after the handler returned.  Past its deadline
   a success whose result cannot be bound is reported as a failure. *)
FinishHandler(f, ok, reported) ==
  /\ task[f] = "running"
  /\ reported => ok
  /\ succeeded' = succeeded \cup (IF ok THEN {f} ELSE {})
  /\ CompleteExecution(f, reported)
  /\ TaskTo(f, "publish")
  /\ UNCHANGED <<pending, receipt, flightUsed, activeAdmissions, entryVars,
                 authPending, req, pub, todo, envVars>>

(* The handler returned no usable result to a canceled connection: nothing is
   published. *)
CancelHandler(f, ok) ==
  /\ task[f] = "running"
  /\ succeeded' = succeeded \cup (IF ok THEN {f} ELSE {})
  /\ TaskTo(f, "release")
  /\ UNCHANGED <<ledgerVars, entryVars, authPending, subVars, due, req,
                 pub, todo, envVars>>

(* publishRPCResult up to the end of the inbound worker's ownership.  HandOff
   succeeds only while the lease owns the pending flight; a refused body
   budget leaves a tombstone instead of a frame. *)
HandedOffFlight(f) == [flight[f] EXCEPT !.handedOff = TRUE]

Publish(f) ==
  /\ task[f] = "publish"
  /\ TaskTo(f, "release")
  /\ \/ UNCHANGED <<flight, pub>>       \* encoding failed twice
     \/ /\ pending[KeyOf[f]] # f   \* ErrRPCResultFlightInvalid
        /\ UNCHANGED <<flight, pub>>
     \/ /\ pending[KeyOf[f]] = f
        /\ flight' = [flight EXCEPT ![f] = HandedOffFlight(f)]
        /\ pub' \in {[pub EXCEPT ![f] = [pc |-> "send", replayable |-> FALSE]],
                     [pub EXCEPT ![f] = [pc |-> "once", replayable |-> FALSE]]}
  /\ UNCHANGED <<pending, receipt, flightUsed, activeAdmissions, entryVars,
                 authPending, subVars, due, req, succeeded, todo, envVars>>

(* Mutant: the release of the task ignores the hand-off. *)
MayAbortHandedOff(f) == pending[KeyOf[f]] = f

MayAbort(f) == ~flight[f].handedOff /\ pending[KeyOf[f]] = f

(* rpcResultOwnerLease.Abort, called by the task's release. *)
Abort(f) ==
  LET k == KeyOf[f] IN
  /\ task[f] = "release"
  /\ TaskTo(f, "none")
  /\ IF MayAbort(f)
     THEN /\ CloseFlight(f, FALSE)
          /\ Rebalance({k}, {})
     ELSE UNCHANGED <<pending, flight, flightUsed, activeAdmissions, entryVars,
                      authPending, subVars, due>>
  /\ UNCHANGED <<receipt, req, succeeded, pub, todo, envVars>>

-----------------------------------------------------------------------------
(* The outbox, the client, time, and the end of logical sessions. *)

(* The outbound actor resolves an ACK: the frame goes first, the ledger is
   told afterwards. *)
AckFrame(k) ==
  /\ k \in frames
  /\ frames' = frames \ {k}
  /\ acking' = acking \cup {k}
  /\ UNCHANGED <<ledgerVars, entryVars, authPending, subVars, due, req,
                 taskVars, pub, todo, forgetting>>

AcknowledgedFlight(f) == [flight[f] EXCEPT !.acknowledged = TRUE]

Acknowledge(k) ==
  LET gone == Expired(ShardOf[k])
      f == pending[k]
  IN
  /\ k \in acking
  /\ acking' = acking \ {k}
  /\ IF Swept(gone)[k] # NoReceipt
     THEN /\ receipt' = Swept(gone \cup {k})
          /\ Rebalance(gone \cup {k}, {})
          /\ UNCHANGED flight
     ELSE /\ receipt' = Swept(gone)
          /\ Rebalance(gone, {})
          /\ flight' = IF f = NoFlight THEN flight
                       ELSE [flight EXCEPT ![f] = AcknowledgedFlight(f)]
  /\ UNCHANGED <<pending, flightUsed, activeAdmissions, authPending, subVars,
                 due, req, taskVars, pub, todo, frames, forgetting>>

(* rpcExecutionReceiptTTL runs out. *)
ReceiptTTL(k) ==
  /\ receipt[k] # NoReceipt
  /\ ~receipt[k].expired
  /\ receipt' = [receipt EXCEPT ![k] = [@ EXCEPT !.expired = TRUE]]
  /\ UNCHANGED <<pending, flight, flightUsed, activeAdmissions, entryVars,
                 authPending, subVars, due, req, taskVars, pub, todo,
                 envVars>>

(* releaseLogicalSession: the outbox frames, then the hook. *)
ReleaseLogicalSession(s) ==
  /\ frames' = {k \in frames : SessionOf[k] # s}
  /\ forgetting' = forgetting \cup ({s} \X Shards)
  /\ UNCHANGED <<ledgerVars, entryVars, authPending, subVars, due, req,
                 taskVars, pub, todo, acking>>

(* One shard of forgetSession: its receipts of the session, never a flight. *)
ForgetSession(s, h) ==
  LET gone == {k \in Keys : /\ SessionOf[k] = s /\ ShardOf[k] = h
                            /\ receipt[k] # NoReceipt}
  IN
  /\ <<s, h>> \in forgetting
  /\ forgetting' = forgetting \ {<<s, h>>}
  /\ receipt' = Swept(gone)
  /\ Rebalance(gone, {})
  /\ UNCHANGED <<pending, flight, flightUsed, activeAdmissions, authPending,
                 subVars, due, req, taskVars, pub, todo, frames, acking>>

-----------------------------------------------------------------------------
RequestStep(r) ==
  \/ Retry(r)
  \/ SubscribeOpen(r)
  \/ SubscribeClosed(r)
  \/ FinishWait(r)

PubStep(p) ==
  \/ Send(p)
  \/ ReplayCheck(p)
  \/ CompleteFlight(p)
  \/ CompleteLate(p)
  \/ CompleteOwnerless(p)

ReapStep(p) == \E h \in Shards : ExpireReceipts(p, h)

TaskStep(f) ==
  \/ StartHandler(f)
  \/ DropTask(f)
  \/ QueueTimeout(f)
  \/ RejectOwner(f)
  \/ FailGate(f)
  \/ \E ok, reported \in BOOLEAN : FinishHandler(f, ok, reported)
  \/ \E ok \in BOOLEAN : CancelHandler(f, ok)
  \/ Publish(f)
  \/ Abort(f)

Next ==
  \/ \E r \in Requests : Request(r)
  \/ \E r \in Requests : RequestStep(r)
  \/ \E r \in Requests : AbandonWaiter(r)
  \/ \E r \in Requests : RejectUnclaimed(r)
  \/ \E r \in Requests, k \in Keys : ObserveDependency(r, k)
  \/ \E m \in Callbacks : Callback(m)
  \/ \E p \in Requests : PubStep(p)
  \/ \E p \in Requests : ReapStep(p)
  \/ \E f \in Requests : TaskStep(f)
  \/ \E k \in Keys : DropExpired(k)
  \/ \E k \in Keys : AckFrame(k)
  \/ \E k \in Keys : Acknowledge(k)
  \/ \E k \in Keys : ReceiptTTL(k)
  \/ \E s \in Sessions : ReleaseLogicalSession(s)
  \/ \E s \in Sessions, h \in Shards : ForgetSession(s, h)

Spec == Init /\ [][Next]_vars

(* The scheduler runs every admitted task, a handler returns (its context has
   a deadline), the outbound actor ends every delivery, and callbacks run in
   the goroutine that detached them.  Clients, time and session ends are not
   fair. *)
Fairness ==
  /\ \A f \in Requests : WF_vars(TaskStep(f))
  /\ \A p \in Requests : WF_vars(PubStep(p)) /\ WF_vars(ReapStep(p))
  /\ \A r \in Requests : WF_vars(RequestStep(r))
  /\ \A m \in Callbacks : WF_vars(Callback(m))

FairSpec == Spec /\ Fairness

-----------------------------------------------------------------------------
(* Properties *)

(* The counters are naturals: the code panics on an underflow. *)
CounterTypes ==
  /\ flightUsed \in Nat
  /\ reservedEntries \in Nat
  /\ authEntries \in [Auths -> Nat]
  /\ sessionEntries \in [Sessions -> Nat]
  /\ authPending \in [Auths -> Nat]

(* The tables, and the state of every request, task and publication. *)
TableTypes ==
  /\ pending \in [Keys -> Requests \cup {NoFlight}]
  /\ receipt \in [Keys -> Receipts \cup {NoReceipt}]
  /\ flight \in [Requests -> FlightRecords]
  /\ activeAdmissions \in SUBSET Requests
  /\ subUsed \in Int
  /\ subAuth \in [Auths -> Int]
  /\ subSession \in [Sessions -> Int]
  /\ due \in SUBSET Callbacks
  /\ req \in [Requests -> RequestRecords]
  /\ task \in [Requests -> TaskStates]
  /\ pub \in [Requests -> PubRecords]
  /\ todo \in [Requests -> SUBSET Shards]
  /\ succeeded \in SUBSET Requests
  /\ frames \in SUBSET Keys
  /\ acking \in SUBSET Keys
  /\ forgetting \in SUBSET (Sessions \X Shards)

(* The variables have their types; none of the counters that the budgets and
   the flight limit decrement has gone below zero, where the code panics. *)
TypeOK == CounterTypes /\ TableTypes

Owned == {k \in Keys : pending[k] # NoFlight}
Answered == {k \in Keys : receipt[k] # NoReceipt}
LiveFlights == {f \in Requests : flight[f].live = "pending"}

(* A waiter is for a flight. *)
JoinedFlight == \A r \in Requests :
  req[r].pc \in {"joined", "waiting"} => req[r].flight \in Requests

(* A request key is in flight or answered, never both: acquire installs an
   owner only where no receipt survives, completeOnce swaps one for the other
   in one critical section.  (completeOnce's merge of an older receipt relies
   on it having nothing to merge.) *)
Exclusive == Owned \cap Answered = {}

(* The pending table and the flight objects agree: the lease of a live flight
   is the one its key points at, so the pointer comparison of HandOff, Abort
   and CompleteExecution tells the owner from every earlier one. *)
OwnerIdentity ==
  /\ \A k \in Owned : pending[k] \in LiveFlights /\ KeyOf[pending[k]] = k
  /\ \A f \in LiveFlights : pending[KeyOf[f]] = f

(* Every entry of the fair budget is held by exactly one flight or receipt, at
   all three scopes: the reservation moves with Complete and is returned once
   by Abort, expiry, ACK or the end of the session.  A drift either way ends
   in the release's underflow panic or in a server that refuses every owner. *)
EntryBudget ==
  LET held == Owned \cup Answered IN
  /\ reservedEntries = Cardinality(held)
  /\ \A a \in Auths : authEntries[a] = Cardinality(SharingAuth(held, a))
  /\ \A s \in Sessions : sessionEntries[s] = Cardinality(SharingSession(held, s))

(* The owner counters (flightLimit, pending per auth) and the active-admission
   set follow the pending table exactly. *)
OwnerBudget ==
  /\ flightUsed = Cardinality(Owned)
  /\ \A a \in Auths : authPending[a] = Cardinality(SharingAuth(Owned, a))
  /\ activeAdmissions = {f \in LiveFlights : IdentityOf[f] # NoBody}

(* The hard limits hold whatever the order of admissions and completions. *)
Limits ==
  /\ flightUsed <= MaxPending
  /\ reservedEntries <= GlobalMaxEntries
  /\ \A a \in Auths : /\ authEntries[a] <= AuthMaxEntries
                      /\ authPending[a] <= MaxPendingPerAuth
  /\ \A s \in Sessions : sessionEntries[s] <= SessionMaxEntries

(* The budgets of the ledger: entries and owners are counted exactly, at every
   scope, through admission, Complete, Abort, ACK, expiry, reaping and the end
   of a session in any order, and no limit is passed. *)
Budgets == EntryBudget /\ OwnerBudget /\ Limits

(* The callbacks that the flights F retain. *)
ResultSlots(F) == {x \in F \X Requests : x[2] \in flight[x[1]].subscribers}
ExecutionSlots(F) ==
  {x \in F \X Requests : x[2] \in flight[x[1]].executionSubscribers}
Charge(F) == Cardinality(ResultSlots(F)) + Cardinality(ExecutionSlots(F))

(* A flight is charged for exactly the callbacks it retains, and the three
   scopes of the subscriber budget for those of all their flights.  Refused,
   detached and abandoned callbacks are charged nowhere. *)
SubscriberBudget ==
  /\ \A f \in Requests : flight[f].subscriberSlots = Charge({f})
  /\ subUsed = Charge(Requests)
  /\ \A a \in Auths :
       subAuth[a] = Charge({f \in LiveFlights : AuthOf[KeyOf[f]] = a})
  /\ \A s \in Sessions :
       subSession[s] = Charge({f \in LiveFlights : SessionOf[KeyOf[f]] = s})

(* Where the callback r registered for `kind` is. *)
Stored(r, kind) == {f \in Requests :
  r \in IF kind = "result" THEN flight[f].subscribers
                           ELSE flight[f].executionSubscribers}
Detached(r, kind) == {m \in due : m.who = r /\ m.kind = kind}
Said(r, kind) == IF kind = "result" THEN req[r].result ELSE req[r].execution

(* A subscriber that was accepted is called exactly once per outcome it asked
   for: the callback is stored in the flight it joined, or detached, or has
   run, never two of them and never none, and a subscriber that was refused
   left no half of itself behind. *)
CallbackOnce ==
  \A r \in Requests, kind \in {"result", "execution"} :
    /\ Cardinality(Stored(r, kind)) + Cardinality(Detached(r, kind))
         + (IF Said(r, kind) = "none" THEN 0 ELSE 1)
       = IF req[r].pc = "waiting" /\ kind \in req[r].want THEN 1 ELSE 0
    /\ Stored(r, kind) \subseteq {req[r].flight}

(* What a subscriber is told is what happened to the flight it joined.  A
   positive execution outcome, which releases an invokeAfter dependency, is
   only ever reported for a handler that ran and succeeded. *)
OutcomeAgreement ==
  \A r \in Requests :
    LET f == req[r].flight IN
    req[r].pc = "waiting" =>
      /\ \A m \in Detached(r, "execution") : m.ok = flight[f].executionOK
      /\ req[r].execution # "none" =>
           (req[r].execution = "yes") = flight[f].executionOK
      /\ req[r].result # "none" =>
           flight[f].live = "closed" /\ (req[r].result = "yes") = flight[f].ok
      /\ flight[f].executionOK => f \in succeeded

(* A handed-off flight is closed by Complete only: once egress owns the result
   the release of the inbound task cannot abort it. *)
HandOffIsFinal == \A f \in Requests :
  flight[f].handedOff /\ flight[f].live = "closed" => flight[f].ok

(* The execution outcome is published once. *)
OutcomeImmutable == [][
  \A f \in Requests :
    flight[f].executionDone => flight'[f].executionOK = flight[f].executionOK]_vars

(* A result that was acknowledged while its flight was still pending leaves no
   receipt when the flight closes. *)
AckNotResurrected == [][
  \A f \in LiveFlights :
    flight[f].acknowledged /\ flight'[f].live = "closed"
      => receipt'[KeyOf[f]] = NoReceipt]_vars

(* What a receipt says of an execution comes from the flight it replaced, and
   never changes until it is removed. *)
ReceiptFaithful == [][
  \A k \in Keys : receipt'[k] # NoReceipt =>
    IF receipt[k] # NoReceipt /\ ~receipt[k].expired
    THEN [receipt'[k] EXCEPT !.expired = FALSE] = receipt[k]
    ELSE receipt'[k].executionOK /\ receipt[k] = NoReceipt
           => pending[k] # NoFlight /\ pending[k] \in succeeded]_vars

(* Every admitted owner is eventually resolved, one way or the other. *)
FlightsClose == \A f \in Requests :
  flight[f].live = "pending" ~> flight[f].live # "pending"

(* Every accepted subscriber eventually hears all it asked for. *)
SubscribersHear == \A r \in Requests :
  req[r].pc = "waiting" ~> req[r].pc = "done"

(* Two things the code's comments say of it, which its steps do not keep. *)

(* "the running handler owns the only terminal response": while a handler runs
   its flight is the pending one of its key. *)
RunningOwnsTerminal == \A f \in Requests :
  task[f] = "running" => pending[KeyOf[f]] = f

(* "no business re-execution hidden behind a local capacity error": a flight
   whose execution was reported as a success ends with an answer, not with an
   abort that leaves the key free for a second execution. *)
ExecutedIsAnswered == \A f \in Requests :
  flight[f].executionOK /\ flight[f].live = "closed" => flight[f].ok

-----------------------------------------------------------------------------
(* The ledger implements RPCOnce.  An expired receipt no longer answers
   anything, whether or not it has been reaped. *)
StatusOf(k) ==
  IF pending[k] # NoFlight THEN "running"
  ELSE IF receipt[k] # NoReceipt /\ ~receipt[k].expired THEN "answered"
  ELSE "idle"

Once == INSTANCE RPCOnce WITH status <- [k \in Keys |-> StatusOf(k)]

(* Every step of the ledger is a step of RPCOnce or changes no key's status:
   a key goes from one owner to the next only through the end of the first,
   and never while a live receipt remembers the answer. *)
ImplementsOnce == Once!Spec

=============================================================================
