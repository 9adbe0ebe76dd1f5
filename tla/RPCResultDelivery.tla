-------------------------- MODULE RPCResultDelivery --------------------------
(***************************************************************************)
(* The delivery of one rpc_result and of the hook that must run once it    *)
(* has reached a byte stream.  The result is written by the outbound actor *)
(* of the connection that asked (the source), may be retargeted to the id  *)
(* of the same request wrapped again in initConnection (the alias), and is *)
(* replayed on replacement connections.  All of them share a coordinator,  *)
(* which hands the hook to one claimant at a time.                         *)
(*                                                                         *)
(* Each of the two ids has a flight in the execution ledger.  A duplicate  *)
(* that is refused before it claims anything is answered by its id alone,  *)
(* and the error closes the flight that the id has.                        *)
(*                                                                         *)
(* A critical section is one action, and so is a step that only its own    *)
(* goroutine can see.  A deadline may pass whenever somebody waits on it.  *)
(* Bodies, budgets and the bytes on the wire are left out: a write, a      *)
(* clone, a reservation succeeds or fails.                                 *)
(***************************************************************************)
EXTENDS Integers, FiniteSets

CONSTANTS
  Replays,             \* the replays on replacement connections
  Refusable            \* the ids of which a duplicate may be refused

ASSUME ReplayAssumption ==
  /\ IsFiniteSet(Replays)
  /\ Replays \cap {"source", "alias"} = {}
  /\ Refusable \subseteq {"source", "alias"}

VARIABLES
  hook,                \* the coordinator: "unset" ... "done"
  claim,               \* the token that owns the claimed hook
  deferred,            \* deferredToReplay
  runs,                \* how often the hook's function was entered
  onWire,              \* some attempt was physically written
  tasks,               \* tokens whose run is queued, or is in the hook
  source,              \* the source attempt
  alias,               \* the alias and its delivery job
  replay               \* [Replays -> where it is]

coordinator == <<hook, claim, deferred, runs>>
vars == <<coordinator, onWire, tasks, source, alias, replay>>

NoClaim == <<"none", "none">>

(* The pointer identity of a claim: who made it, and whether it runs on the
   asynchronous executor or in an ordered restore. *)
Token(who, how) == <<who, how>>

Init ==
  /\ hook = "unset" /\ claim = NoClaim /\ deferred = FALSE /\ runs = 0
  /\ onWire = FALSE
  /\ tasks = {}
  /\ source = [at |-> "handler", state |-> "prepared", target |-> "old",
               written |-> "none", ticket |-> FALSE, ok |-> FALSE, lost |-> FALSE]
  /\ alias = [activation |-> "none", retargeted |-> FALSE, flight |-> "none",
              barrier |-> FALSE, kind |-> "none", control |-> "none",
              at |-> "waiting", timer |-> "off"]
  /\ replay = [r \in Replays |-> "idle"]

-----------------------------------------------------------------------------
(* The coordinator *)

PendingAsyncHook == hook = "pending" /\ ~deferred

Claimable(allowDeferred) == hook = "pending" /\ (allowDeferred \/ ~deferred)

(* claimLocked *)
ClaimAs(token, allowDeferred) ==
  /\ Claimable(allowDeferred)
  /\ claim' = token
  /\ hook' = "claimed"
  /\ deferred' = (deferred /\ ~allowDeferred)
  /\ UNCHANGED runs

HookSettled == hook \in {"unset", "done"}

ReleaseDeferredHook == deferred' = FALSE /\ UNCHANGED <<hook, claim, runs>>

(* Mutant: a claim is given up whatever its hook is doing. *)
AbandonAlways(token) ==
  IF claim = token /\ hook \in {"claimed", "in_progress"}
  THEN claim' = NoClaim /\ hook' = "pending" /\ UNCHANGED <<deferred, runs>>
  ELSE UNCHANGED coordinator

Abandon(token) ==
  IF claim = token /\ hook = "claimed"
  THEN claim' = NoClaim /\ hook' = "pending" /\ UNCHANGED <<deferred, runs>>
  ELSE UNCHANGED coordinator

(* run: a task whose claim was abandoned, or is another's by now, does
   nothing. *)
StartHook(token) ==
  /\ <<token, "queued">> \in tasks
  /\ IF claim = token /\ hook = "claimed"
     THEN /\ hook' = "in_progress"
          /\ runs' = runs + 1
          /\ tasks' = (tasks \ {<<token, "queued">>}) \cup {<<token, "entered">>}
     ELSE /\ tasks' = tasks \ {<<token, "queued">>}
          /\ UNCHANGED <<hook, runs>>
  /\ UNCHANGED <<claim, deferred, onWire, source, alias, replay>>

FinishHook(token) ==
  /\ <<token, "entered">> \in tasks
  /\ tasks' = tasks \ {<<token, "entered">>}
  /\ IF claim = token /\ hook = "in_progress"
     THEN hook' = "done" /\ claim' = NoClaim /\ deferred' = FALSE
     ELSE UNCHANGED <<hook, claim, deferred>>
  /\ UNCHANGED <<runs, onWire, source, alias, replay>>

(* Mutant: a hook deferred to the alias is taken as well. *)
MarkDeliveredAnyHook(who, held) ==
  \/ /\ ClaimAs(Token(who, "async"), TRUE)
     /\ tasks' = tasks \cup {<<Token(who, "async"), "queued">>}
  \/ /\ PendingAsyncHook => ~held
     /\ UNCHANGED <<coordinator, tasks>>

(* The asynchronous half of markDelivered: without executor capacity the
   claim is abandoned at once. *)
MarkDeliveredHook(who, held) ==
  \/ /\ ClaimAs(Token(who, "async"), FALSE)
     /\ tasks' = tasks \cup {<<Token(who, "async"), "queued">>}
  \/ /\ PendingAsyncHook => ~held
     /\ UNCHANGED <<coordinator, tasks>>

-----------------------------------------------------------------------------
(* The source: publishRPCResult, the outbound actor and its terminal *)

(* setDeliveryHook and HandOff.  A handler may have no hook, and a result that
   cannot be encoded loses it.  A result whose body cannot be retained is only
   recorded as executed: it is fenced and completed at once.  HandOff fails when
   the flight was lost: the result is dropped, after its hook was set. *)
PublishRPCResult ==
  /\ source.at = "handler"
  /\ hook' \in {"pending", "unset"}
  /\ \/ /\ ~source.lost
        /\ source' = [source EXCEPT !.at = "ready", !.ok = TRUE]
     \/ /\ ~source.lost
        /\ source' = [source EXCEPT !.at = "done", !.ok = TRUE, !.state = "replayable"]
     \/ /\ source.lost
        /\ source' = [source EXCEPT !.at = "done"]
  /\ UNCHANGED <<claim, deferred, runs, onWire, tasks, alias, replay>>

(* A refused duplicate of the source: its error closes the flight, and is what
   the subscribers are given.  The owner goes on without knowing. *)
SourceAnswered ==
  /\ "source" \in Refusable
  /\ source.at # "done"
  /\ ~source.lost
  /\ source' = [source EXCEPT !.lost = TRUE]
  /\ UNCHANGED <<coordinator, onWire, tasks, alias, replay>>

(* The owner gives up before there is a result. *)
AbortOwner ==
  /\ source.at = "handler"
  /\ source' = [source EXCEPT !.at = "done"]
  /\ UNCHANGED <<coordinator, onWire, tasks, alias, replay>>

MarkQueued ==
  /\ source.at = "ready"
  /\ source' = [source EXCEPT !.at = "admit", !.state = "queued"]
  /\ UNCHANGED <<coordinator, onWire, tasks, alias, replay>>

(* prepareDeliveryHook and the enqueue; either may fail. *)
AdmitSource ==
  /\ source.at = "admit"
  /\ \/ source' = [source EXCEPT !.at = "enqueued", !.ticket = PendingAsyncHook]
     \/ source' = [source EXCEPT !.at = "failed"]
  /\ UNCHANGED <<coordinator, onWire, tasks, alias, replay>>

(* tryRetarget excludes beginWriting: the hook is deferred, and its ticket
   given back, before the actor can write. *)
TryRetarget ==
  /\ alias.activation = "subscribed"
  /\ IF source.state \in {"prepared", "queued"}
     THEN /\ deferred' = (deferred \/ hook # "done")
          /\ source' = [source EXCEPT !.target = "new", !.ticket = FALSE]
          /\ alias' = [alias EXCEPT !.activation = "tried"]
     ELSE /\ alias' = [alias EXCEPT !.activation = "done"]
          /\ UNCHANGED <<deferred, source>>
  /\ UNCHANGED <<hook, claim, runs, onWire, tasks, replay>>

StoreRetargeted ==
  /\ alias.activation = "tried"
  /\ alias' = [alias EXCEPT !.activation = "done", !.retargeted = TRUE]
  /\ UNCHANGED <<coordinator, onWire, tasks, source, replay>>

(* The actor snapshots the target, unless the connection is over by then. *)
BeginWriting ==
  /\ source.at = "enqueued"
  /\ \/ source' = [source EXCEPT !.at = "writing", !.state = "writing",
                                 !.written = source.target]
     \/ source' = [source EXCEPT !.at = "failed"]
  /\ UNCHANGED <<coordinator, onWire, tasks, alias, replay>>

WriteSource ==
  /\ source.at = "writing"
  /\ \/ source' = [source EXCEPT !.at = "written"] /\ onWire' = TRUE
     \/ source' = [source EXCEPT !.at = "failed"] /\ UNCHANGED onWire
  /\ UNCHANGED <<coordinator, tasks, alias, replay>>

(* terminal(err): markReplayable, the fence, and Complete, which publishes
   the result to replays and to the alias. *)
SourceFails ==
  /\ source.at = "failed"
  /\ source' = [source EXCEPT !.at = "done", !.state = "replayable", !.ticket = FALSE]
  /\ UNCHANGED <<coordinator, onWire, tasks, alias, replay>>

(* terminal(nil): markDelivered takes the ticket and claims the hook in two
   critical sections, then Complete. *)
MarkSourceDelivered ==
  /\ source.at = "written"
  /\ source' = [source EXCEPT !.at = "delivered", !.state = "delivered"]
  /\ UNCHANGED <<coordinator, onWire, tasks, alias, replay>>

SourceDelivered ==
  /\ source.at = "delivered"
  /\ MarkDeliveredHook("source", source.ticket)
  /\ source' = [source EXCEPT !.at = "done", !.ticket = FALSE]
  /\ UNCHANGED <<onWire, alias, replay>>

-----------------------------------------------------------------------------
(* The alias: activate, the subscriber it installs, and the delivery job *)

(* Barrier and subscription come first; an alias of another connection does
   not retarget.  A pending flight may refuse the subscription for capacity:
   the barrier falls again, and the plan aborts the alias's flight. *)
Activate ==
  /\ alias.activation = "none"
  /\ \/ \E next \in {"subscribed", "done"} :
          alias' = [alias EXCEPT !.activation = next, !.flight = "pending",
                                 !.barrier = TRUE]
     \/ /\ source.at # "done" /\ ~source.lost
        /\ alias' = [alias EXCEPT !.activation = "done", !.flight = "aborted",
                                  !.at = "ended"]
  /\ UNCHANGED <<coordinator, onWire, tasks, source, replay>>

(* A refused duplicate of the alias closes its flight. *)
AliasAnswered ==
  /\ "alias" \in Refusable
  /\ alias.flight = "pending"
  /\ alias' = [alias EXCEPT !.flight = "answered"]
  /\ UNCHANGED <<coordinator, onWire, tasks, source, replay>>

(* storeResultOnce: Complete of the alias's flight. *)
Stored(a) == [a EXCEPT !.flight = IF @ = "pending" THEN "completed" ELSE @]

(* newOwner.Abort *)
Aborted(a) == [a EXCEPT !.flight = IF @ = "pending" THEN "aborted" ELSE @]

(* finishReplayRestoreWithoutDelivery, and the alias is over. *)
Ended(a) == [a EXCEPT !.at = "ended", !.barrier = FALSE]

(* The job's fail callback: the result is kept for a replay, the deferral is
   given up, and the barrier falls. *)
FailJob(a) == [Stored(a) EXCEPT !.barrier = FALSE]

(* The alias was given the result of the source, and not the error of a refused
   duplicate, which has a coordinator of its own and no hook. *)
OwnResult == ~source.lost

ReleaseByAlias ==
  IF OwnResult THEN ReleaseDeferredHook ELSE UNCHANGED coordinator

RetargetDelivered ==
  /\ OwnResult
  /\ alias.retargeted
  /\ source.state = "delivered"
  /\ source.written = "new"

Scheduled ==
  [alias EXCEPT !.at = "queued", !.control = "pending", !.timer = "armed",
                !.kind = IF RetargetDelivered THEN "restore" ELSE "send"]

(* The result subscriber, when the source has completed or aborted. *)
ResultSubscriber ==
  /\ source.at = "done" \/ source.lost
  /\ alias.activation # "none"
  /\ alias.at = "waiting"
  /\ \/ /\ ~source.ok /\ ~source.lost
        /\ alias' = Ended(Aborted(alias))
        /\ ReleaseDeferredHook
     \/ /\ source.ok \/ source.lost       \* the clone cannot be reserved
        /\ alias' = Ended(Aborted(alias))
        /\ UNCHANGED coordinator
     \/ /\ source.ok \/ source.lost       \* HandOff fails
        /\ RetargetDelivered /\ alias.flight # "pending"
        /\ alias' = Ended(alias)
        /\ UNCHANGED coordinator
     \/ /\ source.ok \/ source.lost
        /\ RetargetDelivered => alias.flight = "pending"
        /\ alias' = Scheduled
        /\ UNCHANGED coordinator
     \/ /\ source.ok \/ source.lost       \* the job queue is full
        /\ RetargetDelivered => alias.flight = "pending"
        /\ alias' = Ended(FailJob(alias))
        /\ ReleaseByAlias
  /\ UNCHANGED <<onWire, tasks, source, replay>>

(* The deadline timer wins the control, and then runs the fail callback. *)
TimerFires ==
  /\ alias.timer = "armed"
  /\ alias.control \in {"pending", "running", "committed"}
  /\ alias' = [alias EXCEPT !.control = "failed", !.timer = "fired",
                            !.at = IF @ = "queued" THEN "ended" ELSE @]
  /\ UNCHANGED <<coordinator, onWire, tasks, source, replay>>

(* Mutant: the fail callback forgets the flight of a job that has begun. *)
TimerFailsUnstarted ==
  /\ alias.timer = "fired"
  /\ alias' = [alias EXCEPT !.timer = "off", !.barrier = FALSE,
                            !.flight = IF alias.at = "ended" THEN "completed" ELSE @]
  /\ ReleaseByAlias
  /\ UNCHANGED <<onWire, tasks, source, replay>>

TimerFails ==
  /\ alias.timer = "fired"
  /\ alias' = [FailJob(alias) EXCEPT !.timer = "off"]
  /\ ReleaseByAlias
  /\ UNCHANGED <<onWire, tasks, source, replay>>

(* A worker takes the job, unless the timer was first. *)
StartJob ==
  /\ alias.at = "queued"
  /\ alias.control = "pending"
  /\ alias' = [alias EXCEPT !.control = "running",
                            !.at = IF alias.kind = "send" THEN "hand_off" ELSE "commit"]
  /\ UNCHANGED <<coordinator, onWire, tasks, source, replay>>

(* complete: the worker leaves, and with it the timer. *)
Complete(a) ==
  [a EXCEPT !.at = "ended",
            !.control = IF @ \in {"running", "committed"} THEN "complete" ELSE @,
            !.timer = IF @ = "armed" THEN "off" ELSE @]

Commit(a) == [a EXCEPT !.control = IF @ = "running" THEN "committed" ELSE @]

(* The restore of a retargeted result that was delivered. *)
CommitRestore ==
  /\ alias.at = "commit"
  /\ alias' = IF alias.control = "running"
              THEN [Commit(alias) EXCEPT !.at = "claim"] ELSE Complete(alias)
  /\ UNCHANGED <<coordinator, onWire, tasks, source, replay>>

(* publishRewrappedRPCResult up to the actor. *)
HandOffAlias ==
  /\ alias.at = "hand_off"
  /\ alias' = IF alias.flight # "pending"
              THEN [Complete(alias) EXCEPT !.barrier = FALSE]
              ELSE IF alias.control = "running"
              THEN [alias EXCEPT !.at = "sending"] ELSE Complete(alias)
  /\ UNCHANGED <<coordinator, onWire, tasks, source, replay>>

(* The physical terminal; control.commit tells who owns the outcome. *)
WriteAlias ==
  /\ alias.at = "sending"
  /\ \/ /\ onWire' = (onWire \/ OwnResult)
        /\ alias' = [Commit(alias) EXCEPT !.at = "claim"]
        /\ UNCHANGED coordinator
     \/ /\ alias.control = "running"
        /\ alias' = Complete(FailJob(Commit(alias)))
        /\ ReleaseByAlias
        /\ UNCHANGED onWire
     \/ /\ alias.control # "running"
        /\ alias' = Complete(alias)
        /\ UNCHANGED <<coordinator, onWire>>
  /\ UNCHANGED <<tasks, source, replay>>

(* completeDeliveredRPCRewrapResult: the alias alone may claim a deferred
   hook.  It waits for another's claim until its deadline. *)
ClaimForAlias ==
  /\ alias.at \in {"claim", "waiting_claim"}
  /\ \/ /\ OwnResult
        /\ ClaimAs(Token("alias", "sync"), TRUE)
        /\ alias' = [alias EXCEPT !.at = "restore"]
     \/ /\ HookSettled \/ ~OwnResult
        /\ alias' = [alias EXCEPT !.at = "restore"]
        /\ UNCHANGED coordinator
     \/ /\ OwnResult
        /\ alias.at = "claim" /\ ~HookSettled /\ ~Claimable(TRUE)
        /\ alias' = [alias EXCEPT !.at = "waiting_claim"]
        /\ UNCHANGED coordinator
     \/ /\ alias.at = "waiting_claim" /\ ~HookSettled
        /\ alias' = [alias EXCEPT !.at = "timed_out"]
        /\ UNCHANGED coordinator
  /\ UNCHANGED <<onWire, tasks, source, replay>>

(* markDelivered, the fence, the store and the barrier. *)
AliasTimedOut ==
  /\ alias.at = "timed_out"
  /\ MarkDeliveredHook("alias", FALSE)
  /\ alias' = Complete(FailJob(alias))
  /\ UNCHANGED <<onWire, source, replay>>

(* A free restore slot starts the ordered restore; none until the deadline
   abandons the claim. *)
RestoreAlias ==
  /\ alias.at = "restore"
  /\ \/ /\ tasks' = tasks \cup {<<Token("alias", "sync"), "queued">>}
        /\ alias' = [alias EXCEPT !.at = "wait"]
        /\ UNCHANGED coordinator
     \/ /\ Abandon(Token("alias", "sync"))
        /\ alias' = Complete(FailJob(alias))
        /\ UNCHANGED tasks
  /\ UNCHANGED <<onWire, source, replay>>

Over(token) == \A stage \in {"queued", "entered"} : <<token, stage>> \notin tasks

WaitAlias ==
  /\ alias.at = "wait"
  /\ IF Over(Token("alias", "sync")) THEN UNCHANGED coordinator
                                     ELSE Abandon(Token("alias", "sync"))
  /\ alias' = Complete(FailJob(alias))
  /\ UNCHANGED <<onWire, tasks, source, replay>>

-----------------------------------------------------------------------------
(* A replay on a replacement connection: sendReplayedRPCResult *)

Go(r, at) == replay' = [replay EXCEPT ![r] = at]

(* A duplicate had joined the flight that was completed, or its receipt leads to
   the frame, which the actor retains under the id it is about to write. *)
Replayable ==
  \/ source.at = "done" /\ source.ok
  \/ source.written = "old" /\ source.lost
  \/ source.written = "new" /\ alias.flight \in {"answered", "completed"}

SendReplay(r) ==
  /\ replay[r] = "idle"
  /\ Replayable
  /\ \/ Go(r, "claim") /\ onWire' = TRUE
     \/ Go(r, "ended") /\ UNCHANGED onWire
  /\ UNCHANGED <<coordinator, tasks, source, alias>>

ClaimForReplay(r) ==
  /\ replay[r] \in {"claim", "waiting_claim"}
  /\ \/ ClaimAs(Token(r, "sync"), FALSE) /\ Go(r, "restore")
     \/ HookSettled /\ Go(r, "ended") /\ UNCHANGED coordinator
     \/ /\ replay[r] = "claim" /\ ~HookSettled /\ ~Claimable(FALSE)
        /\ Go(r, "waiting_claim")
        /\ UNCHANGED coordinator
     \/ /\ replay[r] = "waiting_claim" /\ ~HookSettled
        /\ Go(r, "timed_out")
        /\ UNCHANGED coordinator
  /\ UNCHANGED <<onWire, tasks, source, alias>>

ReplayTimedOut(r) ==
  /\ replay[r] = "timed_out"
  /\ MarkDeliveredHook(r, FALSE)
  /\ Go(r, "ended")
  /\ UNCHANGED <<onWire, source, alias>>

RestoreReplay(r) ==
  /\ replay[r] = "restore"
  /\ \/ /\ tasks' = tasks \cup {<<Token(r, "sync"), "queued">>}
        /\ Go(r, "wait")
        /\ UNCHANGED coordinator
     \/ Abandon(Token(r, "sync")) /\ Go(r, "ended") /\ UNCHANGED tasks
  /\ UNCHANGED <<onWire, source, alias>>

WaitReplay(r) ==
  /\ replay[r] = "wait"
  /\ IF Over(Token(r, "sync")) THEN UNCHANGED coordinator ELSE Abandon(Token(r, "sync"))
  /\ Go(r, "ended")
  /\ UNCHANGED <<onWire, tasks, source, alias>>

-----------------------------------------------------------------------------
SourceStep ==
  \/ PublishRPCResult \/ AbortOwner \/ MarkQueued \/ AdmitSource \/ BeginWriting
  \/ WriteSource \/ SourceFails \/ MarkSourceDelivered \/ SourceDelivered

AliasStep ==
  \/ TryRetarget \/ StoreRetargeted \/ ResultSubscriber \/ StartJob \/ CommitRestore
  \/ HandOffAlias \/ ClaimForAlias \/ AliasTimedOut \/ RestoreAlias \/ WaitAlias

Timer == TimerFires \/ TimerFails

ReplayStep(r) ==
  \/ SendReplay(r) \/ ClaimForReplay(r) \/ ReplayTimedOut(r) \/ RestoreReplay(r)
  \/ WaitReplay(r)

Next ==
  \/ SourceStep
  \/ SourceAnswered \/ AliasAnswered
  \/ Activate
  \/ AliasStep
  \/ WriteAlias
  \/ Timer
  \/ \E task \in tasks : StartHook(task[1]) \/ FinishHook(task[1])
  \/ \E r \in Replays : ReplayStep(r)

Spec == Init /\ [][Next]_vars

(* The server's goroutines run, and timers fire.  A socket write and a hook
   may block for ever: nothing is asked of them. *)
FairSpec == Spec /\ WF_vars(AliasStep) /\ WF_vars(Timer)

-----------------------------------------------------------------------------
(* Properties *)

(* The hook runs at most once, and not before some attempt was written:
   whatever source, alias and replays do at the same time, and whichever of
   them times out, is abandoned, or comes late. *)
LogicalHookOnce == runs <= 1 /\ (runs = 1 => onWire)

(* The delivery of the alias is over, or its watchdog has failed it. *)
AliasReleased == alias.at = "ended" \/ (alias.control = "failed" /\ alias.timer = "off")

(* A result retargeted before it was written keeps its hook for the alias: until
   the alias's delivery is over or failed by its watchdog, neither the terminal
   of the source nor a replay holds the claim (claimLocked). *)
ReservedForAlias ==
  source.target = "new" /\ claim # NoClaim /\ claim[1] # "alias" => AliasReleased

(* Once the source is over, or its flight was closed by a refused duplicate, an
   alias ends: its flight is closed, and the scheduler barrier of its connection
   falls, even if its write or its hook never returns. *)
AliasSettles ==
  ((source.at = "done" \/ source.lost) /\ alias.activation # "none")
     ~> (alias.flight # "pending" /\ ~alias.barrier)

(* What rpcResultDeliveryCoordinator says of deferredToReplay: once the alias has
   failed, a replay that was written may claim the hook. *)
DeferralReleased ==
  /\ alias.at = "ended" /\ alias.timer # "fired"
  /\ hook = "pending"
  /\ \E r \in Replays : replay[r] = "waiting_claim"
  => ~deferred
=============================================================================
