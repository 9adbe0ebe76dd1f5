-------------------------- MODULE RPCDeliveryHooks --------------------------
(***************************************************************************)
(* The executor of delivery hooks: the transitions that become visible     *)
(* only once an rpc_result has been written.                               *)
(*                                                                         *)
(* A physical write reserves a ticket before it is admitted and later      *)
(* either releases it (the write failed) or submits its hook.  A fixed set *)
(* of workers runs the hooks in order.  One mutex guards the queue and the *)
(* stopping flag; the slots are a buffered channel, which a worker about   *)
(* to exit reads under the mutex and everybody else leaves without it.     *)
(***************************************************************************)
EXTENDS Integers, Sequences, FiniteSets

CONSTANTS
  Tickets,         \* physical writes, one reservation each
  Workers,
  Capacity,        \* the size of the slots channel
  NoTicket

ASSUME HookAssumption ==
  /\ IsFiniteSet(Tickets)
  /\ Workers # {}
  /\ Capacity \in Nat
  /\ NoTicket \notin Tickets

VARIABLES
  ticket,          \* [Tickets -> where the reservation is]
  slots,           \* len(e.slots)
  queue,           \* the linked list from head to tail
  started,         \* the start Once has run
  stopping,
  worker,          \* [Workers -> where the goroutine is]
  job,             \* [Workers -> the ticket whose hook it runs]
  stopped          \* stop has seen every worker return

workerVars == <<worker, job>>
hooksVars == <<ticket, slots, queue, started, stopping, workerVars, stopped>>

HooksInit ==
  /\ ticket = [t \in Tickets |-> "new"]
  /\ slots = 0
  /\ queue = <<>>
  /\ started = FALSE
  /\ stopping = FALSE
  /\ worker = [w \in Workers |-> "off"]
  /\ job = [w \in Workers |-> NoTicket]
  /\ stopped = FALSE

-----------------------------------------------------------------------------
(* cond.Wait.  A woken worker takes the mutex again and looks at the queue
   again, as one that just finished a hook does. *)

Waiting == {w \in Workers : worker[w] = "waiting"}
Woken(S) == [w \in Workers |-> IF w \in S THEN "ready" ELSE worker[w]]

Broadcast == worker' = Woken(Waiting)

(* Mutant: the job is queued without waking anybody. *)
NobodySignalled == UNCHANGED worker

Signal ==
  IF Waiting = {} THEN UNCHANGED worker
  ELSE \E w \in Waiting : worker' = Woken({w})

-----------------------------------------------------------------------------
(* reserve *)

(* startWorkers: the first caller spawns them, unless stop came before. *)
StartWorkers(t) ==
  /\ ticket[t] = "new"
  /\ ticket' = [ticket EXCEPT ![t] = "asking"]
  /\ started' = TRUE
  /\ worker' = IF started \/ stopping THEN worker
               ELSE [w \in Workers |-> "ready"]
  /\ UNCHANGED <<slots, queue, stopping, job, stopped>>

HasRoom == ~stopping /\ slots < Capacity

Reserve(t) ==
  /\ ticket[t] = "asking"
  /\ IF HasRoom
     THEN /\ ticket' = [ticket EXCEPT ![t] = "reserved"]
          /\ slots' = slots + 1
     ELSE /\ ticket' = [ticket EXCEPT ![t] = "rejected"]
          /\ UNCHANGED slots
  /\ UNCHANGED <<queue, started, stopping, workerVars, stopped>>

-----------------------------------------------------------------------------
(* release and submit race for the ticket's state; the loser does nothing. *)

(* Mutant: release does not look at the state submit left. *)
ReleaseUnchecked(t) ==
  /\ ticket[t] \in {"reserved", "queued"}
  /\ ticket' = [ticket EXCEPT ![t] = "releasing"]
  /\ UNCHANGED <<slots, queue, started, stopping, workerVars, stopped>>

Release(t) ==
  /\ ticket[t] = "reserved"
  /\ ticket' = [ticket EXCEPT ![t] = "releasing"]
  /\ UNCHANGED <<slots, queue, started, stopping, workerVars, stopped>>

(* Mutant: the slot of a released ticket is never received. *)
ReleaseSlotLeaked(t) ==
  /\ ticket[t] = "releasing"
  /\ ticket' = [ticket EXCEPT ![t] = "signalling"]
  /\ UNCHANGED <<slots, queue, started, stopping, workerVars, stopped>>

ReleaseSlot(t) ==
  /\ ticket[t] = "releasing"
  /\ ticket' = [ticket EXCEPT ![t] = "signalling"]
  /\ slots' = slots - 1
  /\ UNCHANGED <<queue, started, stopping, workerVars, stopped>>

(* Mutant: a released ticket tells no worker. *)
ReleasedQuietly(t) ==
  /\ ticket[t] = "signalling"
  /\ ticket' = [ticket EXCEPT ![t] = "released"]
  /\ UNCHANGED <<slots, queue, started, stopping, workerVars, stopped>>

Released(t) ==
  /\ ticket[t] = "signalling"
  /\ ticket' = [ticket EXCEPT ![t] = "released"]
  /\ Broadcast
  /\ UNCHANGED <<slots, queue, started, stopping, job, stopped>>

Submit(t) ==
  /\ ticket[t] = "reserved"
  /\ ticket' = [ticket EXCEPT ![t] = "submitting"]
  /\ UNCHANGED <<slots, queue, started, stopping, workerVars, stopped>>

Enqueue(t) ==
  /\ ticket[t] = "submitting"
  /\ ticket' = [ticket EXCEPT ![t] = "queued"]
  /\ queue' = Append(queue, t)
  /\ Signal
  /\ UNCHANGED <<slots, started, stopping, job, stopped>>

-----------------------------------------------------------------------------
(* run and runOne *)

Take(w) ==
  /\ worker[w] = "ready"
  /\ queue # <<>>
  /\ queue' = Tail(queue)
  /\ job' = [job EXCEPT ![w] = Head(queue)]
  /\ worker' = [worker EXCEPT ![w] = "running"]
  /\ ticket' = [ticket EXCEPT ![Head(queue)] = "running"]
  /\ UNCHANGED <<slots, started, stopping, stopped>>

(* Mutant: a worker leaves as soon as it finds the queue empty. *)
MayExitEarly == stopping

MayExit == stopping /\ slots = 0

Idle(w) ==
  /\ worker[w] = "ready"
  /\ queue = <<>>
  /\ worker' = [worker EXCEPT ![w] = IF MayExit THEN "exited" ELSE "waiting"]
  /\ UNCHANGED <<ticket, slots, queue, started, stopping, job, stopped>>

(* The hook returned, or panicked and was recovered. *)
RunOne(w) ==
  /\ worker[w] = "running"
  /\ worker' = [worker EXCEPT ![w] = "signalling"]
  /\ ticket' = [ticket EXCEPT ![job[w]] = "done"]
  /\ job' = [job EXCEPT ![w] = NoTicket]
  /\ slots' = slots - 1
  /\ UNCHANGED <<queue, started, stopping, stopped>>

SignalDone(w) ==
  /\ worker[w] = "signalling"
  /\ worker' = Woken(Waiting \cup {w})
  /\ UNCHANGED <<ticket, slots, queue, started, stopping, job, stopped>>

-----------------------------------------------------------------------------
(* stop.  A timeout only ends the caller's wait. *)

Stop ==
  /\ ~stopping
  /\ stopping' = TRUE
  /\ Broadcast
  /\ UNCHANGED <<ticket, slots, queue, started, job, stopped>>

Drained ==
  /\ stopping
  /\ ~stopped
  /\ \A w \in Workers : worker[w] \in {"off", "exited"}
  /\ stopped' = TRUE
  /\ UNCHANGED <<ticket, slots, queue, started, stopping, workerVars>>

TicketStep(t) ==
  \/ Reserve(t)
  \/ Release(t)
  \/ ReleaseSlot(t)
  \/ Released(t)
  \/ Submit(t)
  \/ Enqueue(t)

WorkerStep(w) ==
  \/ Take(w)
  \/ Idle(w)
  \/ RunOne(w)
  \/ SignalDone(w)

HooksNext ==
  \/ \E t \in Tickets : StartWorkers(t)
  \/ \E t \in Tickets : TicketStep(t)
  \/ \E w \in Workers : WorkerStep(w)
  \/ Stop
  \/ Drained

HooksSpec == HooksInit /\ [][HooksNext]_hooksVars

(* A goroutine that can run runs; the writer of a frame ends its write and
   disposes of the ticket (markDelivered, markReplayable); a hook returns. *)
Fairness ==
  /\ \A t \in Tickets : WF_hooksVars(TicketStep(t))
  /\ \A w \in Workers : WF_hooksVars(WorkerStep(w))
  /\ WF_hooksVars(Drained)

HooksFairSpec == HooksSpec /\ Fairness

-----------------------------------------------------------------------------
(* Properties *)

TicketStates ==
  {"new", "asking", "rejected", "reserved", "releasing", "signalling",
   "released", "submitting", "queued", "running", "done"}

(* The variables have their types; the slots stay within the channel. *)
HooksTypeOK ==
  /\ ticket \in [Tickets -> TicketStates]
  /\ slots \in 0..Capacity
  /\ queue \in Seq(Tickets)
  /\ started \in BOOLEAN
  /\ stopping \in BOOLEAN
  /\ worker \in [Workers -> {"off", "ready", "waiting", "running",
                             "signalling", "exited"}]
  /\ job \in [Workers -> Tickets \cup {NoTicket}]
  /\ stopped \in BOOLEAN

Outstanding == {t \in Tickets :
  ticket[t] \in {"reserved", "releasing", "submitting", "queued", "running"}}

(* A slot is held by exactly one outstanding ticket: a receive on the channel
   never blocks, and a drained executor has no slot left over. *)
SlotsExact == slots = Cardinality(Outstanding)

(* A hook is in one place: queued once, or run by one worker.  No hook is run
   twice and none leaves the queue unrun. *)
HookOnce ==
  /\ \A t \in Tickets :
       /\ ticket[t] = "queued"
            <=> \E i \in 1..Len(queue) : queue[i] = t
       /\ ticket[t] = "running" <=> \E w \in Workers : job[w] = t
  /\ \A i, j \in 1..Len(queue) : queue[i] = queue[j] => i = j
  /\ \A v, w \in Workers : job[v] = job[w] /\ job[v] # NoTicket => v = w
  /\ \A w \in Workers : worker[w] = "running" <=> job[w] # NoTicket

(* "Timing out never abandons jobs": a worker leaves only when no ticket is
   left that could still bring a hook, and no ticket is handed out after. *)
NoHookAbandoned ==
  (stopped \/ \E w \in Workers : worker[w] = "exited")
    => stopping /\ Outstanding = {}

(* No lost wakeup: while a hook is queued some worker is up and will look at
   the queue before it waits. *)
SomebodyAwake ==
  queue # <<>> => \E w \in Workers : worker[w] \in {"ready", "running", "signalling"}

(* Every reserved ticket is released or its hook has run. *)
TicketsEnd == \A t \in Tickets :
  ticket[t] = "reserved" ~> ticket[t] \in {"released", "done"}

(* A stop that waits long enough sees every worker return: the last ticket to
   go, released or run, wakes the workers that wait for it. *)
StopDrains == stopping ~> stopped

=============================================================================
