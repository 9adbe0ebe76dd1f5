----------------------------- MODULE PhoneCalls -----------------------------
(***************************************************************************)
(* The private 1:1 calls: the in-process registry, its state machine, and  *)
(* the RPC handlers and the expiry worker that drive it.  A method of the  *)
(* service is one critical section of the registry's mutex.  What its      *)
(* caller does with the snapshot it gets back, the pushes of the terminal  *)
(* state to both sides and the service message in their history, comes     *)
(* later, between the steps of others.                                     *)
(*                                                                         *)
(* A call id is 63 random bits: the model never issues one twice.  Pushes  *)
(* of the states in which a call is alive change nothing here.             *)
(***************************************************************************)
EXTENDS Integers, Sequences, FiniteSets

CONSTANTS
  Calls,               \* the call ids that may be issued
  Users,
  Callers,             \* the users that place calls
  Randoms,             \* the random ids that callers choose
  MaxActivePerUser,
  MaxRegistryEntries,
  None

ASSUME PhoneAssumption ==
  /\ IsFiniteSet(Calls)
  /\ Callers \subseteq Users
  /\ MaxActivePerUser \in Nat \ {0}
  /\ MaxRegistryEntries \in Nat \ {0}

VARIABLES
  issued,              \* the call ids that have been used
  byID,                \* [Calls -> the call, or None]
  byRandom,            \* [Users \X Randoms -> the call id, or None]
  active,              \* [Users -> the number of live calls]
  work,                \* what the handlers still have to do with a snapshot
  heard,               \* [Calls -> the sides that were pushed the end]
  history              \* [Calls -> the service messages written]

registry == <<issued, byID, byRandom, active>>
vars == <<registry, work, heard, history>>

States == {"requested", "ringing", "accepted", "confirmed", "discarded"}
(* hangup stands for every reason a client gives, but for the migration. *)
Reasons == {"hangup", "migrate", "disconnect", "missed"}

CallRecords ==
  [admin : Users, participant : Users, random : Randoms, state : States,
   started : BOOLEAN, duration : Nat, reason : Reasons \cup {None},
   due : BOOLEAN, old : BOOLEAN]

ASSUME NoneAssumption == None \notin Calls /\ None \notin CallRecords

(* due: older than the ring timeout.  old: past the tombstone's retention. *)
NewCall(u, v, x) ==
  [admin |-> u, participant |-> v, random |-> x, state |-> "requested",
   started |-> FALSE, duration |-> 0, reason |-> None, due |-> FALSE, old |-> FALSE]

Known(c) == byID[c] # None
Terminal(call) == call.state = "discarded"
Live == {c \in Calls : Known(c) /\ ~Terminal(byID[c])}

Init ==
  /\ issued = {}
  /\ byID = [c \in Calls |-> None]
  /\ byRandom = [key \in Users \X Randoms |-> None]
  /\ active = [u \in Users |-> 0]
  /\ work = {}
  /\ heard = [c \in Calls |-> {}]
  /\ history = [c \in Calls |-> <<>>]

-----------------------------------------------------------------------------
(* The registry.  Each operator maps a registry r = [byID, byRandom, active]
   to the next. *)

Registry == [byID |-> byID, byRandom |-> byRandom, active |-> active]

Becomes(r) == byID' = r.byID /\ byRandom' = r.byRandom /\ active' = r.active

Key(call) == <<call.admin, call.random>>

Tombstones(r) == {c \in Calls : r.byID[c] # None /\ Terminal(r.byID[c]) /\ r.byID[c].old}

(* Mutant: the tombstones take the keys they once had with them. *)
SweepTombstonesAndKeys(r) ==
  LET swept == Tombstones(r) IN
  [r EXCEPT
    !.byID = [c \in Calls |-> IF c \in swept THEN None ELSE r.byID[c]],
    !.byRandom = [key \in Users \X Randoms |->
       IF \E c \in swept : Key(r.byID[c]) = key THEN None ELSE r.byRandom[key]]]

SweepTombstones(r) ==
  LET swept == Tombstones(r) IN
  [r EXCEPT
    !.byID = [c \in Calls |-> IF c \in swept THEN None ELSE r.byID[c]],
    !.byRandom = [key \in Users \X Randoms |->
       IF r.byRandom[key] \in swept THEN None ELSE r.byRandom[key]]]

(* markDiscardedLocked, of the calls that "reason" has one for, at once. *)
MarkDiscarded(r, reason, duration) ==
  LET ended == {c \in DOMAIN reason : ~Terminal(r.byID[c])} IN
  [r EXCEPT
    !.byID = [c \in Calls |->
       IF c \in ended
       THEN [r.byID[c] EXCEPT !.state = "discarded", !.reason = reason[c],
                              !.duration = duration]
       ELSE r.byID[c]],
    !.active = [u \in Users |->
       r.active[u] - Cardinality({c \in ended : r.byID[c].admin = u})]]

(* What is left to do: a snapshot, the sides to push it to, and whether it
   goes into the history. *)
Work(c, r, record) ==
  [call |-> c, snap |-> r.byID[c], push |-> <<"admin", "participant">>,
   record |-> record]

-----------------------------------------------------------------------------
(* The handlers *)

(* An unterminated call of the same caller and random id is returned as it
   is, whoever the request now names. *)
Retried(r, u, x) ==
  LET c == r.byRandom[<<u, x>>] IN
  c # None /\ ~Terminal(r.byID[c])

RequestCall(u, v, x) ==
  LET r == SweepTombstones(Registry)
      room == /\ Cardinality({d \in Calls : r.byID[d] # None}) < MaxRegistryEntries
              /\ r.active[u] < MaxActivePerUser
      c == CHOOSE d \in Calls : d \notin issued IN
  /\ u # v
  /\ \/ /\ Retried(r, u, x) \/ ~room
        /\ Becomes(r)
        /\ UNCHANGED issued
     \/ /\ ~Retried(r, u, x)
        /\ room
        /\ issued # Calls
        /\ issued' = issued \cup {c}
        /\ Becomes([byID     |-> [r.byID EXCEPT ![c] = NewCall(u, v, x)],
                    byRandom |-> [r.byRandom EXCEPT ![<<u, x>>] = c],
                    active   |-> [r.active EXCEPT ![u] = @ + 1]])
  /\ UNCHANGED <<work, heard, history>>

ReceivedCall(c) ==
  /\ Known(c)
  /\ byID[c].state = "requested"
  /\ byID' = [byID EXCEPT ![c].state = "ringing"]
  /\ UNCHANGED <<issued, byRandom, active, work, heard, history>>

(* Mutant: a late accept revives a call that has ended. *)
AcceptCallRevives(c) ==
  /\ Known(c)
  /\ byID[c].state \in {"requested", "ringing", "discarded"}
  /\ byID' = [byID EXCEPT ![c].state = "accepted"]
  /\ UNCHANGED <<issued, byRandom, active, work, heard, history>>

(* The first device wins; the others, and a late one, get an error. *)
AcceptCall(c) ==
  /\ Known(c)
  /\ byID[c].state \in {"requested", "ringing"}
  /\ byID' = [byID EXCEPT ![c].state = "accepted"]
  /\ UNCHANGED <<issued, byRandom, active, work, heard, history>>

(* g_a matches the commitment of the request, or ends the call.  The forced
   end is pushed to both sides and leaves no service message. *)
ConfirmCall(c, matches) ==
  LET r == MarkDiscarded(Registry, [d \in {c} |-> "disconnect"], 0) IN
  /\ Known(c)
  /\ byID[c].state = "accepted"
  /\ IF matches
     THEN /\ byID' = [byID EXCEPT ![c].state = "confirmed", ![c].started = TRUE]
          /\ UNCHANGED <<byRandom, active, work>>
     ELSE /\ Becomes(r)
          /\ work' = work \cup {Work(c, r, FALSE)}
  /\ UNCHANGED <<issued, heard, history>>

(* Mutant: the call lasted as long as the client says. *)
DiscardCallTrusting(c, reason, duration) ==
  LET r == MarkDiscarded(Registry, [e \in {c} |-> reason], duration) IN
  /\ c \in Live
  /\ Becomes(r)
  /\ work' = work \cup {Work(c, r, reason # "migrate")}
  /\ UNCHANGED <<issued, heard, history>>

(* Either side hangs up.  Only the first does anything; a call that was never
   confirmed lasted no time. *)
DiscardCall(c, reason, duration) ==
  LET d == IF Known(c) /\ byID[c].started THEN duration ELSE 0
      r == MarkDiscarded(Registry, [e \in {c} |-> reason], d) IN
  /\ c \in Live
  /\ Becomes(r)
  /\ work' = work \cup {Work(c, r, reason # "migrate")}
  /\ UNCHANGED <<issued, heard, history>>

(* Requested and ringing calls were missed; an accepted one was not confirmed
   in time.  A confirmed call lasts as long as its sides want. *)
Overdue == {c \in Live : byID[c].due /\ byID[c].state # "confirmed"}

(* Mutant: the timer stops when the callee answers. *)
ExpireDueUnanswered ==
  LET due == {c \in Overdue : byID[c].state # "accepted"}
      r == MarkDiscarded(Registry, [c \in due |-> "missed"], 0) IN
  /\ due # {} \/ Tombstones(Registry) # {}
  /\ Becomes(SweepTombstones(r))
  /\ work' = work \cup {Work(c, r, TRUE) : c \in due}
  /\ UNCHANGED <<issued, heard, history>>

ExpireDue ==
  LET reason == [c \in Overdue |->
                   IF byID[c].state = "accepted" THEN "disconnect" ELSE "missed"]
      r == MarkDiscarded(Registry, reason, 0) IN
  /\ Overdue # {} \/ Tombstones(Registry) # {}
  /\ Becomes(SweepTombstones(r))
  /\ work' = work \cup {Work(c, r, TRUE) : c \in Overdue}
  /\ UNCHANGED <<issued, heard, history>>

(* The rest of a handler, one output at a time. *)
Push(w) ==
  /\ w \in work
  /\ w.push # <<>>
  /\ heard' = [heard EXCEPT ![w.call] = @ \cup {Head(w.push)}]
  /\ work' = (work \ {w}) \cup {[w EXCEPT !.push = Tail(@)]}
  /\ UNCHANGED <<registry, history>>

(* Writing the service message may fail, and then it is not retried. *)
Record(w, fails) ==
  /\ w \in work
  /\ w.push = <<>>
  /\ work' = work \ {w}
  /\ history' = IF ~w.record \/ fails THEN history
       ELSE [history EXCEPT ![w.call] =
               Append(@, [reason |-> w.snap.reason, duration |-> w.snap.duration])]
  /\ UNCHANGED <<registry, heard>>

-----------------------------------------------------------------------------
(* Time: a call passes its ring timeout, a tombstone its retention. *)

RingTimeout(c) ==
  /\ c \in Live
  /\ ~byID[c].due
  /\ byID' = [byID EXCEPT ![c].due = TRUE]
  /\ UNCHANGED <<issued, byRandom, active, work, heard, history>>

TombstoneTTL(c) ==
  /\ Known(c)
  /\ Terminal(byID[c])
  /\ ~byID[c].old
  /\ byID' = [byID EXCEPT ![c].old = TRUE]
  /\ UNCHANGED <<issued, byRandom, active, work, heard, history>>

Output == \E w \in work : Push(w) \/ (\E fails \in BOOLEAN : Record(w, fails))

Next ==
  \/ \E u \in Callers, v \in Users, x \in Randoms : RequestCall(u, v, x)
  \/ \E c \in Calls : ReceivedCall(c) \/ AcceptCall(c)
  \/ \E c \in Calls, matches \in BOOLEAN : ConfirmCall(c, matches)
  \/ \E c \in Calls, reason \in {"hangup", "migrate"} : DiscardCall(c, reason, 1)
  \/ ExpireDue
  \/ Output
  \/ \E c \in Calls : RingTimeout(c) \/ TombstoneTTL(c)

Spec == Init /\ [][Next]_vars

(* The clock advances, the expiry worker ticks every second, and a handler
   runs to its end. *)
Fairness ==
  /\ \A c \in Calls : WF_vars(RingTimeout(c))
  /\ WF_vars(ExpireDue)
  /\ WF_vars(Output)

FairSpec == Spec /\ Fairness

-----------------------------------------------------------------------------
(* Properties *)

(* The concurrency count is exact, whichever of hangup, forced end and timeout
   comes first, and within its limit, and so is the registry.
   A live call is the one its caller's random id finds, so that a request that
   is retried while its call is alive does not ring again; a key outlives
   neither its call nor its successor's tombstone. *)
RegistryExact ==
  /\ issued \subseteq Calls
  /\ \A c \in Calls : Known(c) => c \in issued /\ byID[c].state \in States
  /\ \A u \in Users :
       /\ active[u] = Cardinality({c \in Live : byID[c].admin = u})
       /\ active[u] <= MaxActivePerUser
  /\ Cardinality({c \in Calls : Known(c)}) <= MaxRegistryEntries
  /\ \A c \in Live : byRandom[Key(byID[c])] = c
  /\ \A key \in Users \X Randoms : byRandom[key] # None =>
       Known(byRandom[key]) /\ Key(byID[byRandom[key]]) = key

(* A call ends once: it enters the history at most once, with the reason and
   the duration that the registry keeps for it, however its hangups, its
   timeout and late answers interleave. *)
EndsOnce ==
  \A c \in Calls :
    /\ Len(history[c]) + Cardinality({w \in work : w.call = c /\ w.record}) <= 1
    /\ \A w \in work : w.call = c /\ Known(c) =>
         /\ byID[c].reason = w.snap.reason
         /\ byID[c].duration = w.snap.duration
    /\ Known(c) /\ history[c] # <<>> =>
         history[c] = <<[reason |-> byID[c].reason, duration |-> byID[c].duration]>>

(* What is still kept of a call: a snapshot in the hands of a handler may
   outlive the tombstone. *)
Kept(c) ==
  {call \in {byID[c]} : Known(c)} \cup {w.snap : w \in {v \in work : v.call = c}}

LiveStage == [requested |-> "offered", ringing |-> "offered",
              accepted |-> "answered", confirmed |-> "talking"]

Stage(c) ==
  IF c \notin issued THEN "unused"
  ELSE IF c \in Live THEN LiveStage[byID[c].state]
  ELSE IF Kept(c) = {} THEN "gone"
  ELSE IF \E call \in Kept(c) : call.started THEN "finished"
  ELSE "dropped"

StageOf == [c \in Calls |-> Stage(c)]

Life == INSTANCE CallLife WITH Whys <- Reasons, stage <- StageOf, log <- history

(* A call only goes forward: a late answer or confirmation does not revive
   one that ended, not even once its tombstone is swept, and the message of a
   slow handler says after that still whether there was a conversation. *)
ImplementsLife == Life!Spec

(* A call that is requested is confirmed, or both of its sides are told that
   it has ended: nothing rings for ever. *)
CallsSettle ==
  \A c \in Calls :
    c \in Live ~>
      \/ Known(c) /\ byID[c].state = "confirmed"
      \/ heard[c] = {"admin", "participant"}
=============================================================================
