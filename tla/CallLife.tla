------------------------------ MODULE CallLife ------------------------------
(***************************************************************************)
(* The lives of private calls as their sides know them, without the        *)
(* registry, its keys, counters and timers, and without the handlers that  *)
(* report an end later: a call only goes forward, and what the history of  *)
(* its sides says of it is written after its end, once.                    *)
(***************************************************************************)
EXTENDS Integers, Sequences

CONSTANTS
  Calls,
  Whys                 \* the reasons the history may give

VARIABLES
  stage,               \* [Calls -> how far the call has come]
  log                  \* [Calls -> its service messages]

Init ==
  /\ stage = [c \in Calls |-> "unused"]
  /\ log = [c \in Calls |-> <<>>]

Moves(c, from, to) == stage[c] = from /\ stage'[c] = to /\ log'[c] = log[c]

Offer(c) == Moves(c, "unused", "offered")
Answer(c) == Moves(c, "offered", "answered")
Connect(c) == Moves(c, "answered", "talking")

(* A call that was not connected is dropped: missed, refused, or ended by its
   timeout or by a confirmation that fails. *)
Drop(c) == Moves(c, "offered", "dropped") \/ Moves(c, "answered", "dropped")
HangUp(c) == Moves(c, "talking", "finished")

(* A call without conversation lasted no time.  It may be forgotten with this
   message, or later. *)
Write(c) ==
  /\ stage[c] \in {"dropped", "finished"}
  /\ stage'[c] \in {stage[c], "gone"}
  /\ log[c] = <<>>
  /\ Len(log'[c]) = 1
  /\ log'[c][1].reason \in Whys
  /\ stage[c] = "dropped" => log'[c][1].duration = 0

Forget(c) == Moves(c, "dropped", "gone") \/ Moves(c, "finished", "gone")

Stays(c) == stage'[c] = stage[c] /\ log'[c] = log[c]

Step(c) ==
  \/ Offer(c) \/ Answer(c) \/ Connect(c) \/ Drop(c) \/ HangUp(c)
  \/ Write(c) \/ Forget(c) \/ Stays(c)

(* One critical section may move several calls, each one step. *)
Next == \A c \in Calls : Step(c)

Spec == Init /\ [][Next]_<<stage, log>>
=============================================================================
