------------------ MODULE RPCExecutionLedgerCallbackProofs ------------------
(***************************************************************************)
(* That every accepted callback of the execution ledger is kept in exactly *)
(* one place until it has been heard, is heard once, and hears what the    *)
(* flight decided, for any requests, keys and limits.                      *)
(***************************************************************************)
EXTENDS RPCExecutionLedgerProofs

(* Every leaf that names no prover: Zenon, then SMT, which is tried again as Z3
   when the translation ran out of time. *)
USE ZenonT(10), SMTT(30), Z3T(30)

-----------------------------------------------------------------------------
(* Where a subscriber's callbacks are. *)

(* A subscriber may want either outcome of a flight, or both. *)
Kinds == {"result", "execution"}

(* The subscribers a flight retains for an outcome. *)
Subs(f, kind) ==
  IF kind = "result" THEN flight[f].subscribers ELSE flight[f].executionSubscribers

(* A detached callback. *)
Due(r, kind, ok) == [who |-> r, kind |-> kind, ok |-> ok] \in due

(* A subscriber that was accepted and wants this outcome. *)
Wants(r, kind) == req[r].pc = "waiting" /\ kind \in req[r].want

(* The outcome is open while its subscribers are stored ... *)
Open(f, kind) ==
  flight[f].live = "pending" /\ (kind = "execution" => ~flight[f].executionDone)

(* ... and settled as ok when they are called. *)
Told(f, kind, ok) ==
  IF kind = "result" THEN flight[f].live = "closed" /\ ok = flight[f].ok
  ELSE flight[f].executionDone /\ ok = flight[f].executionOK

(* A stored callback waits for an open outcome of the flight it joined. *)
StoredOpen == \A f \in Requests, kind \in Kinds : \A r \in Subs(f, kind) :
  Wants(r, kind) /\ req[r].flight = f /\ Open(f, kind)

(* A detached callback carries the settled outcome, to one who has not heard. *)
DueTold == \A r \in Requests, kind \in Kinds, ok \in BOOLEAN : Due(r, kind, ok) =>
  Wants(r, kind) /\ Said(r, kind) = "none" /\ Told(req[r].flight, kind, ok)

(* A subscriber has heard nothing but the settled outcome. *)
SaidTold == \A r \in Requests, kind \in Kinds : Said(r, kind) # "none" =>
  Wants(r, kind) /\ Told(req[r].flight, kind, Said(r, kind) = "yes")

(* An accepted subscriber is stored, detached or has heard. *)
NobodyLost == \A r \in Requests, kind \in Kinds : Wants(r, kind) =>
  \/ Said(r, kind) # "none"
  \/ r \in Subs(req[r].flight, kind)
  \/ \E ok \in BOOLEAN : Due(r, kind, ok)

(* Nobody joins a flight before it begins. *)
JoinedBegun == \A r \in Requests :
  req[r].pc \in {"joined", "waiting"} => flight[req[r].flight].live # "none"

(* Only a handler that succeeded is reported as a success, and a closed flight
   has an execution outcome. *)
Outcomes == \A f \in Requests :
  /\ flight[f].executionOK => f \in succeeded
  /\ flight[f].live = "closed" => flight[f].executionDone

(* The invariant of the callbacks. *)
CallInv ==
  StoredOpen /\ DueTold /\ SaidTold /\ NobodyLost /\ JoinedBegun /\ Outcomes

(* A request publishes, runs a task or reaps only as itself: none of them is
   also waiting as a subscriber. *)
Roles == \A p \in Requests :
  /\ pub[p].pc # "idle" => req[p].pc \in {"done", "reject"}
  /\ task[p] # "none" => req[p].pc = "done"
  /\ task[p] \in {"queued", "running", "publish"} => pub[p].pc = "idle"
  /\ todo[p] # {} => req[p].pc = "reap" \/ pub[p].pc = "reap"

(* A flight keeps everything a callback looks at. *)
SameOutcome(f) ==
  /\ flight'[f].live = flight[f].live
  /\ flight'[f].ok = flight[f].ok
  /\ flight'[f].executionDone = flight[f].executionDone
  /\ flight'[f].executionOK = flight[f].executionOK

(* A flight keeps its subscribers. *)
SameSubs(f) ==
  /\ flight'[f].subscribers = flight[f].subscribers
  /\ flight'[f].executionSubscribers = flight[f].executionSubscribers

(* A request that this step moves neither waited before nor waits after. *)
QuietRequest(r) ==
  \/ req'[r] = req[r]
  \/ /\ req[r].pc # "waiting" /\ req'[r].pc # "waiting"
     /\ req'[r].result \in {req[r].result, "none"}
     /\ req'[r].execution \in {req[r].execution, "none"}
     /\ req'[r].pc = "joined" => /\ req'[r].flight \in Requests
                                 /\ flight[req'[r].flight].live # "none"

(* A detached callback is a member of Calls. *)
LEMMA CallsDue ==
  ASSUME NEW S, NEW k, NEW o, NEW r, NEW kind, NEW ok
  PROVE  [who |-> r, kind |-> kind, ok |-> ok] \in Calls(S, k, o)
           <=> r \in S /\ kind = k /\ ok = o
  BY DEF Calls

(* The fields of a request. *)
LEMMA RequestFields ==
  ASSUME TableTypes, NEW r \in Requests
  PROVE  /\ req[r].want \in SUBSET Kinds
         /\ req[r].result \in Heard
         /\ req[r].execution \in Heard
         /\ req[r].flight \in Requests \cup {NoFlight}
  BY Zenon DEF TableTypes, RequestRecords, Kinds

(* The flight of a subscriber is a flight. *)
LEMMA WaiterFlight ==
  ASSUME Typed, NEW r \in Requests, req[r].pc \in {"joined", "waiting"}
  PROVE  req[r].flight \in Requests
  BY DEF Typed, JoinedFlight

(* A step that changes no outcome, no stored and no detached callback. *)
LEMMA QuietCalls ==
  ASSUME Typed, CallInv,
         \A f \in Requests : SameOutcome(f) /\ SameSubs(f),
         \A r \in Requests : QuietRequest(r),
         due' = due, succeeded \subseteq succeeded'
  PROVE  CallInv'
  <1>1. \A r \in Requests, kind \in Kinds : Wants(r, kind)' <=> Wants(r, kind)
    BY DEF Wants, QuietRequest
  <1>2. \A r \in Requests, kind \in Kinds : Wants(r, kind) =>
          req'[r] = req[r] /\ req[r].flight \in Requests
    BY WaiterFlight DEF Wants, QuietRequest
  <1>3. \A r \in Requests, kind \in Kinds :
          Said(r, kind)' # "none" => Said(r, kind) # "none"
    BY DEF Said, QuietRequest, Kinds
  <1>4. \A f \in Requests, kind \in Kinds : Subs(f, kind)' = Subs(f, kind)
    BY DEF Subs, SameSubs
  <1>5. \A f \in Requests, kind \in Kinds : 
          /\ Open(f, kind)' <=> Open(f, kind)
          /\ \A ok \in BOOLEAN : Told(f, kind, ok)' <=> Told(f, kind, ok)
    BY DEF Open, Told, SameOutcome
  <1>6. \A f \in Requests, kind \in Kinds : \A r \in Subs(f, kind) : r \in Requests
    BY FlightFields DEF Subs, Typed
  <1>7. \A r \in Requests, kind \in Kinds, ok \in BOOLEAN :
          Due(r, kind, ok)' <=> Due(r, kind, ok)
    BY DEF Due
  <1>a. StoredOpen'
    BY <1>1, <1>2, <1>4, <1>5, <1>6 DEF CallInv, StoredOpen
  <1>b. DueTold'
    BY <1>1, <1>2, <1>3, <1>5, <1>7 DEF CallInv, DueTold, Said
  <1>c. SaidTold'
    <2> SUFFICES ASSUME NEW r \in Requests, NEW kind \in Kinds, Said(r, kind)' # "none"
                 PROVE  (Wants(r, kind) /\ Told(req[r].flight, kind, Said(r, kind) = "yes"))'
      BY DEF SaidTold
    <2>1. Wants(r, kind) /\ Told(req[r].flight, kind, Said(r, kind) = "yes")
      BY <1>3 DEF CallInv, SaidTold
    <2>2. req'[r] = req[r] /\ req[r].flight \in Requests
      BY <1>2, <2>1
    <2>3. Said(r, kind)' = Said(r, kind)
      BY <2>2 DEF Said
    <2>4. (Said(r, kind) = "yes") \in BOOLEAN
      OBVIOUS
    <2> QED BY <1>1, <1>5, <2>1, <2>2, <2>3, <2>4, Zenon
  <1>d. NobodyLost'
    BY <1>1, <1>2, <1>3, <1>4, <1>7 DEF CallInv, NobodyLost, Said
  <1>e. JoinedBegun'
    BY DEF CallInv, JoinedBegun, QuietRequest, SameOutcome, Typed, JoinedFlight
  <1>f. Outcomes'
    BY DEF CallInv, Outcomes, SameOutcome
  <1> QED BY <1>a, <1>b, <1>c, <1>d, <1>e, <1>f DEF CallInv

(* A step that settles the outcomes K of one flight and detaches exactly the
   callbacks stored for them. *)
LEMMA SettleCalls ==
  ASSUME Typed, CallInv, NEW f \in Requests, NEW K \in SUBSET Kinds,
         NEW out \in [Kinds -> BOOLEAN],
         \A g \in Requests \ {f} : SameOutcome(g) /\ SameSubs(g),
         \A kind \in K : Subs(f, kind)' = {} /\ Told(f, kind, out[kind])',
         \A kind \in Kinds \ K : /\ Subs(f, kind)' = Subs(f, kind)
                                 /\ Open(f, kind) => Open(f, kind)',
         \A kind \in Kinds, ok \in BOOLEAN :
            Told(f, kind, ok) => Told(f, kind, ok)',
         \A r \in Requests, kind \in Kinds, ok \in BOOLEAN :
            Due(r, kind, ok)' <=>
              \/ Due(r, kind, ok)
              \/ kind \in K /\ r \in Subs(f, kind) /\ ok = out[kind],
         flight'[f].live # "none",
         flight'[f].executionOK => f \in succeeded',
         flight'[f].live = "closed" => flight'[f].executionDone,
         \A r \in Requests : QuietRequest(r),
         succeeded \subseteq succeeded'
  PROVE  CallInv'
  <1>1. \A r \in Requests, kind \in Kinds : Wants(r, kind)' <=> Wants(r, kind)
    BY DEF Wants, QuietRequest
  <1>2. \A r \in Requests, kind \in Kinds : Wants(r, kind) =>
          req'[r] = req[r] /\ req[r].flight \in Requests
    BY WaiterFlight DEF Wants, QuietRequest
  <1>3. \A r \in Requests, kind \in Kinds :
          Said(r, kind)' # "none" => Said(r, kind) # "none"
    BY DEF Said, QuietRequest, Kinds
  <1>4. \A g \in Requests, kind \in Kinds :
          g # f \/ kind \notin K => Subs(g, kind)' = Subs(g, kind)
    BY DEF Subs, SameSubs
  <1>5. \A g \in Requests, kind \in Kinds :
          /\ g # f \/ kind \notin K => (Open(g, kind) => Open(g, kind)')
          /\ \A ok \in BOOLEAN : Told(g, kind, ok) => Told(g, kind, ok)'
    BY DEF Open, Told, SameOutcome
  <1>6. \A g \in Requests, kind \in Kinds : \A r \in Subs(g, kind) : r \in Requests
    BY FlightFields DEF Subs, Typed
  <1>a. StoredOpen'
    <2> SUFFICES ASSUME NEW g \in Requests, NEW kind \in Kinds,
                        NEW r \in Subs(g, kind)'
                 PROVE  (Wants(r, kind) /\ req[r].flight = g /\ Open(g, kind))'
      BY DEF StoredOpen
    <2>1. g # f \/ kind \notin K
      OBVIOUS
    <2>2. r \in Subs(g, kind) /\ r \in Requests
      BY <1>4, <1>6, <2>1
    <2>3. Wants(r, kind) /\ req[r].flight = g /\ Open(g, kind)
      BY <2>2 DEF CallInv, StoredOpen
    <2> QED BY <1>1, <1>2, <1>5, <2>1, <2>2, <2>3
  <1>b. DueTold'
    <2> SUFFICES ASSUME NEW r \in Requests, NEW kind \in Kinds, NEW ok \in BOOLEAN,
                        Due(r, kind, ok)'
                 PROVE  (/\ Wants(r, kind) /\ Said(r, kind) = "none"
                         /\ Told(req[r].flight, kind, ok))'
      BY DEF DueTold
    <2>1. CASE Due(r, kind, ok)
      BY <1>1, <1>2, <1>3, <1>5, <2>1 DEF CallInv, DueTold
    <2>2. CASE kind \in K /\ r \in Subs(f, kind) /\ ok = out[kind]
      <3>1. Wants(r, kind) /\ req[r].flight = f /\ Open(f, kind)
        BY <2>2 DEF CallInv, StoredOpen
      <3>2. Said(r, kind) = "none"
        BY <3>1 DEF CallInv, SaidTold, Open, Told, Kinds
      <3>3. req'[r].flight = f
        BY <1>2, <3>1
      <3> QED BY <1>1, <1>3, <2>2, <3>1, <3>2, <3>3
    <2> QED BY <2>1, <2>2
  <1>c. SaidTold'
    <2> SUFFICES ASSUME NEW r \in Requests, NEW kind \in Kinds, Said(r, kind)' # "none"
                 PROVE  (Wants(r, kind) /\ Told(req[r].flight, kind, Said(r, kind) = "yes"))'
      BY Zenon DEF SaidTold
    <2>1. Wants(r, kind) /\ Told(req[r].flight, kind, Said(r, kind) = "yes")
      BY <1>3 DEF CallInv, SaidTold
    <2>2. req'[r] = req[r] /\ req[r].flight \in Requests
      BY <1>2, <2>1
    <2>3. Said(r, kind)' = Said(r, kind)
      BY <2>2 DEF Said
    <2>4. (Said(r, kind) = "yes") \in BOOLEAN
      OBVIOUS
    <2> QED BY <1>1, <1>5, <2>1, <2>2, <2>3, <2>4, ZenonT(30)
  <1>d. NobodyLost'
    <2> SUFFICES ASSUME NEW r \in Requests, NEW kind \in Kinds, Wants(r, kind)'
                 PROVE  (\/ Said(r, kind) # "none"
                         \/ r \in Subs(req[r].flight, kind)
                         \/ \E ok \in BOOLEAN : Due(r, kind, ok))'
      BY DEF NobodyLost
    <2>1. Wants(r, kind) /\ req'[r] = req[r] /\ req[r].flight \in Requests
      BY <1>1, <1>2
    <2>2. CASE Said(r, kind) # "none"
      BY <2>1, <2>2 DEF Said
    <2>3. ASSUME NEW ok \in BOOLEAN, Due(r, kind, ok)
          PROVE  \E x \in BOOLEAN : Due(r, kind, x)'
      <3>1. Due(r, kind, ok)'
        BY <2>3
      <3> QED BY <3>1
    <2>4. CASE r \in Subs(req[r].flight, kind)
      BY <1>4, <2>1, <2>4
    <2> QED BY <2>1, <2>2, <2>3, <2>4 DEF CallInv, NobodyLost
  <1>e. JoinedBegun'
    BY DEF CallInv, JoinedBegun, QuietRequest, SameOutcome, Typed, JoinedFlight
  <1>f. Outcomes'
    BY DEF CallInv, Outcomes, SameOutcome
  <1> QED BY <1>a, <1>b, <1>c, <1>d, <1>e, <1>f DEF CallInv

(* Publishing an execution outcome keeps the callbacks. *)
LEMMA CompleteExecutionCalls ==
  ASSUME Typed, Core, CallInv, NEW f \in Requests, NEW ok \in BOOLEAN,
         CompleteExecution(f, ok), req' = req, succeeded \subseteq succeeded',
         ok => f \in succeeded'
  PROVE  CallInv'
  <1> DEFINE new == ExecutedFlight(f, ok)
             K == {"execution"}
             out == [kind \in Kinds |-> ok]
  <1>q. \A r \in Requests : QuietRequest(r)
    BY DEF QuietRequest
  <1>1. CASE ~OutcomeOpen(f)
    <2>1. flight' = flight /\ due' = due
      BY <1>1 DEF CompleteExecution
    <2> QED BY <1>q, <2>1, QuietCalls DEF SameOutcome, SameSubs
  <1>2. CASE OutcomeOpen(f)
    <2>1. flight[f].live = "pending" /\ ~flight[f].executionDone
      BY <1>2, OwnedIsLive DEF Typed, OutcomeOpen
    <2>2. /\ flight' = [flight EXCEPT ![f] = new]
          /\ due' = due \cup Calls(flight[f].executionSubscribers, "execution", ok)
      BY <1>2 DEF CompleteExecution
    <2>3. /\ new.live = flight[f].live /\ new.ok = flight[f].ok
          /\ new.executionDone = TRUE /\ new.executionOK = ok
          /\ new.subscribers = flight[f].subscribers
          /\ new.executionSubscribers = {}
      BY Zenon DEF ExecutedFlight
    <2> HIDE DEF new
    <2>4. flight'[f] = new /\ \A g \in Requests \ {f} : flight'[g] = flight[g]
      BY <2>2 DEF Typed, TableTypes
    <2>5. \A g \in Requests \ {f} : SameOutcome(g) /\ SameSubs(g)
      BY <2>4 DEF SameOutcome, SameSubs
    <2>6. \A kind \in K : Subs(f, kind)' = {} /\ Told(f, kind, out[kind])'
      BY <2>3, <2>4 DEF Subs, Told, Kinds
    <2>7. \A kind \in Kinds \ K : /\ Subs(f, kind)' = Subs(f, kind)
                                  /\ Open(f, kind) => Open(f, kind)'
      BY <2>3, <2>4 DEF Subs, Open, Kinds
    <2>8. \A kind \in Kinds, x \in BOOLEAN : Told(f, kind, x) => Told(f, kind, x)'
      BY <2>1 DEF Told
    <2>9. \A r \in Requests, kind \in Kinds, x \in BOOLEAN :
            Due(r, kind, x)' <=>
              \/ Due(r, kind, x)
              \/ kind \in K /\ r \in Subs(f, kind) /\ x = out[kind]
      <3>1. \A r \in Requests, kind \in Kinds, x \in BOOLEAN :
              Due(r, kind, x)' <=>
                \/ Due(r, kind, x)
                \/ /\ kind = "execution" /\ x = ok
                   /\ r \in flight[f].executionSubscribers
        <4> TAKE r \in Requests, kind \in Kinds, x \in BOOLEAN
        <4>1. [who |-> r, kind |-> kind, ok |-> x]
                 \in Calls(flight[f].executionSubscribers, "execution", ok)
              <=> /\ r \in flight[f].executionSubscribers
                  /\ kind = "execution" /\ x = ok
          BY CallsDue
        <4> QED BY <2>2, <4>1, Zenon DEF Due
      <3> QED BY <3>1 DEF Subs, Kinds
    <2>10. /\ flight'[f].live # "none"
           /\ flight'[f].executionOK => f \in succeeded'
           /\ flight'[f].live = "closed" => flight'[f].executionDone
      BY <2>1, <2>3, <2>4
    <2>11. K \in SUBSET Kinds /\ out \in [Kinds -> BOOLEAN]
      BY DEF Kinds
    <2> HIDE DEF K, out
    <2> QED
      BY <1>q, <2>5, <2>6, <2>7, <2>8, <2>9, <2>10, <2>11, SettleCalls, Zenon
  <1> QED BY <1>1, <1>2

(* So does closing a flight. *)
LEMMA CloseCalls ==
  ASSUME Typed, Core, CallInv, NEW f \in Requests, NEW ok \in BOOLEAN,
         pending[KeyOf[f]] = f, CloseFlight(f, ok),
         \A r \in Requests : QuietRequest(r), succeeded' = succeeded
  PROVE  CallInv'
  <1>0. PICK done \in BOOLEAN : done = FinalOutcome(f)
    BY FlightFields DEF FinalOutcome, Typed
  <1> DEFINE new == ClosedFlight(f, ok)
             K == Kinds
             out == [kind \in Kinds |-> IF kind = "result" THEN ok ELSE done]
  <1>1. flight[f].live = "pending"
    BY OwnedIsLive DEF Typed
  <1>2. /\ flight' = [flight EXCEPT ![f] = new]
        /\ due' = due \cup (Calls(flight[f].subscribers, "result", ok) \cup
                            Calls(flight[f].executionSubscribers, "execution", done))
    BY <1>0 DEF CloseFlight, TerminalCalls
  <1>3. /\ new.live = "closed" /\ new.ok = ok
        /\ new.executionDone = TRUE /\ new.executionOK = done
        /\ new.subscribers = {} /\ new.executionSubscribers = {}
    BY <1>0, Zenon DEF ClosedFlight
  <1>4. /\ done \in BOOLEAN
        /\ done => flight[f].executionOK
        /\ flight[f].executionDone => done = flight[f].executionOK
    BY <1>0, FlightFields DEF FinalOutcome, Typed
  <1> HIDE DEF new
  <1>5. flight'[f] = new /\ \A g \in Requests \ {f} : flight'[g] = flight[g]
    BY <1>2 DEF Typed, TableTypes
  <1>6. \A g \in Requests \ {f} : SameOutcome(g) /\ SameSubs(g)
    BY <1>5 DEF SameOutcome, SameSubs
  <1>7. \A kind \in K : Subs(f, kind)' = {} /\ Told(f, kind, out[kind])'
    <2>1. out["result"] = ok /\ out["execution"] = done
      BY DEF Kinds
    <2> HIDE DEF out
    <2>2. Subs(f, "result")' = {} /\ Subs(f, "execution")' = {}
      BY <1>3, <1>5 DEF Subs
    <2>3. Told(f, "result", ok)' /\ Told(f, "execution", done)'
      BY <1>3, <1>4, <1>5 DEF Told
    <2> QED BY <2>1, <2>2, <2>3 DEF Kinds
  <1>8. \A kind \in Kinds, x \in BOOLEAN : Told(f, kind, x) => Told(f, kind, x)'
    BY <1>1, <1>3, <1>4, <1>5 DEF Told, Kinds
  <1>9. \A r \in Requests, kind \in Kinds, x \in BOOLEAN :
          Due(r, kind, x)' <=>
            \/ Due(r, kind, x)
            \/ kind \in K /\ r \in Subs(f, kind) /\ x = out[kind]
    <2>1. \A r \in Requests, kind \in Kinds, x \in BOOLEAN :
            Due(r, kind, x)' <=>
              \/ Due(r, kind, x)
              \/ kind = "result" /\ x = ok /\ r \in flight[f].subscribers
              \/ /\ kind = "execution" /\ x = done
                 /\ r \in flight[f].executionSubscribers
      <3> TAKE r \in Requests, kind \in Kinds, x \in BOOLEAN
      <3> DEFINE m == [who |-> r, kind |-> kind, ok |-> x]
      <3>1. /\ m \in Calls(flight[f].subscribers, "result", ok)
               <=> r \in flight[f].subscribers /\ kind = "result" /\ x = ok
            /\ m \in Calls(flight[f].executionSubscribers, "execution", done)
               <=> /\ r \in flight[f].executionSubscribers
                   /\ kind = "execution" /\ x = done
        BY CallsDue
      <3>2. (Due(r, kind, x) <=> m \in due) /\ (Due(r, kind, x)' <=> m \in due')
        BY DEF Due
      <3> HIDE DEF m
      <3> QED BY <1>2, <3>1, <3>2
    <2> QED BY <2>1 DEF Subs, Kinds
  <1>10. /\ flight'[f].live # "none"
         /\ flight'[f].executionOK => f \in succeeded'
         /\ flight'[f].live = "closed" => flight'[f].executionDone
    BY <1>3, <1>4, <1>5 DEF CallInv, Outcomes
  <1>11. K \in SUBSET Kinds /\ out \in [Kinds -> BOOLEAN]
    BY <1>4
  <1>12. \A kind \in Kinds \ K : /\ Subs(f, kind)' = Subs(f, kind)
                                 /\ Open(f, kind) => Open(f, kind)'
    OBVIOUS
  <1>13. succeeded \subseteq succeeded'
    OBVIOUS
  <1> HIDE DEF out, K
  <1> QED
    BY <1>6, <1>7, <1>8, <1>9, <1>10, <1>11, <1>12, <1>13, SettleCalls, ZenonT(30)

(* How a request that does not wait moves on. *)
LEMMA QuietMoves ==
  ASSUME Typed, NEW r \in Requests, req[r].pc # "waiting",
         \/ Done(r)
         \/ \E pc \in {"reap", "retry", "reject"} : RequestTo(r, pc)
         \/ \E f \in Requests : flight[f].live # "none" /\ \E want : JoinFlight(r, f, want)
  PROVE  \A x \in Requests : QuietRequest(x)
  <1>1. \A x \in Requests : x # r => req'[x] = req[x]
    BY DEF Done, RequestTo, JoinFlight, Typed, TableTypes
  <1>2. CASE Done(r)
    <2>1. req'[r] = [NewRequest EXCEPT !.pc = "done"]
      BY <1>2 DEF Done, Typed, TableTypes
    <2> QED BY <1>1, <2>1 DEF QuietRequest, NewRequest
  <1>3. ASSUME NEW pc \in {"reap", "retry", "reject"}, RequestTo(r, pc)
        PROVE  QuietRequest(r)
    <2>1. req'[r] = [req[r] EXCEPT !.pc = pc] /\ req[r] \in RequestRecords
      BY <1>3 DEF RequestTo, Typed, TableTypes
    <2>2. /\ req'[r].pc = pc /\ req'[r].result = req[r].result
          /\ req'[r].execution = req[r].execution
      BY <2>1 DEF RequestRecords
    <2> QED BY <2>2 DEF QuietRequest
  <1>4. ASSUME NEW f \in Requests, NEW want, flight[f].live # "none",
               JoinFlight(r, f, want)
        PROVE  QuietRequest(r)
    BY <1>4 DEF QuietRequest, JoinFlight, Typed, TableTypes
  <1> QED BY <1>1, <1>2, <1>3, <1>4 DEF QuietRequest

(* subscribe stores the callbacks of the kinds in S and detaches the others,
   whose outcome is known. *)
Accepted(r, f, S) ==
  /\ req[r].pc = "joined" /\ req[r].flight = f
  /\ S \subseteq req[r].want
  /\ \A g \in Requests : SameOutcome(g)
  /\ \A g \in Requests, kind \in Kinds :
       Subs(g, kind)' = IF g = f /\ kind \in S THEN Subs(g, kind) \cup {r}
                        ELSE Subs(g, kind)
  /\ \A kind \in S : Open(f, kind)
  /\ \A x \in Requests, kind \in Kinds, ok \in BOOLEAN :
       Due(x, kind, ok)' <=>
         \/ Due(x, kind, ok)
         \/ x = r /\ kind \in req[r].want \ S /\ Told(f, kind, ok)
  /\ \A kind \in req[r].want \ S : \E ok \in BOOLEAN : Told(f, kind, ok)
  /\ \A x \in Requests : x # r => req'[x] = req[x]
  /\ req'[r].pc = "waiting" /\ req'[r].flight = f /\ req'[r].want = req[r].want
  /\ req'[r].result = req[r].result /\ req'[r].execution = req[r].execution
  /\ succeeded' = succeeded

(* Accepting a subscriber keeps the invariant. *)
LEMMA AcceptedCalls ==
  ASSUME Typed, CallInv, NEW r \in Requests, NEW f \in Requests,
         NEW S \in SUBSET Kinds, Accepted(r, f, S)
  PROVE  CallInv'
  <1>r. /\ req[r].pc = "joined" /\ req[r].flight = f
        /\ \A x \in Requests : x # r => req'[x] = req[x]
        /\ req'[r].pc = "waiting" /\ req'[r].flight = f /\ req'[r].want = req[r].want
        /\ req'[r].result = req[r].result /\ req'[r].execution = req[r].execution
    BY Zenon DEF Accepted
  <1>o. (\A g \in Requests : SameOutcome(g)) /\ succeeded' = succeeded
    BY Zenon DEF Accepted
  <1>s. /\ \A g \in Requests, kind \in Kinds :
             Subs(g, kind)' = IF g = f /\ kind \in S THEN Subs(g, kind) \cup {r}
                              ELSE Subs(g, kind)
        /\ S \subseteq req[r].want
        /\ \A kind \in S : Open(f, kind)
    BY Zenon DEF Accepted
  <1>u. /\ \A x \in Requests, kind \in Kinds, ok \in BOOLEAN :
             Due(x, kind, ok)' <=>
               \/ Due(x, kind, ok)
               \/ x = r /\ kind \in req[r].want \ S /\ Told(f, kind, ok)
        /\ \A kind \in req[r].want \ S : \E ok \in BOOLEAN : Told(f, kind, ok)
    BY Zenon DEF Accepted
  <1>1. \A x \in Requests, kind \in Kinds :
          /\ Wants(x, kind)' <=> Wants(x, kind) \/ (x = r /\ kind \in req[r].want)
          /\ Wants(r, kind) = FALSE
          /\ Said(x, kind)' = Said(x, kind)
          /\ Said(r, kind) = "none"
          /\ req'[x].flight = req[x].flight
    <2>1. \A x \in Requests, kind \in Kinds :
          /\ Wants(x, kind)' <=> Wants(x, kind) \/ (x = r /\ kind \in req[r].want)
          /\ Wants(r, kind) = FALSE
      BY <1>r DEF Wants
    <2>2. \A kind \in Kinds : Said(r, kind) = "none"
      BY <2>1 DEF CallInv, SaidTold
    <2>3. \A x \in Requests, kind \in Kinds : Said(x, kind)' = Said(x, kind)
      BY <1>r DEF Said
    <2>4. \A x \in Requests : req'[x].flight = req[x].flight
      BY <1>r
    <2> QED BY <2>1, <2>2, <2>3, <2>4, ZenonT(30)
  <1>2. \A g \in Requests, kind \in Kinds :
          /\ Open(g, kind)' <=> Open(g, kind)
          /\ \A ok \in BOOLEAN : Told(g, kind, ok)' <=> Told(g, kind, ok)
    BY <1>o DEF Open, Told, SameOutcome
  <1>3. \A g \in Requests, kind \in Kinds : \A x \in Subs(g, kind) : x \in Requests
    BY FlightFields DEF Subs, Typed
  <1>4. \A x \in Requests, kind \in Kinds : Wants(x, kind) => req[x].flight \in Requests
    BY WaiterFlight DEF Wants
  <1>a. StoredOpen'
    <2> SUFFICES ASSUME NEW g \in Requests, NEW kind \in Kinds,
                        NEW x \in Subs(g, kind)'
                 PROVE  (Wants(x, kind) /\ req[x].flight = g /\ Open(g, kind))'
      BY DEF StoredOpen
    <2>1. CASE x \in Subs(g, kind)
      <3>1. Wants(x, kind) /\ req[x].flight = g /\ Open(g, kind) /\ x \in Requests
        BY <1>3, <2>1 DEF CallInv, StoredOpen
      <3> QED BY <1>1, <1>2, <3>1
    <2>2. CASE x = r /\ g = f /\ kind \in S
      BY <1>1, <1>2, <1>r, <1>s, <2>2, ZenonT(30)
    <2>3. x \in Subs(g, kind) \/ (x = r /\ g = f /\ kind \in S)
      BY <1>s
    <2> QED BY <2>1, <2>2, <2>3, Zenon
  <1>b. DueTold'
    <2> SUFFICES ASSUME NEW x \in Requests, NEW kind \in Kinds, NEW ok \in BOOLEAN,
                        Due(x, kind, ok)'
                 PROVE  (/\ Wants(x, kind) /\ Said(x, kind) = "none"
                         /\ Told(req[x].flight, kind, ok))'
      BY DEF DueTold
    <2>1. CASE Due(x, kind, ok)
      <3>1. /\ Wants(x, kind) /\ Said(x, kind) = "none"
            /\ Told(req[x].flight, kind, ok)
        BY <2>1 DEF CallInv, DueTold
      <3>2. PICK g \in Requests : g = req[x].flight /\ req'[x].flight = g
        BY <1>1, <1>4, <3>1, Zenon
      <3>3. Told(g, kind, ok)'
        BY <1>2, <3>1, <3>2, Zenon
      <3> QED BY <1>1, <3>1, <3>2, <3>3, Zenon
    <2>2. CASE x = r /\ kind \in req[r].want \ S /\ Told(f, kind, ok)
      BY <1>1, <1>2, <1>r, <2>2, Zenon
    <2>3. Due(x, kind, ok) \/ (x = r /\ kind \in req[r].want \ S /\ Told(f, kind, ok))
      BY <1>u, Zenon
    <2> QED BY <2>1, <2>2, <2>3, Zenon
  <1>c. SaidTold'
    <2> SUFFICES ASSUME NEW x \in Requests, NEW kind \in Kinds, Said(x, kind)' # "none"
                 PROVE  (Wants(x, kind) /\ Told(req[x].flight, kind, Said(x, kind) = "yes"))'
      BY Zenon DEF SaidTold
    <2>1. Wants(x, kind) /\ Told(req[x].flight, kind, Said(x, kind) = "yes")
      BY <1>1, Zenon DEF CallInv, SaidTold
    <2>2. (Said(x, kind) = "yes") \in BOOLEAN
      OBVIOUS
    <2> QED BY <1>1, <1>2, <1>4, <2>1, <2>2, Zenon
  <1>d. NobodyLost'
    <2> SUFFICES ASSUME NEW x \in Requests, NEW kind \in Kinds, Wants(x, kind)'
                 PROVE  (\/ Said(x, kind) # "none"
                         \/ x \in Subs(req[x].flight, kind)
                         \/ \E ok \in BOOLEAN : Due(x, kind, ok))'
      BY DEF NobodyLost
    <2>1. CASE Wants(x, kind)
      <3>1. \/ Said(x, kind) # "none"
            \/ x \in Subs(req[x].flight, kind)
            \/ \E ok \in BOOLEAN : Due(x, kind, ok)
        BY <2>1, Zenon DEF CallInv, NobodyLost
      <3>2. PICK g \in Requests : g = req[x].flight /\ req'[x].flight = g
        BY <1>1, <1>4, <2>1, Zenon
      <3>3. x \in Subs(g, kind) => (x \in Subs(g, kind))'
        BY <1>s
      <3>4. \A ok \in BOOLEAN : Due(x, kind, ok) => Due(x, kind, ok)'
        BY <1>u, Zenon
      <3> QED BY <1>1, <3>1, <3>2, <3>3, <3>4, Zenon
    <2>2. CASE x = r /\ kind \in S
      <3>1. (r \in Subs(f, kind))'
        BY <1>s, <2>2
      <3> QED BY <1>r, <2>2, <3>1, Zenon
    <2>3. CASE x = r /\ kind \in req[r].want \ S
      BY <1>u, <2>3, Zenon
    <2>4. Wants(x, kind) \/ (x = r /\ kind \in S) \/ (x = r /\ kind \in req[r].want \ S)
      BY <1>1
    <2> QED BY <2>1, <2>2, <2>3, <2>4, Zenon
  <1>e. JoinedBegun'
    BY <1>r, <1>o DEF CallInv, JoinedBegun, SameOutcome, Typed, JoinedFlight
  <1>f. Outcomes'
    BY <1>o DEF CallInv, Outcomes, SameOutcome
  <1> QED BY <1>a, <1>b, <1>c, <1>d, <1>e, <1>f, Zenon DEF CallInv

(* subscribe on a pending flight. *)
LEMMA SubscribeOpenCalls ==
  ASSUME Typed, Core, CallInv, NEW r \in Requests, SubscribeOpen(r)
  PROVE  CallInv'
  <1>0. PICK f \in Requests : f = req[r].flight
    BY WaiterFlight, Zenon DEF SubscribeOpen
  <1> DEFINE fl == flight[f]
             res == req[r].want \cap {"result"}
             exec == IF fl.executionDone THEN {} ELSE req[r].want \cap {"execution"}
             slots == Cardinality(res) + Cardinality(exec)
             new == SubscribedFlight(f, r, res # {}, exec # {}, slots)
  <1>1. /\ req[r].pc = "joined" /\ pending[KeyOf[f]] = f
        /\ succeeded' = succeeded
    BY <1>0, ZenonT(30) DEF SubscribeOpen, taskVars
  <1>2. fl.live = "pending"
    BY <1>1, OwnedIsLive DEF Typed
  <1>3. CASE Done(r) /\ flight' = flight /\ due' = due
    <2>1. \A x \in Requests : QuietRequest(x)
      BY <1>1, <1>3, QuietMoves
    <2> QED BY <1>1, <1>3, <2>1, QuietCalls, Zenon DEF SameOutcome, SameSubs
  <1>4. CASE /\ flight' = [flight EXCEPT ![f] = new]
             /\ due' = IF "execution" \in req[r].want /\ fl.executionDone
                       THEN due \cup Calls({r}, "execution", fl.executionOK)
                       ELSE due
             /\ RequestTo(r, "waiting")
    <2>0. PICK S \in SUBSET Kinds : S = res \cup exec
      BY Zenon DEF Kinds
    <2>1. /\ new.live = fl.live /\ new.ok = fl.ok
          /\ new.executionDone = fl.executionDone
          /\ new.executionOK = fl.executionOK
          /\ new.subscribers = fl.subscribers \cup (IF res # {} THEN {r} ELSE {})
          /\ new.executionSubscribers =
               fl.executionSubscribers \cup (IF exec # {} THEN {r} ELSE {})
      BY ZenonT(30) DEF SubscribedFlight
    <2> HIDE DEF new
    <2>2. flight'[f] = new /\ \A g \in Requests \ {f} : flight'[g] = flight[g]
      BY <1>4 DEF Typed, TableTypes
    <2>3. \A g \in Requests : SameOutcome(g)
      BY <2>1, <2>2 DEF SameOutcome
    <2>4. ("result" \in S <=> res # {}) /\ ("execution" \in S <=> exec # {})
      BY <2>0
    <2>5. \A g \in Requests, kind \in Kinds :
            Subs(g, kind)' = IF g = f /\ kind \in S THEN Subs(g, kind) \cup {r}
                             ELSE Subs(g, kind)
      BY <2>1, <2>2, <2>4, Zenon DEF Subs, Kinds
    <2>6. /\ S \subseteq req[r].want
          /\ \A kind \in S : Open(f, kind)
          /\ \A kind \in req[r].want \ S :
               kind = "execution" /\ flight[f].executionDone
      BY <1>2, <2>0, RequestFields DEF Open, Kinds, Typed
    <2>7. fl.executionOK \in BOOLEAN /\ fl.executionDone \in BOOLEAN
      BY FlightFields DEF Typed
    <2>8. \A kind \in req[r].want \ S : \E ok \in BOOLEAN : Told(f, kind, ok)
      BY <2>6, <2>7 DEF Told
    <2>9. \A x \in Requests, kind \in Kinds, ok \in BOOLEAN :
            Due(x, kind, ok)' <=>
              \/ Due(x, kind, ok)
              \/ x = r /\ kind \in req[r].want \ S /\ Told(f, kind, ok)
      <3> TAKE x \in Requests, kind \in Kinds, ok \in BOOLEAN
      <3> DEFINE m == [who |-> x, kind |-> kind, ok |-> ok]
      <3>1. m \in Calls({r}, "execution", fl.executionOK)
              <=> x = r /\ kind = "execution" /\ ok = fl.executionOK
        BY CallsDue
      <3>2. (Due(x, kind, ok) <=> m \in due) /\ (Due(x, kind, ok)' <=> m \in due')
        BY DEF Due
      <3> HIDE DEF m
      <3>3. m \in due' <=>
              \/ m \in due
              \/ /\ "execution" \in req[r].want /\ fl.executionDone
                 /\ x = r /\ kind = "execution" /\ ok = fl.executionOK
        BY <1>4, <3>1
      <3>4. kind \in req[r].want \ S /\ Told(f, kind, ok) <=>
              /\ "execution" \in req[r].want /\ fl.executionDone
              /\ kind = "execution" /\ ok = fl.executionOK
        BY <2>0, <2>6 DEF Told
      <3> QED BY <3>2, <3>3, <3>4
    <2>10. /\ \A x \in Requests : x # r => req'[x] = req[x]
           /\ req'[r] = [req[r] EXCEPT !.pc = "waiting"]
           /\ req[r] \in RequestRecords
      BY <1>4 DEF RequestTo, Typed, TableTypes
    <2>11. /\ req'[r].pc = "waiting" /\ req'[r].flight = f
           /\ req'[r].want = req[r].want
           /\ req'[r].result = req[r].result
           /\ req'[r].execution = req[r].execution
      BY <1>0, <2>10 DEF RequestRecords
    <2>12. /\ req[r].flight = f
           /\ \A kind \in S : Open(f, kind)
           /\ \A x \in Requests : x # r => req'[x] = req[x]
      BY <1>0, <2>6, <2>10
    <2> HIDE DEF fl, res, exec, slots
    <2>13. Accepted(r, f, S)
      BY <1>1, <2>3, <2>5, <2>6, <2>8, <2>9, <2>11, <2>12, Zenon DEF Accepted
    <2> QED BY <2>13, AcceptedCalls, Zenon
  <1>5. \/ Done(r) /\ flight' = flight /\ due' = due
        \/ /\ flight' = [flight EXCEPT ![f] = new]
           /\ due' = IF "execution" \in req[r].want /\ fl.executionDone
                     THEN due \cup Calls({r}, "execution", fl.executionOK)
                     ELSE due
           /\ RequestTo(r, "waiting")
    BY <1>0, Zenon DEF SubscribeOpen
  <1> QED BY <1>3, <1>4, <1>5

(* subscribe on a closed flight. *)
LEMMA SubscribeClosedCalls ==
  ASSUME Typed, CallInv, NEW r \in Requests, SubscribeClosed(r)
  PROVE  CallInv'
  <1>0. PICK f \in Requests : f = req[r].flight
    BY WaiterFlight DEF SubscribeClosed
  <1> DEFINE fl == flight[f]
  <1>1. /\ req[r].pc = "joined" /\ flight' = flight
        /\ succeeded' = succeeded
    BY <1>0 DEF SubscribeClosed, taskVars, ledgerVars
  <1>2. CASE Done(r) /\ due' = due
    <2>1. \A x \in Requests : QuietRequest(x)
      BY <1>1, <1>2, QuietMoves
    <2> QED BY <1>1, <1>2, <2>1, QuietCalls DEF SameOutcome, SameSubs
  <1>3. CASE /\ fl.live = "closed" /\ fl.executionDone
             /\ due' = due \cup (IF "execution" \in req[r].want
                                 THEN Calls({r}, "execution", fl.executionOK)
                                 ELSE {})
                           \cup (IF "result" \in req[r].want
                                 THEN Calls({r}, "result", fl.ok) ELSE {})
             /\ RequestTo(r, "waiting")
    <2>0. PICK S \in SUBSET Kinds : S = {}
      BY Zenon
    <2>1. \A g \in Requests : SameOutcome(g)
      BY <1>1 DEF SameOutcome
    <2>2. \A g \in Requests, kind \in Kinds :
            Subs(g, kind)' = IF g = f /\ kind \in S THEN Subs(g, kind) \cup {r}
                             ELSE Subs(g, kind)
      BY <1>1, <2>0 DEF Subs
    <2>3. req[r].want \ S = req[r].want /\ req[r].want \subseteq Kinds
      BY <2>0, RequestFields DEF Typed
    <2>4. fl.executionOK \in BOOLEAN /\ fl.ok \in BOOLEAN
      BY FlightFields DEF Typed
    <2>5. \A kind \in req[r].want \ S : \E ok \in BOOLEAN : Told(f, kind, ok)
      BY <1>3, <2>4 DEF Told
    <2>6. \A x \in Requests, kind \in Kinds, ok \in BOOLEAN :
            Due(x, kind, ok)' <=>
              \/ Due(x, kind, ok)
              \/ x = r /\ kind \in req[r].want \ S /\ Told(f, kind, ok)
      <3> TAKE x \in Requests, kind \in Kinds, ok \in BOOLEAN
      <3> DEFINE m == [who |-> x, kind |-> kind, ok |-> ok]
      <3>1. /\ m \in Calls({r}, "execution", fl.executionOK)
               <=> x = r /\ kind = "execution" /\ ok = fl.executionOK
            /\ m \in Calls({r}, "result", fl.ok)
               <=> x = r /\ kind = "result" /\ ok = fl.ok
        BY CallsDue
      <3>2. (Due(x, kind, ok) <=> m \in due) /\ (Due(x, kind, ok)' <=> m \in due')
        BY DEF Due
      <3> HIDE DEF m
      <3>3. m \in due' <=>
              \/ m \in due
              \/ /\ "execution" \in req[r].want
                 /\ x = r /\ kind = "execution" /\ ok = fl.executionOK
              \/ /\ "result" \in req[r].want
                 /\ x = r /\ kind = "result" /\ ok = fl.ok
        BY <1>3, <3>1
      <3>4. kind \in req[r].want /\ Told(f, kind, ok) <=>
              \/ /\ "execution" \in req[r].want
                 /\ kind = "execution" /\ ok = fl.executionOK
              \/ "result" \in req[r].want /\ kind = "result" /\ ok = fl.ok
        BY <1>3 DEF Told, Kinds
      <3> QED BY <2>3, <3>2, <3>3, <3>4
    <2>7. /\ \A x \in Requests : x # r => req'[x] = req[x]
          /\ req'[r] = [req[r] EXCEPT !.pc = "waiting"]
          /\ req[r] \in RequestRecords
      BY <1>3 DEF RequestTo, Typed, TableTypes
    <2>8. /\ req'[r].pc = "waiting" /\ req'[r].flight = f
          /\ req'[r].want = req[r].want
          /\ req'[r].result = req[r].result
          /\ req'[r].execution = req[r].execution
      BY <1>0, <2>7 DEF RequestRecords
    <2>9. /\ req[r].flight = f /\ S \subseteq req[r].want
          /\ \A kind \in S : Open(f, kind)
          /\ \A x \in Requests : x # r => req'[x] = req[x]
      BY <1>0, <2>0, <2>7
    <2> HIDE DEF fl
    <2>10. Accepted(r, f, S)
      BY <1>1, <2>1, <2>2, <2>5, <2>6, <2>8, <2>9, Zenon DEF Accepted
    <2> QED BY <2>10, AcceptedCalls, Zenon
  <1> QED BY <1>0, <1>2, <1>3, ZenonT(30) DEF SubscribeClosed

(* A callback is run once: it leaves the detached ones as it is heard. *)
LEMMA CallbackCalls ==
  ASSUME Typed, CallInv, NEW m \in Callbacks, Callback(m)
  PROVE  CallInv'
  <1>0. PICK r \in Requests, k \in Kinds, o \in BOOLEAN :
          m = [who |-> r, kind |-> k, ok |-> o]
    BY DEF Callbacks, Kinds
  <1>1. m.who = r /\ m.kind = k /\ m.ok = o
    BY <1>0
  <1>2. flight' = flight /\ succeeded' = succeeded /\ m \in due /\ due' = due \ {m}
    BY DEF Callback, taskVars, ledgerVars
  <1>3. \A x \in Requests, kind \in Kinds, ok \in BOOLEAN :
          Due(x, kind, ok)' <=> Due(x, kind, ok) /\ ~(x = r /\ kind = k /\ ok = o)
    BY <1>0, <1>2 DEF Due
  <1>4. Due(r, k, o)
    BY <1>0, <1>2 DEF Due
  <1>5. /\ \A x \in Requests : x # r => req'[x] = req[x]
        /\ req'[r] = IF k = "result"
                     THEN [req[r] EXCEPT !.result = IF o THEN "yes" ELSE "no"]
                     ELSE [req[r] EXCEPT !.execution = IF o THEN "yes" ELSE "no"]
        /\ req[r] \in RequestRecords
    BY <1>1 DEF Callback, Typed, TableTypes
  <1>6. /\ req'[r].pc = req[r].pc /\ req'[r].flight = req[r].flight
        /\ req'[r].want = req[r].want
        /\ req'[r].result = IF k = "result" THEN IF o THEN "yes" ELSE "no"
                            ELSE req[r].result
        /\ req'[r].execution = IF k = "result" THEN req[r].execution
                               ELSE IF o THEN "yes" ELSE "no"
    BY <1>5 DEF RequestRecords
  <1>7. \A x \in Requests, kind \in Kinds :
          /\ Wants(x, kind)' <=> Wants(x, kind)
          /\ req'[x].flight = req[x].flight
          /\ req'[x].pc = req[x].pc
    BY <1>5, <1>6, Zenon DEF Wants
  <1>8. \A x \in Requests, kind \in Kinds :
          Said(x, kind)' = IF x = r /\ kind = k THEN IF o THEN "yes" ELSE "no"
                           ELSE Said(x, kind)
    BY <1>5, <1>6, Zenon DEF Said, Kinds
  <1>9. \A f, kind :
          /\ Subs(f, kind)' = Subs(f, kind)
          /\ Open(f, kind)' <=> Open(f, kind)
          /\ \A ok : Told(f, kind, ok)' <=> Told(f, kind, ok)
    BY <1>2 DEF Subs, Open, Told
  <1>10. Wants(r, k) /\ Said(r, k) = "none" /\ Told(req[r].flight, k, o)
    BY <1>4 DEF CallInv, DueTold
  <1>11. \A f \in Requests, kind \in Kinds : \A x \in Subs(f, kind) : x \in Requests
    BY FlightFields DEF Subs, Typed
  <1>a. StoredOpen'
    BY <1>7, <1>9, <1>11, Zenon DEF CallInv, StoredOpen
  <1>b. DueTold'
    <2> SUFFICES ASSUME NEW x \in Requests, NEW kind \in Kinds, NEW ok \in BOOLEAN,
                        Due(x, kind, ok)'
                 PROVE  (/\ Wants(x, kind) /\ Said(x, kind) = "none"
                         /\ Told(req[x].flight, kind, ok))'
      BY DEF DueTold
    <2>1. /\ Due(x, kind, ok) /\ ~(x = r /\ kind = k /\ ok = o)
          /\ Wants(x, kind) /\ Said(x, kind) = "none" /\ Told(req[x].flight, kind, ok)
      BY <1>3 DEF CallInv, DueTold
    <2>2. ~(x = r /\ kind = k)
      BY <1>10, <2>1 DEF Told
    <2> QED BY <1>7, <1>8, <1>9, <2>1, <2>2, Zenon
  <1>c. SaidTold'
    <2> SUFFICES ASSUME NEW x \in Requests, NEW kind \in Kinds, Said(x, kind)' # "none"
                 PROVE  (Wants(x, kind) /\ Told(req[x].flight, kind, Said(x, kind) = "yes"))'
      BY DEF SaidTold
    <2>1. CASE x = r /\ kind = k
      <3>1. (Said(x, kind)' = "yes") = o
        BY <1>8, <2>1
      <3> QED BY <1>7, <1>9, <1>10, <2>1, <3>1, Zenon
    <2>2. CASE ~(x = r /\ kind = k)
      <3>1. Said(x, kind)' = Said(x, kind)
        BY <1>8, <2>2
      <3> QED BY <1>7, <1>9, <3>1, Zenon DEF CallInv, SaidTold
    <2> QED BY <2>1, <2>2
  <1>d. NobodyLost'
    <2> SUFFICES ASSUME NEW x \in Requests, NEW kind \in Kinds, Wants(x, kind)'
                 PROVE  (\/ Said(x, kind) # "none"
                         \/ x \in Subs(req[x].flight, kind)
                         \/ \E ok \in BOOLEAN : Due(x, kind, ok))'
      BY DEF NobodyLost
    <2>1. CASE x = r /\ kind = k
      BY <1>8, <2>1
    <2>2. CASE ~(x = r /\ kind = k)
      <3>1. \/ Said(x, kind) # "none"
            \/ x \in Subs(req[x].flight, kind)
            \/ \E ok \in BOOLEAN : Due(x, kind, ok)
        BY <1>7 DEF CallInv, NobodyLost
      <3>2. Said(x, kind)' = Said(x, kind)
        BY <1>8, <2>2
      <3>3. x \in Subs(req[x].flight, kind) => (x \in Subs(req[x].flight, kind))'
        BY <1>7, <1>9, Zenon
      <3>4. \A ok \in BOOLEAN : Due(x, kind, ok) => Due(x, kind, ok)'
        BY <1>3, <2>2
      <3> QED BY <3>1, <3>2, <3>3, <3>4
    <2> QED BY <2>1, <2>2
  <1>e. JoinedBegun'
    BY <1>2, <1>7 DEF CallInv, JoinedBegun, Kinds
  <1>f. Outcomes'
    BY <1>2 DEF CallInv, Outcomes
  <1> QED BY <1>a, <1>b, <1>c, <1>d, <1>e, <1>f DEF CallInv

(* A subscriber that has heard all it asked for leaves nothing behind. *)
LEMMA FinishWaitCalls ==
  ASSUME Typed, CallInv, NEW r \in Requests, FinishWait(r)
  PROVE  CallInv'
  <1>1. /\ req[r].pc = "waiting" /\ flight' = flight /\ due' = due
        /\ succeeded' = succeeded /\ Done(r)
    BY DEF FinishWait, EndRequest, taskVars, ledgerVars
  <1>2. \A kind \in Kinds : kind \in req[r].want => Said(r, kind) # "none"
    BY DEF FinishWait, HeardAll, Said, Kinds
  <1>3. \A kind \in Kinds : /\ \A ok \in BOOLEAN : ~Due(r, kind, ok)
                            /\ \A f \in Requests : r \notin Subs(f, kind)
    <2> TAKE kind \in Kinds
    <2>1. ~Wants(r, kind) \/ Said(r, kind) # "none"
      BY <1>2 DEF Wants
    <2>2. \A ok \in BOOLEAN : ~Due(r, kind, ok)
      BY <2>1 DEF CallInv, DueTold
    <2>3. ASSUME NEW f \in Requests, r \in Subs(f, kind)
          PROVE  FALSE
      <3>1. Wants(r, kind) /\ req[r].flight = f /\ Open(f, kind)
        BY <2>3 DEF CallInv, StoredOpen
      <3>2. Told(f, kind, Said(r, kind) = "yes")
        BY <2>1, <3>1 DEF CallInv, SaidTold
      <3> QED BY <3>1, <3>2 DEF Open, Told, Kinds
    <2> QED BY <2>2, <2>3
  <1>4. /\ \A x \in Requests : x # r => req'[x] = req[x]
        /\ req'[r] = [NewRequest EXCEPT !.pc = "done"]
    BY <1>1 DEF Done, Typed, TableTypes
  <1>5. /\ req'[r].pc = "done" /\ req'[r].result = "none"
        /\ req'[r].execution = "none"
    BY <1>4 DEF NewRequest
  <1>6. \A x \in Requests, kind \in Kinds :
          /\ x # r => /\ Wants(x, kind)' <=> Wants(x, kind)
                      /\ Said(x, kind)' = Said(x, kind)
                      /\ req'[x].flight = req[x].flight
          /\ ~Wants(r, kind)'
          /\ Said(r, kind)' = "none"
    BY <1>4, <1>5 DEF Wants, Said
  <1>7. \A f, kind :
          /\ Subs(f, kind)' = Subs(f, kind)
          /\ Open(f, kind)' <=> Open(f, kind)
          /\ \A ok : Told(f, kind, ok)' <=> Told(f, kind, ok)
    BY <1>1 DEF Subs, Open, Told
  <1>8. \A x, kind, ok : Due(x, kind, ok)' <=> Due(x, kind, ok)
    BY <1>1 DEF Due
  <1>9. \A f \in Requests, kind \in Kinds : \A x \in Subs(f, kind) : x \in Requests
    BY FlightFields DEF Subs, Typed
  <1>a. StoredOpen'
    <2> SUFFICES ASSUME NEW g \in Requests, NEW kind \in Kinds,
                        NEW x \in Subs(g, kind)'
                 PROVE  (Wants(x, kind) /\ req[x].flight = g /\ Open(g, kind))'
      BY DEF StoredOpen
    <2>1. x \in Requests /\ x \in Subs(g, kind) /\ x # r
      BY <1>3, <1>7, <1>9, Zenon
    <2>2. Wants(x, kind) /\ req[x].flight = g /\ Open(g, kind)
      BY <2>1 DEF CallInv, StoredOpen
    <2> QED BY <1>6, <1>7, <2>1, <2>2, Zenon
  <1>b. DueTold'
    BY <1>3, <1>6, <1>7, <1>8, ZenonT(30) DEF CallInv, DueTold
  <1>c. SaidTold'
    <2> SUFFICES ASSUME NEW x \in Requests, NEW kind \in Kinds, Said(x, kind)' # "none"
                 PROVE  (Wants(x, kind) /\ Told(req[x].flight, kind, Said(x, kind) = "yes"))'
      BY DEF SaidTold
    <2>1. x # r
      BY <1>6
    <2>2. Wants(x, kind) /\ Told(req[x].flight, kind, Said(x, kind) = "yes")
      BY <1>6, <2>1 DEF CallInv, SaidTold
    <2> QED BY <1>6, <1>7, <2>1, <2>2, Zenon
  <1>d. NobodyLost'
    <2> SUFFICES ASSUME NEW x \in Requests, NEW kind \in Kinds, Wants(x, kind)'
                 PROVE  (\/ Said(x, kind) # "none"
                         \/ x \in Subs(req[x].flight, kind)
                         \/ \E ok \in BOOLEAN : Due(x, kind, ok))'
      BY DEF NobodyLost
    <2>1. x # r /\ Wants(x, kind)
      BY <1>6
    <2>2. \/ Said(x, kind) # "none"
          \/ x \in Subs(req[x].flight, kind)
          \/ \E ok \in BOOLEAN : Due(x, kind, ok)
      BY <2>1 DEF CallInv, NobodyLost
    <2> QED BY <1>6, <1>7, <1>8, <2>1, <2>2, Zenon
  <1>e. JoinedBegun'
    BY <1>1, <1>4, <1>5, Zenon DEF CallInv, JoinedBegun
  <1>f. Outcomes'
    BY <1>1 DEF CallInv, Outcomes
  <1> QED BY <1>a, <1>b, <1>c, <1>d, <1>e, <1>f DEF CallInv

(* A new flight has no subscriber, and nobody had joined it. *)
LEMMA OwnCalls ==
  ASSUME Typed, CallInv, NEW r \in Requests, flight[r].live = "none",
         ~flight[r].executionDone, req[r].pc # "waiting",
         flight' = [flight EXCEPT ![r] = NewFlight], Done(r), due' = due,
         succeeded' = succeeded
  PROVE  CallInv'
  <1>1. flight'[r] = NewFlight /\ \A g \in Requests \ {r} : flight'[g] = flight[g]
    BY DEF Typed, TableTypes
  <1>2. /\ NewFlight.live = "pending" /\ NewFlight.executionDone = FALSE
        /\ NewFlight.executionOK = FALSE /\ NewFlight.subscribers = {}
        /\ NewFlight.executionSubscribers = {}
    BY DEF NewFlight
  <1>3. \A x \in Requests : QuietRequest(x)
    BY QuietMoves
  <1>4. \A x \in Requests, kind \in Kinds :
          /\ Wants(x, kind)' <=> Wants(x, kind)
          /\ Wants(x, kind) => req'[x] = req[x] /\ req[x].flight \in Requests \ {r}
    BY <1>3, WaiterFlight DEF Wants, QuietRequest, CallInv, JoinedBegun
  <1>5. \A x \in Requests, kind \in Kinds :
          Said(x, kind)' # "none" => Said(x, kind) # "none"
    BY <1>3 DEF Said, QuietRequest, Kinds
  <1>6. \A kind : Subs(r, kind)' = {}
    BY <1>1, <1>2 DEF Subs
  <1>7. \A f \in Requests \ {r}, kind \in Kinds :
          /\ Subs(f, kind)' = Subs(f, kind)
          /\ Open(f, kind)' <=> Open(f, kind)
          /\ \A ok : Told(f, kind, ok)' <=> Told(f, kind, ok)
    BY <1>1 DEF Subs, Open, Told
  <1>8. \A x, kind, ok : Due(x, kind, ok)' <=> Due(x, kind, ok)
    BY DEF Due
  <1>9. \A f \in Requests, kind \in Kinds : \A x \in Subs(f, kind) : x \in Requests
    BY FlightFields DEF Subs, Typed
  <1>a. StoredOpen'
    <2> SUFFICES ASSUME NEW g \in Requests, NEW kind \in Kinds,
                        NEW x \in Subs(g, kind)'
                 PROVE  (Wants(x, kind) /\ req[x].flight = g /\ Open(g, kind))'
      BY DEF StoredOpen
    <2>1. g \in Requests \ {r}
      BY <1>6
    <2>2. x \in Requests /\ x \in Subs(g, kind)
      BY <1>7, <1>9, <2>1, ZenonT(30)
    <2>3. Wants(x, kind) /\ req[x].flight = g /\ Open(g, kind)
      BY <2>2 DEF CallInv, StoredOpen
    <2> QED BY <1>4, <1>7, <2>1, <2>2, <2>3, ZenonT(30)
  <1>b. DueTold'
    <2> SUFFICES ASSUME NEW x \in Requests, NEW kind \in Kinds, NEW ok \in BOOLEAN,
                        Due(x, kind, ok)'
                 PROVE  (/\ Wants(x, kind) /\ Said(x, kind) = "none"
                         /\ Told(req[x].flight, kind, ok))'
      BY Zenon DEF DueTold
    <2>1. /\ Wants(x, kind) /\ Said(x, kind) = "none"
          /\ Told(req[x].flight, kind, ok)
      BY <1>8, Zenon DEF CallInv, DueTold
    <2>2. PICK g \in Requests \ {r} : g = req[x].flight /\ req'[x].flight = g
      BY <1>4, <2>1, Zenon
    <2>3. Told(g, kind, ok)'
      BY <1>7, <2>1, <2>2, Zenon
    <2> QED BY <1>4, <1>5, <2>1, <2>2, <2>3, Zenon
  <1>c. SaidTold'
    <2> SUFFICES ASSUME NEW x \in Requests, NEW kind \in Kinds, Said(x, kind)' # "none"
                 PROVE  (Wants(x, kind) /\ Told(req[x].flight, kind, Said(x, kind) = "yes"))'
      BY Zenon DEF SaidTold
    <2>1. Wants(x, kind) /\ Told(req[x].flight, kind, Said(x, kind) = "yes")
      BY <1>5, Zenon DEF CallInv, SaidTold
    <2>2. req'[x] = req[x] /\ req[x].flight \in Requests \ {r}
      BY <1>4, <2>1, Zenon
    <2>3. Said(x, kind)' = Said(x, kind)
      BY <2>2 DEF Said
    <2> QED BY <1>4, <1>7, <2>1, <2>2, <2>3, Zenon
  <1>d. NobodyLost'
    <2> SUFFICES ASSUME NEW x \in Requests, NEW kind \in Kinds, Wants(x, kind)'
                 PROVE  (\/ Said(x, kind) # "none"
                         \/ x \in Subs(req[x].flight, kind)
                         \/ \E ok \in BOOLEAN : Due(x, kind, ok))'
      BY DEF NobodyLost
    <2>1. Wants(x, kind) /\ req'[x] = req[x] /\ req[x].flight \in Requests \ {r}
      BY <1>4, ZenonT(30)
    <2>2. \/ Said(x, kind) # "none"
          \/ x \in Subs(req[x].flight, kind)
          \/ \E ok \in BOOLEAN : Due(x, kind, ok)
      BY <2>1 DEF CallInv, NobodyLost
    <2>3. Said(x, kind)' = Said(x, kind)
      BY <2>1 DEF Said
    <2> QED BY <1>7, <1>8, <2>1, <2>2, <2>3, ZenonT(30)
  <1>e. JoinedBegun'
    BY <1>1, <1>2, <1>3 DEF CallInv, JoinedBegun, QuietRequest
  <1>f. Outcomes'
    BY <1>1, <1>2 DEF CallInv, Outcomes
  <1> QED BY <1>a, <1>b, <1>c, <1>d, <1>e, <1>f DEF CallInv

-----------------------------------------------------------------------------
(* The roles of a request. *)

(* Where a step takes one request, and its publication. *)
ReqAt(r, pc) == \A x \in Requests : req'[x].pc = IF x = r THEN pc ELSE req[x].pc
PubGoes(p, pc) == \A x \in Requests : pub'[x].pc = IF x = p THEN pc ELSE pub[x].pc

(* Where the operators on a request take it. *)
LEMMA ReqMoves ==
  ASSUME TableTypes, NEW r \in Requests
  PROVE  /\ \A pc : RequestTo(r, pc) => ReqAt(r, pc)
         /\ Done(r) => ReqAt(r, "done")
         /\ \A f, want : JoinFlight(r, f, want) => ReqAt(r, "joined")
  <1>1. req[r] \in RequestRecords
    BY DEF TableTypes
  <1>2. ASSUME NEW pc, RequestTo(r, pc)
        PROVE  ReqAt(r, pc)
    <2>1. [req[r] EXCEPT !.pc = pc].pc = pc
      BY <1>1 DEF RequestRecords
    <2> QED BY <1>2, <2>1 DEF RequestTo, ReqAt, TableTypes
  <1>3. Done(r) => ReqAt(r, "done")
    BY DEF Done, NewRequest, ReqAt, TableTypes
  <1>4. \A f, want : JoinFlight(r, f, want) => ReqAt(r, "joined")
    BY DEF JoinFlight, ReqAt, TableTypes
  <1> QED BY <1>2, <1>3, <1>4

(* Where the operators on a publication take it and its request. *)
LEMMA PubMoves ==
  ASSUME TableTypes, NEW p \in Requests
  PROVE  /\ \A pc : PubAt(p, pc) => PubGoes(p, pc)
         /\ PubEnd(p) => PubGoes(p, "idle") /\ ReqAt(p, "done")
         /\ StartReject(p) => PubGoes(p, "send") /\ ReqAt(p, "reject")
  <1>1. pub[p] \in PubRecords
    BY DEF TableTypes
  <1>2. ASSUME NEW pc, PubAt(p, pc)
        PROVE  PubGoes(p, pc)
    <2>1. [pub[p] EXCEPT !.pc = pc].pc = pc
      BY <1>1 DEF PubRecords
    <2> QED BY <1>2, <2>1 DEF PubAt, PubGoes, TableTypes
  <1>3. PubEnd(p) => PubGoes(p, "idle") /\ ReqAt(p, "done")
    BY ReqMoves DEF PubEnd, IdlePub, PubGoes, TableTypes
  <1>4. StartReject(p) => PubGoes(p, "send") /\ ReqAt(p, "reject")
    BY ReqMoves DEF StartReject, IdlePub, PubGoes, TableTypes
  <1> QED BY <1>2, <1>3, <1>4

(* Roles looks at control states only. *)
LEMMA RolesKept ==
  ASSUME Roles, UNCHANGED <<task, todo>>,
         \A x \in Requests : pub'[x].pc = pub[x].pc,
         \/ \A x \in Requests : req'[x].pc = req[x].pc
         \/ \E r \in Requests :
              /\ req[r].pc \in {"new", "retry", "joined", "waiting"}
              /\ ReqAt(r, "done") \/ ReqAt(r, "joined") \/ ReqAt(r, "waiting")
  PROVE  Roles'
  BY DEF Roles, ReqAt

(* Acquire gives a request one role. *)
LEMMA AcquireRoles ==
  ASSUME TableTypes, Roles, NEW r \in Requests, req[r].pc \in {"new", "retry"},
         NEW reclaimed, Acquire(r, reclaimed)
  PROVE  Roles'
  <1>1. \/ StartReject(r) /\ task' = task
        \/ EndRequest(r) /\ task' = task
        \/ (\E f, want : JoinFlight(r, f, want)) /\ task' = task
        \/ /\ RequestTo(r, "reap") /\ todo' = [todo EXCEPT ![r] = Shards]
           /\ UNCHANGED <<pub, task>>
        \/ EndRequest(r) /\ task' = [task EXCEPT ![r] = "queued"]
    BY ZenonT(30)
       DEF Acquire, AcquireReceipt, AcquireFlight, AcquireCapacity, AcquireOwner,
           taskVars
  <1>2. CASE StartReject(r) /\ task' = task
    <2>1. PubGoes(r, "send") /\ ReqAt(r, "reject") /\ todo' = todo
      BY <1>2, PubMoves, ZenonT(30) DEF StartReject
    <2> QED BY <1>2, <2>1 DEF Roles, PubGoes, ReqAt
  <1>3. CASE EndRequest(r) /\ task' = task
    <2>1. ReqAt(r, "done") /\ pub' = pub /\ todo' = todo
      BY <1>3, ReqMoves, ZenonT(30) DEF EndRequest
    <2> QED BY <1>3, <2>1 DEF Roles, ReqAt
  <1>4. CASE (\E f, want : JoinFlight(r, f, want)) /\ task' = task
    <2>1. ReqAt(r, "joined") /\ pub' = pub /\ todo' = todo
      BY <1>4, ReqMoves, ZenonT(30) DEF JoinFlight
    <2> QED BY <1>4, <2>1 DEF Roles, ReqAt
  <1>5. CASE /\ RequestTo(r, "reap") /\ todo' = [todo EXCEPT ![r] = Shards]
             /\ UNCHANGED <<pub, task>>
    <2>1. ReqAt(r, "reap") /\ pub' = pub /\ task' = task
      BY <1>5, ReqMoves, Zenon
    <2>2. \A x \in Requests : x # r => todo'[x] = todo[x]
      BY <1>5 DEF TableTypes
    <2> QED BY <2>1, <2>2 DEF Roles, ReqAt
  <1>6. CASE EndRequest(r) /\ task' = [task EXCEPT ![r] = "queued"]
    <2>1. ReqAt(r, "done") /\ pub' = pub /\ todo' = todo
      BY <1>6, ReqMoves, Zenon DEF EndRequest
    <2>2. \A x \in Requests : x # r => task'[x] = task[x]
      BY <1>6 DEF TableTypes
    <2>3. pub[r].pc = "idle" /\ todo[r] = {}
      BY DEF Roles
    <2> QED BY <2>1, <2>2, <2>3 DEF Roles, ReqAt
  <1> QED BY <1>1, <1>2, <1>3, <1>4, <1>5, <1>6, Zenon

(* A publication that ends leaves its request done. *)
LEMMA PubEndRoles ==
  ASSUME TableTypes, Roles, NEW p \in Requests,
         pub[p].pc \in {"send", "once", "final"}, PubEnd(p), todo' = todo
  PROVE  Roles'
  <1>1. PubGoes(p, "idle") /\ ReqAt(p, "done")
    BY PubMoves, Zenon
  <1>2. \A x \in Requests : x # p => task'[x] = task[x]
    BY DEF PubEnd, TableTypes
  <1>3. todo[p] = {}
    BY Zenon DEF Roles
  <1>4. pub'[p].pc = "idle" /\ req'[p].pc = "done" /\ todo'[p] = {}
    BY <1>1, <1>3, Zenon DEF PubGoes, ReqAt
  <1>5. \A x \in Requests : x # p => /\ pub'[x].pc = pub[x].pc /\ req'[x].pc = req[x].pc
                                     /\ task'[x] = task[x] /\ todo'[x] = todo[x]
    BY <1>1, <1>2, Zenon DEF PubGoes, ReqAt
  <1> QED BY <1>4, <1>5, ZenonT(30) DEF Roles

(* The steps of a task. *)
LEMMA TaskRoles ==
  ASSUME TableTypes, Roles, NEW f \in Requests, TaskStep(f)
  PROVE  Roles'
  <1>1. req' = req /\ todo' = todo
    BY Zenon DEF TaskStep, StartHandler, DropTask, QueueTimeout, RejectOwner, FailGate,
           FinishHandler, CancelHandler, Publish, Abort
  <1>2. /\ task[f] # "none" /\ DOMAIN task = Requests /\ DOMAIN pub = Requests
    BY Zenon DEF TaskStep, StartHandler, DropTask, QueueTimeout, RejectOwner, FailGate,
           FinishHandler, CancelHandler, Publish, Abort, TableTypes
  <1>3. CASE \E st \in {"running", "release", "publish"} :
               /\ task[f] \in {"queued", "running", "publish"}
               /\ TaskTo(f, st) /\ pub' = pub
    BY <1>1, <1>2, <1>3, ZenonT(30) DEF TaskTo, Roles
  <1>4. CASE task[f] = "queued" /\ TaskTo(f, "await") /\ PubAt(f, "send")
    <2>1. PubGoes(f, "send")
      BY <1>4, PubMoves
    <2> QED BY <1>1, <1>2, <1>4, <2>1, Zenon DEF TaskTo, Roles, PubGoes
  <1>5. CASE Abort(f)
    BY <1>1, <1>2, <1>5, Zenon DEF Abort, TaskTo, Roles
  <1>6. CASE Publish(f)
    <2>1. CASE pub' = pub
      BY <1>1, <1>2, <1>6, <2>1, ZenonT(30) DEF Publish, TaskTo, Roles
    <2>2. CASE pub' \in {[pub EXCEPT ![f] = [pc |-> "send", replayable |-> FALSE]],
                         [pub EXCEPT ![f] = [pc |-> "once", replayable |-> FALSE]]}
      <3>1. PubGoes(f, "send") \/ PubGoes(f, "once")
        BY <1>2, <2>2 DEF PubGoes
      <3> QED BY <1>1, <1>2, <1>6, <3>1 DEF Publish, TaskTo, Roles, PubGoes
    <2> QED BY <1>6, <2>1, <2>2, Zenon DEF Publish
  <1> QED
    BY <1>3, <1>4, <1>5, <1>6, Zenon
       DEF TaskStep, StartHandler, DropTask, QueueTimeout, RejectOwner, FailGate,
           FinishHandler, CancelHandler

(* The publication steps keep the roles. *)
LEMMA PubRoles ==
  ASSUME TableTypes, Roles, NEW p \in Requests, PubStep(p)
  PROVE  Roles'
  <1>1. CASE /\ pub[p].pc \in {"send", "once", "final"} /\ PubEnd(p)
             /\ todo' = todo
    BY <1>1, PubEndRoles
  <1>2. CASE /\ pub[p].pc \in {"send", "check"}
             /\ PubGoes(p, "check") \/ PubGoes(p, "once")
             /\ UNCHANGED <<req, task, todo>>
    BY <1>2 DEF Roles, PubGoes
  <1>3. CASE /\ pub[p].pc = "once" /\ PubAt(p, "reap")
             /\ todo' = [todo EXCEPT ![p] = Shards]
             /\ UNCHANGED <<req, task>>
    <2>1. PubGoes(p, "reap")
      BY <1>3, PubMoves, ZenonT(30)
    <2> QED BY <1>3, <2>1, Zenon DEF Roles, PubGoes, TableTypes
  <1>4. CASE Send(p)
    <2>1. PubAt(p, "check") => PubGoes(p, "check")
      BY PubMoves
    <2> QED BY <1>1, <1>2, <1>4, <2>1, Zenon DEF Send
  <1>5. CASE ReplayCheck(p)
    <2>1. PubGoes(p, "once")
      BY <1>5 DEF ReplayCheck, PubGoes, TableTypes
    <2> QED BY <1>2, <1>5, <2>1 DEF ReplayCheck, taskVars
  <1>6. CASE CompleteFlight(p) \/ CompleteLate(p)
    BY <1>1, <1>6, Zenon DEF CompleteFlight, CompleteLate
  <1>7. CASE CompleteOwnerless(p)
    BY <1>1, <1>3, <1>7, Zenon DEF CompleteOwnerless
  <1> QED BY <1>4, <1>5, <1>6, <1>7 DEF PubStep

(* Every step keeps the roles. *)
LEMMA RolesInv ==
  ASSUME Typed, Roles, [Next]_vars
  PROVE  Roles'
  <1>0. TableTypes
    BY DEF Typed
  <1>1. ASSUME NEW r \in Requests, Request(r) \/ Retry(r)
        PROVE  Roles'
    <2>1. req[r].pc \in {"new", "retry"} /\ (Acquire(r, FALSE) \/ Acquire(r, TRUE))
      BY <1>1, ZenonT(30) DEF Request, Retry
    <2> QED BY <1>0, <2>1, AcquireRoles, Zenon
  <1>2. ASSUME NEW r \in Requests,
               SubscribeOpen(r) \/ SubscribeClosed(r) \/ FinishWait(r) \/ AbandonWaiter(r)
        PROVE  Roles'
    <2>1. /\ req[r].pc \in {"joined", "waiting"}
          /\ Done(r) \/ RequestTo(r, "waiting")
          /\ UNCHANGED <<task, todo, pub>>
      BY <1>2, Zenon
         DEF SubscribeOpen, SubscribeClosed, FinishWait, AbandonWaiter, EndRequest,
             taskVars
    <2>2. ReqAt(r, "done") \/ ReqAt(r, "waiting")
      BY <1>0, <2>1, ReqMoves, ZenonT(30)
    <2> QED BY <2>1, <2>2, RolesKept
  <1>3. ASSUME NEW r \in Requests, RejectUnclaimed(r)
        PROVE  Roles'
    <2>1. /\ PubGoes(r, "send") /\ ReqAt(r, "reject") /\ todo' = todo
          /\ task' = task /\ req[r].pc = "new"
      BY <1>0, <1>3, PubMoves, ZenonT(30) DEF RejectUnclaimed, StartReject, taskVars
    <2> QED BY <2>1 DEF Roles, PubGoes, ReqAt
  <1>4. ASSUME NEW r \in Requests, NEW k \in Keys, ObserveDependency(r, k)
        PROVE  Roles'
    <2>1. /\ req[r].pc = "new" /\ ReqAt(r, "joined")
          /\ UNCHANGED <<task, todo, pub>>
      BY <1>0, <1>4, ReqMoves, Zenon DEF ObserveDependency, JoinFlight, taskVars
    <2> QED BY <2>1, RolesKept
  <1>5. ASSUME NEW m \in Callbacks, Callback(m)
        PROVE  Roles'
    <2>1. m.who \in Requests /\ UNCHANGED <<task, todo, pub>>
      BY <1>5 DEF Callback, taskVars, Callbacks
    <2>2. /\ req[m.who] \in RequestRecords
          /\ \A x \in Requests : x # m.who => req'[x] = req[x]
          /\ \E v : \/ req'[m.who] = [req[m.who] EXCEPT !.result = v]
                    \/ req'[m.who] = [req[m.who] EXCEPT !.execution = v]
      BY <1>0, <1>5, <2>1, ZenonT(30) DEF Callback, TableTypes
    <2>3. req'[m.who].pc = req[m.who].pc
      BY <2>2 DEF RequestRecords
    <2> QED BY <2>1, <2>2, <2>3, RolesKept
  <1>6. ASSUME NEW p \in Requests, PubStep(p)
        PROVE  Roles'
    BY <1>0, <1>6, PubRoles
  <1>7. ASSUME NEW p \in Requests, NEW h \in Shards, ExpireReceipts(p, h)
        PROVE  Roles'
    <2> DEFINE rest == todo[p] \ {h}
    <2>1. /\ todo[p] # {} /\ todo' = [todo EXCEPT ![p] = rest] /\ task' = task
      BY <1>7 DEF ExpireReceipts, taskVars
    <2>2. CASE rest # {} /\ UNCHANGED <<req, pub>>
      BY <1>0, <2>1, <2>2 DEF Roles, TableTypes
    <2>3. CASE rest = {} /\ req[p].pc = "reap" /\ pub' = pub /\ RequestTo(p, "retry")
      <3>1. ReqAt(p, "retry")
        BY <1>0, <2>3, ReqMoves, Zenon
      <3> QED BY <1>0, <2>1, <2>3, <3>1, ZenonT(30) DEF Roles, ReqAt, TableTypes
    <2>4. CASE rest = {} /\ req[p].pc # "reap" /\ req' = req /\ PubAt(p, "final")
      <3>1. PubGoes(p, "final")
        BY <1>0, <2>4, PubMoves, ZenonT(30)
      <3> QED BY <1>0, <2>1, <2>4, <3>1, ZenonT(30) DEF Roles, PubGoes, TableTypes
    <2> QED BY <1>7, <2>2, <2>3, <2>4 DEF ExpireReceipts, RequestTo, PubAt
  <1>8. ASSUME NEW f \in Requests, TaskStep(f)
        PROVE  Roles'
    BY <1>0, <1>8, TaskRoles
  <1>9. CASE UNCHANGED <<req, task, pub, todo>>
    BY <1>9, RolesKept
  <1> QED
    BY <1>1, <1>2, <1>3, <1>4, <1>5, <1>6, <1>7, <1>8, <1>9, ZenonT(30)
       DEF Next, RequestStep, ReapStep, DropExpired, AckFrame, Acknowledge, ReceiptTTL,
           ReleaseLogicalSession, ForgetSession, vars, taskVars

-----------------------------------------------------------------------------
(* Every step keeps the callbacks. *)

(* A step that only ends, moves or joins a request that does not wait. *)
LEMMA QuietStepCalls ==
  ASSUME Typed, CallInv, flight' = flight, due' = due,
         succeeded \subseteq succeeded',
         \A r \in Requests : QuietRequest(r)
  PROVE  CallInv'
  BY QuietCalls DEF SameOutcome, SameSubs

(* acquire. *)
LEMMA AcquireCalls ==
  ASSUME IInv, CallInv, NEW r \in Requests, req[r].pc \in {"new", "retry"},
         NEW reclaimed, Acquire(r, reclaimed)
  PROVE  CallInv'
  <1>0. Typed /\ Core /\ req[r].pc # "waiting"
    BY DEF IInv
  <1>1. PICK gone : \/ AcquireReceipt(r, gone)
                    \/ AcquireFlight(r, gone)
                    \/ AcquireCapacity(r, gone, reclaimed)
                    \/ AcquireOwner(r, gone)
    BY ZenonT(30) DEF Acquire
  <1>2. CASE \/ AcquireReceipt(r, gone)
             \/ AcquireCapacity(r, gone, reclaimed)
    <2>1. /\ flight' = flight /\ due' = due /\ succeeded' = succeeded
          /\ Done(r) \/ RequestTo(r, "reject") \/ RequestTo(r, "reap")
      BY <1>2, ZenonT(30)
         DEF AcquireReceipt, AcquireCapacity, StartReject, EndRequest, taskVars
    <2>2. \A x \in Requests : QuietRequest(x)
      BY <1>0, <2>1, QuietMoves
    <2> QED BY <1>0, <2>1, <2>2, QuietStepCalls
  <1>3. CASE AcquireFlight(r, gone)
    <2> DEFINE k == KeyOf[r]
               f == pending[k]
    <2>1. /\ flight' = flight /\ due' = due /\ succeeded' = succeeded
          /\ f # NoFlight
          /\ Done(r) \/ \E want : JoinFlight(r, f, want)
      BY <1>3, ZenonT(30) DEF AcquireFlight, EndRequest, taskVars
    <2>2. f \in Requests /\ flight[f].live # "none"
      BY <1>0, <2>1, KeyAssumption
         DEF Typed, TableTypes, Core, OwnerIdentity, Owned, LiveFlights
    <2> HIDE DEF f
    <2>3. \A x \in Requests : QuietRequest(x)
      BY <1>0, <2>1, <2>2, QuietMoves, Zenon
    <2> QED BY <1>0, <2>1, <2>3, QuietStepCalls
  <1>4. CASE AcquireOwner(r, gone)
    <2>1. /\ flight' = [flight EXCEPT ![r] = NewFlight]
          /\ Done(r) /\ due' = due /\ succeeded' = succeeded
      BY <1>4, Zenon DEF AcquireOwner, EndRequest
    <2>2. flight[r].live = "none" /\ ~flight[r].executionDone
      BY DEF IInv, Fresh, Unclaimed
    <2> QED BY <1>0, <2>1, <2>2, OwnCalls, Zenon
  <1> QED BY <1>1, <1>2, <1>3, <1>4

(* The publication steps: a publisher does not wait. *)
LEMMA PubCalls ==
  ASSUME IInv, CallInv, Roles, NEW p \in Requests, PubStep(p)
  PROVE  CallInv'
  <1>0. Typed /\ Core
    BY DEF IInv
  <1>1. pub[p].pc # "idle" /\ req[p].pc # "waiting" /\ succeeded' = succeeded
    <2>1. pub[p].pc # "idle"
      BY Zenon DEF PubStep, Send, ReplayCheck, CompleteFlight, CompleteLate,
             CompleteOwnerless
    <2>2. succeeded' = succeeded
      BY Zenon DEF PubStep, Send, ReplayCheck, CompleteFlight, CompleteLate,
             CompleteOwnerless, taskVars
    <2> QED BY <2>1, <2>2 DEF Roles
  <1>2. req' = req \/ Done(p)
    BY Zenon DEF PubStep, Send, ReplayCheck, CompleteFlight, CompleteLate,
           CompleteOwnerless, PubEnd
  <1>3. \A x \in Requests : QuietRequest(x)
    <2>1. CASE req' = req
      BY <2>1 DEF QuietRequest
    <2>2. CASE Done(p)
      BY <1>0, <1>1, <2>2, QuietMoves, Zenon
    <2> QED BY <1>2, <2>1, <2>2
  <1>4. CASE CompleteFlight(p)
    <2>1. PICK f \in Requests : f = pending[KeyOf[p]]
      BY <1>0, <1>4, KeyAssumption DEF CompleteFlight, Typed, TableTypes
    <2>2. pending[KeyOf[f]] = f
      BY <1>0, <1>4, <2>1, KeyAssumption, Zenon DEF CompleteFlight, Core, OwnerIdentity, Owned
    <2>3. CloseFlight(f, TRUE)
      BY <1>4, <2>1, Zenon DEF CompleteFlight
    <2> QED BY <1>0, <1>1, <1>3, <2>2, <2>3, CloseCalls, ZenonT(30)
  <1>5. CASE flight' = flight /\ due' = due
    BY <1>0, <1>1, <1>3, <1>5, QuietStepCalls, ZenonT(30)
  <1> QED
    BY <1>4, <1>5, Zenon
       DEF PubStep, Send, ReplayCheck, CompleteLate, CompleteOwnerless, ledgerVars

(* The steps of a task. *)
LEMMA TaskCalls ==
  ASSUME IInv, CallInv, NEW f \in Requests, TaskStep(f)
  PROVE  CallInv'
  <1>0. Typed /\ Core
    BY DEF IInv
  <1>1. req' = req
    BY Zenon DEF TaskStep, StartHandler, DropTask, QueueTimeout, RejectOwner, FailGate,
           FinishHandler, CancelHandler, Publish, Abort
  <1>2. \A x \in Requests : QuietRequest(x)
    BY <1>1, Zenon DEF QuietRequest
  <1>3. CASE StartHandler(f) \/ DropTask(f) \/ QueueTimeout(f)
             \/ \E ok \in BOOLEAN : CancelHandler(f, ok)
    <2>1. flight' = flight /\ due' = due /\ succeeded \subseteq succeeded'
      BY <1>3 DEF StartHandler, DropTask, QueueTimeout, CancelHandler, ledgerVars
    <2> QED BY <1>0, <1>2, <2>1, QuietStepCalls
  <1>4. CASE RejectOwner(f) \/ FailGate(f)
    <2>1. CompleteExecution(f, FALSE) /\ succeeded' = succeeded
      BY <1>4, Zenon DEF RejectOwner, FailGate
    <2> QED BY <1>0, <1>1, <2>1, CompleteExecutionCalls, Zenon
  <1>5. ASSUME NEW ok \in BOOLEAN, NEW reported \in BOOLEAN,
               FinishHandler(f, ok, reported)
        PROVE  CallInv'
    <2>1. /\ CompleteExecution(f, reported) /\ succeeded \subseteq succeeded'
          /\ reported => f \in succeeded'
      BY <1>5 DEF FinishHandler
    <2> QED BY <1>0, <1>1, <2>1, CompleteExecutionCalls
  <1>6. CASE Publish(f)
    <2>1. due' = due /\ succeeded' = succeeded
      BY <1>6, Zenon DEF Publish
    <2>2. CASE flight' = flight
      BY <1>0, <1>2, <2>1, <2>2, QuietStepCalls
    <2>3. CASE flight' = [flight EXCEPT ![f] = HandedOffFlight(f)]
      <3>1. flight[f] \in FlightRecords
        BY <1>0 DEF Typed, TableTypes
      <3> DEFINE new == HandedOffFlight(f)
      <3>2. /\ new.live = flight[f].live /\ new.ok = flight[f].ok
            /\ new.executionDone = flight[f].executionDone
            /\ new.executionOK = flight[f].executionOK
            /\ new.subscribers = flight[f].subscribers
            /\ new.executionSubscribers = flight[f].executionSubscribers
        BY <3>1 DEF HandedOffFlight, FlightRecords
      <3>3. flight'[f] = new /\ \A g \in Requests : g # f => flight'[g] = flight[g]
        BY <1>0, <2>3 DEF Typed, TableTypes
      <3> HIDE DEF new
      <3>4. \A g \in Requests : SameOutcome(g) /\ SameSubs(g)
        BY <3>2, <3>3, Zenon DEF SameOutcome, SameSubs
      <3> QED BY <1>0, <1>2, <2>1, <3>4, QuietCalls
    <2> QED BY <1>6, <2>2, <2>3, Zenon DEF Publish
  <1>7. CASE Abort(f)
    <2>1. succeeded' = succeeded
      BY <1>7, Zenon DEF Abort
    <2>2. CASE MayAbort(f)
      <3>1. pending[KeyOf[f]] = f /\ CloseFlight(f, FALSE)
        BY <1>7, <2>2, Zenon DEF Abort, MayAbort
      <3> QED BY <1>0, <1>2, <2>1, <3>1, CloseCalls, Zenon
    <2>3. CASE ~MayAbort(f)
      <3>1. flight' = flight /\ due' = due
        BY <1>7, <2>3, Zenon DEF Abort
      <3> QED BY <1>0, <1>2, <2>1, <3>1, QuietStepCalls
    <2> QED BY <2>2, <2>3
  <1> QED BY <1>3, <1>4, <1>5, <1>6, <1>7 DEF TaskStep

(* An ACK marks a flight and touches no callback. *)
LEMMA AcknowledgeCalls ==
  ASSUME Typed, CallInv, NEW k \in Keys, Acknowledge(k)
  PROVE  CallInv'
  <1>1. due' = due /\ succeeded' = succeeded /\ req' = req
    BY Zenon DEF Acknowledge, taskVars
  <1>2. \A x \in Requests : QuietRequest(x)
    BY <1>1 DEF QuietRequest
  <1>3. CASE flight' = flight
    BY <1>1, <1>2, <1>3, QuietStepCalls
  <1>4. CASE /\ pending[k] # NoFlight
             /\ flight' = [flight EXCEPT ![pending[k]] = AcknowledgedFlight(pending[k])]
    <2>1. PICK f \in Requests : f = pending[k]
      BY <1>4 DEF Typed, TableTypes
    <2> DEFINE new == AcknowledgedFlight(f)
    <2>2. flight[f] \in FlightRecords
      BY DEF Typed, TableTypes
    <2>3. /\ new.live = flight[f].live /\ new.ok = flight[f].ok
          /\ new.executionDone = flight[f].executionDone
          /\ new.executionOK = flight[f].executionOK
          /\ new.subscribers = flight[f].subscribers
          /\ new.executionSubscribers = flight[f].executionSubscribers
      BY <2>2 DEF AcknowledgedFlight, FlightRecords
    <2>4. flight'[f] = new /\ \A g \in Requests : g # f => flight'[g] = flight[g]
      BY <1>4, <2>1 DEF Typed, TableTypes
    <2> HIDE DEF new
    <2>5. \A g \in Requests : SameOutcome(g) /\ SameSubs(g)
      BY <2>3, <2>4 DEF SameOutcome, SameSubs
    <2> QED BY <1>1, <1>2, <2>5, QuietCalls
  <1> QED BY <1>3, <1>4, Zenon DEF Acknowledge

(* Every step keeps the callbacks. *)
LEMMA CallStep ==
  ASSUME IInv, CallInv, Roles, [Next]_vars
  PROVE  CallInv'
  <1>0. Typed /\ Core
    BY DEF IInv
  <1>1. ASSUME NEW r \in Requests, Request(r) \/ Retry(r)
        PROVE  CallInv'
    <2>1. req[r].pc \in {"new", "retry"} /\ (Acquire(r, FALSE) \/ Acquire(r, TRUE))
      BY <1>1, Zenon DEF Request, Retry
    <2> QED BY <2>1, AcquireCalls, Zenon
  <1>2. ASSUME NEW r \in Requests, SubscribeOpen(r) \/ SubscribeClosed(r) \/ FinishWait(r)
        PROVE  CallInv'
    BY <1>0, <1>2, SubscribeOpenCalls, SubscribeClosedCalls, FinishWaitCalls, ZenonT(30)
  <1>3. ASSUME NEW r \in Requests, AbandonWaiter(r) \/ RejectUnclaimed(r)
        PROVE  CallInv'
    <2>1. /\ flight' = flight /\ due' = due /\ succeeded' = succeeded
          /\ req[r].pc # "waiting" /\ (Done(r) \/ RequestTo(r, "reject"))
      BY <1>3
         DEF AbandonWaiter, RejectUnclaimed, StartReject, EndRequest, taskVars,
             ledgerVars
    <2>2. \A x \in Requests : QuietRequest(x)
      BY <1>0, <2>1, QuietMoves
    <2> QED BY <1>0, <2>1, <2>2, QuietStepCalls
  <1>4. ASSUME NEW r \in Requests, NEW k \in Keys, ObserveDependency(r, k)
        PROVE  CallInv'
    <2>1. /\ flight' = flight /\ due' = due /\ succeeded' = succeeded
          /\ req[r].pc # "waiting" /\ pending[k] # NoFlight
          /\ JoinFlight(r, pending[k], {"execution"})
      BY <1>4 DEF ObserveDependency, taskVars, ledgerVars
    <2>2. pending[k] \in Requests /\ flight[pending[k]].live # "none"
      BY <1>0, <2>1 DEF Typed, TableTypes, Core, OwnerIdentity, Owned, LiveFlights
    <2>3. \A x \in Requests : QuietRequest(x)
      BY <1>0, <2>1, <2>2, QuietMoves, Zenon
    <2> QED BY <1>0, <2>1, <2>3, QuietStepCalls
  <1>5. ASSUME NEW m \in Callbacks, Callback(m)
        PROVE  CallInv'
    BY <1>0, <1>5, CallbackCalls
  <1>6. ASSUME NEW p \in Requests, PubStep(p)
        PROVE  CallInv'
    BY <1>6, PubCalls
  <1>7. ASSUME NEW p \in Requests, NEW h \in Shards, ExpireReceipts(p, h)
        PROVE  CallInv'
    <2>1. /\ flight' = flight /\ due' = due /\ succeeded' = succeeded
          /\ req' = req \/ (req[p].pc = "reap" /\ RequestTo(p, "retry"))
      BY <1>7 DEF ExpireReceipts, taskVars, RequestTo
    <2>2. \A x \in Requests : QuietRequest(x)
      <3>1. CASE req' = req
        BY <3>1 DEF QuietRequest
      <3>2. CASE req[p].pc = "reap" /\ RequestTo(p, "retry")
        BY <1>0, <3>2, QuietMoves
      <3> QED BY <2>1, <3>1, <3>2, Zenon
    <2> QED BY <1>0, <2>1, <2>2, QuietStepCalls
  <1>8. ASSUME NEW f \in Requests, TaskStep(f)
        PROVE  CallInv'
    BY <1>8, TaskCalls
  <1>9. ASSUME NEW k \in Keys, Acknowledge(k)
        PROVE  CallInv'
    BY <1>0, <1>9, AcknowledgeCalls
  <1>10. CASE UNCHANGED <<flight, due, succeeded, req>>
    BY <1>0, <1>10, QuietStepCalls DEF QuietRequest
  <1> QED
    BY <1>1, <1>2, <1>3, <1>4, <1>5, <1>6, <1>7, <1>8, <1>9, <1>10, ZenonT(30)
       DEF Next, RequestStep, ReapStep, DropExpired, AckFrame, ReceiptTTL,
           ReleaseLogicalSession, ForgetSession, vars, taskVars, ledgerVars

(* The callbacks of the empty ledger. *)
LEMMA InitCalls ==
  ASSUME Init
  PROVE  CallInv /\ Roles
  <1>1. \A f \in Requests : /\ flight[f].live = "none"
                            /\ flight[f].executionDone = FALSE
                            /\ flight[f].executionOK = FALSE
                            /\ flight[f].subscribers = {}
                            /\ flight[f].executionSubscribers = {}
    BY DEF Init, NoFlightYet, NewFlight
  <1>2. \A r \in Requests : /\ req[r].pc = "new" /\ req[r].result = "none"
                            /\ req[r].execution = "none"
    BY DEF Init, NewRequest
  <1>3. due = {}
    BY DEF Init
  <1>4. Roles
    BY DEF Init, NewRequest, IdlePub, Roles
  <1>5. StoredOpen /\ DueTold
    BY <1>1, <1>3, Zenon DEF StoredOpen, DueTold, Subs, Due
  <1>6. SaidTold /\ NobodyLost
    BY <1>2, Zenon DEF SaidTold, NobodyLost, Said, Wants
  <1>7. JoinedBegun /\ Outcomes
    BY <1>1, <1>2, Zenon DEF JoinedBegun, Outcomes
  <1> QED BY <1>4, <1>5, <1>6, <1>7 DEF CallInv

(* In every reachable state each accepted callback is in one place, carrying
   the outcome of the flight it joined. *)
THEOREM CallInvariance == Spec => [](IInv /\ CallInv /\ Roles)
  <1>1. Init => CallInv /\ Roles
    BY InitCalls
  <1>2. IInv /\ (CallInv /\ Roles) /\ [Next]_vars => (CallInv /\ Roles)'
    BY CallStep, RolesInv DEF IInv
  <1> HIDE DEF IInv, CallInv, Roles
  <1> QED BY <1>1, <1>2, Invariance, PTL DEF Spec

(* At most one callback of a subscriber is detached for an outcome. *)
LEMMA CallbackOnceCount ==
  ASSUME Typed, CallInv, NEW r \in Requests, NEW kind \in Kinds
  PROVE  /\ Cardinality(Stored(r, kind)) + Cardinality(Detached(r, kind))
              + (IF Said(r, kind) = "none" THEN 0 ELSE 1)
            = IF Wants(r, kind) THEN 1 ELSE 0
         /\ Stored(r, kind) \subseteq {req[r].flight}
  <1> DEFINE f == req[r].flight
  <1>1. \A g \in Requests : g \in Stored(r, kind) <=> r \in Subs(g, kind)
    BY Zenon DEF Stored, Subs
  <1>2. Stored(r, kind) \subseteq Requests
    BY ZenonT(30) DEF Stored
  <1>3. Stored(r, kind) \subseteq {f}
    BY <1>1, <1>2 DEF CallInv, StoredOpen
  <1>4. \A m \in Detached(r, kind) :
          m.ok \in BOOLEAN /\ m = [who |-> r, kind |-> kind, ok |-> m.ok]
    BY DEF Detached, Typed, TableTypes, Callbacks
  <1>5. \A m \in Detached(r, kind) : Due(r, kind, m.ok)
    BY <1>4, Zenon DEF Detached, Due
  <1>6. \A ok \in BOOLEAN : Due(r, kind, ok) =>
          [who |-> r, kind |-> kind, ok |-> ok] \in Detached(r, kind)
    BY DEF Due, Detached
  <1>7. Cardinality({}) = 0 /\ Cardinality({f}) = 1
    BY FS_EmptySet, FS_Singleton, Zenon
  <1>8. CASE ~Wants(r, kind)
    <2>1. Said(r, kind) = "none"
      BY <1>8 DEF CallInv, SaidTold
    <2>2. Stored(r, kind) = {}
      BY <1>1, <1>2, <1>8 DEF CallInv, StoredOpen
    <2>3. Detached(r, kind) = {}
      BY <1>4, <1>5, <1>8 DEF CallInv, DueTold
    <2> QED BY <1>3, <1>7, <1>8, <2>1, <2>2, <2>3
  <1>9. CASE Wants(r, kind)
    <2>0. f \in Requests
      BY <1>9, WaiterFlight DEF Wants
    <2>1. CASE \E ok \in BOOLEAN : Due(r, kind, ok)
      <3>1. PICK ok \in BOOLEAN : Due(r, kind, ok)
        BY <2>1
      <3>2. Said(r, kind) = "none" /\ Told(f, kind, ok)
        BY <3>1 DEF CallInv, DueTold
      <3>3. ~Open(f, kind)
        BY <3>2 DEF Open, Told, Kinds
      <3>4. Stored(r, kind) = {}
        BY <1>1, <1>3, <2>0, <3>3 DEF CallInv, StoredOpen
      <3>5. \A m \in Detached(r, kind) : m.ok = ok
        BY <1>4, <1>5, <3>2 DEF CallInv, DueTold, Told
      <3>6. Detached(r, kind) = {[who |-> r, kind |-> kind, ok |-> ok]}
        BY <1>4, <1>6, <3>1, <3>5
      <3>7. Cardinality(Detached(r, kind)) = 1
        BY <3>6, FS_Singleton, Zenon
      <3> QED BY <1>3, <1>7, <1>9, <3>2, <3>4, <3>7
    <2>2. CASE ~\E ok \in BOOLEAN : Due(r, kind, ok)
      <3>1. Detached(r, kind) = {}
        BY <1>4, <1>5, <2>2
      <3>2. CASE Said(r, kind) # "none"
        <4>1. Told(f, kind, Said(r, kind) = "yes")
          BY <3>2 DEF CallInv, SaidTold
        <4>2. ~Open(f, kind)
          BY <4>1 DEF Open, Told, Kinds
        <4>3. Stored(r, kind) = {}
          BY <1>1, <1>3, <2>0, <4>2 DEF CallInv, StoredOpen
        <4> QED BY <1>3, <1>7, <1>9, <3>1, <3>2, <4>3
      <3>3. CASE Said(r, kind) = "none"
        <4>1. Stored(r, kind) = {f}
          BY <1>1, <1>3, <1>9, <2>0, <2>2, <3>3, Zenon DEF CallInv, NobodyLost
        <4> QED BY <1>3, <1>7, <1>9, <3>1, <3>3, <4>1
      <3> QED BY <3>2, <3>3, Zenon
    <2> QED BY <2>1, <2>2, Zenon
  <1> QED BY <1>8, <1>9, Zenon

(* subscribe, CompleteExecution, Complete and Abort hand every accepted
   callback on exactly once, however they interleave. *)
THEOREM CallbackOnceHolds == Spec => []CallbackOnce
  <1>1. Typed /\ CallInv => CallbackOnce
    BY CallbackOnceCount DEF CallbackOnce, Wants, Kinds
  <1>2. IInv => Typed
    BY DEF IInv
  <1> HIDE DEF IInv, CallInv, Roles, Typed, CallbackOnce
  <1> QED BY <1>1, <1>2, CallInvariance, PTL

(* What a subscriber is told is the outcome of the flight it joined, and a
   positive execution outcome belongs to a handler that succeeded. *)
THEOREM OutcomeAgreementHolds == Spec => []OutcomeAgreement
  <1>1. ASSUME Typed, CallInv, NEW r \in Requests, req[r].pc = "waiting"
        PROVE  LET f == req[r].flight IN
               /\ \A m \in Detached(r, "execution") : m.ok = flight[f].executionOK
               /\ req[r].execution # "none" =>
                    (req[r].execution = "yes") = flight[f].executionOK
               /\ req[r].result # "none" =>
                    /\ flight[f].live = "closed"
                    /\ (req[r].result = "yes") = flight[f].ok
               /\ flight[f].executionOK => f \in succeeded
    <2> DEFINE f == req[r].flight
    <2>0. f \in Requests
      BY <1>1, WaiterFlight
    <2>1. \A m \in Detached(r, "execution") : m.ok = flight[f].executionOK
      <3> TAKE m \in Detached(r, "execution")
      <3>1. m.ok \in BOOLEAN /\ m = [who |-> r, kind |-> "execution", ok |-> m.ok]
        BY <1>1 DEF Detached, Typed, TableTypes, Callbacks
      <3>2. Due(r, "execution", m.ok)
        BY <3>1, Zenon DEF Detached, Due
      <3> QED BY <1>1, <3>1, <3>2 DEF CallInv, DueTold, Told, Kinds
    <2>2. req[r].execution # "none" =>
            (req[r].execution = "yes") = flight[f].executionOK
      BY <1>1, Zenon DEF CallInv, SaidTold, Said, Told, Kinds
    <2>3. req[r].result # "none" =>
            flight[f].live = "closed" /\ (req[r].result = "yes") = flight[f].ok
      BY <1>1, Zenon DEF CallInv, SaidTold, Said, Told, Kinds
    <2>4. flight[f].executionOK => f \in succeeded
      BY <1>1, <2>0, Zenon DEF CallInv, Outcomes
    <2> QED BY <2>1, <2>2, <2>3, <2>4, ZenonT(30)
  <1>2. Typed /\ CallInv => OutcomeAgreement
    BY <1>1, Zenon DEF OutcomeAgreement
  <1>3. IInv => Typed
    BY DEF IInv
  <1> HIDE DEF IInv, CallInv, Roles, Typed, OutcomeAgreement
  <1> QED BY <1>2, <1>3, CallInvariance, PTL

=============================================================================
