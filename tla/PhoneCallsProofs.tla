-------------------------- MODULE PhoneCallsProofs --------------------------
(***************************************************************************)
(* The registry of private calls counts exactly, and a call ends once.     *)
(*                                                                         *)
(* The operators of the registry are taken one at a time: sweeping and     *)
(* discarding map a registry that is in order to one that is in order, and *)
(* so does their composition in the expiry worker.                         *)
(***************************************************************************)
EXTENDS PhoneCalls, FiniteSetTheorems, TLAPS

(* Every leaf that names no prover: Zenon, then SMT, which is tried again as Z3
   when the translation ran out of time. *)
USE ZenonT(10), SMTT(30), Z3T(30)

-----------------------------------------------------------------------------
(* A registry in order *)

(* The calls in the table, those that are not over, and those of one caller. *)
KnownIn(r) == {c \in Calls : r.byID[c] # None}
LiveIn(r) == {c \in Calls : r.byID[c] # None /\ ~Terminal(r.byID[c])}
LiveOf(r, u) == {c \in LiveIn(r) : r.byID[c].admin = u}

(* The types of a registry. *)
RegTypes(r) ==
  /\ DOMAIN r = {"byID", "byRandom", "active"}
  /\ r.byID \in [Calls -> CallRecords \cup {None}]
  /\ r.byRandom \in [Users \X Randoms -> Calls \cup {None}]
  /\ r.active \in [Users -> Nat]

(* The keys and the calls find each other. *)
KeysAgree(r) ==
  /\ \A c \in LiveIn(r) : r.byRandom[Key(r.byID[c])] = c
  /\ \A key \in Users \X Randoms : r.byRandom[key] # None =>
       /\ r.byRandom[key] \in KnownIn(r)
       /\ Key(r.byID[r.byRandom[key]]) = key

(* The counters are the sizes of the sets they stand for. *)
Counted(r) ==
  /\ \A u \in Users : /\ r.active[u] = Cardinality(LiveOf(r, u))
                      /\ r.active[u] <= MaxActivePerUser
  /\ Cardinality(KnownIn(r)) <= MaxRegistryEntries

(* What every method expects and leaves. *)
InOrder(r) == RegTypes(r) /\ KeysAgree(r) /\ Counted(r)

(* What a step does to the calls the registry knows: none appears, and one
   that has ended keeps what it ended with. *)
Fewer(r, s) ==
  \A c \in KnownIn(s) :
    /\ c \in KnownIn(r)
    /\ Terminal(r.byID[c]) => /\ Terminal(s.byID[c])
                              /\ s.byID[c].reason = r.byID[c].reason
                              /\ s.byID[c].duration = r.byID[c].duration

-----------------------------------------------------------------------------
(* The sets of the registry are finite. *)
LEMMA FiniteCalls ==
  ASSUME NEW S, S \subseteq Calls
  PROVE  IsFiniteSet(S) /\ Cardinality(S) \in Nat
  BY PhoneAssumption, FS_Subset, FS_CardinalityType

(* A set of calls is no smaller than its parts. *)
LEMMA SmallerSet ==
  ASSUME NEW S, NEW T, S \subseteq T, T \subseteq Calls
  PROVE  Cardinality(S) <= Cardinality(T)
  BY PhoneAssumption, FS_Subset

(* The field lemma for call records. *)
LEMMA CallFields ==
  ASSUME NEW x \in CallRecords
  PROVE  /\ x # None
         /\ x.admin \in Users /\ x.random \in Randoms /\ x.state \in States
         /\ x.duration \in Nat /\ x.reason \in Reasons \cup {None}
         /\ Key(x) \in Users \X Randoms
  BY NoneAssumption DEF CallRecords, Key

(* sweepLocked takes ended calls and the keys that find them. *)
LEMMA SweepInOrder ==
  ASSUME NEW r, InOrder(r)
  PROVE  InOrder(SweepTombstones(r)) /\ Fewer(r, SweepTombstones(r))
  <1> DEFINE s == SweepTombstones(r)
             swept == Tombstones(r)
  <1>1. /\ s.byID = [c \in Calls |-> IF c \in swept THEN None ELSE r.byID[c]]
        /\ s.byRandom = [key \in Users \X Randoms |->
                           IF r.byRandom[key] \in swept THEN None ELSE r.byRandom[key]]
        /\ s.active = r.active
        /\ DOMAIN s = {"byID", "byRandom", "active"}
    BY DEF SweepTombstones, InOrder, RegTypes
  <1>2. swept \subseteq Calls /\ \A c \in swept : r.byID[c] # None /\ Terminal(r.byID[c])
    BY DEF Tombstones
  <1> HIDE DEF s, swept
  <1>3. RegTypes(s)
    BY <1>1 DEF RegTypes, InOrder
  <1>4. LiveIn(s) = LiveIn(r) /\ KnownIn(s) = KnownIn(r) \ swept
    BY <1>1, <1>2 DEF LiveIn, KnownIn
  <1>5. \A c \in KnownIn(s) : s.byID[c] = r.byID[c]
    BY <1>1, <1>4 DEF KnownIn
  <1>6. KeysAgree(s)
    <2>1. ASSUME NEW c \in LiveIn(s)
          PROVE  s.byRandom[Key(s.byID[c])] = c
      <3>1. c \in LiveIn(r) /\ s.byID[c] = r.byID[c] /\ c \notin swept /\ c \in Calls
        BY <1>2, <1>4, <1>5 DEF LiveIn, KnownIn
      <3>2. r.byID[c] \in CallRecords
        BY <3>1 DEF InOrder, RegTypes, LiveIn
      <3>3. Key(r.byID[c]) \in Users \X Randoms
        BY <3>2, CallFields
      <3>4. r.byRandom[Key(r.byID[c])] = c
        BY <3>1 DEF InOrder, KeysAgree
      <3> QED BY <1>1, <3>1, <3>3, <3>4
    <2>2. ASSUME NEW key \in Users \X Randoms, s.byRandom[key] # None
          PROVE  s.byRandom[key] \in KnownIn(s) /\ Key(s.byID[s.byRandom[key]]) = key
      <3>1. s.byRandom[key] = r.byRandom[key] /\ r.byRandom[key] \notin swept
        BY <1>1, <2>2
      <3>2. r.byRandom[key] \in KnownIn(r) /\ Key(r.byID[r.byRandom[key]]) = key
        BY <2>2, <3>1 DEF InOrder, KeysAgree
      <3> QED BY <1>4, <1>5, <3>1, <3>2
    <2> QED BY <2>1, <2>2 DEF KeysAgree
  <1>7. Counted(s)
    <2>1. \A u \in Users : LiveOf(s, u) = LiveOf(r, u)
      BY <1>4, <1>5 DEF LiveOf, LiveIn, KnownIn
    <2>2. Cardinality(KnownIn(s)) <= Cardinality(KnownIn(r))
      BY <1>4, SmallerSet DEF KnownIn
    <2>3. Cardinality(KnownIn(s)) \in Nat /\ Cardinality(KnownIn(r)) \in Nat
      BY FiniteCalls DEF KnownIn
    <2>4. Cardinality(KnownIn(s)) <= MaxRegistryEntries
      BY <2>2, <2>3, PhoneAssumption DEF Counted, InOrder
    <2> QED BY <1>1, <2>1, <2>4 DEF Counted, InOrder
  <1>8. Fewer(r, s)
    BY <1>4, <1>5 DEF Fewer
  <1> QED BY <1>3, <1>6, <1>7, <1>8 DEF InOrder, s

(* markDiscardedLocked ends calls, and gives back what they were counted for. *)
LEMMA MarkInOrder ==
  ASSUME NEW r, InOrder(r), NEW D, D \subseteq LiveIn(r),
         NEW reason \in [D -> Reasons], NEW duration \in Nat
  PROVE  /\ InOrder(MarkDiscarded(r, reason, duration))
         /\ Fewer(r, MarkDiscarded(r, reason, duration))
         /\ \A c \in D : LET x == MarkDiscarded(r, reason, duration).byID[c] IN
              /\ x \in CallRecords
              /\ Terminal(x)
              /\ x.reason = reason[c]
              /\ x.duration = duration
  <1> DEFINE s == MarkDiscarded(r, reason, duration)
             ended == {c \in DOMAIN reason : ~Terminal(r.byID[c])}
             end(c) == [r.byID[c] EXCEPT !.state = "discarded", !.reason = reason[c],
                                         !.duration = duration]
  <1>0. ended = D /\ D \subseteq Calls /\ \A c \in D : r.byID[c] \in CallRecords
    BY DEF LiveIn, InOrder, RegTypes
  <1>1. /\ s.byID = [c \in Calls |-> IF c \in ended THEN end(c) ELSE r.byID[c]]
        /\ s.byRandom = r.byRandom
        /\ s.active = [u \in Users |->
             r.active[u] - Cardinality({c \in ended : r.byID[c].admin = u})]
        /\ DOMAIN s = {"byID", "byRandom", "active"}
    BY DEF MarkDiscarded, InOrder, RegTypes
  <1>2. ASSUME NEW c \in D
        PROVE  /\ end(c) \in CallRecords /\ end(c).state = "discarded"
               /\ end(c).reason = reason[c] /\ end(c).duration = duration
               /\ end(c).admin = r.byID[c].admin /\ end(c).random = r.byID[c].random
    BY <1>0, ZenonT(30) DEF CallRecords, States
  <1>3. \A c \in Calls : s.byID[c] = IF c \in D THEN end(c) ELSE r.byID[c]
    BY <1>0, <1>1, Zenon
  <1> HIDE DEF s, end
  <1>4. KnownIn(s) = KnownIn(r) /\ LiveIn(s) = LiveIn(r) \ D
    <2>1. \A c \in D : end(c) # None /\ r.byID[c] # None
      BY <1>0, <1>2, NoneAssumption
    <2> QED BY <1>0, <1>2, <1>3, <2>1 DEF KnownIn, LiveIn, Terminal
  <1>5. \A u \in Users : /\ s.active[u] = Cardinality(LiveOf(s, u))
                         /\ s.active[u] <= MaxActivePerUser
                         /\ s.active[u] \in Nat
    <2> TAKE u \in Users
    <2> DEFINE E == {c \in ended : r.byID[c].admin = u}
    <2>1. E \subseteq LiveOf(r, u) /\ LiveOf(s, u) = LiveOf(r, u) \ E
      BY <1>0, <1>3, <1>4 DEF LiveOf, LiveIn
    <2>2. s.active[u] = r.active[u] - Cardinality(E)
      BY <1>1
    <2>3. r.active[u] = Cardinality(LiveOf(r, u)) /\ r.active[u] <= MaxActivePerUser
      BY DEF InOrder, Counted
    <2> HIDE DEF E
    <2>4. IsFiniteSet(LiveOf(r, u)) /\ IsFiniteSet(E)
      BY <2>1, FiniteCalls DEF LiveOf, LiveIn
    <2>5. Cardinality(LiveOf(r, u) \ E)
            = Cardinality(LiveOf(r, u)) - Cardinality(LiveOf(r, u) \cap E)
      BY <2>4, FS_Difference, Zenon
    <2>6. LiveOf(r, u) \cap E = E
      BY <2>1
    <2>7. Cardinality(E) \in Nat /\ Cardinality(LiveOf(r, u)) \in Nat
          /\ Cardinality(LiveOf(r, u) \ E) \in Nat
      BY <2>4, FS_CardinalityType, FS_Difference, Zenon
    <2>8. Cardinality(LiveOf(s, u)) = Cardinality(LiveOf(r, u)) - Cardinality(E)
      BY <2>1, <2>5, <2>6, Zenon
    <2>9. Cardinality(LiveOf(s, u)) \in Nat
      BY <2>1, <2>7
    <2> QED BY ONLY <2>2, <2>3, <2>7, <2>8, <2>9, PhoneAssumption, SMTT(30), Z3T(30)
  <1>6. RegTypes(s)
    <2>1. s.byID \in [Calls -> CallRecords \cup {None}]
      BY <1>0, <1>1, <1>2, <1>3 DEF InOrder, RegTypes
    <2>2. s.active \in [Users -> Nat]
      BY <1>1, <1>5
    <2> QED BY <1>1, <2>1, <2>2 DEF InOrder, RegTypes
  <1>7. KeysAgree(s)
    <2>1. \A c \in KnownIn(s) : Key(s.byID[c]) = Key(r.byID[c])
      BY <1>0, <1>2, <1>3 DEF Key, KnownIn
    <2>2. \A c \in LiveIn(s) : c \in LiveIn(r) /\ c \in KnownIn(s)
      BY <1>4 DEF LiveIn, KnownIn
    <2> QED BY <1>1, <1>4, <2>1, <2>2 DEF KeysAgree, InOrder
  <1>8. Counted(s)
    BY <1>4, <1>5 DEF Counted, InOrder
  <1>9. Fewer(r, s)
    BY <1>0, <1>3, <1>4 DEF Fewer, LiveIn, KnownIn
  <1> QED BY <1>0, <1>2, <1>3, <1>6, <1>7, <1>8, <1>9 DEF InOrder, Terminal, s

-----------------------------------------------------------------------------
(* The inductive invariant *)

(* What the expiry worker has in hand. *)
WorkItems ==
  [call : Calls, snap : CallRecords, push : Seq({"admin", "participant"}),
   record : BOOLEAN]

(* One handler has the end of a call in hand, and the registry agrees with the
   snapshot for as long as it keeps the call. *)
WorkOnce ==
  /\ work \subseteq WorkItems
  /\ \A w \in work :
       /\ w.call \in issued
       /\ Known(w.call) => /\ Terminal(byID[w.call])
                           /\ byID[w.call].reason = w.snap.reason
                           /\ byID[w.call].duration = w.snap.duration
  /\ \A v, w \in work : v.call = w.call => v = w

(* A call that has entered the history has ended, and nobody will enter it
   again. *)
HistoryOnce ==
  /\ DOMAIN history = Calls
  /\ \A c \in Calls : history[c] # <<>> =>
       /\ c \in issued
       /\ \A w \in work : w.call # c
       /\ Len(history[c]) = 1
       /\ Known(c) => /\ Terminal(byID[c])
                      /\ history[c] = <<[reason |-> byID[c].reason,
                                         duration |-> byID[c].duration]>>

(* The inductive invariant. *)
PhoneInv ==
  /\ issued \subseteq Calls
  /\ \A c \in Calls : Known(c) => c \in issued
  /\ InOrder(Registry)
  /\ WorkOnce
  /\ HistoryOnce

(* The variables are the registry that Becomes names. *)
LEMMA RegistryNext ==
  ASSUME NEW s, InOrder(s), Becomes(s)
  PROVE  /\ InOrder(Registry)'
         /\ \A c \in Calls : byID'[c] = s.byID[c]
         /\ \A c \in Calls : Known(c)' <=> c \in KnownIn(s)
  <1> DEFINE t == [byID |-> byID', byRandom |-> byRandom', active |-> active']
  <1>1. /\ t.byID = s.byID /\ t.byRandom = s.byRandom /\ t.active = s.active
        /\ DOMAIN t = {"byID", "byRandom", "active"}
    BY DEF Becomes
  <1> HIDE DEF t
  <1>2. RegTypes(t)
    BY <1>1 DEF InOrder, RegTypes
  <1>3. KnownIn(t) = KnownIn(s) /\ LiveIn(t) = LiveIn(s)
    BY <1>1 DEF KnownIn, LiveIn
  <1>4. \A u : LiveOf(t, u) = LiveOf(s, u)
    BY <1>1, <1>3 DEF LiveOf
  <1>5. KeysAgree(t) /\ Counted(t)
    BY <1>1, <1>3, <1>4 DEF InOrder, KeysAgree, Counted
  <1>6. InOrder(t)
    BY <1>2, <1>5 DEF InOrder
  <1> QED BY <1>6 DEF t, Registry, Becomes, Known, KnownIn

(* W is the ends of calls that were alive, one each, as the registry s that
   ended them has them. *)
Ends(W, s) ==
  /\ W \subseteq WorkItems
  /\ \A w \in W : /\ w.call \in Live
                  /\ w.call \in KnownIn(s) =>
                       /\ Terminal(s.byID[w.call])
                       /\ s.byID[w.call].reason = w.snap.reason
                       /\ s.byID[w.call].duration = w.snap.duration
  /\ \A v, w \in W : v.call = w.call => v = w

(* The registry takes a step that adds no call, and hands the ends of calls to
   the handlers that ended them. *)
LEMMA EndedCalls ==
  ASSUME PhoneInv, NEW s, InOrder(s), Fewer(Registry, s), Becomes(s),
         NEW W, Ends(W, s), work' = work \cup W,
         issued' = issued, history' = history
  PROVE  PhoneInv'
  <1>0. /\ W \subseteq WorkItems
        /\ \A w \in W : /\ w.call \in Live
                        /\ w.call \in KnownIn(s) =>
                             /\ Terminal(s.byID[w.call])
                             /\ s.byID[w.call].reason = w.snap.reason
                             /\ s.byID[w.call].duration = w.snap.duration
        /\ \A v, w \in W : v.call = w.call => v = w
    BY DEF Ends
  <1>1. /\ InOrder(Registry)'
        /\ \A c \in Calls : byID'[c] = s.byID[c]
        /\ \A c \in Calls : Known(c)' <=> c \in KnownIn(s)
    BY RegistryNext
  <1>2. ASSUME NEW c \in Calls, Known(c)'
        PROVE  /\ Known(c)
               /\ Terminal(byID[c]) => /\ Terminal(byID[c])'
                                       /\ byID'[c].reason = byID[c].reason
                                       /\ byID'[c].duration = byID[c].duration
    BY <1>1, <1>2 DEF Fewer, KnownIn, Registry, Known, Terminal
  <1>3. \A w \in W : /\ w.call \in Calls /\ w.call \in issued /\ Known(w.call)
                     /\ ~Terminal(byID[w.call])
    <2>1. \A w \in W : w.call \in Live
      BY <1>0
    <2> QED BY <2>1 DEF PhoneInv, Live, Known
  <1>4. \A w \in work : w.call \in Calls /\ (Known(w.call) => Terminal(byID[w.call]))
    BY DEF PhoneInv, WorkOnce, WorkItems
  <1>5. WorkOnce'
    <2>1. work' \subseteq WorkItems
      BY <1>0 DEF PhoneInv, WorkOnce
    <2>2. ASSUME NEW w \in work'
          PROVE  /\ w.call \in issued'
                 /\ Known(w.call)' => /\ Terminal(byID[w.call])'
                                      /\ byID'[w.call].reason = w.snap.reason
                                      /\ byID'[w.call].duration = w.snap.duration
      <3>1. CASE w \in work
        BY <1>2, <1>4, <3>1 DEF PhoneInv, WorkOnce
      <3>2. CASE w \in W
        <4>1. /\ w.call \in Calls /\ w.call \in issued
              /\ byID'[w.call] = s.byID[w.call]
              /\ Known(w.call)' <=> w.call \in KnownIn(s)
          BY <1>1, <1>3, <3>2
        <4>2. w.call \in KnownIn(s) => /\ Terminal(s.byID[w.call])
                                       /\ s.byID[w.call].reason = w.snap.reason
                                       /\ s.byID[w.call].duration = w.snap.duration
          BY <1>0, <3>2
        <4> QED BY <4>1, <4>2 DEF Terminal
      <3> QED BY <3>1, <3>2
    <2>3. \A v, w \in work' : v.call = w.call => v = w
      BY <1>0, <1>3, <1>4 DEF PhoneInv, WorkOnce
    <2> QED BY <2>1, <2>2, <2>3 DEF WorkOnce
  <1>6. HistoryOnce'
    <2>1. ASSUME NEW c \in Calls, history'[c] # <<>>
          PROVE  /\ c \in issued'
                 /\ \A w \in work' : w.call # c
                 /\ Len(history'[c]) = 1
                 /\ Known(c)' => /\ Terminal(byID[c])'
                                 /\ history'[c] = <<[reason |-> byID'[c].reason,
                                                     duration |-> byID'[c].duration]>>
      <3>1. /\ c \in issued /\ Len(history[c]) = 1
            /\ \A w \in work : w.call # c
            /\ Known(c) => /\ Terminal(byID[c])
                           /\ history[c] = <<[reason |-> byID[c].reason,
                                              duration |-> byID[c].duration]>>
        BY <2>1 DEF PhoneInv, HistoryOnce
      <3>2. \A w \in W : w.call # c
        BY <1>3, <3>1
      <3> QED BY <1>2, <3>1, <3>2
    <2> QED BY <2>1 DEF HistoryOnce, PhoneInv
  <1>7. issued' \subseteq Calls /\ \A c \in Calls : Known(c)' => c \in issued'
    BY <1>2 DEF PhoneInv
  <1> QED BY <1>1, <1>5, <1>6, <1>7 DEF PhoneInv

(* A step that changes one call, and neither its key nor whether it is alive. *)
LEMMA ChangedCall ==
  ASSUME PhoneInv, NEW c \in Calls, Known(c), NEW x \in CallRecords,
         x.admin = byID[c].admin, x.random = byID[c].random,
         Terminal(x) = Terminal(byID[c]),
         x.reason = byID[c].reason, x.duration = byID[c].duration,
         byID' = [byID EXCEPT ![c] = x],
         issued' = issued, byRandom' = byRandom, active' = active,
         work' = work, history' = history
  PROVE  PhoneInv'
  <1> DEFINE r == Registry
             s == [byID |-> byID', byRandom |-> byRandom, active |-> active]
  <1>1. /\ r.byID = byID /\ r.byRandom = byRandom /\ r.active = active
        /\ s.byID = byID' /\ s.byRandom = byRandom /\ s.active = active
        /\ DOMAIN s = {"byID", "byRandom", "active"}
        /\ InOrder(r)
    BY DEF Registry, PhoneInv
  <1> HIDE DEF r, s
  <1>2. byID \in [Calls -> CallRecords \cup {None}]
    BY <1>1 DEF InOrder, RegTypes
  <1>3. /\ byID'[c] = x /\ x # None /\ byID[c] # None
        /\ \A d \in Calls : d # c => byID'[d] = byID[d]
    BY <1>2, NoneAssumption DEF Known
  <1>4. KnownIn(s) = KnownIn(r) /\ LiveIn(s) = LiveIn(r)
    BY <1>1, <1>3 DEF KnownIn, LiveIn
  <1>5. /\ \A d \in Calls : Key(s.byID[d]) = Key(r.byID[d])
        /\ \A d \in Calls : s.byID[d].admin = r.byID[d].admin
    BY <1>1, <1>3 DEF Key
  <1>6. \A u : LiveOf(s, u) = LiveOf(r, u)
    BY <1>4, <1>5 DEF LiveOf, LiveIn
  <1>7. RegTypes(s)
    BY <1>1, <1>2 DEF RegTypes, InOrder
  <1>8. KeysAgree(s)
    BY <1>1, <1>4, <1>5 DEF KeysAgree, InOrder, LiveIn, KnownIn
  <1>9. Counted(s)
    BY <1>1, <1>4, <1>6 DEF Counted, InOrder
  <1>10. Fewer(Registry, s)
    <2>1. Fewer(r, s)
      BY <1>1, <1>3, <1>4 DEF Fewer, KnownIn
    <2> QED BY <2>1 DEF r
  <1>11. Becomes(s)
    BY <1>1 DEF Becomes
  <1>12. InOrder(s)
    BY <1>7, <1>8, <1>9 DEF InOrder
  <1>13. work' = work \cup {} /\ Ends({}, s)
    BY DEF Ends
  <1> QED BY <1>10, <1>11, <1>12, <1>13, EndedCalls

-----------------------------------------------------------------------------
(* The steps *)

(* The initial state is in order. *)
LEMMA InitPhone ==
  ASSUME Init
  PROVE  PhoneInv
  <1>1. /\ Registry.byID = byID /\ Registry.byRandom = byRandom /\ Registry.active = active
        /\ DOMAIN Registry = {"byID", "byRandom", "active"}
    BY DEF Registry
  <1>2. KnownIn(Registry) = {} /\ LiveIn(Registry) = {}
    BY <1>1 DEF KnownIn, LiveIn, Init
  <1>3. \A u : LiveOf(Registry, u) = {}
    BY <1>2 DEF LiveOf
  <1>4. Cardinality({}) = 0
    BY FS_EmptySet
  <1>5. RegTypes(Registry)
    BY <1>1 DEF RegTypes, Init
  <1>6. KeysAgree(Registry)
    BY <1>1, <1>2 DEF KeysAgree, Init
  <1>7. Counted(Registry)
    <2>1. \A u \in Users : active[u] = 0 /\ active[u] <= MaxActivePerUser
      BY PhoneAssumption DEF Init
    <2>2. Cardinality(KnownIn(Registry)) <= MaxRegistryEntries
      BY <1>2, <1>4, PhoneAssumption
    <2>3. \A u \in Users : Cardinality(LiveOf(Registry, u)) = 0
      BY <1>3, <1>4
    <2> QED BY <1>1, <2>1, <2>2, <2>3 DEF Counted
  <1> QED BY <1>5, <1>6, <1>7 DEF PhoneInv, InOrder, WorkOnce, HistoryOnce, Init, Known

(* A new call, with the key of its caller and a place in their count. *)
LEMMA NewCallInOrder ==
  ASSUME NEW r, InOrder(r), NEW c \in Calls, r.byID[c] = None,
         NEW u \in Users, NEW v \in Users, NEW y \in Randoms, ~Retried(r, u, y),
         Cardinality(KnownIn(r)) < MaxRegistryEntries, r.active[u] < MaxActivePerUser,
         NEW s, s = [byID     |-> [r.byID EXCEPT ![c] = NewCall(u, v, y)],
                     byRandom |-> [r.byRandom EXCEPT ![<<u, y>>] = c],
                     active   |-> [r.active EXCEPT ![u] = @ + 1]]
  PROVE  InOrder(s)
  <1> DEFINE x == NewCall(u, v, y)
             key == <<u, y>>
  <1>1. /\ s.byID = [r.byID EXCEPT ![c] = x]
        /\ s.byRandom = [r.byRandom EXCEPT ![key] = c]
        /\ s.active = [r.active EXCEPT ![u] = @ + 1]
        /\ DOMAIN s = {"byID", "byRandom", "active"}
    OBVIOUS
  <1>2. /\ x \in CallRecords /\ x # None /\ ~Terminal(x)
        /\ x.admin = u /\ Key(x) = key /\ key \in Users \X Randoms
    <2>1. x \in CallRecords
      BY DEF NewCall, CallRecords, States
    <2>2. x.admin = u /\ x.random = y /\ x.state = "requested"
      BY DEF NewCall
    <2> QED BY <2>1, <2>2, NoneAssumption DEF Terminal, Key
  <1>3. RegTypes(r)
    BY DEF InOrder
  <1> HIDE DEF x, key
  <1>4. /\ s.byID[c] = x /\ \A d \in Calls : d # c => s.byID[d] = r.byID[d]
        /\ s.byRandom[key] = c
        /\ \A j \in Users \X Randoms : j # key => s.byRandom[j] = r.byRandom[j]
        /\ s.active[u] = r.active[u] + 1
        /\ \A w \in Users : w # u => s.active[w] = r.active[w]
    BY <1>1, <1>2, <1>3, Zenon DEF RegTypes
  <1>5. /\ KnownIn(s) = KnownIn(r) \cup {c} /\ c \notin KnownIn(r)
        /\ LiveIn(s) = LiveIn(r) \cup {c} /\ c \notin LiveIn(r)
    BY <1>2, <1>4 DEF KnownIn, LiveIn
  <1>6. RegTypes(s)
    BY <1>1, <1>2, <1>3 DEF RegTypes
  <1>7. KeysAgree(s)
    <2>1. ASSUME NEW d \in LiveIn(s)
          PROVE  s.byRandom[Key(s.byID[d])] = d
      <3>1. CASE d = c
        BY <1>2, <1>4, <3>1
      <3>2. CASE d # c
        <4>1. /\ d \in LiveIn(r) /\ d \in Calls /\ s.byID[d] = r.byID[d]
              /\ r.byID[d] # None /\ ~Terminal(r.byID[d])
          BY <1>4, <1>5, <3>2 DEF LiveIn
        <4>2. r.byRandom[Key(r.byID[d])] = d
          BY <4>1 DEF InOrder, KeysAgree
        <4>3. Key(r.byID[d]) \in Users \X Randoms
          BY <1>3, <4>1, CallFields DEF RegTypes
        <4>4. Key(r.byID[d]) # key
          BY <4>1, <4>2, NoneAssumption DEF Retried, key
        <4> QED BY <1>4, <4>1, <4>2, <4>3, <4>4
      <3> QED BY <3>1, <3>2
    <2>2. ASSUME NEW j \in Users \X Randoms, s.byRandom[j] # None
          PROVE  s.byRandom[j] \in KnownIn(s) /\ Key(s.byID[s.byRandom[j]]) = j
      <3>1. CASE j = key
        BY <1>2, <1>4, <1>5, <3>1
      <3>2. CASE j # key
        <4>1. s.byRandom[j] = r.byRandom[j]
          BY <1>4, <3>2
        <4>2. r.byRandom[j] \in KnownIn(r) /\ Key(r.byID[r.byRandom[j]]) = j
          BY <2>2, <4>1 DEF InOrder, KeysAgree
        <4>3. r.byRandom[j] # c /\ r.byRandom[j] \in Calls
          BY <1>5, <4>2 DEF KnownIn
        <4> QED BY <1>4, <1>5, <4>1, <4>2, <4>3
      <3> QED BY <3>1, <3>2
    <2> QED BY <2>1, <2>2 DEF KeysAgree
  <1>8. Counted(s)
    <2>1. Cardinality(KnownIn(s)) = Cardinality(KnownIn(r)) + 1
      BY <1>5, FiniteCalls, FS_AddElement, Zenon DEF KnownIn
    <2>2. LiveOf(s, u) = LiveOf(r, u) \cup {c} /\ c \notin LiveOf(r, u)
      BY <1>2, <1>4, <1>5 DEF LiveOf, LiveIn
    <2>3. Cardinality(LiveOf(s, u)) = Cardinality(LiveOf(r, u)) + 1
      BY <2>2, FiniteCalls, FS_AddElement, Zenon DEF LiveOf, LiveIn
    <2>4. \A w \in Users : w # u => LiveOf(s, w) = LiveOf(r, w)
      BY <1>2, <1>4, <1>5 DEF LiveOf, LiveIn
    <2>5. Cardinality(KnownIn(r)) \in Nat
      BY FiniteCalls DEF KnownIn
    <2>6. Cardinality(KnownIn(s)) <= MaxRegistryEntries
      BY <2>1, <2>5, PhoneAssumption
    <2>7. /\ s.active[u] = Cardinality(LiveOf(s, u))
          /\ s.active[u] <= MaxActivePerUser
      <3>1. r.active[u] \in Nat /\ r.active[u] = Cardinality(LiveOf(r, u))
        BY <1>3 DEF RegTypes, InOrder, Counted
      <3> QED BY <1>4, <2>3, <3>1, PhoneAssumption
    <2> QED BY <1>4, <2>4, <2>6, <2>7 DEF Counted, InOrder
  <1> QED BY <1>6, <1>7, <1>8 DEF InOrder

(* A call record with another state, mark or timer. *)
LEMMA CallUpdates ==
  ASSUME NEW x \in CallRecords
  PROVE  /\ \A z \in States : [x EXCEPT !.state = z] \in CallRecords
         /\ [x EXCEPT !.state = "confirmed", !.started = TRUE] \in CallRecords
         /\ [x EXCEPT !.due = TRUE] \in CallRecords
         /\ [x EXCEPT !.old = TRUE] \in CallRecords
  BY Zenon DEF CallRecords, States

(* RequestCall adds a live call of its caller, below both limits. *)
LEMMA RequestCallStep ==
  ASSUME PhoneInv, NEW u \in Callers, NEW v \in Users, NEW y \in Randoms,
         RequestCall(u, v, y)
  PROVE  PhoneInv'
  <1> DEFINE g == Registry
             r == SweepTombstones(Registry)
             c == CHOOSE d \in Calls : d \notin issued
             s == [byID     |-> [r.byID EXCEPT ![c] = NewCall(u, v, y)],
                   byRandom |-> [r.byRandom EXCEPT ![<<u, y>>] = c],
                   active   |-> [r.active EXCEPT ![u] = @ + 1]]
  <1>1. InOrder(r) /\ Fewer(Registry, r)
    BY SweepInOrder DEF PhoneInv
  <1>2. CASE Becomes(r) /\ UNCHANGED issued
    <2>1. work' = work \cup {} /\ Ends({}, r) /\ history' = history
      BY DEF Ends, RequestCall
    <2> QED BY <1>1, <1>2, <2>1, EndedCalls
  <1>3. CASE /\ ~Retried(r, u, y)
             /\ Cardinality({d \in Calls : r.byID[d] # None}) < MaxRegistryEntries
             /\ r.active[u] < MaxActivePerUser
             /\ issued # Calls
             /\ issued' = issued \cup {c}
             /\ Becomes(s)
    <2>1. c \in Calls /\ c \notin issued
      BY <1>3 DEF PhoneInv
    <2>2. \A d \in KnownIn(r) : d \in KnownIn(g)
      BY <1>1 DEF Fewer
    <2>3. c \notin KnownIn(r)
      BY <2>1, <2>2 DEF PhoneInv, KnownIn, Known, Registry
    <2>4. r.byID[c] = None
      BY <2>1, <2>3 DEF KnownIn
    <2>5. u \in Users
      BY PhoneAssumption
    <2>6. s.byID = [r.byID EXCEPT ![c] = NewCall(u, v, y)]
      OBVIOUS
    <2>7. r.byID \in [Calls -> CallRecords \cup {None}]
      BY <1>1 DEF InOrder, RegTypes
    <2> HIDE DEF r, c
    <2>8. InOrder(s)
      BY <1>1, <1>3, <2>1, <2>4, <2>5, NewCallInOrder DEF KnownIn
    <2>9. \A d \in Calls : d # c => s.byID[d] = r.byID[d]
      BY <2>6, <2>7
    <2> HIDE DEF s
    <2>10. /\ InOrder(Registry)'
           /\ \A d \in Calls : byID'[d] = s.byID[d]
      BY <1>3, <2>8, RegistryNext
    <2>11. ASSUME NEW d \in Calls, d # c, Known(d)'
           PROVE  /\ Known(d)
                  /\ Terminal(byID[d]) => /\ Terminal(byID[d])'
                                          /\ byID'[d].reason = byID[d].reason
                                          /\ byID'[d].duration = byID[d].duration
      BY <1>1, <2>9, <2>10, <2>11 DEF Fewer, KnownIn, Registry, Known, Terminal
    <2>12. work' = work /\ history' = history /\ c \in issued'
      BY <1>3 DEF RequestCall
    <2>13. \A w \in work : w.call \in Calls /\ w.call # c
      BY <2>1 DEF PhoneInv, WorkOnce, WorkItems
    <2>14. WorkOnce'
      BY <1>3, <2>11, <2>12, <2>13 DEF PhoneInv, WorkOnce
    <2>15. \A d \in Calls : history[d] # <<>> => d # c
      BY <2>1 DEF PhoneInv, HistoryOnce
    <2>16. HistoryOnce'
      BY <1>3, <2>11, <2>12, <2>15 DEF PhoneInv, HistoryOnce
    <2>17. issued' \subseteq Calls /\ \A d \in Calls : Known(d)' => d \in issued'
      BY <1>3, <2>1, <2>11 DEF PhoneInv
    <2> QED BY <2>10, <2>14, <2>16, <2>17 DEF PhoneInv
  <1> QED BY <1>2, <1>3, Zenon DEF RequestCall

(* The steps that change the state, a mark or a timer of one call. *)
LEMMA ChangeSteps ==
  ASSUME PhoneInv, NEW c \in Calls,
         \/ ReceivedCall(c) \/ AcceptCall(c) \/ ConfirmCall(c, TRUE)
         \/ RingTimeout(c) \/ TombstoneTTL(c)
  PROVE  PhoneInv'
  <1>1. byID \in [Calls -> CallRecords \cup {None}]
    BY DEF PhoneInv, InOrder, RegTypes, Registry
  <1>2. Known(c) /\ byID[c] \in CallRecords /\ byID[c] # None
    BY <1>1 DEF ReceivedCall, AcceptCall, ConfirmCall, RingTimeout, TombstoneTTL, Live, Known
  <1>3. PICK x : x = byID'[c]
    OBVIOUS
  <1>4. /\ issued' = issued /\ byRandom' = byRandom /\ active' = active
        /\ work' = work /\ history' = history
    BY DEF ReceivedCall, AcceptCall, ConfirmCall, RingTimeout, TombstoneTTL
  <1>5. \/ /\ byID[c].state \in {"requested", "ringing"}
           /\ \E z \in {"ringing", "accepted"} :
                byID' = [byID EXCEPT ![c] = [byID[c] EXCEPT !.state = z]]
        \/ /\ byID[c].state = "accepted"
           /\ byID' = [byID EXCEPT ![c] =
                [byID[c] EXCEPT !.state = "confirmed", !.started = TRUE]]
        \/ byID' = [byID EXCEPT ![c] = [byID[c] EXCEPT !.due = TRUE]]
        \/ byID' = [byID EXCEPT ![c] = [byID[c] EXCEPT !.old = TRUE]]
    BY <1>1, <1>2, Zenon DEF ReceivedCall, AcceptCall, ConfirmCall, RingTimeout, TombstoneTTL
  <1>6. /\ byID' = [byID EXCEPT ![c] = x]
        /\ \/ /\ byID[c].state \in {"requested", "ringing"}
              /\ \E z \in {"ringing", "accepted"} : x = [byID[c] EXCEPT !.state = z]
           \/ /\ byID[c].state = "accepted"
              /\ x = [byID[c] EXCEPT !.state = "confirmed", !.started = TRUE]
           \/ x = [byID[c] EXCEPT !.due = TRUE]
           \/ x = [byID[c] EXCEPT !.old = TRUE]
    BY <1>1, <1>3, <1>5, Zenon
  <1>7. x \in CallRecords
    BY <1>2, <1>6, CallUpdates, Zenon DEF States
  <1>8. /\ x.admin = byID[c].admin /\ x.random = byID[c].random
        /\ x.reason = byID[c].reason /\ x.duration = byID[c].duration
        /\ (x.state = "discarded") = (byID[c].state = "discarded")
    BY <1>2, <1>6, ZenonT(30) DEF CallRecords
  <1> QED BY <1>2, <1>4, <1>6, <1>7, <1>8, ChangedCall, ZenonT(30) DEF Terminal

(* What is left to do for the calls D, which the registry r has discarded. *)
EndsOf(D, r, record) == {Work(c, r, record[c]) : c \in D}

(* The ends of live calls, as the registry that discarded them has them. *)
LEMMA EndOfCall ==
  ASSUME PhoneInv, NEW D, D \subseteq Live, NEW reason \in [D -> Reasons],
         NEW duration \in Nat, NEW record \in [D -> BOOLEAN],
         NEW r, r = MarkDiscarded(Registry, reason, duration)
  PROVE  /\ InOrder(r) /\ Fewer(Registry, r)
         /\ \A c \in D : Terminal(r.byID[c])
         /\ Ends(EndsOf(D, r, record), r)
         /\ \A w \in EndsOf(D, r, record) : w.call \in D
  <1>1. D \subseteq LiveIn(Registry)
    BY DEF Live, LiveIn, Known, Registry
  <1>2. /\ InOrder(r) /\ Fewer(Registry, r)
        /\ \A c \in D : r.byID[c] \in CallRecords /\ Terminal(r.byID[c])
    BY <1>1, MarkInOrder, Zenon DEF PhoneInv
  <1>3. ASSUME NEW c \in D
        PROVE  /\ Work(c, r, record[c]) \in WorkItems
               /\ Work(c, r, record[c]).call = c
               /\ Work(c, r, record[c]).snap = r.byID[c]
    BY <1>2 DEF Work, WorkItems, Live
  <1> QED BY <1>2, <1>3 DEF Ends, EndsOf

(* A confirmation that fails ends the call it found. *)
LEMMA ConfirmCallFails ==
  ASSUME PhoneInv, NEW c \in Calls, ConfirmCall(c, FALSE)
  PROVE  PhoneInv'
  <1> DEFINE D == {c}
             reason == [d \in D |-> "disconnect"]
             record == [d \in D |-> FALSE]
             r == MarkDiscarded(Registry, reason, 0)
  <1>1. D \subseteq Live /\ reason \in [D -> Reasons] /\ record \in [D -> BOOLEAN]
    BY DEF ConfirmCall, Live, Terminal, Reasons
  <1>2. /\ InOrder(r) /\ Fewer(Registry, r)
        /\ Ends(EndsOf(D, r, record), r)
    BY <1>1, EndOfCall, Zenon
  <1>3. EndsOf(D, r, record) = {Work(c, r, FALSE)}
    BY DEF EndsOf
  <1>4. /\ Becomes(r) /\ work' = work \cup {Work(c, r, FALSE)}
        /\ issued' = issued /\ history' = history
    BY Zenon DEF ConfirmCall
  <1> HIDE DEF r
  <1> QED BY <1>2, <1>3, <1>4, EndedCalls, Zenon

(* DiscardCall ends a call, or finds it ended. *)
LEMMA DiscardCallStep ==
  ASSUME PhoneInv, NEW c \in Calls, NEW why \in {"hangup", "migrate"},
         NEW n \in Nat, DiscardCall(c, why, n)
  PROVE  PhoneInv'
  <1> DEFINE D == {c}
             reason == [d \in D |-> why]
             record == [d \in D |-> why # "migrate"]
             m == IF Known(c) /\ byID[c].started THEN n ELSE 0
             r == MarkDiscarded(Registry, reason, m)
  <1>1. /\ D \subseteq Live /\ reason \in [D -> Reasons] /\ record \in [D -> BOOLEAN]
        /\ m \in Nat
    BY DEF DiscardCall, Reasons
  <1>2. Becomes(r) /\ work' = work \cup {Work(c, r, why # "migrate")}
    BY Zenon DEF DiscardCall
  <1>3. issued' = issued /\ history' = history
    BY DEF DiscardCall
  <1> HIDE DEF m
  <1>4. /\ InOrder(r) /\ Fewer(Registry, r)
        /\ Ends(EndsOf(D, r, record), r)
    BY <1>1, EndOfCall, Zenon
  <1>5. EndsOf(D, r, record) = {Work(c, r, why # "migrate")}
    BY DEF EndsOf
  <1> HIDE DEF r
  <1> QED BY <1>2, <1>3, <1>4, <1>5, EndedCalls

(* The expiry worker ends every overdue call in one critical section, and then
   sweeps. *)
LEMMA ExpireDueStep ==
  ASSUME PhoneInv, ExpireDue
  PROVE  PhoneInv'
  <1> DEFINE D == Overdue
             reason == [c \in D |->
                          IF byID[c].state = "accepted" THEN "disconnect" ELSE "missed"]
             record == [c \in D |-> TRUE]
             r == MarkDiscarded(Registry, reason, 0)
             s == SweepTombstones(r)
             W == EndsOf(D, r, record)
  <1>1. D \subseteq Live /\ reason \in [D -> Reasons] /\ record \in [D -> BOOLEAN]
    BY DEF Overdue, Reasons
  <1>2. Becomes(s) /\ work' = work \cup {Work(c, r, TRUE) : c \in D}
    BY Zenon DEF ExpireDue
  <1>3. issued' = issued /\ history' = history
    BY DEF ExpireDue
  <1>4. /\ InOrder(r) /\ Fewer(Registry, r) /\ Ends(W, r)
        /\ \A c \in D : Terminal(r.byID[c])
        /\ \A w \in W : w.call \in D
    BY <1>1, EndOfCall, Zenon
  <1>5. {Work(c, r, TRUE) : c \in D} = W
    BY DEF EndsOf
  <1>6. InOrder(s) /\ Fewer(r, s)
    BY <1>4, SweepInOrder
  <1> HIDE DEF D, r, s, W
  <1>7. Fewer(Registry, s)
    BY <1>4, <1>6 DEF Fewer
  <1>8. Ends(W, s)
    BY <1>4, <1>6 DEF Ends, Fewer
  <1> QED BY <1>2, <1>3, <1>5, <1>6, <1>7, <1>8, EndedCalls, Zenon

(* The rest of a handler. *)
LEMMA PushStep ==
  ASSUME PhoneInv, NEW w \in work, Push(w)
  PROVE  PhoneInv'
  <1> DEFINE x == [w EXCEPT !.push = Tail(@)]
  <1>1. /\ work' = (work \ {w}) \cup {x} /\ history' = history
        /\ issued' = issued /\ byID' = byID /\ byRandom' = byRandom /\ active' = active
    BY DEF Push, registry
  <1>2. w \in WorkItems /\ w.push # <<>>
    BY DEF PhoneInv, WorkOnce, Push
  <1>3. x \in WorkItems /\ x.call = w.call /\ x.snap = w.snap /\ x.record = w.record
    <2>1. Tail(w.push) \in Seq({"admin", "participant"})
      BY <1>2 DEF WorkItems
    <2> QED BY <1>2, <2>1, Zenon DEF WorkItems
  <1> HIDE DEF x
  <1>4. InOrder(Registry)'
    BY <1>1 DEF PhoneInv, Registry
  <1>5. \A v \in work' : v \in WorkItems /\ \E z \in work : v.call = z.call /\ v.snap = z.snap
    BY <1>1, <1>3 DEF PhoneInv, WorkOnce
  <1>6. WorkOnce'
    BY <1>1, <1>3, <1>5 DEF PhoneInv, WorkOnce, Known
  <1>7. HistoryOnce'
    BY <1>1, <1>3 DEF PhoneInv, HistoryOnce, Known
  <1> QED BY <1>1, <1>4, <1>6, <1>7 DEF PhoneInv, Known

(* Recording the end of a call is the only step that adds to the history. *)
LEMMA RecordStep ==
  ASSUME PhoneInv, NEW w \in work, NEW fails \in BOOLEAN, Record(w, fails)
  PROVE  PhoneInv'
  <1> DEFINE c == w.call
             e == [reason |-> w.snap.reason, duration |-> w.snap.duration]
  <1>1. /\ work' = work \ {w}
        /\ issued' = issued /\ byID' = byID /\ byRandom' = byRandom /\ active' = active
        /\ history' = history \/ history' = [history EXCEPT ![c] = Append(@, e)]
    BY DEF Record, registry
  <1>2. /\ c \in Calls /\ c \in issued /\ DOMAIN history = Calls
        /\ Known(c) => /\ Terminal(byID[c])
                       /\ byID[c].reason = w.snap.reason
                       /\ byID[c].duration = w.snap.duration
        /\ \A v \in work' : v.call # c
    BY <1>1 DEF PhoneInv, WorkOnce, WorkItems, HistoryOnce
  <1>3. history[c] = <<>>
    BY <1>2 DEF PhoneInv, HistoryOnce
  <1>4. InOrder(Registry)'
    BY <1>1 DEF PhoneInv, Registry
  <1>5. WorkOnce'
    BY <1>1 DEF PhoneInv, WorkOnce, Known
  <1>6. \A d \in Calls : \/ history'[d] = history[d]
                         \/ d = c /\ history'[d] = <<e>>
    BY <1>1, <1>2, <1>3
  <1>7. DOMAIN history' = Calls /\ Len(<<e>>) = 1
    BY <1>1, <1>2
  <1> HIDE DEF c
  <1>8. HistoryOnce'
    BY <1>1, <1>2, <1>6, <1>7, ZenonT(30) DEF PhoneInv, HistoryOnce, Known
  <1> QED BY <1>1, <1>4, <1>5, <1>8 DEF PhoneInv, Known

-----------------------------------------------------------------------------
(* Every step preserves the invariant. *)
LEMMA NextPhone ==
  ASSUME PhoneInv, [Next]_vars
  PROVE  PhoneInv'
  <1>1. CASE UNCHANGED vars
    BY <1>1 DEF vars, registry, PhoneInv, InOrder, RegTypes, KeysAgree, Counted, LiveOf,
                LiveIn, KnownIn, Registry, WorkOnce, HistoryOnce, Known
  <1>2. ASSUME NEW u \in Callers, NEW v \in Users, NEW y \in Randoms, RequestCall(u, v, y)
        PROVE  PhoneInv'
    BY <1>2, RequestCallStep
  <1>3. ASSUME NEW c \in Calls, \/ ReceivedCall(c) \/ AcceptCall(c)
                                \/ RingTimeout(c) \/ TombstoneTTL(c)
        PROVE  PhoneInv'
    BY <1>3, ChangeSteps, Zenon
  <1>4. ASSUME NEW c \in Calls, NEW matches \in BOOLEAN, ConfirmCall(c, matches)
        PROVE  PhoneInv'
    <2>1. CASE matches = TRUE
      BY <1>4, <2>1, ChangeSteps, Zenon
    <2>2. CASE matches = FALSE
      BY <1>4, <2>2, ConfirmCallFails, Zenon
    <2> QED BY <2>1, <2>2, Zenon
  <1>5. ASSUME NEW c \in Calls, NEW why \in {"hangup", "migrate"}, DiscardCall(c, why, 1)
        PROVE  PhoneInv'
    BY <1>5, DiscardCallStep
  <1>6. CASE ExpireDue
    BY <1>6, ExpireDueStep
  <1>7. CASE Output
    BY <1>7, PushStep, RecordStep DEF Output
  <1> QED BY <1>1, <1>2, <1>3, <1>4, <1>5, <1>6, <1>7, Zenon DEF Next

(* The invariant holds, and gives both properties. *)
THEOREM PhoneInvariance == Spec => []PhoneInv
  <1>1. Init => PhoneInv
    BY InitPhone
  <1>2. PhoneInv /\ [Next]_vars => PhoneInv'
    BY NextPhone
  <1> QED BY <1>1, <1>2, PTL DEF Spec

(* The count of live calls that bounds what a user may place is exact, the
   registry is within its limit, and calls and keys find each other, whichever
   of hangup, forced end, timeout and sweep comes first. *)
THEOREM RegistryExactHolds == Spec => []RegistryExact
  <1>1. ASSUME PhoneInv
        PROVE  RegistryExact
    <2>1. /\ Registry.byID = byID /\ Registry.byRandom = byRandom
          /\ Registry.active = active /\ InOrder(Registry)
      BY <1>1 DEF Registry, PhoneInv
    <2>2. /\ KnownIn(Registry) = {c \in Calls : Known(c)} /\ LiveIn(Registry) = Live
          /\ \A u : LiveOf(Registry, u) = {c \in Live : byID[c].admin = u}
      BY <2>1 DEF KnownIn, LiveIn, LiveOf, Live, Known
    <2>3. \A c \in Calls : Known(c) => byID[c] \in CallRecords
      BY <2>1 DEF InOrder, RegTypes, Known
    <2>4. \A c \in Calls : Known(c) => byID[c].state \in States
      BY <2>3, CallFields
    <2>5. \A u \in Users : /\ active[u] = Cardinality({c \in Live : byID[c].admin = u})
                           /\ active[u] <= MaxActivePerUser
      BY <2>1, <2>2, Zenon DEF InOrder, Counted
    <2>6. Cardinality({c \in Calls : Known(c)}) <= MaxRegistryEntries
      BY <2>1, <2>2 DEF InOrder, Counted
    <2>7. /\ \A c \in Live : byRandom[Key(byID[c])] = c
          /\ \A key \in Users \X Randoms : byRandom[key] # None =>
               Known(byRandom[key]) /\ Key(byID[byRandom[key]]) = key
      BY <2>1, <2>2 DEF InOrder, KeysAgree
    <2> QED BY <1>1, <2>4, <2>5, <2>6, <2>7 DEF RegistryExact, PhoneInv
  <1> QED BY <1>1, PhoneInvariance, PTL

(* A call enters the history of its users at most once, with the reason and
   the duration that ended it, however hangups, its timeout and late answers
   interleave. *)
THEOREM EndsOnceHolds == Spec => []EndsOnce
  <1>1. ASSUME PhoneInv
        PROVE  EndsOnce
    <2> SUFFICES ASSUME NEW c \in Calls
                 PROVE  /\ Len(history[c]) + Cardinality({w \in work : w.call = c /\ w.record}) <= 1
                        /\ \A w \in work : w.call = c /\ Known(c) =>
                             /\ byID[c].reason = w.snap.reason
                             /\ byID[c].duration = w.snap.duration
                        /\ Known(c) /\ history[c] # <<>> =>
                             history[c] = <<[reason |-> byID[c].reason,
                                             duration |-> byID[c].duration]>>
      BY Zenon DEF EndsOnce
    <2> DEFINE W == {w \in work : w.call = c /\ w.record}
    <2>1. Cardinality(W) = 0 \/ Cardinality(W) = 1
      <3>1. CASE W = {}
        BY <3>1, FS_EmptySet
      <3>2. CASE W # {}
        <4>1. PICK w \in W : TRUE
          BY <3>2
        <4>2. W = {w}
          BY <1>1, <4>1 DEF PhoneInv, WorkOnce
        <4> QED BY <4>2, FS_Singleton
      <3> QED BY <3>1, <3>2
    <2>2. CASE history[c] = <<>>
      <3>1. Len(history[c]) = 0
        BY <2>2
      <3> HIDE DEF W
      <3>2. Len(history[c]) + Cardinality(W) <= 1
        BY <2>1, <3>1
      <3> QED BY <1>1, <2>2, <3>2 DEF PhoneInv, WorkOnce, W
    <2>3. CASE history[c] # <<>>
      <3>1. Len(history[c]) = 1 /\ W = {}
        BY <1>1, <2>3 DEF PhoneInv, HistoryOnce
      <3>2. Cardinality({}) = 0
        BY FS_EmptySet
      <3>3. Len(history[c]) + Cardinality(W) <= 1
        BY <3>1, <3>2
      <3> QED BY <1>1, <2>3, <3>3 DEF PhoneInv, HistoryOnce, WorkOnce
    <2> QED BY <2>2, <2>3
  <1> QED BY <1>1, PhoneInvariance, PTL

-----------------------------------------------------------------------------
(* The life of a call *)

(* What is kept of a call says whether there was a conversation, and the
   handler that ended it agrees with the registry. *)
CallSound(c) ==
  /\ c \in Live => (byID[c].started <=> byID[c].state = "confirmed")
  /\ \A x \in Kept(c) : ~x.started => x.duration = 0
  /\ \A x, y \in Kept(c) : x.started = y.started
  /\ c \notin Live => \A x \in Kept(c) : x.reason \in Reasons

LifeInv == \A c \in Calls : CallSound(c)

(* A live call is in no handler's hands. *)
LEMMA KeptFacts ==
  ASSUME PhoneInv, NEW c \in Calls
  PROVE  /\ Kept(c) \subseteq CallRecords
         /\ c \in Live => Kept(c) = {byID[c]} /\ byID[c] \in CallRecords /\ c \in issued
         /\ Known(c) => byID[c] \in Kept(c)
         /\ c \notin issued => Kept(c) = {} /\ c \notin Live
  <1>1. byID \in [Calls -> CallRecords \cup {None}]
    BY DEF PhoneInv, InOrder, RegTypes, Registry
  <1>2. Known(c) => byID[c] \in CallRecords /\ c \in issued
    BY <1>1 DEF Known, PhoneInv
  <1>3. \A w \in work : w.snap \in CallRecords /\ w.call \in issued
    BY DEF PhoneInv, WorkOnce, WorkItems
  <1>4. c \in Live => Known(c) /\ \A w \in work : w.call # c
    BY DEF PhoneInv, WorkOnce, Live
  <1> QED BY <1>2, <1>3, <1>4 DEF Kept

(* The stage of a call, by cases. *)
LEMMA StageCases ==
  ASSUME NEW c \in Calls
  PROVE  /\ StageOf[c] = Stage(c)
         /\ c \notin issued => Stage(c) = "unused"
         /\ c \in issued /\ c \in Live => Stage(c) = LiveStage[byID[c].state]
         /\ c \in issued /\ c \notin Live =>
              Stage(c) = IF Kept(c) = {} THEN "gone"
                         ELSE IF \E x \in Kept(c) : x.started THEN "finished"
                         ELSE "dropped"
  BY DEF StageOf, Stage

(* And in the next state. *)
LEMMA NextStageCases ==
  ASSUME NEW c \in Calls
  PROVE  /\ StageOf'[c] = Stage(c)'
         /\ c \notin issued' => Stage(c)' = "unused"
         /\ c \in issued' /\ c \in Live' => Stage(c)' = LiveStage[byID'[c].state]
         /\ c \in issued' /\ c \notin Live' =>
              Stage(c)' = IF Kept(c)' = {} THEN "gone"
                          ELSE IF \E x \in Kept(c)' : x.started THEN "finished"
                          ELSE "dropped"
  BY DEF StageOf, Stage

(* What is kept of a call in the next state was kept before, but for a timer. *)
Echoes(c) ==
  \A x \in Kept(c)' : \E y \in Kept(c) :
    x.started = y.started /\ x.duration = y.duration /\ x.reason = y.reason

(* An ended call stays as it is, or is forgotten. *)
LEMMA EndedStays ==
  ASSUME NEW c \in Calls, CallSound(c), c \in issued, c \in issued',
         c \notin Live, c \notin Live', Echoes(c)
  PROVE  /\ CallSound(c)'
         /\ Stage(c) \in {"gone", "finished", "dropped"}
         /\ Stage(c)' = Stage(c) \/ Stage(c)' = "gone"
  <1>1. CallSound(c)'
    BY DEF CallSound, Echoes
  <1>2. CASE Kept(c)' = {}
    BY <1>1, <1>2, StageCases, NextStageCases
  <1>3. CASE Kept(c)' # {}
    <2>1. PICK x \in Kept(c)' : TRUE
      BY <1>3
    <2>2. PICK y \in Kept(c) : x.started = y.started
      BY <2>1 DEF Echoes
    <2>3. (\E z \in Kept(c) : z.started) <=> y.started
      BY <2>2 DEF CallSound
    <2>4. (\E z \in Kept(c)' : z.started) <=> x.started
      BY <1>1, <2>1 DEF CallSound
    <2>5. Kept(c) # {} /\ Kept(c)' # {}
      BY <2>1, <2>2
    <2> QED BY <1>1, <2>2, <2>3, <2>4, <2>5, StageCases, NextStageCases
  <1> QED BY <1>2, <1>3

(* If nothing is written, that is a step of its life. *)
LEMMA EndedStep ==
  ASSUME NEW c \in Calls, CallSound(c), c \in issued, c \in issued',
         c \notin Live, c \notin Live', Echoes(c), history'[c] = history[c]
  PROVE  CallSound(c)' /\ Life!Step(c)
  <1>1. /\ CallSound(c)'
        /\ Stage(c) \in {"gone", "finished", "dropped"}
        /\ Stage(c)' = Stage(c) \/ Stage(c)' = "gone"
    BY EndedStays
  <1>2. StageOf[c] = Stage(c) /\ StageOf'[c] = Stage(c)'
    BY StageCases, NextStageCases
  <1>3. Life!Forget(c) \/ Life!Stays(c)
    BY <1>1, <1>2 DEF Life!Forget, Life!Stays, Life!Moves
  <1> QED BY <1>1, <1>3 DEF Life!Step

(* A call whose end is kept as it was before. *)
LEMMA LiveEnds ==
  ASSUME NEW c \in Calls, PhoneInv, CallSound(c), c \in Live, c \notin Live', c \in issued',
         Kept(c)' # {},
         \A x \in Kept(c)' : /\ x.started = byID[c].started
                             /\ ~x.started => x.duration = 0
                             /\ x.reason \in Reasons,
         history'[c] = history[c]
  PROVE  CallSound(c)' /\ Life!Step(c)
  <1>1. CallSound(c)'
    BY DEF CallSound
  <1>2. byID[c].state \in {"requested", "ringing", "accepted", "confirmed"} /\ c \in issued
    <2>1. byID[c] \in CallRecords /\ ~Terminal(byID[c]) /\ c \in issued
      BY KeptFacts DEF Live
    <2> QED BY <2>1 DEF CallRecords, States, Terminal
  <1>3. Stage(c)' = IF byID[c].started THEN "finished" ELSE "dropped"
    BY NextStageCases
  <1>4. CASE byID[c].state = "confirmed"
    <2>1. Stage(c) = "talking" /\ Stage(c)' = "finished"
      <3>1. Stage(c) = LiveStage["confirmed"] /\ byID[c].started
        BY <1>2, <1>4, StageCases DEF CallSound
      <3> QED BY <1>3, <3>1 DEF LiveStage
    <2>2. Life!HangUp(c)
      BY <2>1, StageCases, NextStageCases DEF Life!HangUp, Life!Moves
    <2> QED BY <1>1, <2>2 DEF Life!Step
  <1>5. CASE byID[c].state # "confirmed"
    <2>1. Stage(c) \in {"offered", "answered"} /\ Stage(c)' = "dropped"
      <3>1. Stage(c) = LiveStage[byID[c].state] /\ ~byID[c].started
        BY <1>2, <1>5, StageCases DEF CallSound
      <3> QED BY <1>2, <1>3, <1>5, <3>1 DEF LiveStage
    <2>2. Life!Drop(c)
      BY <2>1, StageCases, NextStageCases DEF Life!Drop, Life!Moves
    <2> QED BY <1>1, <2>2 DEF Life!Step
  <1> QED BY <1>4, <1>5

(* A call that is alive before and after. *)
LEMMA LiveMoves ==
  ASSUME NEW c \in Calls, PhoneInv, PhoneInv', CallSound(c), c \in Live, c \in Live',
         byID'[c].duration = byID[c].duration,
         \/ byID'[c].state = byID[c].state /\ byID'[c].started = byID[c].started
         \/ /\ byID[c].state \in {"requested", "ringing"}
            /\ byID'[c].state \in {"ringing", "accepted"}
            /\ byID'[c].started = byID[c].started
         \/ /\ byID[c].state = "accepted"
            /\ byID'[c].state = "confirmed" /\ byID'[c].started = TRUE,
         history'[c] = history[c]
  PROVE  CallSound(c)' /\ Life!Step(c)
  <1>1. Kept(c) = {byID[c]} /\ byID[c] \in CallRecords /\ c \in issued
    BY KeptFacts
  <1>2. c \in issued' /\ Kept(c)' = {byID'[c]}
    <2>1. Known(c)' /\ ~Terminal(byID[c])'
      BY DEF Live
    <2>2. \A w \in work' : w.call # c
      BY <2>1 DEF PhoneInv, WorkOnce
    <2> QED BY <2>1, <2>2 DEF Kept, PhoneInv
  <1>3. byID[c].state \in {"requested", "ringing", "accepted", "confirmed"}
    BY <1>1 DEF CallRecords, States, Terminal, Live
  <1>4. CallSound(c)'
    BY <1>1, <1>2, <1>3 DEF CallSound
  <1>5. /\ Stage(c) = LiveStage[byID[c].state] /\ Stage(c)' = LiveStage[byID'[c].state]
        /\ StageOf[c] = Stage(c) /\ StageOf'[c] = Stage(c)'
    BY <1>1, <1>2, StageCases, NextStageCases
  <1>6. Life!Stays(c) \/ Life!Answer(c) \/ Life!Connect(c)
    BY <1>3, <1>5 DEF LiveStage, Life!Stays, Life!Answer, Life!Connect, Life!Moves
  <1> QED BY <1>4, <1>6 DEF Life!Step

(* A call that a step does not touch. *)
LEMMA Untouched ==
  ASSUME NEW c \in Calls, PhoneInv, CallSound(c), byID'[c] = byID[c], Kept(c)' = Kept(c),
         (c \in issued') = (c \in issued), history'[c] = history[c]
  PROVE  CallSound(c)' /\ Life!Step(c)
  <1>1. (c \in Live') = (c \in Live)
    BY DEF Live, Known
  <1>2. CallSound(c)'
    BY <1>1 DEF CallSound
  <1>3. Stage(c)' = Stage(c)
    BY <1>1 DEF Stage
  <1>4. Life!Stays(c)
    BY <1>3, StageCases, NextStageCases DEF Life!Stays
  <1> QED BY <1>2, <1>4 DEF Life!Step

(* The handlers have of a call what they had. *)
SameWork(c) == \A w : w.call = c => (w \in work' <=> w \in work)

(* A call that the step leaves alone or sweeps. *)
LEMMA SweptCall ==
  ASSUME NEW c \in Calls, PhoneInv, CallSound(c), SameWork(c),
         byID'[c] = byID[c] \/ (Known(c) /\ Terminal(byID[c]) /\ byID'[c] = None),
         (c \in issued') = (c \in issued), history'[c] = history[c]
  PROVE  CallSound(c)' /\ Life!Step(c)
  <1>1. CASE byID'[c] = byID[c]
    <2>1. Kept(c)' = Kept(c)
      BY <1>1 DEF Kept, SameWork, Known
    <2> QED BY <1>1, <2>1, Untouched
  <1>2. CASE Known(c) /\ Terminal(byID[c]) /\ byID'[c] = None
    <2>1. c \notin Live /\ c \notin Live' /\ c \in issued
      BY <1>2 DEF Live, Known, PhoneInv
    <2>2. Kept(c)' \subseteq Kept(c)
      BY <1>2 DEF Kept, SameWork, Known
    <2>3. Echoes(c)
      BY <2>2 DEF Echoes
    <2> QED BY <2>1, <2>3, EndedStep
  <1> QED BY <1>1, <1>2

(* The sweep of a registry r takes its tombstones and nothing else. *)
LEMMA SweepTakes ==
  ASSUME NEW r, InOrder(r), NEW c \in Calls
  PROVE  SweepTombstones(r).byID[c] = IF c \in Tombstones(r) THEN None ELSE r.byID[c]
  <1>1. SweepTombstones(r).byID
          = [d \in Calls |-> IF d \in Tombstones(r) THEN None ELSE r.byID[d]]
    BY DEF SweepTombstones, InOrder, RegTypes
  <1> QED BY <1>1

(* The calls D ended in the registry r, and no other changed. *)
Marked(r, D, duration) ==
  /\ InOrder(r)
  /\ \A c \in Calls \ D : r.byID[c] = byID[c]
  /\ \A c \in D : /\ r.byID[c] \in CallRecords /\ Terminal(r.byID[c])
                  /\ r.byID[c].started = byID[c].started
                  /\ r.byID[c].duration = duration
                  /\ r.byID[c].reason \in Reasons

(* The calls that are ended keep whether there was a conversation. *)
LEMMA MarkTakes ==
  ASSUME PhoneInv, NEW D, D \subseteq Live, NEW reason \in [D -> Reasons],
         NEW duration \in Nat, NEW r, r = MarkDiscarded(Registry, reason, duration)
  PROVE  Marked(r, D, duration)
  <1>1. D \subseteq LiveIn(Registry) /\ InOrder(Registry)
    BY DEF Live, LiveIn, Known, Registry, PhoneInv
  <1>2. /\ InOrder(r)
        /\ \A c \in D : /\ r.byID[c] \in CallRecords /\ Terminal(r.byID[c])
                        /\ r.byID[c].reason = reason[c]
                        /\ r.byID[c].duration = duration
    BY <1>1, MarkInOrder
  <1> DEFINE ended == {c \in DOMAIN reason : ~Terminal(byID[c])}
             end(c) == [byID[c] EXCEPT !.state = "discarded", !.reason = reason[c],
                                       !.duration = duration]
  <1>3. Registry.byID = byID /\ DOMAIN Registry = {"byID", "byRandom", "active"}
    BY DEF Registry
  <1>4. ended = D /\ D \subseteq Calls
    BY DEF Live
  <1>5. r.byID = [c \in Calls |-> IF c \in ended THEN end(c) ELSE byID[c]]
    BY <1>3 DEF MarkDiscarded
  <1>6. \A c \in Calls : r.byID[c] = IF c \in D THEN end(c) ELSE byID[c]
    BY <1>4, <1>5, Zenon
  <1>7. \A c \in D : end(c).started = byID[c].started
    <2>1. \A c \in D : byID[c] \in CallRecords
      BY KeptFacts DEF Live
    <2> QED BY <2>1, Zenon DEF CallRecords
  <1> HIDE DEF end
  <1>8. \A c \in D : reason[c] \in Reasons
    OBVIOUS
  <1> QED BY <1>2, <1>4, <1>6, <1>7, <1>8 DEF Marked

(* RequestCall sweeps, and may offer a new call. *)
LEMMA RequestLife ==
  ASSUME PhoneInv, LifeInv, PhoneInv', NEW u \in Callers, NEW v \in Users, NEW y \in Randoms,
         RequestCall(u, v, y), NEW d \in Calls
  PROVE  CallSound(d)' /\ Life!Step(d)
  <1> DEFINE r == SweepTombstones(Registry)
             c == CHOOSE e \in Calls : e \notin issued
             s == [byID     |-> [r.byID EXCEPT ![c] = NewCall(u, v, y)],
                   byRandom |-> [r.byRandom EXCEPT ![<<u, y>>] = c],
                   active   |-> [r.active EXCEPT ![u] = @ + 1]]
  <1>1. work' = work /\ history' = history /\ SameWork(d) /\ CallSound(d)
    BY DEF RequestCall, SameWork, LifeInv
  <1>2. r.byID \in [Calls -> CallRecords \cup {None}]
    BY SweepInOrder, Zenon DEF PhoneInv, InOrder, RegTypes
  <1>3. r.byID[d] = byID[d] \/ (Known(d) /\ Terminal(byID[d]) /\ r.byID[d] = None)
    <2>1. r.byID[d] = IF d \in Tombstones(Registry) THEN None ELSE Registry.byID[d]
      BY SweepTakes DEF PhoneInv
    <2>2. Registry.byID = byID
      BY DEF Registry
    <2> QED BY <2>1, <2>2 DEF Tombstones, Known
  <1>4. CASE Becomes(r) /\ UNCHANGED issued
    <2>1. byID' = r.byID
      BY <1>4 DEF Becomes
    <2> HIDE DEF r
    <2> QED BY <1>1, <1>3, <1>4, <2>1, SweptCall
  <1>5. CASE issued # Calls /\ issued' = issued \cup {c} /\ Becomes(s)
    <2>1. c \in Calls /\ c \notin issued
      BY <1>5 DEF PhoneInv
    <2>2. byID' = [r.byID EXCEPT ![c] = NewCall(u, v, y)]
      BY <1>5 DEF Becomes
    <2> HIDE DEF r, c, s
    <2>3. CASE d # c
      <3>1. byID'[d] = r.byID[d]
        BY <1>2, <2>2, <2>3
      <3>2. (d \in issued') = (d \in issued)
        BY <1>5, <2>3
      <3> QED BY <1>1, <1>3, <3>1, <3>2, SweptCall
    <2>4. CASE d = c
      <3>1. byID'[d] = NewCall(u, v, y) /\ d \in issued' /\ d \notin issued
        BY <1>2, <1>5, <2>1, <2>2, <2>4
      <3>2. NewCall(u, v, y) # None
        <4>1. NewCall(u, v, y) \in CallRecords
          BY PhoneAssumption DEF NewCall, CallRecords, States
        <4> QED BY <4>1, NoneAssumption
      <3>3. /\ byID'[d].state = "requested" /\ byID'[d].started = FALSE
            /\ byID'[d].duration = 0
        BY <3>1 DEF NewCall
      <3>4. d \in Live' /\ Known(d)'
        BY <3>1, <3>2, <3>3 DEF Live, Known, Terminal
      <3>5. \A w \in work' : w.call # d
        BY <1>1, <3>1 DEF PhoneInv, WorkOnce
      <3>6. Kept(d)' = {byID'[d]}
        BY <3>4, <3>5 DEF Kept
      <3>7. CallSound(d)'
        BY <3>3, <3>4, <3>6 DEF CallSound
      <3>8. Stage(d) = "unused" /\ Stage(d)' = "offered"
        BY <3>1, <3>3, <3>4, StageCases, NextStageCases DEF LiveStage
      <3>9. Life!Offer(d)
        BY <1>1, <3>8, StageCases, NextStageCases DEF Life!Offer, Life!Moves
      <3> QED BY <3>7, <3>9 DEF Life!Step
    <2> QED BY <2>3, <2>4
  <1> QED BY <1>4, <1>5, Zenon DEF RequestCall

(* The steps that change the state, a mark or a timer of one call. *)
LEMMA ChangeLife ==
  ASSUME PhoneInv, LifeInv, PhoneInv', NEW c \in Calls,
         \/ ReceivedCall(c) \/ AcceptCall(c) \/ ConfirmCall(c, TRUE)
         \/ RingTimeout(c) \/ TombstoneTTL(c),
         NEW d \in Calls
  PROVE  CallSound(d)' /\ Life!Step(d)
  <1>1. byID \in [Calls -> CallRecords \cup {None}]
    BY DEF PhoneInv, InOrder, RegTypes, Registry
  <1>2. Known(c) /\ byID[c] \in CallRecords
    BY <1>1 DEF ReceivedCall, AcceptCall, ConfirmCall, RingTimeout, TombstoneTTL, Live, Known
  <1>3. /\ issued' = issued /\ work' = work /\ history' = history
        /\ SameWork(d) /\ CallSound(d)
    BY DEF ReceivedCall, AcceptCall, ConfirmCall, RingTimeout, TombstoneTTL, LifeInv, SameWork
  <1>4. \E x : byID' = [byID EXCEPT ![c] = x]
    BY ZenonT(30) DEF ReceivedCall, AcceptCall, ConfirmCall, RingTimeout, TombstoneTTL
  <1>5. CASE d # c
    <2>1. byID'[d] = byID[d]
      BY <1>1, <1>4, <1>5
    <2> QED BY <1>3, <2>1, SweptCall
  <1>6. CASE d = c
    <2> DEFINE z == byID[c]
    <2>1. \/ /\ z.state \in {"requested", "ringing"}
             /\ \E n \in {"ringing", "accepted"} : byID'[c] = [z EXCEPT !.state = n]
          \/ /\ z.state = "accepted"
             /\ byID'[c] = [z EXCEPT !.state = "confirmed", !.started = TRUE]
          \/ byID'[c] = [z EXCEPT !.due = TRUE]
          \/ byID'[c] = [z EXCEPT !.old = TRUE]
      BY <1>1, <1>2, Zenon DEF ReceivedCall, AcceptCall, ConfirmCall, RingTimeout, TombstoneTTL
    <2>2. byID'[c] \in CallRecords
      BY <1>2, <2>1, CallUpdates, Zenon DEF States
    <2>3. /\ byID'[c].duration = z.duration /\ byID'[c].reason = z.reason
          /\ \/ byID'[c].state = z.state /\ byID'[c].started = z.started
             \/ /\ z.state \in {"requested", "ringing"}
                /\ byID'[c].state \in {"ringing", "accepted"}
                /\ byID'[c].started = z.started
             \/ /\ z.state = "accepted"
                /\ byID'[c].state = "confirmed" /\ byID'[c].started = TRUE
      BY <1>2, <2>1, Zenon DEF CallRecords
    <2>4. Known(c)'
      BY <2>2, NoneAssumption DEF Known
    <2>5. CASE c \in Live
      <3>1. c \in Live'
        BY <2>3, <2>4, <2>5 DEF Live, Terminal
      <3> QED BY <1>3, <1>6, <2>3, <2>5, <3>1, LiveMoves, Zenon
    <2>6. CASE c \notin Live
      <3>1. z.state = "discarded"
        BY <1>2, <2>6 DEF Live, Terminal
      <3>2. byID'[c].state = "discarded" /\ byID'[c].started = z.started
        BY <2>3, <3>1
      <3>3. c \notin Live' /\ c \in issued
        BY <1>2, <3>2 DEF Live, Terminal, PhoneInv
      <3>4. Echoes(c)
        BY <1>2, <1>3, <2>3, <3>2 DEF Echoes, Kept
      <3> QED BY <1>3, <1>6, <2>6, <3>3, <3>4, EndedStep
    <2> QED BY <2>5, <2>6
  <1> QED BY <1>5, <1>6

(* The end of the calls D, with what their handlers have of it; s may have
   swept more calls since. *)
LEMMA EndLife ==
  ASSUME PhoneInv, LifeInv, NEW D, D \subseteq Live, NEW reason \in [D -> Reasons],
         NEW duration \in Nat, \A c \in D : ~byID[c].started => duration = 0,
         NEW record \in [D -> BOOLEAN],
         NEW r, r = MarkDiscarded(Registry, reason, duration),
         byID' = r.byID \/ byID' = SweepTombstones(r).byID,
         work' = work \cup EndsOf(D, r, record),
         issued' = issued, history' = history, NEW d \in Calls
  PROVE  CallSound(d)' /\ Life!Step(d)
  <1>1. /\ InOrder(r)
        /\ \A c \in Calls \ D : r.byID[c] = byID[c]
        /\ \A c \in D : /\ r.byID[c] \in CallRecords /\ Terminal(r.byID[c])
                        /\ r.byID[c].started = byID[c].started
                        /\ r.byID[c].duration = duration
                        /\ r.byID[c].reason \in Reasons
    <2>1. Marked(r, D, duration)
      BY MarkTakes, ZenonT(30)
    <2> QED BY <2>1 DEF Marked
  <1>2. byID'[d] = r.byID[d] \/ (d \in Tombstones(r) /\ byID'[d] = None)
    BY <1>1, SweepTakes
  <1>3. CallSound(d)
    BY DEF LifeInv
  <1>4. \A c \in D : /\ Work(c, r, record[c]).call = c
                     /\ Work(c, r, record[c]).snap = r.byID[c]
    BY DEF Work
  <1>5. CASE d \notin D
    <2>1. SameWork(d)
      BY <1>4, <1>5 DEF SameWork, EndsOf
    <2>2. byID'[d] = byID[d] \/ (Known(d) /\ Terminal(byID[d]) /\ byID'[d] = None)
      BY <1>1, <1>2, <1>5 DEF Tombstones, Known
    <2> QED BY <1>3, <2>1, <2>2, SweptCall
  <1>6. CASE d \in D
    <2>1. \A w \in work : w.call # d
      BY <1>6 DEF PhoneInv, WorkOnce, Live
    <2>2. r.byID[d] \in Kept(d)'
      BY <1>4, <1>6 DEF Kept, EndsOf
    <2>3. \A x \in Kept(d)' : x = r.byID[d]
      BY <1>2, <1>4, <2>1 DEF Kept, EndsOf, Known
    <2>4. d \notin Live'
      BY <1>1, <1>2, <1>6 DEF Live, Known
    <2>5. d \in Live /\ d \in issued'
      BY <1>6 DEF Live, PhoneInv
    <2>6. \A x \in Kept(d)' : /\ x.started = byID[d].started
                              /\ ~x.started => x.duration = 0
                              /\ x.reason \in Reasons
      BY <1>1, <1>6, <2>3
    <2> QED BY <1>3, <2>2, <2>4, <2>5, <2>6, LiveEnds
  <1> QED BY <1>5, <1>6

(* A confirmation that fails, a hangup, the expiry worker. *)
LEMMA EndSteps ==
  ASSUME PhoneInv, LifeInv, NEW d \in Calls,
         \/ \E c \in Calls : ConfirmCall(c, FALSE)
         \/ \E c \in Calls, why \in {"hangup", "migrate"} : DiscardCall(c, why, 1)
         \/ ExpireDue
  PROVE  CallSound(d)' /\ Life!Step(d)
  <1>1. ASSUME NEW c \in Calls, ConfirmCall(c, FALSE)
        PROVE  CallSound(d)' /\ Life!Step(d)
    <2> DEFINE D == {c}
               reason == [e \in D |-> "disconnect"]
               record == [e \in D |-> FALSE]
               r == MarkDiscarded(Registry, reason, 0)
    <2>1. D \subseteq Live /\ reason \in [D -> Reasons] /\ record \in [D -> BOOLEAN]
      BY <1>1 DEF ConfirmCall, Live, Terminal, Reasons
    <2>2. /\ Becomes(r) /\ work' = work \cup {Work(c, r, FALSE)}
          /\ issued' = issued /\ history' = history
      BY <1>1, Zenon DEF ConfirmCall
    <2>3. EndsOf(D, r, record) = {Work(c, r, FALSE)}
      BY DEF EndsOf
    <2>4. byID' = r.byID
      BY <2>2, Zenon DEF Becomes
    <2>5. 0 \in Nat /\ \A e \in D : ~byID[e].started => 0 = 0
      OBVIOUS
    <2>6. work' = work \cup EndsOf(D, r, record)
      BY <2>2, <2>3, Zenon
    <2> QED BY <2>1, <2>2, <2>4, <2>5, <2>6, EndLife, Zenon
  <1>2. ASSUME NEW c \in Calls, NEW why \in {"hangup", "migrate"}, DiscardCall(c, why, 1)
        PROVE  CallSound(d)' /\ Life!Step(d)
    <2> DEFINE D == {c}
               reason == [e \in D |-> why]
               record == [e \in D |-> why # "migrate"]
               m == IF Known(c) /\ byID[c].started THEN 1 ELSE 0
               r == MarkDiscarded(Registry, reason, m)
    <2>1. /\ D \subseteq Live /\ reason \in [D -> Reasons] /\ record \in [D -> BOOLEAN]
          /\ m \in Nat
      BY <1>2 DEF DiscardCall, Reasons
    <2>2. Becomes(r) /\ work' = work \cup {Work(c, r, why # "migrate")}
      BY <1>2, Zenon DEF DiscardCall
    <2>3. issued' = issued /\ history' = history
      BY <1>2 DEF DiscardCall
    <2>4. \A e \in D : ~byID[e].started => m = 0
      OBVIOUS
    <2> HIDE DEF m
    <2>5. EndsOf(D, r, record) = {Work(c, r, why # "migrate")}
      BY DEF EndsOf
    <2>6. byID' = r.byID
      BY <2>2, Zenon DEF Becomes
    <2>7. work' = work \cup EndsOf(D, r, record)
      BY <2>2, <2>5, Zenon
    <2> QED BY <2>1, <2>3, <2>4, <2>6, <2>7, EndLife, ZenonT(30)
  <1>3. CASE ExpireDue
    <2> DEFINE D == Overdue
               reason == [c \in D |->
                            IF byID[c].state = "accepted" THEN "disconnect" ELSE "missed"]
               record == [c \in D |-> TRUE]
               r == MarkDiscarded(Registry, reason, 0)
    <2>1. D \subseteq Live /\ reason \in [D -> Reasons] /\ record \in [D -> BOOLEAN]
      BY DEF Overdue, Reasons
    <2>2. Becomes(SweepTombstones(r)) /\ work' = work \cup {Work(c, r, TRUE) : c \in D}
      BY <1>3, ZenonT(30) DEF ExpireDue
    <2>3. issued' = issued /\ history' = history
      BY <1>3 DEF ExpireDue
    <2>4. EndsOf(D, r, record) = {Work(c, r, TRUE) : c \in D}
      BY DEF EndsOf
    <2>5. byID' = SweepTombstones(r).byID
      BY <2>2, Zenon DEF Becomes
    <2>6. 0 \in Nat /\ \A e \in D : ~byID[e].started => 0 = 0
      OBVIOUS
    <2>7. work' = work \cup EndsOf(D, r, record)
      BY <2>2, <2>4, Zenon
    <2> QED BY <2>1, <2>3, <2>5, <2>6, <2>7, EndLife, ZenonT(30)
  <1> QED BY <1>1, <1>2, <1>3, Zenon

(* The rest of a handler: pushing moves no call, and the message is written
   with what the handler kept. *)
LEMMA OutputLife ==
  ASSUME PhoneInv, LifeInv, Output, NEW d \in Calls
  PROVE  CallSound(d)' /\ Life!Step(d)
  <1>1. CallSound(d)
    BY DEF LifeInv
  <1>2. ASSUME NEW w \in work, Push(w)
        PROVE  CallSound(d)' /\ Life!Step(d)
    <2> DEFINE x == [w EXCEPT !.push = Tail(@)]
    <2>1. /\ work' = (work \ {w}) \cup {x} /\ history' = history
          /\ issued' = issued /\ byID' = byID
      BY <1>2 DEF Push, registry
    <2>2. x.call = w.call /\ x.snap = w.snap
      <3>1. w \in WorkItems
        BY DEF PhoneInv, WorkOnce
      <3> QED BY <3>1, Zenon DEF WorkItems
    <2> HIDE DEF x
    <2>3. Kept(d)' = Kept(d)
      BY <2>1, <2>2 DEF Kept, Known
    <2> QED BY <1>1, <2>1, <2>3, Untouched
  <1>3. ASSUME NEW w \in work, NEW fails \in BOOLEAN, Record(w, fails)
        PROVE  CallSound(d)' /\ Life!Step(d)
    <2> DEFINE e == [reason |-> w.snap.reason, duration |-> w.snap.duration]
    <2>1. work' = work \ {w} /\ issued' = issued /\ byID' = byID
      BY <1>3 DEF Record, registry
    <2>2. history' = history \/ history' = [history EXCEPT ![w.call] = Append(@, e)]
      BY <1>3 DEF Record
    <2>3. DOMAIN history = Calls /\ w.call \in Calls /\ w.call \in issued
      BY DEF PhoneInv, HistoryOnce, WorkOnce, WorkItems
    <2>4. CASE d # w.call
      <3>1. history'[d] = history[d]
        BY <2>2, <2>3, <2>4
      <3>2. Kept(d)' = Kept(d)
        BY <2>1, <2>4 DEF Kept, Known
      <3> QED BY <1>1, <2>1, <3>1, <3>2, Untouched
    <2>5. CASE d = w.call
      <3>1. d \notin Live /\ d \in issued /\ history[d] = <<>> /\ w.snap \in Kept(d)
        BY <2>3, <2>5 DEF PhoneInv, WorkOnce, HistoryOnce, Live, Kept
      <3>2. d \notin Live' /\ d \in issued'
        BY <2>1, <3>1 DEF Live, Known
      <3>3. Kept(d)' \subseteq Kept(d)
        BY <2>1 DEF Kept, Known
      <3>4. Echoes(d)
        BY <3>3 DEF Echoes
      <3>5. CASE history' = history
        BY <1>1, <3>1, <3>2, <3>4, <3>5, EndedStep
      <3>6. CASE history' = [history EXCEPT ![w.call] = Append(@, e)]
        <4>1. history'[d] = <<e>>
          <5>1. history'[d] = Append(history[d], e)
            BY <2>3, <2>5, <3>6, Zenon
          <5> HIDE DEF e
          <5> QED BY <3>1, <5>1
        <4>2. /\ CallSound(d)'
              /\ Stage(d)' = Stage(d) \/ Stage(d)' = "gone"
          BY <1>1, <3>1, <3>2, <3>4, EndedStays
        <4>3. Stage(d) = IF w.snap.started THEN "finished" ELSE "dropped"
          <5>1. (\E x \in Kept(d) : x.started) <=> w.snap.started
            BY <1>1, <3>1 DEF CallSound
          <5> QED BY <3>1, <5>1, StageCases
        <4>4. e.reason \in Reasons /\ (~w.snap.started => e.duration = 0)
          BY <1>1, <3>1 DEF CallSound
        <4> HIDE DEF e
        <4>5. Len(<<e>>) = 1 /\ <<e>>[1] = e
          OBVIOUS
        <4>6. StageOf[d] = Stage(d) /\ StageOf'[d] = Stage(d)'
          BY StageCases, NextStageCases
        <4>7. Life!Write(d)
          BY <3>1, <4>1, <4>2, <4>3, <4>4, <4>5, <4>6 DEF Life!Write
        <4> QED BY <4>2, <4>7 DEF Life!Step
      <3> QED BY <2>2, <3>5, <3>6
    <2> QED BY <2>4, <2>5
  <1> QED BY <1>2, <1>3 DEF Output

(* Every step moves every call one step of its life, or none. *)
LEMMA LifeStep ==
  ASSUME PhoneInv, LifeInv, [Next]_vars
  PROVE  LifeInv' /\ Life!Next
  <1> SUFFICES ASSUME NEW d \in Calls
               PROVE  CallSound(d)' /\ Life!Step(d)
    BY DEF LifeInv, Life!Next
  <1>1. PhoneInv' /\ CallSound(d)
    BY NextPhone DEF LifeInv
  <1>2. CASE UNCHANGED vars
    <2>1. Kept(d)' = Kept(d)
      BY <1>2 DEF vars, registry, Kept, Known
    <2> QED BY <1>1, <1>2, <2>1, Untouched DEF vars, registry
  <1>3. ASSUME NEW u \in Callers, NEW v \in Users, NEW y \in Randoms, RequestCall(u, v, y)
        PROVE  CallSound(d)' /\ Life!Step(d)
    BY <1>1, <1>3, RequestLife
  <1>4. ASSUME NEW c \in Calls, \/ ReceivedCall(c) \/ AcceptCall(c)
                                \/ RingTimeout(c) \/ TombstoneTTL(c)
        PROVE  CallSound(d)' /\ Life!Step(d)
    BY <1>1, <1>4, ChangeLife, Zenon
  <1>5. ASSUME NEW c \in Calls, NEW matches \in BOOLEAN, ConfirmCall(c, matches)
        PROVE  CallSound(d)' /\ Life!Step(d)
    <2>1. CASE matches = TRUE
      BY <1>1, <1>5, <2>1, ChangeLife, Zenon
    <2>2. CASE matches = FALSE
      BY <1>5, <2>2, EndSteps, Zenon
    <2> QED BY <2>1, <2>2, Zenon
  <1>6. CASE (\E c \in Calls, why \in {"hangup", "migrate"} : DiscardCall(c, why, 1)) \/ ExpireDue
    BY <1>6, EndSteps, Zenon
  <1>7. CASE Output
    BY <1>7, OutputLife
  <1> QED BY <1>2, <1>3, <1>4, <1>5, <1>6, <1>7, Zenon DEF Next

(* The registry and its handlers implement the lives of the calls: none is
   revived or skips a stage, and its one message in the history is true. *)
THEOREM ImplementsLifeHolds == Spec => ImplementsLife
  <1>1. Init => LifeInv /\ Life!Init
    <2> SUFFICES ASSUME Init
                 PROVE  LifeInv /\ Life!Init
      OBVIOUS
    <2>1. \A c \in Calls : Kept(c) = {} /\ c \notin Live /\ Stage(c) = "unused"
      BY DEF Init, Kept, Known, Live, Stage
    <2>2. LifeInv
      BY <2>1 DEF LifeInv, CallSound
    <2>3. StageOf = [c \in Calls |-> "unused"]
      BY <2>1 DEF StageOf
    <2> QED BY <2>2, <2>3 DEF Init, Life!Init
  <1>2. PhoneInv /\ LifeInv /\ [Next]_vars => LifeInv' /\ [Life!Next]_<<StageOf, history>>
    BY LifeStep
  <1> QED BY <1>1, <1>2, PhoneInvariance, PTL DEF Spec, ImplementsLife, Life!Spec

=============================================================================
