----------------------------- MODULE CacheStore -----------------------------
(***************************************************************************)
(* The store under a read-model cache: a map, the list that orders its     *)
(* keys by use, the weight it holds, and the inverted index that the       *)
(* OnStore and OnRemove callbacks of the cache keep beside it.  Every      *)
(* operator is one critical section of the cache's mutex.                  *)
(***************************************************************************)
EXTENDS Integers, Sequences, FiniteSets, Functions

CONSTANTS
  Keys,
  MaxEntries,
  MaxWeight,       \* 0: no limit but MaxEntries
  Weight,          \* the weight of a value, by its version
  NoEntry

ASSUME StoreAssumption ==
  /\ IsFiniteSet(Keys)
  /\ MaxEntries \in Nat \ {0}
  /\ MaxWeight \in Nat
  /\ Weight \in Seq(Nat)

EmptyCache ==
  [items |-> [k \in Keys |-> NoEntry], ll |-> <<>>, weight |-> 0, index |-> {}]

Cached(c, k) == c.items[k] # NoEntry

(* Guarded: written under the epoch guard. *)
Entries == [val : 1..Len(Weight), hash : Nat, guarded : BOOLEAN]

Entry(v, h, guarded) == [val |-> v, hash |-> h, guarded |-> guarded]

ASSUME EntryAssumption == NoEntry \notin Entries

(* A weight below 1 counts as 1. *)
ValueWeight(e) ==
  IF MaxWeight = 0 \/ Weight[e.val] = 0 THEN 1 ELSE Weight[e.val]

(* The list without the element of k. *)
Without(c, k) ==
  LET i == CHOOSE j \in DOMAIN c.ll : c.ll[j] = k
  IN SubSeq(c.ll, 1, i - 1) \o SubSeq(c.ll, i + 1, Len(c.ll))

(* Mutant: an entry leaves the list and the map, and keeps its weight. *)
RemoveElementKeepingWeight(c, k) ==
  IF ~Cached(c, k) THEN c ELSE
    [items  |-> [c.items EXCEPT ![k] = NoEntry],
     ll     |-> Without(c, k),
     weight |-> c.weight,
     index  |-> c.index \ {<<k, c.items[k].val>>}]

RemoveElement(c, k) ==
  IF ~Cached(c, k) THEN c ELSE
    [items  |-> [c.items EXCEPT ![k] = NoEntry],
     ll     |-> Without(c, k),
     weight |-> c.weight - ValueWeight(c.items[k]),
     index  |-> c.index \ {<<k, c.items[k].val>>}]

Overflows(c) ==
  Len(c.ll) > MaxEntries \/ (MaxWeight > 0 /\ c.weight > MaxWeight)

(* One round of the loop in evictOverflow. *)
EvictOldest(c) ==
  IF Overflows(c) /\ c.ll # <<>> THEN RemoveElement(c, c.ll[Len(c.ll)]) ELSE c

EvictOverflow(c) ==
  LET after[n \in 0..Len(c.ll)] ==
        IF n = 0 THEN c ELSE EvictOldest(after[n - 1])
  IN after[Len(c.ll)]

(* A value heavier than the whole cache is not kept, and drops the entry it
   would have replaced. *)
StoreLocked(c, k, e) ==
  IF MaxWeight > 0 /\ ValueWeight(e) > MaxWeight THEN RemoveElement(c, k)
  ELSE LET room == RemoveElement(c, k) IN
    EvictOverflow(
      [items  |-> [room.items EXCEPT ![k] = e],
       ll     |-> <<k>> \o room.ll,
       weight |-> room.weight + ValueWeight(e),
       index  |-> room.index \cup {<<k, e.val>>}])

MoveToFront(c, k) == [c EXCEPT !.ll = <<k>> \o Without(c, k)]

(* The deletions of Invalidate, InvalidateWhere and InvalidateWhereValue. *)
RemoveAll(c, S) ==
  LET after[n \in 0..Len(c.ll)] ==
        IF n = 0 THEN c
        ELSE IF c.ll[n] \in S THEN RemoveElement(after[n - 1], c.ll[n]) ELSE after[n - 1]
  IN after[Len(c.ll)]

-----------------------------------------------------------------------------
Held(c) == {k \in Keys : Cached(c, k)}

HeldWeight(c) ==
  LET upto[n \in 0..Len(c.ll)] ==
        IF n = 0 THEN 0 ELSE upto[n - 1] + ValueWeight(c.items[c.ll[n]])
  IN upto[Len(c.ll)]

(* The four views of the cache agree, and it is within both of its bounds. *)
Consistent(c) ==
  /\ Range(c.ll) = Held(c)
  /\ Len(c.ll) = Cardinality(Held(c))
  /\ c.weight = HeldWeight(c)
  /\ c.index = {<<k, c.items[k].val>> : k \in Held(c)}
  /\ ~Overflows(c)
=============================================================================
