--------------------------- MODULE ReadModelCache ---------------------------
(***************************************************************************)
(* The in-process read-model cache, between readers and a backend whose    *)
(* rows change.  A writer commits a new version of a row and invalidates   *)
(* its key some time later; a load reads the row at some moment in         *)
(* between.  The epoch is what keeps a load that an invalidation overtook  *)
(* from putting the old version back.                                      *)
(*                                                                         *)
(* Callers of GetOrLoad share loads through a singleflight group, callers  *)
(* of GetOrLoadBatch through one flight per key, hash, cacheability and    *)
(* epoch.  Store writes a value that its caller has in hand, without the   *)
(* guard: what it leaves in the cache is marked, and nothing is promised   *)
(* for it.                                                                 *)
(***************************************************************************)
EXTENDS CacheStore

CONSTANTS
  Readers,         \* calls of GetOrLoad and GetOrLoadVersioned
  Batches,         \* calls of GetOrLoadBatch
  Builders,        \* callers of LoadEpoch and StoreIfEpoch
  Mutable,         \* the keys whose rows change
  MaxCalls,        \* bound on the number of calls of all kinds
  MaxVersion,      \* bound on the versions of a row
  MaxEpoch,        \* bound on the number of invalidations
  Nobody

ASSUME CacheAssumption ==
  /\ Mutable \subseteq Keys
  /\ MaxCalls \in Nat
  /\ MaxVersion \in 1..Len(Weight)
  /\ MaxEpoch \in Nat
  /\ Nobody \notin Readers

VARIABLES
  row,             \* [Keys -> the committed version]
  floor,           \* [Keys -> the version its last invalidation published]
  cache,
  epoch,
  call,            \* [Readers -> where the caller of GetOrLoad is]
  sf,              \* [Keys \X Hashes -> the caller that runs the function]
  batch,           \* [Batches -> where the caller of GetOrLoadBatch is]
  flights,         \* batchFlights, with the caller that owns each
  build            \* [Builders -> the value built outside the cache]

backend == <<row, floor>>
vars == <<backend, cache, epoch, call, sf, batch, flights, build>>

Versions == 1..MaxVersion
Hashes == 0..MaxVersion            \* 0: the version is not known

(* What a read promises: the version that an invalidation published, and the
   one its hash names. *)
AtLeast(published, h) == IF h > published THEN h ELSE published

Answer(v, need) == [val |-> v, need |-> need]
NoAnswer == Answer(0, 0)

IdleCall ==
  [pc |-> "idle", key |-> Nobody, hash |-> 0, epoch |-> 0, leader |-> Nobody,
   stored |-> FALSE, got |-> NoAnswer]

IdleBatch ==
  [pc |-> "idle", keys |-> {}, base |-> [k \in Keys |-> 0], epoch |-> 0,
   rest |-> {}, missing |-> {}, owned |-> {}, waits |-> {}, heard |-> {},
   loaded |-> [k \in Keys |-> 0], verdict |-> "ok", out |-> [k \in Keys |-> NoAnswer]]

IdleBuild == [pc |-> "idle", key |-> Nobody, epoch |-> 0, val |-> 0]
Built == [IdleBuild EXCEPT !.pc = "done"]

Begun ==
  Cardinality({r \in Readers : call[r].pc # "idle"})
  + Cardinality({b \in Batches : batch[b].pc # "idle"})
  + Cardinality({u \in Builders : build[u].pc # "idle"})

Init ==
  /\ row = [k \in Keys |-> 1]
  /\ floor = [k \in Keys |-> 1]
  /\ cache = EmptyCache
  /\ epoch = 0
  /\ call = [r \in Readers |-> IdleCall]
  /\ sf = [f \in Keys \X Hashes |-> Nobody]
  /\ batch = [b \in Batches |-> IdleBatch]
  /\ flights = {}
  /\ build = [u \in Builders |-> IdleBuild]

-----------------------------------------------------------------------------
(* The backend and the invalidations *)

Write(k) ==
  /\ k \in Mutable
  /\ row[k] < MaxVersion
  /\ row' = [row EXCEPT ![k] = @ + 1]
  /\ UNCHANGED <<floor, cache, epoch, call, sf, batch, flights, build>>

(* Mutant: the keys go and the loads in flight are not told. *)
InvalidateQuietly(S) ==
  /\ epoch < MaxEpoch
  /\ cache' = RemoveAll(cache, S)
  /\ floor' = [k \in Keys |-> IF k \in S THEN row[k] ELSE floor[k]]
  /\ UNCHANGED <<row, epoch, call, sf, batch, flights, build>>

(* Invalidate, InvalidateWhere, InvalidateWhereValue: S is the keys given, or
   the ones the predicate holds of. *)
Invalidate(S) ==
  /\ epoch < MaxEpoch
  /\ epoch' = epoch + 1
  /\ cache' = RemoveAll(cache, S)
  /\ floor' = [k \in Keys |-> IF k \in S THEN row[k] ELSE floor[k]]
  /\ UNCHANGED <<row, call, sf, batch, flights, build>>

Flush ==
  /\ epoch < MaxEpoch
  /\ epoch' = epoch + 1
  /\ cache' = EmptyCache
  /\ floor' = row
  /\ UNCHANGED <<row, call, sf, batch, flights, build>>

-----------------------------------------------------------------------------
(* lookup: a miss, an expired entry that goes, or a hit that moves up.  The
   clock may have passed an entry's TTL at any lookup. *)

Hits(k, h) ==
  /\ Cached(cache, k)
  /\ h # 0 => cache.items[k].hash = h

HitAnswer(k, h) ==
  LET e == cache.items[k] IN
  Answer(e.val, IF e.guarded THEN AtLeast(floor[k], h) ELSE 0)

LookupHit(k, h) ==
  /\ Hits(k, h)
  /\ cache' = MoveToFront(cache, k)

LookupMiss(k, h) ==
  \/ ~Hits(k, h) /\ UNCHANGED cache
  \/ Cached(cache, k) /\ cache' = RemoveElement(cache, k)

-----------------------------------------------------------------------------
(* getOrLoad.  The steps of one caller; the function that singleflight runs
   is LookAgain, SnapshotEpoch, Load and StoreIfEpoch of the leader. *)

Go(r, pc) == call' = [call EXCEPT ![r].pc = pc]
Flight(r) == <<call[r].key, call[r].hash>>

GetOrLoad(r, k, h) ==
  /\ call[r].pc = "idle"
  /\ Begun < MaxCalls
  /\ h \in {0, row[k]}
  /\ call' = [call EXCEPT ![r] = [IdleCall EXCEPT
       !.pc = "lookup", !.key = k, !.hash = h]]
  /\ UNCHANGED <<backend, cache, epoch, sf, batch, flights, build>>

Lookup(r) ==
  LET k == call[r].key
      h == call[r].hash IN
  /\ call[r].pc = "lookup"
  /\ \/ /\ LookupHit(k, h)
        /\ call' = [call EXCEPT ![r] = [IdleCall EXCEPT
             !.pc = "done", !.got = HitAnswer(k, h)]]
     \/ /\ LookupMiss(k, h)
        /\ Go(r, "join")
  /\ UNCHANGED <<backend, epoch, sf, batch, flights, build>>

(* singleflight.Group.Do: run the function, or wait for whoever runs it. *)
Join(r) ==
  /\ call[r].pc = "join"
  /\ IF sf[Flight(r)] = Nobody
     THEN /\ sf' = [sf EXCEPT ![Flight(r)] = r]
          /\ call' = [call EXCEPT ![r].pc = "again", ![r].leader = r]
     ELSE /\ call' = [call EXCEPT ![r].pc = "wait", ![r].leader = sf[Flight(r)]]
          /\ UNCHANGED sf
  /\ UNCHANGED <<backend, cache, epoch, batch, flights, build>>

LookAgain(r) ==
  LET k == call[r].key
      h == call[r].hash IN
  /\ call[r].pc = "again"
  /\ \/ /\ LookupHit(k, h)
        /\ call' = [call EXCEPT ![r].pc = "return", ![r].stored = TRUE,
                                ![r].got = HitAnswer(k, h)]
     \/ /\ LookupMiss(k, h)
        /\ Go(r, "snapshot")
  /\ UNCHANGED <<backend, epoch, sf, batch, flights, build>>

SnapshotEpoch(r) ==
  /\ call[r].pc = "snapshot"
  /\ call' = [call EXCEPT ![r].pc = "load", ![r].epoch = epoch]
  /\ UNCHANGED <<backend, cache, epoch, sf, batch, flights, build>>

Load(r) ==
  /\ call[r].pc = "load"
  /\ call' = [call EXCEPT ![r].pc = "store", ![r].got = Answer(row[call[r].key], 0)]
  /\ UNCHANGED <<backend, cache, epoch, sf, batch, flights, build>>

(* The leader and everybody who waits for it. *)
Party(r) == {q \in Readers : call[q].leader = r}

Forget(r) == sf' = [sf EXCEPT ![Flight(r)] = Nobody]

LoadFails(r) ==
  /\ call[r].pc = "load"
  /\ Forget(r)
  /\ call' = [q \in Readers |->
       IF q \in Party(r) THEN [IdleCall EXCEPT !.pc = "failed"] ELSE call[q]]
  /\ UNCHANGED <<backend, cache, epoch, batch, flights, build>>

(* The result of the flight, with the promise it now makes. *)
Decided(r, stored) ==
  [call[r] EXCEPT !.pc = "return", !.stored = stored,
                  !.got.need = AtLeast(floor[call[r].key], call[r].hash)]

LoadedEntry(r) == Entry(call[r].got.val, call[r].hash, TRUE)

StoreIfEpoch(r) ==
  /\ call[r].pc = "store"
  /\ cache' = IF epoch # call[r].epoch THEN cache
              ELSE StoreLocked(cache, call[r].key, LoadedEntry(r))
  /\ call' = [call EXCEPT ![r] = Decided(r, epoch = call[r].epoch)]
  /\ UNCHANGED <<backend, epoch, sf, batch, flights, build>>

(* The function has returned: the group forgets the flight, and its result
   goes to the party.  One that was not stored sends everybody back to the
   cache, unless their context has ended. *)
Return(r) ==
  /\ call[r].pc = "return"
  /\ Forget(r)
  /\ \/ /\ call[r].stored
        /\ call' = [q \in Readers |->
             IF q \notin Party(r) THEN call[q]
             ELSE [IdleCall EXCEPT !.pc = "done", !.got = call[r].got]]
     \/ /\ ~call[r].stored
        /\ \E cancelled \in SUBSET Party(r) : call' = [q \in Readers |->
             IF q \notin Party(r) THEN call[q]
             ELSE IF q \in cancelled THEN [IdleCall EXCEPT !.pc = "failed"]
             ELSE [IdleCall EXCEPT
                     !.pc = "lookup", !.key = call[q].key, !.hash = call[q].hash]]
  /\ UNCHANGED <<backend, cache, epoch, batch, flights, build>>

-----------------------------------------------------------------------------
(* Values from outside.  Store and StoreVersioned: the caller has a version of
   the row in hand, and the hash of that version or none. *)
Store(u, k, v, h) ==
  /\ build[u].pc = "idle"
  /\ Begun < MaxCalls
  /\ v <= row[k]
  /\ h \in {0, v}
  /\ build' = [build EXCEPT ![u] = Built]
  /\ cache' = StoreLocked(cache, k, Entry(v, h, FALSE))
  /\ UNCHANGED <<backend, epoch, call, sf, batch, flights>>

(* LoadEpoch, a build outside the cache, StoreIfEpoch *)

LoadEpoch(u, k) ==
  /\ build[u].pc = "idle"
  /\ Begun < MaxCalls
  /\ build' = [build EXCEPT ![u] =
       [pc |-> "load", key |-> k, epoch |-> epoch, val |-> 0]]
  /\ UNCHANGED <<backend, cache, epoch, call, sf, batch, flights>>

BuildValue(u) ==
  /\ build[u].pc = "load"
  /\ build' = [build EXCEPT ![u].pc = "store", ![u].val = row[build[u].key]]
  /\ UNCHANGED <<backend, cache, epoch, call, sf, batch, flights>>

StoreBuilt(u) ==
  /\ build[u].pc = "store"
  /\ build' = [build EXCEPT ![u] = Built]
  /\ cache' = IF epoch # build[u].epoch THEN cache
              ELSE StoreLocked(cache, build[u].key, Entry(build[u].val, 0, TRUE))
  /\ UNCHANGED <<backend, epoch, call, sf, batch, flights>>

-----------------------------------------------------------------------------
(* GetOrLoadBatch *)

GetOrLoadBatch(b, S) ==
  /\ batch[b].pc = "idle"
  /\ Begun < MaxCalls
  /\ batch' = [batch EXCEPT ![b] = [IdleBatch EXCEPT
       !.pc = "pass", !.keys = S, !.base = floor]]
  /\ UNCHANGED <<backend, cache, epoch, call, sf, flights, build>>

(* A pass over the keys begins: the epoch is read before any lookup. *)
BatchPass(b) ==
  /\ batch[b].pc = "pass"
  /\ batch' = [batch EXCEPT ![b] = [IdleBatch EXCEPT
       !.pc = "lookup", !.keys = batch[b].keys, !.base = batch[b].base,
       !.epoch = epoch, !.rest = batch[b].keys]]
  /\ UNCHANGED <<backend, cache, epoch, call, sf, flights, build>>

(* A miss keeps the hash and the cacheability that versionOf gave. *)
BatchLookup(b, k, h, cacheable) ==
  /\ batch[b].pc = "lookup"
  /\ k \in batch[b].rest
  /\ IF cacheable THEN h \in {0, row[k]} ELSE h = 0
  /\ \/ /\ cacheable
        /\ LookupHit(k, h)
        /\ batch' = [batch EXCEPT ![b].rest = @ \ {k},
                       ![b].out[k] = HitAnswer(k, h)]
     \/ /\ IF cacheable THEN LookupMiss(k, h) ELSE UNCHANGED cache
        /\ batch' = [batch EXCEPT ![b].rest = @ \ {k}, ![b].missing = @ \cup
                       {[key |-> k, hash |-> h, cacheable |-> cacheable]}]
  /\ UNCHANGED <<backend, epoch, call, sf, flights, build>>

BatchAllHit(b) ==
  /\ batch[b].pc = "lookup"
  /\ batch[b].rest = {}
  /\ batch[b].missing = {}
  /\ batch' = [batch EXCEPT ![b] = [IdleBatch EXCEPT
       !.pc = "done", !.keys = batch[b].keys, !.out = batch[b].out]]
  /\ UNCHANGED <<backend, cache, epoch, call, sf, flights, build>>

(* Mutant: the epoch is left out of the key. *)
FlightKeyOfAnyEpoch(m, e) ==
  [key |-> m.key, hash |-> m.hash, cacheable |-> m.cacheable]

FlightKey(m, e) ==
  [key |-> m.key, hash |-> m.hash, cacheable |-> m.cacheable, epoch |-> e]

OwnerOf(m, e) ==
  {o \in Batches : \E f \in flights : f.owner = o /\ f.id = FlightKey(m, e)}

(* Every miss waits for a flight: one that is open, or one of our own. *)
ClaimBatchFlights(b) ==
  LET e == batch[b].epoch
      free == {m \in batch[b].missing : OwnerOf(m, e) = {}}
      owner(m) == IF m \in free THEN b ELSE CHOOSE o \in OwnerOf(m, e) : TRUE IN
  /\ batch[b].pc = "lookup"
  /\ batch[b].rest = {}
  /\ batch[b].missing # {}
  /\ flights' = flights \cup {[id |-> FlightKey(m, e), owner |-> b] : m \in free}
  /\ batch' = [batch EXCEPT
       ![b].pc = IF free = {} THEN "collect" ELSE "load",
       ![b].owned = free,
       ![b].waits = {[miss |-> m, owner |-> owner(m)] : m \in batch[b].missing}]
  /\ UNCHANGED <<backend, cache, epoch, call, sf, build>>

(* loadMissing: one query, which returns a value for every key it was given. *)
BatchLoad(b) ==
  /\ batch[b].pc = "load"
  /\ batch' = [batch EXCEPT ![b].pc = "store", ![b].loaded =
       [k \in Keys |-> IF \E m \in batch[b].owned : m.key = k THEN row[k] ELSE 0]]
  /\ UNCHANGED <<backend, cache, epoch, call, sf, flights, build>>

(* Mutant: the error is returned at once, and the flights stay open. *)
BatchLoadFailsAlone(b) ==
  /\ batch[b].pc = "load"
  /\ batch' = [batch EXCEPT ![b] = [IdleBatch EXCEPT !.pc = "failed"]]
  /\ UNCHANGED <<backend, cache, epoch, call, sf, flights, build>>

BatchLoadFails(b) ==
  /\ batch[b].pc = "load"
  /\ batch' = [batch EXCEPT ![b].pc = "complete", ![b].verdict = "error"]
  /\ UNCHANGED <<backend, cache, epoch, call, sf, flights, build>>

StoreBatchIfEpoch(b) ==
  LET kept == {m \in batch[b].owned : m.cacheable}
      same == epoch = batch[b].epoch
      entry(m) == Entry(batch[b].loaded[m.key], m.hash, TRUE) IN
  /\ batch[b].pc = "store"
  /\ IF same
     THEN \E q \in Bijection(1..Cardinality(kept), kept) :
            LET stored[n \in 0..Len(q)] ==
                  IF n = 0 THEN cache
                  ELSE StoreLocked(stored[n - 1], q[n].key, entry(q[n]))
            IN cache' = stored[Len(q)]
     ELSE UNCHANGED cache
  /\ batch' = [batch EXCEPT ![b].pc = "complete",
                            ![b].verdict = IF same THEN "ok" ELSE "retry"]
  /\ UNCHANGED <<backend, epoch, call, sf, flights, build>>

(* What the batch in state q makes of the end of its wait w, with the
   owner's verdict and value. *)
Hear(q, w, verdict, v) ==
  LET k == w.miss.key IN
  [q EXCEPT !.waits = @ \ {w},
            !.heard = IF verdict = "ok" THEN @ ELSE @ \cup {verdict},
            !.out[k] = IF verdict = "ok" THEN Answer(v, AtLeast(q.base[k], w.miss.hash))
                       ELSE @]

(* The owner closes its flights one by one.  A flight does not change once it
   is closed, so that it can reach its waiters at this moment. *)
CompleteBatchFlight(b, m) ==
  LET w == [miss |-> m, owner |-> b]
      told == [a \in Batches |->
                 IF w \in batch[a].waits
                 THEN Hear(batch[a], w, batch[b].verdict, batch[b].loaded[m.key])
                 ELSE batch[a]] IN
  /\ batch[b].pc = "complete"
  /\ m \in batch[b].owned
  /\ flights' = flights \ {[id |-> FlightKey(m, batch[b].epoch), owner |-> b]}
  /\ batch' = [told EXCEPT
       ![b].owned = @ \ {m},
       ![b].pc = IF batch[b].owned = {m} THEN "collect" ELSE "complete"]
  /\ UNCHANGED <<backend, cache, epoch, call, sf, build>>

(* The waits are over: an error is returned, a retry starts another pass. *)
BatchCollect(b) ==
  /\ batch[b].pc = "collect"
  /\ \/ /\ "error" \in batch[b].heard
        /\ batch' = [batch EXCEPT ![b] = [IdleBatch EXCEPT !.pc = "failed"]]
     \/ /\ batch[b].waits = {}
        /\ batch[b].heard = {"retry"}
        /\ batch' = [batch EXCEPT ![b] = [IdleBatch EXCEPT
             !.pc = "pass", !.keys = batch[b].keys, !.base = batch[b].base]]
     \/ /\ batch[b].waits = {}
        /\ batch[b].heard = {}
        /\ batch' = [batch EXCEPT ![b] = [IdleBatch EXCEPT
             !.pc = "done", !.keys = batch[b].keys, !.out = batch[b].out]]
  /\ UNCHANGED <<backend, cache, epoch, call, sf, flights, build>>

BatchCancelled(b) ==
  /\ batch[b].pc = "collect"
  /\ batch' = [batch EXCEPT ![b] = [IdleBatch EXCEPT !.pc = "failed"]]
  /\ UNCHANGED <<backend, cache, epoch, call, sf, flights, build>>

-----------------------------------------------------------------------------
CallStep(r) ==
  \/ Lookup(r)
  \/ Join(r)
  \/ LookAgain(r)
  \/ SnapshotEpoch(r)
  \/ Load(r)
  \/ LoadFails(r)
  \/ StoreIfEpoch(r)
  \/ Return(r)

BatchStep(b) ==
  \/ BatchPass(b)
  \/ \E k \in Keys, h \in Hashes, cacheable \in BOOLEAN : BatchLookup(b, k, h, cacheable)
  \/ BatchAllHit(b)
  \/ ClaimBatchFlights(b)
  \/ BatchLoad(b)
  \/ BatchLoadFails(b)
  \/ StoreBatchIfEpoch(b)
  \/ \E m \in batch[b].owned : CompleteBatchFlight(b, m)
  \/ BatchCollect(b)

Next ==
  \/ \E k \in Keys : Write(k)
  \/ \E S \in SUBSET Keys : Invalidate(S)
  \/ Flush
  \/ \E r \in Readers, k \in Keys, h \in Hashes : GetOrLoad(r, k, h)
  \/ \E r \in Readers : CallStep(r)
  \/ \E u \in Builders, k \in Keys, v \in Versions, h \in Hashes : Store(u, k, v, h)
  \/ \E u \in Builders, k \in Keys : LoadEpoch(u, k)
  \/ \E u \in Builders : BuildValue(u) \/ StoreBuilt(u)
  \/ \E b \in Batches, S \in SUBSET Keys \ {{}} : GetOrLoadBatch(b, S)
  \/ \E b \in Batches : BatchStep(b) \/ BatchCancelled(b)

Spec == Init /\ [][Next]_vars

-----------------------------------------------------------------------------
(* Properties *)

(* The state has its types.  The map, the list, the weight and the inverted
   index of the cache agree, and the cache is within its bounds, after every
   store, eviction and invalidation. *)
TypeOK ==
  /\ row \in [Keys -> Versions]
  /\ floor \in [Keys -> Versions]
  /\ epoch \in 0..MaxEpoch
  /\ sf \in [Keys \X Hashes -> Readers \cup {Nobody}]
  /\ \A f \in flights : f.owner \in Batches
  /\ Consistent(cache)

(* No load, batch or build puts back a version that an invalidation has
   replaced: an entry written under the epoch guard is as new as the last
   invalidation of its key, and as the version its hash names. *)
EntriesFresh ==
  \A k \in Held(cache) :
    LET e == cache.items[k] IN
    e.guarded => e.val >= floor[k] /\ e.val >= e.hash

(* What GetOrLoad returns from a load is as new as the last invalidation when
   its write-back was decided, and so as the last one before the call of anyone
   who waited for it by then; a load that an invalidation overtook is repeated.
   What GetOrLoadBatch returns is as new as the last invalidation before the
   call: it takes no value from a flight of an earlier epoch.  Both are as new
   as the version that was asked for. *)
ReadFresh ==
  /\ \A r \in Readers : call[r].pc = "done" => call[r].got.val >= call[r].got.need
  /\ \A b \in Batches : batch[b].pc = "done" =>
       \A k \in batch[b].keys : batch[b].out[k].val >= batch[b].out[k].need

(* Nobody waits for a caller that has gone: the flight a caller waits for is
   open, its owner is on its way to closing it, and it waits for nobody while
   it owns one.  An error in a load or a retry leaves no flight behind. *)
FlightsAttended ==
  /\ \A r \in Readers : call[r].pc = "wait" =>
       /\ call[call[r].leader].pc \in {"again", "snapshot", "load", "store", "return"}
       /\ sf[Flight(r)] = call[r].leader
  /\ \A f \in Keys \X Hashes : sf[f] # Nobody =>
       call[sf[f]].leader = sf[f] /\ Flight(sf[f]) = f
  /\ \A f \in flights :
       /\ batch[f.owner].pc \in {"load", "store", "complete"}
       /\ \E m \in batch[f.owner].owned : f.id = FlightKey(m, batch[f.owner].epoch)
  /\ \A b \in Batches : \A w \in batch[b].waits :
       [id |-> FlightKey(w.miss, batch[b].epoch), owner |-> w.owner] \in flights
=============================================================================
