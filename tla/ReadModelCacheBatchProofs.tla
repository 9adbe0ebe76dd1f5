--------------------- MODULE ReadModelCacheBatchProofs ---------------------
(***************************************************************************)
(* The builders and the batches of the read model cache keep the invariant *)
(* of ReadModelCacheProofs, and what follows from it for the properties.   *)
(***************************************************************************)
EXTENDS ReadModelCacheProofs

(* Every leaf that names no prover: Zenon, then SMT, which is tried again as Z3
   when the translation ran out of time. *)
USE ZenonT(10), SMTT(30), Z3T(30)

-----------------------------------------------------------------------------
(* Values from outside *)

(* What a step of a builder leaves alone stays in order. *)
LEMMA BuildFrame ==
  ASSUME CacheInv, row' = row, floor' = floor, epoch' = epoch, call' = call, sf' = sf,
         batch' = batch, flights' = flights, StoreOK', NEW u \in Builders, NEW c,
         build' = [build EXCEPT ![u] = c], BuildFine(c, floor, epoch)
  PROVE  CacheInv'
  <1>1. BackendOK'
    BY DEF CacheInv, BackendOK
  <1>2. CallsOK'
    BY DEF CacheInv, CallsOK
  <1>3. BatchesOK'
    BY DEF CacheInv, BatchesOK
  <1>4. FlightsOK'
    BY DEF CacheInv, FlightsOK
  <1>5. GroupOK'
    BY DEF CacheInv, GroupOK, Flight
  <1>6. BuildsOK'
    <2>1. build' = [x \in Builders |-> IF x = u THEN c ELSE build[x]]
      BY DEF CacheInv, BuildsOK
    <2> QED BY <2>1 DEF CacheInv, BuildsOK
  <1> QED BY <1>1, <1>2, <1>3, <1>4, <1>5, <1>6 DEF CacheInv

(* A builder that is done is in order. *)
LEMMA BuiltFine ==
  ASSUME BackendOK
  PROVE  BuildFine(Built, floor, epoch)
  <1>1. Built = [pc |-> "done", key |-> Nobody, epoch |-> 0, val |-> 0]
    BY DEF Built, IdleBuild
  <1>2. 0 \in 0..MaxEpoch /\ 0 \in Hashes /\ 0 <= epoch
    BY CacheAssumption DEF Hashes, BackendOK
  <1> QED BY <1>1, <1>2 DEF BuildFine, BuildStates

(* Store, StoreVersioned, LoadEpoch, the build and StoreIfEpoch *)
LEMMA BuildSteps ==
  ASSUME CacheInv, NEW u \in Builders,
         \/ \E k \in Keys, v \in Versions, h \in Hashes : Store(u, k, v, h)
         \/ \E k \in Keys : LoadEpoch(u, k)
         \/ BuildValue(u)
         \/ StoreBuilt(u)
  PROVE  CacheInv'
  <1>0. /\ BackendOK /\ StoreOK /\ epoch \in 0..MaxEpoch /\ epoch \in Nat
        /\ BuildFine(build[u], floor, epoch) /\ build[u] \in BuildStates
    BY CacheAssumption DEF CacheInv, BackendOK, BuildsOK, BuildFine
  <1>1. ASSUME NEW k \in Keys, NEW v \in Versions, NEW h \in Hashes, Store(u, k, v, h)
        PROVE  CacheInv'
    <2>1. PICK e : e = [val |-> v, hash |-> h, guarded |-> FALSE]
      BY Zenon
    <2>2. e \in Entries
      <3>1. v \in 1..Len(Weight) /\ h \in Nat
        BY CacheAssumption, StoreAssumption DEF Versions, Hashes
      <3> QED BY <2>1, <3>1 DEF Entries
    <2>3. MayEnter(e, k)
      BY <2>1, <2>2 DEF MayEnter
    <2>4. /\ row' = row /\ floor' = floor /\ epoch' = epoch /\ call' = call /\ sf' = sf
          /\ batch' = batch /\ flights' = flights
          /\ build' = [build EXCEPT ![u] = Built] /\ cache' = StoreLocked(cache, k, e)
      BY <1>1, <2>1 DEF Store, backend, Entry
    <2>5. StoreOK'
      BY <1>0, <2>3, <2>4, StoreStep
    <2> QED BY <1>0, <2>4, <2>5, BuildFrame, BuiltFine, Zenon
  <1>2. ASSUME NEW k \in Keys, LoadEpoch(u, k)
        PROVE  CacheInv'
    <2>1. PICK c : c = [pc |-> "load", key |-> k, epoch |-> epoch, val |-> 0]
      BY Zenon
    <2>2. BuildFine(c, floor, epoch)
      <3>1. 0 \in Hashes
        BY CacheAssumption DEF Hashes
      <3> QED BY <1>0, <2>1, <3>1 DEF BuildFine, BuildStates
    <2>3. /\ row' = row /\ floor' = floor /\ epoch' = epoch /\ call' = call /\ sf' = sf
          /\ batch' = batch /\ flights' = flights /\ cache' = cache
          /\ build' = [build EXCEPT ![u] = c]
      BY <1>2, <2>1 DEF LoadEpoch, backend
    <2>4. StoreOK'
      BY <1>0, <2>3, StoreStays
    <2> QED BY <2>2, <2>3, <2>4, BuildFrame, Zenon
  <1>3. ASSUME BuildValue(u)
        PROVE  CacheInv'
    <2>1. PICK c : c = [build[u] EXCEPT !.pc = "store", !.val = row[build[u].key]]
      OBVIOUS
    <2>2. build[u].pc = "load" /\ build[u].key \in Keys
      BY <1>0, <1>3 DEF BuildValue, BuildFine
    <2>3. /\ row[build[u].key] \in Versions /\ row[build[u].key] \in Hashes
          /\ row[build[u].key] >= floor[build[u].key]
      BY <1>0, <2>2, CacheAssumption DEF BackendOK, Versions, Hashes
    <2>4. c \in BuildStates
      BY <1>0, <2>1, <2>3, Zenon DEF BuildStates
    <2>5. /\ c.pc = "store" /\ c.key = build[u].key /\ c.epoch = build[u].epoch
          /\ c.val = row[build[u].key]
      BY <1>0, <2>1 DEF BuildStates
    <2>6. BuildFine(c, floor, epoch)
      BY <1>0, <2>2, <2>3, <2>4, <2>5 DEF BuildFine
    <2>7. /\ row' = row /\ floor' = floor /\ epoch' = epoch /\ call' = call /\ sf' = sf
          /\ batch' = batch /\ flights' = flights /\ cache' = cache
          /\ build' = [build EXCEPT ![u] = c]
      BY <1>3, <2>1, Zenon DEF BuildValue, backend
    <2>8. StoreOK'
      BY <1>0, <2>7, StoreStays
    <2> QED BY <2>6, <2>7, <2>8, BuildFrame, Zenon
  <1>4. ASSUME StoreBuilt(u)
        PROVE  CacheInv'
    <2>1. /\ row' = row /\ floor' = floor /\ epoch' = epoch /\ call' = call /\ sf' = sf
          /\ batch' = batch /\ flights' = flights /\ build' = [build EXCEPT ![u] = Built]
      BY <1>4 DEF StoreBuilt, backend
    <2>2. CASE epoch # build[u].epoch
      <3>1. StoreOK'
        BY <1>0, <1>4, <2>1, <2>2, StoreStays DEF StoreBuilt
      <3> QED BY <1>0, <2>1, <3>1, BuildFrame, BuiltFine, Zenon
    <2>3. CASE epoch = build[u].epoch
      <3>1. PICK e : e = [val |-> build[u].val, hash |-> 0, guarded |-> TRUE]
        BY Zenon
      <3>2. /\ build[u].key \in Keys /\ build[u].val \in Versions
            /\ build[u].val >= floor[build[u].key]
        BY <1>0, <1>4, <2>3, Zenon DEF StoreBuilt, BuildFine
      <3>3. build[u].val \in 1..Len(Weight) /\ build[u].val >= 0
        BY <3>2, CacheAssumption, StoreAssumption DEF Versions
      <3>4. MayEnter(e, build[u].key)
        BY <3>1, <3>2, <3>3 DEF MayEnter, Entries
      <3>5. cache' = StoreLocked(cache, build[u].key, e)
        BY <1>4, <2>3, <3>1 DEF StoreBuilt, Entry
      <3>6. StoreOK'
        BY <1>0, <2>1, <3>2, <3>4, <3>5, StoreStep, Zenon
      <3> QED BY <1>0, <2>1, <3>6, BuildFrame, BuiltFine, Zenon
    <2> QED BY <2>2, <2>3
  <1> QED BY <1>1, <1>2, <1>3, <1>4

-----------------------------------------------------------------------------
(* Callers of GetOrLoadBatch *)

(* Where a batch is *)
LEMMA BatchTypes ==
  ASSUME CacheInv, NEW b \in Batches
  PROVE  /\ BatchFine(batch[b], row, floor, epoch) /\ batch[b] \in BatchStates
         /\ BackendOK /\ StoreOK /\ epoch \in 0..MaxEpoch /\ epoch \in Nat
  <1>1. BatchFine(batch[b], row, floor, epoch) /\ batch[b] \in BatchStates
    BY DEF CacheInv, BatchesOK, BatchFine
  <1>2. epoch \in 0..MaxEpoch /\ epoch \in Nat
    BY CacheAssumption DEF CacheInv, BackendOK
  <1> QED BY <1>1, <1>2 DEF CacheInv

(* What a step of a batch leaves alone stays in order. *)
LEMMA BatchFrame ==
  ASSUME CacheInv, row' = row, floor' = floor, epoch' = epoch, call' = call, sf' = sf,
         build' = build, StoreOK', BatchesOK', FlightsOK'
  PROVE  CacheInv'
  <1>1. BackendOK'
    BY DEF CacheInv, BackendOK
  <1>2. CallsOK'
    BY DEF CacheInv, CallsOK
  <1>3. BuildsOK'
    BY DEF CacheInv, BuildsOK
  <1>4. GroupOK'
    BY DEF CacheInv, GroupOK, Flight
  <1> QED BY <1>1, <1>2, <1>3, <1>4 DEF CacheInv

(* One batch takes a step and is in order after it, by itself and with the
   others. *)
LEMMA OneBatch ==
  ASSUME BatchesOK, NEW b \in Batches, NEW c, batch' = [batch EXCEPT ![b] = c],
         row' = row, floor' = floor, epoch' = epoch, BatchFine(c, row, floor, epoch),
         Shares(c, c),
         \A a \in Batches : Shares(batch[a], c) /\ Shares(c, batch[a])
  PROVE  BatchesOK'
  <1>1. batch' = [x \in Batches |-> IF x = b THEN c ELSE batch[x]]
    BY DEF BatchesOK
  <1>2. \A x \in Batches : batch'[x] = IF x = b THEN c ELSE batch[x]
    BY <1>1
  <1>3. \A x, y \in Batches : Shares(batch'[x], batch'[y])
    BY <1>2 DEF BatchesOK
  <1> QED BY <1>1, <1>2, <1>3 DEF BatchesOK

(* A batch that has completed nothing shares nothing; it is owed as much as
   before if it asks for the same under the same epoch, and it is owed no more
   than what is published when it begins a pass. *)
LEMMA SharesNothing ==
  ASSUME CacheInv, NEW b \in Batches, NEW c, c.pc # "complete",
         \/ c.pc \notin Passing
         \/ batch[b].pc \in Passing /\ c.epoch = batch[b].epoch /\ c.base = batch[b].base
         \/ c.epoch = epoch /\ c.base = batch[b].base
  PROVE  /\ Shares(c, c)
         /\ \A a \in Batches : Shares(batch[a], c) /\ Shares(c, batch[a])
  <1>1. ASSUME NEW a \in Batches
        PROVE  Shares(c, batch[a])
    <2>1. CASE c.pc \notin Passing
      BY <2>1 DEF Shares
    <2>2. CASE batch[b].pc \in Passing /\ c.epoch = batch[b].epoch /\ c.base = batch[b].base
      <3>1. Shares(batch[b], batch[a])
        BY DEF CacheInv, BatchesOK
      <3> QED BY <2>2, <3>1 DEF Shares
    <2>3. CASE c.epoch = epoch /\ c.base = batch[b].base
      <3> SUFFICES ASSUME batch[a].pc = "complete", batch[a].verdict = "ok",
                          batch[a].epoch = epoch, NEW m \in batch[a].owned
                   PROVE  batch[a].loaded[m.key] >= batch[b].base[m.key]
        BY <2>3 DEF Shares
      <3>1. BatchFine(batch[a], row, floor, epoch) /\ batch[a] \in BatchStates
        BY BatchTypes
      <3>2. BatchFine(batch[b], row, floor, epoch) /\ batch[b] \in BatchStates
        BY BatchTypes
      <3>3. m.key \in Keys
        BY <3>1, Zenon DEF BatchStates, Misses
      <3>4. batch[a].loaded[m.key] \in Versions /\ batch[a].loaded[m.key] >= floor[m.key]
        BY <3>1 DEF BatchFine
      <3>5. batch[b].base[m.key] <= floor[m.key] /\ batch[b].base[m.key] \in Nat
        BY <3>2, <3>3, CacheAssumption DEF BatchFine, BatchStates, Hashes
      <3>6. floor[m.key] \in Nat /\ batch[a].loaded[m.key] \in Nat
        BY <3>3, <3>4, CacheAssumption DEF CacheInv, BackendOK, Versions
      <3> QED BY <3>4, <3>5, <3>6
    <2> QED BY <2>1, <2>2, <2>3
  <1> QED BY <1>1 DEF Shares

(* The flights of a batch that takes a step stay attended. *)
LEMMA FlightsStay ==
  ASSUME CacheInv, NEW b \in Batches, NEW c, batch' = [batch EXCEPT ![b] = c],
         flights' = flights,
         \/ batch[b].pc \notin Owning
         \/ c.pc \in Owning /\ c.owned = batch[b].owned /\ c.epoch = batch[b].epoch,
         \/ c.waits = {}
         \/ c.waits = batch[b].waits /\ c.epoch = batch[b].epoch
  PROVE  FlightsOK'
  <1>1. batch' = [x \in Batches |-> IF x = b THEN c ELSE batch[x]]
    BY DEF CacheInv, BatchesOK
  <1>2. \A x \in Batches : batch'[x] = IF x = b THEN c ELSE batch[x]
    BY <1>1
  <1>3. flights' \subseteq Flights
    BY DEF CacheInv, FlightsOK
  <1>4. ASSUME NEW f \in flights
        PROVE  /\ batch'[f.owner].pc \in Owning
               /\ \E m \in batch'[f.owner].owned : f.id = FlightKey(m, batch'[f.owner].epoch)
    <2>1. f.owner \in Batches
      BY <1>3 DEF Flights
    <2>2. /\ batch[f.owner].pc \in Owning
          /\ \E m \in batch[f.owner].owned : f.id = FlightKey(m, batch[f.owner].epoch)
      BY DEF CacheInv, FlightsOK
    <2> QED BY <1>2, <2>1, <2>2
  <1>5. ASSUME NEW a \in Batches, NEW w \in batch'[a].waits
        PROVE  [id |-> FlightKey(w.miss, batch'[a].epoch), owner |-> w.owner] \in flights
    <2>1. w \in batch[a].waits /\ batch'[a].epoch = batch[a].epoch
      BY <1>2, <1>5
    <2> QED BY <2>1 DEF CacheInv, FlightsOK
  <1> QED BY <1>3, <1>4, <1>5, Zenon DEF FlightsOK, FlightKey

(* A batch with no misses yet *)
BatchAt(p, S, base, e, T, out) ==
  [pc |-> p, keys |-> S, base |-> base, epoch |-> e, rest |-> T,
   missing |-> {}, owned |-> {}, waits |-> {}, heard |-> {},
   loaded |-> [k \in Keys |-> 0], verdict |-> "ok", out |-> out]

(* What a batch has gathered when it begins. *)
Zeros == [k \in Keys |-> 0]
NoAnswers == [k \in Keys |-> NoAnswer]

(* The states that the actions write *)
LEMMA IdleBatchForms ==
  ASSUME NEW S, NEW base, NEW e, NEW out
  PROVE  /\ [IdleBatch EXCEPT !.pc = "pass", !.keys = S, !.base = base]
              = BatchAt("pass", S, base, 0, {}, NoAnswers)
         /\ [IdleBatch EXCEPT !.pc = "lookup", !.keys = S, !.base = base, !.epoch = e, !.rest = S]
              = BatchAt("lookup", S, base, e, S, NoAnswers)
         /\ [IdleBatch EXCEPT !.pc = "done", !.keys = S, !.out = out]
              = BatchAt("done", S, Zeros, 0, {}, out)
         /\ [IdleBatch EXCEPT !.pc = "failed"] = BatchAt("failed", {}, Zeros, 0, {}, NoAnswers)
  <1>4. [IdleBatch EXCEPT !.pc = "pass", !.keys = S, !.base = base]
          = BatchAt("pass", S, base, 0, {}, NoAnswers)
    <2>1. PICK c : c = [IdleBatch EXCEPT !.pc = "pass", !.keys = S, !.base = base]
      OBVIOUS
    <2>2. c = BatchAt("pass", S, base, 0, {}, NoAnswers)
      BY <2>1, Zenon DEF IdleBatch, BatchAt, Zeros, NoAnswers
    <2> QED BY <2>1, <2>2
  <1>5. [IdleBatch EXCEPT !.pc = "lookup", !.keys = S, !.base = base, !.epoch = e, !.rest = S]
          = BatchAt("lookup", S, base, e, S, NoAnswers)
    <2>1. PICK c : c = [IdleBatch EXCEPT !.pc = "lookup", !.keys = S, !.base = base, !.epoch = e, !.rest = S]
      OBVIOUS
    <2>2. c = BatchAt("lookup", S, base, e, S, NoAnswers)
      BY <2>1, Zenon DEF IdleBatch, BatchAt, Zeros, NoAnswers
    <2> QED BY <2>1, <2>2
  <1>6. [IdleBatch EXCEPT !.pc = "done", !.keys = S, !.out = out]
          = BatchAt("done", S, Zeros, 0, {}, out)
    <2>1. PICK c : c = [IdleBatch EXCEPT !.pc = "done", !.keys = S, !.out = out]
      OBVIOUS
    <2>2. c = BatchAt("done", S, Zeros, 0, {}, out)
      BY <2>1, Zenon DEF IdleBatch, BatchAt, Zeros, NoAnswers
    <2> QED BY <2>1, <2>2
  <1>7. [IdleBatch EXCEPT !.pc = "failed"]
          = BatchAt("failed", {}, Zeros, 0, {}, NoAnswers)
    <2>1. PICK c : c = [IdleBatch EXCEPT !.pc = "failed"]
      BY Zenon
    <2>2. c = BatchAt("failed", {}, Zeros, 0, {}, NoAnswers)
      BY <2>1 DEF IdleBatch, BatchAt, Zeros, NoAnswers
    <2> QED BY <2>1, <2>2
  <1> QED BY <1>4, <1>5, <1>6, <1>7

(* A batch that owns no flight begins, begins a pass, or goes. *)
LEMMA FreshStep ==
  ASSUME CacheInv, NEW b \in Batches, batch[b].pc \notin Owning,
         NEW p \in {"pass", "lookup", "done", "failed"}, NEW S \in SUBSET Keys,
         NEW base \in [Keys -> Hashes], \A k \in Keys : base[k] <= floor[k],
         NEW e \in {0, epoch}, NEW T \in SUBSET Keys,
         NEW out \in [Keys -> Answers], \A k \in Keys : out[k].val >= out[k].need,
         p = "lookup" => e = epoch /\ base = batch[b].base,
         batch' = [batch EXCEPT ![b] = BatchAt(p, S, base, e, T, out)],
         row' = row, floor' = floor, epoch' = epoch, cache' = cache, call' = call,
         sf' = sf, flights' = flights, build' = build
  PROVE  CacheInv'
  <1>1. PICK c : c = BatchAt(p, S, base, e, T, out)
    BY Zenon
  <1>2. batch' = [batch EXCEPT ![b] = c]
    BY <1>1
  <1>3. BackendOK /\ StoreOK /\ BatchesOK
    BY DEF CacheInv
  <1>4. /\ BatchFine(c, row, floor, epoch)
        /\ c.pc = p /\ c.base = base /\ c.epoch = e /\ c.waits = {}
    <2>1. c = [pc |-> p, keys |-> S, base |-> base, epoch |-> e, rest |-> T,
               missing |-> {}, owned |-> {}, waits |-> {}, heard |-> {},
               loaded |-> [k \in Keys |-> 0], verdict |-> "ok", out |-> out]
      BY <1>1, Zenon DEF BatchAt
    <2>2. /\ S \in SUBSET Keys /\ base \in [Keys -> Hashes] /\ e \in 0..MaxEpoch
          /\ e <= epoch /\ T \in SUBSET Keys /\ out \in [Keys -> Answers]
          /\ [k \in Keys |-> 0] \in [Keys -> Hashes]
          /\ p \in Passing \cup {"idle", "pass", "done", "failed"}
      BY <1>3, CacheAssumption DEF BackendOK, Hashes, Passing
    <2>3. c \in BatchStates
      BY ONLY <2>1, <2>2, Zenon DEF BatchStates
    <2>4. /\ c.pc = p /\ c.base = base /\ c.epoch = e /\ c.waits = {} /\ c.missing = {}
          /\ c.owned = {} /\ c.out = out
      BY ONLY <2>1, ZenonT(30)
    <2>5. BatchFine(c, row, floor, epoch)
      BY <2>2, <2>3, <2>4 DEF BatchFine
    <2> QED BY <2>4, <2>5
  <1>5. /\ Shares(c, c)
        /\ \A a \in Batches : Shares(batch[a], c) /\ Shares(c, batch[a])
    <2>1. c.pc # "complete" /\ (c.pc \in Passing => c.epoch = epoch /\ c.base = batch[b].base)
      BY <1>4, Zenon DEF Passing
    <2> QED BY <2>1, SharesNothing
  <1>6. BatchesOK'
    BY <1>2, <1>3, <1>4, <1>5, OneBatch, Zenon
  <1>7. FlightsOK'
    BY <1>2, <1>4, FlightsStay, Zenon
  <1>8. StoreOK'
    BY <1>3, StoreStays
  <1> QED BY <1>6, <1>7, <1>8, BatchFrame

(* The fields of a batch that has no pass under way *)
LEMMA IdleFields ==
  ASSUME BackendOK
  PROVE  /\ Zeros \in [Keys -> Hashes] /\ \A k \in Keys : Zeros[k] <= floor[k]
         /\ NoAnswers \in [Keys -> Answers]
         /\ \A k \in Keys : NoAnswers[k].val >= NoAnswers[k].need
  <1>1. NoAnswer = [val |-> 0, need |-> 0] /\ NoAnswer \in Answers
    BY DEF NoAnswer, Answer, Answers
  <1>2. NoAnswer.val >= NoAnswer.need
    BY <1>1
  <1>3. \A k \in Keys : Zeros[k] <= floor[k]
    BY CacheAssumption DEF BackendOK, Versions, Zeros
  <1>4. Zeros \in [Keys -> Hashes]
    BY CacheAssumption DEF Hashes, Zeros
  <1> QED BY <1>1, <1>2, <1>3, <1>4 DEF NoAnswers

(* GetOrLoadBatch begins, and begins a pass. *)
LEMMA BatchBegins ==
  ASSUME CacheInv, NEW b \in Batches,
         (\E S \in SUBSET Keys \ {{}} : GetOrLoadBatch(b, S)) \/ BatchPass(b)
  PROVE  CacheInv'
  <1>0. /\ BatchFine(batch[b], row, floor, epoch) /\ batch[b] \in BatchStates /\ BackendOK
    BY BatchTypes
  <1>1. /\ NoAnswers \in [Keys -> Answers]
        /\ \A k \in Keys : NoAnswers[k].val >= NoAnswers[k].need
    BY <1>0, IdleFields
  <1>2. ASSUME NEW S \in SUBSET Keys, GetOrLoadBatch(b, S)
        PROVE  CacheInv'
    <2>1. batch' = [batch EXCEPT ![b] = BatchAt("pass", S, floor, 0, {}, NoAnswers)]
      BY <1>2, IdleBatchForms, Zenon DEF GetOrLoadBatch
    <2>2. floor \in [Keys -> Hashes] /\ \A k \in Keys : floor[k] <= floor[k]
      BY <1>0, CacheAssumption DEF BackendOK, Versions, Hashes
    <2>3. batch[b].pc \notin Owning
      BY <1>2, Zenon DEF GetOrLoadBatch, Owning
    <2>4. /\ row' = row /\ floor' = floor /\ epoch' = epoch /\ cache' = cache /\ call' = call
          /\ sf' = sf /\ flights' = flights /\ build' = build
      BY <1>2, Zenon DEF GetOrLoadBatch, backend
    <2> QED BY <1>1, <2>1, <2>2, <2>3, <2>4, FreshStep, ZenonT(30)
  <1>3. ASSUME BatchPass(b)
        PROVE  CacheInv'
    <2>1. PICK S, base : S = batch[b].keys /\ base = batch[b].base
      OBVIOUS
    <2>2. batch' = [batch EXCEPT ![b] = BatchAt("lookup", S, base, epoch, S, NoAnswers)]
      <3>1. batch' = [batch EXCEPT ![b] = [IdleBatch EXCEPT
              !.pc = "lookup", !.keys = S, !.base = base, !.epoch = epoch, !.rest = S]]
        BY <1>3, <2>1 DEF BatchPass
      <3>2. [IdleBatch EXCEPT !.pc = "lookup", !.keys = S, !.base = base, !.epoch = epoch, !.rest = S]
              = BatchAt("lookup", S, base, epoch, S, NoAnswers)
        BY IdleBatchForms, ZenonT(30)
      <3> QED BY <3>1, <3>2, Zenon
    <2>3. /\ S \in SUBSET Keys /\ base \in [Keys -> Hashes] /\ \A k \in Keys : base[k] <= floor[k]
      BY <1>0, <2>1, Zenon DEF BatchStates, BatchFine
    <2>4. batch[b].pc \notin Owning
      BY <1>3 DEF BatchPass, Owning
    <2>5. /\ row' = row /\ floor' = floor /\ epoch' = epoch /\ cache' = cache /\ call' = call
          /\ sf' = sf /\ flights' = flights /\ build' = build
      BY <1>3 DEF BatchPass, backend
    <2> QED BY <1>1, <2>1, <2>2, <2>3, <2>4, <2>5, FreshStep, ZenonT(30)
  <1> QED BY <1>2, <1>3

(* GetOrLoadBatch returns, goes round again or is cancelled. *)
LEMMA BatchEnds ==
  ASSUME CacheInv, NEW b \in Batches, BatchAllHit(b) \/ BatchCollect(b) \/ BatchCancelled(b)
  PROVE  CacheInv'
  <1>0. /\ BatchFine(batch[b], row, floor, epoch) /\ batch[b] \in BatchStates /\ BackendOK
    BY BatchTypes
  <1>1. /\ Zeros \in [Keys -> Hashes] /\ \A k \in Keys : Zeros[k] <= floor[k]
        /\ NoAnswers \in [Keys -> Answers]
        /\ \A k \in Keys : NoAnswers[k].val >= NoAnswers[k].need
    BY <1>0, IdleFields
  <1>2. batch[b].pc \notin Owning
    BY DEF BatchAllHit, BatchCollect, BatchCancelled, Owning
  <1>3. /\ row' = row /\ floor' = floor /\ epoch' = epoch /\ cache' = cache /\ call' = call
        /\ sf' = sf /\ flights' = flights /\ build' = build
    BY DEF BatchAllHit, BatchCollect, BatchCancelled, backend
  <1>4. PICK S, base, out : S = batch[b].keys /\ base = batch[b].base /\ out = batch[b].out
    OBVIOUS
  <1>5. /\ S \in SUBSET Keys /\ base \in [Keys -> Hashes] /\ \A k \in Keys : base[k] <= floor[k]
        /\ out \in [Keys -> Answers] /\ \A k \in Keys : out[k].val >= out[k].need
    BY <1>0, <1>4, Zenon DEF BatchStates, BatchFine
  <1>6. CASE batch' = [batch EXCEPT ![b] = BatchAt("failed", {}, Zeros, 0, {}, NoAnswers)]
    BY <1>1, <1>2, <1>3, <1>6, FreshStep, Zenon
  <1>7. CASE batch' = [batch EXCEPT ![b] = BatchAt("done", S, Zeros, 0, {}, out)]
    BY <1>1, <1>2, <1>3, <1>5, <1>7, FreshStep, ZenonT(30)
  <1>8. CASE batch' = [batch EXCEPT ![b] = BatchAt("pass", S, base, 0, {}, NoAnswers)]
    BY <1>1, <1>2, <1>3, <1>5, <1>8, FreshStep, ZenonT(30)
  <1>9. \/ batch' = [batch EXCEPT ![b] = [IdleBatch EXCEPT !.pc = "failed"]]
        \/ batch' = [batch EXCEPT ![b] =
             [IdleBatch EXCEPT !.pc = "done", !.keys = S, !.out = out]]
        \/ batch' = [batch EXCEPT ![b] =
             [IdleBatch EXCEPT !.pc = "pass", !.keys = S, !.base = base]]
    BY <1>4 DEF BatchAllHit, BatchCollect, BatchCancelled
  <1> QED BY <1>6, <1>7, <1>8, <1>9, IdleBatchForms, ZenonT(30)

(* A batch that has completed nothing takes a step within its pass. *)
LEMMA PassStep ==
  ASSUME CacheInv, NEW b \in Batches, NEW c, batch' = [batch EXCEPT ![b] = c],
         BatchFine(c, row, floor, epoch), batch[b].pc \in Passing, c.pc # "complete",
         c.epoch = batch[b].epoch, c.base = batch[b].base, FlightsOK', StoreOK',
         row' = row, floor' = floor, epoch' = epoch, call' = call, sf' = sf, build' = build
  PROVE  CacheInv'
  <1>1. /\ Shares(c, c)
        /\ \A a \in Batches : Shares(batch[a], c) /\ Shares(c, batch[a])
    BY SharesNothing
  <1>2. BatchesOK
    BY DEF CacheInv
  <1>3. BatchesOK'
    BY <1>1, <1>2, OneBatch, Zenon
  <1> QED BY <1>3, BatchFrame

(* A lookup of a batch *)
LEMMA BatchLookupStep ==
  ASSUME CacheInv, NEW b \in Batches, NEW k \in Keys, NEW h \in Hashes,
         NEW cacheable \in BOOLEAN, BatchLookup(b, k, h, cacheable)
  PROVE  CacheInv'
  <1>0. /\ BatchFine(batch[b], row, floor, epoch) /\ batch[b] \in BatchStates
        /\ BackendOK /\ StoreOK
    BY BatchTypes
  <1>1. /\ row' = row /\ floor' = floor /\ epoch' = epoch /\ call' = call
        /\ sf' = sf /\ flights' = flights /\ build' = build
    BY DEF BatchLookup, backend
  <1>2. batch[b].pc = "lookup" /\ batch[b].pc \notin Owning /\ batch[b].pc \in Passing
    BY DEF BatchLookup, Owning, Passing
  <1>3. h <= row[k]
    BY <1>0, CacheAssumption DEF BatchLookup, BackendOK, Versions, Hashes
  <1>4. StoreOK'
    <2>1. CASE LookupHit(k, h) \/ LookupMiss(k, h)
      BY <1>0, <1>1, <2>1, LookupStep
    <2>2. CASE cache' = cache
      BY <1>0, <1>1, <2>2, StoreStays
    <2> QED BY <2>1, <2>2 DEF BatchLookup
  <1>5. PICK c : /\ batch' = [batch EXCEPT ![b] = c] /\ BatchFine(c, row, floor, epoch)
                 /\ c.pc = "lookup" /\ c.epoch = batch[b].epoch /\ c.base = batch[b].base
                 /\ c.waits = batch[b].waits
    <2>0. PICK R : R = batch[b].rest \ {k}
      BY Zenon
    <2>1. R \in SUBSET Keys
      BY <1>0, <2>0 DEF BatchStates
    <2>2. CASE /\ LookupHit(k, h)
               /\ batch' = [batch EXCEPT ![b].rest = @ \ {k}, ![b].out[k] = HitAnswer(k, h)]
      <3>1. PICK a : a = HitAnswer(k, h)
        OBVIOUS
      <3>2. a \in Answers /\ a.val >= a.need
        BY <1>0, <2>2, <3>1, HitFresh DEF LookupHit
      <3>3. PICK o : o = [batch[b].out EXCEPT ![k] = a]
        BY Zenon
      <3>4. o \in [Keys -> Answers] /\ \A j \in Keys : o[j].val >= o[j].need
        BY <1>0, <3>2, <3>3, Zenon DEF BatchStates, BatchFine
      <3>5. PICK c : c = [batch[b] EXCEPT !.rest = R, !.out = o]
        OBVIOUS
      <3>6. batch' = [batch EXCEPT ![b] = c]
        BY <2>0, <2>2, <3>1, <3>3, <3>5, Zenon
      <3>7. c \in BatchStates
        BY <1>0, <2>1, <3>4, <3>5, Zenon DEF BatchStates
      <3>8. /\ c.pc = batch[b].pc /\ c.epoch = batch[b].epoch /\ c.base = batch[b].base
            /\ c.waits = batch[b].waits /\ c.owned = batch[b].owned
            /\ c.missing = batch[b].missing /\ c.out = o
        BY <1>0, <3>5 DEF BatchStates
      <3>9. BatchFine(c, row, floor, epoch)
        BY <1>0, <1>2, <3>4, <3>7, <3>8, Zenon DEF BatchFine
      <3> QED BY <1>2, <3>6, <3>8, <3>9, Zenon
    <2>3. CASE batch' = [batch EXCEPT ![b].rest = @ \ {k}, ![b].missing = @ \cup
                           {[key |-> k, hash |-> h, cacheable |-> cacheable]}]
      <3>1. PICK m : m = [key |-> k, hash |-> h, cacheable |-> cacheable]
        BY Zenon
      <3>2. m \in Misses /\ m.hash <= row[m.key]
        BY <1>3, <3>1 DEF Misses
      <3>3. PICK M : M = batch[b].missing \cup {m}
        BY Zenon
      <3>4. M \in SUBSET Misses
        BY <1>0, <3>2, <3>3, Zenon DEF BatchStates
      <3>5. PICK c : c = [batch[b] EXCEPT !.rest = R, !.missing = M]
        OBVIOUS
      <3>6. batch' = [batch EXCEPT ![b] = c]
        BY <2>0, <2>3, <3>1, <3>3, <3>5, Zenon
      <3>7. c \in BatchStates
        BY <1>0, <2>1, <3>4, <3>5, Zenon DEF BatchStates
      <3>8. /\ c.pc = batch[b].pc /\ c.epoch = batch[b].epoch /\ c.base = batch[b].base
            /\ c.waits = batch[b].waits /\ c.owned = batch[b].owned
            /\ c.missing = M /\ c.out = batch[b].out
        BY <1>0, <3>5 DEF BatchStates
      <3>9. \A x \in M \cup batch[b].owned : x.hash <= row[x.key]
        BY <1>0, <3>2, <3>3 DEF BatchFine
      <3>10. BatchFine(c, row, floor, epoch)
        BY <1>0, <1>2, <3>7, <3>8, <3>9, ZenonT(30) DEF BatchFine
      <3> QED BY <1>2, <3>6, <3>8, <3>10, Zenon
    <2> QED BY <2>2, <2>3 DEF BatchLookup
  <1>6. FlightsOK'
    BY <1>1, <1>2, <1>5, FlightsStay, Zenon
  <1>7. c.pc # "complete"
    BY <1>5
  <1> QED BY <1>1, <1>2, <1>4, <1>5, <1>6, <1>7, PassStep, ZenonT(30)

(* loadMissing: what it returns is as new as everything published so far. *)
LEMMA BatchLoadStep ==
  ASSUME CacheInv, NEW b \in Batches, BatchLoad(b)
  PROVE  CacheInv'
  <1>0. /\ BatchFine(batch[b], row, floor, epoch) /\ batch[b] \in BatchStates
        /\ BackendOK /\ StoreOK
    BY BatchTypes
  <1>1. /\ row' = row /\ floor' = floor /\ epoch' = epoch /\ call' = call /\ cache' = cache
        /\ sf' = sf /\ flights' = flights /\ build' = build
    BY DEF BatchLoad, backend
  <1>2. batch[b].pc = "load" /\ batch[b].pc \in Passing
    BY DEF BatchLoad, Passing
  <1>3. PICK v : v = [k \in Keys |-> IF \E m \in batch[b].owned : m.key = k THEN row[k] ELSE 0]
    BY Zenon
  <1>4. v \in [Keys -> Hashes]
    BY <1>0, <1>3, CacheAssumption DEF BackendOK, Versions, Hashes
  <1>5. PICK c : c = [batch[b] EXCEPT !.pc = "store", !.loaded = v]
    OBVIOUS
  <1>6. batch' = [batch EXCEPT ![b] = c]
    BY <1>3, <1>5, Zenon DEF BatchLoad
  <1>7. c \in BatchStates
    BY <1>0, <1>4, <1>5, Zenon DEF BatchStates, Passing
  <1>8. /\ c.pc = "store" /\ c.epoch = batch[b].epoch /\ c.base = batch[b].base
        /\ c.waits = batch[b].waits /\ c.owned = batch[b].owned
        /\ c.missing = batch[b].missing /\ c.out = batch[b].out /\ c.loaded = v
    BY <1>0, <1>5 DEF BatchStates
  <1>9. ASSUME NEW m \in batch[b].owned
        PROVE  v[m.key] \in Versions /\ v[m.key] >= m.hash /\ v[m.key] >= floor[m.key]
    <2>1. m.key \in Keys /\ m.hash <= row[m.key]
      BY <1>0, Zenon DEF BatchStates, Misses, BatchFine
    <2>2. v[m.key] = row[m.key]
      BY <1>3, <2>1
    <2> QED BY <1>0, <2>1, <2>2 DEF BackendOK
  <1>10. BatchFine(c, row, floor, epoch)
    BY <1>0, <1>2, <1>7, <1>8, <1>9, Zenon DEF BatchFine, Passing
  <1>11. FlightsOK'
    BY <1>1, <1>6, <1>8, FlightsStay, Zenon DEF Owning
  <1>12. StoreOK'
    BY <1>0, <1>1, StoreStays
  <1>13. c.pc # "complete"
    BY <1>8
  <1> QED BY <1>1, <1>2, <1>6, <1>8, <1>10, <1>11, <1>12, <1>13, PassStep, ZenonT(30)

(* A failed load has no value to share. *)
LEMMA BatchLoadFailsStep ==
  ASSUME CacheInv, NEW b \in Batches, BatchLoadFails(b)
  PROVE  CacheInv'
  <1>0. /\ BatchFine(batch[b], row, floor, epoch) /\ batch[b] \in BatchStates
        /\ BackendOK /\ StoreOK
    BY BatchTypes
  <1>1. /\ row' = row /\ floor' = floor /\ epoch' = epoch /\ call' = call /\ cache' = cache
        /\ sf' = sf /\ flights' = flights /\ build' = build
    BY DEF BatchLoadFails, backend
  <1>2. batch[b].pc = "load" /\ batch[b].pc \in Passing
    BY DEF BatchLoadFails, Passing
  <1>3. PICK c : c = [batch[b] EXCEPT !.pc = "complete", !.verdict = "error"]
    OBVIOUS
  <1>4. batch' = [batch EXCEPT ![b] = c]
    BY <1>3, Zenon DEF BatchLoadFails
  <1>5. c \in BatchStates
    BY <1>0, <1>3, Zenon DEF BatchStates, Passing
  <1>6. /\ c.pc = "complete" /\ c.epoch = batch[b].epoch /\ c.base = batch[b].base
        /\ c.waits = batch[b].waits /\ c.owned = batch[b].owned
        /\ c.missing = batch[b].missing /\ c.out = batch[b].out /\ c.verdict = "error"
    BY <1>0, <1>3 DEF BatchStates
  <1>7. BatchFine(c, row, floor, epoch)
    BY <1>0, <1>2, <1>5, <1>6 DEF BatchFine, Passing
  <1>8. /\ Shares(c, c)
        /\ \A a \in Batches : Shares(batch[a], c) /\ Shares(c, batch[a])
    <2>1. \A a \in Batches : Shares(batch[b], batch[a])
      BY DEF CacheInv, BatchesOK
    <2> QED BY <1>2, <1>6, <2>1 DEF Shares
  <1>9. BatchesOK'
    BY <1>1, <1>4, <1>7, <1>8, OneBatch, ZenonT(30) DEF CacheInv
  <1>10. FlightsOK'
    BY <1>1, <1>4, <1>6, FlightsStay, ZenonT(30) DEF Owning
  <1>11. StoreOK'
    BY <1>0, <1>1, StoreStays
  <1> QED BY <1>1, <1>9, <1>10, <1>11, BatchFrame

(* There are finitely many misses. *)
LEMMA FiniteMisses == IsFiniteSet(Misses)
  <1>1. IsFiniteSet(Keys) /\ IsFiniteSet(Hashes) /\ IsFiniteSet(BOOLEAN)
    <2>1. IsFiniteSet(Hashes)
      BY CacheAssumption, FS_Interval DEF Hashes
    <2>2. IsFiniteSet(BOOLEAN)
      <3>1. IsFiniteSet({TRUE})
        BY FS_Singleton, Zenon
      <3>2. IsFiniteSet({TRUE} \cup {FALSE})
        BY <3>1, FS_AddElement, Zenon
      <3>3. BOOLEAN = {TRUE} \cup {FALSE}
        BY Zenon
      <3> QED BY <3>2, <3>3, Zenon
    <2> QED BY <2>1, <2>2, StoreAssumption
  <1>2. IsFiniteSet(Hashes \X BOOLEAN)
    BY <1>1, FS_Product
  <1>3. IsFiniteSet(Keys \X (Hashes \X BOOLEAN))
    BY <1>1, <1>2, FS_Product
  <1> DEFINE P == Keys \X (Hashes \X BOOLEAN)
             f == [x \in P |-> [key |-> x[1], hash |-> x[2][1], cacheable |-> x[2][2]]]
  <1>4. f \in Surjection(P, Misses)
    <2>1. f \in [P -> Misses]
      BY DEF Misses
    <2>2. ASSUME NEW m \in Misses
          PROVE  \E x \in P : f[x] = m
      <3>1. <<m.key, <<m.hash, m.cacheable>>>> \in P
        BY DEF Misses
      <3>2. f[<<m.key, <<m.hash, m.cacheable>>>> ] = m
        BY <3>1 DEF Misses
      <3> QED BY <3>1, <3>2
    <2> QED BY <2>1, <2>2 DEF Surjection
  <1> QED BY <1>3, <1>4, FS_Surjection

(* storeBatchIfEpoch *)
LEMMA StoreBatchStep ==
  ASSUME CacheInv, NEW b \in Batches, StoreBatchIfEpoch(b)
  PROVE  CacheInv'
  <1>0. /\ BatchFine(batch[b], row, floor, epoch) /\ batch[b] \in BatchStates
        /\ BackendOK /\ StoreOK
    BY BatchTypes
  <1>1. /\ row' = row /\ floor' = floor /\ epoch' = epoch /\ call' = call
        /\ sf' = sf /\ flights' = flights /\ build' = build
    BY DEF StoreBatchIfEpoch, backend
  <1>2. batch[b].pc = "store" /\ batch[b].pc \in Passing
    BY DEF StoreBatchIfEpoch, Passing
  <1>3. \A m \in batch[b].owned :
          /\ m \in Misses
          /\ batch[b].loaded[m.key] \in Versions /\ batch[b].loaded[m.key] >= m.hash
          /\ epoch = batch[b].epoch => batch[b].loaded[m.key] >= floor[m.key]
    BY <1>0, <1>2, Zenon DEF BatchStates, BatchFine
  <1>4. StoreOK'
    <2>1. CASE epoch # batch[b].epoch
      BY <1>0, <1>1, <2>1, StoreStays DEF StoreBatchIfEpoch
    <2>2. CASE epoch = batch[b].epoch
      <3>1. PICK kept, v : kept = {m \in batch[b].owned : m.cacheable} /\ v = batch[b].loaded
        BY Zenon
      <3>2. PICK q \in Bijection(1..Cardinality(kept), kept) :
              cache' = (CHOOSE g : StoresTo(cache, q, v, Len(q), g))[Len(q)]
        BY <2>2, <3>1, Zenon DEF StoreBatchIfEpoch, StoresTo, StoreRound
      <3>3. Cardinality(kept) \in Nat
        <4>1. kept \subseteq Misses
          BY <1>3, <3>1, Zenon
        <4>2. IsFiniteSet(kept)
          BY <4>1, FiniteMisses, FS_Subset
        <4> QED BY <4>2, FS_CardinalityType
      <3>4. q \in Seq(kept)
        BY <3>3, SeqDef DEF Bijection, Injection
      <3>5. Len(q) \in Nat /\ \A i \in 1..Len(q) : q[i] \in batch[b].owned
        BY <3>1, <3>4
      <3>6. ASSUME NEW m \in batch[b].owned
            PROVE  m.key \in Keys /\ MayEnter(Entry(v[m.key], m.hash, TRUE), m.key)
        <4>1. PICK e : e = [val |-> v[m.key], hash |-> m.hash, guarded |-> TRUE]
          BY Zenon
        <4>2. m.key \in Keys /\ m.hash \in Nat
          BY <1>3, HashesNat DEF Misses
        <4>3. v[m.key] \in 1..Len(Weight) /\ v[m.key] >= m.hash /\ v[m.key] >= floor[m.key]
          BY <1>3, <2>2, <3>1, CacheAssumption, StoreAssumption DEF Versions
        <4>4. MayEnter(e, m.key)
          BY <4>1, <4>2, <4>3 DEF MayEnter, Entries
        <4> QED BY <4>1, <4>2, <4>4 DEF Entry
      <3>7. \A i \in 1..Len(q) : /\ q[i].key \in Keys
                                 /\ Entry(v[q[i].key], q[i].hash, TRUE) \in Entries
        BY <3>5, <3>6, Zenon DEF MayEnter
      <3>8. Agrees(cache') /\ ~Overflows(cache') /\ PutsAll(cache, q, v, cache')
        BY <1>0, <3>2, <3>5, <3>7, StoreBatchAgrees, ZenonT(30) DEF StoreOK
      <3>9. ASSUME NEW k \in Keys
            PROVE  \/ cache'.items[k] \in {cache.items[k], NoEntry}
                   \/ MayEnter(cache'.items[k], k)
        <4>1. CASE \E i \in 1..Len(q) : /\ q[i].key = k
                                        /\ cache'.items[k] = Entry(v[k], q[i].hash, TRUE)
          BY <3>5, <3>6, <4>1, Zenon
        <4> QED BY <3>8, <4>1, Zenon DEF PutsAll
      <3>10. EntriesFresh'
        BY <1>0, <1>1, <3>9, FreshAfter, Zenon DEF StoreOK
      <3> QED BY <3>8, <3>10 DEF StoreOK
    <2> QED BY <2>1, <2>2
  <1>5. PICK d : d = IF epoch = batch[b].epoch THEN "ok" ELSE "retry"
    OBVIOUS
  <1>6. PICK c : c = [batch[b] EXCEPT !.pc = "complete", !.verdict = d]
    OBVIOUS
  <1>7. batch' = [batch EXCEPT ![b] = c]
    BY <1>5, <1>6, Zenon DEF StoreBatchIfEpoch
  <1>8. c \in BatchStates
    BY <1>0, <1>5, <1>6, Zenon DEF BatchStates, Passing
  <1>9. /\ c.pc = "complete" /\ c.epoch = batch[b].epoch /\ c.base = batch[b].base
        /\ c.waits = batch[b].waits /\ c.owned = batch[b].owned /\ c.loaded = batch[b].loaded
        /\ c.missing = batch[b].missing /\ c.out = batch[b].out /\ c.verdict = d
    BY <1>0, <1>6 DEF BatchStates
  <1>10. BatchFine(c, row, floor, epoch)
    BY <1>0, <1>2, <1>8, <1>9, ZenonT(30) DEF BatchFine, Passing
  <1>11. ASSUME NEW a \in Batches, d = "ok", NEW m \in batch[b].owned
         PROVE  batch[b].loaded[m.key] >= batch[a].base[m.key]
    <2>1. epoch = batch[b].epoch
      BY <1>5, <1>11
    <2>2. m.key \in Keys /\ batch[b].loaded[m.key] \in Nat
      BY <1>3, CacheAssumption DEF Misses, Versions
    <2>3. batch[a].base[m.key] <= floor[m.key] /\ batch[a].base[m.key] \in Nat
      BY <2>2, BatchTypes, CacheAssumption DEF BatchFine, BatchStates, Hashes
    <2>4. floor[m.key] \in Nat /\ batch[b].loaded[m.key] >= floor[m.key]
      BY <1>0, <1>3, <2>1, <2>2, CacheAssumption DEF BackendOK, Versions
    <2> QED BY <2>2, <2>3, <2>4
  <1>12. /\ Shares(c, c)
         /\ \A a \in Batches : Shares(batch[a], c) /\ Shares(c, batch[a])
    <2>1. \A a \in Batches : Shares(batch[b], batch[a])
      BY DEF CacheInv, BatchesOK
    <2>2. \A a \in Batches : Shares(c, batch[a])
      BY <1>2, <1>9, <2>1 DEF Shares
    <2>3. \A a \in Batches : Shares(batch[a], c)
      BY <1>9, <1>11 DEF Shares
    <2>4. Shares(c, c)
      BY <1>9, <1>11 DEF Shares
    <2> QED BY <2>2, <2>3, <2>4
  <1>13. BatchesOK'
    BY <1>1, <1>7, <1>10, <1>12, OneBatch, Zenon DEF CacheInv
  <1>14. FlightsOK'
    BY <1>1, <1>2, <1>7, <1>9, FlightsStay, Zenon DEF Owning
  <1> QED BY <1>1, <1>4, <1>13, <1>14, BatchFrame

(* claimBatchFlights *)
LEMMA ClaimStep ==
  ASSUME CacheInv, NEW b \in Batches, ClaimBatchFlights(b)
  PROVE  CacheInv'
  <1>0. /\ BatchFine(batch[b], row, floor, epoch) /\ batch[b] \in BatchStates
        /\ BackendOK /\ StoreOK
    BY BatchTypes
  <1>1. /\ row' = row /\ floor' = floor /\ epoch' = epoch /\ call' = call /\ cache' = cache
        /\ sf' = sf /\ build' = build
    BY Zenon DEF ClaimBatchFlights, backend
  <1>2. batch[b].pc = "lookup" /\ batch[b].pc \in Passing /\ batch[b].pc \notin Owning
    BY Zenon DEF ClaimBatchFlights, Passing, Owning
  <1> DEFINE e == batch[b].epoch
             owner(m) == IF OwnerOf(m, e) = {} THEN b ELSE CHOOSE o \in OwnerOf(m, e) : TRUE
  <1>3. PICK F, W, p :
          /\ F = {m \in batch[b].missing : OwnerOf(m, e) = {}}
          /\ W = {[miss |-> m, owner |-> owner(m)] : m \in batch[b].missing}
          /\ p = IF F = {} THEN "collect" ELSE "load"
    BY Zenon
  <1>4. flights' = flights \cup {[id |-> FlightKey(m, e), owner |-> b] : m \in F}
    BY <1>3, Zenon DEF ClaimBatchFlights
  <1>5. PICK c : c = [batch[b] EXCEPT !.pc = p, !.owned = F, !.waits = W]
    OBVIOUS
  <1>6. batch' = [batch EXCEPT ![b] = c]
    <2>1. W = {[miss |-> m, owner |-> IF m \in F THEN b ELSE CHOOSE o \in OwnerOf(m, e) : TRUE]
                 : m \in batch[b].missing}
      BY <1>3
    <2> QED BY <1>3, <1>5, <2>1, ZenonT(30) DEF ClaimBatchFlights
  <1>7. ASSUME NEW m \in batch[b].missing
        PROVE  /\ m \in Misses /\ owner(m) \in Batches
               /\ [id |-> FlightKey(m, e), owner |-> owner(m)] \in flights'
    <2>1. m \in Misses
      BY <1>0 DEF BatchStates
    <2>2. CASE OwnerOf(m, e) = {}
      <3>1. m \in F /\ owner(m) = b
        BY <1>3, <2>2, Zenon
      <3> HIDE DEF owner
      <3>2. [id |-> FlightKey(m, e), owner |-> b] \in flights'
        BY <1>4, <3>1
      <3> QED BY <2>1, <3>1, <3>2
    <2>3. CASE OwnerOf(m, e) # {}
      <3>1. owner(m) \in OwnerOf(m, e)
        BY <2>3
      <3>2. PICK o : o = owner(m)
        OBVIOUS
      <3> HIDE DEF owner
      <3>3. o \in Batches /\ \E f \in flights : f.owner = o /\ f.id = FlightKey(m, e)
        BY <3>1, <3>2 DEF OwnerOf
      <3>4. PICK f \in flights : f.owner = o /\ f.id = FlightKey(m, e)
        BY <3>3
      <3>5. f = [id |-> f.id, owner |-> f.owner]
        BY DEF CacheInv, FlightsOK, Flights
      <3>6. [id |-> FlightKey(m, e), owner |-> o] \in flights
        BY <3>4, <3>5
      <3> QED BY <1>4, <2>1, <3>2, <3>3, <3>6
    <2> QED BY <2>2, <2>3, Zenon
  <1>8. F \in SUBSET Misses /\ F \subseteq batch[b].missing /\ W \in SUBSET Waits
    <2> HIDE DEF owner
    <2>1. ASSUME NEW x \in W
          PROVE  x \in Waits
      <3>1. PICK m \in batch[b].missing : x = [miss |-> m, owner |-> owner(m)]
        BY <1>3, Zenon
      <3>2. m \in Misses /\ owner(m) \in Batches
        BY <1>7, Zenon
      <3> QED BY <3>1, <3>2 DEF Waits
    <2> QED BY <1>3, <1>7, <2>1, ZenonT(30)
  <1> HIDE DEF owner
  <1>9. c \in BatchStates
    BY <1>0, <1>3, <1>5, <1>8, Zenon DEF BatchStates, Passing
  <1>10. /\ c.pc = p /\ c.epoch = batch[b].epoch /\ c.base = batch[b].base
         /\ c.waits = W /\ c.owned = F /\ c.missing = batch[b].missing /\ c.out = batch[b].out
    BY <1>0, <1>5 DEF BatchStates
  <1>11. p \in {"collect", "load"} /\ p \in Passing /\ (F # {} => p \in Owning)
    BY <1>3 DEF Passing, Owning
  <1>12. BatchFine(c, row, floor, epoch)
    BY <1>0, <1>8, <1>9, <1>10, <1>11, Zenon DEF BatchFine
  <1>13. FlightsOK'
    <2>1. batch' = [x \in Batches |-> IF x = b THEN c ELSE batch[x]]
      BY <1>6 DEF CacheInv, BatchesOK
    <2>2. \A x \in Batches : batch'[x] = IF x = b THEN c ELSE batch[x]
      BY <2>1
    <2>3. flights' \subseteq Flights
      <3>1. \A m \in F : [id |-> FlightKey(m, e), owner |-> b] \in Flights
        <4> TAKE m \in F
        <4>1. m.key \in Keys /\ m.hash \in Hashes /\ m.cacheable \in BOOLEAN /\ e \in 0..MaxEpoch
          BY <1>0, <1>8, Zenon DEF Misses, BatchStates
        <4>2. FlightKey(m, e) \in FlightIds
          BY <4>1 DEF FlightKey, FlightIds
        <4> QED BY <4>2 DEF Flights
      <3> QED BY <1>4, <3>1 DEF CacheInv, FlightsOK
    <2>4. ASSUME NEW f \in flights'
          PROVE  /\ batch'[f.owner].pc \in Owning
                 /\ \E m \in batch'[f.owner].owned : f.id = FlightKey(m, batch'[f.owner].epoch)
      <3>1. CASE f \in flights
        <4>1. f.owner \in Batches /\ batch[f.owner].pc \in Owning
          BY <2>3, <3>1 DEF CacheInv, FlightsOK, Flights
        <4>2. batch'[f.owner] = batch[f.owner]
          BY <1>2, <2>2, <4>1
        <4> QED BY <3>1, <4>2 DEF CacheInv, FlightsOK
      <3>2. CASE f \notin flights
        <4>1. PICK m \in F : f = [id |-> FlightKey(m, e), owner |-> b]
          BY <1>4, <3>2
        <4>2. f.owner = b /\ f.id = FlightKey(m, e)
          BY <4>1
        <4>3. batch'[b] = c
          BY <2>2
        <4> QED BY <1>10, <1>11, <4>1, <4>2, <4>3
      <3> QED BY <3>1, <3>2
    <2>5. ASSUME NEW a \in Batches, NEW w \in batch'[a].waits
          PROVE  [id |-> FlightKey(w.miss, batch'[a].epoch), owner |-> w.owner] \in flights'
      <3>1. CASE a = b
        <4>1. batch'[a] = c
          BY <2>2, <3>1
        <4>2. PICK m \in batch[b].missing : w = [miss |-> m, owner |-> owner(m)]
          BY <1>3, <1>10, <4>1, Zenon
        <4>3. w.miss = m /\ w.owner = owner(m) /\ batch'[a].epoch = e
          BY <1>10, <4>1, <4>2, Zenon
        <4> QED BY <1>7, <4>3, Zenon
      <3>2. CASE a # b
        <4>1. batch'[a] = batch[a]
          BY <2>2, <3>2
        <4>2. [id |-> FlightKey(w.miss, batch[a].epoch), owner |-> w.owner] \in flights
          BY <4>1, Zenon DEF CacheInv, FlightsOK
        <4> QED BY <1>4, <4>1, <4>2, Zenon
      <3> QED BY <3>1, <3>2
    <2> QED BY <2>3, <2>4, <2>5, Zenon DEF FlightsOK, FlightKey
  <1>14. StoreOK'
    BY <1>0, <1>1, StoreStays
  <1>15. c.pc # "complete"
    BY <1>10, <1>11
  <1> QED BY <1>1, <1>2, <1>6, <1>10, <1>12, <1>13, <1>14, <1>15, PassStep, ZenonT(30)

(* y is x but for what the end of the wait w has told it. *)
Told(x, y, w) ==
  /\ y.pc = x.pc /\ y.epoch = x.epoch /\ y.base = x.base /\ y.owned = x.owned
  /\ y.loaded = x.loaded /\ y.verdict = x.verdict /\ y.waits = x.waits \ {w}
  /\ BatchFine(y, row, floor, epoch)

(* The end of a flight tells a batch that waits for it a value that is as new
   as the batch asks. *)
LEMMA HearFine ==
  ASSUME CacheInv, NEW a \in Batches, NEW b \in Batches, batch[b].pc = "complete",
         NEW m \in batch[b].owned, NEW w, w = [miss |-> m, owner |-> b],
         w \in batch[a].waits,
         NEW y, y = Hear(batch[a], w, batch[b].verdict, batch[b].loaded[m.key])
  PROVE  Told(batch[a], y, w)
  <1>0. /\ BatchFine(batch[a], row, floor, epoch) /\ batch[a] \in BatchStates
        /\ BatchFine(batch[b], row, floor, epoch) /\ batch[b] \in BatchStates
    BY BatchTypes, Zenon
  <1>1. w.miss = m /\ w.owner = b
    OBVIOUS
  <1>2. m \in Misses /\ m.key \in Keys /\ m.hash \in Nat
    BY <1>0, HashesNat DEF BatchStates, Misses
  <1>3. batch[a].pc \in Passing
    BY <1>0, Zenon DEF BatchFine
  <1>4. batch[a].epoch = batch[b].epoch
    <2>1. PICK f \in flights : f = [id |-> FlightKey(m, batch[a].epoch), owner |-> b]
      BY <1>1, Zenon DEF CacheInv, FlightsOK
    <2>2. f.owner = b /\ f.id = FlightKey(m, batch[a].epoch)
      BY <2>1, Zenon
    <2>3. PICK x \in batch[b].owned : f.id = FlightKey(x, batch[b].epoch)
      BY <2>2, Zenon DEF CacheInv, FlightsOK
    <2>4. FlightKey(m, batch[a].epoch).epoch = batch[a].epoch
      BY Zenon DEF FlightKey
    <2>5. FlightKey(x, batch[b].epoch).epoch = batch[b].epoch
      BY Zenon DEF FlightKey
    <2> QED BY <2>2, <2>3, <2>4, <2>5, ZenonT(30)
  <1>5. PICK v, d, W, H, n : /\ v = batch[b].loaded[m.key] /\ d = batch[b].verdict
                             /\ W = batch[a].waits \ {w}
                             /\ H = IF d = "ok" THEN batch[a].heard ELSE batch[a].heard \cup {d}
                             /\ n = AtLeast(batch[a].base[m.key], m.hash)
    BY Zenon
  <1>6. v \in Nat /\ n \in Nat /\ (d = "ok" => v >= n)
    <2>1. batch[a].base[m.key] \in Nat /\ v \in Nat
      BY <1>0, <1>2, <1>5, HashesNat DEF BatchStates
    <2>2. d = "ok" => v >= m.hash
      BY <1>0, <1>5, Zenon DEF BatchFine
    <2>3. d = "ok" => v >= batch[a].base[m.key]
      <3>1. Shares(batch[a], batch[b])
        BY DEF CacheInv, BatchesOK
      <3> QED BY <1>3, <1>4, <1>5, <3>1, ZenonT(30) DEF Shares
    <2>4. n \in {batch[a].base[m.key], m.hash}
      BY <1>5, Zenon DEF AtLeast
    <2> QED BY <1>2, <2>1, <2>2, <2>3, <2>4, ZenonT(30)
  <1>7. PICK o : o = IF d = "ok" THEN [batch[a].out EXCEPT ![m.key] = [val |-> v, need |-> n]]
                     ELSE batch[a].out
    BY Zenon
  <1>8. o \in [Keys -> Answers] /\ \A k \in Keys : o[k].val >= o[k].need
    <2>1. PICK x : x = [val |-> v, need |-> n]
      BY Zenon
    <2>2. x \in Answers /\ (d = "ok" => x.val >= x.need)
      BY <1>6, <2>1, Zenon DEF Answers
    <2>3. o = IF d = "ok" THEN [batch[a].out EXCEPT ![m.key] = x] ELSE batch[a].out
      BY <1>7, <2>1, ZenonT(30)
    <2> QED BY <1>0, <2>2, <2>3, Zenon DEF BatchStates, BatchFine
  <1>9. W \in SUBSET Waits /\ H \in SUBSET {"retry", "error"}
    <2>1. W \in SUBSET Waits
      BY <1>0, <1>5, Zenon DEF BatchStates
    <2>2. H \in SUBSET {"retry", "error"}
      BY <1>0, <1>5, Zenon DEF BatchStates
    <2> QED BY <2>1, <2>2
  <1>10. y = [batch[a] EXCEPT !.waits = W, !.heard = H, !.out = o]
    <2>1. y = [batch[a] EXCEPT !.waits = W, !.heard = H,
                 !.out[m.key] = IF d = "ok" THEN [val |-> v, need |-> n] ELSE @]
      BY <1>1, <1>5 DEF Hear, Answer
    <2>2. CASE d = "ok"
      BY <1>7, <2>1, <2>2
    <2>3. CASE d # "ok"
      <3>1. batch[a].out = [batch[a].out EXCEPT ![m.key] = batch[a].out[m.key]]
        BY <1>0, Zenon DEF BatchStates
      <3> QED BY <1>7, <2>1, <2>3, <3>1, ZenonT(30)
    <2> QED BY <2>2, <2>3
  <1>11. y \in BatchStates
    BY <1>0, <1>8, <1>9, <1>10, ZenonT(30) DEF BatchStates
  <1>12. /\ y.pc = batch[a].pc /\ y.epoch = batch[a].epoch /\ y.base = batch[a].base
         /\ y.owned = batch[a].owned /\ y.loaded = batch[a].loaded /\ y.waits = W
         /\ y.verdict = batch[a].verdict /\ y.missing = batch[a].missing /\ y.out = o
    BY <1>0, <1>10, Zenon DEF BatchStates
  <1>13. BatchFine(y, row, floor, epoch)
    BY <1>0, <1>3, <1>8, <1>11, <1>12, ZenonT(30) DEF BatchFine
  <1> QED BY <1>5, <1>12, <1>13, Zenon DEF Told


(* The key of a flight tells the misses apart. *)
LEMMA FlightKeyTells ==
  ASSUME NEW x \in Misses, NEW y \in Misses, NEW d, NEW e, FlightKey(x, d) = FlightKey(y, e)
  PROVE  x = y /\ d = e
  <1>1. /\ FlightKey(x, d).key = x.key /\ FlightKey(x, d).hash = x.hash
        /\ FlightKey(x, d).cacheable = x.cacheable /\ FlightKey(x, d).epoch = d
    BY Zenon DEF FlightKey
  <1>2. /\ FlightKey(y, e).key = y.key /\ FlightKey(y, e).hash = y.hash
        /\ FlightKey(y, e).cacheable = y.cacheable /\ FlightKey(y, e).epoch = e
    BY ZenonT(30) DEF FlightKey
  <1>3. x.key = y.key /\ x.hash = y.hash /\ x.cacheable = y.cacheable /\ d = e
    BY <1>1, <1>2
  <1>4. /\ x = [key |-> x.key, hash |-> x.hash, cacheable |-> x.cacheable]
        /\ y = [key |-> y.key, hash |-> y.hash, cacheable |-> y.cacheable]
    BY DEF Misses
  <1> QED BY ONLY <1>3, <1>4, ZenonT(30)

(* The end of one flight of a batch *)
LEMMA CompleteStep ==
  ASSUME CacheInv, NEW b \in Batches, NEW m \in batch[b].owned, CompleteBatchFlight(b, m)
  PROVE  CacheInv'
  <1>0. /\ BatchFine(batch[b], row, floor, epoch) /\ batch[b] \in BatchStates
        /\ BackendOK /\ StoreOK
    BY BatchTypes
  <1>1. /\ row' = row /\ floor' = floor /\ epoch' = epoch /\ call' = call /\ cache' = cache
        /\ sf' = sf /\ build' = build
    BY Zenon DEF CompleteBatchFlight, backend
  <1>2. batch[b].pc = "complete" /\ batch[b].pc \in Passing /\ batch[b].pc \in Owning
    BY Zenon DEF CompleteBatchFlight, Passing, Owning
  <1>3. PICK w : w = [miss |-> m, owner |-> b]
    BY Zenon
  <1>4. PICK p, O : /\ O = batch[b].owned \ {m}
                    /\ p = IF batch[b].owned = {m} THEN "collect" ELSE "complete"
    BY Zenon
  <1>5. PICK told : told = [a \in Batches |->
                      IF w \in batch[a].waits
                      THEN Hear(batch[a], w, batch[b].verdict, batch[b].loaded[m.key])
                      ELSE batch[a]]
    BY Zenon
  <1>6. \A a \in Batches : Told(batch[a], told[a], w)
    <2> TAKE a \in Batches
    <2>1. CASE w \in batch[a].waits
      <3>1. told[a] = Hear(batch[a], w, batch[b].verdict, batch[b].loaded[m.key])
        BY <1>5, <2>1
      <3> QED BY <1>2, <1>3, <2>1, <3>1, HearFine, ZenonT(30)
    <2>2. CASE w \notin batch[a].waits
      <3>1. told[a] = batch[a]
        BY <1>5, <2>2
      <3>2. BatchFine(batch[a], row, floor, epoch)
        BY BatchTypes
      <3> QED BY <2>2, <3>1, <3>2, Zenon DEF Told
    <2> QED BY <2>1, <2>2
  <1>7. PICK c : c = [told[b] EXCEPT !.owned = O, !.pc = p]
    OBVIOUS
  <1>8. batch' = [a \in Batches |-> IF a = b THEN c ELSE told[a]]
    <2>1. batch' = [told EXCEPT ![b].owned = @ \ {m},
                      ![b].pc = IF batch[b].owned = {m} THEN "collect" ELSE "complete"]
      BY <1>3, <1>5, ZenonT(30) DEF CompleteBatchFlight
    <2>2. told[b].owned = batch[b].owned /\ told = [a \in Batches |-> told[a]]
      BY <1>5, <1>6 DEF Told
    <2> QED BY ONLY <1>4, <1>7, <2>1, <2>2, b \in Batches, ZenonT(30)
  <1>9. /\ batch' = [a \in Batches |-> batch'[a]]
        /\ \A a \in Batches : batch'[a] = IF a = b THEN c ELSE told[a]
    BY <1>8
  <1>10. told[b] \in BatchStates
    BY <1>6 DEF Told, BatchFine
  <1>11. p \in {"collect", "complete"} /\ p \in Passing /\ O \subseteq batch[b].owned
         /\ O \in SUBSET Misses
    BY <1>0, <1>4 DEF Passing, BatchStates
  <1>12. c \in BatchStates
    BY <1>7, <1>10, <1>11, ZenonT(30) DEF BatchStates, Passing
  <1>13. /\ c.pc = p /\ c.owned = O /\ c.epoch = told[b].epoch /\ c.base = told[b].base
         /\ c.waits = told[b].waits /\ c.missing = told[b].missing /\ c.out = told[b].out
         /\ c.loaded = told[b].loaded /\ c.verdict = told[b].verdict
    BY <1>7, <1>10 DEF BatchStates
  <1>14. BatchFine(c, row, floor, epoch)
    <2>1. BatchFine(told[b], row, floor, epoch) /\ told[b].owned = batch[b].owned
          /\ told[b].pc = "complete"
      BY <1>2, <1>6 DEF Told
    <2>2. /\ c.epoch <= epoch
          /\ \A k \in Keys : c.base[k] <= floor[k] /\ c.out[k].val >= c.out[k].need
      BY <1>13, <2>1 DEF BatchFine
    <2>3. \A x \in c.missing \cup c.owned : x.hash <= row[x.key]
      BY <1>11, <1>13, <2>1 DEF BatchFine
    <2>4. c.pc = "store" \/ (c.pc = "complete" /\ c.verdict = "ok") =>
            \A x \in c.owned : /\ c.loaded[x.key] \in Versions /\ c.loaded[x.key] >= x.hash
                               /\ epoch = c.epoch => c.loaded[x.key] >= floor[x.key]
      BY <1>11, <1>13, <2>1 DEF BatchFine
    <2> QED BY <1>11, <1>12, <1>13, <2>2, <2>3, <2>4 DEF BatchFine
  <1>15. \A a \in Batches :
           /\ batch'[a].epoch = batch[a].epoch /\ batch'[a].base = batch[a].base
           /\ batch'[a].loaded = batch[a].loaded /\ batch'[a].verdict = batch[a].verdict
           /\ batch'[a].owned \subseteq batch[a].owned
           /\ batch'[a].pc \in Passing => batch[a].pc \in Passing
           /\ batch'[a].pc = "complete" => batch[a].pc = "complete"
           /\ batch'[a].waits = batch[a].waits \ {w}
           /\ a # b => batch'[a].pc = batch[a].pc /\ batch'[a].owned = batch[a].owned
    <2> TAKE a \in Batches
    <2>1. CASE a = b
      BY <1>2, <1>6, <1>9, <1>11, <1>13, <2>1 DEF Told
    <2>2. CASE a # b
      BY <1>6, <1>9, <2>2 DEF Told
    <2> QED BY <2>1, <2>2
  <1>16. BatchesOK'
    <2>1. \A a \in Batches : BatchFine(batch'[a], row, floor, epoch)
      BY <1>6, <1>9, <1>14 DEF Told
    <2>2. ASSUME NEW x \in Batches, NEW y \in Batches
          PROVE  Shares(batch'[x], batch'[y])
      <3>1. Shares(batch[x], batch[y])
        BY DEF CacheInv, BatchesOK
      <3>2. PICK a, d, a1, d1 : a = batch[x] /\ d = batch[y] /\ a1 = batch'[x] /\ d1 = batch'[y]
        OBVIOUS
      <3>3. /\ a1.epoch = a.epoch /\ a1.base = a.base /\ (a1.pc \in Passing => a.pc \in Passing)
            /\ d1.epoch = d.epoch /\ d1.loaded = d.loaded /\ d1.verdict = d.verdict
            /\ d1.owned \subseteq d.owned /\ (d1.pc = "complete" => d.pc = "complete")
        BY <1>15, <3>2
      <3>4. Shares(a1, d1)
        BY ONLY <3>1, <3>2, <3>3, ZenonT(30) DEF Shares
      <3> QED BY <3>2, <3>4
    <2> QED BY <1>1, <1>9, <2>1, <2>2 DEF BatchesOK
  <1>17. FlightsOK'
    <2>0. PICK g : g = [id |-> FlightKey(m, batch[b].epoch), owner |-> b]
      BY ZenonT(30)
    <2>1. flights' = flights \ {g} /\ flights \subseteq Flights
      BY <2>0, ZenonT(30) DEF CompleteBatchFlight, CacheInv, FlightsOK
    <2>2. ASSUME NEW f \in flights'
          PROVE  /\ batch'[f.owner].pc \in Owning
                 /\ \E x \in batch'[f.owner].owned : f.id = FlightKey(x, batch'[f.owner].epoch)
      <3>1. f \in flights /\ f # g /\ f.owner \in Batches
        BY <2>1 DEF Flights
      <3>2. PICK x \in batch[f.owner].owned : f.id = FlightKey(x, batch[f.owner].epoch)
        BY <3>1 DEF CacheInv, FlightsOK
      <3>3. CASE f.owner # b
        <4>1. batch[f.owner].pc \in Owning
          BY <3>1 DEF CacheInv, FlightsOK
        <4> QED BY <1>15, <3>1, <3>2, <3>3, <4>1
      <3>4. CASE f.owner = b
        <4>1. f = [id |-> f.id, owner |-> f.owner]
          BY <2>1, <3>1 DEF Flights
        <4>2. x # m
          BY <2>0, <3>1, <3>2, <3>4, <4>1
        <4>3. x \in O /\ p = "complete"
          BY <1>4, <3>2, <3>4, <4>2
        <4>4. batch'[b].owned = O /\ batch'[b].pc = p /\ batch'[b].epoch = batch[b].epoch
          BY <1>9, <1>13, <1>15
        <4> QED BY <1>2, <3>2, <3>4, <4>3, <4>4
      <3> QED BY <3>3, <3>4
    <2>3. ASSUME NEW a \in Batches, NEW v \in batch'[a].waits
          PROVE  [id |-> FlightKey(v.miss, batch'[a].epoch), owner |-> v.owner] \in flights'
      <3>1. v \in batch[a].waits /\ v # w /\ batch'[a].epoch = batch[a].epoch
        BY <1>15
      <3>2. PICK f : f = [id |-> FlightKey(v.miss, batch[a].epoch), owner |-> v.owner]
        BY Zenon
      <3>3. f \in flights /\ f.id = FlightKey(v.miss, batch[a].epoch) /\ f.owner = v.owner
        BY <3>1, <3>2 DEF CacheInv, FlightsOK
      <3>4. v \in Waits /\ v.miss \in Misses /\ m \in Misses
        <4>1. batch[a] \in BatchStates
          BY BatchTypes
        <4> QED BY <1>0, <3>1, <4>1 DEF BatchStates, Waits
      <3>5. ASSUME f = g
            PROVE  FALSE
        <4>1. g.owner = b /\ g.id = FlightKey(m, batch[b].epoch)
          BY <2>0
        <4>2. FlightKey(v.miss, batch[a].epoch) = FlightKey(m, batch[b].epoch) /\ v.owner = b
          BY <3>3, <3>5, <4>1
        <4>3. v.miss = m
          BY <3>4, <4>2, FlightKeyTells
        <4>4. v = [miss |-> v.miss, owner |-> v.owner]
          BY <3>4 DEF Waits
        <4> QED BY <1>3, <3>1, <4>2, <4>3, <4>4
      <3> QED BY <2>1, <3>1, <3>2, <3>3, <3>5
    <2> QED BY <2>1, <2>2, <2>3 DEF FlightsOK, FlightKey
  <1>18. StoreOK'
    BY <1>0, <1>1, StoreStays
  <1> QED BY <1>1, <1>16, <1>17, <1>18, BatchFrame


-----------------------------------------------------------------------------
(* The theorems *)

(* The invariant holds of an empty cache that nobody has called. *)
LEMMA InitCache == Init => CacheInv
  <1> SUFFICES ASSUME Init
               PROVE  CacheInv
    OBVIOUS
  <1>1. 1 \in Versions /\ 0 \in Hashes /\ 0 \in 0..MaxEpoch /\ 0 \in Nat
    BY CacheAssumption DEF Versions, Hashes
  <1>2. NoAnswer \in Answers /\ NoAnswer.val = 0 /\ NoAnswer.need = 0
    BY DEF Answers, NoAnswer, Answer
  <1>3. BackendOK
    BY <1>1 DEF Init, BackendOK
  <1>4. StoreOK
    <2>1. cache = EmptyCache /\ Held(cache) = {}
      BY DEF Init, EmptyCache, Held, Cached
    <2> QED BY <2>1, EmptyAgrees DEF StoreOK, EntriesFresh
  <1>5. \A r \in Readers : call[r] = IdleCall
    BY DEF Init
  <1>6. /\ IdleCall.pc = "idle" /\ IdleCall.leader = Nobody /\ IdleCall.epoch = 0
        /\ IdleCall \in CallStates
    BY <1>1, <1>2 DEF IdleCall, CallStates
  <1>7. "idle" \notin Working /\ "idle" \notin Leading \cup {"wait"} /\ "idle" \notin Passing
    BY DEF Working, Leading, Passing
  <1>8. CallsOK
    BY <1>1, <1>3, <1>5, <1>6, <1>7 DEF CallsOK, CallFine, Init, BackendOK
  <1>9. BuildsOK
    <2>1. /\ IdleBuild \in BuildStates /\ IdleBuild.pc = "idle" /\ IdleBuild.epoch = 0
      BY <1>1 DEF IdleBuild, BuildStates
    <2> QED BY <1>1, <2>1 DEF BuildsOK, BuildFine, Init
  <1>10. GroupOK
    <2>1. \A r \in Readers : call[r].pc = "idle" /\ call[r].leader = Nobody
      BY <1>5, <1>6
    <2>2. /\ sf \in [Keys \X Hashes -> Readers \cup {Nobody}]
          /\ \A f \in Keys \X Hashes : sf[f] = Nobody
      BY DEF Init
    <2> QED BY <1>7, <2>1, <2>2 DEF GroupOK
  <1>11. \A b \in Batches : batch[b] = IdleBatch
    BY DEF Init
  <1>12. /\ IdleBatch.pc = "idle" /\ IdleBatch.epoch = 0 /\ IdleBatch.waits = {}
         /\ IdleBatch.missing = {} /\ IdleBatch.owned = {}
         /\ IdleBatch.base = [k \in Keys |-> 0] /\ IdleBatch.out = [k \in Keys |-> NoAnswer]
    BY DEF IdleBatch
  <1>13. IdleBatch \in BatchStates
    <2>1. [k \in Keys |-> 0] \in [Keys -> Hashes] /\ [k \in Keys |-> NoAnswer] \in [Keys -> Answers]
      BY <1>1, <1>2
    <2>2. PICK z, n : z = [k \in Keys |-> 0] /\ n = [k \in Keys |-> NoAnswer]
      BY ZenonT(30)
    <2>3. IdleBatch = [pc |-> "idle", keys |-> {}, base |-> z, epoch |-> 0, rest |-> {},
                       missing |-> {}, owned |-> {}, waits |-> {}, heard |-> {}, loaded |-> z,
                       verdict |-> "ok", out |-> n]
      BY <2>2 DEF IdleBatch
    <2> QED BY <1>1, <2>1, <2>2, <2>3, Zenon DEF BatchStates
  <1>14. BatchFine(IdleBatch, row, floor, epoch)
    <2>1. \A k \in Keys : IdleBatch.base[k] = 0 /\ IdleBatch.out[k] = NoAnswer
      BY <1>12
    <2>2. \A k \in Keys : IdleBatch.base[k] <= floor[k]
      BY <1>3, <2>1 DEF BackendOK, Versions
    <2>3. \A k \in Keys : IdleBatch.out[k].val >= IdleBatch.out[k].need
      BY <1>2, <2>1
    <2>4. IdleBatch.epoch <= epoch
      BY <1>12 DEF Init
    <2> QED BY <1>12, <1>13, <2>2, <2>3, <2>4, Zenon DEF BatchFine
  <1>15. BatchesOK
    <2>1. Shares(IdleBatch, IdleBatch)
      BY <1>12 DEF Shares
    <2> QED BY <1>11, <1>14, <2>1 DEF BatchesOK, Init
  <1>16. FlightsOK
    BY <1>11, <1>12 DEF FlightsOK, Init
  <1> QED BY <1>3, <1>4, <1>8, <1>9, <1>10, <1>15, <1>16 DEF CacheInv

(* A step of a caller of GetOrLoad keeps the invariant. *)
LEMMA CallSteps ==
  ASSUME CacheInv, NEW r \in Readers, CallStep(r)
  PROVE  CacheInv'
  <1>1. CASE Lookup(r)
    BY <1>1, LookupCall
  <1>2. CASE Join(r)
    BY <1>2, JoinStep
  <1>3. CASE LookAgain(r)
    BY <1>3, LookAgainStep
  <1>4. CASE SnapshotEpoch(r)
    BY <1>4, SnapshotStep
  <1>5. CASE Load(r)
    BY <1>5, LoadStep
  <1>6. CASE LoadFails(r)
    BY <1>6, LoadFailsStep
  <1>7. CASE StoreIfEpoch(r)
    BY <1>7, StoreIfEpochStep
  <1>8. CASE Return(r)
    BY <1>8, ReturnStep
  <1> QED BY <1>1, <1>2, <1>3, <1>4, <1>5, <1>6, <1>7, <1>8 DEF CallStep

(* A step of a caller of GetOrLoadBatch keeps the invariant. *)
LEMMA BatchSteps ==
  ASSUME CacheInv, NEW b \in Batches, BatchStep(b)
  PROVE  CacheInv'
  <1>1. CASE BatchPass(b)
    BY <1>1, BatchBegins
  <1>2. CASE \E k \in Keys, h \in Hashes, cacheable \in BOOLEAN : BatchLookup(b, k, h, cacheable)
    BY <1>2, BatchLookupStep
  <1>3. CASE BatchAllHit(b) \/ BatchCollect(b)
    BY <1>3, BatchEnds
  <1>4. CASE ClaimBatchFlights(b)
    BY <1>4, ClaimStep
  <1>5. CASE BatchLoad(b)
    BY <1>5, BatchLoadStep
  <1>6. CASE BatchLoadFails(b)
    BY <1>6, BatchLoadFailsStep
  <1>7. CASE StoreBatchIfEpoch(b)
    BY <1>7, StoreBatchStep
  <1>8. CASE \E m \in batch[b].owned : CompleteBatchFlight(b, m)
    BY <1>8, CompleteStep
  <1> QED BY <1>1, <1>2, <1>3, <1>4, <1>5, <1>6, <1>7, <1>8 DEF BatchStep

(* Every step keeps the invariant. *)
LEMMA NextCache == CacheInv /\ [Next]_vars => CacheInv'
  <1> SUFFICES ASSUME CacheInv, [Next]_vars
               PROVE  CacheInv'
    OBVIOUS
  <1>1. CASE \/ \E k \in Keys : Write(k)
             \/ \E S \in SUBSET Keys : Invalidate(S)
             \/ Flush
    BY <1>1, BackendSteps
  <1>2. CASE \E r \in Readers, k \in Keys, h \in Hashes : GetOrLoad(r, k, h)
    BY <1>2, GetOrLoadStep
  <1>3. CASE \E r \in Readers : CallStep(r)
    BY <1>3, CallSteps
  <1>4. CASE \/ \E u \in Builders, k \in Keys, v \in Versions, h \in Hashes : Store(u, k, v, h)
             \/ \E u \in Builders, k \in Keys : LoadEpoch(u, k)
             \/ \E u \in Builders : BuildValue(u) \/ StoreBuilt(u)
    BY <1>4, BuildSteps
  <1>5. CASE \E b \in Batches, S \in SUBSET Keys \ {{}} : GetOrLoadBatch(b, S)
    BY <1>5, BatchBegins
  <1>6. CASE \E b \in Batches : BatchStep(b) \/ BatchCancelled(b)
    BY <1>6, BatchSteps, BatchEnds
  <1>7. CASE UNCHANGED vars
    <2>1. /\ row' = row /\ floor' = floor /\ epoch' = epoch /\ call' = call /\ cache' = cache
          /\ sf' = sf /\ build' = build /\ batch' = batch /\ flights' = flights
      BY <1>7 DEF vars, backend
    <2>2. StoreOK'
      BY <2>1, StoreStays DEF CacheInv
    <2>3. BatchesOK'
      BY <2>1 DEF CacheInv, BatchesOK
    <2>4. FlightsOK'
      BY <2>1 DEF CacheInv, FlightsOK, FlightKey
    <2> QED BY <2>1, <2>2, <2>3, <2>4, BatchFrame
  <1> QED BY <1>1, <1>2, <1>3, <1>4, <1>5, <1>6, <1>7, ZenonT(30) DEF Next

(* The inductive invariant holds in every state of the cache, its callers and
   its backend, for every number of them and every bound. *)
THEOREM CacheInvariance == Spec => []CacheInv
  BY InitCache, NextCache, PTL DEF Spec

(* The map, the list, the weight and the inverted index of the cache agree, and
   the cache stays within its bounds, after every store, eviction, expiry and
   invalidation (storeEntryLocked, removeElement). *)
THEOREM CacheTypeHolds == Spec => []TypeOK
  <1>1. CacheInv => TypeOK
    <2> SUFFICES ASSUME CacheInv
                 PROVE  TypeOK
      OBVIOUS
    <2>1. Consistent(cache)
      BY AgreesConsistent DEF CacheInv, StoreOK
    <2>2. \A f \in flights : f.owner \in Batches
      BY DEF CacheInv, FlightsOK, Flights
    <2> QED BY <2>1, <2>2 DEF CacheInv, BackendOK, GroupOK, TypeOK
  <1> QED BY <1>1, CacheInvariance, PTL

(* No load, batch or build puts back a version that an invalidation has
   replaced: the epoch guard of storeIfEpochHash and storeBatchIfEpoch. *)
THEOREM EntriesFreshHolds == Spec => []EntriesFresh
  <1>1. CacheInv => EntriesFresh
    BY DEF CacheInv, StoreOK
  <1> QED BY <1>1, CacheInvariance, PTL

(* What GetOrLoad and GetOrLoadBatch return is as new as they promise, whoever
   loaded it and whatever was invalidated meanwhile. *)
THEOREM ReadFreshHolds == Spec => []ReadFresh
  <1>1. CacheInv => ReadFresh
    <2> SUFFICES ASSUME CacheInv
                 PROVE  ReadFresh
      OBVIOUS
    <2>1. \A r \in Readers : call[r].pc = "done" => call[r].got.val >= call[r].got.need
      BY DEF CacheInv, CallsOK, CallFine
    <2>2. ASSUME NEW b \in Batches, NEW k \in batch[b].keys
          PROVE  batch[b].out[k].val >= batch[b].out[k].need
      <3>1. BatchFine(batch[b], row, floor, epoch) /\ batch[b] \in BatchStates
        BY BatchTypes
      <3> QED BY <3>1 DEF BatchFine, BatchStates
    <2> QED BY <2>1, <2>2 DEF ReadFresh
  <1> QED BY <1>1, CacheInvariance, PTL

(* Nobody waits for a caller that has gone: every flight that is open, in the
   singleflight group or in batchFlights, has an owner on its way to closing
   it. *)
THEOREM FlightsAttendedHolds == Spec => []FlightsAttended
  <1>1. CacheInv => FlightsAttended
    <2> SUFFICES ASSUME CacheInv
                 PROVE  FlightsAttended
      OBVIOUS
    <2>1. ASSUME NEW r \in Readers, call[r].pc = "wait"
          PROVE  call[call[r].leader].pc \in Leading /\ sf[Flight(r)] = call[r].leader
      <3>1. call[r].leader \in Readers /\ sf[Flight(r)] = call[r].leader
        BY <2>1 DEF CacheInv, GroupOK
      <3>2. Flight(r) \in Keys \X Hashes
        BY <2>1, CallTypes DEF CallStates, Working, Flight
      <3>3. sf[Flight(r)] # Nobody
        BY <3>1, CacheAssumption
      <3> QED BY <3>1, <3>2, <3>3 DEF CacheInv, GroupOK
    <2>2. ASSUME NEW f \in Keys \X Hashes, sf[f] # Nobody
          PROVE  call[sf[f]].leader = sf[f] /\ Flight(sf[f]) = f
      <3>1. sf[f] \in Readers /\ call[sf[f]].pc \in Leading /\ Flight(sf[f]) = f
        BY <2>2 DEF CacheInv, GroupOK
      <3> QED BY <3>1 DEF CacheInv, GroupOK
    <2>3. /\ \A f \in flights :
               /\ batch[f.owner].pc \in {"load", "store", "complete"}
               /\ \E m \in batch[f.owner].owned : f.id = FlightKey(m, batch[f.owner].epoch)
          /\ \A b \in Batches : \A w \in batch[b].waits :
               [id |-> FlightKey(w.miss, batch[b].epoch), owner |-> w.owner] \in flights
      BY DEF CacheInv, FlightsOK, Owning
    <2> QED BY <2>1, <2>2, <2>3 DEF FlightsAttended, Leading
  <1> QED BY <1>1, CacheInvariance, PTL

=============================================================================
