------------------------ MODULE ReadModelCacheProofs ------------------------
(***************************************************************************)
(* What the read model cache returns is fresh enough, for any keys,        *)
(* readers, batches, limits and weights: the loops and the store, the      *)
(* inductive invariant, and the steps of the backend and of the callers of *)
(* GetOrLoad.  ReadModelCacheBatchProofs has the builders, the batches and *)
(* the theorems.                                                           *)
(***************************************************************************)
EXTENDS ReadModelCache, FiniteSetTheorems, SequenceTheorems,
        WellFoundedInduction, TLAPS

(* Every leaf that names no prover: Zenon, then SMT, which is tried again as Z3
   when the translation ran out of time. *)
USE ZenonT(10), SMTT(30), Z3T(30)

(* Versions are numbers, and a hash names a version or 0. *)
LEMMA HashesNat == Hashes \subseteq Nat /\ Versions \subseteq Nat /\ 0 \in Nat
  BY CacheAssumption DEF Hashes, Versions

-----------------------------------------------------------------------------
(* Loops.  A loop over a list is a recursive function of the number of rounds;
   that it exists, and what it computes, follows from the least round at which
   it would not. *)

(* A set of numbers that is not empty has a least one. *)
LEMMA LeastNat ==
  ASSUME NEW T, T \subseteq Nat, T # {}
  PROVE  \E n \in T : \A m \in T : n <= m
  <1>1. \E n \in T : \A m \in T : <<m, n>> \notin OpToRel(<, Nat)
    BY NatLessThanWellFounded, WFMin, Zenon
  <1>2. \A m, n \in T : <<m, n>> \notin OpToRel(<, Nat) => n <= m
    BY DEF OpToRel
  <1> QED BY <1>1, <1>2, Zenon

(* What holds before the first round, and after a round if it did before it,
   holds after every round. *)
LEMMA Rounds ==
  ASSUME NEW N \in Nat, NEW S,
         0 \in S, \A n \in 1..N : n - 1 \in S => n \in S
  PROVE  0..N \subseteq S
  <1> DEFINE T == {n \in 0..N : n \notin S}
  <1> SUFFICES ASSUME T # {} PROVE FALSE
    OBVIOUS
  <1>0. T \subseteq Nat
    OBVIOUS
  <1>1. PICK n \in T : \A m \in T : n <= m
    BY <1>0, LeastNat, Zenon
  <1>2. n \in 1..N /\ n - 1 \in 0..N /\ n - 1 \notin T
    BY <1>1
  <1> QED BY <1>1, <1>2

(* f is the weight of the first 0, 1, ..., m entries of the list. *)
WeighsTo(c, m, f) ==
  f = [n \in 0..m |-> IF n = 0 THEN 0 ELSE f[n - 1] + ValueWeight(c.items[c.ll[n]])]

(* HeldWeight adds up one entry a round. *)
LEMMA WeightExists ==
  ASSUME NEW c, Len(c.ll) \in Nat
  PROVE  /\ \E f : WeighsTo(c, Len(c.ll), f)
         /\ \A f : WeighsTo(c, Len(c.ll), f) => HeldWeight(c) = f[Len(c.ll)]
  <1> DEFINE N == Len(c.ll)
             S == {m \in 0..N : \E f : WeighsTo(c, m, f)}
  <1>0. N \in Nat
    OBVIOUS
  <1>1. 0 \in S
    <2>1. WeighsTo(c, 0, [n \in 0..0 |-> 0])
      BY DEF WeighsTo
    <2> QED BY <2>1
  <1>2. ASSUME NEW m \in 1..N, m - 1 \in S
        PROVE  m \in S
    <2>1. PICK f : WeighsTo(c, m - 1, f)
      BY <1>2
    <2> DEFINE g == [n \in 0..m |-> IF n < m THEN f[n]
                                    ELSE f[m - 1] + ValueWeight(c.items[c.ll[m]])]
    <2>2. ASSUME NEW n \in 0..m
          PROVE  g[n] = IF n = 0 THEN 0 ELSE g[n - 1] + ValueWeight(c.items[c.ll[n]])
      <3>1. m - 1 \in Nat
        OBVIOUS
      <3>2. /\ f[0] = 0
            /\ \A i \in 1..(m - 1) : f[i] = f[i - 1] + ValueWeight(c.items[c.ll[i]])
        BY <2>1, <3>1 DEF WeighsTo
      <3>3. CASE n = 0
        BY <3>2, <3>3
      <3>4. CASE n \in 1..(m - 1)
        BY <3>2, <3>4
      <3>5. CASE n = m
        BY <3>5
      <3> QED BY <3>3, <3>4, <3>5
    <2>3. WeighsTo(c, m, g)
      BY <2>2 DEF WeighsTo
    <2> QED BY <2>3
  <1>3. N \in S
    <2> HIDE DEF S, N
    <2>1. 0..N \subseteq S
      BY <1>0, <1>1, <1>2, Rounds
    <2> QED BY <1>0, <2>1
  <1>4. PICK f : WeighsTo(c, N, f)
    BY <1>3
  <1>5. ASSUME NEW g, NEW h, WeighsTo(c, N, g), WeighsTo(c, N, h)
        PROVE  g = h
    <2> DEFINE E == {n \in 0..N : g[n] = h[n]}
    <2> HIDE DEF N
    <2>0. /\ g[0] = 0 /\ \A n \in 1..N : g[n] = g[n - 1] + ValueWeight(c.items[c.ll[n]])
          /\ h[0] = 0 /\ \A n \in 1..N : h[n] = h[n - 1] + ValueWeight(c.items[c.ll[n]])
      BY <1>0, <1>5 DEF WeighsTo
    <2>1. 0 \in E
      BY <1>0, <2>0
    <2>2. \A n \in 1..N : n - 1 \in E => n \in E
      BY <2>0
    <2>3. 0..N \subseteq E
      <3> HIDE DEF E, N
      <3> QED BY <1>0, <2>1, <2>2, Rounds
    <2>4. \A n \in 0..N : g[n] = h[n]
      BY <2>3
    <2>5. g = [n \in 0..N |-> g[n]] /\ h = [n \in 0..N |-> h[n]]
      BY <1>0, <1>5 DEF WeighsTo
    <2> QED BY <2>4, <2>5
  <1>6. HeldWeight(c) = (CHOOSE g : WeighsTo(c, N, g))[N]
    BY DEF HeldWeight, WeighsTo
  <1> QED BY <1>4, <1>5, <1>6

(* The weights of the entries in the list are numbers. *)
Weighed(c) ==
  /\ Len(c.ll) \in Nat
  /\ \A n \in 1..Len(c.ll) : ValueWeight(c.items[c.ll[n]]) \in Nat

(* The weight of any part of the list is a number. *)
LEMMA WeightNumbers ==
  ASSUME NEW c, Weighed(c), NEW f, WeighsTo(c, Len(c.ll), f)
  PROVE  /\ \A n \in 0..Len(c.ll) : f[n] \in Int
         /\ f[0] = 0
         /\ \A n \in 1..Len(c.ll) : f[n] = f[n - 1] + ValueWeight(c.items[c.ll[n]])
  <1> DEFINE N == Len(c.ll)
             S == {n \in 0..N : f[n] \in Int}
  <1>0. N \in Nat /\ \A n \in 1..N : ValueWeight(c.items[c.ll[n]]) \in Nat
    BY DEF Weighed
  <1>1. WeighsTo(c, N, f)
    OBVIOUS
  <1> HIDE DEF N
  <1>2. f[0] = 0 /\ \A n \in 1..N : f[n] = f[n - 1] + ValueWeight(c.items[c.ll[n]])
    <2>1. f = [n \in 0..N |->
                 IF n = 0 THEN 0 ELSE f[n - 1] + ValueWeight(c.items[c.ll[n]])]
      BY <1>1 DEF WeighsTo
    <2>2. \A n \in 0..N :
            f[n] = IF n = 0 THEN 0 ELSE f[n - 1] + ValueWeight(c.items[c.ll[n]])
      BY <2>1, Zenon
    <2> QED BY <1>0, <2>2
  <1>3. 0 \in S
    BY <1>0, <1>2
  <1>4. \A n \in 1..N : n - 1 \in S => n \in S
    BY <1>0, <1>2
  <1>5. 0..N \subseteq S
    <2> HIDE DEF S
    <2> QED BY <1>0, <1>3, <1>4, Rounds, Zenon
  <1> QED BY <1>2, <1>5 DEF N

(* An element leaves the list. *)
Drops(q, i, w) ==
  /\ Len(w) = Len(q) - 1
  /\ \A j \in 1..(Len(q) - 1) : w[j] = IF j < i THEN q[j] ELSE q[j + 1]

(* Taking one key out takes its weight out. *)
LEMMA DropWeight ==
  ASSUME NEW c, NEW d, Weighed(c), NEW i \in 1..Len(c.ll), Drops(c.ll, i, d.ll),
         \A j \in 1..Len(c.ll) : j # i => d.items[c.ll[j]] = c.items[c.ll[j]]
  PROVE  HeldWeight(d) = HeldWeight(c) - ValueWeight(c.items[c.ll[i]])
  <1> DEFINE N == Len(c.ll)
             M == N - 1
             W(j) == ValueWeight(c.items[c.ll[j]])
  <1>0. N \in Nat /\ M \in Nat /\ Len(d.ll) = M /\ \A j \in 1..N : W(j) \in Nat
    BY DEF Weighed, Drops
  <1>1. PICK f : WeighsTo(c, N, f)
    BY <1>0, WeightExists
  <1>2. HeldWeight(c) = f[N]
    BY <1>0, <1>1, WeightExists
  <1>3. /\ \A n \in 0..N : f[n] \in Int
        /\ f[0] = 0
        /\ \A n \in 1..N : f[n] = f[n - 1] + W(n)
    BY <1>1, WeightNumbers
  <1>4. \A j \in 1..M : ValueWeight(d.items[d.ll[j]]) = IF j < i THEN W(j) ELSE W(j + 1)
    <2> TAKE j \in 1..M
    <2>1. d.ll[j] = IF j < i THEN c.ll[j] ELSE c.ll[j + 1]
      BY DEF Drops
    <2>2. j \in 1..N /\ j + 1 \in 1..N
      BY <1>0
    <2> QED BY <2>1, <2>2
  <1> DEFINE g == [n \in 0..M |-> IF n < i THEN f[n] ELSE f[n + 1] - W(i)]
  <1>5. i \in 1..N
    OBVIOUS
  <1>6. ASSUME NEW n \in 0..M
        PROVE  g[n] = IF n = 0 THEN 0 ELSE g[n - 1] + ValueWeight(d.items[d.ll[n]])
    <2> HIDE DEF N, W
    <2>1. CASE n = 0
      BY <1>0, <1>3, <1>5, <2>1 DEF M
    <2>2. CASE n # 0 /\ n < i
      <3>1. g[n] = f[n] /\ g[n - 1] = f[n - 1] /\ n \in 1..N
        BY <1>0, <1>5, <2>2
      <3> QED BY <1>3, <1>4, <2>2, <3>1
    <2>3. CASE n # 0 /\ n = i
      <3>1. /\ g[n] = f[n + 1] - W(i) /\ g[n - 1] = f[n - 1]
            /\ n \in 1..N /\ n + 1 \in 1..N /\ n \in 1..M
        BY <1>0, <1>5, <2>3
      <3>2. f[n + 1] = f[n] + W(n + 1) /\ f[n] = f[n - 1] + W(n)
        BY <1>3, <3>1
      <3>3. ValueWeight(d.items[d.ll[n]]) = W(n + 1)
        BY <1>4, <2>3, <3>1
      <3>4. f[n - 1] \in Int /\ W(n) \in Nat /\ W(n + 1) \in Nat
        BY <1>0, <1>3, <3>1
      <3> QED BY <2>3, <3>1, <3>2, <3>3, <3>4
    <2>4. CASE n > i
      <3>1. /\ g[n] = f[n + 1] - W(i) /\ g[n - 1] = f[n] - W(i)
            /\ n \in 1..N /\ n + 1 \in 1..N /\ n \in 1..M /\ ~(n < i)
        BY <1>0, <1>5, <2>4
      <3>2. f[n + 1] = f[n] + W(n + 1)
        BY <1>3, <3>1
      <3>3. ValueWeight(d.items[d.ll[n]]) = W(n + 1)
        BY <1>4, <3>1
      <3>4. f[n] \in Int /\ W(i) \in Nat /\ W(n + 1) \in Nat
        <4>1. n \in 0..N
          BY <3>1
        <4> QED BY <1>0, <1>3, <1>5, <3>1, <4>1, Zenon
      <3>5. n # 0
        BY <3>1
      <3> QED BY <3>1, <3>2, <3>3, <3>4, <3>5
    <2> QED BY <1>5, <2>1, <2>2, <2>3, <2>4
  <1>7. WeighsTo(d, M, g)
    <2> HIDE DEF M, W
    <2> QED BY <1>6 DEF WeighsTo
  <1>8. HeldWeight(d) = g[M]
    <2> HIDE DEF M, g
    <2> QED BY <1>0, <1>7, WeightExists
  <1>9. g[M] = f[N] - W(i)
    <2> HIDE DEF N, W
    <2>1. CASE i = N
      <3>1. g[M] = f[M] /\ f[N] = f[M] + W(N) /\ f[M] \in Int /\ W(N) \in Nat
        BY <1>0, <1>3, <1>5, <2>1
      <3> QED BY <2>1, <3>1
    <2>2. CASE i # N
      <3>1. M + 1 = N /\ ~(M < i) /\ M \in 0..M
        BY <1>0, <1>5, <2>2
      <3> QED BY <3>1
    <2> QED BY <2>1, <2>2
  <1> QED BY <1>2, <1>8, <1>9

(* The list of d is that of c from its second element on. *)
Shifts(c, d) ==
  \A j \in 1..Len(c.ll) : /\ d.ll[j + 1] = c.ll[j]
                          /\ d.items[c.ll[j]] = c.items[c.ll[j]]

(* An element enters the list at the front. *)
LEMMA PushWeight ==
  ASSUME NEW c, NEW d, Weighed(c), NEW k, Len(d.ll) = Len(c.ll) + 1,
         d.ll[1] = k, ValueWeight(d.items[k]) \in Nat, Shifts(c, d)
  PROVE  HeldWeight(d) = HeldWeight(c) + ValueWeight(d.items[k])
  <1> DEFINE N == Len(c.ll)
             M == N + 1
             W(j) == ValueWeight(c.items[c.ll[j]])
             w == ValueWeight(d.items[k])
  <1>0. N \in Nat /\ M \in Nat /\ Len(d.ll) = M /\ \A j \in 1..N : W(j) \in Nat
    BY DEF Weighed
  <1>1. PICK f : WeighsTo(c, N, f)
    BY <1>0, WeightExists
  <1>2. HeldWeight(c) = f[N]
    BY <1>0, <1>1, WeightExists
  <1>3. /\ \A n \in 0..N : f[n] \in Int
        /\ f[0] = 0
        /\ \A n \in 1..N : f[n] = f[n - 1] + W(n)
    BY <1>1, WeightNumbers
  <1>4. /\ \A j \in 1..N : ValueWeight(d.items[d.ll[j + 1]]) = W(j)
        /\ ValueWeight(d.items[d.ll[1]]) = w
        /\ w \in Nat
    BY DEF Shifts
  <1> DEFINE g == [n \in 0..M |-> IF n = 0 THEN 0 ELSE f[n - 1] + w]
  <1>6. ASSUME NEW n \in 0..M
        PROVE  g[n] = IF n = 0 THEN 0 ELSE g[n - 1] + ValueWeight(d.items[d.ll[n]])
    <2> HIDE DEF N, W, w
    <2>1. CASE n = 0
      BY <2>1
    <2>2. CASE n = 1
      <3>1. g[1] = f[0] + w /\ g[0] = 0
        BY <1>0
      <3> QED BY <1>3, <1>4, <2>2, <3>1
    <2>3. CASE n > 1
      <3>0. /\ n - 1 \in 1..N /\ n - 2 \in 0..N /\ n # 0 /\ (n - 1) + 1 = n
            /\ n \in 0..M /\ n - 1 \in 0..M /\ n - 1 # 0 /\ (n - 1) - 1 = n - 2
        BY <1>0, <2>3
      <3>1. /\ g[n] = f[n - 1] + w /\ g[n - 1] = f[n - 2] + w
            /\ n - 1 \in 1..N /\ n - 2 \in 0..N /\ n # 0 /\ (n - 1) + 1 = n
            /\ (n - 1) - 1 = n - 2
        <4> HIDE DEF M
        <4> QED BY <3>0
      <3>2. f[n - 1] = f[n - 2] + W(n - 1)
        BY <1>3, <3>1
      <3>3. ValueWeight(d.items[d.ll[n]]) = W(n - 1)
        BY <1>4, <3>1
      <3>4. f[n - 2] \in Int /\ W(n - 1) \in Nat /\ w \in Nat
        BY <1>0, <1>3, <1>4, <3>1, Zenon
      <3> QED BY <3>1, <3>2, <3>3, <3>4
    <2> QED BY <2>1, <2>2, <2>3
  <1>7. WeighsTo(d, M, g)
    <2> HIDE DEF M, w
    <2> QED BY <1>6 DEF WeighsTo
  <1>8. HeldWeight(d) = g[M]
    <2> HIDE DEF M, g
    <2> QED BY <1>0, <1>7, WeightExists
  <1>9. g[M] = f[N] + w
    <2> HIDE DEF N, w
    <2> QED BY <1>0
  <1> QED BY <1>2, <1>8, <1>9

-----------------------------------------------------------------------------
(* The store *)

(* No key is listed twice. *)
Distinct(q) == \A i, j \in 1..Len(q) : q[i] = q[j] => i = j

(* The map, the list, the weight and the index agree.  Consistent also says
   that the cache is within its bounds, which it is not between a store and
   the end of evictOverflow. *)
Agrees(c) ==
  /\ DOMAIN c = {"items", "ll", "weight", "index"}
  /\ c.items \in [Keys -> Entries \cup {NoEntry}]
  /\ c.ll \in Seq(Keys)
  /\ Distinct(c.ll)
  /\ \A i \in 1..Len(c.ll) : Cached(c, c.ll[i])
  /\ \A k \in Keys : Cached(c, k) => \E i \in 1..Len(c.ll) : c.ll[i] = k
  /\ c.weight = HeldWeight(c)
  /\ c.index = {<<k, c.items[k].val>> : k \in Held(c)}

(* d holds some of the entries of c. *)
Keeps(c, d) == \A k \in Keys : d.items[k] \in {c.items[k], NoEntry}

(* An entry weighs something. *)
LEMMA EntryWeight ==
  ASSUME NEW e \in Entries
  PROVE  ValueWeight(e) \in Nat \ {0}
  <1>1. e.val \in 1..Len(Weight)
    BY DEF Entries
  <1>2. Weight[e.val] \in Nat
    BY <1>1, StoreAssumption
  <1> QED BY <1>2 DEF ValueWeight

(* Every entry of a store in order has a weight. *)
LEMMA AgreesWeighed ==
  ASSUME NEW c, Agrees(c)
  PROVE  /\ Weighed(c)
         /\ Len(c.ll) \in Nat
         /\ \A i \in 1..Len(c.ll) : c.ll[i] \in Keys /\ c.items[c.ll[i]] \in Entries
         /\ c.weight \in Int
  <1>1. Len(c.ll) \in Nat /\ \A i \in 1..Len(c.ll) : c.ll[i] \in Keys
    BY DEF Agrees
  <1>2. \A i \in 1..Len(c.ll) : c.items[c.ll[i]] \in Entries
    BY <1>1 DEF Agrees, Cached
  <1>3. Weighed(c)
    BY <1>1, <1>2, EntryWeight DEF Weighed
  <1>4. PICK f : WeighsTo(c, Len(c.ll), f)
    BY <1>1, WeightExists
  <1>5. c.weight = f[Len(c.ll)]
    BY <1>1, <1>4, WeightExists DEF Agrees
  <1>6. f[Len(c.ll)] \in Int
    BY <1>1, <1>3, <1>4, WeightNumbers
  <1> QED BY <1>1, <1>2, <1>3, <1>5, <1>6

(* An empty list weighs nothing. *)
LEMMA EmptyWeight ==
  ASSUME NEW c, c.ll = <<>>
  PROVE  HeldWeight(c) = 0
  <1>1. Len(c.ll) = 0
    OBVIOUS
  <1>2. PICK f : WeighsTo(c, 0, f)
    BY <1>1, WeightExists
  <1>3. f[0] = 0
    BY <1>2 DEF WeighsTo
  <1> QED BY <1>1, <1>2, <1>3, WeightExists

(* list.Remove takes one element. *)
LEMMA WithoutDrops ==
  ASSUME NEW c, Agrees(c), NEW k \in Keys, Cached(c, k)
  PROVE  /\ Without(c, k) \in Seq(Keys)
         /\ \E i \in 1..Len(c.ll) : c.ll[i] = k /\ Drops(c.ll, i, Without(c, k))
  <1> DEFINE q == c.ll
             i == CHOOSE j \in DOMAIN q : q[j] = k
             w == SubSeq(q, 1, i - 1) \o SubSeq(q, i + 1, Len(q))
  <1>1. q \in Seq(Keys) /\ DOMAIN q = 1..Len(q) /\ Len(q) \in Nat
    BY DEF Agrees
  <1>2. i \in 1..Len(q) /\ q[i] = k
    BY <1>1 DEF Agrees
  <1> HIDE DEF q, i
  <1>3. PICK A, B : A = SubSeq(q, 1, i - 1) /\ B = SubSeq(q, i + 1, Len(q))
    BY Zenon
  <1>4. w = A \o B
    BY <1>3
  <1>5. /\ A \in Seq(Keys) /\ Len(A) = i - 1
        /\ \A j \in 1..(i - 1) : A[j] = q[j]
    <2>1. 1 \in Int /\ i - 1 \in Int /\ \A j \in 1..(i - 1) : q[j] \in Keys
      BY <1>1, <1>2
    <2>2. /\ A \in Seq(Keys) /\ Len(A) = IF 1 <= i - 1 THEN (i - 1) - 1 + 1 ELSE 0
          /\ \A j \in 1..((i - 1) - 1 + 1) : A[j] = q[1 + j - 1]
      BY <1>3, <2>1, SubSeqProperties
    <2> QED BY <1>1, <1>2, <2>2
  <1>6. /\ B \in Seq(Keys) /\ Len(B) = Len(q) - i
        /\ \A j \in 1..(Len(q) - i) : B[j] = q[i + j]
    <2>1. i + 1 \in Int /\ Len(q) \in Int /\ \A j \in (i + 1)..Len(q) : q[j] \in Keys
      BY <1>1, <1>2
    <2>2. /\ B \in Seq(Keys) /\ Len(B) = IF i + 1 <= Len(q) THEN Len(q) - (i + 1) + 1 ELSE 0
          /\ \A j \in 1..(Len(q) - (i + 1) + 1) : B[j] = q[(i + 1) + j - 1]
      BY <1>3, <2>1, SubSeqProperties
    <2>3. \A j \in 1..(Len(q) - i) : /\ j \in 1..(Len(q) - (i + 1) + 1)
                                     /\ (i + 1) + j - 1 = i + j
      BY <1>1, <1>2
    <2>4. Len(B) = Len(q) - i
      <3>1. CASE i = Len(q)
        <4>1. ~(i + 1 <= Len(q)) /\ Len(q) - i = 0
          BY <1>1, <3>1
        <4> QED BY <2>2, <4>1
      <3>2. CASE i < Len(q)
        <4>1. i + 1 <= Len(q) /\ Len(q) - (i + 1) + 1 = Len(q) - i
          BY <1>1, <1>2, <3>2
        <4> QED BY <2>2, <4>1
      <3>3. i = Len(q) \/ i < Len(q)
        <4>1. Len(q) \in Nat /\ i \in 1..Len(q)
          BY <1>1, <1>2
        <4> QED BY ONLY <4>1, SMTT(30), Z3T(30)
      <3> QED BY <3>1, <3>2, <3>3
    <2> QED BY <2>2, <2>3, <2>4
  <1> HIDE DEF w
  <1>9. /\ w \in Seq(Keys) /\ Len(w) = Len(A) + Len(B)
        /\ \A j \in 1..(Len(A) + Len(B)) : w[j] = IF j <= Len(A) THEN A[j] ELSE B[j - Len(A)]
    BY <1>4, <1>5, <1>6, ConcatProperties
  <1>10. Len(w) = Len(q) - 1
    BY <1>1, <1>2, <1>5, <1>6, <1>9
  <1>11. ASSUME NEW j \in 1..(Len(q) - 1)
         PROVE  w[j] = IF j < i THEN q[j] ELSE q[j + 1]
    <2>1. CASE j < i
      <3>1. j \in 1..(i - 1) /\ j \in 1..(Len(A) + Len(B)) /\ j <= Len(A)
        BY <1>1, <1>2, <1>5, <1>6, <2>1
      <3> QED BY <1>5, <1>9, <2>1, <3>1
    <2>2. CASE ~(j < i)
      <3>1. w[j] = B[j - (i - 1)]
        <4>1. j \in 1..(Len(A) + Len(B)) /\ ~ (j <= Len(A)) /\ Len(A) = i - 1
          BY <1>1, <1>2, <1>5, <1>6, <2>2
        <4> QED BY <1>9, <4>1
      <3>2. j - (i - 1) \in 1..(Len(q) - i) /\ i + (j - (i - 1)) = j + 1
        BY <1>1, <1>2, <2>2
      <3> QED BY <1>6, <2>2, <3>1, <3>2
    <2> QED BY <2>1, <2>2
  <1>7. Without(c, k) = w
    BY DEF Without, q, i, w
  <1>8. Drops(q, i, w)
    BY <1>10, <1>11 DEF Drops
  <1> QED BY <1>2, <1>7, <1>8, <1>9 DEF q

(* What is in the list that an element has left. *)
LEMMA DropsElements ==
  ASSUME NEW q, Len(q) \in Nat, NEW i \in 1..Len(q), NEW w, Drops(q, i, w), Distinct(q)
  PROVE  /\ Len(w) = Len(q) - 1
         /\ \A j \in 1..Len(w) : w[j] # q[i] /\ \E a \in 1..Len(q) : w[j] = q[a]
         /\ \A a \in 1..Len(q) : a # i => \E j \in 1..Len(w) : w[j] = q[a]
         /\ Distinct(w)
  <1>1. Len(w) = Len(q) - 1 /\ Len(w) \in Nat
    BY DEF Drops
  <1>2. ASSUME NEW j \in 1..Len(w)
        PROVE  \E a \in 1..Len(q) : /\ w[j] = q[a] /\ a # i
                                    /\ a = IF j < i THEN j ELSE j + 1
    BY <1>1 DEF Drops
  <1>3. ASSUME NEW a \in 1..Len(q), a # i
        PROVE  \E j \in 1..Len(w) : w[j] = q[a]
    <2>1. CASE a < i
      <3>1. a \in 1..Len(w) /\ w[a] = q[a]
        BY <1>1, <2>1 DEF Drops
      <3> QED BY <3>1
    <2>2. CASE a > i
      <3>1. a - 1 \in 1..Len(w) /\ w[a - 1] = q[a]
        BY <1>1, <2>2 DEF Drops
      <3> QED BY <3>1
    <2> QED BY <1>3, <2>1, <2>2
  <1>4. ASSUME NEW a \in 1..Len(w), NEW b \in 1..Len(w), w[a] = w[b]
        PROVE  a = b
    <2>1. PICK x \in 1..Len(q) : w[a] = q[x] /\ x = IF a < i THEN a ELSE a + 1
      BY <1>2
    <2>2. PICK y \in 1..Len(q) : w[b] = q[y] /\ y = IF b < i THEN b ELSE b + 1
      BY <1>2
    <2>3. x = y
      BY <1>4, <2>1, <2>2, Zenon DEF Distinct
    <2> QED BY <1>1, <2>1, <2>2, <2>3
  <1>5. \A j \in 1..Len(w) : w[j] # q[i]
    BY <1>2 DEF Distinct
  <1> QED BY <1>1, <1>2, <1>3, <1>4, <1>5 DEF Distinct

(* removeElement takes the entry of one key out of all four. *)
LEMMA RemoveAgrees ==
  ASSUME NEW c, Agrees(c), NEW k \in Keys, NEW d, d = RemoveElement(c, k)
  PROVE  /\ Agrees(d) /\ Keeps(c, d) /\ d.items[k] = NoEntry
         /\ \A j \in Keys : j # k => d.items[j] = c.items[j]
         /\ Len(d.ll) = IF Cached(c, k) THEN Len(c.ll) - 1 ELSE Len(c.ll)
  <1>1. CASE ~Cached(c, k)
    BY <1>1 DEF RemoveElement, Keeps, Cached
  <1>2. CASE Cached(c, k)
    <2>1. /\ d.items = [c.items EXCEPT ![k] = NoEntry]
          /\ d.ll = Without(c, k)
          /\ d.weight = c.weight - ValueWeight(c.items[k])
          /\ d.index = c.index \ {<<k, c.items[k].val>>}
          /\ DOMAIN d = {"items", "ll", "weight", "index"}
      BY <1>2 DEF RemoveElement
    <2>2. c.items \in [Keys -> Entries \cup {NoEntry}] /\ c.ll \in Seq(Keys)
      BY DEF Agrees
    <2>3. /\ d.items \in [Keys -> Entries \cup {NoEntry}]
          /\ d.items[k] = NoEntry /\ \A j \in Keys : j # k => d.items[j] = c.items[j]
      BY <2>1, <2>2
    <2>4. PICK i \in 1..Len(c.ll) : c.ll[i] = k /\ Drops(c.ll, i, d.ll)
      BY <1>2, <2>1, WithoutDrops
    <2>5. d.ll \in Seq(Keys)
      BY <1>2, <2>1, WithoutDrops
    <2>6. Len(c.ll) \in Nat /\ Weighed(c) /\ \A a \in 1..Len(c.ll) : c.ll[a] \in Keys
      BY AgreesWeighed
    <2>7. Distinct(c.ll)
      BY DEF Agrees
    <2>8. /\ Len(d.ll) = Len(c.ll) - 1
          /\ \A j \in 1..Len(d.ll) : d.ll[j] # k /\ \E a \in 1..Len(c.ll) : d.ll[j] = c.ll[a]
          /\ \A a \in 1..Len(c.ll) : a # i => \E j \in 1..Len(d.ll) : d.ll[j] = c.ll[a]
          /\ Distinct(d.ll)
      <3>1. /\ Len(d.ll) = Len(c.ll) - 1
            /\ \A j \in 1..Len(d.ll) :
                 d.ll[j] # c.ll[i] /\ \E a \in 1..Len(c.ll) : d.ll[j] = c.ll[a]
            /\ \A a \in 1..Len(c.ll) : a # i => \E j \in 1..Len(d.ll) : d.ll[j] = c.ll[a]
            /\ Distinct(d.ll)
        BY <2>4, <2>6, <2>7, DropsElements, Zenon
      <3> QED BY <2>4, <3>1, Zenon
    <2>9. \A j \in 1..Len(d.ll) : Cached(d, d.ll[j])
      <3> TAKE j \in 1..Len(d.ll)
      <3>1. PICK a \in 1..Len(c.ll) : d.ll[j] = c.ll[a]
        BY <2>8
      <3>2. Cached(c, d.ll[j]) /\ d.ll[j] \in Keys /\ d.ll[j] # k
        BY <2>6, <2>8, <3>1 DEF Agrees
      <3> QED BY <2>3, <3>2 DEF Cached
    <2>10. ASSUME NEW x \in Keys, Cached(d, x)
           PROVE  \E j \in 1..Len(d.ll) : d.ll[j] = x
      <3>1. x # k /\ Cached(c, x)
        BY <2>3, <2>10 DEF Cached
      <3>2. PICK a \in 1..Len(c.ll) : c.ll[a] = x
        BY <3>1 DEF Agrees
      <3> QED BY <2>4, <2>8, <3>1, <3>2, Zenon
    <2>11. d.weight = HeldWeight(d)
      <3>1. \A j \in 1..Len(c.ll) : j # i => d.items[c.ll[j]] = c.items[c.ll[j]]
        BY <2>3, <2>4, <2>6, <2>7 DEF Distinct
      <3>2. HeldWeight(d) = HeldWeight(c) - ValueWeight(c.items[c.ll[i]])
        BY <2>4, <2>6, <3>1, DropWeight
      <3> QED BY <2>1, <2>4, <3>2 DEF Agrees
    <2>12. Held(d) = Held(c) \ {k}
      BY <2>3 DEF Held, Cached
    <2>13. d.index = {<<j, d.items[j].val>> : j \in Held(d)}
      <3>1. \A j \in Held(d) : j \in Keys /\ j # k /\ d.items[j] = c.items[j]
        BY <2>3, <2>12 DEF Held
      <3>2. c.index = {<<j, c.items[j].val>> : j \in Held(c)}
        BY DEF Agrees
      <3> QED BY <2>1, <2>12, <3>1, <3>2
    <2>14. Agrees(d)
      BY <2>1, <2>3, <2>5, <2>8, <2>9, <2>10, <2>11, <2>13 DEF Agrees
    <2>15. Keeps(c, d)
      BY <2>3 DEF Keeps
    <2> QED BY <1>2, <2>3, <2>8, <2>14, <2>15
  <1> QED BY <1>1, <1>2

(* A cache within its bounds stays there when an entry leaves it. *)
LEMMA RemoveFits ==
  ASSUME NEW c, Agrees(c), ~Overflows(c), NEW k \in Keys, NEW d, d = RemoveElement(c, k)
  PROVE  ~Overflows(d)
  <1>1. CASE ~Cached(c, k)
    BY <1>1 DEF RemoveElement
  <1>2. CASE Cached(c, k)
    <2>1. d.weight = c.weight - ValueWeight(c.items[k])
      BY <1>2 DEF RemoveElement
    <2>2. ValueWeight(c.items[k]) \in Nat /\ c.weight \in Int /\ Len(c.ll) \in Nat
      BY <1>2, EntryWeight, AgreesWeighed DEF Agrees, Cached
    <2>3. Len(d.ll) = Len(c.ll) - 1
      BY <1>2, RemoveAgrees
    <2> QED BY <2>1, <2>2, <2>3, StoreAssumption DEF Overflows
  <1> QED BY <1>1, <1>2

(* Two entries cannot be in the list where there is one. *)
LEMMA OneEntry ==
  ASSUME NEW c, Agrees(c)
  PROVE  /\ Len(c.ll) = Cardinality(Held(c))
         /\ Range(c.ll) = Held(c)
  <1>1. /\ c.ll \in Seq(Keys) /\ Len(c.ll) \in Nat
        /\ \A i \in 1..Len(c.ll) : c.ll[i] \in Keys
    BY DEF Agrees
  <1>2. Len(c.ll) \in Nat /\ DOMAIN c.ll = 1..Len(c.ll)
    BY <1>1
  <1>3. c.ll \in Bijection(1..Len(c.ll), Held(c))
    <2>1. c.ll \in [1..Len(c.ll) -> Held(c)]
      BY <1>1, <1>2 DEF Agrees, Held
    <2>2. \A a, b \in 1..Len(c.ll) : c.ll[a] = c.ll[b] => a = b
      BY DEF Agrees, Distinct
    <2>3. \A k \in Held(c) : \E i \in 1..Len(c.ll) : c.ll[i] = k
      BY DEF Agrees, Held
    <2> QED BY <2>1, <2>2, <2>3 DEF Bijection, Injection, Surjection, IsInjective
  <1>4. ExistsBijection(1..Len(c.ll), Held(c))
    BY <1>3 DEF ExistsBijection
  <1>5. Cardinality(Held(c)) = Len(c.ll)
    BY <1>2, <1>4, FS_CountingElements, FS_NatBijection
  <1>6. Range(c.ll) = Held(c)
    BY <1>2 DEF Agrees, Held, Range
  <1> QED BY <1>5, <1>6

(* A store in order that does not overflow is consistent. *)
LEMMA AgreesConsistent ==
  ASSUME NEW c, Agrees(c), ~Overflows(c)
  PROVE  Consistent(c)
  BY OneEntry DEF Consistent, Agrees

(* A new cache is in order. *)
LEMMA EmptyAgrees == Agrees(EmptyCache) /\ ~Overflows(EmptyCache)
  <1> DEFINE c == EmptyCache
  <1>1. /\ c.items = [k \in Keys |-> NoEntry] /\ c.ll = <<>> /\ c.weight = 0 /\ c.index = {}
        /\ DOMAIN c = {"items", "ll", "weight", "index"}
    BY DEF EmptyCache
  <1> HIDE DEF c
  <1>2. Len(c.ll) = 0 /\ HeldWeight(c) = 0 /\ c.ll \in Seq(Keys)
    BY <1>1, EmptyWeight
  <1>3. Held(c) = {}
    BY <1>1 DEF Held, Cached
  <1>4. Agrees(c)
    BY <1>1, <1>2, <1>3 DEF Agrees, Cached, Held, Distinct
  <1>5. ~Overflows(c)
    BY <1>1, <1>2, StoreAssumption DEF Overflows
  <1> QED BY <1>4, <1>5 DEF c

(* A cache that holds nothing does not overflow. *)
LEMMA EmptyFits ==
  ASSUME NEW c, Agrees(c), c.ll = <<>>
  PROVE  ~Overflows(c)
  <1>1. c.weight = 0 /\ Len(c.ll) = 0
    BY EmptyWeight DEF Agrees
  <1> QED BY <1>1, StoreAssumption DEF Overflows

(* A loop that starts from x and takes step n with Step(_, n) is the function f
   of the rounds.  Evicting: *)
EvictsTo(c, m, f) == f = [n \in 0..m |-> IF n = 0 THEN c ELSE EvictOldest(f[n - 1])]

(* The loop of EvictOverflow exists, whatever the number of rounds. *)
LEMMA EvictExists ==
  ASSUME NEW c, NEW N \in Nat
  PROVE  \E f : EvictsTo(c, N, f)
  <1> DEFINE S == {m \in 0..N : \E f : EvictsTo(c, m, f)}
  <1>1. 0 \in S
    <2>1. EvictsTo(c, 0, [n \in 0..0 |-> c])
      BY DEF EvictsTo
    <2> QED BY <2>1
  <1>2. ASSUME NEW m \in 1..N, m - 1 \in S
        PROVE  m \in S
    <2>1. PICK f : EvictsTo(c, m - 1, f)
      BY <1>2
    <2> DEFINE g == [n \in 0..m |-> IF n < m THEN f[n] ELSE EvictOldest(f[m - 1])]
    <2>2. ASSUME NEW n \in 0..m
          PROVE  g[n] = IF n = 0 THEN c ELSE EvictOldest(g[n - 1])
      <3>1. m - 1 \in Nat
        OBVIOUS
      <3>2. f[0] = c /\ \A i \in 1..(m - 1) : f[i] = EvictOldest(f[i - 1])
        BY <2>1, <3>1 DEF EvictsTo
      <3>3. CASE n = 0
        BY <3>2, <3>3
      <3>4. CASE n \in 1..(m - 1)
        BY <3>2, <3>4
      <3>5. CASE n = m
        BY <3>5
      <3> QED BY <3>3, <3>4, <3>5
    <2>3. EvictsTo(c, m, g)
      BY <2>2 DEF EvictsTo
    <2> QED BY <2>3
  <1>3. N \in S
    <2> HIDE DEF S
    <2>1. 0..N \subseteq S
      BY <1>1, <1>2, Rounds
    <2> QED BY <2>1
  <1> QED BY <1>3

(* evictOldest, in a round of evictOverflow *)
LEMMA EvictOldestAgrees ==
  ASSUME NEW c, Agrees(c), NEW d, d = EvictOldest(c)
  PROVE  /\ Agrees(d) /\ Keeps(c, d)
         /\ IF Overflows(c) THEN Len(d.ll) = Len(c.ll) - 1 ELSE d = c
  <1>1. CASE ~Overflows(c)
    BY <1>1 DEF EvictOldest, Keeps
  <1>2. CASE Overflows(c)
    <2>1. c.ll # <<>>
      BY <1>2, EmptyFits
    <2>2. c.ll \in Seq(Keys) /\ Len(c.ll) \in Nat /\ Len(c.ll) \in 1..Len(c.ll)
      BY <2>1 DEF Agrees
    <2>3. c.ll[Len(c.ll)] \in Keys /\ Cached(c, c.ll[Len(c.ll)])
      BY <2>2 DEF Agrees
    <2>4. d = RemoveElement(c, c.ll[Len(c.ll)])
      BY <1>2, <2>1 DEF EvictOldest
    <2> QED BY <1>2, <2>3, <2>4, RemoveAgrees
  <1> QED BY <1>1, <1>2

(* evictOverflow ends with a cache within its bounds. *)
LEMMA EvictAgrees ==
  ASSUME NEW c, Agrees(c), NEW d, d = EvictOverflow(c)
  PROVE  Agrees(d) /\ Keeps(c, d) /\ ~Overflows(d)
  <1> DEFINE N == Len(c.ll)
             f == CHOOSE g : EvictsTo(c, N, g)
             S == {n \in 0..N : /\ Agrees(f[n]) /\ Keeps(c, f[n])
                                /\ Overflows(f[n]) => Len(f[n].ll) = N - n}
  <1>0. N \in Nat
    BY AgreesWeighed
  <1>1. EvictsTo(c, N, f)
    BY <1>0, EvictExists
  <1>2. d = f[N]
    BY DEF EvictOverflow, EvictsTo
  <1>3. N = Len(c.ll)
    OBVIOUS
  <1> HIDE DEF f, N
  <1>4. f[0] = c /\ \A n \in 1..N : f[n] = EvictOldest(f[n - 1])
    BY <1>0, <1>1 DEF EvictsTo
  <1>5. 0 \in S
    BY <1>0, <1>3, <1>4 DEF Keeps
  <1>6. ASSUME NEW n \in 1..N, n - 1 \in S
        PROVE  n \in S
    <2>1. /\ Agrees(f[n - 1]) /\ Keeps(c, f[n - 1])
          /\ Overflows(f[n - 1]) => Len(f[n - 1].ll) = N - (n - 1)
      BY <1>6
    <2>2. /\ Agrees(f[n]) /\ Keeps(f[n - 1], f[n])
          /\ IF Overflows(f[n - 1]) THEN Len(f[n].ll) = Len(f[n - 1].ll) - 1
             ELSE f[n] = f[n - 1]
      BY <1>4, <2>1, EvictOldestAgrees
    <2>3. Keeps(c, f[n])
      BY <2>1, <2>2 DEF Keeps
    <2>4. Overflows(f[n]) => Len(f[n].ll) = N - n
      BY <1>0, <2>1, <2>2
    <2> QED BY <1>0, <2>2, <2>3, <2>4
  <1>7. N \in S
    <2> HIDE DEF S
    <2>1. 0..N \subseteq S
      BY <1>0, <1>5, <1>6, Rounds
    <2> QED BY <1>0, <2>1
  <1>8. /\ Agrees(f[N]) /\ Keeps(c, f[N])
        /\ Overflows(f[N]) => Len(f[N].ll) = 0
    BY <1>0, <1>7
  <1>9. ~Overflows(f[N])
    <2>1. f[N].ll \in Seq(Keys)
      BY <1>8 DEF Agrees
    <2>2. Len(f[N].ll) = 0 => f[N].ll = <<>>
      BY <2>1
    <2> QED BY <1>8, <2>2, EmptyFits
  <1> QED BY <1>2, <1>8, <1>9

(* d holds e under k, or nothing, and of the rest some of what c held. *)
Puts(c, k, e, d) ==
  /\ d.items[k] \in {e, NoEntry}
  /\ \A j \in Keys : j # k => d.items[j] \in {c.items[j], NoEntry}

(* d is c with e under k, at the front of the list. *)
Pushes(c, k, e, d) ==
  /\ DOMAIN d = {"items", "ll", "weight", "index"}
  /\ d.items = [c.items EXCEPT ![k] = e] /\ d.ll = <<k>> \o c.ll
  /\ d.weight = c.weight + ValueWeight(e) /\ d.index = c.index \cup {<<k, e.val>>}

(* The new entry is at the front. *)
LEMMA PushAgrees ==
  ASSUME NEW c, Agrees(c), NEW k \in Keys, ~Cached(c, k), NEW e \in Entries,
         NEW d, Pushes(c, k, e, d)
  PROVE  /\ Agrees(d) /\ d.items[k] = e
         /\ \A j \in Keys : j # k => d.items[j] = c.items[j]
  <1>1. /\ d.items = [c.items EXCEPT ![k] = e] /\ d.ll = <<k>> \o c.ll
        /\ d.weight = c.weight + ValueWeight(e) /\ d.index = c.index \cup {<<k, e.val>>}
        /\ DOMAIN d = {"items", "ll", "weight", "index"}
    BY DEF Pushes
  <1>2. /\ Weighed(c) /\ Len(c.ll) \in Nat /\ c.ll \in Seq(Keys)
        /\ \A i \in 1..Len(c.ll) : c.ll[i] \in Keys /\ c.ll[i] # k
    <2>1. Weighed(c) /\ Len(c.ll) \in Nat /\ \A i \in 1..Len(c.ll) : c.ll[i] \in Keys
      BY AgreesWeighed
    <2>2. c.ll \in Seq(Keys) /\ \A i \in 1..Len(c.ll) : Cached(c, c.ll[i])
      BY DEF Agrees
    <2> QED BY <2>1, <2>2
  <1>3. /\ d.items \in [Keys -> Entries \cup {NoEntry}] /\ d.items[k] = e
        /\ \A j \in Keys : j # k => d.items[j] = c.items[j]
    BY <1>1 DEF Agrees
  <1>4. /\ d.ll \in Seq(Keys) /\ Len(d.ll) = Len(c.ll) + 1 /\ d.ll[1] = k
        /\ \A j \in 1..Len(c.ll) : d.ll[j + 1] = c.ll[j]
    BY <1>1, <1>2
  <1>5. \A i \in 1..Len(d.ll) : i = 1 \/ (i - 1 \in 1..Len(c.ll) /\ d.ll[i] = c.ll[i - 1])
    <2> TAKE i \in 1..Len(d.ll)
    <2>1. i = 1 \/ (i - 1 \in 1..Len(c.ll) /\ (i - 1) + 1 = i)
      BY <1>2, <1>4
    <2> QED BY <1>4, <2>1
  <1> HIDE DEF Agrees
  <1>6. Distinct(d.ll)
    <2> SUFFICES ASSUME NEW a \in 1..Len(d.ll), NEW b \in 1..Len(d.ll), d.ll[a] = d.ll[b]
                 PROVE  a = b
      BY DEF Distinct
    <2>1. CASE a = 1 \/ b = 1
      BY <1>2, <1>4, <1>5, <2>1, Zenon
    <2>2. CASE a # 1 /\ b # 1
      <3>1. /\ a - 1 \in 1..Len(c.ll) /\ b - 1 \in 1..Len(c.ll)
            /\ c.ll[a - 1] = c.ll[b - 1]
        BY <1>5, <2>2
      <3>2. a - 1 = b - 1
        BY <3>1 DEF Agrees, Distinct
      <3> QED BY <1>2, <1>4, <3>2
    <2> QED BY <2>1, <2>2
  <1>7. \A i \in 1..Len(d.ll) : Cached(d, d.ll[i])
    <2> TAKE i \in 1..Len(d.ll)
    <2>1. e # NoEntry
      BY EntryAssumption
    <2>2. CASE i = 1
      BY <1>3, <1>4, <2>1, <2>2 DEF Cached
    <2>3. CASE i # 1
      <3>1. i - 1 \in 1..Len(c.ll) /\ d.ll[i] = c.ll[i - 1]
        BY <1>5, <2>3
      <3>2. Cached(c, c.ll[i - 1])
        BY <3>1 DEF Agrees
      <3> QED BY <1>2, <1>3, <3>1, <3>2 DEF Cached
    <2> QED BY <2>2, <2>3
  <1>8. ASSUME NEW x \in Keys, Cached(d, x)
        PROVE  \E i \in 1..Len(d.ll) : d.ll[i] = x
    <2>1. CASE x = k
      <3>1. 1 \in 1..Len(d.ll)
        BY <1>2, <1>4
      <3> QED BY <1>4, <2>1, <3>1
    <2>2. CASE x # k
      <3>1. Cached(c, x)
        BY <1>3, <1>8, <2>2 DEF Cached
      <3>2. PICK i \in 1..Len(c.ll) : c.ll[i] = x
        BY <3>1 DEF Agrees
      <3>3. i + 1 \in 1..Len(d.ll) /\ d.ll[i + 1] = x
        BY <1>2, <1>4, <3>2
      <3> QED BY <3>3
    <2> QED BY <2>1, <2>2
  <1>9. d.weight = HeldWeight(d)
    <2>1. ValueWeight(d.items[k]) \in Nat
      BY <1>3, EntryWeight
    <2>3. \A j \in 1..Len(c.ll) : /\ d.ll[j + 1] = c.ll[j]
                                  /\ d.items[c.ll[j]] = c.items[c.ll[j]]
      BY <1>2, <1>3, <1>4
    <2>2. HeldWeight(d) = HeldWeight(c) + ValueWeight(d.items[k])
      <3>1. Weighed(c) /\ Len(d.ll) = Len(c.ll) + 1 /\ d.ll[1] = k
        BY <1>2, <1>4
      <3>2. Shifts(c, d)
        BY <2>3 DEF Shifts
      <3> QED BY <2>1, <3>1, <3>2, PushWeight
    <2> QED BY <1>1, <1>3, <2>2 DEF Agrees
  <1>10. d.index = {<<j, d.items[j].val>> : j \in Held(d)}
    <2>1. Held(d) = Held(c) \cup {k} /\ k \notin Held(c)
      BY <1>3, EntryAssumption DEF Held, Cached
    <2>2. \A j \in Held(c) : d.items[j] = c.items[j]
      BY <1>3, <2>1 DEF Held
    <2>3. c.index = {<<j, c.items[j].val>> : j \in Held(c)}
      BY DEF Agrees
    <2>4. d.index = {<<j, d.items[j].val>> : j \in Held(c)} \cup {<<k, d.items[k].val>>}
      BY <1>1, <1>3, <2>2, <2>3
    <2> QED BY <2>1, <2>4
  <1>11. Agrees(d)
    BY <1>1, <1>3, <1>4, <1>6, <1>7, <1>8, <1>9, <1>10 DEF Agrees
  <1> QED BY <1>3, <1>11

(* storeLocked *)
LEMMA StoreAgrees ==
  ASSUME NEW c, Agrees(c), ~Overflows(c), NEW k \in Keys, NEW e \in Entries,
         NEW d, d = StoreLocked(c, k, e)
  PROVE  Agrees(d) /\ ~Overflows(d) /\ Puts(c, k, e, d)
  <1> DEFINE room == RemoveElement(c, k)
             full == [items  |-> [room.items EXCEPT ![k] = e],
                      ll     |-> <<k>> \o room.ll,
                      weight |-> room.weight + ValueWeight(e),
                      index  |-> room.index \cup {<<k, e.val>>}]
  <1>1. /\ Agrees(room) /\ Keeps(c, room) /\ room.items[k] = NoEntry
        /\ Len(room.ll) = IF Cached(c, k) THEN Len(c.ll) - 1 ELSE Len(c.ll)
    BY RemoveAgrees
  <1>2. CASE MaxWeight > 0 /\ ValueWeight(e) > MaxWeight
    <2>1. d = room
      BY <1>2 DEF StoreLocked
    <2>2. ~Overflows(room)
      BY RemoveFits
    <2> HIDE DEF room
    <2> QED BY <1>1, <2>1, <2>2 DEF Puts, Keeps
  <1>3. CASE ~(MaxWeight > 0 /\ ValueWeight(e) > MaxWeight)
    <2>1. d = EvictOverflow(full)
      BY <1>3 DEF StoreLocked
    <2>2. ~Cached(room, k)
      BY <1>1 DEF Cached
    <2>4. PICK g : /\ g = full /\ DOMAIN g = {"items", "ll", "weight", "index"}
                   /\ g.items = [room.items EXCEPT ![k] = e] /\ g.ll = <<k>> \o room.ll
                   /\ g.weight = room.weight + ValueWeight(e)
                   /\ g.index = room.index \cup {<<k, e.val>>}
      <3> HIDE DEF room
      <3>1. /\ DOMAIN full = {"items", "ll", "weight", "index"}
            /\ full.items = [room.items EXCEPT ![k] = e] /\ full.ll = <<k>> \o room.ll
            /\ full.weight = room.weight + ValueWeight(e)
            /\ full.index = room.index \cup {<<k, e.val>>}
        OBVIOUS
      <3> HIDE DEF full
      <3> QED BY <3>1
    <2> HIDE DEF room
    <2>5. /\ Agrees(g) /\ g.items[k] = e
          /\ \A j \in Keys : j # k => g.items[j] = room.items[j]
      <3>1. Pushes(room, k, e, g)
        BY <2>4 DEF Pushes
      <3> QED BY <1>1, <2>2, <3>1, PushAgrees
    <2> HIDE DEF full
    <2>6. Agrees(d) /\ Keeps(g, d) /\ ~Overflows(d)
      BY <2>1, <2>4, <2>5, EvictAgrees
    <2> QED BY <1>1, <2>5, <2>6 DEF Puts, Keeps
  <1> QED BY <1>2, <1>3

(* A hit moves the entry to the front, and changes nothing else. *)
LEMMA MoveAgrees ==
  ASSUME NEW c, Agrees(c), ~Overflows(c), NEW k \in Keys, Cached(c, k),
         NEW d, d = MoveToFront(c, k)
  PROVE  Agrees(d) /\ ~Overflows(d) /\ d.items = c.items
  <1>1. PICK room : room = RemoveElement(c, k)
    OBVIOUS
  <1>2. PICK e : e = c.items[k]
    OBVIOUS
  <1>3. e \in Entries
    BY <1>2 DEF Agrees, Cached
  <1>4. /\ Agrees(room) /\ room.items[k] = NoEntry /\ Len(room.ll) = Len(c.ll) - 1
    BY <1>1, RemoveAgrees
  <1>5. /\ room.items = [c.items EXCEPT ![k] = NoEntry]
        /\ room.ll = Without(c, k)
        /\ room.weight = c.weight - ValueWeight(e)
        /\ room.index = c.index \ {<<k, e.val>>}
    BY <1>1, <1>2 DEF RemoveElement
  <1>6. /\ DOMAIN d = {"items", "ll", "weight", "index"}
        /\ d.items = c.items /\ d.ll = <<k>> \o Without(c, k)
        /\ d.weight = c.weight /\ d.index = c.index
    BY DEF MoveToFront, Agrees
  <1>7. Len(c.ll) \in Nat /\ c.weight \in Int /\ ValueWeight(e) \in Nat
    BY <1>3, AgreesWeighed, EntryWeight
  <1>8. <<k, e.val>> \in c.index
    BY <1>2 DEF Agrees, Held
  <1>9. Pushes(room, k, e, d)
    <2>1. d.items = [room.items EXCEPT ![k] = e]
      BY <1>2, <1>5, <1>6, Zenon DEF Agrees
    <2>2. d.weight = room.weight + ValueWeight(e)
      BY <1>5, <1>6, <1>7
    <2>3. d.index = room.index \cup {<<k, e.val>>}
      BY <1>5, <1>6, <1>8, Zenon
    <2> QED BY <1>5, <1>6, <2>1, <2>2, <2>3 DEF Pushes
  <1>10. Agrees(d)
    <2>1. ~Cached(room, k)
      BY <1>4 DEF Cached
    <2> QED BY <1>3, <1>4, <1>9, <2>1, PushAgrees
  <1>11. Len(d.ll) = Len(c.ll)
    <2>1. Held(d) = Held(c)
      BY <1>6 DEF Held, Cached
    <2> QED BY <1>10, <2>1, OneEntry
  <1> QED BY <1>6, <1>10, <1>11 DEF Overflows

(* f is the cache after 0, 1, ..., m rounds of a deletion of the keys in S. *)
RemovesTo(c, S, m, f) ==
  f = [n \in 0..m |-> IF n = 0 THEN c
                      ELSE IF c.ll[n] \in S THEN RemoveElement(f[n - 1], c.ll[n])
                      ELSE f[n - 1]]

(* The loop of a deletion has a value in every round. *)
LEMMA RemovesExist ==
  ASSUME NEW c, NEW S, NEW N \in Nat
  PROVE  \E f : RemovesTo(c, S, N, f)
  <1> DEFINE T == {m \in 0..N : \E f : RemovesTo(c, S, m, f)}
  <1>1. 0 \in T
    <2>1. RemovesTo(c, S, 0, [n \in 0..0 |-> c])
      BY DEF RemovesTo
    <2> QED BY <2>1
  <1>2. ASSUME NEW m \in 1..N, m - 1 \in T
        PROVE  m \in T
    <2>1. PICK f : RemovesTo(c, S, m - 1, f)
      BY <1>2
    <2> DEFINE g == [n \in 0..m |->
                       IF n < m THEN f[n]
                       ELSE IF c.ll[m] \in S THEN RemoveElement(f[m - 1], c.ll[m])
                       ELSE f[m - 1]]
    <2>2. ASSUME NEW n \in 0..m
          PROVE  g[n] = IF n = 0 THEN c
                        ELSE IF c.ll[n] \in S THEN RemoveElement(g[n - 1], c.ll[n])
                        ELSE g[n - 1]
      <3>1. m - 1 \in Nat
        OBVIOUS
      <3>2. /\ f[0] = c
            /\ \A i \in 1..(m - 1) :
                 f[i] = IF c.ll[i] \in S THEN RemoveElement(f[i - 1], c.ll[i]) ELSE f[i - 1]
        BY <2>1, <3>1 DEF RemovesTo
      <3>3. CASE n = 0
        BY <3>2, <3>3
      <3>4. CASE n \in 1..(m - 1)
        BY <3>2, <3>4
      <3>5. CASE n = m
        BY <3>5
      <3> QED BY <3>3, <3>4, <3>5
    <2>3. RemovesTo(c, S, m, g)
      BY <2>2 DEF RemovesTo
    <2> QED BY <2>3
  <1>3. N \in T
    <2> HIDE DEF T
    <2>1. 0..N \subseteq T
      BY <1>1, <1>2, Rounds
    <2> QED BY <2>1
  <1> QED BY <1>3

(* d is c without the entries of S. *)
Deletes(c, S, d) ==
  \A k \in Keys : d.items[k] = IF k \in S THEN NoEntry ELSE c.items[k]

(* Invalidate, InvalidateWhere and InvalidateWhereValue delete exactly the
   keys they are about. *)
LEMMA RemoveAllAgrees ==
  ASSUME NEW c, Agrees(c), ~Overflows(c), NEW S, NEW d, d = RemoveAll(c, S)
  PROVE  Agrees(d) /\ ~Overflows(d) /\ Deletes(c, S, d)
  <1> DEFINE N == Len(c.ll)
             f == CHOOSE g : RemovesTo(c, S, N, g)
             Gone(n) == {c.ll[i] : i \in {j \in 1..n : c.ll[j] \in S}}
             T == {n \in 0..N : /\ Agrees(f[n]) /\ ~Overflows(f[n])
                                /\ Deletes(c, Gone(n), f[n])}
  <1>0. N \in Nat
    BY AgreesWeighed
  <1>1. RemovesTo(c, S, N, f)
    BY <1>0, RemovesExist
  <1>2. d = f[N]
    BY DEF RemoveAll, RemovesTo
  <1>3. N = Len(c.ll) /\ \A i \in 1..N : c.ll[i] \in Keys
    BY AgreesWeighed
  <1> HIDE DEF f, N
  <1>4. /\ f[0] = c
        /\ \A n \in 1..N :
             f[n] = IF c.ll[n] \in S THEN RemoveElement(f[n - 1], c.ll[n]) ELSE f[n - 1]
    BY <1>0, <1>1 DEF RemovesTo
  <1>5. 0 \in T
    BY <1>0, <1>4 DEF Deletes
  <1>6. ASSUME NEW n \in 1..N, n - 1 \in T
        PROVE  n \in T
    <2>1. /\ Agrees(f[n - 1]) /\ ~Overflows(f[n - 1])
          /\ Deletes(c, Gone(n - 1), f[n - 1]) /\ c.ll[n] \in Keys
      BY <1>3, <1>6
    <2>2. CASE c.ll[n] \notin S
      <3>1. f[n] = f[n - 1]
        BY <1>4, <2>2
      <3>2. Gone(n) = Gone(n - 1)
        BY <1>0, <2>2
      <3> HIDE DEF Gone
      <3>3. Agrees(f[n]) /\ ~Overflows(f[n]) /\ Deletes(c, Gone(n), f[n]) /\ n \in 0..N
        BY <1>0, <2>1, <3>1, <3>2
      <3> QED BY <3>3
    <2>3. CASE c.ll[n] \in S
      <3>1. f[n] = RemoveElement(f[n - 1], c.ll[n])
        BY <1>4, <2>3
      <3>2. Gone(n) = Gone(n - 1) \cup {c.ll[n]}
        BY <1>0, <2>3
      <3> HIDE DEF Gone
      <3>3. /\ Agrees(f[n]) /\ f[n].items[c.ll[n]] = NoEntry
            /\ \A j \in Keys : j # c.ll[n] => f[n].items[j] = f[n - 1].items[j]
        BY <2>1, <3>1, RemoveAgrees
      <3>4. ~Overflows(f[n])
        BY <2>1, <3>1, RemoveFits
      <3>5. Deletes(c, Gone(n), f[n])
        BY <2>1, <3>2, <3>3 DEF Deletes
      <3> QED BY <1>0, <3>3, <3>4, <3>5
    <2> QED BY <2>2, <2>3
  <1>7. N \in T
    <2> HIDE DEF T
    <2>1. 0..N \subseteq T
      BY <1>0, <1>5, <1>6, Rounds
    <2> QED BY <1>0, <2>1
  <1>8. Agrees(f[N]) /\ ~Overflows(f[N]) /\ Deletes(c, Gone(N), f[N])
    BY <1>7
  <1>9. \A k \in Keys : Cached(c, k) => (k \in Gone(N) <=> k \in S)
    BY <1>3 DEF Agrees
  <1> HIDE DEF Gone
  <1>10. Deletes(c, S, f[N])
    <2>1. Gone(N) \subseteq S
      BY DEF Gone
    <2> QED BY <1>8, <1>9, <2>1 DEF Deletes, Cached
  <1> QED BY <1>2, <1>8, <1>10

(* A round of the loop of storeBatchIfEpoch over the misses of q, and f, the
   cache after 0, 1, ..., m of them. *)
StoreRound(c, q, loaded, n) ==
  StoreLocked(c, q[n].key, Entry(loaded[q[n].key], q[n].hash, TRUE))

(* f is the loop of StoreBatchIfEpoch over the list q. *)
StoresTo(c, q, loaded, m, f) ==
  f = [n \in 0..m |-> IF n = 0 THEN c ELSE StoreRound(f[n - 1], q, loaded, n)]

(* The loop has a value in every round. *)
LEMMA StoresExist ==
  ASSUME NEW c, NEW q, NEW loaded, NEW N \in Nat
  PROVE  \E f : StoresTo(c, q, loaded, N, f)
  <1> DEFINE T == {m \in 0..N : \E f : StoresTo(c, q, loaded, m, f)}
             put(x, n) == StoreRound(x, q, loaded, n)
  <1>1. 0 \in T
    <2>1. StoresTo(c, q, loaded, 0, [n \in 0..0 |-> c])
      BY DEF StoresTo
    <2> QED BY <2>1
  <1>2. ASSUME NEW m \in 1..N, m - 1 \in T
        PROVE  m \in T
    <2>1. PICK f : StoresTo(c, q, loaded, m - 1, f)
      BY <1>2
    <2> DEFINE g == [n \in 0..m |-> IF n < m THEN f[n] ELSE put(f[m - 1], m)]
    <2>2. ASSUME NEW n \in 0..m
          PROVE  g[n] = IF n = 0 THEN c ELSE put(g[n - 1], n)
      <3>1. m - 1 \in Nat
        OBVIOUS
      <3>2. f[0] = c /\ \A i \in 1..(m - 1) : f[i] = put(f[i - 1], i)
        BY <2>1, <3>1 DEF StoresTo
      <3>3. CASE n = 0
        BY <3>2, <3>3
      <3>4. CASE n \in 1..(m - 1)
        BY <3>2, <3>4
      <3>5. CASE n = m
        BY <3>5
      <3> QED BY <3>3, <3>4, <3>5
    <2>3. StoresTo(c, q, loaded, m, g)
      BY <2>2 DEF StoresTo
    <2> QED BY <2>3
  <1>3. N \in T
    <2> HIDE DEF T
    <2>1. 0..N \subseteq T
      BY <1>1, <1>2, Rounds
    <2> QED BY <2>1
  <1> QED BY <1>3

(* d holds, under each key, what c held, or nothing, or the loaded value of a
   miss of q. *)
PutsAll(c, q, loaded, d) ==
  \A k \in Keys :
    \/ d.items[k] \in {c.items[k], NoEntry}
    \/ \E i \in 1..Len(q) : /\ q[i].key = k
                            /\ d.items[k] = Entry(loaded[k], q[i].hash, TRUE)

(* storeBatchIfEpoch under an epoch that has not moved *)
LEMMA StoreBatchAgrees ==
  ASSUME NEW c, Agrees(c), ~Overflows(c), NEW q, NEW loaded, Len(q) \in Nat,
         \A i \in 1..Len(q) : /\ q[i].key \in Keys
                              /\ Entry(loaded[q[i].key], q[i].hash, TRUE) \in Entries,
         NEW d, d = (CHOOSE g : StoresTo(c, q, loaded, Len(q), g))[Len(q)]
  PROVE  Agrees(d) /\ ~Overflows(d) /\ PutsAll(c, q, loaded, d)
  <1> DEFINE N == Len(q)
             f == CHOOSE g : StoresTo(c, q, loaded, N, g)
             e(n) == Entry(loaded[q[n].key], q[n].hash, TRUE)
             T == {n \in 0..N : /\ Agrees(f[n]) /\ ~Overflows(f[n])
                                /\ PutsAll(c, q, loaded, f[n])}
  <1>0. N \in Nat
    OBVIOUS
  <1>1. StoresTo(c, q, loaded, N, f)
    BY <1>0, StoresExist
  <1>2. d = f[N]
    OBVIOUS
  <1>3. \A i \in 1..N : q[i].key \in Keys /\ e(i) \in Entries
    BY Zenon
  <1> HIDE DEF f
  <1>4. f[0] = c /\ \A n \in 1..N : f[n] = StoreLocked(f[n - 1], q[n].key, e(n))
    BY <1>0, <1>1 DEF StoresTo, StoreRound
  <1>5. 0 \in T
    <2>1. PutsAll(c, q, loaded, c)
      <3>1. \A k \in Keys : c.items[k] \in {c.items[k], NoEntry}
        OBVIOUS
      <3> QED BY <3>1, Zenon DEF PutsAll
    <2> QED BY <1>0, <1>4, <2>1
  <1>6. ASSUME NEW n \in 1..N, n - 1 \in T
        PROVE  n \in T
    <2>1. /\ Agrees(f[n - 1]) /\ ~Overflows(f[n - 1]) /\ PutsAll(c, q, loaded, f[n - 1])
      BY <1>6
    <2>2. /\ q[n].key \in Keys /\ e(n) \in Entries
          /\ f[n] = StoreLocked(f[n - 1], q[n].key, e(n))
      BY <1>3, <1>4, Zenon
    <2>3. PICK x : x = e(n)
      BY ZenonT(30)
    <2> HIDE DEF e
    <2>4. Agrees(f[n]) /\ ~Overflows(f[n]) /\ Puts(f[n - 1], q[n].key, x, f[n])
      BY <2>1, <2>2, <2>3, StoreAgrees
    <2>5. PutsAll(c, q, loaded, f[n])
      <3> SUFFICES ASSUME NEW k \in Keys
                   PROVE  \/ f[n].items[k] \in {c.items[k], NoEntry}
                          \/ \E i \in 1..Len(q) :
                               /\ q[i].key = k
                               /\ f[n].items[k] = Entry(loaded[k], q[i].hash, TRUE)
        BY Zenon DEF PutsAll
      <3>1. CASE k = q[n].key
        <4>1. x = Entry(loaded[k], q[n].hash, TRUE)
          BY <2>3, <3>1 DEF e
        <4> QED BY <2>4, <3>1, <4>1, Zenon DEF Puts
      <3>2. CASE k # q[n].key
        <4>1. f[n].items[k] \in {f[n - 1].items[k], NoEntry}
          BY <2>4, <3>2 DEF Puts
        <4>2. CASE f[n].items[k] = NoEntry
          BY <4>2
        <4>3. CASE f[n].items[k] = f[n - 1].items[k]
          <5>1. \/ f[n - 1].items[k] \in {c.items[k], NoEntry}
                \/ \E i \in 1..Len(q) :
                     /\ q[i].key = k
                     /\ f[n - 1].items[k] = Entry(loaded[k], q[i].hash, TRUE)
            BY <2>1, Zenon DEF PutsAll
          <5> QED BY <4>3, <5>1, Zenon
        <4> QED BY <4>1, <4>2, <4>3, ZenonT(30)
      <3> QED BY <3>1, <3>2, Zenon
    <2> QED BY <1>0, <2>4, <2>5
  <1>7. N \in T
    <2> HIDE DEF T, N
    <2>1. 0..N \subseteq T
      BY <1>0, <1>5, <1>6, Rounds
    <2> QED BY <1>0, <2>1
  <1> QED BY <1>2, <1>7

-----------------------------------------------------------------------------
(* The inductive invariant *)

(* Where a caller of GetOrLoad and a batch may be: leading a load, passing
   through a batch, owning flights. *)
Leading == {"again", "snapshot", "load", "store", "return"}
Working == Leading \cup {"lookup", "join", "wait"}
Passing == {"lookup", "load", "store", "complete", "collect"}
Owning == {"load", "store", "complete"}

(* What is passed between them. *)
Answers == [val : Nat, need : Nat]
Misses == [key : Keys, hash : Hashes, cacheable : BOOLEAN]
Waits == [miss : Misses, owner : Batches]
FlightIds == [key : Keys, hash : Hashes, cacheable : BOOLEAN, epoch : 0..MaxEpoch]
Flights == [id : FlightIds, owner : Batches]

(* The types of a caller, a builder and a batch. *)
CallStates ==
  [pc : Working \cup {"idle", "done", "failed"}, key : Keys \cup {Nobody}, hash : Hashes,
   epoch : 0..MaxEpoch, leader : Readers \cup {Nobody}, stored : BOOLEAN, got : Answers]

BuildStates ==
  [pc : {"idle", "load", "store", "done"}, key : Keys \cup {Nobody},
   epoch : 0..MaxEpoch, val : Hashes]

BatchStates ==
  [pc : Passing \cup {"idle", "pass", "done", "failed"}, keys : SUBSET Keys,
   base : [Keys -> Hashes], epoch : 0..MaxEpoch, rest : SUBSET Keys,
   missing : SUBSET Misses, owned : SUBSET Misses, waits : SUBSET Waits,
   heard : SUBSET {"retry", "error"}, loaded : [Keys -> Hashes],
   verdict : {"ok", "retry", "error"}, out : [Keys -> Answers]]

(* Of a caller of GetOrLoad in state c, over the rows rw, the published
   versions fl and the epoch ep: the version it asked for exists, what it has
   loaded is no older, nor older than an invalidation unless the epoch tells. *)
CallFine(c, rw, fl, ep) ==
  /\ c \in CallStates
  /\ c.epoch <= ep
  /\ c.pc \in Working => c.key \in Keys /\ c.hash <= rw[c.key]
  /\ c.pc = "store" => /\ c.got.val \in Versions /\ c.got.val >= c.hash
                       /\ ep = c.epoch => c.got.val >= fl[c.key]
  /\ c.pc = "done" \/ (c.pc = "return" /\ c.stored) => c.got.val >= c.got.need

(* Of a builder *)
BuildFine(c, fl, ep) ==
  /\ c \in BuildStates
  /\ c.epoch <= ep
  /\ c.pc \in {"load", "store"} => c.key \in Keys
  /\ c.pc = "store" => c.val \in Versions /\ (ep = c.epoch => c.val >= fl[c.key])

(* Of a caller of GetOrLoadBatch *)
BatchFine(c, rw, fl, ep) ==
  /\ c \in BatchStates
  /\ c.epoch <= ep
  /\ \A k \in Keys : c.base[k] <= fl[k] /\ c.out[k].val >= c.out[k].need
  /\ \A m \in c.missing \cup c.owned : m.hash <= rw[m.key]
  /\ c.waits # {} => c.pc \in Passing
  /\ c.pc = "store" \/ (c.pc = "complete" /\ c.verdict = "ok") =>
       \A m \in c.owned : /\ c.loaded[m.key] \in Versions /\ c.loaded[m.key] >= m.hash
                          /\ ep = c.epoch => c.loaded[m.key] >= fl[m.key]

(* What the batch in state c has stored is as new as what the batch in state a
   asks for, if a may wait for it. *)
Shares(a, c) ==
  c.pc = "complete" /\ c.verdict = "ok" /\ a.pc \in Passing /\ a.epoch = c.epoch =>
    \A m \in c.owned : c.loaded[m.key] >= a.base[m.key]

(* The rows, the floors the readers have been promised, and the epochs. *)
BackendOK ==
  /\ row \in [Keys -> Versions]
  /\ floor \in [Keys -> Versions]
  /\ \A k \in Keys : floor[k] <= row[k]
  /\ epoch \in 0..MaxEpoch

(* The store is in order, within its limits, and holds nothing stale. *)
StoreOK == Agrees(cache) /\ ~Overflows(cache) /\ EntriesFresh

(* Every caller is where its locals allow. *)
CallsOK ==
  /\ call = [r \in Readers |-> call[r]]
  /\ \A r \in Readers : CallFine(call[r], row, floor, epoch)

(* So is every builder. *)
BuildsOK ==
  /\ build = [u \in Builders |-> build[u]]
  /\ \A u \in Builders : BuildFine(build[u], floor, epoch)

(* So is every batch. *)
BatchesOK ==
  /\ batch = [b \in Batches |-> batch[b]]
  /\ \A b \in Batches : BatchFine(batch[b], row, floor, epoch)
  /\ \A a, b \in Batches : Shares(batch[a], batch[b])

(* The group has an open flight for every caller that runs the function, and
   for no other; nobody else has a leader but those who wait for it. *)
GroupOK ==
  /\ sf \in [Keys \X Hashes -> Readers \cup {Nobody}]
  /\ \A r \in Readers : call[r].pc \in Leading => call[r].leader = r /\ sf[Flight(r)] = r
  /\ \A r \in Readers : call[r].pc = "wait" =>
       call[r].leader \in Readers /\ sf[Flight(r)] = call[r].leader
  /\ \A f \in Keys \X Hashes : sf[f] # Nobody =>
       call[sf[f]].pc \in Leading /\ Flight(sf[f]) = f
  /\ \A r \in Readers : call[r].pc \notin Leading \cup {"wait"} => call[r].leader = Nobody

(* A registered flight belongs to a batch that will complete it. *)
FlightsOK ==
  /\ flights \subseteq Flights
  /\ \A f \in flights :
       /\ batch[f.owner].pc \in Owning
       /\ \E m \in batch[f.owner].owned : f.id = FlightKey(m, batch[f.owner].epoch)
  /\ \A b \in Batches : \A w \in batch[b].waits :
       [id |-> FlightKey(w.miss, batch[b].epoch), owner |-> w.owner] \in flights

(* The inductive invariant. *)
CacheInv == BackendOK /\ StoreOK /\ CallsOK /\ BuildsOK /\ BatchesOK /\ GroupOK /\ FlightsOK

-----------------------------------------------------------------------------
(* The entries *)

(* An entry may enter under its key. *)
MayEnter(e, k) == e \in Entries /\ (e.guarded => e.val >= floor[k] /\ e.val >= e.hash)

(* What the cache holds afterwards it held before, or it may enter. *)
LEMMA FreshAfter ==
  ASSUME EntriesFresh, floor' = floor,
         \A k \in Keys : \/ cache'.items[k] \in {cache.items[k], NoEntry}
                         \/ MayEnter(cache'.items[k], k)
  PROVE  EntriesFresh'
  <1> SUFFICES ASSUME NEW k \in Keys, cache'.items[k] # NoEntry, cache'.items[k].guarded
               PROVE  /\ cache'.items[k].val >= floor[k]
                      /\ cache'.items[k].val >= cache'.items[k].hash
    BY DEF EntriesFresh, Held, Cached
  <1>1. CASE cache'.items[k] = cache.items[k]
    BY <1>1 DEF EntriesFresh, Held, Cached
  <1>2. CASE MayEnter(cache'.items[k], k)
    BY <1>2 DEF MayEnter
  <1> QED BY <1>1, <1>2

(* storeLocked with a value that may enter *)
LEMMA StoreStep ==
  ASSUME StoreOK, floor' = floor, NEW k \in Keys, NEW e, MayEnter(e, k),
         cache' = StoreLocked(cache, k, e)
  PROVE  StoreOK'
  <1>1. Agrees(cache') /\ ~Overflows(cache') /\ Puts(cache, k, e, cache')
    BY StoreAgrees DEF StoreOK, MayEnter
  <1>2. EntriesFresh'
    BY <1>1, FreshAfter DEF Puts, StoreOK
  <1> QED BY <1>1, <1>2 DEF StoreOK

(* A lookup *)
LEMMA LookupStep ==
  ASSUME StoreOK, floor' = floor, NEW k \in Keys, NEW h,
         LookupHit(k, h) \/ LookupMiss(k, h)
  PROVE  StoreOK'
  <1>1. CASE LookupHit(k, h)
    <2>1. Cached(cache, k) /\ cache' = MoveToFront(cache, k)
      BY <1>1 DEF LookupHit, Hits
    <2>2. Agrees(cache') /\ ~Overflows(cache') /\ cache'.items = cache.items
      BY <2>1, MoveAgrees DEF StoreOK
    <2> QED BY <2>2, FreshAfter DEF StoreOK
  <1>2. CASE cache' = cache
    BY <1>2 DEF StoreOK, EntriesFresh, Held
  <1>3. CASE cache' = RemoveElement(cache, k)
    <2>1. Agrees(cache') /\ Keeps(cache, cache')
      BY <1>3, RemoveAgrees DEF StoreOK
    <2>2. ~Overflows(cache')
      BY <1>3, RemoveFits DEF StoreOK
    <2> QED BY <2>1, <2>2, FreshAfter DEF StoreOK, Keeps
  <1> QED BY <1>1, <1>2, <1>3 DEF LookupMiss

(* What a hit answers is as new as it must be. *)
LEMMA HitFresh ==
  ASSUME StoreOK, BackendOK, NEW k \in Keys, NEW h \in Hashes, Hits(k, h),
         NEW a, a = HitAnswer(k, h)
  PROVE  a \in Answers /\ a.val >= a.need
  <1>1. PICK e : e = cache.items[k]
    OBVIOUS
  <1>2. e \in Entries /\ (e.guarded => e.val >= floor[k] /\ e.val >= e.hash)
    BY <1>1 DEF StoreOK, Agrees, Hits, EntriesFresh, Held, Cached
  <1>3. e.val \in Nat /\ e.hash \in Nat /\ floor[k] \in Nat /\ h \in Nat
    BY <1>2, CacheAssumption DEF Entries, BackendOK, Versions, Hashes
  <1>4. h # 0 => e.hash = h
    BY <1>1 DEF Hits
  <1>5. a = [val |-> e.val, need |-> IF e.guarded THEN AtLeast(floor[k], h) ELSE 0]
    BY <1>1 DEF HitAnswer, Answer
  <1>6. AtLeast(floor[k], h) \in Nat /\ (e.guarded => e.val >= AtLeast(floor[k], h))
    BY <1>2, <1>3, <1>4 DEF AtLeast
  <1> QED BY <1>3, <1>5, <1>6 DEF Answers

(* The deletions of an invalidation leave what is as new as it publishes. *)
LEMMA DeleteStep ==
  ASSUME StoreOK, NEW S, cache' = RemoveAll(cache, S),
         \A k \in Keys : k \notin S => floor'[k] = floor[k]
  PROVE  StoreOK'
  <1>1. Agrees(cache') /\ ~Overflows(cache') /\ Deletes(cache, S, cache')
    BY RemoveAllAgrees DEF StoreOK
  <1>2. EntriesFresh'
    BY <1>1 DEF Deletes, StoreOK, EntriesFresh, Held, Cached
  <1> QED BY <1>1, <1>2 DEF StoreOK

-----------------------------------------------------------------------------
(* Time passes: rows change, and an invalidation that publishes them moves the
   epoch. *)

(* Rows, floors and epochs only grow. *)
Ages(rw, fl, ep, rw2, fl2, ep2) ==
  /\ rw \in [Keys -> Versions] /\ rw2 \in [Keys -> Versions]
  /\ fl \in [Keys -> Versions] /\ fl2 \in [Keys -> Versions]
  /\ ep \in 0..MaxEpoch /\ ep2 \in 0..MaxEpoch /\ ep <= ep2
  /\ \A k \in Keys : rw[k] <= rw2[k] /\ fl[k] <= fl2[k]
  /\ ep = ep2 => fl2 = fl

(* A caller of GetOrLoad stays in order. *)
LEMMA CallAges ==
  ASSUME NEW c, NEW rw, NEW fl, NEW ep, NEW rw2, NEW fl2, NEW ep2,
         Ages(rw, fl, ep, rw2, fl2, ep2), CallFine(c, rw, fl, ep)
  PROVE  CallFine(c, rw2, fl2, ep2)
  <1>1. c \in CallStates /\ c.epoch \in Nat /\ c.hash \in Nat
    BY CacheAssumption DEF CallFine, CallStates, Hashes
  <1>2. c.epoch <= ep2 /\ (c.epoch = ep2 => ep = ep2)
    BY <1>1, CacheAssumption DEF CallFine, Ages
  <1>3. c.pc \in Working => c.key \in Keys /\ c.hash <= rw2[c.key]
    BY <1>1, CacheAssumption DEF CallFine, Ages, Versions
  <1> QED BY <1>1, <1>2, <1>3 DEF CallFine, Ages

(* A builder stays in order. *)
LEMMA BuildAges ==
  ASSUME NEW c, NEW rw, NEW fl, NEW ep, NEW rw2, NEW fl2, NEW ep2,
         Ages(rw, fl, ep, rw2, fl2, ep2), BuildFine(c, fl, ep)
  PROVE  BuildFine(c, fl2, ep2)
  <1>1. c \in BuildStates /\ c.epoch \in Nat
    BY CacheAssumption DEF BuildFine, BuildStates
  <1>2. c.epoch <= ep2 /\ (c.epoch = ep2 => ep = ep2)
    BY <1>1, CacheAssumption DEF BuildFine, Ages
  <1> QED BY <1>1, <1>2 DEF BuildFine, Ages

(* A batch stays in order. *)
LEMMA BatchAges ==
  ASSUME NEW c, NEW rw, NEW fl, NEW ep, NEW rw2, NEW fl2, NEW ep2,
         Ages(rw, fl, ep, rw2, fl2, ep2), BatchFine(c, rw, fl, ep)
  PROVE  BatchFine(c, rw2, fl2, ep2)
  <1>1. /\ c \in BatchStates /\ c.epoch \in Nat
        /\ \A k \in Keys : c.base[k] \in Nat
        /\ \A m \in c.missing \cup c.owned : m \in Misses
    BY CacheAssumption DEF BatchFine, BatchStates, Hashes
  <1>2. c.epoch <= ep2 /\ (ep2 = c.epoch => ep = c.epoch /\ fl2 = fl)
    BY <1>1, CacheAssumption DEF BatchFine, Ages
  <1>3. \A k \in Keys : c.base[k] <= fl2[k]
    <2> TAKE k \in Keys
    <2>1. c.base[k] <= fl[k] /\ fl[k] <= fl2[k] /\ fl[k] \in Nat /\ fl2[k] \in Nat
      BY CacheAssumption DEF BatchFine, Ages, Versions
    <2> QED BY <1>1, <2>1
  <1>4. \A m \in c.missing \cup c.owned : m.hash <= rw2[m.key]
    <2> TAKE m \in c.missing \cup c.owned
    <2>1. m.key \in Keys /\ m.hash \in Nat
      BY <1>1, CacheAssumption DEF Misses, Hashes
    <2>2. m.hash <= rw[m.key] /\ rw[m.key] <= rw2[m.key]
      BY <2>1 DEF BatchFine, Ages
    <2>3. rw[m.key] \in Nat /\ rw2[m.key] \in Nat
      BY <2>1, CacheAssumption DEF Ages, Versions
    <2> QED BY <2>1, <2>2, <2>3
  <1>5. c.pc = "store" \/ (c.pc = "complete" /\ c.verdict = "ok") =>
          \A m \in c.owned : /\ c.loaded[m.key] \in Versions /\ c.loaded[m.key] >= m.hash
                             /\ ep2 = c.epoch => c.loaded[m.key] >= fl2[m.key]
    BY <1>2 DEF BatchFine
  <1> QED BY <1>1, <1>2, <1>3, <1>4, <1>5 DEF BatchFine

(* Every caller stays in order while the backend moves. *)
LEMMA BackendMoves ==
  ASSUME CacheInv, Ages(row, floor, epoch, row', floor', epoch'),
         \A k \in Keys : floor'[k] <= row'[k],
         call' = call, sf' = sf, batch' = batch, flights' = flights, build' = build
  PROVE  BackendOK' /\ CallsOK' /\ BuildsOK' /\ BatchesOK' /\ GroupOK' /\ FlightsOK'
  <1>1. BackendOK'
    BY DEF BackendOK, Ages
  <1>2. CallsOK'
    BY CallAges DEF CacheInv, CallsOK
  <1>3. BuildsOK'
    BY BuildAges DEF CacheInv, BuildsOK
  <1>4. BatchesOK'
    BY BatchAges DEF CacheInv, BatchesOK
  <1>5. GroupOK'
    BY DEF CacheInv, GroupOK, Flight
  <1>6. FlightsOK'
    BY DEF CacheInv, FlightsOK
  <1> QED BY <1>1, <1>2, <1>3, <1>4, <1>5, <1>6

(* A writer commits, an invalidation or a flush publishes. *)
LEMMA BackendSteps ==
  ASSUME CacheInv,
         \/ \E k \in Keys : Write(k)
         \/ \E S \in SUBSET Keys : Invalidate(S)
         \/ Flush
  PROVE  CacheInv'
  <1>0. BackendOK /\ StoreOK
    BY DEF CacheInv
  <1>1. ASSUME NEW k \in Keys, Write(k)
        PROVE  CacheInv'
    <2>1. /\ row' \in [Keys -> Versions] /\ floor' = floor /\ epoch' = epoch
          /\ \A j \in Keys : row[j] <= row'[j]
      <3>1. row' = [row EXCEPT ![k] = row[k] + 1] /\ row[k] < MaxVersion
        BY <1>1 DEF Write
      <3>2. row \in [Keys -> Versions] /\ \A j \in Keys : row[j] \in Nat
        BY <1>0 DEF BackendOK, Versions
      <3>3. row[k] + 1 \in Versions
        BY <3>1, <3>2, CacheAssumption DEF Versions
      <3>4. \A j \in Keys : row'[j] = IF j = k THEN row[k] + 1 ELSE row[j]
        BY <3>1, <3>2
      <3>5. row' \in [Keys -> Versions]
        BY <3>1, <3>2, <3>3
      <3>6. \A j \in Keys : row[j] <= row'[j]
        BY <3>2, <3>4
      <3> QED BY <1>1, <3>5, <3>6 DEF Write
    <2>2. Ages(row, floor, epoch, row', floor', epoch')
      BY <1>0, <2>1, CacheAssumption DEF Ages, BackendOK, Versions
    <2>3. \A j \in Keys : floor'[j] <= row'[j]
      BY <1>0, <2>1, CacheAssumption DEF BackendOK, Versions
    <2>4. StoreOK'
      BY <1>0, <1>1, <2>1 DEF Write, StoreOK, EntriesFresh, Held
    <2> QED BY <1>1, <2>2, <2>3, <2>4, BackendMoves DEF Write, CacheInv
  <1>2. ASSUME NEW S \in SUBSET Keys, Invalidate(S)
        PROVE  CacheInv'
    <2>1. /\ row' = row /\ epoch' = epoch + 1 /\ epoch' \in 0..MaxEpoch /\ epoch \in Nat
          /\ floor' = [k \in Keys |-> IF k \in S THEN row[k] ELSE floor[k]]
      BY <1>0, <1>2, CacheAssumption DEF Invalidate, BackendOK
    <2>2. /\ floor' \in [Keys -> Versions]
          /\ \A k \in Keys : floor[k] <= floor'[k] /\ floor'[k] <= row'[k]
      BY <1>0, <2>1, CacheAssumption DEF BackendOK, Versions
    <2>3. Ages(row, floor, epoch, row', floor', epoch')
      BY <1>0, <2>1, <2>2, CacheAssumption DEF Ages, BackendOK, Versions
    <2>4. StoreOK'
      <3>1. cache' = RemoveAll(cache, S) /\ \A k \in Keys : k \notin S => floor'[k] = floor[k]
        BY <1>2, <2>1 DEF Invalidate
      <3> QED BY <1>0, <3>1, DeleteStep
    <2> QED BY <1>2, <2>2, <2>3, <2>4, BackendMoves, ZenonT(30) DEF Invalidate, CacheInv
  <1>3. ASSUME Flush
        PROVE  CacheInv'
    <2>1. /\ row' = row /\ epoch' = epoch + 1 /\ epoch' \in 0..MaxEpoch /\ epoch \in Nat
          /\ floor' = row
      BY <1>0, <1>3, CacheAssumption DEF Flush, BackendOK
    <2>2. /\ floor' \in [Keys -> Versions]
          /\ \A k \in Keys : floor[k] <= floor'[k] /\ floor'[k] <= row'[k]
      BY <1>0, <2>1, CacheAssumption DEF BackendOK, Versions
    <2>3. Ages(row, floor, epoch, row', floor', epoch')
      BY <1>0, <2>1, <2>2, CacheAssumption DEF Ages, BackendOK, Versions
    <2>4. StoreOK'
      <3>1. Agrees(cache') /\ ~Overflows(cache')
        BY <1>3, EmptyAgrees DEF Flush
      <3>2. EntriesFresh'
        BY <1>3 DEF Flush, EmptyCache, EntriesFresh, Held, Cached
      <3> QED BY <3>1, <3>2 DEF StoreOK
    <2> QED BY <1>3, <2>2, <2>3, <2>4, BackendMoves DEF Flush, CacheInv
  <1> QED BY <1>1, <1>2, <1>3

-----------------------------------------------------------------------------
(* Callers of GetOrLoad *)

(* One caller takes a step and is in order after it. *)
LEMMA OneCall ==
  ASSUME CallsOK, NEW r \in Readers, NEW c, call' = [call EXCEPT ![r] = c],
         row' = row, floor' = floor, epoch' = epoch, CallFine(c, row, floor, epoch)
  PROVE  CallsOK'
  <1>1. /\ call' = [q \in Readers |-> IF q = r THEN c ELSE call[q]]
    BY DEF CallsOK
  <1> QED BY <1>1 DEF CallsOK

(* The caller that runs the function goes on with it. *)
LEMMA GroupRuns ==
  ASSUME GroupOK, CallsOK, NEW r \in Readers, NEW c, call' = [call EXCEPT ![r] = c],
         sf' = sf, call[r].pc \in Leading, c.pc \in Leading,
         c.key = call[r].key, c.hash = call[r].hash, c.leader = call[r].leader
  PROVE  GroupOK'
  <1>1. call' = [q \in Readers |-> IF q = r THEN c ELSE call[q]]
    BY DEF CallsOK
  <1>2. /\ \A q \in Readers : /\ Flight(q)' = Flight(q)
                              /\ call'[q].leader = call[q].leader
                              /\ call'[q].pc \in Leading <=> call[q].pc \in Leading
                              /\ call'[q].pc = "wait" <=> call[q].pc = "wait"
    BY <1>1 DEF Flight, Leading
  <1>3. \A f \in Keys \X Hashes : sf[f] # Nobody => sf[f] \in Readers
    BY DEF GroupOK
  <1> QED BY <1>2, <1>3 DEF GroupOK

(* A caller that is outside the group stays outside. *)
LEMMA GroupOutside ==
  ASSUME GroupOK, CallsOK, NEW r \in Readers, NEW c, call' = [call EXCEPT ![r] = c],
         sf' = sf, call[r].pc \notin Leading \cup {"wait"},
         c.pc \notin Leading \cup {"wait"}, c.leader = Nobody
  PROVE  GroupOK'
  <1>1. call' = [q \in Readers |-> IF q = r THEN c ELSE call[q]]
    BY DEF CallsOK
  <1>2. \A q \in Readers : q # r => call'[q] = call[q] /\ Flight(q)' = Flight(q)
    BY <1>1 DEF Flight
  <1>3. call'[r] = c
    BY <1>1
  <1>4. \A f \in Keys \X Hashes : sf[f] # Nobody => sf[f] \in Readers /\ sf[f] # r
    BY DEF GroupOK
  <1> QED BY <1>2, <1>3, <1>4 DEF GroupOK

(* The function has ended, and its party leaves the group. *)
LEMMA GroupEnds ==
  ASSUME GroupOK, CallsOK, NEW r \in Readers, call[r].pc \in Leading, Forget(r),
         call' = [q \in Readers |-> call'[q]],
         \A q \in Readers :
           IF q \in Party(r)
           THEN call'[q].pc \notin Leading \cup {"wait"} /\ call'[q].leader = Nobody
           ELSE call'[q] = call[q]
  PROVE  GroupOK'
  <1>1. call[r].leader = r /\ sf[Flight(r)] = r /\ r # Nobody
    BY CacheAssumption DEF GroupOK
  <1>2. Flight(r) \in Keys \X Hashes
    BY DEF CallsOK, CallFine, CallStates, Flight, Working
  <1>3. /\ sf' \in [Keys \X Hashes -> Readers \cup {Nobody}]
        /\ \A f \in Keys \X Hashes : sf'[f] = IF f = Flight(r) THEN Nobody ELSE sf[f]
    BY <1>2 DEF Forget, GroupOK
  <1>4. \A q \in Readers : q \notin Party(r) => call'[q] = call[q] /\ Flight(q)' = Flight(q)
    BY DEF Flight
  <1>5. ASSUME NEW q \in Readers, call'[q].pc \in Leading
        PROVE  call'[q].leader = q /\ sf'[Flight(q)'] = q
    <2>1. q \notin Party(r) /\ call'[q] = call[q] /\ Flight(q)' = Flight(q)
      BY <1>4, <1>5
    <2>2. call[q].leader = q /\ sf[Flight(q)] = q /\ q # r
      BY <1>5, <2>1 DEF GroupOK, Party
    <2>3. Flight(q) \in Keys \X Hashes /\ Flight(q) # Flight(r)
      BY <1>1, <1>5, <2>1, <2>2 DEF CallsOK, CallFine, CallStates, Flight, Working
    <2> QED BY <1>3, <2>1, <2>2, <2>3
  <1>6. ASSUME NEW q \in Readers, call'[q].pc = "wait"
        PROVE  call'[q].leader \in Readers /\ sf'[Flight(q)'] = call'[q].leader
    <2>1. q \notin Party(r) /\ call'[q] = call[q] /\ Flight(q)' = Flight(q)
      BY <1>4, <1>6
    <2>2. call[q].leader \in Readers /\ sf[Flight(q)] = call[q].leader /\ call[q].leader # r
      BY <1>6, <2>1 DEF GroupOK, Party
    <2>3. Flight(q) \in Keys \X Hashes /\ Flight(q) # Flight(r)
      BY <1>1, <1>6, <2>1, <2>2 DEF CallsOK, CallFine, CallStates, Flight, Working
    <2> QED BY <1>3, <2>1, <2>2, <2>3
  <1>7. ASSUME NEW f \in Keys \X Hashes, sf'[f] # Nobody
        PROVE  /\ call'[sf'[f]].pc \in Leading
               /\ <<call'[sf'[f]].key, call'[sf'[f]].hash>> = f
    <2>1. f # Flight(r) /\ sf'[f] = sf[f] /\ sf[f] \in Readers
      BY <1>3, <1>7 DEF GroupOK
    <2>2. call[sf[f]].pc \in Leading /\ Flight(sf[f]) = f
      BY <1>7, <2>1 DEF GroupOK
    <2>3. sf[f] \notin Party(r)
      BY <2>1, <2>2 DEF GroupOK, Party
    <2>4. call'[sf[f]] = call[sf[f]] /\ Flight(sf[f])' = Flight(sf[f])
      BY <1>4, <2>1, <2>3
    <2> QED BY <2>1, <2>2, <2>4 DEF Flight
  <1>8. \A q \in Readers : call'[q].pc \notin Leading \cup {"wait"} => call'[q].leader = Nobody
    BY <1>4 DEF GroupOK
  <1> QED BY <1>3, <1>5, <1>6, <1>7, <1>8 DEF GroupOK, Flight

(* What a step of a caller of GetOrLoad leaves alone stays in order. *)
LEMMA CallFrame ==
  ASSUME CacheInv, row' = row, floor' = floor, epoch' = epoch,
         batch' = batch, flights' = flights, build' = build, StoreOK', CallsOK', GroupOK'
  PROVE  CacheInv'
  <1>1. BackendOK'
    BY DEF CacheInv, BackendOK
  <1>2. BuildsOK'
    BY DEF CacheInv, BuildsOK
  <1>3. BatchesOK'
    BY DEF CacheInv, BatchesOK
  <1>4. FlightsOK'
    BY DEF CacheInv, FlightsOK
  <1> QED BY <1>1, <1>2, <1>3, <1>4 DEF CacheInv

(* The cache and what is published stay as they are. *)
LEMMA StoreStays ==
  ASSUME StoreOK, floor' = floor, cache' = cache
  PROVE  StoreOK'
  BY DEF StoreOK, EntriesFresh, Held

(* Where a caller is *)
LEMMA CallTypes ==
  ASSUME CacheInv, NEW r \in Readers
  PROVE  /\ CallFine(call[r], row, floor, epoch) /\ call[r] \in CallStates
         /\ call[r].pc \in Working => /\ call[r].key \in Keys /\ call[r].hash \in Hashes
                                      /\ row[call[r].key] \in Versions
                                      /\ floor[call[r].key] \in Versions
         /\ epoch \in 0..MaxEpoch /\ epoch \in Nat
  <1>1. CallFine(call[r], row, floor, epoch) /\ call[r] \in CallStates
    BY DEF CacheInv, CallsOK, CallFine
  <1>2. call[r].hash \in Hashes
    BY <1>1 DEF CallStates
  <1>3. epoch \in 0..MaxEpoch /\ epoch \in Nat
    BY CacheAssumption DEF CacheInv, BackendOK
  <1>4. call[r].pc \in Working => call[r].key \in Keys
    BY <1>1 DEF CallFine
  <1> QED BY <1>1, <1>2, <1>3, <1>4 DEF CacheInv, BackendOK

(* A caller outside the group that has no answer to give is in order. *)
LEMMA FreshCall ==
  ASSUME BackendOK, NEW k \in Keys, NEW h \in Hashes, h <= row[k], NEW c,
         c = [IdleCall EXCEPT !.pc = "lookup", !.key = k, !.hash = h]
  PROVE  /\ CallFine(c, row, floor, epoch)
         /\ c.pc \notin Leading \cup {"wait"} /\ c.leader = Nobody
  <1>1. c = [pc |-> "lookup", key |-> k, hash |-> h, epoch |-> 0, leader |-> Nobody,
             stored |-> FALSE, got |-> [val |-> 0, need |-> 0]]
    BY Zenon DEF IdleCall, NoAnswer, Answer
  <1>2. c \in CallStates
    <2>1. [val |-> 0, need |-> 0] \in Answers /\ 0 \in 0..MaxEpoch
      BY CacheAssumption DEF Answers
    <2>2. k \in Keys /\ h \in Hashes
      OBVIOUS
    <2> QED BY ONLY <1>1, <2>1, <2>2, ZenonT(30) DEF CallStates, Working
  <1>3. /\ c.pc = "lookup" /\ c.key = k /\ c.hash = h /\ c.epoch = 0 /\ c.leader = Nobody
    BY ONLY <1>1, ZenonT(30)
  <1>4. 0 <= epoch
    BY CacheAssumption DEF BackendOK
  <1> QED BY <1>2, <1>3, <1>4 DEF CallFine, Leading

(* A caller that has gone is in order if its answer is. *)
LEMMA GoneCall ==
  ASSUME BackendOK, NEW c, NEW a \in Answers,
         \/ c = [IdleCall EXCEPT !.pc = "failed"]
         \/ c = [IdleCall EXCEPT !.pc = "done", !.got = a] /\ a.val >= a.need
  PROVE  /\ CallFine(c, row, floor, epoch)
         /\ c.pc \notin Leading \cup {"wait"} /\ c.leader = Nobody
  <1>0. [val |-> 0, need |-> 0] \in Answers /\ 0 \in 0..MaxEpoch /\ 0 \in Hashes /\ 0 <= epoch
    BY CacheAssumption DEF Answers, Hashes, BackendOK
  <1>1. CASE c = [IdleCall EXCEPT !.pc = "failed"]
    <2>1. c = [pc |-> "failed", key |-> Nobody, hash |-> 0, epoch |-> 0, leader |-> Nobody,
               stored |-> FALSE, got |-> [val |-> 0, need |-> 0]]
      BY <1>1, Zenon DEF IdleCall, NoAnswer, Answer
    <2>2. c \in CallStates
      BY <1>0, <2>1 DEF CallStates
    <2>3. c.pc = "failed" /\ c.epoch = 0 /\ c.leader = Nobody
      BY <2>1
    <2> QED BY <1>0, <2>2, <2>3 DEF CallFine, Leading, Working
  <1>2. CASE c = [IdleCall EXCEPT !.pc = "done", !.got = a] /\ a.val >= a.need
    <2>1. c = [pc |-> "done", key |-> Nobody, hash |-> 0, epoch |-> 0, leader |-> Nobody,
               stored |-> FALSE, got |-> a]
      BY <1>2, Zenon DEF IdleCall
    <2>2. c \in CallStates
      BY <1>0, <2>1 DEF CallStates
    <2>3. c.pc = "done" /\ c.epoch = 0 /\ c.leader = Nobody /\ c.got = a
      BY <2>1
    <2> QED BY <1>0, <1>2, <2>2, <2>3 DEF CallFine, Leading, Working
  <1> QED BY <1>1, <1>2

(* GetOrLoad and GetOrLoadVersioned begin. *)
LEMMA GetOrLoadStep ==
  ASSUME CacheInv, NEW r \in Readers, NEW k \in Keys, NEW h \in Hashes, GetOrLoad(r, k, h)
  PROVE  CacheInv'
  <1>1. PICK c : c = [IdleCall EXCEPT !.pc = "lookup", !.key = k, !.hash = h]
    OBVIOUS
  <1>2. h <= row[k]
    BY CacheAssumption DEF GetOrLoad, CacheInv, BackendOK, Versions
  <1>3. /\ CallFine(c, row, floor, epoch)
        /\ c.pc \notin Leading \cup {"wait"} /\ c.leader = Nobody
    BY <1>1, <1>2, FreshCall, Zenon DEF CacheInv
  <1>4. call' = [call EXCEPT ![r] = c] /\ call[r].pc \notin Leading \cup {"wait"}
    BY <1>1 DEF GetOrLoad, Leading
  <1>5. /\ row' = row /\ floor' = floor /\ epoch' = epoch /\ sf' = sf /\ cache' = cache
        /\ batch' = batch /\ flights' = flights /\ build' = build
    BY DEF GetOrLoad, backend
  <1>6. CallsOK'
    BY <1>3, <1>4, <1>5, OneCall, Zenon DEF CacheInv
  <1>7. GroupOK'
    BY <1>3, <1>4, <1>5, GroupOutside, Zenon DEF CacheInv
  <1>8. StoreOK'
    BY <1>5, StoreStays DEF CacheInv
  <1> QED BY <1>5, <1>6, <1>7, <1>8, CallFrame

(* The first lookup *)
LEMMA LookupCall ==
  ASSUME CacheInv, NEW r \in Readers, Lookup(r)
  PROVE  CacheInv'
  <1>0. /\ CallFine(call[r], row, floor, epoch) /\ call[r] \in CallStates
        /\ call[r].key \in Keys /\ call[r].hash \in Hashes
    BY CallTypes DEF Lookup, Working
  <1>1. /\ row' = row /\ floor' = floor /\ epoch' = epoch /\ sf' = sf
        /\ batch' = batch /\ flights' = flights /\ build' = build
    BY DEF Lookup, backend
  <1>2. call[r].pc = "lookup" /\ call[r].pc \notin Leading \cup {"wait"} /\ call[r].leader = Nobody
    BY DEF Lookup, Leading, CacheInv, GroupOK
  <1>3. StoreOK'
    BY <1>0, <1>1, LookupStep DEF Lookup, CacheInv
  <1>4. PICK c : /\ call' = [call EXCEPT ![r] = c] /\ CallFine(c, row, floor, epoch)
                 /\ c.pc \notin Leading \cup {"wait"} /\ c.leader = Nobody
    <2>1. CASE /\ LookupHit(call[r].key, call[r].hash)
               /\ call' = [call EXCEPT ![r] = [IdleCall EXCEPT
                    !.pc = "done", !.got = HitAnswer(call[r].key, call[r].hash)]]
      <3>1. PICK a : a = HitAnswer(call[r].key, call[r].hash)
        OBVIOUS
      <3>2. a \in Answers /\ a.val >= a.need
        BY <1>0, <2>1, <3>1, HitFresh DEF CacheInv, LookupHit
      <3>3. PICK c : c = [IdleCall EXCEPT !.pc = "done", !.got = a]
        OBVIOUS
      <3>4. /\ CallFine(c, row, floor, epoch)
            /\ c.pc \notin Leading \cup {"wait"} /\ c.leader = Nobody
        BY <3>2, <3>3, GoneCall, Zenon DEF CacheInv
      <3>5. call' = [call EXCEPT ![r] = c]
        BY <2>1, <3>1, <3>3
      <3> QED BY <3>4, <3>5, Zenon
    <2>2. CASE Go(r, "join")
      <3>1. PICK c : c = [call[r] EXCEPT !.pc = "join"]
        BY Zenon
      <3>2. call' = [call EXCEPT ![r] = c]
        BY <2>2, <3>1 DEF Go
      <3>3. c \in CallStates
        BY <1>0, <3>1 DEF CallStates, Working
      <3>4. /\ c.pc = "join" /\ c.key = call[r].key /\ c.hash = call[r].hash
            /\ c.epoch = call[r].epoch /\ c.leader = call[r].leader
        BY <1>0, <3>1 DEF CallStates
      <3>5. CallFine(c, row, floor, epoch)
        BY <1>0, <1>2, <3>3, <3>4 DEF CallFine, Working
      <3>6. c.pc \notin Leading \cup {"wait"}
        BY <3>4 DEF Leading
      <3> QED BY <1>2, <3>2, <3>4, <3>5, <3>6, Zenon
    <2> QED BY <2>1, <2>2 DEF Lookup
  <1>5. CallsOK'
    BY <1>1, <1>4, OneCall, Zenon DEF CacheInv
  <1>6. GroupOK'
    BY <1>1, <1>2, <1>4, GroupOutside, ZenonT(30) DEF CacheInv
  <1> QED BY <1>1, <1>3, <1>5, <1>6, CallFrame

(* singleflight.Group.Do *)
LEMMA JoinStep ==
  ASSUME CacheInv, NEW r \in Readers, Join(r)
  PROVE  CacheInv'
  <1>0. /\ CallFine(call[r], row, floor, epoch) /\ call[r] \in CallStates
        /\ call[r].key \in Keys /\ call[r].hash \in Hashes
    BY CallTypes DEF Join, Working
  <1>1. /\ row' = row /\ floor' = floor /\ epoch' = epoch /\ cache' = cache
        /\ batch' = batch /\ flights' = flights /\ build' = build
    BY DEF Join, backend
  <1>2. call[r].pc = "join" /\ call[r].pc \notin Leading \cup {"wait"}
    BY DEF Join, Leading
  <1>3. /\ Flight(r) \in Keys \X Hashes /\ sf \in [Keys \X Hashes -> Readers \cup {Nobody}]
        /\ r # Nobody
    BY <1>0, CacheAssumption DEF Flight, CacheInv, GroupOK
  <1>4. StoreOK'
    BY <1>1, StoreStays DEF CacheInv
  <1>5. PICK p, l : /\ call' = [call EXCEPT ![r] = [call[r] EXCEPT !.pc = p, !.leader = l]]
                    /\ \/ /\ p = "again" /\ l = r /\ sf[Flight(r)] = Nobody
                          /\ sf' = [sf EXCEPT ![Flight(r)] = r]
                       \/ /\ p = "wait" /\ l = sf[Flight(r)] /\ sf[Flight(r)] # Nobody
                          /\ sf' = sf
    BY ZenonT(30) DEF Join
  <1>6. PICK c : c = [call[r] EXCEPT !.pc = p, !.leader = l]
    OBVIOUS
  <1>7. call' = [call EXCEPT ![r] = c] /\ l \in Readers /\ p \in {"again", "wait"}
    BY <1>3, <1>5, <1>6
  <1>8. c \in CallStates
    BY <1>0, <1>6, <1>7, Zenon DEF CallStates, Working, Leading
  <1>9. /\ c.pc = p /\ c.leader = l /\ c.key = call[r].key /\ c.hash = call[r].hash
        /\ c.epoch = call[r].epoch
    BY <1>0, <1>6 DEF CallStates
  <1>10. CallFine(c, row, floor, epoch)
    BY <1>0, <1>2, <1>7, <1>8, <1>9 DEF CallFine, Working
  <1>11. CallsOK'
    BY <1>1, <1>7, <1>10, OneCall, Zenon DEF CacheInv
  <1>12. GroupOK'
    <2>1. call' = [q \in Readers |-> IF q = r THEN c ELSE call[q]]
      BY <1>7 DEF CacheInv, CallsOK
    <2>2. \A q \in Readers : q # r => call'[q] = call[q] /\ Flight(q)' = Flight(q)
      BY <2>1 DEF Flight
    <2>3. call'[r] = c /\ Flight(r)' = Flight(r)
      BY <1>9, <2>1 DEF Flight
    <2>4. \A f \in Keys \X Hashes : sf[f] # Nobody => sf[f] \in Readers /\ sf[f] # r
      BY <1>2 DEF CacheInv, GroupOK
    <2>5. CASE p = "wait" /\ l = sf[Flight(r)] /\ sf[Flight(r)] # Nobody /\ sf' = sf
      <3>1. c.pc \notin Leading /\ c.pc = "wait" /\ c.leader \in Readers
        BY <1>7, <1>9, <2>5 DEF Leading
      <3> QED BY <1>9, <2>2, <2>3, <2>4, <2>5, <3>1 DEF CacheInv, GroupOK
    <2>6. CASE p = "again" /\ l = r /\ sf[Flight(r)] = Nobody /\ sf' = [sf EXCEPT ![Flight(r)] = r]
      <3>1. c.pc \in Leading /\ c.pc # "wait" /\ c.leader = r
        BY <1>9, <2>6 DEF Leading
      <3>2. /\ sf' \in [Keys \X Hashes -> Readers \cup {Nobody}]
            /\ \A f \in Keys \X Hashes : sf'[f] = IF f = Flight(r) THEN r ELSE sf[f]
        BY <1>3, <2>6
      <3>3. ASSUME NEW q \in Readers, q # r, call[q].pc \in Leading \cup {"wait"}
            PROVE  sf'[Flight(q)] = sf[Flight(q)]
        <4>1. sf[Flight(q)] \in Readers
          BY <3>3 DEF CacheInv, GroupOK
        <4>2. Flight(q) \in Keys \X Hashes
          BY <3>3, CallTypes DEF Flight, Working
        <4>3. Flight(q) # Flight(r)
          BY <2>6, <4>1, CacheAssumption
        <4> QED BY <3>2, <4>2, <4>3
      <3>4. ASSUME NEW q \in Readers, call'[q].pc \in Leading
            PROVE  call'[q].leader = q /\ sf'[Flight(q)'] = q
        <4>1. CASE q = r
          BY <1>3, <2>3, <3>1, <3>2, <4>1
        <4>2. CASE q # r
          BY <2>2, <3>3, <3>4, <4>2 DEF CacheInv, GroupOK
        <4> QED BY <4>1, <4>2
      <3>5. ASSUME NEW q \in Readers, call'[q].pc = "wait"
            PROVE  call'[q].leader \in Readers /\ sf'[Flight(q)'] = call'[q].leader
        <4>1. q # r
          BY <2>3, <3>1, <3>5
        <4> QED BY <2>2, <3>3, <3>5, <4>1 DEF CacheInv, GroupOK
      <3>6. ASSUME NEW f \in Keys \X Hashes, sf'[f] # Nobody
            PROVE  /\ call'[sf'[f]].pc \in Leading
                   /\ <<call'[sf'[f]].key, call'[sf'[f]].hash>> = f
        <4>1. CASE f = Flight(r)
          BY <2>3, <3>1, <3>2, <4>1 DEF Flight
        <4>2. CASE f # Flight(r)
          <5>1. sf'[f] = sf[f] /\ sf[f] # Nobody /\ sf[f] \in Readers /\ sf[f] # r
            BY <2>4, <3>2, <3>6, <4>2
          <5>2. call'[sf[f]] = call[sf[f]]
            BY <2>2, <5>1
          <5>3. call[sf[f]].pc \in Leading /\ Flight(sf[f]) = f
            BY <5>1 DEF CacheInv, GroupOK
          <5> QED BY <5>1, <5>2, <5>3 DEF Flight
        <4> QED BY <4>1, <4>2
      <3>7. ASSUME NEW q \in Readers, call'[q].pc \notin Leading \cup {"wait"}
            PROVE  call'[q].leader = Nobody
        <4>1. q # r
          BY <2>3, <3>1, <3>7
        <4> QED BY <2>2, <3>7, <4>1 DEF CacheInv, GroupOK
      <3> QED BY <3>2, <3>4, <3>5, <3>6, <3>7 DEF GroupOK, Flight
    <2> QED BY <1>5, <2>5, <2>6
  <1> QED BY <1>1, <1>4, <1>11, <1>12, CallFrame

(* The caller that runs the function takes a step of it. *)
LEMMA RunStep ==
  ASSUME CacheInv, NEW r \in Readers, call[r].pc \in Leading, NEW c,
         call' = [call EXCEPT ![r] = c], CallFine(c, row, floor, epoch), c.pc \in Leading,
         c.key = call[r].key, c.hash = call[r].hash, c.leader = call[r].leader, StoreOK',
         row' = row, floor' = floor, epoch' = epoch, sf' = sf,
         batch' = batch, flights' = flights, build' = build
  PROVE  CacheInv'
  <1>1. CallsOK'
    BY OneCall, Zenon DEF CacheInv
  <1>2. GroupOK'
    BY GroupRuns, Zenon DEF CacheInv
  <1> QED BY <1>1, <1>2, CallFrame, Zenon

(* The second lookup, under the flight *)
LEMMA LookAgainStep ==
  ASSUME CacheInv, NEW r \in Readers, LookAgain(r)
  PROVE  CacheInv'
  <1>0. /\ CallFine(call[r], row, floor, epoch) /\ call[r] \in CallStates
        /\ call[r].key \in Keys /\ call[r].hash \in Hashes
    BY CallTypes DEF LookAgain, Working, Leading
  <1>1. /\ row' = row /\ floor' = floor /\ epoch' = epoch /\ sf' = sf
        /\ batch' = batch /\ flights' = flights /\ build' = build
    BY DEF LookAgain, backend
  <1>2. call[r].pc = "again" /\ call[r].pc \in Leading
    BY DEF LookAgain, Leading
  <1>3. StoreOK'
    BY <1>0, <1>1, LookupStep DEF LookAgain, CacheInv
  <1>4. PICK c : /\ call' = [call EXCEPT ![r] = c] /\ CallFine(c, row, floor, epoch)
                 /\ c.pc \in Leading
                 /\ c.key = call[r].key /\ c.hash = call[r].hash /\ c.leader = call[r].leader
    <2>1. CASE /\ LookupHit(call[r].key, call[r].hash)
               /\ call' = [call EXCEPT ![r].pc = "return", ![r].stored = TRUE,
                                       ![r].got = HitAnswer(call[r].key, call[r].hash)]
      <3>1. PICK a : a = HitAnswer(call[r].key, call[r].hash)
        OBVIOUS
      <3>2. a \in Answers /\ a.val >= a.need
        BY <1>0, <2>1, <3>1, HitFresh DEF CacheInv, LookupHit
      <3>3. PICK c : c = [call[r] EXCEPT !.pc = "return", !.stored = TRUE, !.got = a]
        OBVIOUS
      <3>4. call' = [call EXCEPT ![r] = c]
        BY <2>1, <3>1, <3>3, Zenon
      <3>5. c \in CallStates
        BY <1>0, <3>2, <3>3, Zenon DEF CallStates, Working, Leading
      <3>6. /\ c.pc = "return" /\ c.key = call[r].key /\ c.hash = call[r].hash /\ c.got = a
            /\ c.epoch = call[r].epoch /\ c.leader = call[r].leader
        BY <1>0, <3>3 DEF CallStates
      <3>7. CallFine(c, row, floor, epoch)
        BY <1>0, <1>2, <3>2, <3>5, <3>6 DEF CallFine, Working
      <3> QED BY <3>4, <3>6, <3>7, Zenon DEF Leading
    <2>2. CASE Go(r, "snapshot")
      <3>1. PICK c : c = [call[r] EXCEPT !.pc = "snapshot"]
        BY Zenon
      <3>2. call' = [call EXCEPT ![r] = c]
        BY <2>2, <3>1 DEF Go
      <3>3. c \in CallStates
        BY <1>0, <3>1 DEF CallStates, Working, Leading
      <3>4. /\ c.pc = "snapshot" /\ c.key = call[r].key /\ c.hash = call[r].hash
            /\ c.epoch = call[r].epoch /\ c.leader = call[r].leader
        BY <1>0, <3>1 DEF CallStates
      <3>5. CallFine(c, row, floor, epoch)
        BY <1>0, <1>2, <3>3, <3>4 DEF CallFine, Working
      <3> QED BY <3>2, <3>4, <3>5, Zenon DEF Leading
    <2> QED BY <2>1, <2>2 DEF LookAgain
  <1> QED BY <1>1, <1>2, <1>3, <1>4, RunStep, ZenonT(30)

(* The epoch is read before the load. *)
LEMMA SnapshotStep ==
  ASSUME CacheInv, NEW r \in Readers, SnapshotEpoch(r)
  PROVE  CacheInv'
  <1>0. /\ CallFine(call[r], row, floor, epoch) /\ call[r] \in CallStates /\ epoch \in 0..MaxEpoch
        /\ epoch \in Nat
    BY CallTypes
  <1>1. /\ row' = row /\ floor' = floor /\ epoch' = epoch /\ sf' = sf /\ cache' = cache
        /\ batch' = batch /\ flights' = flights /\ build' = build
    BY DEF SnapshotEpoch, backend
  <1>2. call[r].pc = "snapshot" /\ call[r].pc \in Leading
    BY DEF SnapshotEpoch, Leading
  <1>3. StoreOK'
    BY <1>1, StoreStays DEF CacheInv
  <1>4. PICK c : c = [call[r] EXCEPT !.pc = "load", !.epoch = epoch]
    OBVIOUS
  <1>5. call' = [call EXCEPT ![r] = c]
    BY <1>4, Zenon DEF SnapshotEpoch
  <1>6. c \in CallStates
    BY <1>0, <1>4, Zenon DEF CallStates, Working, Leading
  <1>7. /\ c.pc = "load" /\ c.key = call[r].key /\ c.hash = call[r].hash
        /\ c.epoch = epoch /\ c.leader = call[r].leader
    BY <1>0, <1>4 DEF CallStates
  <1>8. CallFine(c, row, floor, epoch)
    BY <1>0, <1>2, <1>6, <1>7 DEF CallFine, Working
  <1>9. c.pc \in Leading
    BY <1>7 DEF Leading
  <1> QED BY <1>1, <1>2, <1>3, <1>5, <1>7, <1>8, <1>9, RunStep, ZenonT(30)

(* The load reads the row: it is as new as everything published so far. *)
LEMMA LoadStep ==
  ASSUME CacheInv, NEW r \in Readers, Load(r)
  PROVE  CacheInv'
  <1>0. /\ CallFine(call[r], row, floor, epoch) /\ call[r] \in CallStates
        /\ call[r].key \in Keys /\ row[call[r].key] \in Versions
    BY CallTypes DEF Load, Working, Leading
  <1>1. /\ row' = row /\ floor' = floor /\ epoch' = epoch /\ sf' = sf /\ cache' = cache
        /\ batch' = batch /\ flights' = flights /\ build' = build
    BY DEF Load, backend
  <1>2. call[r].pc = "load" /\ call[r].pc \in Leading
    BY DEF Load, Leading
  <1>3. StoreOK'
    BY <1>1, StoreStays DEF CacheInv
  <1>4. PICK a : a = [val |-> row[call[r].key], need |-> 0]
    BY ZenonT(30)
  <1>5. a \in Answers /\ a.val = row[call[r].key]
    BY <1>0, <1>4, HashesNat DEF Answers
  <1>6. PICK c : c = [call[r] EXCEPT !.pc = "store", !.got = a]
    OBVIOUS
  <1>7. call' = [call EXCEPT ![r] = c]
    BY <1>4, <1>6, Zenon DEF Load, Answer
  <1>8. c \in CallStates
    BY <1>0, <1>5, <1>6, Zenon DEF CallStates, Working, Leading
  <1>9. /\ c.pc = "store" /\ c.key = call[r].key /\ c.hash = call[r].hash /\ c.got = a
        /\ c.epoch = call[r].epoch /\ c.leader = call[r].leader
    BY <1>0, <1>6 DEF CallStates
  <1>10. floor[call[r].key] <= row[call[r].key] /\ call[r].hash <= row[call[r].key]
    BY <1>0, <1>2 DEF CacheInv, BackendOK, CallFine, Working
  <1>11. row[call[r].key] >= floor[call[r].key] /\ row[call[r].key] >= call[r].hash
    BY <1>10
  <1>12. CallFine(c, row, floor, epoch)
    BY <1>0, <1>2, <1>5, <1>8, <1>9, <1>11 DEF CallFine, Working
  <1>13. c.pc \in Leading
    BY <1>9 DEF Leading
  <1> QED BY <1>1, <1>2, <1>3, <1>7, <1>9, <1>12, <1>13, RunStep, ZenonT(30)

(* storeIfEpoch: what enters the cache no invalidation has overtaken. *)
LEMMA StoreIfEpochStep ==
  ASSUME CacheInv, NEW r \in Readers, StoreIfEpoch(r)
  PROVE  CacheInv'
  <1>0. /\ CallFine(call[r], row, floor, epoch) /\ call[r] \in CallStates
        /\ call[r].key \in Keys /\ call[r].hash \in Hashes /\ floor[call[r].key] \in Versions
    BY CallTypes DEF StoreIfEpoch, Working, Leading
  <1>1. /\ row' = row /\ floor' = floor /\ epoch' = epoch /\ sf' = sf
        /\ batch' = batch /\ flights' = flights /\ build' = build
    BY DEF StoreIfEpoch, backend
  <1>2. call[r].pc = "store" /\ call[r].pc \in Leading
    BY DEF StoreIfEpoch, Leading
  <1>3. PICK a : a = call[r].got
    OBVIOUS
  <1>4. /\ a \in Answers /\ a.val \in Versions /\ a.val >= call[r].hash
        /\ epoch = call[r].epoch => a.val >= floor[call[r].key]
    BY <1>0, <1>2, <1>3 DEF CallFine, CallStates
  <1>5. StoreOK'
    <2>1. CASE epoch # call[r].epoch
      BY <1>1, <2>1, StoreStays DEF StoreIfEpoch, CacheInv
    <2>2. CASE epoch = call[r].epoch
      <3>1. PICK e : e = [val |-> a.val, hash |-> call[r].hash, guarded |-> TRUE]
        BY Zenon
      <3>2. cache' = StoreLocked(cache, call[r].key, e)
        BY <1>3, <2>2, <3>1 DEF StoreIfEpoch, LoadedEntry, Entry
      <3>3. a.val \in 1..Len(Weight) /\ call[r].hash \in Nat
        BY <1>0, <1>4, CacheAssumption, StoreAssumption DEF Versions, Hashes
      <3>4. e \in Entries
        BY <3>1, <3>3 DEF Entries
      <3>5. MayEnter(e, call[r].key)
        BY <1>4, <2>2, <3>1, <3>4 DEF MayEnter
      <3> QED BY <1>0, <1>1, <3>2, <3>5, StoreStep, Zenon DEF CacheInv
    <2> QED BY <2>1, <2>2
  <1>6. PICK n, s : n = AtLeast(floor[call[r].key], call[r].hash) /\ s = (epoch = call[r].epoch)
    OBVIOUS
  <1>7. n \in Nat /\ s \in BOOLEAN /\ (s => a.val >= n)
    <2>1. floor[call[r].key] \in Nat /\ call[r].hash \in Nat
      BY <1>0, CacheAssumption DEF Versions, Hashes
    <2>2. n \in {floor[call[r].key], call[r].hash}
      BY <1>6 DEF AtLeast
    <2> QED BY <1>4, <1>6, <2>1, <2>2, ZenonT(30)
  <1>8. PICK d : d = [a EXCEPT !.need = n]
    BY Zenon
  <1>9. d \in Answers /\ d.val = a.val /\ d.need = n
    BY <1>4, <1>7, <1>8 DEF Answers
  <1>10. PICK c : c = [call[r] EXCEPT !.pc = "return", !.stored = s, !.got = d]
    OBVIOUS
  <1>11. call' = [call EXCEPT ![r] = c]
    <2>1. Decided(r, epoch = call[r].epoch) = c
      BY <1>0, <1>3, <1>6, <1>8, <1>10 DEF Decided, CallStates
    <2> QED BY <2>1, Zenon DEF StoreIfEpoch
  <1>12. c \in CallStates
    BY <1>0, <1>7, <1>9, <1>10, Zenon DEF CallStates, Working, Leading
  <1>13. /\ c.pc = "return" /\ c.key = call[r].key /\ c.hash = call[r].hash /\ c.got = d
         /\ c.epoch = call[r].epoch /\ c.leader = call[r].leader /\ c.stored = s
    BY <1>0, <1>10 DEF CallStates
  <1>14. CallFine(c, row, floor, epoch)
    BY <1>0, <1>2, <1>7, <1>9, <1>12, <1>13 DEF CallFine, Working
  <1>15. c.pc \in Leading
    BY <1>13 DEF Leading
  <1> QED BY <1>1, <1>2, <1>5, <1>11, <1>13, <1>14, <1>15, RunStep, ZenonT(30)

(* The function ends, and each of its party is outside the group and in order. *)
LEMMA EndStep ==
  ASSUME CacheInv, NEW r \in Readers, call[r].pc \in Leading, Forget(r),
         call' = [q \in Readers |-> call'[q]],
         \A q \in Readers :
           IF q \in Party(r)
           THEN /\ CallFine(call'[q], row, floor, epoch)
                /\ call'[q].pc \notin Leading \cup {"wait"} /\ call'[q].leader = Nobody
           ELSE call'[q] = call[q],
         row' = row, floor' = floor, epoch' = epoch, cache' = cache,
         batch' = batch, flights' = flights, build' = build
  PROVE  CacheInv'
  <1>1. CallsOK'
    BY DEF CallsOK, CacheInv
  <1>2. GroupOK'
    <2>1. \A q \in Readers :
            IF q \in Party(r)
            THEN call'[q].pc \notin Leading \cup {"wait"} /\ call'[q].leader = Nobody
            ELSE call'[q] = call[q]
      OBVIOUS
    <2> QED BY <2>1, GroupEnds DEF CacheInv
  <1>3. StoreOK'
    BY StoreStays DEF CacheInv
  <1> QED BY <1>1, <1>2, <1>3, CallFrame

(* The load fails for the whole party. *)
LEMMA LoadFailsStep ==
  ASSUME CacheInv, NEW r \in Readers, LoadFails(r)
  PROVE  CacheInv'
  <1>1. /\ row' = row /\ floor' = floor /\ epoch' = epoch /\ cache' = cache
        /\ batch' = batch /\ flights' = flights /\ build' = build
    BY DEF LoadFails, backend
  <1>2. call[r].pc \in Leading /\ Forget(r)
    BY DEF LoadFails, Leading
  <1>3. PICK c : c = [IdleCall EXCEPT !.pc = "failed"]
    BY Zenon
  <1>4. call' = [q \in Readers |-> IF q \in Party(r) THEN c ELSE call[q]]
    BY <1>3 DEF LoadFails
  <1>5. [val |-> 0, need |-> 0] \in Answers
    BY DEF Answers
  <1>6. /\ CallFine(c, row, floor, epoch)
        /\ c.pc \notin Leading \cup {"wait"} /\ c.leader = Nobody
    BY <1>3, <1>5, GoneCall, Zenon DEF CacheInv
  <1>7. call' = [q \in Readers |-> call'[q]]
    BY <1>4
  <1>8. \A q \in Readers : call'[q] = IF q \in Party(r) THEN c ELSE call[q]
    BY <1>4
  <1> QED BY <1>1, <1>2, <1>6, <1>7, <1>8, EndStep

(* The function returns: its result goes to the party, or sends it back. *)
LEMMA ReturnStep ==
  ASSUME CacheInv, NEW r \in Readers, Return(r)
  PROVE  CacheInv'
  <1>0. CallFine(call[r], row, floor, epoch) /\ call[r] \in CallStates
    BY CallTypes
  <1>1. /\ row' = row /\ floor' = floor /\ epoch' = epoch /\ cache' = cache
        /\ batch' = batch /\ flights' = flights /\ build' = build
    BY Zenon DEF Return, backend
  <1>2. call[r].pc = "return" /\ call[r].pc \in Leading /\ Forget(r)
    BY Zenon DEF Return, Leading
  <1>3. call' = [q \in Readers |-> call'[q]]
    BY Zenon DEF Return
  <1>4. ASSUME NEW q \in Readers
        PROVE  IF q \in Party(r)
               THEN /\ CallFine(call'[q], row, floor, epoch)
                    /\ call'[q].pc \notin Leading \cup {"wait"} /\ call'[q].leader = Nobody
               ELSE call'[q] = call[q]
    <2>1. CASE q \notin Party(r)
      BY <2>1, Zenon DEF Return
    <2>2. CASE q \in Party(r) /\ call[r].stored
      <3>1. PICK a : a = call[r].got
        OBVIOUS
      <3>2. a \in Answers /\ a.val >= a.need
        BY <1>0, <1>2, <2>2, <3>1, Zenon DEF CallFine, CallStates
      <3>3. call'[q] = [IdleCall EXCEPT !.pc = "done", !.got = a]
        BY <2>2, <3>1 DEF Return
      <3> QED BY <2>2, <3>2, <3>3, GoneCall, Zenon DEF CacheInv
    <2>3. CASE q \in Party(r) /\ call'[q] = [IdleCall EXCEPT !.pc = "failed"]
      <3>1. [val |-> 0, need |-> 0] \in Answers
        BY DEF Answers
      <3> QED BY <2>3, <3>1, GoneCall, ZenonT(30) DEF CacheInv
    <2>4. CASE /\ q \in Party(r)
               /\ call'[q] = [IdleCall EXCEPT
                    !.pc = "lookup", !.key = call[q].key, !.hash = call[q].hash]
      <3>1. call[q].pc \in Working
        <4>1. call[q].leader = r /\ r # Nobody
          BY <2>4, CacheAssumption DEF Party
        <4>2. call[q].pc \in Leading \cup {"wait"}
          BY <4>1 DEF CacheInv, GroupOK
        <4> QED BY <4>2 DEF Working
      <3>2. call[q].key \in Keys /\ call[q].hash \in Hashes /\ call[q].hash <= row[call[q].key]
        BY <3>1, CallTypes DEF CallFine
      <3>3. PICK k \in Keys, h \in Hashes : k = call[q].key /\ h = call[q].hash
        BY <3>2
      <3>4. call'[q] = [IdleCall EXCEPT !.pc = "lookup", !.key = k, !.hash = h] /\ h <= row[k]
        BY <2>4, <3>2, <3>3
      <3>5. BackendOK
        BY DEF CacheInv
      <3>6. /\ CallFine(call'[q], row, floor, epoch)
            /\ call'[q].pc \notin Leading \cup {"wait"} /\ call'[q].leader = Nobody
        BY <3>4, <3>5, FreshCall, ZenonT(30)
      <3> QED BY <2>4, <3>6
    <2> QED BY <2>1, <2>2, <2>3, <2>4, Zenon DEF Return
  <1> QED BY <1>1, <1>2, <1>3, <1>4, EndStep

=============================================================================
