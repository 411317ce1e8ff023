--------------------------- MODULE AlgorithmProofs ---------------------------
(***************************************************************************)
(* Proofs about the parts of the library that compute something and share  *)
(* the bench: the sort, the adaptive integrator, Timings and Timers, what  *)
(* is read from XML documents, and histograms.  Each specification leaves  *)
(* the rest of the library free to do anything on the bench that is not of *)
(* its class.                                                              *)
(***************************************************************************)
EXTENDS NSort, Integrators, Clocks, Documents, Binning,
        FiniteSetTheorems, SequenceTheorems, WellFoundedInduction, TLAPS

(* A step of some other class. *)
Elsewhere(classes) == bench.is \notin classes /\ bench'.is \notin classes

(* The order of the naturals as a set of pairs, for induction by the smallest counterexample. *)
Below == {p \in Nat \X Nat : p[1] < p[2]}

(* It is the relation that the library calls well-founded. *)
LEMMA BelowIs == Below = OpToRel(<, Nat)
  BY DEF Below, OpToRel

(* A set of natural numbers that is not empty has a least one. *)
LEMMA LeastOf ==
  ASSUME NEW T, T \subseteq Nat, T # {}
  PROVE  \E m \in T : \A k \in T : m <= k
  <1>1. IsWellFoundedOn(Below, Nat)
    BY NatLessThanWellFounded, BelowIs, Zenon
  <1>2. PICK m \in T : \A k \in T : ~(<<k, m>> \in Below)
    BY <1>1, WFMin
  <1>3. \A k \in T : ~(k < m)
    BY <1>2 DEF Below
  <1>4. \A k \in T : m <= k
    BY <1>3
  <1> QED
    BY <1>4

-----------------------------------------------------------------------------
(* NSort *)

(* g is 0 of nothing and grows by f[x] with every x. *)
Adds(f, S, g) ==
  /\ g[{}] = 0
  /\ \A s \in SUBSET S : \A x \in s : g[s] = f[x] + g[s \ {x}]

(* A sum over a finite set is whatever starts with 0 and grows by f[x]     *)
(* with every x, in any order.                                             *)
LEMMA SumOverIs ==
  ASSUME NEW S, IsFiniteSet(S), NEW f, NEW g, Adds(f, S, g)
  PROVE  SumOver(f, S) = g[S]
  <1> DEFINE least(s) == CHOOSE x \in s : TRUE
             Fold(h) == [s \in SUBSET S |->
                           IF s = {} THEN 0 ELSE f[least(s)] + h[s \ {least(s)}]]
             iter == CHOOSE h : h = Fold(h)
             G == [s \in SUBSET S |-> g[s]]
  <1>1. SumOver(f, S) = iter[S]
    BY DEF SumOver, MapThenSumSet, MapThenFoldSet
  <1>2. G = Fold(G)
    <2> SUFFICES ASSUME NEW s \in SUBSET S
                 PROVE  g[s] = IF s = {} THEN 0 ELSE f[least(s)] + G[s \ {least(s)}]
      OBVIOUS
    <2>1. s # {} => least(s) \in s
      OBVIOUS
    <2>2. \A x : s \ {x} \in SUBSET S
      OBVIOUS
    <2> QED
      BY <2>1, <2>2 DEF Adds
  <1>3. iter = Fold(iter)
    <2> HIDE DEF Fold
    <2> QED
      BY <1>2
  <1>4. \A s \in SUBSET S : iter[s] = g[s]
    <2> HIDE DEF iter, G
    <2> SUFFICES ASSUME \E s \in SUBSET S : iter[s] # g[s]
                 PROVE  FALSE
      OBVIOUS
    <2> DEFINE Wrong == {s \in SUBSET S : iter[s] # g[s]}
               Sizes == {Cardinality(s) : s \in Wrong}
    <2>1. \A s \in SUBSET S : IsFiniteSet(s) /\ Cardinality(s) \in Nat
      BY FS_Subset, FS_CardinalityType
    <2>2. Sizes \subseteq Nat /\ Sizes # {}
      BY <2>1
    <2>3. PICK s \in Wrong : \A t \in Wrong : Cardinality(s) <= Cardinality(t)
      <3>1. PICK m \in Sizes : \A k \in Sizes : m <= k
        BY <2>2, LeastOf
      <3>2. PICK s \in Wrong : m = Cardinality(s)
        OBVIOUS
      <3>3. \A t \in Wrong : Cardinality(s) <= Cardinality(t)
        BY <3>1, <3>2
      <3> QED
        BY <3>3
    <2>4. s # {}
      BY <1>3 DEF Adds
    <2>5. PICK x \in s : x = least(s)
      BY <2>4
    <2>6. Cardinality(s \ {x}) < Cardinality(s) /\ s \ {x} \in SUBSET S
      <3>1. IsFiniteSet(s) /\ Cardinality(s) \in Nat
        BY <2>1
      <3>2. Cardinality(s \ {x}) = Cardinality(s) - 1
        BY <3>1, FS_RemoveElement
      <3>3. s \ {x} \in SUBSET S
        OBVIOUS
      <3> HIDE DEF Wrong, least
      <3> QED
        BY <3>1, <3>2, <3>3
    <2>7. iter[s \ {x}] = g[s \ {x}]
      BY <2>1, <2>3, <2>6
    <2>8. iter[s] = f[x] + iter[s \ {x}]
      BY <1>3, <2>4, <2>5
    <2> QED
      BY <2>5, <2>7, <2>8 DEF Adds
  <1> QED
    BY <1>1, <1>4

(* How many of the items are of E. *)
Held(A, E) == Cardinality({p \in 1 .. Len(A) : A[p] \in E})

(* The numbers from lo to hi. *)
LEMMA IntervalCount ==
  ASSUME NEW lo \in Int, NEW hi \in Int, NEW k \in Nat, hi - lo + 1 = k
  PROVE  IsFiniteSet(lo .. hi) /\ Cardinality(lo .. hi) = k
  <1>1. /\ IsFiniteSet(lo .. hi)
        /\ Cardinality(lo .. hi) = IF lo > hi THEN 0 ELSE hi - lo + 1
    BY FS_Interval
  <1>2. (IF lo > hi THEN 0 ELSE hi - lo + 1) = k
    OBVIOUS
  <1> QED
    BY <1>1, <1>2, Zenon

(* There are at most as many as there are items. *)
LEMMA HeldType ==
  ASSUME NEW A, Len(A) \in Nat, NEW E
  PROVE  /\ IsFiniteSet({p \in 1 .. Len(A) : A[p] \in E})
         /\ Held(A, E) \in 0 .. Len(A)
  <1>2. IsFiniteSet(1 .. Len(A)) /\ Cardinality(1 .. Len(A)) = Len(A)
    <2> DEFINE n == Len(A)
    <2> HIDE DEF n
    <2>1. n \in Nat
      BY DEF n
    <2>2. 1 \in Int /\ n \in Int /\ n - 1 + 1 = n
      BY <2>1
    <2>3. IsFiniteSet(1 .. n) /\ Cardinality(1 .. n) = n
      BY <2>1, <2>2, IntervalCount
    <2> QED
      BY <2>3 DEF n
  <1> QED
    BY <1>2, FS_Subset, FS_CardinalityType DEF Held

(* They can be counted. *)
LEMMA HeldNat ==
  ASSUME NEW A, Len(A) \in Nat, NEW E
  PROVE  Held(A, E) \in Nat
  <1>1. Held(A, E) \in 0 .. Len(A)
    BY HeldType
  <1> QED
    BY <1>1

(* What is of either of two sets apart is counted once. *)
LEMMA HeldApart ==
  ASSUME NEW A, Len(A) \in Nat, NEW E, NEW F, E \cap F = {}
  PROVE  Held(A, E \cup F) = Held(A, E) + Held(A, F)
  <1> DEFINE both == {p \in 1 .. Len(A) : A[p] \in E \cup F}
             left == {p \in 1 .. Len(A) : A[p] \in E}
             right == {p \in 1 .. Len(A) : A[p] \in F}
  <1>1. IsFiniteSet(left) /\ IsFiniteSet(right)
    BY HeldType
  <1>2. both = left \cup right /\ left \cap right = {}
    OBVIOUS
  <1> HIDE DEF both, left, right
  <1>3. Cardinality(left \cup right)
          = Cardinality(left) + Cardinality(right) - Cardinality(left \cap right)
    BY <1>1, FS_Union
  <1>4. Cardinality(left) \in Nat /\ Cardinality(right) \in Nat
    BY <1>1, FS_CardinalityType
  <1>5. Cardinality(both) = Cardinality(left \cup right) /\ Cardinality(left \cap right) = 0
    BY <1>2, FS_EmptySet, Zenon
  <1>6. Cardinality(both) = Cardinality(left) + Cardinality(right)
    BY <1>3, <1>4, <1>5
  <1> QED
    BY <1>6 DEF Held, both, left, right

(* Nothing is of no kind. *)
LEMMA HeldNone ==
  ASSUME NEW A, Len(A) \in Nat
  PROVE  Held(A, {}) = 0
  BY FS_EmptySet, {p \in 1 .. Len(A) : A[p] \in {}} = {} DEF Held

(* The items whose bucket is in s. *)
Of(map, s) == {x \in DOMAIN map : map[x] \in s}

(* bin holds the number of items of every bucket of S. *)
Tallied(bin, S, A, map) == \A v \in S : bin[v] = Held(A, Of(map, {v}))

(* The sum of the counts of some buckets is the count of their items. *)
LEMMA SumOfCounts ==
  ASSUME NEW A, Len(A) \in Nat, NEW map, NEW S, IsFiniteSet(S), NEW bin, Tallied(bin, S, A, map)
  PROVE  SumOver(bin, S) = Held(A, Of(map, S))
  <1> DEFINE g == [s \in SUBSET S |-> Held(A, Of(map, s))]
  <1>1. g[{}] = 0
    <2>1. Of(map, {}) = {}
      BY DEF Of
    <2> QED
      BY <2>1, HeldNone
  <1>2. ASSUME NEW s \in SUBSET S, NEW x \in s
        PROVE  g[s] = bin[x] + g[s \ {x}]
    <2>1. Of(map, s) = Of(map, {x}) \cup Of(map, s \ {x})
      BY DEF Of
    <2>2. Of(map, {x}) \cap Of(map, s \ {x}) = {}
      BY DEF Of
    <2>3. s \ {x} \in SUBSET S
      OBVIOUS
    <2>4. Held(A, Of(map, s)) = Held(A, Of(map, {x})) + Held(A, Of(map, s \ {x}))
      <3> DEFINE P == Of(map, {x})
                 Q == Of(map, s \ {x})
      <3>1. P \cap Q = {} /\ Of(map, s) = P \cup Q
        BY <2>1, <2>2
      <3> HIDE DEF P, Q
      <3>2. Held(A, P \cup Q) = Held(A, P) + Held(A, Q)
        BY <3>1, HeldApart
      <3> QED
        BY <3>1, <3>2, Zenon DEF P, Q
    <2>5. bin[x] = Held(A, Of(map, {x}))
      BY DEF Tallied
    <2> QED
      BY <2>3, <2>4, <2>5
  <1> HIDE DEF g
  <1>3. \A s \in SUBSET S : \A x \in s : g[s] = bin[x] + g[s \ {x}]
    BY <1>2
  <1>4. Adds(bin, S, g)
    BY <1>1, <1>3 DEF Adds
  <1>5. SumOver(bin, S) = g[S]
    BY <1>4, SumOverIs, Zenon
  <1> QED
    BY <1>5 DEF g

(* Two places exchanged. *)
Exchanged(A, j, k) == [A EXCEPT ![j] = A[k], ![k] = A[j]]

(* An exchange changes two places only. *)
LEMMA ExchangedType ==
  ASSUME NEW D, NEW A \in Seq(D), NEW j \in 1 .. Len(A), NEW k \in 1 .. Len(A)
  PROVE  /\ Exchanged(A, j, k) \in Seq(D) /\ Len(Exchanged(A, j, k)) = Len(A)
         /\ \A p \in 1 .. Len(A) :
              Exchanged(A, j, k)[p] = IF p = j THEN A[k] ELSE IF p = k THEN A[j] ELSE A[p]
  <1>1. \A p \in 1 .. Len(A) :
              Exchanged(A, j, k)[p] = IF p = k THEN A[j] ELSE IF p = j THEN A[k] ELSE A[p]
    BY DEF Exchanged
  <1>2. Exchanged(A, j, k) \in Seq(D) /\ Len(Exchanged(A, j, k)) = Len(A)
    BY DEF Exchanged
  <1> QED
    BY <1>1, <1>2

(* An exchange loses and doubles nothing. *)
LEMMA ExchangeKeeps ==
  ASSUME NEW D, NEW A \in Seq(D), NEW j \in 1 .. Len(A), NEW k \in 1 .. Len(A), NEW E
  PROVE  Held(Exchanged(A, j, k), E) = Held(A, E)
  <1> DEFINE B == Exchanged(A, j, k)
             in(C) == {p \in 1 .. Len(A) : C[p] \in E}
             turn == [p \in 1 .. Len(A) |-> IF p = j THEN k ELSE IF p = k THEN j ELSE p]
             f == [p \in in(A) |-> turn[p]]
  <1>1. Len(A) \in Nat /\ Len(B) = Len(A)
    BY ExchangedType
  <1>2. \A p \in 1 .. Len(A) : B[p] = IF p = j THEN A[k] ELSE IF p = k THEN A[j] ELSE A[p]
    BY ExchangedType
  <1>3. \A p \in 1 .. Len(A) : turn[p] \in 1 .. Len(A) /\ turn[turn[p]] = p
    OBVIOUS
  <1>4. \A p \in 1 .. Len(A) : B[p] = A[turn[p]]
    BY <1>2
  <1>5. \A p \in 1 .. Len(A) : A[p] = B[turn[p]]
    BY <1>3, <1>4
  <1> HIDE DEF turn, B
  <1>6. f \in Bijection(in(A), in(B))
    <2>1. \A p \in in(A) : turn[p] \in in(B)
      BY <1>3, <1>5
    <2>2. \A p \in in(B) : turn[p] \in in(A)
      BY <1>3, <1>4
    <2>3. f \in [in(A) -> in(B)]
      BY <2>1
    <2>4. \A p, q \in in(A) : f[p] = f[q] => p = q
      BY <1>3
    <2>5. \A p \in in(B) : f[turn[p]] = p /\ turn[p] \in DOMAIN f
      BY <1>3, <2>2
    <2> QED
      BY <2>3, <2>4, <2>5 DEF Bijection, Injection, Surjection, IsInjective
  <1>7. IsFiniteSet(in(A))
    BY HeldType
  <1>8. Cardinality(in(B)) = Cardinality(in(A))
    BY <1>6, <1>7, FS_Bijection DEF ExistsBijection
  <1> QED
    BY <1>1, <1>8 DEF Held, B

(* A sort of any items by any map of them into n buckets. *)
AnySort ==
  Free /\ \E D : \E n \in Nat, items \in Seq(D) : \E map \in [D -> Buckets(n)] :
    \E about : SortCall(items, map, n, about)

(* NSort, with any items and maps, in a library that does anything else as well. *)
SortSpec == bench = NothingThere /\ [][AnySort \/ NSortNext \/ Elsewhere({"NSort"})]_bench

(* What a sort keeps. *)
SortFields == {"is", "pc", "n", "given", "A", "map", "bin", "tweaked", "i", "ptr", "about", "cells"}

(* The types of what it keeps. *)
SortTyped(b) ==
  /\ SortFields \subseteq DOMAIN b
  /\ b.pc \in {"counted", "moving", "sorted", "done"}
  /\ b.n \in Nat /\ b.i \in 0 .. b.n
  /\ b.given \in Seq(DOMAIN b.map) /\ b.A \in Seq(DOMAIN b.map)
  /\ b.map \in [DOMAIN b.map -> Buckets(b.n)]
  /\ b.bin \in [Buckets(b.n) -> Nat] /\ b.ptr \in [Buckets(b.n) -> Nat]

(* As many items of every kind as were given. *)
NoneLost(b) ==
  Len(b.A) = Len(b.given) /\ \A E : Held(b.A, E) = Held(b.given, E)

(* After the counting loop bin has the number of items of every bucket. *)
Counted(b) ==
  /\ b.A = b.given /\ b.i = 0
  /\ \A v \in Buckets(b.n) : b.bin[v] = Held(b.given, Of(b.map, {v}))

(* After the running sum it has the end of every bucket. *)
Positioned(b) == \A v \in Buckets(b.n) : b.bin[v] = Held(b.given, Of(b.map, 0 .. v))

(* Every pointer is in its bucket, and what is before it is of that bucket. *)
Filled(b) ==
  \A v \in Buckets(b.n) :
    /\ b.ptr[v] \in Begin(b.bin, v) .. End(b.bin, v)
    /\ \A p \in Begin(b.bin, v) .. b.ptr[v] - 1 : BucketAt(b, p) = v
    /\ v < b.i => b.ptr[v] = End(b.bin, v)

(* The inductive invariant of the sort. *)
SortKept(b) ==
  b.is = "NSort" =>
    /\ SortTyped(b)
    /\ NoneLost(b)
    /\ b.pc = "counted" => Counted(b)
    /\ b.pc # "counted" => Positioned(b) /\ Filled(b)
    /\ b.pc \in {"sorted", "done"} => b.i = b.n
    /\ b.pc = "done" /\ b.about = "grid" => b.cells = ParticleRanges(b, 2)

(* The items of buckets that are apart are apart. *)
LEMMA OfApart ==
  ASSUME NEW map, NEW s, NEW t, s \cap t = {}
  PROVE  /\ Of(map, s \cup t) = Of(map, s) \cup Of(map, t)
         /\ Of(map, s) \cap Of(map, t) = {}
  BY DEF Of

(* So their numbers add up. *)
LEMMA HeldOfApart ==
  ASSUME NEW A, Len(A) \in Nat, NEW map, NEW s, NEW t, s \cap t = {}
  PROVE  Held(A, Of(map, s \cup t)) = Held(A, Of(map, s)) + Held(A, Of(map, t))
  <1> DEFINE P == Of(map, s)
             Q == Of(map, t)
  <1>1. P \cap Q = {} /\ Of(map, s \cup t) = P \cup Q
    BY OfApart
  <1> HIDE DEF P, Q
  <1>2. Held(A, P \cup Q) = Held(A, P) + Held(A, Q)
    BY <1>1, HeldApart
  <1> QED
    BY <1>1, <1>2, Zenon DEF P, Q

(* The buckets lie one behind the other, each as long as it has items. *)
LEMMA BucketsApart ==
  ASSUME NEW b, SortTyped(b), Positioned(b)
  PROVE  /\ \A v \in Buckets(b.n) :
              /\ Begin(b.bin, v) \in Nat /\ End(b.bin, v) \in 0 .. Len(b.given)
              /\ End(b.bin, v) = Begin(b.bin, v) + Held(b.given, Of(b.map, {v}))
         /\ \A u, v \in Buckets(b.n) : u < v => End(b.bin, u) <= Begin(b.bin, v)
  <1>0. Len(b.given) \in Nat /\ b.n \in Nat
    BY DEF SortTyped
  <1>1. \A v \in Buckets(b.n) : End(b.bin, v) = Held(b.given, Of(b.map, 0 .. v))
    BY DEF Positioned, End
  <1>2. \A E : Held(b.given, E) \in 0 .. Len(b.given) /\ Len(b.given) \in Nat
    BY <1>0, HeldType
  <1>3. ASSUME NEW v \in Buckets(b.n)
        PROVE  End(b.bin, v) = Begin(b.bin, v) + Held(b.given, Of(b.map, {v}))
    <2>1. CASE v = 0
      <3>1. 0 .. v = {v}
        BY <2>1
      <3>2. End(b.bin, v) = Held(b.given, Of(b.map, {v}))
        BY <1>1, <3>1, Zenon
      <3> QED
        BY <1>2, <2>1, <3>2 DEF Begin
    <2>2. CASE v # 0
      <3>1. v - 1 \in Buckets(b.n) /\ 0 .. v = (0 .. v - 1) \cup {v} /\ (0 .. v - 1) \cap {v} = {}
        BY <2>2 DEF Buckets, SortTyped
      <3>2. Held(b.given, Of(b.map, (0 .. v - 1) \cup {v}))
              = Held(b.given, Of(b.map, 0 .. v - 1)) + Held(b.given, Of(b.map, {v}))
        BY <1>0, <3>1, HeldOfApart
      <3>3. End(b.bin, v) = Held(b.given, Of(b.map, (0 .. v - 1) \cup {v}))
        BY <1>1, <3>1, Zenon
      <3>4. Begin(b.bin, v) = Held(b.given, Of(b.map, 0 .. v - 1))
        BY <2>2, <3>1 DEF Begin, Positioned
      <3> QED
        BY <3>2, <3>3, <3>4
    <2> QED
      BY <2>1, <2>2
  <1>4. ASSUME NEW u \in Buckets(b.n), NEW v \in Buckets(b.n), u < v
        PROVE  End(b.bin, u) <= Begin(b.bin, v)
    <2>1. /\ v # 0 /\ v - 1 \in Buckets(b.n)
          /\ 0 .. v - 1 = (0 .. u) \cup (u + 1 .. v - 1) /\ (0 .. u) \cap (u + 1 .. v - 1) = {}
      <3>1. u \in Nat /\ v \in Nat /\ v < b.n
        BY <1>0 DEF Buckets
      <3>2. v # 0 /\ v - 1 \in Buckets(b.n)
        BY <1>0, <1>4, <3>1 DEF Buckets
      <3>3. 0 .. v - 1 = (0 .. u) \cup (u + 1 .. v - 1)
        BY <1>4, <3>1
      <3>4. (0 .. u) \cap (u + 1 .. v - 1) = {}
        BY <3>1
      <3> QED
        BY <3>2, <3>3, <3>4
    <2>2. Held(b.given, Of(b.map, (0 .. u) \cup (u + 1 .. v - 1)))
            = Held(b.given, Of(b.map, 0 .. u)) + Held(b.given, Of(b.map, u + 1 .. v - 1))
      <3> DEFINE S == 0 .. u
                 T == u + 1 .. v - 1
      <3>1. S \cap T = {}
        BY <2>1
      <3> HIDE DEF S, T
      <3>2. Held(b.given, Of(b.map, S \cup T)) = Held(b.given, Of(b.map, S)) + Held(b.given, Of(b.map, T))
        BY <1>0, <3>1, HeldOfApart
      <3> QED
        BY <3>2 DEF S, T
    <2>3. Held(b.given, Of(b.map, 0 .. v - 1))
            = Held(b.given, Of(b.map, (0 .. u) \cup (u + 1 .. v - 1)))
      BY <2>1, Zenon
    <2>4. Begin(b.bin, v) = Held(b.given, Of(b.map, 0 .. v - 1))
      BY <2>1 DEF Begin, Positioned
    <2> QED
      BY <1>1, <1>2, <2>2, <2>3, <2>4
  <1>5. ASSUME NEW v \in Buckets(b.n)
        PROVE  Begin(b.bin, v) \in Nat /\ End(b.bin, v) \in 0 .. Len(b.given)
    <2>1. End(b.bin, v) \in 0 .. Len(b.given)
      BY <1>1, <1>2
    <2>2. v # 0 => v - 1 \in Buckets(b.n)
      BY DEF Buckets, SortTyped
    <2>3. Begin(b.bin, v) \in Nat
      BY <2>2 DEF Begin, SortTyped
    <2> QED
      BY <2>1, <2>3
  <1> QED
    BY <1>3, <1>4, <1>5

(* No place is in two buckets. *)
LEMMA OneBucket ==
  ASSUME NEW b, SortTyped(b), Positioned(b), NEW u \in Buckets(b.n), NEW w \in Buckets(b.n),
         NEW p \in Begin(b.bin, u) .. End(b.bin, u) - 1,
         p \in Begin(b.bin, w) .. End(b.bin, w) - 1
  PROVE  u = w
  <1>1. \A x, y \in Buckets(b.n) : x < y => End(b.bin, x) <= Begin(b.bin, y)
    <2>1. /\ \A v \in Buckets(b.n) :
              /\ Begin(b.bin, v) \in Nat /\ End(b.bin, v) \in 0 .. Len(b.given)
              /\ End(b.bin, v) = Begin(b.bin, v) + Held(b.given, Of(b.map, {v}))
          /\ \A x, y \in Buckets(b.n) : x < y => End(b.bin, x) <= Begin(b.bin, y)
      BY BucketsApart
    <2> QED
      BY <2>1
  <1>2. \A v \in Buckets(b.n) : Begin(b.bin, v) \in Nat /\ End(b.bin, v) \in 0 .. Len(b.given)
    BY BucketsApart
  <1>3. /\ Begin(b.bin, u) \in Nat /\ End(b.bin, u) \in Nat
        /\ Begin(b.bin, w) \in Nat /\ End(b.bin, w) \in Nat
        /\ u \in Nat /\ w \in Nat
    BY <1>2 DEF Buckets, SortTyped
  <1>4. p \in Nat /\ Begin(b.bin, u) <= p /\ p < End(b.bin, u) /\ Begin(b.bin, w) <= p /\ p < End(b.bin, w)
    BY <1>3
  <1>5. ~(End(b.bin, u) <= Begin(b.bin, w)) /\ ~(End(b.bin, w) <= Begin(b.bin, u))
    BY <1>3, <1>4
  <1> QED
    BY <1>1, <1>3, <1>5

(* Where the moving loop works: inside of the items, and the next place of *)
(* the bucket of the item found there is free.                             *)
LEMMA RoomLeft ==
  ASSUME NEW b, SortTyped(b), NoneLost(b), Positioned(b), Filled(b), b.i < b.n,
         b.ptr[b.i] < End(b.bin, b.i)
  PROVE  LET pos == b.ptr[b.i]
             v == BucketAt(b, pos)
         IN /\ b.i \in Buckets(b.n) /\ v \in Buckets(b.n)
            /\ pos \in Begin(b.bin, b.i) .. End(b.bin, b.i) - 1
            /\ pos \in 0 .. Len(b.A) - 1
            /\ b.ptr[v] \in Begin(b.bin, v) .. End(b.bin, v) - 1
            /\ b.ptr[v] \in 0 .. Len(b.A) - 1
            /\ pos # b.ptr[v] <=> v # b.i
  <1> DEFINE pos == b.ptr[b.i]
             v == BucketAt(b, pos)
             In == {q \in 1 .. Len(b.A) : b.A[q] \in Of(b.map, {v})}
             filled == Begin(b.bin, v) + 1 .. b.ptr[v]
  <1>0. Len(b.A) = Len(b.given) /\ Len(b.A) \in Nat /\ Len(b.given) \in Nat /\ b.n \in Nat /\ b.i \in Nat
    BY DEF SortTyped, NoneLost
  <1>1. b.i \in Buckets(b.n)
    BY <1>0 DEF Buckets
  <1>2. /\ \A u \in Buckets(b.n) :
              /\ Begin(b.bin, u) \in Nat /\ End(b.bin, u) \in 0 .. Len(b.given)
              /\ End(b.bin, u) = Begin(b.bin, u) + Held(b.given, Of(b.map, {u}))
        /\ \A u, w \in Buckets(b.n) : u < w => End(b.bin, u) <= Begin(b.bin, w)
    BY BucketsApart
  <1>3. /\ pos \in Begin(b.bin, b.i) .. End(b.bin, b.i) - 1 /\ pos \in 0 .. Len(b.A) - 1
        /\ pos \in Nat /\ Begin(b.bin, b.i) \in Nat /\ End(b.bin, b.i) \in Nat
    <2>1. Begin(b.bin, b.i) \in Nat /\ End(b.bin, b.i) \in 0 .. Len(b.given)
      BY <1>1, <1>2
    <2>2. b.ptr[b.i] \in Begin(b.bin, b.i) .. End(b.bin, b.i)
      BY <1>1 DEF Filled
    <2> QED
      BY <1>0, <2>1, <2>2
  <1>4. b.A[pos + 1] \in DOMAIN b.map /\ v \in Buckets(b.n)
    <2>0. pos \in 0 .. Len(b.A) - 1 /\ Len(b.A) \in Nat
      BY <1>0, <1>3, Zenon
    <2>1. pos + 1 \in 1 .. Len(b.A)
      BY <2>0
    <2>2. b.A \in Seq(DOMAIN b.map) /\ b.map \in [DOMAIN b.map -> Buckets(b.n)]
      BY DEF SortTyped
    <2>3. b.A[pos + 1] \in DOMAIN b.map
      BY <2>1, <2>2
    <2> QED
      BY <2>2, <2>3 DEF BucketAt
  <1>5. pos + 1 \in In
    <2>0. pos \in 0 .. Len(b.A) - 1 /\ Len(b.A) \in Nat
      BY <1>0, <1>3, Zenon
    <2>1. pos + 1 \in 1 .. Len(b.A)
      BY <2>0
    <2>2. b.map[b.A[pos + 1]] = v
      BY DEF BucketAt
    <2> QED
      BY <1>4, <2>1, <2>2 DEF Of
  <1> HIDE DEF v, pos
  <1>6. /\ b.ptr[v] \in Begin(b.bin, v) .. End(b.bin, v) /\ b.ptr[v] \in Nat
        /\ \A p \in Begin(b.bin, v) .. b.ptr[v] - 1 : BucketAt(b, p) = v
        /\ Begin(b.bin, v) \in Nat /\ End(b.bin, v) \in 0 .. Len(b.A) /\ End(b.bin, v) \in Nat
        /\ End(b.bin, v) = Begin(b.bin, v) + Held(b.given, Of(b.map, {v}))
    <2>1. /\ b.ptr[v] \in Begin(b.bin, v) .. End(b.bin, v)
          /\ \A p \in Begin(b.bin, v) .. b.ptr[v] - 1 : BucketAt(b, p) = v
      BY <1>4 DEF Filled
    <2>2. /\ Begin(b.bin, v) \in Nat /\ End(b.bin, v) \in 0 .. Len(b.A)
          /\ End(b.bin, v) = Begin(b.bin, v) + Held(b.given, Of(b.map, {v}))
      BY <1>0, <1>2, <1>4
    <2> QED
      BY <1>0, <2>1, <2>2
  <1>7. filled \subseteq In
    <2> SUFFICES ASSUME NEW q \in filled
                 PROVE  q \in In
      OBVIOUS
    <2>1. q - 1 \in Begin(b.bin, v) .. b.ptr[v] - 1 /\ q \in 1 .. Len(b.A)
      BY <1>0, <1>6
    <2>2. BucketAt(b, q - 1) = v
      BY <1>6, <2>1
    <2>3. q - 1 + 1 = q
      BY <2>1
    <2>4. b.map[b.A[q]] = v
      BY <2>2, <2>3, Zenon DEF BucketAt
    <2>5. b.A[q] \in DOMAIN b.map
      <3>1. b.A \in Seq(DOMAIN b.map)
        BY DEF SortTyped
      <3> QED
        BY <2>1, <3>1
    <2> QED
      BY <2>1, <2>4, <2>5 DEF Of
  <1>8. v # b.i => End(b.bin, v) <= Begin(b.bin, b.i) \/ End(b.bin, b.i) <= Begin(b.bin, v)
    <2>1. v \in Nat
      BY <1>4 DEF Buckets
    <2>2. v # b.i => v < b.i \/ b.i < v
      BY <1>0, <2>1
    <2> QED
      BY <1>1, <1>2, <1>4, <2>2
  <1>9. pos + 1 \notin filled
    <2>1. CASE v = b.i
      BY <1>3, <2>1 DEF pos
    <2>2. CASE v # b.i
      <3>1. End(b.bin, v) <= pos \/ pos < Begin(b.bin, v)
        BY <1>3, <1>6, <1>8, <2>2
      <3> QED
        BY <1>3, <1>6, <3>1
    <2> QED
      BY <2>1, <2>2
  <1>10. b.ptr[v] # End(b.bin, v)
    <2> SUFFICES ASSUME b.ptr[v] = End(b.bin, v)
                 PROVE  FALSE
      OBVIOUS
    <2> DEFINE k == Held(b.given, Of(b.map, {v}))
    <2>1. IsFiniteSet(In) /\ Cardinality(In) = k /\ k \in Nat
      <3>1. IsFiniteSet(In) /\ k \in 0 .. Len(b.given)
        BY <1>0, HeldType
      <3>2. Cardinality(In) = Held(b.A, Of(b.map, {v}))
        BY DEF Held
      <3> QED
        BY <1>0, <3>1, <3>2 DEF NoneLost
    <2>2. IsFiniteSet(filled) /\ Cardinality(filled) = k
      <3> DEFINE lo == Begin(b.bin, v) + 1
                 hi == b.ptr[v]
      <3>1. lo \in Nat /\ hi \in Nat /\ hi - lo + 1 = k
        <4>1. b.ptr[v] = Begin(b.bin, v) + k
          BY <1>6, Zenon
        <4> HIDE DEF k
        <4>2. Begin(b.bin, v) \in Nat
          BY <1>6
        <4> QED
          BY <2>1, <4>1, <4>2
      <3> HIDE DEF lo, hi, k
      <3>2. lo \in Int /\ hi \in Int
        BY <3>1
      <3>4. IsFiniteSet(lo .. hi) /\ Cardinality(lo .. hi) = k
        BY <2>1, <3>1, <3>2, IntervalCount
      <3> QED
        BY <3>4 DEF lo, hi
    <2> HIDE DEF filled, In, k
    <2>4. /\ IsFiniteSet(filled \cup {pos + 1})
          /\ Cardinality(filled \cup {pos + 1}) = Cardinality(filled) + 1
      BY <1>9, <2>2, FS_AddElement
    <2>5. Cardinality(filled \cup {pos + 1}) <= Cardinality(In)
      <3>1. filled \cup {pos + 1} \in SUBSET In
        BY <1>5, <1>7
      <3> QED
        BY <2>1, <3>1, FS_Subset
    <2> QED
      BY <2>1, <2>2, <2>4, <2>5
  <1>11. b.ptr[v] \in Begin(b.bin, v) .. End(b.bin, v) - 1 /\ b.ptr[v] \in 0 .. Len(b.A) - 1
    BY <1>0, <1>6, <1>10
  <1>12. pos # b.ptr[v] <=> v # b.i
    BY <1>3, <1>6, <1>8, <1>11 DEF pos
  <1> QED
    BY <1>1, <1>3, <1>4, <1>11, <1>12 DEF v, pos

(* A turn of the moving loop puts one item into its bucket, which had room.*)
LEMMA MoveKeeps ==
  ASSUME NEW b, b.is = "NSort", SortKept(b), Filling(b)
  PROVE  SortKept(Move(b))
  <1> DEFINE c == Move(b)
             pos == b.ptr[b.i]
             v == BucketAt(b, pos)
             pos2 == b.ptr[v]
  <1>1. /\ SortTyped(b) /\ NoneLost(b) /\ Positioned(b) /\ Filled(b)
        /\ b.pc = "moving" /\ b.i < b.n /\ b.ptr[b.i] < End(b.bin, b.i)
    BY DEF SortKept, Filling
  <1>2. /\ b.i \in Buckets(b.n) /\ v \in Buckets(b.n)
        /\ pos \in Begin(b.bin, b.i) .. End(b.bin, b.i) - 1
        /\ pos \in 0 .. Len(b.A) - 1
        /\ pos2 \in Begin(b.bin, v) .. End(b.bin, v) - 1
        /\ pos2 \in 0 .. Len(b.A) - 1
        /\ pos # pos2 <=> v # b.i
    BY <1>1, RoomLeft
  <1>3. /\ b.i \in Nat /\ v \in Nat /\ b.n \in Nat /\ pos \in Nat /\ pos2 \in Nat
        /\ Len(b.A) \in Nat /\ Len(b.given) = Len(b.A) /\ b.A \in Seq(DOMAIN b.map)
    <2>1. b.n \in Nat /\ Len(b.A) \in Nat /\ Len(b.given) = Len(b.A) /\ b.A \in Seq(DOMAIN b.map)
      BY <1>1 DEF SortTyped, NoneLost
    <2> HIDE DEF v, pos, pos2
    <2> QED
      BY <1>2, <2>1 DEF Buckets
  <1>4. /\ SortFields \subseteq DOMAIN c
        /\ c.is = b.is /\ c.pc = b.pc /\ c.n = b.n /\ c.given = b.given /\ c.map = b.map
        /\ c.bin = b.bin /\ c.i = b.i
        /\ c.A = (IF pos = pos2 THEN b.A ELSE Exchanged(b.A, pos + 1, pos2 + 1))
        /\ c.ptr = [b.ptr EXCEPT ![v] = @ + 1]
    <2>1. CASE pos = pos2
      <3>1. v = b.i
        BY <1>2, <2>1
      <3>2. c = [b EXCEPT !.ptr[b.i] = @ + 1]
        BY <2>1 DEF Move
      <3> HIDE DEF c, v, pos, pos2
      <3> QED
        BY <1>1, <2>1, <3>1, <3>2 DEF SortTyped, SortFields
    <2>2. CASE pos # pos2
      <3>1. c = [b EXCEPT !.A = Exchanged(b.A, pos + 1, pos2 + 1), !.ptr[v] = @ + 1]
        BY <2>2 DEF Move, Exchanged
      <3> HIDE DEF c, v, pos, pos2
      <3> QED
        BY <1>1, <2>2, <3>1 DEF SortTyped, SortFields
    <2> QED
      BY <2>1, <2>2
  <1>5. /\ c.A \in Seq(DOMAIN b.map) /\ Len(c.A) = Len(b.A)
        /\ \A p \in 1 .. Len(b.A) : c.A[p] = IF p = pos + 1 THEN b.A[pos2 + 1]
                                             ELSE IF p = pos2 + 1 THEN b.A[pos + 1] ELSE b.A[p]
    <2> HIDE DEF c, v, pos, pos2
    <2>0. pos \in 0 .. Len(b.A) - 1 /\ pos2 \in 0 .. Len(b.A) - 1 /\ Len(b.A) \in Nat
      BY <1>2, <1>3, Zenon
    <2>1. pos + 1 \in 1 .. Len(b.A) /\ pos2 + 1 \in 1 .. Len(b.A)
      BY <2>0
    <2>2. CASE pos = pos2
      BY <1>3, <1>4, <2>2
    <2>3. CASE pos # pos2
      <3> DEFINE j == pos + 1
                 k == pos2 + 1
                 D == DOMAIN b.map
                 B == b.A
                 X == Exchanged(B, j, k)
      <3>1. j \in 1 .. Len(b.A) /\ k \in 1 .. Len(b.A) /\ b.A \in Seq(DOMAIN b.map)
        BY <1>3, <2>1
      <3>2. c.A = X
        BY <1>4, <2>3
      <3> HIDE DEF j, k, B, D
      <3>3. j \in 1 .. Len(B) /\ k \in 1 .. Len(B) /\ B \in Seq(D)
        BY <3>1 DEF B, D
      <3>4. /\ X \in Seq(D) /\ Len(X) = Len(B)
            /\ \A p \in 1 .. Len(B) : X[p] = IF p = j THEN B[k] ELSE IF p = k THEN B[j] ELSE B[p]
        <4>1. X \in Seq(D) /\ Len(X) = Len(B)
          BY <3>3 DEF Exchanged
        <4>2. \A p \in 1 .. Len(B) : X[p] = IF p = j THEN B[k] ELSE IF p = k THEN B[j] ELSE B[p]
          BY <3>3 DEF Exchanged
        <4> QED
          BY <4>1, <4>2
      <3> HIDE DEF X
      <3> QED
        BY <3>2, <3>4 DEF j, k, B, D
    <2> QED
      BY <2>2, <2>3
  <1>6. \A E : Held(c.A, E) = Held(b.A, E)
    <2> HIDE DEF c, v, pos, pos2
    <2>0. pos \in 0 .. Len(b.A) - 1 /\ pos2 \in 0 .. Len(b.A) - 1 /\ Len(b.A) \in Nat
      BY <1>2, <1>3, Zenon
    <2>1. pos + 1 \in 1 .. Len(b.A) /\ pos2 + 1 \in 1 .. Len(b.A)
      BY <2>0
    <2>2. \A E : Held(Exchanged(b.A, pos + 1, pos2 + 1), E) = Held(b.A, E)
      BY <1>3, <2>1, ExchangeKeeps
    <2> QED
      BY <1>4, <2>2
  <1>7. b.map[b.A[pos + 1]] = v
    BY DEF BucketAt
  <1> HIDE DEF c, v, pos2
  <1>8. SortTyped(c)
    <2>1. c.ptr \in [Buckets(b.n) -> Nat]
      <3>1. b.ptr \in [Buckets(b.n) -> Nat]
        BY <1>1 DEF SortTyped
      <3> QED
        BY <1>2, <1>4, <3>1
    <2>2. c.A \in Seq(DOMAIN c.map) /\ DOMAIN c.map = DOMAIN b.map
      BY <1>4, <1>5
    <2> QED
      BY <1>1, <1>4, <2>1, <2>2 DEF SortTyped
  <1>9. NoneLost(c)
    BY <1>1, <1>4, <1>5, <1>6 DEF NoneLost
  <1>10. Positioned(c)
    BY <1>1, <1>4 DEF Positioned
  <1>11. Filled(c)
    <2> SUFFICES ASSUME NEW u \in Buckets(b.n)
                 PROVE  /\ c.ptr[u] \in Begin(b.bin, u) .. End(b.bin, u)
                        /\ \A p \in Begin(b.bin, u) .. c.ptr[u] - 1 : b.map[c.A[p + 1]] = u
                        /\ u < b.i => c.ptr[u] = End(b.bin, u)
      BY <1>4 DEF Filled, BucketAt
    <2>1. /\ b.ptr[u] \in Begin(b.bin, u) .. End(b.bin, u)
          /\ \A p \in Begin(b.bin, u) .. b.ptr[u] - 1 : b.map[b.A[p + 1]] = u
          /\ u < b.i => b.ptr[u] = End(b.bin, u)
      BY <1>1 DEF Filled, BucketAt
    <2>2. c.ptr[u] = IF u = v THEN pos2 + 1 ELSE b.ptr[u]
      BY <1>1, <1>2, <1>4 DEF SortTyped, pos2
    <2>3. /\ Begin(b.bin, u) \in Nat /\ End(b.bin, u) \in 0 .. Len(b.A)
          /\ b.ptr[u] \in Nat /\ u \in Nat
      <3>1. Begin(b.bin, u) \in Nat /\ End(b.bin, u) \in 0 .. Len(b.given)
        BY <1>1, BucketsApart
      <3>2. b.ptr[u] \in Nat
        BY <1>1 DEF SortTyped
      <3>3. u \in Nat
        BY <1>3 DEF Buckets
      <3> QED
        BY <1>3, <3>1, <3>2, <3>3
    <2>4. c.ptr[u] \in Begin(b.bin, u) .. End(b.bin, u) /\ (u < b.i => c.ptr[u] = End(b.bin, u))
      <3>1. CASE u = v
        <4>1. ~(u < b.i)
          <5>1. b.ptr[u] = pos2 /\ pos2 # End(b.bin, u)
            BY <1>2, <1>3, <2>3, <3>1 DEF pos2
          <5> QED
            BY <2>1, <5>1
        <4> QED
          BY <1>2, <1>3, <2>2, <2>3, <3>1, <4>1
      <3>2. CASE u # v
        BY <2>1, <2>2, <3>2
      <3> QED
        BY <3>1, <3>2
    <2>5. ASSUME NEW p \in Begin(b.bin, u) .. c.ptr[u] - 1
          PROVE  b.map[c.A[p + 1]] = u
      <3>1. p \in Nat /\ p + 1 \in 1 .. Len(b.A) /\ p \in Begin(b.bin, u) .. End(b.bin, u) - 1
        <4>1. Len(b.A) \in Nat /\ c.ptr[u] \in Begin(b.bin, u) .. End(b.bin, u)
          BY <1>3, <2>4, Zenon
        <4>2. Begin(b.bin, u) \in Nat /\ End(b.bin, u) \in 0 .. Len(b.A)
          BY <2>3, Zenon
        <4> HIDE DEF c
        <4> QED
          BY <4>1, <4>2
      <3>2. CASE u = v /\ p = pos2
        <4>1. c.A[p + 1] = b.A[pos + 1]
          BY <1>3, <1>5, <3>1, <3>2
        <4> QED
          BY <1>7, <3>2, <4>1
      <3>3. CASE p \in Begin(b.bin, u) .. b.ptr[u] - 1
        <4>1. p < b.ptr[u]
          BY <2>3, <3>1, <3>3
        <4>2. p # pos2
          <5> SUFFICES ASSUME p = pos2
                       PROVE  FALSE
            OBVIOUS
          <5>1. u = v
            BY <1>1, <1>2, <3>1, OneBucket
          <5> QED
            BY <1>3, <4>1, <5>1 DEF pos2
        <4>3. p # pos
          <5> SUFFICES ASSUME p = pos
                       PROVE  FALSE
            OBVIOUS
          <5>1. u = b.i
            BY <1>1, <1>2, <3>1, OneBucket
          <5> QED
            BY <1>3, <4>1, <5>1
        <4>4. c.A[p + 1] = b.A[p + 1]
          BY <1>3, <1>5, <3>1, <4>2, <4>3
        <4> QED
          BY <2>1, <3>3, <4>4
      <3>4. (u = v /\ p = pos2) \/ p \in Begin(b.bin, u) .. b.ptr[u] - 1
        <4>1. CASE u = v
          <5>1. p < pos2 + 1 /\ b.ptr[u] = pos2
            BY <1>3, <2>2, <2>3, <3>1, <4>1 DEF pos2
          <5> QED
            BY <1>3, <2>3, <3>1, <4>1, <5>1
        <4>2. CASE u # v
          BY <2>2, <4>2
        <4> QED
          BY <4>1, <4>2
      <3> QED
        BY <3>2, <3>3, <3>4
    <2> QED
      BY <2>1, <2>4, <2>5
  <1> QED
    BY <1>1, <1>4, <1>8, <1>9, <1>10, <1>11 DEF SortKept, c

(* The loop that counts gives every bucket the number of its items. *)
LEMMA CountsHeld ==
  ASSUME NEW map, NEW items \in Seq(DOMAIN map), NEW n \in Nat, NEW v \in Buckets(n)
  PROVE  Counts(items, map, n)[v] = Held(items, Of(map, {v}))
  <1>1. {p \in 1 .. Len(items) : map[items[p]] = v} = {p \in 1 .. Len(items) : items[p] \in Of(map, {v})}
    BY DEF Of
  <1> QED
    BY <1>1, Zenon DEF Counts, Held

(* A sort begins with its counts. *)
LEMMA CallKeeps ==
  ASSUME AnySort
  PROVE  SortKept(bench')
  <1>1. PICK D : \E n \in Nat, items \in Seq(D) : \E map \in [D -> Buckets(n)] :
                   \E about : SortCall(items, map, n, about)
    BY DEF AnySort
  <1>2. PICK n \in Nat, items \in Seq(D) : \E map \in [D -> Buckets(n)] :
          \E about : SortCall(items, map, n, about)
    BY <1>1
  <1>2a. PICK map \in [D -> Buckets(n)] : \E about : SortCall(items, map, n, about)
    BY <1>2
  <1>2b. PICK about : SortCall(items, map, n, about)
    BY <1>2a
  <1> DEFINE c == [is |-> "NSort", pc |-> "counted", n |-> n, given |-> items, A |-> items,
                   map |-> map, bin |-> Counts(items, map, n), tweaked |-> FALSE, i |-> 0,
                   ptr |-> [v \in Buckets(n) |-> 0], about |-> about, cells |-> <<>>]
  <1>3. bench' = c
    BY <1>2b DEF SortCall, PutOn
  <1>4. /\ SortFields \subseteq DOMAIN c
        /\ c.is = "NSort" /\ c.pc = "counted" /\ c.n = n /\ c.given = items /\ c.A = items
        /\ c.map = map /\ c.bin = Counts(items, map, n) /\ c.i = 0
        /\ c.ptr = [v \in Buckets(n) |-> 0]
    BY DEF SortFields
  <1> HIDE DEF c
  <1>5. DOMAIN map = D /\ items \in Seq(DOMAIN map) /\ Len(items) \in Nat
    OBVIOUS
  <1>6. \A v \in Buckets(n) : Counts(items, map, n)[v] = Held(items, Of(map, {v}))
    BY <1>5, CountsHeld
  <1>7. Counts(items, map, n) \in [Buckets(n) -> Nat]
    <2>1. \A v \in Buckets(n) : Held(items, Of(map, {v})) \in Nat
      BY <1>5, HeldNat
    <2>2. Counts(items, map, n) = [v \in Buckets(n) |-> Counts(items, map, n)[v]]
      BY DEF Counts
    <2> QED
      BY <1>6, <2>1, <2>2
  <1>8. SortTyped(c)
    BY <1>4, <1>5, <1>7 DEF SortTyped
  <1>9. NoneLost(c) /\ Counted(c)
    BY <1>4, <1>6 DEF NoneLost, Counted
  <1> QED
    BY <1>3, <1>4, <1>8, <1>9 DEF SortKept

(* A tweaker that moves the counts along with the values leaves counts.    *)
LEMMA TweakKeeps ==
  ASSUME SortKept(bench), Tweak
  PROVE  SortKept(bench')
  <1>1. /\ bench.is = "NSort" /\ bench.pc = "counted"
        /\ SortTyped(bench) /\ NoneLost(bench) /\ Counted(bench)
    <2>1. bench.is = "NSort" /\ bench.pc = "counted"
      BY Zenon DEF Tweak, On
    <2> QED
      BY <2>1, Zenon DEF SortKept
  <1>2. PICK table \in [Buckets(bench.n) -> Buckets(bench.n)] :
          bench' = [bench EXCEPT !.tweaked = TRUE,
                                 !.map = [x \in DOMAIN @ |-> table[@[x]]],
                                 !.bin = [w \in Buckets(bench.n) |->
                                            SumOver(@, {v \in DOMAIN table : table[v] = w})]]
    BY Zenon DEF Tweak
  <1> DEFINE map2 == [x \in DOMAIN bench.map |-> table[bench.map[x]]]
             from(w) == {v \in DOMAIN table : table[v] = w}
             bin2 == [w \in Buckets(bench.n) |-> SumOver(bench.bin, from(w))]
             c == bench'
  <1>3. /\ SortFields \subseteq DOMAIN c
        /\ c.is = "NSort" /\ c.pc = "counted" /\ c.n = bench.n /\ c.given = bench.given
        /\ c.A = bench.A /\ c.map = map2 /\ c.bin = bin2 /\ c.i = bench.i /\ c.ptr = bench.ptr
    BY <1>1, <1>2 DEF SortTyped, SortFields
  <1>4. /\ Len(bench.given) \in Nat /\ bench.n \in Nat /\ bench.bin \in [Buckets(bench.n) -> Nat]
        /\ bench.map \in [DOMAIN bench.map -> Buckets(bench.n)]
        /\ \A v \in Buckets(bench.n) : bench.bin[v] = Held(bench.given, Of(bench.map, {v}))
    BY <1>1 DEF SortTyped, Counted
  <1>5. ASSUME NEW w \in Buckets(bench.n)
        PROVE  bin2[w] = Held(bench.given, Of(map2, {w})) /\ bin2[w] \in Nat
    <2>1. IsFiniteSet(from(w))
      <3>1. from(w) \in SUBSET (0 .. bench.n - 1)
        BY DEF Buckets
      <3>2. IsFiniteSet(0 .. bench.n - 1)
        BY <1>4, FS_Interval
      <3> QED
        BY <3>1, <3>2, FS_Subset
    <2>2. Tallied(bench.bin, from(w), bench.given, bench.map)
      BY <1>4 DEF Tallied
    <2>3. SumOver(bench.bin, from(w)) = Held(bench.given, Of(bench.map, from(w)))
      <3> HIDE DEF from
      <3> QED
        BY <1>4, <2>1, <2>2, SumOfCounts
    <2>4. Of(map2, {w}) = Of(bench.map, from(w))
      BY <1>4 DEF Of
    <2>5. Held(bench.given, Of(map2, {w})) \in Nat
      BY <1>4, HeldNat
    <2> QED
      BY <2>3, <2>4, <2>5
  <1>6. map2 \in [DOMAIN bench.map -> Buckets(bench.n)]
    BY <1>4
  <1>7. bin2 \in [Buckets(bench.n) -> Nat]
    BY <1>5
  <1> HIDE DEF map2, bin2, c
  <1>8. SortTyped(c)
    BY <1>1, <1>3, <1>6, <1>7 DEF SortTyped
  <1>9. NoneLost(c) /\ Counted(c)
    BY <1>1, <1>3, <1>5 DEF NoneLost, Counted
  <1> QED
    BY <1>3, <1>8, <1>9 DEF SortKept, c

(* The running sum turns counts into ends, and nothing is filled yet.      *)
LEMMA PositionKeeps ==
  ASSUME SortKept(bench), Position
  PROVE  SortKept(bench')
  <1>1. /\ bench.is = "NSort" /\ bench.pc = "counted"
        /\ SortTyped(bench) /\ NoneLost(bench) /\ Counted(bench)
    BY DEF Position, On, SortKept
  <1> DEFINE ends == Ends(bench.bin, bench.n)
             starts == [v \in Buckets(bench.n) |-> Begin(ends, v)]
             c == bench'
  <1>2. bench' = [bench EXCEPT !.pc = "moving", !.bin = ends, !.ptr = starts]
    BY DEF Position
  <1>3. /\ SortFields \subseteq DOMAIN c
        /\ c.is = "NSort" /\ c.pc = "moving" /\ c.n = bench.n /\ c.given = bench.given
        /\ c.A = bench.A /\ c.map = bench.map /\ c.bin = ends /\ c.i = 0 /\ c.ptr = starts
    <2> HIDE DEF ends, starts
    <2> QED
      BY <1>1, <1>2 DEF SortTyped, SortFields, Counted
  <1>4. /\ Len(bench.given) \in Nat /\ bench.n \in Nat
        /\ \A v \in Buckets(bench.n) : bench.bin[v] = Held(bench.given, Of(bench.map, {v}))
    <2>1. Len(bench.given) \in Nat /\ bench.n \in Nat
      BY <1>1 DEF SortTyped
    <2> QED
      BY <1>1, <2>1 DEF Counted
  <1>5. ASSUME NEW v \in Buckets(bench.n)
        PROVE  ends[v] = Held(bench.given, Of(bench.map, 0 .. v)) /\ ends[v] \in Nat
    <2> DEFINE S == 0 .. v
    <2>1. IsFiniteSet(S) /\ Tallied(bench.bin, S, bench.given, bench.map)
      <3>1. v \in Nat /\ S \subseteq Buckets(bench.n)
        BY <1>4 DEF Buckets
      <3> QED
        <4>1. IsFiniteSet(S)
          BY <3>1, FS_Interval
        <4> HIDE DEF S
        <4>2. Tallied(bench.bin, S, bench.given, bench.map)
          BY <1>4, <3>1 DEF Tallied
        <4> QED
          BY <4>1, <4>2
    <2>2. ends[v] = SumOver(bench.bin, S)
      BY DEF Ends
    <2> HIDE DEF S
    <2>3. SumOver(bench.bin, S) = Held(bench.given, Of(bench.map, S))
      BY <1>4, <2>1, SumOfCounts
    <2>4. Held(bench.given, Of(bench.map, S)) \in Nat
      BY <1>4, HeldNat
    <2> QED
      BY <2>2, <2>3, <2>4 DEF S
  <1>6. ends \in [Buckets(bench.n) -> Nat]
    <2>1. ends = [v \in Buckets(bench.n) |-> ends[v]]
      BY DEF Ends
    <2> QED
      BY <1>5, <2>1
  <1>7. starts \in [Buckets(bench.n) -> Nat]
    <2> SUFFICES ASSUME NEW v \in Buckets(bench.n)
                 PROVE  Begin(ends, v) \in Nat
      OBVIOUS
    <2> HIDE DEF ends
    <2>1. v # 0 => v - 1 \in Buckets(bench.n)
      BY <1>4 DEF Buckets
    <2> QED
      BY <1>6, <2>1 DEF Begin
  <1> HIDE DEF ends, c
  <1>8. SortTyped(c)
    <2> HIDE DEF starts
    <2> QED
      BY <1>1, <1>3, <1>6, <1>7 DEF SortTyped
  <1>9. NoneLost(c) /\ Positioned(c)
    BY <1>1, <1>3, <1>5 DEF NoneLost, Positioned
  <1>10. Filled(c)
    <2> SUFFICES ASSUME NEW v \in Buckets(c.n)
                 PROVE  /\ c.ptr[v] \in Begin(c.bin, v) .. End(c.bin, v)
                        /\ c.ptr[v] = Begin(c.bin, v)
                        /\ ~(v < c.i)
      BY <1>8 DEF Filled, SortTyped
    <2>1. c.ptr[v] = Begin(c.bin, v)
      BY <1>3
    <2>2. Begin(c.bin, v) \in Nat /\ End(c.bin, v) = Begin(c.bin, v) + Held(c.given, Of(c.map, {v}))
      BY <1>8, <1>9, BucketsApart
    <2>3. Held(c.given, Of(c.map, {v})) \in Nat
      BY <1>3, <1>4, HeldNat
    <2>4. v \in Nat /\ c.i = 0
      BY <1>3 DEF Buckets
    <2> QED
      BY <2>1, <2>2, <2>3, <2>4
  <1> QED
    BY <1>3, <1>8, <1>9, <1>10 DEF SortKept, c

(* The next bucket is taken up when this one is full.                      *)
LEMMA NextBucketKeeps ==
  ASSUME SortKept(bench), NextBucket
  PROVE  SortKept(bench')
  <1>1. /\ bench.is = "NSort" /\ bench.pc = "moving"
        /\ SortTyped(bench) /\ NoneLost(bench) /\ Positioned(bench) /\ Filled(bench)
    BY DEF NextBucket, On, SortKept
  <1> DEFINE c == bench'
  <1>2. bench.n \in Nat /\ bench.i \in Nat /\ bench.i <= bench.n
    BY <1>1 DEF SortTyped
  <1>3. CASE bench.i < bench.n
    <2>1. /\ SortFields \subseteq DOMAIN c
          /\ c.is = "NSort" /\ c.pc = "moving" /\ c.n = bench.n /\ c.given = bench.given
          /\ c.A = bench.A /\ c.map = bench.map /\ c.bin = bench.bin /\ c.i = bench.i + 1
          /\ c.ptr = bench.ptr
      BY <1>1, <1>3 DEF NextBucket, SortTyped, SortFields
    <2>2. bench.i \in Buckets(bench.n)
      BY <1>2, <1>3 DEF Buckets
    <2>3. bench.ptr[bench.i] = End(bench.bin, bench.i)
      <3>1. ~(bench.ptr[bench.i] < End(bench.bin, bench.i))
        BY <1>1, <1>3 DEF NextBucket, Filling
      <3>2. bench.ptr[bench.i] \in Begin(bench.bin, bench.i) .. End(bench.bin, bench.i)
        BY <1>1, <2>2 DEF Filled
      <3>3. Begin(bench.bin, bench.i) \in Nat /\ End(bench.bin, bench.i) \in 0 .. Len(bench.given)
        BY <1>1, <2>2, BucketsApart
      <3> QED
        BY <3>1, <3>2, <3>3
    <2> HIDE DEF c
    <2>4. SortTyped(c)
      BY <1>1, <1>2, <1>3, <2>1 DEF SortTyped
    <2>5. NoneLost(c) /\ Positioned(c)
      BY <1>1, <2>1 DEF NoneLost, Positioned
    <2>6. Filled(c)
      <3> SUFFICES ASSUME NEW v \in Buckets(c.n)
                   PROVE  /\ c.ptr[v] \in Begin(c.bin, v) .. End(c.bin, v)
                          /\ \A p \in Begin(c.bin, v) .. c.ptr[v] - 1 : BucketAt(c, p) = v
                          /\ v < c.i => c.ptr[v] = End(c.bin, v)
        BY DEF Filled
      <3>1. v < c.i => v < bench.i \/ v = bench.i
        BY <1>2, <2>1 DEF Buckets
      <3> QED
        BY <1>1, <2>1, <2>3, <3>1 DEF Filled, BucketAt
    <2> QED
      BY <2>1, <2>4, <2>5, <2>6 DEF SortKept, c
  <1>4. CASE ~(bench.i < bench.n)
    <2>1. /\ SortFields \subseteq DOMAIN c
          /\ c.is = "NSort" /\ c.pc = "sorted" /\ c.n = bench.n /\ c.given = bench.given
          /\ c.A = bench.A /\ c.map = bench.map /\ c.bin = bench.bin /\ c.i = bench.i
          /\ c.ptr = bench.ptr
      BY <1>1, <1>4 DEF NextBucket, SortTyped, SortFields
    <2>2. c.i = c.n
      BY <1>2, <1>4, <2>1
    <2> HIDE DEF c
    <2>3. SortTyped(c)
      BY <1>1, <2>1 DEF SortTyped
    <2>4. NoneLost(c) /\ Positioned(c) /\ Filled(c)
      BY <1>1, <2>1 DEF NoneLost, Positioned, Filled, BucketAt
    <2> QED
      BY <2>1, <2>2, <2>3, <2>4 DEF SortKept, c
  <1> QED
    BY <1>3, <1>4

(* The ranges are made of the ends of the buckets.                         *)
LEMMA RangesKeep ==
  ASSUME SortKept(bench), SetParticleRanges
  PROVE  SortKept(bench')
  <1>1. /\ bench.is = "NSort" /\ bench.pc = "sorted" /\ bench.i = bench.n
        /\ SortTyped(bench) /\ NoneLost(bench) /\ Positioned(bench) /\ Filled(bench)
    BY DEF SetParticleRanges, On, SortKept
  <1> DEFINE c == bench'
             ranges == IF bench.about = "grid" THEN ParticleRanges(bench, 2) ELSE <<>>
  <1>2. c = [bench EXCEPT !.pc = "done", !.cells = ranges]
    BY DEF SetParticleRanges
  <1>3. /\ SortFields \subseteq DOMAIN c
        /\ c.is = "NSort" /\ c.pc = "done" /\ c.n = bench.n /\ c.given = bench.given
        /\ c.A = bench.A /\ c.map = bench.map /\ c.bin = bench.bin /\ c.i = bench.i
        /\ c.ptr = bench.ptr /\ c.about = bench.about
    <2> HIDE DEF ranges, c
    <2> QED
      BY <1>1, <1>2 DEF SortTyped, SortFields
  <1>4. c.cells = ranges
    <2> HIDE DEF ranges, c
    <2> QED
      BY <1>1, <1>2 DEF SortTyped, SortFields
  <1>5. ParticleRanges(c, 2) = ParticleRanges(bench, 2)
    BY <1>3 DEF ParticleRanges, SpeciesRanges, RangeOf
  <1> HIDE DEF c
  <1>6. SortTyped(c)
    BY <1>1, <1>3 DEF SortTyped
  <1>7. NoneLost(c) /\ Positioned(c) /\ Filled(c)
    BY <1>1, <1>3 DEF NoneLost, Positioned, Filled, BucketAt
  <1> QED
    BY <1>1, <1>3, <1>4, <1>5, <1>6, <1>7 DEF SortKept, c

(* The same number of every kind is the same bag. *)
LEMMA SameBag ==
  ASSUME NEW D, NEW A \in Seq(D), NEW B \in Seq(D), Len(A) = Len(B),
         \A E : Held(A, E) = Held(B, E)
  PROVE  ToBag(A) = ToBag(B)
  <1>1. \A x : Held(A, {x}) = Cardinality({k \in DOMAIN A : A[k] = x})
    <2> SUFFICES ASSUME NEW x
                 PROVE  {k \in 1 .. Len(A) : A[k] \in {x}} = {k \in DOMAIN A : A[k] = x}
      BY Zenon DEF Held
    <2> QED
      OBVIOUS
  <1>2. \A x : Held(B, {x}) = Cardinality({k \in DOMAIN B : B[k] = x})
    <2> SUFFICES ASSUME NEW x
                 PROVE  {k \in 1 .. Len(B) : B[k] \in {x}} = {k \in DOMAIN B : B[k] = x}
      BY Zenon DEF Held
    <2> QED
      OBVIOUS
  <1>3. \A C \in Seq(D) : \A x : x \in Range(C) <=> Held(C, {x}) # 0
    <2> SUFFICES ASSUME NEW C \in Seq(D), NEW x
                 PROVE  x \in Range(C) <=> Held(C, {x}) # 0
      OBVIOUS
    <2> DEFINE in == {k \in 1 .. Len(C) : C[k] \in {x}}
    <2>1. Len(C) \in Nat
      OBVIOUS
    <2>2. IsFiniteSet(in) /\ Held(C, {x}) = Cardinality(in)
      BY <2>1, HeldType DEF Held
    <2>3. Held(C, {x}) = 0 <=> in = {}
      BY <2>2, FS_EmptySet
    <2>4. x \in Range(C) <=> in # {}
      BY DEF Range
    <2> QED
      BY <2>3, <2>4
  <1>4. Range(A) = Range(B)
    BY <1>3
  <1>5. \A x : Cardinality({k \in DOMAIN A : A[k] = x}) = Cardinality({k \in DOMAIN B : B[k] = x})
    BY <1>1, <1>2
  <1> QED
    BY <1>4, <1>5, Zenon DEF ToBag

(* What is sorted has every item in the places of its bucket, and no other there. *)
LEMMA PlacesOfBuckets ==
  ASSUME NEW b, SortTyped(b), NoneLost(b), Positioned(b), Filled(b), b.i = b.n,
         NEW v \in Buckets(b.n), NEW p \in 0 .. Len(b.A) - 1
  PROVE  p \in Begin(b.bin, v) .. End(b.bin, v) - 1 <=> BucketAt(b, p) = v
  <1> DEFINE In == {q \in 1 .. Len(b.A) : b.A[q] \in Of(b.map, {v})}
             k == Held(b.given, Of(b.map, {v}))
             lo == Begin(b.bin, v) + 1
             hi == End(b.bin, v)
  <1>1. Len(b.A) = Len(b.given) /\ Len(b.A) \in Nat /\ Len(b.given) \in Nat /\ v \in Nat /\ v < b.n
    <2>1. b.n \in Nat /\ b.A \in Seq(DOMAIN b.map) /\ b.given \in Seq(DOMAIN b.map)
      BY DEF SortTyped
    <2>2. Len(b.A) = Len(b.given)
      BY DEF NoneLost
    <2>3. Len(b.A) \in Nat /\ Len(b.given) \in Nat
      BY <2>1
    <2>4. v \in Nat /\ v < b.n
      BY <2>1 DEF Buckets
    <2> QED
      BY <2>2, <2>3, <2>4
  <1>2. /\ Begin(b.bin, v) \in Nat /\ End(b.bin, v) \in 0 .. Len(b.given)
        /\ End(b.bin, v) = Begin(b.bin, v) + Held(b.given, Of(b.map, {v}))
    <2>1. \A u \in Buckets(b.n) :
            /\ Begin(b.bin, u) \in Nat /\ End(b.bin, u) \in 0 .. Len(b.given)
            /\ End(b.bin, u) = Begin(b.bin, u) + Held(b.given, Of(b.map, {u}))
      BY BucketsApart
    <2> QED
      BY <2>1, Zenon
  <1>3. /\ b.ptr[v] = End(b.bin, v)
        /\ \A q \in Begin(b.bin, v) .. b.ptr[v] - 1 : BucketAt(b, q) = v
    BY <1>1 DEF Filled
  <1>4. lo .. hi \subseteq In
    <2> SUFFICES ASSUME NEW q \in lo .. hi
                 PROVE  q \in In
      OBVIOUS
    <2>1. q - 1 \in Begin(b.bin, v) .. b.ptr[v] - 1 /\ q \in 1 .. Len(b.A)
      BY <1>1, <1>2, <1>3
    <2>0. q - 1 + 1 = q
      BY <2>1
    <2>2. BucketAt(b, q - 1) = v
      BY <1>3, <2>1
    <2>3. b.map[b.A[q]] = v
      BY <2>0, <2>2, Zenon DEF BucketAt
    <2>4. b.A[q] \in DOMAIN b.map
      <3>1. b.A \in Seq(DOMAIN b.map)
        BY DEF SortTyped
      <3> QED
        BY <2>1, <3>1
    <2> QED
      BY <2>1, <2>3, <2>4 DEF Of
  <1>5. IsFiniteSet(In) /\ Cardinality(In) = k /\ k \in Nat
    <2>1. IsFiniteSet(In)
      BY <1>1, HeldType
    <2>2. Cardinality(In) = Held(b.A, Of(b.map, {v}))
      BY DEF Held
    <2>3. k \in Nat
      BY <1>1, HeldNat
    <2> QED
      BY <2>1, <2>2, <2>3 DEF NoneLost
  <1>6. IsFiniteSet(lo .. hi) /\ Cardinality(lo .. hi) = k
    <2>1. lo \in Int /\ hi \in Int /\ hi - lo + 1 = k
      BY <1>2, <1>5
    <2> HIDE DEF lo, hi, k
    <2> QED
      BY <1>5, <2>1, IntervalCount
  <1>7. lo .. hi = In
    <2> DEFINE I == lo .. hi
    <2> HIDE DEF I, In, k
    <2>1. I \in SUBSET In /\ Cardinality(I) = Cardinality(In)
      BY <1>4, <1>5, <1>6 DEF I
    <2>2. I = In
      BY <1>5, <2>1, FS_Subset
    <2> QED
      BY <2>2 DEF I
  <1>8. p + 1 \in 1 .. Len(b.A) /\ p \in Nat
    BY <1>1
  <1>9. p + 1 \in In <=> BucketAt(b, p) = v
    <2>1. b.A[p + 1] \in DOMAIN b.map
      BY <1>8 DEF SortTyped
    <2> QED
      BY <1>8, <2>1 DEF BucketAt, Of
  <1>10. p + 1 \in lo .. hi <=> p \in Begin(b.bin, v) .. End(b.bin, v) - 1
    BY <1>2, <1>8
  <1> HIDE DEF In, lo, hi
  <1> QED
    BY <1>7, <1>9, <1>10

(* The invariant gives the property of the moving pass. *)
LEMMA MovesFromKept ==
  ASSUME SortKept(bench)
  PROVE  MovesKeepBuckets
  <1> SUFFICES ASSUME bench.is = "NSort"
               PROVE  MovesKeepBuckets
    BY DEF MovesKeepBuckets, On
  <1>1. SortTyped(bench) /\ NoneLost(bench)
    BY DEF SortKept
  <1>2. ToBag(bench.A) = ToBag(bench.given)
    <2>1. /\ bench.A \in Seq(DOMAIN bench.map) /\ bench.given \in Seq(DOMAIN bench.map)
          /\ Len(bench.A) = Len(bench.given) /\ \A E : Held(bench.A, E) = Held(bench.given, E)
      BY <1>1 DEF SortTyped, NoneLost
    <2> QED
      BY <2>1, SameBag
  <1>3. Filling(bench) => bench.ptr[BucketAt(bench, bench.ptr[bench.i])] \in 0 .. Len(bench.A) - 1
    <2> SUFFICES ASSUME Filling(bench)
                 PROVE  bench.ptr[BucketAt(bench, bench.ptr[bench.i])] \in 0 .. Len(bench.A) - 1
      OBVIOUS
    <2>1. /\ Positioned(bench) /\ Filled(bench) /\ bench.i < bench.n
          /\ bench.ptr[bench.i] < End(bench.bin, bench.i)
      BY DEF Filling, SortKept
    <2> QED
      BY <1>1, <2>1, RoomLeft
  <1>4. ASSUME bench.pc # "counted", NEW v \in Buckets(bench.n)
        PROVE  /\ bench.ptr[v] \in Begin(bench.bin, v) .. End(bench.bin, v)
               /\ \A p \in Begin(bench.bin, v) .. bench.ptr[v] - 1 : BucketAt(bench, p) = v
    BY <1>4 DEF SortKept, Filled
  <1>5. ASSUME bench.pc \in {"sorted", "done"}, NEW v \in Buckets(bench.n)
        PROVE  bench.ptr[v] = End(bench.bin, v)
    <2>1. v < bench.i /\ Filled(bench)
      BY <1>1, <1>5 DEF SortKept, SortTyped, Buckets
    <2> QED
      BY <2>1 DEF Filled
  <1> QED
    BY <1>2, <1>3, <1>4, <1>5 DEF MovesKeepBuckets

(* And that of the ranges of the cells and their species. *)
LEMMA RangesFromKept ==
  ASSUME SortKept(bench)
  PROVE  RangesHoldBuckets
  <1> SUFFICES ASSUME bench.is = "NSort", bench.pc = "done", bench.about = "grid",
                      NEW p \in 0 .. Len(bench.A) - 1, NEW c \in DOMAIN bench.cells
               PROVE  LET in(r) == r.begin <= p /\ p < r.end
                      IN /\ in(bench.cells[c].particles) = (BucketAt(bench, p) \div 2 = c)
                         /\ \A k \in DOMAIN bench.cells[c].species :
                              in(bench.cells[c].species[k]) = (BucketAt(bench, p) = 2 * c + k)
    BY DEF RangesHoldBuckets, On
  <1> DEFINE v == BucketAt(bench, p)
  <1>1. /\ SortTyped(bench) /\ NoneLost(bench) /\ Positioned(bench) /\ Filled(bench)
        /\ bench.i = bench.n /\ bench.cells = ParticleRanges(bench, 2)
    BY DEF SortKept
  <1>2. p \in Nat /\ bench.n \in Nat
    BY <1>1 DEF SortTyped
  <1>3. v \in Buckets(bench.n)
    <2>1. p + 1 \in 1 .. Len(bench.A)
      BY <1>1, <1>2 DEF SortTyped
    <2>2. bench.A[p + 1] \in DOMAIN bench.map
      BY <1>1, <2>1 DEF SortTyped
    <2> QED
      BY <1>1, <2>2 DEF SortTyped, BucketAt
  <1>4. c \in 0 .. (bench.n \div 2) - 1
    BY <1>1 DEF ParticleRanges
  <1>5. /\ c \in Nat /\ v \in Nat /\ 2 * c \in Buckets(bench.n) /\ 2 * c + 1 \in Buckets(bench.n)
        /\ c * 2 = 2 * c /\ 2 * c + 2 - 1 = 2 * c + 1
    <2>1. c \in Nat /\ v \in Nat
      BY <1>2, <1>3, <1>4 DEF Buckets
    <2> HIDE DEF v
    <2>2. 2 * c + 1 < bench.n
      BY <1>2, <1>4, <2>1
    <2> QED
      BY <1>2, <2>1, <2>2 DEF Buckets
  <1>6. /\ bench.cells[c].particles = RangeOf(bench, 2 * c, 2 * c + 1)
        /\ bench.cells[c].species = [k \in 0 .. 1 |-> RangeOf(bench, 2 * c + k, 2 * c + k)]
    BY <1>1, <1>4, <1>5 DEF ParticleRanges, SpeciesRanges
  <1>7. \A u \in Buckets(bench.n) : Begin(bench.bin, u) <= p /\ p < End(bench.bin, u) <=> v = u
    <2> SUFFICES ASSUME NEW u \in Buckets(bench.n)
                 PROVE  Begin(bench.bin, u) <= p /\ p < End(bench.bin, u) <=> v = u
      OBVIOUS
    <2>1. p \in Begin(bench.bin, u) .. End(bench.bin, u) - 1 <=> v = u
      BY <1>1, PlacesOfBuckets
    <2>2. Begin(bench.bin, u) \in Nat /\ End(bench.bin, u) \in 0 .. Len(bench.given)
      BY <1>1, BucketsApart
    <2> QED
      BY <1>2, <2>1, <2>2
  <1>8. Begin(bench.bin, 2 * c + 1) = End(bench.bin, 2 * c)
    BY <1>5 DEF Begin, End
  <1>9. /\ \A u \in Buckets(bench.n) : Begin(bench.bin, u) \in Nat /\ End(bench.bin, u) \in Nat
        /\ Begin(bench.bin, 2 * c) <= End(bench.bin, 2 * c)
        /\ End(bench.bin, 2 * c) <= End(bench.bin, 2 * c + 1)
    <2>1. \A u \in Buckets(bench.n) :
             Begin(bench.bin, u) \in Nat /\ End(bench.bin, u) \in 0 .. Len(bench.given)
      BY <1>1, BucketsApart
    <2>2. \A u \in Buckets(bench.n) : bench.ptr[u] \in Begin(bench.bin, u) .. End(bench.bin, u)
      BY <1>1 DEF Filled
    <2>3. \A u \in Buckets(bench.n) : /\ Begin(bench.bin, u) \in Nat /\ End(bench.bin, u) \in Nat
                                      /\ Begin(bench.bin, u) <= End(bench.bin, u)
      BY <2>1, <2>2
    <2> QED
      BY <1>5, <1>8, <2>3
  <1> HIDE DEF v
  <1>10. Begin(bench.bin, 2 * c) <= p /\ p < End(bench.bin, 2 * c + 1) <=> v = 2 * c \/ v = 2 * c + 1
    BY <1>2, <1>5, <1>7, <1>8, <1>9
  <1>11. v \div 2 = c <=> v = 2 * c \/ v = 2 * c + 1
    BY <1>5
  <1>12. ASSUME NEW k \in 0 .. 1
         PROVE  Begin(bench.bin, 2 * c + k) <= p /\ p < End(bench.bin, 2 * c + k) <=> v = 2 * c + k
    BY <1>5, <1>7
  <1> QED
    BY <1>6, <1>10, <1>11, <1>12 DEF RangeOf, v

(* The calls of the examples and tests are such sorts. *)
LEMMA ExamplesAreSorts == SortInts \/ SortParticles => AnySort
  <1>1. ASSUME NEW S, NEW m \in Nat, NEW items \in BoundedSeq(S, m)
        PROVE  items \in Seq(S)
    BY DEF BoundedSeq, SeqOf
  <1>2. ASSUME SortInts
        PROVE  AnySort
    <2>1. PICK items \in BoundedSeq(0 .. 2, MaxInts) :
            SortCall(items, [v \in 0 .. 2 |-> Direct(v)], 3, "ints")
      BY <1>2 DEF SortInts
    <2>2. items \in Seq(0 .. 2) /\ [v \in 0 .. 2 |-> Direct(v)] \in [0 .. 2 -> Buckets(3)] /\ 3 \in Nat
      BY <1>1, ItemsAssumption DEF Direct, Buckets
    <2> QED
      BY <1>2, <2>1, <2>2 DEF SortInts, AnySort
  <1>3. ASSUME SortParticles
        PROVE  AnySort
    <2>1. PICK s \in ExampleSorts : \E items \in BoundedSeq(ParticlesFor(s.about), MaxParticles) :
            SortCall(items, BucketsOf(s.chain, items), s.n, s.about)
      BY <1>3 DEF SortParticles
    <2>2. PICK items \in BoundedSeq(ParticlesFor(s.about), MaxParticles) :
            SortCall(items, BucketsOf(s.chain, items), s.n, s.about)
      BY <2>1
    <2>3. items \in Seq(ParticlesFor(s.about))
      BY <1>1, ItemsAssumption
    <2>4. items \in Seq(Range(items)) /\ Range(items) \subseteq ParticlesFor(s.about)
      BY <2>3 DEF Range
    <2>5. s.n \in Nat /\ BucketsOf(s.chain, items) \in [Range(items) -> Buckets(s.n)]
      BY <2>4, MapsAssumption DEF BucketsOf
    <2> QED
      BY <1>3, <2>2, <2>4, <2>5 DEF SortParticles, AnySort
  <1> QED
    BY <1>2, <1>3

(* No step of a sort spoils it. *)
LEMMA SortStep ==
  ASSUME SortKept(bench), [AnySort \/ NSortNext \/ Elsewhere({"NSort"})]_bench
  PROVE  SortKept(bench')
  <1>1. CASE AnySort \/ SortInts \/ SortParticles
    BY <1>1, CallKeeps, ExamplesAreSorts
  <1>2. CASE Tweak
    BY <1>2, TweakKeeps
  <1>3. CASE Position
    BY <1>3, PositionKeeps
  <1>4. CASE MoveItem
    <2>1. bench.is = "NSort" /\ Filling(bench) /\ bench' = Move(bench)
      BY <1>4 DEF MoveItem, Filling
    <2> QED
      BY <2>1, MoveKeeps
  <1>5. CASE NextBucket
    BY <1>5, NextBucketKeeps
  <1>6. CASE SetParticleRanges
    BY <1>6, RangesKeep
  <1>7. CASE SortReturn
    BY <1>7 DEF SortReturn, Finish, NothingThere, SortKept
  <1>8. CASE Elsewhere({"NSort"})
    BY <1>8 DEF Elsewhere, SortKept
  <1>9. CASE bench' = bench
    BY <1>9
  <1> QED
    BY <1>1, <1>2, <1>3, <1>4, <1>5, <1>6, <1>7, <1>8, <1>9 DEF NSortNext

(* The invariant holds of any sort, of any items by any map. *)
THEOREM SortInvariant == SortSpec => []SortKept(bench)
  <1>1. bench = NothingThere => SortKept(bench)
    BY DEF NothingThere, SortKept
  <1>2. SortKept(bench) /\ [AnySort \/ NSortNext \/ Elsewhere({"NSort"})]_bench => SortKept(bench)'
    BY SortStep
  <1> QED
    BY <1>1, <1>2, PTL DEF SortSpec

(* The moving pass fills the buckets and the ranges find them, for any items and map. *)
THEOREM SortCorrect == SortSpec => []SortsByBucket
  <1>1. SortKept(bench) => SortsByBucket
    BY MovesFromKept, RangesFromKept DEF SortsByBucket
  <1> QED
    BY <1>1, SortInvariant, PTL

-----------------------------------------------------------------------------
(* The adaptive driver of rk5.cpp *)

(* The integrators, in a library that does anything else as well. *)
StepSpec == bench = NothingThere /\ [][IntegratorsNext \/ Elsewhere({"step", "rk5"})]_bench

(* What the adaptive driver keeps. *)
DriverFields ==
  {"is", "pc", "calls", "ti", "dt", "tr", "x", "step", "next", "current", "trial", "truncated",
   "tries", "retries", "accepted", "thrown", "firm", "hard"}

(* Its types. *)
DriverTyped(b) ==
  /\ DriverFields \subseteq DOMAIN b
  /\ b.pc \in {"idle", "while", "rkqs", "returned", "threw"}
  /\ b.ti \in Int /\ b.dt \in Int /\ b.tr \in Int /\ b.x \in Int
  /\ b.step \in Int /\ b.next \in Int /\ b.trial \in Int /\ b.firm \in Int
  /\ b.truncated \in BOOLEAN /\ b.hard \in BOOLEAN
  /\ b.tries \in Nat /\ b.retries \in Nat /\ b.accepted \in Nat /\ b.thrown \in Nat

(* How much of d lies in the direction of dt. *)
Ahead(d, dt) == IF dt < 0 THEN -d ELSE d

(* x is of the time that was reached, on the way from ti to ti + dt, and   *)
(* every try is accounted for.                                             *)
OnTheWay(b) ==
  /\ b.x = b.ti + b.tr
  /\ 0 <= Ahead(b.tr, b.dt) /\ Ahead(b.tr, b.dt) <= Size(b.dt)
  /\ b.tries = b.accepted + b.retries + b.thrown
  /\ b.step # 0

(* What is to become of the step of the program: the step that the errors  *)
(* asked for, and after a cut no more than it, for what is left is less.   *)
StepKept(b) ==
  b.pc \in {"while", "rkqs"} =>
    /\ b.dt # 0
    /\ Ahead(b.step, b.dt) > 0
    /\ Ahead(b.firm, b.dt) > 0
    /\ Ahead(b.next, b.dt) \in 1 .. Ahead(b.firm, b.dt)
    /\ ~b.hard => b.next = b.firm
    /\ b.truncated => Ahead(b.dt - b.tr, b.dt) <= Ahead(b.firm, b.dt)
    /\ b.pc = "while" /\ ~b.truncated => b.step = b.firm

(* A trial does not lead beyond dt. *)
TrialFits(b) ==
  b.pc = "rkqs" =>
    /\ Ahead(b.trial, b.dt) > 0
    /\ Ahead(b.tr, b.dt) + Ahead(b.trial, b.dt) <= Ahead(b.dt, b.dt)

(* What a call that returned leaves to the next. *)
Arrived(b) ==
  b.pc = "returned" =>
    /\ Ahead(b.tr, b.dt) * (Share + 1) >= Ahead(b.dt, b.dt) * Share
    /\ Ahead(b.step, b.dt) \in 1 .. Ahead(b.firm, b.dt)
    /\ ~b.hard => b.step = b.firm

(* The inductive invariant of the driver. *)
DriverKept(b) ==
  b.is = "rk5" => DriverTyped(b) /\ OnTheWay(b) /\ StepKept(b) /\ TrialFits(b) /\ Arrived(b)

(* Ahead and Size in terms of the direction of dt; copysign gives it on. *)
LEMMA AheadIs ==
  ASSUME NEW d \in Int, NEW dt \in Int
  PROVE  /\ Ahead(d, dt) \in Int /\ Ahead(d, dt) = d * Dir(dt)
         /\ Size(d) \in Nat /\ (Ahead(d, dt) >= 0 => Size(d) = Ahead(d, dt))
         /\ Ahead(dt, dt) = Size(dt)
         /\ CopySign(d, dt) \in Int /\ Ahead(CopySign(d, dt), dt) = Size(d)
         /\ Size(CopySign(d, dt)) = Size(d)
  <1>1. CASE dt < 0
    BY <1>1 DEF Ahead, Dir, Size, CopySign
  <1>2. CASE ~(dt < 0)
    BY <1>2 DEF Ahead, Dir, Size, CopySign
  <1> QED
    BY <1>1, <1>2

(* Nothing is nothing in either direction. *)
LEMMA AheadNothing ==
  ASSUME NEW dt \in Int
  PROVE  Ahead(0, dt) = 0
  <1>1. 0 \in Int /\ Dir(dt) \in Int
    BY DEF Dir
  <1>2. Ahead(0, dt) = 0 * Dir(dt)
    BY <1>1, AheadIs
  <1> QED
    BY <1>1, <1>2

(* An RK object as a program makes it. *)
LEMMA NewRKKept ==
  ASSUME NewRK
  PROVE  DriverKept(bench')
  <1>1. PICK step \in FirstSteps : bench' =
          [is |-> "rk5", pc |-> "idle", calls |-> 0, ti |-> 0, dt |-> 0, tr |-> 0, x |-> 0,
           step |-> step, next |-> 0, current |-> 0, trial |-> 0, truncated |-> FALSE,
           tries |-> 0, retries |-> 0, accepted |-> 0, thrown |-> 0, firm |-> step, hard |-> FALSE]
    BY DEF NewRK, PutOn
  <1>2. step \in Nat /\ step # 0
    BY StepAssumption
  <1>3. DriverTyped(bench')
    BY <1>1, <1>2 DEF DriverTyped, DriverFields
  <1> QED
    BY <1>1, <1>2, <1>3 DEF DriverKept, OnTheWay, StepKept, TrialFits, Arrived, Ahead, Size

(* A call takes the step of the program in the direction of its dt. *)
LEMMA IntegrateKept ==
  ASSUME DriverKept(bench), Integrate
  PROVE  DriverKept(bench')
  <1>1. DriverTyped(bench) /\ OnTheWay(bench)
    BY DEF Integrate, On, DriverKept
  <1>2. PICK dt \in Intervals :
       LET step == CopySign(bench.step, dt)
       IN bench' = IF dt = 0
            THEN [bench EXCEPT !.calls = @ + 1, !.pc = "threw", !.step = step, !.dt = dt, !.tr = 0,
                               !.ti = bench.x]
            ELSE [bench EXCEPT !.calls = @ + 1, !.pc = "while", !.step = step, !.next = step,
                               !.current = 0, !.dt = dt, !.tr = 0, !.ti = bench.x,
                               !.truncated = FALSE, !.firm = step, !.hard = FALSE]
    BY DEF Integrate
  <1> DEFINE step == CopySign(bench.step, dt)
  <1>3. dt \in Int /\ bench.step \in Int /\ bench.step # 0
    BY <1>1, StepAssumption DEF DriverTyped, DriverFields, OnTheWay
  <1>4. step \in Int /\ Ahead(step, dt) = Size(bench.step) /\ Size(bench.step) \in Nat
    BY <1>3, AheadIs
  <1>5. Size(bench.step) > 0 /\ step # 0
    <2>1. Size(bench.step) > 0
      <3>1. CASE bench.step < 0
        BY <1>3, <3>1 DEF Size
      <3>2. CASE ~(bench.step < 0)
        BY <1>3, <3>2 DEF Size
      <3> QED
        BY <3>1, <3>2
    <2>2. Ahead(0, dt) = 0
      BY <1>3, AheadNothing
    <2> HIDE DEF step
    <2> QED
      BY <1>4, <2>1, <2>2
  <1>6. Ahead(0, dt) = 0 /\ Size(dt) >= 0
    BY <1>3, AheadNothing DEF Size
  <1> HIDE DEF step
  <1>9. bench.x \in Int
    BY <1>1 DEF DriverTyped, DriverFields
  <1>7. CASE dt = 0
    <2>1. bench' = [bench EXCEPT !.calls = @ + 1, !.pc = "threw", !.step = step, !.dt = dt, !.tr = 0,
                               !.ti = bench.x]
      BY <1>2, <1>7 DEF step
    <2>2. DriverTyped(bench')
      BY <1>1, <1>3, <1>4, <1>9, <2>1 DEF DriverTyped, DriverFields
    <2>3. OnTheWay(bench')
      BY <1>1, <1>5, <1>6, <2>1 DEF DriverTyped, DriverFields, OnTheWay
    <2> QED
      BY <1>1, <2>1, <2>2, <2>3 DEF DriverTyped, DriverFields, DriverKept, StepKept, TrialFits, Arrived
  <1>8. CASE dt # 0
    <2>1. bench' = [bench EXCEPT !.calls = @ + 1, !.pc = "while", !.step = step, !.next = step,
                               !.current = 0, !.dt = dt, !.tr = 0, !.ti = bench.x,
                               !.truncated = FALSE, !.firm = step, !.hard = FALSE]
      BY <1>2, <1>8 DEF step
    <2>2. DriverTyped(bench')
      <3>1. DriverFields \subseteq DOMAIN bench'
        BY <1>1, <2>1 DEF DriverTyped
      <3>2. bench'.pc = "while"
        BY <1>1, <2>1 DEF DriverTyped, DriverFields
      <3>3. bench'.ti \in Int /\ bench'.dt \in Int /\ bench'.tr \in Int /\ bench'.x \in Int
        BY <1>1, <1>3, <1>9, <2>1 DEF DriverTyped, DriverFields
      <3>4. bench'.step \in Int /\ bench'.next \in Int /\ bench'.trial \in Int /\ bench'.firm \in Int
        BY <1>1, <1>4, <2>1 DEF DriverTyped, DriverFields
      <3>5. bench'.truncated \in BOOLEAN /\ bench'.hard \in BOOLEAN
        BY <1>1, <2>1 DEF DriverTyped, DriverFields
      <3>6. /\ bench'.tries \in Nat /\ bench'.retries \in Nat
            /\ bench'.accepted \in Nat /\ bench'.thrown \in Nat
        BY <1>1, <2>1 DEF DriverTyped, DriverFields
      <3> QED
        BY <3>1, <3>2, <3>3, <3>4, <3>5, <3>6 DEF DriverTyped
    <2>3. OnTheWay(bench')
      BY <1>1, <1>5, <1>6, <2>1 DEF DriverTyped, DriverFields, OnTheWay
    <2>4. StepKept(bench')
      BY <1>1, <1>4, <1>5, <1>8, <2>1 DEF DriverTyped, DriverFields, StepKept
    <2> QED
      BY <1>1, <2>1, <2>2, <2>3, <2>4 DEF DriverTyped, DriverFields, DriverKept, TrialFits, Arrived
  <1> QED
    BY <1>7, <1>8

(* What is still ahead of a call. *)
LEMMA StillAheadLeaves ==
  ASSUME NEW b, DriverTyped(b), OnTheWay(b), StillAhead(b)
  PROVE  Ahead(b.tr, b.dt) < Ahead(b.dt, b.dt)
  <1> DEFINE a == Ahead(b.tr, b.dt)
             d == Ahead(b.dt, b.dt)
  <1>1. /\ a \in Int /\ d \in Int /\ a >= 0 /\ d >= 0
        /\ a = b.tr * Dir(b.dt) /\ d = b.dt * Dir(b.dt) /\ Share \in Nat /\ Share > 0
    <2>1. b.tr \in Int /\ b.dt \in Int
      BY DEF DriverTyped, DriverFields
    <2> QED
      <3>1. Share \in Nat /\ Share > 0
        BY StepAssumption
      <3>2. a \in Int /\ a = b.tr * Dir(b.dt)
        BY <2>1, AheadIs
      <3>3. d \in Int /\ d = b.dt * Dir(b.dt) /\ d >= 0
        BY <2>1 DEF Ahead, Dir
      <3> QED
        BY <3>1, <3>2, <3>3 DEF OnTheWay
  <1>2. a * (Share + 1) < d * Share
    BY <1>1 DEF StillAhead
  <1> HIDE DEF a, d
  <1>3. a * (Share + 1) = a * Share + a
    BY <1>1
  <1>4. ~(a >= d)
    <2> SUFFICES ASSUME a >= d
                 PROVE  FALSE
      OBVIOUS
    <2>1. a * Share >= d * Share
      BY <1>1
    <2>2. a * Share \in Int /\ d * Share \in Int
      BY <1>1
    <2> QED
      BY <1>1, <1>2, <1>3, <2>1, <2>2
  <1> QED
    BY <1>1, <1>4 DEF a, d

(* Ahead is linear, and what has the direction of dt can give it on. *)
LEMMA AheadAdds ==
  ASSUME NEW d \in Int, NEW e \in Int, NEW dt \in Int
  PROVE  /\ Ahead(d + e, dt) = Ahead(d, dt) + Ahead(e, dt)
         /\ Ahead(d - e, dt) = Ahead(d, dt) - Ahead(e, dt)
  <1>1. CASE dt < 0
    BY <1>1 DEF Ahead
  <1>2. CASE ~(dt < 0)
    BY <1>2 DEF Ahead
  <1> QED
    BY <1>1, <1>2

(* So does copysign from a step of that direction. *)
LEMMA AheadAlong ==
  ASSUME NEW e \in Int, NEW dt \in Int, Ahead(e, dt) > 0, NEW d \in Nat
  PROVE  /\ CopySign(d, e) \in Int /\ Ahead(CopySign(d, e), dt) = d
         /\ Size(CopySign(d, e)) = d /\ Size(e) = Ahead(e, dt)
  <1>1. CASE dt < 0
    <2>1. e < 0
      BY <1>1 DEF Ahead
    <2>2. CopySign(d, e) = -d
      BY <2>1 DEF CopySign, Dir, Size
    <2>3. -d \in Int /\ Size(-d) = d /\ Ahead(-d, dt) = d
      BY <1>1 DEF Ahead, Size
    <2> QED
      BY <1>1, <2>1, <2>2, <2>3 DEF Ahead, Size
  <1>2. CASE ~(dt < 0)
    <2>1. ~(e < 0)
      BY <1>2 DEF Ahead
    <2>2. CopySign(d, e) = d
      BY <2>1 DEF CopySign, Dir, Size
    <2> QED
      BY <1>2, <2>1, <2>2 DEF Ahead, Size
  <1> QED
    BY <1>1, <1>2

(* A step that would overshoot is cut to what is left, which is no more than was asked for. *)
LEMMA BeginStepKept ==
  ASSUME DriverKept(bench), BeginStep
  PROVE  DriverKept(bench')
  <1>1. /\ DriverTyped(bench) /\ OnTheWay(bench) /\ StepKept(bench)
        /\ bench.is = "rk5" /\ bench.pc = "while" /\ StillAhead(bench)
    BY DEF BeginStep, On, DriverKept
  <1> DEFINE dt == bench.dt
             cut == (bench.tr + bench.step) * Dir(bench.dt) > bench.dt * Dir(bench.dt)
             step == IF cut THEN CopySign(bench.dt - bench.tr, bench.dt) ELSE bench.step
             left == Ahead(dt, dt) - Ahead(bench.tr, dt)
  <1>2. bench' = [bench EXCEPT !.pc = "rkqs", !.truncated = cut, !.step = step,
                               !.current = step, !.trial = step]
    BY DEF BeginStep
  <1>3. /\ bench.tr \in Int /\ bench.dt \in Int /\ bench.step \in Int /\ bench.firm \in Int
        /\ bench.truncated \in BOOLEAN
    BY <1>1 DEF DriverTyped
  <1>4. /\ Ahead(bench.tr, dt) \in Int /\ Ahead(dt, dt) \in Int /\ Ahead(bench.step, dt) \in Int
        /\ Ahead(bench.firm, dt) \in Int /\ Ahead(bench.step, dt) > 0
        /\ Ahead(bench.tr, dt) < Ahead(dt, dt)
    <2>1. Ahead(bench.tr, dt) < Ahead(dt, dt)
      BY <1>1, StillAheadLeaves
    <2>2. \A d \in Int : Ahead(d, dt) \in Int
      BY <1>3, AheadIs
    <2>3. Ahead(bench.step, dt) > 0
      BY <1>1 DEF StepKept
    <2> QED
      BY <1>3, <2>1, <2>2, <2>3
  <1>5. cut <=> Ahead(bench.step, dt) > left
    <2>1. bench.tr + bench.step \in Int
      BY <1>3
    <2>2. Ahead(bench.tr + bench.step, dt) = (bench.tr + bench.step) * Dir(dt)
      BY <1>3, <2>1, AheadIs
    <2>3. Ahead(dt, dt) = dt * Dir(dt)
      BY <1>3, AheadIs
    <2>4. Ahead(bench.tr + bench.step, dt) = Ahead(bench.tr, dt) + Ahead(bench.step, dt)
      BY <1>3, AheadAdds
    <2>5. cut <=> Ahead(bench.tr, dt) + Ahead(bench.step, dt) > Ahead(dt, dt)
      BY <2>2, <2>3, <2>4
    <2> HIDE DEF cut, dt
    <2> QED
      BY <1>4, <2>5
  <1>6. Ahead(bench.dt - bench.tr, dt) = left /\ left > 0 /\ left \in Int
    <2>1. Ahead(bench.dt - bench.tr, dt) = left
      BY <1>3, AheadAdds
    <2> QED
      BY <1>4, <2>1
  <1>7. step \in Int /\ Ahead(step, dt) \in 1 .. left /\ (cut => Ahead(step, dt) = left)
    <2>1. CASE cut
      <3>1. bench.dt - bench.tr \in Int
        BY <1>3
      <3>2. /\ CopySign(bench.dt - bench.tr, dt) \in Int
            /\ Ahead(CopySign(bench.dt - bench.tr, dt), dt) = Size(bench.dt - bench.tr)
        BY <1>3, <3>1, AheadIs
      <3>3. Size(bench.dt - bench.tr) = left
        <4> DEFINE rest == bench.dt - bench.tr
        <4> HIDE DEF rest
        <4>1. rest \in Int /\ Ahead(rest, dt) = left
          BY <1>6, <3>1 DEF rest
        <4>2. Ahead(rest, dt) >= 0 => Size(rest) = Ahead(rest, dt)
          BY <1>3, <4>1, AheadIs
        <4> HIDE DEF left, dt
        <4>3. Size(rest) = left
          BY <1>6, <4>1, <4>2
        <4> QED
          BY <4>3 DEF rest
      <3>4. step = CopySign(bench.dt - bench.tr, dt)
        BY <2>1
      <3> HIDE DEF step, left, dt
      <3> QED
        BY <1>6, <3>2, <3>3, <3>4
    <2>2. CASE ~cut
      <3>1. step = bench.step
        BY <2>2
      <3> HIDE DEF step, left, dt, cut
      <3> QED
        BY <1>3, <1>4, <1>5, <1>6, <2>2, <3>1
    <2> QED
      BY <2>1, <2>2
  <1>8. cut => left <= Ahead(bench.firm, dt)
    <2>1. CASE bench.truncated
      BY <1>1, <1>6, <2>1 DEF StepKept
    <2>2. CASE ~bench.truncated
      <3>1. bench.step = bench.firm
        BY <1>1, <2>2 DEF StepKept
      <3>2. cut => Ahead(bench.firm, dt) > left
        BY <1>5, <3>1
      <3> HIDE DEF cut, left, dt
      <3> QED
        BY <1>4, <1>6, <3>2
    <2> QED
      BY <2>1, <2>2
  <1>9. step # 0
    <2>1. Ahead(0, dt) = 0
      BY <1>3, AheadNothing
    <2> HIDE DEF step, left, dt
    <2> QED
      BY <1>6, <1>7, <2>1
  <1>10. cut \in BOOLEAN
    OBVIOUS
  <1> HIDE DEF step, cut, left
  <1>11. DriverTyped(bench')
    <2>1. DriverFields \subseteq DOMAIN bench'
      BY <1>1, <1>2 DEF DriverTyped
    <2>2. bench'.pc = "rkqs"
      BY <1>1, <1>2 DEF DriverTyped, DriverFields
    <2>3. bench'.ti \in Int /\ bench'.dt \in Int /\ bench'.tr \in Int /\ bench'.x \in Int
      BY <1>1, <1>2 DEF DriverTyped, DriverFields
    <2>4. bench'.step \in Int /\ bench'.next \in Int /\ bench'.trial \in Int /\ bench'.firm \in Int
      BY <1>1, <1>2, <1>7 DEF DriverTyped, DriverFields
    <2>5. bench'.truncated \in BOOLEAN /\ bench'.hard \in BOOLEAN
      BY <1>1, <1>2, <1>10 DEF DriverTyped, DriverFields
    <2>6. /\ bench'.tries \in Nat /\ bench'.retries \in Nat
          /\ bench'.accepted \in Nat /\ bench'.thrown \in Nat
      BY <1>1, <1>2 DEF DriverTyped, DriverFields
    <2> QED
      BY <2>1, <2>2, <2>3, <2>4, <2>5, <2>6 DEF DriverTyped
  <1>12. OnTheWay(bench')
    BY <1>1, <1>2, <1>9 DEF DriverTyped, DriverFields, OnTheWay
  <1>13. /\ bench'.step = step /\ bench'.trial = step /\ bench'.truncated = cut /\ bench'.pc = "rkqs"
         /\ bench'.dt = dt /\ bench'.tr = bench.tr /\ bench'.firm = bench.firm
         /\ bench'.next = bench.next /\ bench'.hard = bench.hard
    BY <1>1, <1>2 DEF DriverTyped, DriverFields
  <1>14. StepKept(bench')
    <2>1. dt # 0 /\ Ahead(bench.firm, dt) > 0 /\ Ahead(bench.next, dt) \in 1 .. Ahead(bench.firm, dt)
      BY <1>1 DEF StepKept
    <2>2. ~bench.hard => bench.next = bench.firm
      BY <1>1 DEF StepKept
    <2>3. Ahead(step, dt) > 0
      BY <1>6, <1>7
    <2>4. bench'.truncated => Ahead(bench'.dt - bench'.tr, bench'.dt) <= Ahead(bench'.firm, bench'.dt)
      BY <1>6, <1>8, <1>13
    <2> HIDE DEF dt
    <2> QED
      BY <1>13, <2>1, <2>2, <2>3, <2>4 DEF StepKept
  <1>15. TrialFits(bench')
    <2>1. Ahead(step, dt) > 0 /\ Ahead(bench.tr, dt) + Ahead(step, dt) <= Ahead(dt, dt)
      <3> HIDE DEF dt
      <3> QED
        BY <1>4, <1>6, <1>7 DEF left
    <2> HIDE DEF dt
    <2> QED
      BY <1>13, <2>1 DEF TrialFits
  <1> QED
    BY <1>11, <1>12, <1>13, <1>14, <1>15 DEF DriverKept, Arrived

(* What lies ahead is as long as it is. *)
LEMMA AheadSize ==
  ASSUME NEW d \in Int, NEW dt \in Int, Ahead(d, dt) > 0
  PROVE  Size(d) = Ahead(d, dt) /\ Size(d) \in Nat
  <1>1. Ahead(d, dt) \in Int /\ (Ahead(d, dt) >= 0 => Size(d) = Ahead(d, dt)) /\ Size(d) \in Nat
    BY AheadIs
  <1> QED
    BY <1>1

(* A retry is shorter and of the same direction, and is counted. *)
LEMMA RetryKept ==
  ASSUME DriverKept(bench), Retry
  PROVE  DriverKept(bench')
  <1>1. /\ DriverTyped(bench) /\ OnTheWay(bench) /\ StepKept(bench) /\ TrialFits(bench)
        /\ bench.is = "rk5" /\ bench.pc = "rkqs"
    BY DEF Retry, On, DriverKept
  <1>2. /\ bench.trial \in Int /\ bench.dt \in Int /\ bench.tr \in Int
        /\ Ahead(bench.trial, bench.dt) > 0
        /\ Ahead(bench.tr, bench.dt) + Ahead(bench.trial, bench.dt) <= Ahead(bench.dt, bench.dt)
    BY <1>1 DEF DriverTyped, TrialFits
  <1>3. Size(bench.trial) = Ahead(bench.trial, bench.dt) /\ Size(bench.trial) \in Nat
    BY <1>2, AheadSize
  <1>4. PICK d \in 0 .. Size(bench.trial) - 1 :
          bench' = IF d = 0
            THEN [bench EXCEPT !.pc = "threw", !.tries = @ + 1, !.trial = 0, !.thrown = @ + 1]
            ELSE [bench EXCEPT !.tries = @ + 1, !.retries = @ + 1,
                               !.trial = CopySign(d, bench.trial)]
    BY DEF Retry
  <1>5. d \in Nat /\ d < Size(bench.trial)
    BY <1>3
  <1>6. /\ bench.tries + 1 \in Nat /\ bench.thrown + 1 \in Nat /\ bench.retries + 1 \in Nat
        /\ bench.tries \in Nat /\ bench.thrown \in Nat /\ bench.retries \in Nat /\ bench.accepted \in Nat
    BY <1>1 DEF DriverTyped
  <1>7. CASE d = 0
    <2>1. bench' = [bench EXCEPT !.pc = "threw", !.tries = @ + 1, !.trial = 0, !.thrown = @ + 1]
      BY <1>4, <1>7
    <2>2. DriverTyped(bench')
      BY <1>1, <1>6, <2>1 DEF DriverTyped, DriverFields
    <2>3. OnTheWay(bench')
      BY <1>1, <1>6, <2>1 DEF DriverTyped, DriverFields, OnTheWay
    <2>4. bench'.pc = "threw"
      BY <1>1, <2>1 DEF DriverTyped, DriverFields
    <2> QED
      BY <2>2, <2>3, <2>4 DEF DriverKept, StepKept, TrialFits, Arrived
  <1>8. CASE d # 0
    <2> DEFINE trial == CopySign(d, bench.trial)
    <2>1. bench' = [bench EXCEPT !.tries = @ + 1, !.retries = @ + 1, !.trial = trial]
      BY <1>4, <1>8
    <2>2. trial \in Int /\ Ahead(trial, bench.dt) = d
      BY <1>2, <1>5, AheadAlong
    <2> HIDE DEF trial
    <2>3. DriverTyped(bench')
      BY <1>1, <1>6, <2>1, <2>2 DEF DriverTyped, DriverFields
    <2>4. OnTheWay(bench')
      BY <1>1, <1>6, <2>1 DEF DriverTyped, DriverFields, OnTheWay
    <2>5. /\ bench'.step = bench.step /\ bench'.trial = trial /\ bench'.truncated = bench.truncated
          /\ bench'.pc = "rkqs" /\ bench'.dt = bench.dt /\ bench'.tr = bench.tr
          /\ bench'.firm = bench.firm /\ bench'.next = bench.next /\ bench'.hard = bench.hard
      BY <1>1, <2>1 DEF DriverTyped, DriverFields
    <2>6. StepKept(bench')
      BY <1>1, <2>5 DEF StepKept
    <2>7. TrialFits(bench')
      <3>1. /\ Ahead(bench.tr, bench.dt) \in Int /\ Ahead(bench.dt, bench.dt) \in Int
        BY <1>2, AheadIs
      <3>2. /\ Ahead(trial, bench.dt) > 0
            /\ Ahead(bench.tr, bench.dt) + Ahead(trial, bench.dt) <= Ahead(bench.dt, bench.dt)
        BY <1>2, <1>3, <1>5, <1>8, <2>2, <3>1
      <3> QED
        BY <2>5, <3>2 DEF TrialFits
    <2> QED
      BY <2>3, <2>4, <2>5, <2>6, <2>7 DEF DriverKept, Arrived
  <1> QED
    BY <1>7, <1>8

(* A step that was cut leaves the next one as it was, or makes it smaller. *)
LEMMA AcceptKept ==
  ASSUME DriverKept(bench), Accept
  PROVE  DriverKept(bench')
  <1>1. /\ DriverTyped(bench) /\ OnTheWay(bench) /\ StepKept(bench) /\ TrialFits(bench)
        /\ bench.is = "rk5" /\ bench.pc = "rkqs"
    BY DEF Accept, On, DriverKept
  <1> DEFINE dt == bench.dt
             did == bench.trial
  <1>2. /\ did \in Int /\ dt \in Int /\ bench.tr \in Int /\ bench.x \in Int /\ bench.firm \in Int
        /\ bench.next \in Int /\ Ahead(did, dt) > 0
        /\ Ahead(bench.tr, dt) + Ahead(did, dt) <= Ahead(dt, dt)
    BY <1>1 DEF DriverTyped, TrialFits
  <1>3. Size(did) = Ahead(did, dt) /\ Size(did) \in Nat
    BY <1>2, AheadSize
  <1>4. PICK d \in 1 .. Min({5 * Size(bench.trial), MaxStep}) :
          LET step == CopySign(d, bench.trial)
              keep == ~bench.truncated \/ Size(step) < Size(bench.trial)
          IN bench' = [bench EXCEPT !.pc = "while", !.tries = @ + 1, !.accepted = @ + 1,
                         !.step = step, !.current = bench.trial, !.tr = @ + bench.trial,
                         !.x = @ + bench.trial, !.next = IF keep THEN step ELSE @,
                         !.firm = IF bench.truncated THEN @ ELSE step,
                         !.hard = bench.truncated /\ (@ \/ d < Size(bench.trial))]
    BY DEF Accept
  <1>5. d \in Nat /\ d > 0
    OBVIOUS
  <1> DEFINE step == CopySign(d, did)
             keep == ~bench.truncated \/ Size(step) < Size(did)
             tr == bench.tr + did
             x == bench.x + did
             next == IF keep THEN step ELSE bench.next
             firm == IF bench.truncated THEN bench.firm ELSE step
             hard == bench.truncated /\ (bench.hard \/ d < Size(did))
  <1>6. bench' = [bench EXCEPT !.pc = "while", !.tries = @ + 1, !.accepted = @ + 1, !.step = step,
                     !.current = did, !.tr = tr, !.x = x, !.next = next, !.firm = firm, !.hard = hard]
    BY <1>4
  <1>7. step \in Int /\ Ahead(step, dt) = d /\ Size(step) = d
    BY <1>2, <1>5, AheadAlong
  <1>8. tr \in Int /\ x \in Int /\ Ahead(tr, dt) = Ahead(bench.tr, dt) + Ahead(did, dt)
    <2>1. did \in Int /\ dt \in Int /\ bench.tr \in Int
      BY <1>2
    <2>2. Ahead(bench.tr + did, dt) = Ahead(bench.tr, dt) + Ahead(did, dt)
      BY <2>1, AheadAdds
    <2> QED
      BY <1>2, <2>2
  <1>9. next \in Int /\ firm \in Int /\ hard \in BOOLEAN
    BY <1>2, <1>7
  <1>10. /\ bench.tries + 1 \in Nat /\ bench.accepted + 1 \in Nat /\ bench.truncated \in BOOLEAN
         /\ bench.tries \in Nat /\ bench.thrown \in Nat /\ bench.retries \in Nat
         /\ bench.accepted \in Nat /\ bench.hard \in BOOLEAN
    BY <1>1 DEF DriverTyped
  <1>11. /\ Ahead(bench.tr, dt) \in Int /\ Ahead(dt, dt) \in Int /\ Ahead(did, dt) \in Int
         /\ Ahead(tr, dt) \in Int /\ Ahead(bench.firm, dt) \in Int /\ Ahead(bench.next, dt) \in Int
    BY <1>2, <1>8, AheadIs
  <1>12. /\ dt # 0 /\ Ahead(bench.firm, dt) > 0
         /\ Ahead(bench.next, dt) \in 1 .. Ahead(bench.firm, dt)
         /\ ~bench.hard => bench.next = bench.firm
         /\ bench.truncated => Ahead(dt - bench.tr, dt) <= Ahead(bench.firm, dt)
    BY <1>1 DEF StepKept
  <1>13. Ahead(dt - bench.tr, dt) = Ahead(dt, dt) - Ahead(bench.tr, dt)
    <2>1. dt \in Int /\ bench.tr \in Int
      BY <1>2
    <2> QED
      BY <2>1, AheadAdds
  <1>14. Ahead(dt - tr, dt) = Ahead(dt, dt) - Ahead(tr, dt)
    <2>1. dt \in Int /\ tr \in Int
      BY <1>2, <1>8
    <2> HIDE DEF tr
    <2> QED
      BY <2>1, AheadAdds
  <1>15. step # 0
    <2>1. Ahead(0, dt) = 0
      BY <1>2, AheadNothing
    <2> HIDE DEF step, dt
    <2> QED
      BY <1>5, <1>7, <2>1
  <1>16. /\ Ahead(firm, dt) > 0 /\ Ahead(next, dt) \in 1 .. Ahead(firm, dt)
         /\ ~hard => next = firm
         /\ bench.truncated => Ahead(dt - tr, dt) <= Ahead(firm, dt)
         /\ ~bench.truncated => step = firm
    <2>1. CASE bench.truncated
      <3>1. firm = bench.firm /\ (keep <=> d < Size(did)) /\ (hard <=> bench.hard \/ d < Size(did))
        BY <1>7, <2>1
      <3>2. next = IF keep THEN step ELSE bench.next
        OBVIOUS
      <3> HIDE DEF firm, keep, hard, next, step, dt, did, tr
      <3>3. Ahead(did, dt) <= Ahead(bench.firm, dt)
        BY <1>2, <1>11, <1>12, <1>13, <2>1
      <3>4. CASE keep
        BY <1>2, <1>3, <1>5, <1>7, <1>8, <1>11, <1>12, <1>13, <1>14, <2>1, <3>1, <3>2, <3>3, <3>4
      <3>5. CASE ~keep
        BY <1>2, <1>3, <1>5, <1>7, <1>8, <1>11, <1>12, <1>13, <1>14, <2>1, <3>1, <3>2, <3>3, <3>5
      <3> QED
        BY <3>4, <3>5
    <2>2. CASE ~bench.truncated
      <3>1. firm = step /\ next = step
        BY <2>2
      <3> HIDE DEF firm, keep, hard, next, step, dt, did, tr
      <3> QED
        BY <1>5, <1>7, <2>2, <3>1
    <2> QED
      BY <2>1, <2>2
  <1> HIDE DEF firm, keep, hard, next, step, did, tr, x
  <1>17. DriverTyped(bench')
    <2>1. DriverFields \subseteq DOMAIN bench'
      BY <1>1, <1>6 DEF DriverTyped
    <2>2. bench'.pc = "while"
      BY <1>1, <1>6 DEF DriverTyped, DriverFields
    <2>3. bench'.ti \in Int /\ bench'.dt \in Int /\ bench'.tr \in Int /\ bench'.x \in Int
      BY <1>1, <1>6, <1>8 DEF DriverTyped, DriverFields
    <2>4. bench'.step \in Int /\ bench'.next \in Int /\ bench'.trial \in Int /\ bench'.firm \in Int
      BY <1>1, <1>6, <1>7, <1>9 DEF DriverTyped, DriverFields
    <2>5. bench'.truncated \in BOOLEAN /\ bench'.hard \in BOOLEAN
      BY <1>1, <1>6, <1>9 DEF DriverTyped, DriverFields
    <2>6. /\ bench'.tries \in Nat /\ bench'.retries \in Nat
          /\ bench'.accepted \in Nat /\ bench'.thrown \in Nat
      BY <1>1, <1>6, <1>10 DEF DriverTyped, DriverFields
    <2> QED
      BY <2>1, <2>2, <2>3, <2>4, <2>5, <2>6 DEF DriverTyped
  <1>18. /\ bench'.step = step /\ bench'.truncated = bench.truncated /\ bench'.pc = "while"
         /\ bench'.dt = dt /\ bench'.tr = tr /\ bench'.firm = firm
         /\ bench'.next = next /\ bench'.hard = hard
    BY <1>1, <1>6 DEF DriverTyped, DriverFields
  <1>19. /\ bench'.x = x /\ bench'.ti = bench.ti /\ bench'.tries = bench.tries + 1
         /\ bench'.accepted = bench.accepted + 1 /\ bench'.retries = bench.retries
         /\ bench'.thrown = bench.thrown
    BY <1>1, <1>6 DEF DriverTyped, DriverFields
  <1>20. OnTheWay(bench')
    <2>1. x = bench.ti + tr
      BY <1>1, <1>2 DEF OnTheWay, x, tr, DriverTyped
    <2>2. 0 <= Ahead(tr, dt) /\ Ahead(tr, dt) <= Size(dt)
      <3>1. 0 <= Ahead(bench.tr, dt) /\ Ahead(dt, dt) = Size(dt)
        BY <1>1, <1>2, AheadIs DEF OnTheWay
      <3> HIDE DEF dt
      <3> QED
        BY <1>2, <1>8, <1>11, <3>1
    <2>3. bench.tries + 1 = (bench.accepted + 1) + bench.retries + bench.thrown
      BY <1>1, <1>10 DEF OnTheWay
    <2> HIDE DEF dt
    <2> QED
      BY <1>15, <1>18, <1>19, <2>1, <2>2, <2>3 DEF OnTheWay
  <1>21. StepKept(bench')
    <2> HIDE DEF dt
    <2> QED
      BY <1>5, <1>7, <1>12, <1>16, <1>18 DEF StepKept
  <1> QED
    BY <1>17, <1>18, <1>20, <1>21 DEF DriverKept, TrialFits, Arrived

(* The call returns when a negligible rest is left, and hands on its next step. *)
LEMMA EndIntegrateKept ==
  ASSUME DriverKept(bench), EndIntegrate
  PROVE  DriverKept(bench')
  <1>1. /\ DriverTyped(bench) /\ OnTheWay(bench) /\ StepKept(bench)
        /\ bench.is = "rk5" /\ bench.pc = "while" /\ ~StillAhead(bench)
    BY DEF EndIntegrate, On, DriverKept
  <1>2. bench' = [bench EXCEPT !.pc = "returned", !.step = bench.next]
    BY DEF EndIntegrate
  <1>3. /\ bench.tr \in Int /\ bench.dt \in Int /\ bench.next \in Int /\ bench.firm \in Int
    BY <1>1 DEF DriverTyped
  <1>4. /\ bench'.step = bench.next /\ bench'.pc = "returned" /\ bench'.dt = bench.dt
        /\ bench'.tr = bench.tr /\ bench'.firm = bench.firm /\ bench'.hard = bench.hard
    BY <1>1, <1>2 DEF DriverTyped, DriverFields
  <1>5. DriverTyped(bench')
    BY <1>1, <1>2, <1>3 DEF DriverTyped, DriverFields
  <1>6. /\ Ahead(bench.firm, bench.dt) \in Int /\ Ahead(bench.tr, bench.dt) = bench.tr * Dir(bench.dt)
        /\ Ahead(bench.dt, bench.dt) = bench.dt * Dir(bench.dt)
        /\ Ahead(bench.tr, bench.dt) \in Int /\ Ahead(bench.dt, bench.dt) \in Int
    BY <1>3, AheadIs
  <1>7. bench.next # 0
    <2>1. Ahead(bench.next, bench.dt) \in 1 .. Ahead(bench.firm, bench.dt)
      BY <1>1 DEF StepKept
    <2>2. Ahead(0, bench.dt) = 0
      BY <1>3, AheadNothing
    <2> QED
      BY <1>6, <2>1, <2>2
  <1>8. OnTheWay(bench')
    BY <1>1, <1>2, <1>7 DEF DriverTyped, DriverFields, OnTheWay
  <1>9. Ahead(bench.tr, bench.dt) * (Share + 1) >= Ahead(bench.dt, bench.dt) * Share
    <2> DEFINE a == Ahead(bench.tr, bench.dt)
               d == Ahead(bench.dt, bench.dt)
    <2>1. ~(a * (Share + 1) < d * Share)
      BY <1>1, <1>6, Zenon DEF StillAhead
    <2>2. a * (Share + 1) \in Int /\ d * Share \in Int
      BY <1>6, StepAssumption
    <2> QED
      BY <2>1, <2>2
  <1>10. Arrived(bench')
    <2>1. /\ Ahead(bench.next, bench.dt) \in 1 .. Ahead(bench.firm, bench.dt)
          /\ ~bench.hard => bench.next = bench.firm
      BY <1>1 DEF StepKept
    <2> QED
      BY <1>4, <1>9, <2>1 DEF Arrived
  <1> QED
    BY <1>4, <1>5, <1>8, <1>10 DEF DriverKept, StepKept, TrialFits

(* The caller goes on with the step it was handed. *)
LEMMA NextCallKept ==
  ASSUME DriverKept(bench), NextCall
  PROVE  DriverKept(bench')
  <1>1. DriverTyped(bench) /\ OnTheWay(bench)
    BY DEF NextCall, On, DriverKept
  <1>2. bench' = [bench EXCEPT !.pc = "idle", !.dt = 0, !.tr = 0, !.x = 0, !.ti = 0, !.next = 0,
                            !.current = 0, !.trial = 0, !.truncated = FALSE]
    BY DEF NextCall
  <1>3. DriverTyped(bench')
    <2>1. DriverFields \subseteq DOMAIN bench'
      BY <1>1, <1>2 DEF DriverTyped
    <2>2. bench'.pc = "idle"
      BY <1>1, <1>2 DEF DriverTyped, DriverFields
    <2>3. bench'.ti \in Int /\ bench'.dt \in Int /\ bench'.tr \in Int /\ bench'.x \in Int
      BY <1>1, <1>2 DEF DriverTyped, DriverFields
    <2>4. bench'.step \in Int /\ bench'.next \in Int /\ bench'.trial \in Int /\ bench'.firm \in Int
      BY <1>1, <1>2 DEF DriverTyped, DriverFields
    <2>5. bench'.truncated \in BOOLEAN /\ bench'.hard \in BOOLEAN
      BY <1>1, <1>2 DEF DriverTyped, DriverFields
    <2>6. /\ bench'.tries \in Nat /\ bench'.retries \in Nat
          /\ bench'.accepted \in Nat /\ bench'.thrown \in Nat
      BY <1>1, <1>2 DEF DriverTyped, DriverFields
    <2> QED
      BY <2>1, <2>2, <2>3, <2>4, <2>5, <2>6 DEF DriverTyped
  <1>4. /\ bench'.pc = "idle" /\ bench'.dt = 0 /\ bench'.tr = 0 /\ bench'.x = 0 /\ bench'.ti = 0
        /\ bench'.step = bench.step /\ bench'.tries = bench.tries /\ bench'.accepted = bench.accepted
        /\ bench'.retries = bench.retries /\ bench'.thrown = bench.thrown
    BY <1>1, <1>2 DEF DriverTyped, DriverFields
  <1>5. OnTheWay(bench')
    <2>1. Ahead(0, 0) = 0 /\ Size(0) >= 0
      BY AheadNothing DEF Size
    <2> QED
      BY <1>1, <1>4, <2>1 DEF OnTheWay
  <1> QED
    BY <1>3, <1>4, <1>5 DEF DriverKept, StepKept, TrialFits, Arrived

(* No step of the driver spoils it. *)
LEMMA DriverStep ==
  ASSUME DriverKept(bench), [IntegratorsNext \/ Elsewhere({"step", "rk5"})]_bench
  PROVE  DriverKept(bench')
  <1>1. CASE UNCHANGED bench
    BY <1>1 DEF DriverKept, OnTheWay, StepKept, TrialFits, Arrived, DriverTyped
  <1>2. CASE Elsewhere({"step", "rk5"})
    BY <1>2 DEF Elsewhere, DriverKept
  <1>3. CASE FixedStep
    BY <1>3 DEF FixedStep, PutOn, DriverKept
  <1>4. CASE Finish("step") \/ TakeOff("rk5")
    BY <1>4 DEF Finish, TakeOff, On, NothingThere, DriverKept
  <1>5. CASE NewRK
    BY <1>5, NewRKKept
  <1>6. CASE Integrate
    BY <1>6, IntegrateKept
  <1>7. CASE BeginStep
    BY <1>7, BeginStepKept
  <1>8. CASE Retry
    BY <1>8, RetryKept
  <1>9. CASE Accept
    BY <1>9, AcceptKept
  <1>10. CASE EndIntegrate
    BY <1>10, EndIntegrateKept
  <1>11. CASE NextCall
    BY <1>11, NextCallKept
  <1> QED
    BY <1>1, <1>2, <1>3, <1>4, <1>5, <1>6, <1>7, <1>8, <1>9, <1>10, <1>11 DEF IntegratorsNext

(* The invariant gives the property. *)
LEMMA ArriveFromKept ==
  ASSUME DriverKept(bench)
  PROVE  StepsArrive
  <1> SUFFICES ASSUME bench.is = "rk5"
               PROVE  /\ bench.x = bench.ti + bench.tr
                      /\ bench.tr * Dir(bench.dt) \in 0 .. Size(bench.dt)
                      /\ bench.tries = bench.accepted + bench.retries + bench.thrown
                      /\ bench.pc = "returned" =>
                           /\ (Size(bench.dt) - Size(bench.tr)) * Share <= Size(bench.tr)
                           /\ bench.step * Dir(bench.dt) \in 1 .. Size(bench.firm)
                           /\ ~bench.hard => bench.step = bench.firm
    BY DEF StepsArrive, On
  <1>1. DriverTyped(bench) /\ OnTheWay(bench) /\ Arrived(bench)
    BY DEF DriverKept
  <1>2. /\ bench.dt \in Int /\ bench.tr \in Int /\ bench.step \in Int /\ bench.firm \in Int
    BY <1>1 DEF DriverTyped
  <1> DEFINE a == Ahead(bench.tr, bench.dt)
             d == Ahead(bench.dt, bench.dt)
             f == Ahead(bench.firm, bench.dt)
  <1>3. a \in Int /\ d \in Int /\ f \in Int
    BY <1>2, AheadIs
  <1>4. a = bench.tr * Dir(bench.dt) /\ Ahead(bench.step, bench.dt) = bench.step * Dir(bench.dt)
    BY <1>2, AheadIs
  <1>5. d = Size(bench.dt)
    BY <1>2, AheadIs
  <1>6. a \in 0 .. Size(bench.dt)
    BY <1>1, <1>3, <1>5 DEF OnTheWay
  <1>7. a = Size(bench.tr)
    <2>1. a >= 0 => Size(bench.tr) = a
      BY <1>2, AheadIs
    <2> HIDE DEF a
    <2> QED
      BY <1>3, <1>6, <2>1
  <1>8. ASSUME bench.pc = "returned"
        PROVE  /\ (Size(bench.dt) - Size(bench.tr)) * Share <= Size(bench.tr)
               /\ bench.step * Dir(bench.dt) \in 1 .. Size(bench.firm)
               /\ ~bench.hard => bench.step = bench.firm
    <2>1. /\ a * (Share + 1) >= d * Share /\ Ahead(bench.step, bench.dt) \in 1 .. f
          /\ ~bench.hard => bench.step = bench.firm
      BY <1>1, <1>8 DEF Arrived
    <2>2. f > 0
      <3> HIDE DEF f
      <3> QED
        BY <1>3, <2>1
    <2>3. f = Size(bench.firm)
      BY <1>2, <2>2, AheadSize
    <2>4. (d - a) * Share <= a
      <3> HIDE DEF a, d
      <3>1. Share \in Nat
        BY StepAssumption
      <3>2. a * (Share + 1) = a * Share + a /\ (d - a) * Share = d * Share - a * Share
        BY <1>3, <3>1
      <3>3. a * Share \in Int /\ d * Share \in Int
        BY <1>3, <3>1
      <3> QED
        BY <1>3, <2>1, <3>2, <3>3
    <2> HIDE DEF a, d, f
    <2> QED
      BY <1>4, <1>5, <1>7, <2>1, <2>3, <2>4
  <1> QED
    BY <1>1, <1>4, <1>6, <1>8 DEF OnTheWay

(* The invariant of the driver holds of any calls. *)
THEOREM StepInvariant == StepSpec => []DriverKept(bench)
  <1>1. bench = NothingThere => DriverKept(bench)
    BY DEF NothingThere, DriverKept
  <1>2. DriverKept(bench) /\ [IntegratorsNext \/ Elsewhere({"step", "rk5"})]_bench => DriverKept(bench)'
    BY DriverStep
  <1> QED
    BY <1>1, <1>2, PTL DEF StepSpec

(* The driver arrives, counts its tries and hands on the step its errors   *)
(* asked for, for any intervals, first steps and share.                    *)
THEOREM StepsCorrect == StepSpec => []StepsArrive
  <1>1. DriverKept(bench) => StepsArrive
    BY ArriveFromKept
  <1> QED
    BY <1>1, StepInvariant, PTL

-----------------------------------------------------------------------------
(* Timings and Timers *)

(* Running sums and powers as the equations that define them. *)
SumsUp(f, n, g) == g = [k \in 0 .. n |-> IF k = 0 THEN 0 ELSE g[k - 1] + f[k]]
Multiplies(x, n, g) == g = [k \in 0 .. n |-> IF k = 0 THEN 1 ELSE x * g[k - 1]]

(* What fails for some number below n fails first for one. *)
LEMMA FirstFailure ==
  ASSUME NEW n \in Nat, NEW T, T \subseteq 0 .. n, T # {}
  PROVE  \E m \in T : m - 1 \notin T
  <1>1. T \subseteq Nat
    OBVIOUS
  <1>2. PICK m \in T : \A k \in T : m <= k
    BY <1>1, LeastOf
  <1>3. m \in Nat
    BY <1>1
  <1>4. ~(m <= m - 1)
    BY <1>3
  <1> QED
    BY <1>2, <1>4

(* There are running sums. *)
LEMMA SumsExist ==
  ASSUME NEW f, NEW n \in Nat
  PROVE  \E g : SumsUp(f, n, g)
  <1> DEFINE T == {j \in 0 .. n : ~\E g : SumsUp(f, j, g)}
  <1>1. 0 \notin T
    <2>1. SumsUp(f, 0, [k \in 0 .. 0 |-> 0])
      BY DEF SumsUp
    <2> QED
      BY <2>1
  <1>2. ASSUME NEW j \in 0 .. n, j # 0, j - 1 \notin T
        PROVE  j \notin T
    <2>1. j - 1 \in 0 .. n /\ j \in Nat
      BY <1>2
    <2>2. PICK g : SumsUp(f, j - 1, g)
      BY <1>2, <2>1
    <2> DEFINE h == [k \in 0 .. j |-> IF k = j THEN g[j - 1] + f[j] ELSE g[k]]
    <2>3. ASSUME NEW k \in 0 .. j
          PROVE  h[k] = IF k = 0 THEN 0 ELSE h[k - 1] + f[k]
      <3>1. CASE k = j
        <4>1. h[k] = g[j - 1] + f[j] /\ h[k - 1] = g[j - 1]
          BY <2>1, <3>1
        <4> QED
          BY <4>1, <3>1, <1>2
      <3>2. CASE k # j
        <4>1. k \in 0 .. j - 1 /\ h[k] = g[k]
          BY <2>1, <3>2
        <4>2. k # 0 => h[k - 1] = g[k - 1]
          BY <2>1, <3>2
        <4>3. g[k] = IF k = 0 THEN 0 ELSE g[k - 1] + f[k]
          BY <2>2, <4>1 DEF SumsUp
        <4> QED
          BY <4>1, <4>2, <4>3
      <3> QED
        BY <3>1, <3>2
    <2>4. SumsUp(f, j, h)
      BY <2>3 DEF SumsUp
    <2> QED
      BY <2>4
  <1>3. T = {}
    <2>1. T \subseteq 0 .. n
      OBVIOUS
    <2> HIDE DEF T
    <2>2. SUFFICES ASSUME T # {}
                   PROVE  FALSE
      OBVIOUS
    <2>3. PICK m \in T : m - 1 \notin T
      BY <2>1, <2>2, FirstFailure
    <2> QED
      BY <1>1, <1>2, <2>1, <2>3
  <1> QED
    BY <1>3

(* They are the ones that SumTo gives. *)
LEMMA SumToIs ==
  ASSUME NEW f, NEW n \in Nat, NEW g, SumsUp(f, n, g)
  PROVE  SumTo(f, n) = g[n]
  <1> DEFINE s == CHOOSE h : h = [k \in 0 .. n |-> IF k = 0 THEN 0 ELSE h[k - 1] + f[k]]
             T == {k \in 0 .. n : s[k] # g[k]}
  <1>1. SumTo(f, n) = s[n]
    BY DEF SumTo
  <1>2. SumsUp(f, n, s)
    BY DEF SumsUp
  <1> HIDE DEF s
  <1>3. SUFFICES ASSUME T # {}
                 PROVE  FALSE
    BY <1>1
  <1>4. T \subseteq 0 .. n
    OBVIOUS
  <1>5. PICK m \in T : m - 1 \notin T
    <2> HIDE DEF T
    <2> QED
      BY <1>3, <1>4, FirstFailure
  <1>6. m \in 0 .. n /\ s[m] # g[m]
    OBVIOUS
  <1>7. s[m] = (IF m = 0 THEN 0 ELSE s[m - 1] + f[m]) /\ g[m] = IF m = 0 THEN 0 ELSE g[m - 1] + f[m]
    BY <1>2, <1>6 DEF SumsUp
  <1>8. m # 0 => m - 1 \in 0 .. n
    BY <1>6
  <1> QED
    BY <1>5, <1>6, <1>7, <1>8

(* One number more is added at the end, and nothing else is looked at. *)
LEMMA SumToAdds ==
  ASSUME NEW f, NEW n \in Nat
  PROVE  /\ SumTo(f, 0) = 0
         /\ SumTo(f, n + 1) = SumTo(f, n) + f[n + 1]
         /\ \A h : (\A k \in 1 .. n : h[k] = f[k]) => SumTo(h, n) = SumTo(f, n)
  <1>1. SumTo(f, 0) = 0
    <2> DEFINE g == [k \in 0 .. 0 |-> 0]
    <2>1. SumsUp(f, 0, g) /\ g[0] = 0
      BY DEF SumsUp
    <2> HIDE DEF g
    <2>2. SumTo(f, 0) = g[0]
      BY <2>1, SumToIs
    <2> QED
      BY <2>1, <2>2
  <1>2. PICK g : SumsUp(f, n + 1, g)
    BY SumsExist
  <1>3. g[n + 1] = g[n] + f[n + 1]
    BY <1>2 DEF SumsUp
  <1>4. SumTo(f, n + 1) = g[n + 1]
    BY <1>2, SumToIs
  <1> DEFINE h == [k \in 0 .. n |-> g[k]]
  <1>5. SumsUp(f, n, h) /\ h[n] = g[n]
    BY <1>2 DEF SumsUp
  <1> HIDE DEF h
  <1>6. SumTo(f, n) = h[n]
    BY <1>5, SumToIs
  <1>7. ASSUME NEW e, \A k \in 1 .. n : e[k] = f[k]
        PROVE  SumTo(e, n) = SumTo(f, n)
    <2>1. SumsUp(e, n, h)
      BY <1>5, <1>7 DEF SumsUp
    <2>2. SumTo(e, n) = h[n]
      BY <2>1, SumToIs
    <2> QED
      BY <1>6, <2>2
  <1> QED
    BY <1>1, <1>3, <1>4, <1>5, <1>6, <1>7

(* The sum of integers is one, of natural numbers as well. *)
LEMMA SumToType ==
  ASSUME NEW f, NEW n \in Nat, \A k \in 1 .. n : f[k] \in Nat
  PROVE  \A k \in 0 .. n : SumTo(f, k) \in Nat
  <1> DEFINE T == {k \in 0 .. n : SumTo(f, k) \notin Nat}
  <1>1. SUFFICES ASSUME T # {}
                 PROVE  FALSE
    OBVIOUS
  <1>2. T \subseteq 0 .. n
    OBVIOUS
  <1>3. PICK m \in T : m - 1 \notin T
    <2> HIDE DEF T
    <2> QED
      BY <1>1, <1>2, FirstFailure
  <1>4. SumTo(f, 0) = 0
    BY SumToAdds
  <1>5. m \in 1 .. n /\ SumTo(f, m) \notin Nat
    BY <1>4
  <1>6. m - 1 \in Nat /\ m - 1 \in 0 .. n /\ (m - 1) + 1 = m
    BY <1>5
  <1>7. SumTo(f, (m - 1) + 1) = SumTo(f, m - 1) + f[(m - 1) + 1]
    BY <1>6, SumToAdds
  <1>8. SumTo(f, m - 1) \in Nat
    BY <1>3, <1>6
  <1> QED
    BY <1>5, <1>6, <1>7, <1>8

(* There are powers. *)
LEMMA PowersExist ==
  ASSUME NEW x, NEW n \in Nat
  PROVE  \E g : Multiplies(x, n, g)
  <1> DEFINE T == {j \in 0 .. n : ~\E g : Multiplies(x, j, g)}
  <1>1. 0 \notin T
    <2>1. Multiplies(x, 0, [k \in 0 .. 0 |-> 1])
      BY DEF Multiplies
    <2> QED
      BY <2>1
  <1>2. ASSUME NEW j \in 0 .. n, j # 0, j - 1 \notin T
        PROVE  j \notin T
    <2>1. j - 1 \in 0 .. n /\ j \in Nat
      BY <1>2
    <2>2. PICK g : Multiplies(x, j - 1, g)
      BY <1>2, <2>1
    <2> DEFINE h == [k \in 0 .. j |-> IF k = j THEN x * g[j - 1] ELSE g[k]]
    <2>3. ASSUME NEW k \in 0 .. j
          PROVE  h[k] = IF k = 0 THEN 1 ELSE x * h[k - 1]
      <3>1. CASE k = j
        <4>1. h[k] = x * g[j - 1] /\ h[k - 1] = g[j - 1]
          BY <2>1, <3>1
        <4> QED
          BY <4>1, <3>1, <1>2
      <3>2. CASE k # j
        <4>1. k \in 0 .. j - 1 /\ h[k] = g[k]
          BY <2>1, <3>2
        <4>2. k # 0 => h[k - 1] = g[k - 1]
          BY <2>1, <3>2
        <4>3. g[k] = IF k = 0 THEN 1 ELSE x * g[k - 1]
          BY <2>2, <4>1 DEF Multiplies
        <4> QED
          BY <4>1, <4>2, <4>3
      <3> QED
        BY <3>1, <3>2
    <2>4. Multiplies(x, j, h)
      BY <2>3 DEF Multiplies
    <2> QED
      BY <2>4
  <1>3. T = {}
    <2>1. T \subseteq 0 .. n
      OBVIOUS
    <2> HIDE DEF T
    <2>2. SUFFICES ASSUME T # {}
                   PROVE  FALSE
      OBVIOUS
    <2>3. PICK m \in T : m - 1 \notin T
      BY <2>1, <2>2, FirstFailure
    <2> QED
      BY <1>1, <1>2, <2>1, <2>3
  <1> QED
    BY <1>3

(* A power of an integer is one, and 0 to any power but the 0th is 0. *)
LEMMA PowerIs ==
  ASSUME NEW x \in Int, NEW n \in Nat
  PROVE  /\ Power(x, n) \in Int
         /\ n # 0 => Power(0, n) = 0
  <1>1. ASSUME NEW y \in Int
        PROVE  \E g : /\ Power(y, n) = g[n] /\ g[n] \in Int
                      /\ n # 0 => n - 1 \in 0 .. n /\ g[n] = y * g[n - 1] /\ g[n - 1] \in Int
    <2> DEFINE g == CHOOSE h : h = [k \in 0 .. n |-> IF k = 0 THEN 1 ELSE y * h[k - 1]]
               T == {k \in 0 .. n : g[k] \notin Int}
    <2>1. Power(y, n) = g[n]
      BY DEF Power
    <2>2. \E h : Multiplies(y, n, h)
      BY PowersExist
    <2>3. Multiplies(y, n, g)
      BY <2>2 DEF Multiplies
    <2> HIDE DEF g
    <2>4. \A k \in 0 .. n : g[k] = IF k = 0 THEN 1 ELSE y * g[k - 1]
      BY <2>3 DEF Multiplies
    <2>5. T = {}
      <3>1. SUFFICES ASSUME T # {}
                     PROVE  FALSE
        OBVIOUS
      <3>2. T \subseteq 0 .. n
        OBVIOUS
      <3>3. PICK m \in T : m - 1 \notin T
        <4> HIDE DEF T
        <4> QED
          BY <3>1, <3>2, FirstFailure
      <3>4. m \in 0 .. n /\ g[m] \notin Int
        OBVIOUS
      <3>5. m # 0 => m - 1 \in 0 .. n
        BY <3>4
      <3> QED
        BY <1>1, <2>4, <3>3, <3>4, <3>5
    <2>6. \A k \in 0 .. n : g[k] \in Int
      BY <2>5
    <2>7. n \in 0 .. n /\ (n # 0 => n - 1 \in 0 .. n)
      OBVIOUS
    <2> QED
      BY <2>1, <2>4, <2>6, <2>7
  <1>2. Power(x, n) \in Int
    BY <1>1
  <1>3. n # 0 => Power(0, n) = 0
    <2>1. PICK g : /\ Power(0, n) = g[n] /\ g[n] \in Int
                   /\ n # 0 => n - 1 \in 0 .. n /\ g[n] = 0 * g[n - 1] /\ g[n - 1] \in Int
      BY <1>1
    <2> QED
      BY <2>1
  <1> QED
    BY <1>2, <1>3

(* What the value of a time is made of. *)
Lengths(timings) == [j \in DOMAIN timings |-> timings[j].dt]
ValueAt(timings, t) ==
  GetValue(timings[ElementAt(timings, t)], t - StartOf(timings, ElementAt(timings, t)))

(* The elements follow each other. *)
LEMMA StartsFollow ==
  ASSUME NEW timings \in Seq(PowerLaws)
  PROVE  /\ \A i \in 1 .. Len(timings) + 1 : StartOf(timings, i) \in Int
         /\ \A i \in 1 .. Len(timings) :
              /\ timings[i].dt \in Nat
              /\ StartOf(timings, i + 1) = StartOf(timings, i) + timings[i].dt
  <1> DEFINE f == [j \in DOMAIN timings |-> timings[j].dt]
             n == Len(timings)
  <1>1. n \in Nat /\ DOMAIN timings = 1 .. n
    OBVIOUS
  <1>2. \A k \in 1 .. n : timings[k] \in PowerLaws
    OBVIOUS
  <1>3. \A k \in 1 .. n : timings[k].dt \in Nat
    BY <1>2 DEF PowerLaws
  <1>4. \A k \in 1 .. n : f[k] \in Nat /\ f[k] = timings[k].dt
    BY <1>1, <1>3
  <1>5. \A i : StartOf(timings, i) = SumTo(f, i - 1)
    BY DEF StartOf
  <1> HIDE DEF f, n
  <1>6. \A k \in 0 .. n : SumTo(f, k) \in Nat
    BY <1>1, <1>4, SumToType
  <1>7. ASSUME NEW i \in 1 .. n + 1
        PROVE  StartOf(timings, i) \in Int
    <2>1. i - 1 \in 0 .. n
      BY <1>1, <1>7
    <2> QED
      BY <2>1, <1>5, <1>6
  <1>8. ASSUME NEW i \in 1 .. n
        PROVE  StartOf(timings, i + 1) = StartOf(timings, i) + timings[i].dt
    <2>1. i - 1 \in Nat /\ (i - 1) + 1 = i /\ (i + 1) - 1 = i
      BY <1>1, <1>8
    <2>2. SumTo(f, (i - 1) + 1) = SumTo(f, i - 1) + f[(i - 1) + 1]
      BY <2>1, SumToAdds
    <2>3. StartOf(timings, i + 1) = SumTo(f, (i + 1) - 1)
      BY <1>5
    <2> QED
      BY <2>1, <2>2, <2>3, <1>4, <1>5
  <1> QED
    BY <1>3, <1>7, <1>8 DEF n

(* A later element ends later. *)
LEMMA EndsAscend ==
  ASSUME NEW timings \in Seq(PowerLaws), NEW i \in 1 .. Len(timings)
  PROVE  \A j \in i .. Len(timings) : StartOf(timings, i + 1) <= StartOf(timings, j + 1)
  <1> DEFINE n == Len(timings)
             T == {j \in 0 .. n : i <= j /\ ~(StartOf(timings, i + 1) <= StartOf(timings, j + 1))}
  <1>1. n \in Nat /\ i \in 1 .. n
    OBVIOUS
  <1>2. /\ \A k \in 1 .. n + 1 : StartOf(timings, k) \in Int
        /\ \A k \in 1 .. n : /\ timings[k].dt \in Nat
                             /\ StartOf(timings, k + 1) = StartOf(timings, k) + timings[k].dt
    BY StartsFollow
  <1>3. SUFFICES ASSUME T # {}
                 PROVE  FALSE
    <2>1. T = {} => \A j \in 0 .. n : i <= j => StartOf(timings, i + 1) <= StartOf(timings, j + 1)
      OBVIOUS
    <2>2. \A j \in i .. n : j \in 0 .. n /\ i <= j
      BY <1>1
    <2> HIDE DEF T
    <2> QED
      BY <2>1, <2>2
  <1>4. T \subseteq 0 .. n
    OBVIOUS
  <1>5. PICK m \in T : m - 1 \notin T
    <2> HIDE DEF T, n
    <2> QED
      BY <1>1, <1>3, <1>4, FirstFailure
  <1>6. m \in 0 .. n /\ i <= m /\ ~(StartOf(timings, i + 1) <= StartOf(timings, m + 1))
    OBVIOUS
  <1> HIDE DEF n
  <1>7. m # i /\ m \in 1 .. n /\ i <= m - 1 /\ m - 1 \in 0 .. n /\ (m - 1) + 1 = m /\ m \in Int
    <2>1. i + 1 \in 1 .. n + 1
      BY <1>1
    <2>2. StartOf(timings, i + 1) \in Int
      BY <1>2, <2>1
    <2>3. m # i
      BY <1>6, <2>2
    <2> QED
      BY <1>1, <1>6, <2>3
  <1>8. StartOf(timings, i + 1) <= StartOf(timings, m)
    BY <1>5, <1>7
  <1>9. StartOf(timings, m + 1) = StartOf(timings, m) + timings[m].dt /\ timings[m].dt \in Nat
    BY <1>2, <1>7
  <1>10. i + 1 \in 1 .. n + 1 /\ m \in 1 .. n + 1
    BY <1>1, <1>7
  <1>11. StartOf(timings, i + 1) \in Int /\ StartOf(timings, m) \in Int
    BY <1>2, <1>10
  <1> QED
    BY <1>6, <1>8, <1>9, <1>11

(* The greatest and the least of a set are what they are called. *)
LEMMA GreatestIs ==
  ASSUME NEW S, S \subseteq Int, NEW m \in S, \A k \in S : k <= m
  PROVE  Max(S) = m
  <1>1. \E x \in S : \A y \in S : x >= y
    OBVIOUS
  <1>2. Max(S) \in S /\ \A y \in S : Max(S) >= y
    BY <1>1 DEF Max
  <1>3. m \in Int /\ Max(S) \in Int
    BY <1>2
  <1>4. Max(S) >= m /\ Max(S) <= m
    BY <1>2
  <1> QED
    BY <1>3, <1>4

LEMMA LeastIs ==
  ASSUME NEW S, S \subseteq Int, NEW m \in S, \A k \in S : m <= k
  PROVE  Min(S) = m
  <1>1. \E x \in S : \A y \in S : x <= y
    OBVIOUS
  <1>2. Min(S) \in S /\ \A y \in S : Min(S) <= y
    BY <1>1 DEF Min
  <1>3. m \in Int /\ Min(S) \in Int
    BY <1>2
  <1>4. Min(S) <= m /\ m <= Min(S)
    BY <1>2
  <1> QED
    BY <1>3, <1>4

(* The element that set_time stops at is the one that t is in, or the      *)
(* first or the last.                                                      *)
LEMMA SameElement ==
  ASSUME NEW timings \in Seq(PowerLaws), timings # <<>>, NEW t \in Int,
         NEW ended, ended = {i \in DOMAIN timings : StartOf(timings, i + 1) < t}
  PROVE  /\ ElementAt(timings, t) \in 1 .. Len(timings)
         /\ ElementAt(timings, t) = IF ended = {} THEN 1
                                    ELSE IF Max(ended) = Len(timings) THEN Len(timings)
                                    ELSE Max(ended) + 1
  <1> DEFINE n == Len(timings)
             open == {i \in DOMAIN timings : t <= StartOf(timings, i) + timings[i].dt}
  <1>1. n \in Nat \ {0} /\ DOMAIN timings = 1 .. n
    OBVIOUS
  <1>2. \A i \in 1 .. n : /\ StartOf(timings, i + 1) \in Int
                          /\ StartOf(timings, i + 1) = StartOf(timings, i) + timings[i].dt
    <2>1. \A i \in 1 .. n : i + 1 \in 1 .. n + 1
      BY <1>1
    <2> QED
      BY <2>1, StartsFollow
  <1>3. \A i \in 1 .. n : \A j \in i .. n : StartOf(timings, i + 1) <= StartOf(timings, j + 1)
    BY EndsAscend
  <1>4. open = {i \in 1 .. n : ~(StartOf(timings, i + 1) < t)}
    <2>1. open = {i \in 1 .. n : t <= StartOf(timings, i) + timings[i].dt}
      BY <1>1
    <2>2. \A i \in 1 .. n :
            (t <= StartOf(timings, i) + timings[i].dt) <=> ~(StartOf(timings, i + 1) < t)
      BY <1>2
    <2> HIDE DEF open, n
    <2> QED
      BY <2>1, <2>2
  <1>5. ended = {i \in 1 .. n : StartOf(timings, i + 1) < t}
    BY <1>1
  <1>6. ElementAt(timings, t) = IF open = {} THEN n ELSE Min(open)
    BY DEF ElementAt
  <1> HIDE DEF open, n
  <1>7. CASE open = {}
    <2>1. \A i \in 1 .. n : i \in ended
      BY <1>4, <1>5, <1>7
    <2>2. n \in ended /\ (\A k \in ended : k <= n) /\ ended \subseteq Int
      BY <1>1, <1>5, <2>1
    <2>3. Max(ended) = n
      BY <2>2, GreatestIs
    <2> QED
      BY <1>1, <1>6, <1>7, <2>2, <2>3 DEF n
  <1>8. CASE open # {}
    <2>1. open \subseteq Nat /\ open \subseteq Int /\ open \subseteq 1 .. n
      BY <1>1, <1>4
    <2>2. PICK m \in open : \A k \in open : m <= k
      BY <1>8, <2>1, LeastOf
    <2>3. m \in 1 .. n
      BY <2>1
    <2>4. Min(open) = m
      BY <2>1, <2>2, LeastIs
    <2>5. ended = 1 .. m - 1
      <3>1. ASSUME NEW k \in 1 .. n, k <= m - 1
            PROVE  k \in ended
        <4>1. k \notin open
          BY <2>2, <2>3, <3>1
        <4> QED
          BY <1>4, <1>5, <4>1
      <3>2. ASSUME NEW k \in 1 .. n, ~(k <= m - 1)
            PROVE  k \notin ended
        <4>1. k \in m .. n
          BY <1>1, <2>3, <3>2
        <4>2. StartOf(timings, m + 1) <= StartOf(timings, k + 1)
          BY <1>3, <2>3, <4>1
        <4>3. ~(StartOf(timings, m + 1) < t)
          BY <1>4, <2>2
        <4>4. StartOf(timings, m + 1) \in Int /\ StartOf(timings, k + 1) \in Int
          BY <1>2, <2>3
        <4> QED
          BY <1>5, <4>2, <4>3, <4>4
      <3>3. 1 .. m - 1 \subseteq 1 .. n /\ \A k \in 1 .. n : k \in 1 .. m - 1 <=> k <= m - 1
        BY <1>1, <2>3
      <3> QED
        BY <1>5, <3>1, <3>2, <3>3
    <2>6. CASE m = 1
      <3>1. ended = {}
        BY <2>5, <2>6
      <3> QED
        BY <1>6, <1>8, <2>3, <2>4, <2>6, <3>1 DEF n
    <2>7. CASE m # 1
      <3>1. m - 1 \in ended /\ (\A k \in ended : k <= m - 1) /\ ended \subseteq Int
        <4>1. m - 1 \in 1 .. m - 1 /\ m \in Int
          BY <1>1, <2>3, <2>7
        <4>2. (\A k \in 1 .. m - 1 : k <= m - 1) /\ 1 .. m - 1 \subseteq Int
          BY <4>1
        <4> QED
          BY <2>5, <4>1, <4>2, Zenon
      <3>2. Max(ended) = m - 1
        BY <3>1, GreatestIs
      <3>3. m - 1 # n /\ (m - 1) + 1 = m
        BY <1>1, <2>3
      <3> QED
        BY <1>6, <1>8, <2>3, <2>4, <3>1, <3>2, <3>3 DEF n
    <2> QED
      BY <2>6, <2>7
  <1> QED
    BY <1>7, <1>8

(* How much of an element has passed. *)
LEMMA ShareIs ==
  ASSUME NEW d \in Nat, NEW r \in Int
  PROVE  /\ r >= d => Max({0, Min({d, r})}) = d
         /\ r <= 0 => Max({0, Min({d, r})}) = 0
         /\ 0 <= r /\ r <= d => Max({0, Min({d, r})}) = r
  <1>1. r >= d => Min({d, r}) = d
    <2>1. {d, r} \subseteq Int
      OBVIOUS
    <2>2. r >= d => d \in {d, r} /\ \A k \in {d, r} : d <= k
      OBVIOUS
    <2> QED
      BY <2>1, <2>2, LeastIs
  <1>2. r <= d => Min({d, r}) = r
    <2>1. {d, r} \subseteq Int
      OBVIOUS
    <2>2. r <= d => r \in {d, r} /\ \A k \in {d, r} : r <= k
      OBVIOUS
    <2> QED
      BY <2>1, <2>2, LeastIs
  <1>3. \A m \in Int : /\ 0 <= m => Max({0, m}) = m
                       /\ m <= 0 => Max({0, m}) = 0
    <2> TAKE m \in Int
    <2>1. {0, m} \subseteq Int /\ 0 \in {0, m} /\ m \in {0, m}
      OBVIOUS
    <2>2. 0 <= m => \A k \in {0, m} : k <= m
      OBVIOUS
    <2>3. m <= 0 => \A k \in {0, m} : k <= 0
      OBVIOUS
    <2>4. 0 <= m => Max({0, m}) = m
      BY <2>1, <2>2, GreatestIs
    <2>5. m <= 0 => Max({0, m}) = 0
      BY <2>1, <2>3, GreatestIs
    <2> QED
      BY <2>4, <2>5
  <1>4. d \in Int /\ 0 <= d
    OBVIOUS
  <1>5. r >= d => Max({0, Min({d, r})}) = d
    BY <1>1, <1>3, <1>4
  <1>6. 0 <= r /\ r <= d => Max({0, Min({d, r})}) = r
    BY <1>2, <1>3
  <1>7. r <= 0 => r <= d
    BY <1>4
  <1>8. r <= 0 => Max({0, Min({d, r})}) = 0
    BY <1>2, <1>3, <1>7
  <1> QED
    BY <1>5, <1>6, <1>8

(* What an element makes of the time r since its start. *)
Rises(te, r, share, full, risen, v) ==
  /\ share = Max({0, Min({te.dt, r})})
  /\ full = Power(te.dt, te.exponent)
  /\ risen = IF te.reverse THEN full - Power(te.dt - share, te.exponent)
             ELSE Power(share, te.exponent)
  /\ v = GetValue(te, r)

(* Between its ends an element rises by the share that has passed. *)
LEMMA RiseIs ==
  ASSUME NEW te \in PowerLaws, NEW r \in Int, NEW share, NEW full, NEW risen, NEW v,
         Rises(te, r, share, full, risen, v)
  PROVE  v[1] * full = (te.val_i * full + (te.val_f - te.val_i) * risen) * v[2]
  <1> DEFINE k == te.exponent
             d == te.dt
             a == te.val_i
             b == te.val_f
  <1>1. d \in Nat /\ d \in Int /\ k \in Nat /\ k # 0 /\ a \in Int /\ b \in Int /\ te.reverse \in BOOLEAN
    BY DEF PowerLaws
  <1>2. v = IF r >= d THEN <<b, 1>>
            ELSE IF r <= 0 THEN <<a, 1>>
            ELSE IF te.reverse THEN <<b * full - (b - a) * Power(d - r, k), full>>
            ELSE <<a * full + (b - a) * Power(r, k), full>>
    <2>1. v = GetValue(te, r) /\ full = Power(d, k)
      BY DEF Rises
    <2>2. v = IF r >= d THEN <<b, 1>>
              ELSE IF r <= 0 THEN <<a, 1>>
              ELSE IF te.reverse THEN <<b * Power(d, k) - (b - a) * Power(d - r, k), Power(d, k)>>
              ELSE <<a * Power(d, k) + (b - a) * Power(r, k), Power(d, k)>>
      BY <2>1, Zenon DEF GetValue
    <2> HIDE DEF a, b, d, k
    <2> QED
      BY <2>1, <2>2, Zenon
  <1>3. /\ risen = IF te.reverse THEN full - Power(d - share, k) ELSE Power(share, k)
        /\ full = Power(d, k)
        /\ share = Max({0, Min({d, r})})
    BY Zenon DEF Rises
  <1>4. /\ r >= d => share = d
        /\ r <= 0 => share = 0
        /\ 0 <= r /\ r <= d => share = r
    BY <1>1, <1>3, ShareIs
  <1> HIDE DEF k, d, a, b
  <1>5. full \in Int /\ Power(0, k) = 0 /\ \A x \in Int : Power(x, k) \in Int
    BY <1>1, <1>3, PowerIs
  <1>6. v[1] * full = (a * full + (b - a) * risen) * v[2]
    <2>1. CASE r >= d
      <3>1. v[1] = b /\ v[2] = 1 /\ share = d
        BY <1>2, <1>4, <2>1
      <3>2. d - d = 0
        BY <1>1
      <3>3. risen = full
        BY <1>3, <1>5, <3>1, <3>2
      <3>4. b * full = (a * full + (b - a) * full) * 1
        BY <1>1, <1>5
      <3> QED
        BY <3>1, <3>3, <3>4
    <2>2. CASE ~(r >= d) /\ r <= 0
      <3>1. v[1] = a /\ v[2] = 1 /\ share = 0
        BY <1>2, <1>4, <2>2
      <3>2. d - 0 = d
        BY <1>1
      <3>3. risen = 0
        BY <1>3, <1>5, <3>1, <3>2
      <3>4. a * full = (a * full + (b - a) * 0) * 1
        BY <1>1, <1>5
      <3> QED
        BY <3>1, <3>3, <3>4
    <2>3. CASE ~(r >= d) /\ ~(r <= 0)
      <3>1. 0 <= r /\ r <= d /\ share = r
        BY <1>1, <1>4, <2>3
      <3>2. CASE te.reverse
        <4> DEFINE q == Power(d - r, k)
        <4>1. q \in Int
          <5>1. d - r \in Int
            BY <1>1
          <5> QED
            BY <5>1, <1>5
        <4>2. v[1] = b * full - (b - a) * q /\ v[2] = full /\ risen = full - q
          BY <1>2, <1>3, <2>3, <3>1, <3>2
        <4> HIDE DEF q
        <4>3. b * full - (b - a) * q = a * full + (b - a) * (full - q)
          BY <1>1, <1>5, <4>1
        <4> QED
          BY <4>2, <4>3
      <3>3. CASE ~te.reverse
        <4>1. v[1] = a * full + (b - a) * risen /\ v[2] = full
          BY <1>2, <1>3, <2>3, <3>1, <3>3
        <4> QED
          BY <4>1
      <3> QED
        BY <3>2, <3>3
    <2> QED
      BY <2>1, <2>2, <2>3
  <1> QED
    BY <1>6 DEF a, b

(* The value that set_time gives is the proper one. *)
LEMMA ValueIsProper ==
  ASSUME NEW timings \in Seq(PowerLaws), timings # <<>>, NEW t \in Int
  PROVE  LET p == Proper(timings, t)
             v == ValueAt(timings, t)
         IN v[1] * p[2] = p[1] * v[2]
  <1> DEFINE i == ElementAt(timings, t)
             ended == {j \in DOMAIN timings : StartOf(timings, j + 1) < t}
             j == IF ended = {} THEN 1 ELSE IF Max(ended) = Len(timings) THEN Len(timings) ELSE Max(ended) + 1
             te == timings[i]
             r == t - StartOf(timings, i)
             share == Max({0, Min({te.dt, r})})
             full == Power(te.dt, te.exponent)
             risen == IF te.reverse THEN full - Power(te.dt - share, te.exponent)
                                    ELSE Power(share, te.exponent)
             v == GetValue(te, r)
  <1>1. i \in 1 .. Len(timings) /\ i = j
    BY SameElement
  <1>2. te \in PowerLaws
    BY <1>1
  <1>3. r \in Int
    <2>1. i \in 1 .. Len(timings) + 1
      BY <1>1
    <2>2. StartOf(timings, i) \in Int
      BY <2>1, StartsFollow
    <2> QED
      BY <2>2
  <1>4. v[1] * full = (te.val_i * full + (te.val_f - te.val_i) * risen) * v[2]
    <2> HIDE DEF te, r
    <2>1. Rises(te, r, share, full, risen, v)
      BY DEF Rises
    <2> HIDE DEF share, full, risen, v
    <2> QED
      BY <1>2, <1>3, <2>1, RiseIs
  <1>5. Proper(timings, t) = <<te.val_i * full + (te.val_f - te.val_i) * risen, full>>
    <2>1. Proper(timings, t) =
            LET tj == timings[j]
                fullj == Power(tj.dt, tj.exponent)
                sharej == Max({0, Min({tj.dt, t - StartOf(timings, j)})})
                risenj == IF tj.reverse THEN fullj - Power(tj.dt - sharej, tj.exponent) ELSE Power(sharej, tj.exponent)
            IN <<tj.val_i * fullj + (tj.val_f - tj.val_i) * risenj, fullj>>
      BY DEF Proper
    <2> HIDE DEF i, j
    <2> QED
      BY <1>1, <2>1, Zenon
  <1>6. ValueAt(timings, t) = v
    BY DEF ValueAt
  <1> HIDE DEF te, full, risen, v
  <1> QED
    BY <1>4, <1>5, <1>6

(* The type of a Timing. *)
TimingTyped(T) ==
  /\ {"timings", "val", "now", "stack"} \subseteq DOMAIN T
  /\ T.timings \in Seq(PowerLaws) /\ T.now \in Int /\ T.stack \in Seq(Int)

(* It shows the value of its time. *)
Shown(T) == T.timings # <<>> /\ T.val = ValueAt(T.timings, T.now)

(* What an operation that does not throw makes of a Timing. *)
Worked(op, T, W) ==
  /\ TimingTyped(W) /\ W.timings = T.timings
  /\ op \in {"set", "incr", "pop"} /\ T.timings # <<>> => Shown(W)
  /\ op \in {"push", "pushnow"} => W.now = T.now /\ W.val = T.val
  /\ op = "set" => W.stack = T.stack
  /\ op = "pushnow" => W.stack = Append(T.stack, T.now)
  /\ op = "pop" /\ T.timings # <<>> => W.now = Last(T.stack) /\ W.stack = Front(T.stack)

(* set_time gives it the value of the time. *)
LEMMA SetTimeIs ==
  ASSUME NEW T, TimingTyped(T), NEW t \in Int
  PROVE  /\ TimingTyped(SetTime(T, t))
         /\ SetTime(T, t).timings = T.timings /\ SetTime(T, t).stack = T.stack
         /\ SetTime(T, t).now = t
         /\ T.timings # <<>> => Shown(SetTime(T, t))
  <1> DEFINE W == SetTime(T, t)
             v == ValueAt(T.timings, t)
  <1>1. CASE T.timings = <<>>
    <2>1. W = [T EXCEPT !.now = t]
      BY <1>1, Zenon DEF SetTime
    <2> HIDE DEF W
    <2>2. TimingTyped(W) /\ W.timings = T.timings /\ W.stack = T.stack /\ W.now = t
      BY <2>1 DEF TimingTyped
    <2> QED
      BY <1>1, <2>2 DEF W
  <1>2. CASE T.timings # <<>>
    <2>1. W = [T EXCEPT !.now = t, !.val = v]
      BY <1>2, Zenon DEF SetTime, ValueAt
    <2> HIDE DEF W, v
    <2>2. TimingTyped(W) /\ W.timings = T.timings /\ W.stack = T.stack /\ W.now = t /\ W.val = v
      BY <2>1 DEF TimingTyped
    <2>3. Shown(W)
      BY <1>2, <2>2 DEF Shown, v
    <2> QED
      BY <2>2, <2>3 DEF W
  <1> QED
    BY <1>1, <1>2

(* The last of a sequence that was appended to, and what is before it. *)
LEMMA AppendedIs ==
  ASSUME NEW D, NEW s \in Seq(D), NEW x \in D
  PROVE  Last(Append(s, x)) = x /\ Front(Append(s, x)) = s
  <1>1. Last(Append(s, x)) = x
    BY DEF Last
  <1>2. Front(Append(s, x)) = s
    <2>1. Len(Append(s, x)) - 1 = Len(s) /\ Len(s) \in Nat
      OBVIOUS
    <2>2. Front(Append(s, x)) = SubSeq(Append(s, x), 1, Len(s))
      BY <2>1 DEF Front
    <2> QED
      BY <2>1, <2>2
  <1> QED
    BY <1>1, <1>2

(* Taking off what is there. *)
LEMMA FrontIs ==
  ASSUME NEW s \in Seq(Int), s # <<>>
  PROVE  Last(s) \in Int /\ Front(s) \in Seq(Int)
  <1>1. Len(s) \in Nat \ {0}
    OBVIOUS
  <1>2. Last(s) = s[Len(s)]
    BY DEF Last
  <1>3. Front(s) = SubSeq(s, 1, Len(s) - 1)
    BY DEF Front
  <1>4. Len(s) \in 1 .. Len(s)
    BY <1>1
  <1>5. s[Len(s)] \in Int
    BY <1>4
  <1>6. SubSeq(s, 1, Len(s) - 1) \in Seq(Int)
    BY <1>1
  <1> QED
    BY <1>2, <1>3, <1>5, <1>6

(* Each operation does what it says. *)
LEMMA DoneIs ==
  ASSUME NEW T, TimingTyped(T), NEW t \in Int,
         NEW op \in {"set", "incr", "push", "pushnow", "pop"}, op = "pop" => T.stack # <<>>
  PROVE  Worked(op, T, Done(op, T, t))
  <1>1. CASE op = "set"
    <2>1. Done(op, T, t) = SetTime(T, t)
      BY <1>1 DEF Done
    <2> QED
      BY <1>1, <2>1, SetTimeIs DEF Worked
  <1>2. CASE op = "incr"
    <2>1. Done(op, T, t) = SetTime(T, T.now + t)
      BY <1>2 DEF Done, IncrTime
    <2>2. T.now + t \in Int
      BY DEF TimingTyped
    <2> QED
      BY <1>2, <2>1, <2>2, SetTimeIs DEF Worked
  <1>3. CASE op \in {"push", "pushnow"}
    <2>1. PICK u \in Int : Done(op, T, t) = [T EXCEPT !.stack = Append(T.stack, u)] /\ (op = "pushnow" => u = T.now)
      <3>1. CASE op = "push"
        <4>1. Done(op, T, t) = [T EXCEPT !.stack = Append(T.stack, t)]
          BY <3>1 DEF Done, PushTime
        <4> QED
          BY <3>1, <4>1
      <3>2. CASE op = "pushnow"
        <4>1. Done(op, T, t) = [T EXCEPT !.stack = Append(T.stack, T.now)]
          BY <3>2 DEF Done, PushTime
        <4>2. T.now \in Int
          BY DEF TimingTyped
        <4> QED
          BY <4>1, <4>2
      <3> QED
        BY <1>3, <3>1, <3>2
    <2> DEFINE W == Done(op, T, t)
    <2> HIDE DEF W
    <2>2. W = [T EXCEPT !.stack = Append(T.stack, u)]
      BY <2>1 DEF W
    <2>3. Append(T.stack, u) \in Seq(Int)
      BY DEF TimingTyped
    <2>4. /\ TimingTyped(W) /\ W.timings = T.timings /\ W.now = T.now /\ W.val = T.val
          /\ W.stack = Append(T.stack, u)
      BY <2>2, <2>3 DEF TimingTyped
    <2>5. Worked(op, T, W)
      BY <1>3, <2>1, <2>4 DEF Worked
    <2> QED
      BY <2>5 DEF W
  <1>4. CASE op = "pop"
    <2> DEFINE S == SetTime(T, Last(T.stack))
               W == Done(op, T, t)
    <2>1. Last(T.stack) \in Int /\ Front(T.stack) \in Seq(Int)
      BY <1>4, FrontIs DEF TimingTyped
    <2>2. /\ TimingTyped(S) /\ S.timings = T.timings /\ S.stack = T.stack /\ S.now = Last(T.stack)
          /\ T.timings # <<>> => Shown(S)
      BY <2>1, SetTimeIs
    <2>3. W = IF T.timings = <<>> THEN S ELSE [S EXCEPT !.stack = Front(S.stack)]
      BY <1>4 DEF Done, PopTime
    <2> HIDE DEF S, W
    <2>4. CASE T.timings = <<>>
      BY <1>4, <2>2, <2>3, <2>4 DEF Worked, W
    <2>5. CASE T.timings # <<>>
      <3>1. W = [S EXCEPT !.stack = Front(T.stack)]
        BY <2>2, <2>3, <2>5
      <3>2. /\ TimingTyped(W) /\ W.timings = T.timings /\ W.now = S.now /\ W.val = S.val
            /\ W.stack = Front(T.stack)
        BY <2>1, <2>2, <3>1 DEF TimingTyped
      <3>3. Shown(W)
        BY <2>2, <2>5, <3>2 DEF Shown
      <3>4. Worked(op, T, W)
        BY <1>4, <2>2, <3>2, <3>3 DEF Worked
      <3> QED
        BY <3>4 DEF W
    <2> QED
      BY <2>4, <2>5
  <1> QED
    BY <1>1, <1>2, <1>3, <1>4

(* The type of the Timings and their collection, which has each only once. *)
TimingsFields == {"is", "pc", "T", "order", "thrown", "fresh", "before", "t", "tf"}
TimingsTyped(b) ==
  /\ TimingsFields \subseteq DOMAIN b
  /\ b.pc \in {"idle", "print", "printed"} /\ b.thrown \in BOOLEAN
  /\ b.t \in Int /\ b.tf \in Int
  /\ b.order \in Seq(DOMAIN b.T)
  /\ \A j, k \in DOMAIN b.order : b.order[j] = b.order[k] => j = k
  /\ \A n \in DOMAIN b.T : TimingTyped(b.T[n])
  /\ b.fresh \subseteq DOMAIN b.T

(* One before the place k throws. *)
Behind(op, b, k) == \E j \in 1 .. k - 1 : Throws(op, b.T[b.order[j]])

(* What an operation on the collection does. *)
Applied(op, b, t, R) ==
  /\ DOMAIN R = DOMAIN b /\ \A f \in DOMAIN b \ {"T", "thrown"} : R[f] = b[f]
  /\ DOMAIN R.T = DOMAIN b.T
  /\ \A n \in DOMAIN b.T \ Range(b.order) : R.T[n] = b.T[n]
  /\ \A k \in DOMAIN b.order :
       R.T[b.order[k]] = IF Behind(op, b, k) THEN b.T[b.order[k]] ELSE Done(op, b.T[b.order[k]], t)
  /\ R.thrown = (\E k \in DOMAIN b.order : Throws(op, b.T[b.order[k]]))

(* It goes through the registered Timings up to the first that throws. *)
LEMMA ForAllIs ==
  ASSUME NEW b, TimingsTyped(b), NEW op, NEW t
  PROVE  Applied(op, b, t, ForAll(op, b, t))
  <1> DEFINE place(n) == CHOOSE k \in DOMAIN b.order : b.order[k] = n
             throwing == {k \in DOMAIN b.order : Throws(op, b.T[b.order[k]])}
             last == IF throwing = {} THEN Len(b.order) ELSE Min(throwing)
             T == [n \in DOMAIN b.T |-> IF n \in Range(b.order) /\ place(n) <= last
                                        THEN Done(op, b.T[n], t) ELSE b.T[n]]
             R == ForAll(op, b, t)
  <1>1. R = [b EXCEPT !.T = T, !.thrown = throwing # {}]
    BY Zenon DEF ForAll
  <1>2. {"T", "thrown"} \subseteq DOMAIN b
    BY DEF TimingsTyped, TimingsFields
  <1>3. Len(b.order) \in Nat /\ DOMAIN b.order = 1 .. Len(b.order)
    BY DEF TimingsTyped
  <1>4. \A k \in DOMAIN b.order : place(b.order[k]) = k
    BY Zenon DEF TimingsTyped
  <1>5. \A k \in DOMAIN b.order : b.order[k] \in DOMAIN b.T /\ b.order[k] \in Range(b.order)
    BY DEF TimingsTyped, Range
  <1>6. throwing \subseteq DOMAIN b.order /\ \A k \in DOMAIN b.order : k \in throwing <=> Throws(op, b.T[b.order[k]])
    OBVIOUS
  <1> HIDE DEF R, throwing, place
  <1>7. ASSUME NEW k \in DOMAIN b.order
        PROVE  k <= last <=> ~Behind(op, b, k)
    <2>1. k \in Nat /\ k \in 1 .. Len(b.order) /\ \A j \in 1 .. k - 1 : j \in DOMAIN b.order /\ j < k
      BY <1>3, <1>7
    <2>2. CASE throwing = {}
      <3>1. k <= last
        BY <2>1, <2>2
      <3>2. ~Behind(op, b, k)
        BY <1>6, <2>1, <2>2 DEF Behind
      <3> QED
        BY <3>1, <3>2
    <2>3. CASE throwing # {}
      <3>1. throwing \subseteq Nat /\ throwing \subseteq Int
        BY <1>3, <1>6
      <3>2. PICK m \in throwing : \A j \in throwing : m <= j
        BY <2>3, <3>1, LeastOf
      <3>3. Min(throwing) = m
        BY <3>1, <3>2, LeastIs
      <3>4. last = m /\ m \in Nat
        BY <2>3, <3>1, <3>3
      <3>5. m \in DOMAIN b.order /\ m \in 1 .. Len(b.order)
        BY <1>3, <1>6
      <3>6. ASSUME k <= m
            PROVE  ~Behind(op, b, k)
        <4>1. SUFFICES ASSUME NEW j \in 1 .. k - 1, Throws(op, b.T[b.order[j]])
                       PROVE  FALSE
          BY DEF Behind
        <4>2. j \in throwing /\ j < k /\ j \in Nat
          BY <1>6, <2>1, <4>1
        <4>3. m <= j
          BY <3>2, <4>2
        <4> QED
          BY <2>1, <3>4, <3>6, <4>2, <4>3
      <3>7. ASSUME ~(k <= m)
            PROVE  Behind(op, b, k)
        <4>1. m \in 1 .. k - 1
          BY <2>1, <3>5, <3>7
        <4>2. Throws(op, b.T[b.order[m]])
          BY <1>6, <3>5
        <4> QED
          BY <4>1, <4>2 DEF Behind
      <3> QED
        BY <3>4, <3>6, <3>7
    <2> QED
      BY <2>2, <2>3
  <1>8. DOMAIN T = DOMAIN b.T
    OBVIOUS
  <1>9. \A n \in DOMAIN b.T \ Range(b.order) : T[n] = b.T[n]
    OBVIOUS
  <1>10. ASSUME NEW k \in DOMAIN b.order
         PROVE  T[b.order[k]] = IF Behind(op, b, k) THEN b.T[b.order[k]] ELSE Done(op, b.T[b.order[k]], t)
    <2> HIDE DEF last
    <2> QED
      BY <1>4, <1>5, <1>7
  <1> HIDE DEF T, last
  <1>11. /\ DOMAIN R = DOMAIN b /\ \A f \in DOMAIN b \ {"T", "thrown"} : R[f] = b[f]
         /\ R.T = T /\ R.thrown = (throwing # {})
    BY <1>1, <1>2
  <1>12. (throwing # {}) = (\E k \in DOMAIN b.order : Throws(op, b.T[b.order[k]]))
    BY <1>6
  <1>13. Applied(op, b, t, R)
    BY <1>8, <1>9, <1>10, <1>11, <1>12 DEF Applied
  <1> QED
    BY <1>13 DEF R

(* A Timing without elements is registered. *)
Lacking(b, k) == \E j \in 1 .. k - 1 : b.T[b.order[j]].timings = <<>>
AnyLacking(b) == \E j \in DOMAIN b.order : b.T[b.order[j]].timings = <<>>

(* The times as they were before a print are on the stacks. *)
Saved(b) ==
  /\ DOMAIN b.before = DOMAIN b.T
  /\ \A n \in DOMAIN b.T : b.before[n].now \in Int /\ b.before[n].stack \in Seq(Int)
  /\ \A n \in Range(b.order) : b.T[n].stack = Append(b.before[n].stack, b.before[n].now)
  /\ \A n \in DOMAIN b.T \ Range(b.order) :
       b.T[n].now = b.before[n].now /\ b.T[n].stack = b.before[n].stack
  /\ AnyLacking(b) => \A n \in DOMAIN b.T : b.T[n].now = b.before[n].now

(* They have been taken from there. *)
Restored(b) ==
  /\ \A n \in DOMAIN b.T : b.T[n].now = b.before[n].now /\ b.T[n].stack = b.before[n].stack
  /\ \A n \in Range(b.order) : Shown(b.T[n])

(* What an exception leaves behind. *)
LeftOver(b) ==
  \A k \in DOMAIN b.order :
    LET n == b.order[k]
    IN /\ Lacking(b, k) => b.T[n].now = b.before[n].now
       /\ b.pc = "print" => b.T[n].stack = Append(b.before[n].stack, b.before[n].now)

(* The inductive invariant of the Timings. *)
TimingsKept(b) ==
  b.is = "timings" =>
    /\ TimingsTyped(b)
    /\ ~b.thrown => /\ \A n \in b.fresh : Shown(b.T[n])
                    /\ b.pc = "print" => Saved(b)
                    /\ b.pc = "printed" => Restored(b)
    /\ b.thrown => LeftOver(b)

(* The last interval, the sum or the mean of the intervals up to now. *)
Measured(b) ==
  /\ b.dt[1] \in Int /\ b.dt[2] \in Int
  /\ b.function = "SIMPLE" /\ b.N_stop > 0 => b.dt = <<b.log[b.N_stop], 1>>
  /\ b.function = "CUMMULATIVE" => b.dt[1] = SumTo(b.log, b.N_stop) * b.dt[2]
  /\ b.function = "AVERAGED" => b.dt[1] * b.N_stop = SumTo(b.log, b.N_stop) * b.dt[2]

(* A reading of the clock. *)
IsReading(c) == c = <<c[1], c[2]>> /\ c[1] \in Int /\ c[2] \in 0 .. Usecs - 1

(* The inductive invariant of a Timer. *)
TimerFields == {"is", "function", "N_start", "N_stop", "tv", "dt", "clock", "log"}
TimerKept(b) ==
  b.is = "timer" =>
    /\ TimerFields \subseteq DOMAIN b
    /\ b.function \in {"AVERAGED", "CUMMULATIVE", "SIMPLE"}
    /\ b.N_stop \in Nat /\ b.N_start \in {b.N_stop, b.N_stop + 1}
    /\ b.log \in Seq(Nat) /\ Len(b.log) = b.N_stop
    /\ IsReading(b.clock)
    /\ b.N_start = b.N_stop + 1 => b.tv = b.clock
    /\ Measured(b)

(* Any Timings at all, registered in any order or not at all. *)
AnyTimings ==
  Free /\ \E names : \E T \in [names -> Seq(PowerLaws)] : \E order \in Seq(names) :
    /\ \A j, k \in DOMAIN order : order[j] = order[k] => j = k
    /\ PutOn([is |-> "timings", pc |-> "idle", T |-> [n \in names |-> NewTiming(T[n])],
              order |-> order, thrown |-> FALSE, fresh |-> {}, before |-> <<>>, t |-> 0, tf |-> 0])

(* Timings and Timers, in a library that does anything else as well. *)
ClocksSpec ==
  bench = NothingThere /\ [][AnyTimings \/ ClocksNext \/ Elsewhere({"timings", "timer"})]_bench

(* What can throw, and what an operation on all makes of a state. *)
SettingOps == {"set", "incr", "pop"}
After(op, b, R) ==
  /\ TimingsTyped(R)
  /\ R.is = b.is /\ R.pc = b.pc /\ R.order = b.order /\ R.fresh = b.fresh /\ R.before = b.before
  /\ R.t = b.t /\ R.tf = b.tf
  /\ DOMAIN R.T = DOMAIN b.T /\ \A n \in DOMAIN b.T : R.T[n].timings = b.T[n].timings
  /\ \A n \in DOMAIN b.T \ Range(b.order) : R.T[n] = b.T[n]
  /\ \A k \in DOMAIN b.order :
       IF op \in SettingOps /\ Lacking(b, k) THEN R.T[b.order[k]] = b.T[b.order[k]]
       ELSE Worked(op, b.T[b.order[k]], R.T[b.order[k]])
  /\ R.thrown <=> op \in SettingOps /\ AnyLacking(b)

(* Those registered are Timings. *)
LEMMA RegisteredAre ==
  ASSUME NEW b, TimingsTyped(b)
  PROVE  /\ Range(b.order) \subseteq DOMAIN b.T
         /\ \A n \in Range(b.order) : \E k \in DOMAIN b.order : n = b.order[k]
         /\ \A k \in DOMAIN b.order : b.order[k] \in Range(b.order) /\ b.order[k] \in DOMAIN b.T
         /\ \A k \in DOMAIN b.order : \A j \in 1 .. k - 1 : j \in DOMAIN b.order
  <1>1. b.order \in Seq(DOMAIN b.T)
    BY DEF TimingsTyped
  <1>2. \A k \in DOMAIN b.order : b.order[k] \in DOMAIN b.T
    BY <1>1
  <1>3. \A k \in DOMAIN b.order : \A j \in 1 .. k - 1 : j \in DOMAIN b.order
    BY <1>1
  <1> QED
    BY <1>2, <1>3 DEF Range

(* An operation on the collection works on each up to the first that throws. *)
LEMMA ForAllWorks ==
  ASSUME NEW b, TimingsTyped(b), NEW op \in {"set", "incr", "push", "pushnow", "pop"}, NEW t \in Int,
         op = "pop" => \A k \in DOMAIN b.order : b.T[b.order[k]].stack # <<>>
  PROVE  After(op, b, ForAll(op, b, t))
  <1> DEFINE R == ForAll(op, b, t)
  <1>1. Applied(op, b, t, R)
    BY ForAllIs
  <1> HIDE DEF R
  <1>2. TimingsFields \subseteq DOMAIN b
    BY DEF TimingsTyped
  <1>3. {"is", "pc", "order", "fresh", "before", "t", "tf"} \subseteq DOMAIN b \ {"T", "thrown"}
    BY <1>2 DEF TimingsFields
  <1>4. /\ R.is = b.is /\ R.pc = b.pc /\ R.order = b.order /\ R.fresh = b.fresh /\ R.before = b.before
        /\ R.t = b.t /\ R.tf = b.tf /\ TimingsFields \subseteq DOMAIN R
    BY <1>1, <1>2, <1>3 DEF Applied
  <1>5. \A k \in DOMAIN b.order :
          Throws(op, b.T[b.order[k]]) <=> op \in SettingOps /\ b.T[b.order[k]].timings = <<>>
    BY DEF Throws, SettingOps
  <1>6. \A k \in DOMAIN b.order : Behind(op, b, k) <=> op \in SettingOps /\ Lacking(b, k)
    BY <1>5, RegisteredAre DEF Behind, Lacking
  <1>7. R.thrown = (\E k \in DOMAIN b.order : Throws(op, b.T[b.order[k]]))
    BY <1>1 DEF Applied
  <1>8. (\E k \in DOMAIN b.order : Throws(op, b.T[b.order[k]])) <=> op \in SettingOps /\ AnyLacking(b)
    BY <1>5 DEF AnyLacking
  <1>9. R.thrown \in BOOLEAN /\ (R.thrown <=> op \in SettingOps /\ AnyLacking(b))
    BY <1>7, <1>8
  <1>10. ASSUME NEW k \in DOMAIN b.order
         PROVE  IF op \in SettingOps /\ Lacking(b, k) THEN R.T[b.order[k]] = b.T[b.order[k]]
                ELSE Worked(op, b.T[b.order[k]], R.T[b.order[k]])
    <2>1. b.order[k] \in DOMAIN b.T
      BY RegisteredAre
    <2>2. TimingTyped(b.T[b.order[k]])
      BY <2>1 DEF TimingsTyped
    <2>3. Worked(op, b.T[b.order[k]], Done(op, b.T[b.order[k]], t))
      BY <2>2, DoneIs
    <2>4. R.T[b.order[k]] = IF Behind(op, b, k) THEN b.T[b.order[k]] ELSE Done(op, b.T[b.order[k]], t)
      BY <1>1 DEF Applied
    <2> QED
      BY <1>6, <2>3, <2>4
  <1>11. DOMAIN R.T = DOMAIN b.T /\ \A n \in DOMAIN b.T \ Range(b.order) : R.T[n] = b.T[n]
    BY <1>1 DEF Applied
  <1>12. ASSUME NEW n \in DOMAIN b.T
         PROVE  TimingTyped(R.T[n]) /\ R.T[n].timings = b.T[n].timings
    <2>1. TimingTyped(b.T[n])
      BY Zenon DEF TimingsTyped
    <2>2. CASE n \in Range(b.order)
      <3>1. PICK k \in DOMAIN b.order : n = b.order[k]
        BY <2>2, RegisteredAre
      <3> QED
        BY <1>10, <2>1, <3>1, Zenon DEF Worked
    <2>3. CASE n \notin Range(b.order)
      BY <1>11, <2>1, <2>3
    <2> QED
      BY <2>2, <2>3
  <1>13. TimingsTyped(R)
    <2>1. /\ b.pc \in {"idle", "print", "printed"} /\ b.t \in Int /\ b.tf \in Int
          /\ b.order \in Seq(DOMAIN b.T) /\ b.fresh \subseteq DOMAIN b.T
          /\ \A j, k \in DOMAIN b.order : b.order[j] = b.order[k] => j = k
      BY DEF TimingsTyped
    <2> QED
      BY <1>4, <1>9, <1>11, <1>12, <2>1 DEF TimingsTyped
  <1>14. After(op, b, R)
    BY <1>4, <1>9, <1>10, <1>11, <1>12, <1>13 DEF After
  <1> QED
    BY <1>14 DEF R

(* Whether one lacks elements does not change. *)
LEMMA LackingStays ==
  ASSUME NEW b, TimingsTyped(b), NEW c, c.order = b.order,
         \A n \in DOMAIN b.T : c.T[n].timings = b.T[n].timings
  PROVE  /\ \A k \in DOMAIN b.order : Lacking(c, k) <=> Lacking(b, k)
         /\ AnyLacking(c) <=> AnyLacking(b)
  <1>1. \A k \in DOMAIN b.order : c.T[b.order[k]].timings = b.T[b.order[k]].timings
    BY RegisteredAre
  <1>2. \A k \in DOMAIN b.order : \A j \in 1 .. k - 1 : j \in DOMAIN b.order
    BY RegisteredAre
  <1> QED
    BY <1>1, <1>2 DEF Lacking, AnyLacking

(* If none does, all are shown what they are set to, and what is not set   *)
(* or saved goes on showing what it does.                                  *)
LEMMA ShownAfter ==
  ASSUME NEW b, TimingsTyped(b), NEW op, NEW R, After(op, b, R), ~R.thrown
  PROVE  /\ op \in SettingOps => \A n \in Range(b.order) : Shown(R.T[n])
         /\ op \in SettingOps \cup {"push", "pushnow"} =>
              \A n \in DOMAIN b.T : Shown(b.T[n]) => Shown(R.T[n])
  <1>1. ASSUME NEW n \in Range(b.order), op \in SettingOps
        PROVE  Shown(R.T[n])
    <2>1. PICK k \in DOMAIN b.order : n = b.order[k]
      BY RegisteredAre
    <2>2. ~AnyLacking(b)
      BY <1>1 DEF After
    <2>3. \A j \in 1 .. k - 1 : j \in DOMAIN b.order
      BY RegisteredAre
    <2>4. ~Lacking(b, k) /\ b.T[n].timings # <<>>
      BY <2>1, <2>2, <2>3 DEF AnyLacking, Lacking
    <2>5. Worked(op, b.T[n], R.T[n])
      BY <2>1, <2>4 DEF After
    <2> QED
      BY <1>1, <2>4, <2>5 DEF Worked, SettingOps
  <1>2. ASSUME NEW n \in DOMAIN b.T, op \in {"push", "pushnow"}, Shown(b.T[n])
        PROVE  Shown(R.T[n])
    <2>1. CASE n \in Range(b.order)
      <3>1. PICK k \in DOMAIN b.order : n = b.order[k]
        BY <2>1, RegisteredAre
      <3>2. op \notin SettingOps
        BY <1>2 DEF SettingOps
      <3>3. Worked(op, b.T[n], R.T[n])
        BY <3>1, <3>2 DEF After
      <3> QED
        BY <1>2, <3>3 DEF Worked, Shown
    <2>2. CASE n \notin Range(b.order)
      BY <1>2, <2>2 DEF After
    <2> QED
      BY <2>1, <2>2
  <1>3. ASSUME NEW n \in DOMAIN b.T, op \in SettingOps, Shown(b.T[n])
        PROVE  Shown(R.T[n])
    <2>1. CASE n \in Range(b.order)
      BY <1>1, <1>3, <2>1
    <2>2. CASE n \notin Range(b.order)
      BY <1>3, <2>2 DEF After
    <2> QED
      BY <2>1, <2>2
  <1> QED
    BY <1>1, <1>2, <1>3

(* Setting, moving, saving and restoring the times of all. *)
LEMMA SetAllKeeps ==
  ASSUME TimingsKept(bench), NEW op \in {"set", "incr", "push", "pushnow", "pop"}, SetAll(op)
  PROVE  TimingsKept(bench')
  <1>1. /\ bench.is = "timings" /\ bench.pc = "idle" /\ ~bench.thrown
        /\ op = "pop" => Pushed(bench)
    BY DEF SetAll, On
  <1>2. TimingsTyped(bench) /\ \A n \in bench.fresh : Shown(bench.T[n])
    BY <1>1 DEF TimingsKept
  <1>3. PICK t \in Int :
          bench' = [ForAll(op, bench, t) EXCEPT
                      !.fresh = IF op \in {"push", "pushnow"} THEN @ ELSE Range(ForAll(op, bench, t).order),
                      !.before = IF ForAll(op, bench, t).thrown THEN bench.T ELSE <<>>]
    <2>1. \A t \in (IF op = "incr" THEN {1} ELSE IF op \in {"pushnow", "pop"} THEN {0} ELSE TimeRange) :
            t \in Int
      BY ClocksAssumption
    <2> QED
      BY <2>1 DEF SetAll
  <1> DEFINE R == ForAll(op, bench, t)
  <1>4. After(op, bench, R)
    BY <1>1, <1>2, ForAllWorks DEF Pushed
  <1>5. bench' = [R EXCEPT !.fresh = IF op \in {"push", "pushnow"} THEN R.fresh ELSE Range(R.order),
                           !.before = IF R.thrown THEN bench.T ELSE <<>>]
    BY <1>3
  <1> HIDE DEF R
  <1>6. TimingsTyped(R) /\ TimingsFields \subseteq DOMAIN R
    BY <1>4 DEF After, TimingsTyped
  <1>7. /\ TimingsFields \subseteq DOMAIN bench'
        /\ bench'.is = R.is /\ bench'.pc = R.pc /\ bench'.T = R.T /\ bench'.order = R.order
        /\ bench'.thrown = R.thrown /\ bench'.t = R.t /\ bench'.tf = R.tf
        /\ bench'.fresh = (IF op \in {"push", "pushnow"} THEN R.fresh ELSE Range(R.order))
        /\ bench'.before = IF R.thrown THEN bench.T ELSE <<>>
    BY <1>5, <1>6 DEF TimingsFields
  <1>8. R.pc = "idle" /\ R.order = bench.order /\ R.fresh = bench.fresh /\ R.is = "timings"
    BY <1>1, <1>4 DEF After
  <1>9. TimingsTyped(bench')
    <2>1. Range(R.order) \subseteq DOMAIN R.T
      BY <1>6, RegisteredAre
    <2>2. bench'.fresh \subseteq DOMAIN R.T
      BY <1>6, <1>7, <2>1 DEF TimingsTyped
    <2> QED
      BY <1>6, <1>7, <2>2 DEF TimingsTyped
  <1>10. CASE ~R.thrown
    <2>1. \A n \in bench'.fresh : Shown(bench'.T[n])
      <3>1. CASE op \in {"push", "pushnow"}
        <4>1. \A n \in bench.fresh : n \in DOMAIN bench.T /\ Shown(R.T[n])
          BY <1>2, <1>4, <1>10, <3>1, ShownAfter DEF TimingsTyped
        <4> QED
          BY <1>7, <1>8, <3>1, <4>1
      <3>2. CASE op \notin {"push", "pushnow"}
        <4>1. op \in SettingOps
          BY <3>2 DEF SettingOps
        <4>2. \A n \in Range(bench.order) : Shown(R.T[n])
          BY <1>2, <1>4, <1>10, <4>1, ShownAfter
        <4> QED
          BY <1>7, <1>8, <3>2, <4>2
      <3> QED
        BY <3>1, <3>2
    <2> QED
      BY <1>7, <1>8, <1>9, <1>10, <2>1 DEF TimingsKept
  <1>11. CASE R.thrown
    <2>1. op \in SettingOps
      BY <1>4, <1>11 DEF After
    <2>2. \A n \in DOMAIN bench.T : R.T[n].timings = bench.T[n].timings
      BY <1>4 DEF After
    <2>3. \A k \in DOMAIN bench.order : Lacking(bench', k) <=> Lacking(bench, k)
      BY <1>2, <1>7, <1>8, <2>2, LackingStays
    <2>4. \A k \in DOMAIN bench.order : Lacking(bench, k) => R.T[bench.order[k]] = bench.T[bench.order[k]]
      BY <1>4, <2>1 DEF After
    <2>5. LeftOver(bench')
      BY <1>7, <1>8, <1>11, <2>3, <2>4 DEF LeftOver
    <2> QED
      BY <1>7, <1>9, <1>11, <2>5 DEF TimingsKept
  <1> QED
    BY <1>10, <1>11

(* A print saves all times first. *)
LEMMA PrintCallKeeps ==
  ASSUME TimingsKept(bench), PrintCall
  PROVE  TimingsKept(bench')
  <1> DEFINE R == ForAll("pushnow", bench, 0)
  <1>1. bench.is = "timings" /\ bench.pc = "idle" /\ ~bench.thrown
    BY DEF PrintCall, On
  <1>2. TimingsTyped(bench) /\ \A n \in bench.fresh : Shown(bench.T[n])
    BY <1>1 DEF TimingsKept
  <1>3. PICK ti \in Int, tf \in Int :
          bench' = [R EXCEPT !.pc = "print", !.before = bench.T, !.t = ti, !.tf = tf]
    BY ClocksAssumption DEF PrintCall
  <1>4. After("pushnow", bench, R)
    BY <1>2, ForAllWorks
  <1> HIDE DEF R
  <1>5. TimingsTyped(R) /\ TimingsFields \subseteq DOMAIN R
    BY <1>4 DEF After, TimingsTyped
  <1>6. /\ TimingsFields \subseteq DOMAIN bench'
        /\ bench'.is = R.is /\ bench'.pc = "print" /\ bench'.T = R.T /\ bench'.order = R.order
        /\ bench'.thrown = R.thrown /\ bench'.t = ti /\ bench'.tf = tf
        /\ bench'.fresh = R.fresh /\ bench'.before = bench.T
    BY <1>3, <1>5 DEF TimingsFields
  <1>7. TimingsTyped(bench')
    BY <1>5, <1>6 DEF TimingsTyped
  <1>8. /\ R.order = bench.order /\ R.fresh = bench.fresh /\ R.is = "timings" /\ DOMAIN R.T = DOMAIN bench.T
        /\ ~R.thrown
    BY <1>1, <1>4 DEF After, SettingOps
  <1>9. \A n \in bench'.fresh : Shown(bench'.T[n])
    BY <1>2, <1>4, <1>6, <1>8, ShownAfter DEF TimingsTyped
  <1>10. \A n \in Range(bench.order) : /\ R.T[n].stack = Append(bench.T[n].stack, bench.T[n].now)
                                       /\ R.T[n].now = bench.T[n].now
    <2> TAKE n \in Range(bench.order)
    <2>1. PICK k \in DOMAIN bench.order : n = bench.order[k]
      BY <1>2, RegisteredAre
    <2>2. Worked("pushnow", bench.T[n], R.T[n])
      BY <1>4, <2>1 DEF After, SettingOps
    <2> QED
      BY <2>2 DEF Worked
  <1>11. \A n \in DOMAIN bench.T \ Range(bench.order) : R.T[n] = bench.T[n]
    BY <1>4 DEF After
  <1>12. \A n \in DOMAIN bench.T : bench.T[n].now \in Int /\ bench.T[n].stack \in Seq(Int)
    BY <1>2 DEF TimingsTyped, TimingTyped
  <1>13. Saved(bench')
    BY <1>6, <1>8, <1>10, <1>11, <1>12 DEF Saved
  <1> QED
    BY <1>6, <1>7, <1>8, <1>9, <1>13 DEF TimingsKept

(* A row of it sets all to its time, or throws at the first. *)
LEMMA PrintRowKeeps ==
  ASSUME TimingsKept(bench), PrintRow
  PROVE  TimingsKept(bench')
  <1> DEFINE R == ForAll("set", bench, bench.t)
  <1>1. bench.is = "timings" /\ bench.pc = "print" /\ ~bench.thrown
    BY DEF PrintRow, On
  <1>2. TimingsTyped(bench) /\ (\A n \in bench.fresh : Shown(bench.T[n])) /\ Saved(bench)
    BY <1>1 DEF TimingsKept
  <1>3. bench.t \in Int /\ bench.t + 1 \in Int
    BY <1>2 DEF TimingsTyped
  <1>4. After("set", bench, R)
    BY <1>2, <1>3, ForAllWorks
  <1>5. bench' = [R EXCEPT !.t = R.t + 1]
    BY DEF PrintRow
  <1> HIDE DEF R
  <1>6. TimingsTyped(R) /\ TimingsFields \subseteq DOMAIN R
    BY <1>4 DEF After, TimingsTyped
  <1>7. /\ TimingsFields \subseteq DOMAIN bench'
        /\ bench'.is = R.is /\ bench'.pc = R.pc /\ bench'.T = R.T /\ bench'.order = R.order
        /\ bench'.thrown = R.thrown /\ bench'.t = R.t + 1 /\ bench'.tf = R.tf
        /\ bench'.fresh = R.fresh /\ bench'.before = R.before
    BY <1>5, <1>6 DEF TimingsFields
  <1>8. TimingsTyped(bench')
    <2>1. R.t + 1 \in Int
      BY <1>6 DEF TimingsTyped
    <2> QED
      BY <1>6, <1>7, <2>1 DEF TimingsTyped
  <1>9. /\ R.order = bench.order /\ R.fresh = bench.fresh /\ R.is = "timings" /\ DOMAIN R.T = DOMAIN bench.T
        /\ R.pc = "print" /\ R.before = bench.before
        /\ R.thrown <=> AnyLacking(bench)
    BY <1>1, <1>4 DEF After, SettingOps
  <1>10. \A n \in DOMAIN bench.T : R.T[n].timings = bench.T[n].timings
    BY <1>4 DEF After
  <1>11. /\ \A k \in DOMAIN bench.order : Lacking(bench', k) <=> Lacking(bench, k)
         /\ AnyLacking(bench') <=> AnyLacking(bench)
    BY <1>2, <1>7, <1>9, <1>10, LackingStays
  <1>12. \A k \in DOMAIN bench.order :
           /\ Lacking(bench, k) => R.T[bench.order[k]] = bench.T[bench.order[k]]
           /\ R.T[bench.order[k]].stack = bench.T[bench.order[k]].stack
    BY <1>4 DEF After, SettingOps, Worked
  <1>13. \A n \in Range(bench.order) : R.T[n].stack = bench.T[n].stack
    BY <1>2, <1>12, RegisteredAre
  <1>14. \A n \in DOMAIN bench.T \ Range(bench.order) : R.T[n] = bench.T[n]
    BY <1>4 DEF After
  <1>15. CASE ~R.thrown
    <2>1. \A n \in bench'.fresh : Shown(bench'.T[n])
      BY <1>2, <1>4, <1>7, <1>9, <1>15, ShownAfter DEF TimingsTyped, SettingOps
    <2>2. Saved(bench')
      BY <1>2, <1>7, <1>9, <1>11, <1>13, <1>14, <1>15 DEF Saved
    <2> QED
      BY <1>7, <1>8, <1>9, <1>15, <2>1, <2>2 DEF TimingsKept
  <1>16. CASE R.thrown
    <2>1. \A k \in DOMAIN bench.order :
            /\ bench.order[k] \in Range(bench.order) /\ bench.order[k] \in DOMAIN bench.T
      BY <1>2, RegisteredAre
    <2>2. AnyLacking(bench)
      BY <1>9, <1>16
    <2>3. /\ \A n \in DOMAIN bench.T : bench.T[n].now = bench.before[n].now
          /\ \A n \in Range(bench.order) :
               bench.T[n].stack = Append(bench.before[n].stack, bench.before[n].now)
      BY <1>2, <2>2 DEF Saved
    <2>4. ASSUME NEW k \in DOMAIN bench.order
          PROVE  LET n == bench.order[k]
                 IN /\ Lacking(bench, k) => R.T[n].now = bench.before[n].now
                    /\ R.T[n].stack = Append(bench.before[n].stack, bench.before[n].now)
      BY <1>12, <2>1, <2>3
    <2>5. LeftOver(bench')
      <3>1. bench'.order = bench.order /\ bench'.T = R.T /\ bench'.before = bench.before
        BY <1>7, <1>9
      <3>2. ASSUME NEW k \in DOMAIN bench.order
            PROVE  LET n == bench.order[k]
                   IN /\ Lacking(bench', k) => R.T[n].now = bench.before[n].now
                      /\ R.T[n].stack = Append(bench.before[n].stack, bench.before[n].now)
        BY <1>11, <2>4
      <3> QED
        BY <3>1, <3>2, Zenon DEF LeftOver
    <2> QED
      BY <1>7, <1>8, <1>9, <1>16, <2>5 DEF TimingsKept
  <1> QED
    BY <1>15, <1>16

(* In the end it takes the times back. *)
LEMMA PrintReturnKeeps ==
  ASSUME TimingsKept(bench), PrintReturn
  PROVE  TimingsKept(bench')
  <1> DEFINE R == ForAll("pop", bench, 0)
  <1>1. bench.is = "timings" /\ bench.pc = "print" /\ ~bench.thrown
    BY DEF PrintReturn, On
  <1>2. TimingsTyped(bench) /\ (\A n \in bench.fresh : Shown(bench.T[n])) /\ Saved(bench)
    BY <1>1 DEF TimingsKept
  <1>3. \A n \in Range(bench.order) :
          /\ bench.T[n].stack = Append(bench.before[n].stack, bench.before[n].now)
          /\ bench.before[n].now \in Int /\ bench.before[n].stack \in Seq(Int)
    BY <1>2, RegisteredAre DEF Saved
  <1>4. \A n \in Range(bench.order) : bench.T[n].stack # <<>>
    BY <1>3
  <1>5. After("pop", bench, R)
    <2>1. \A k \in DOMAIN bench.order : bench.T[bench.order[k]].stack # <<>>
      BY <1>2, <1>4, RegisteredAre
    <2> QED
      BY <1>2, <2>1, ForAllWorks
  <1>6. bench' = [R EXCEPT !.pc = "printed"]
    BY DEF PrintReturn
  <1> HIDE DEF R
  <1>7. TimingsTyped(R) /\ TimingsFields \subseteq DOMAIN R
    BY <1>5 DEF After, TimingsTyped
  <1>8. /\ TimingsFields \subseteq DOMAIN bench'
        /\ bench'.is = R.is /\ bench'.pc = "printed" /\ bench'.T = R.T /\ bench'.order = R.order
        /\ bench'.thrown = R.thrown /\ bench'.t = R.t /\ bench'.tf = R.tf
        /\ bench'.fresh = R.fresh /\ bench'.before = R.before
    BY <1>6, <1>7 DEF TimingsFields
  <1>9. TimingsTyped(bench')
    BY <1>7, <1>8 DEF TimingsTyped
  <1>10. /\ R.order = bench.order /\ R.fresh = bench.fresh /\ R.is = "timings" /\ DOMAIN R.T = DOMAIN bench.T
         /\ R.before = bench.before
         /\ R.thrown <=> AnyLacking(bench)
    BY <1>1, <1>5 DEF After, SettingOps
  <1>11. \A n \in DOMAIN bench.T : R.T[n].timings = bench.T[n].timings
    BY <1>5 DEF After
  <1>12. \A k \in DOMAIN bench.order : Lacking(bench', k) <=> Lacking(bench, k)
    BY <1>2, <1>8, <1>10, <1>11, LackingStays
  <1>13. \A n \in DOMAIN bench.T \ Range(bench.order) : R.T[n] = bench.T[n]
    BY <1>5 DEF After
  <1>14. CASE ~R.thrown
    <2>1. (\A n \in Range(bench.order) : Shown(R.T[n])) /\ \A n \in bench.fresh : Shown(R.T[n])
      BY <1>2, <1>5, <1>14, ShownAfter DEF TimingsTyped, SettingOps
    <2>2. \A n \in Range(bench.order) : R.T[n].now = bench.before[n].now /\ R.T[n].stack = bench.before[n].stack
      <3> TAKE n \in Range(bench.order)
      <3>1. PICK k \in DOMAIN bench.order : n = bench.order[k]
        BY <1>2, RegisteredAre
      <3>2. ~AnyLacking(bench)
        BY <1>10, <1>14
      <3>3. \A j \in 1 .. k - 1 : j \in DOMAIN bench.order
        BY <1>2, RegisteredAre
      <3>4. ~Lacking(bench, k) /\ bench.T[n].timings # <<>>
        BY <3>1, <3>2, <3>3 DEF AnyLacking, Lacking
      <3>5. Worked("pop", bench.T[n], R.T[n])
        BY <1>5, <3>1, <3>4 DEF After
      <3>6. R.T[n].now = Last(bench.T[n].stack) /\ R.T[n].stack = Front(bench.T[n].stack)
        BY <3>4, <3>5 DEF Worked
      <3> DEFINE s == bench.before[n].stack
                 x == bench.before[n].now
      <3>7. s \in Seq(Int) /\ x \in Int /\ bench.T[n].stack = Append(s, x)
        BY <1>3
      <3> HIDE DEF s, x
      <3>8. Last(Append(s, x)) = x /\ Front(Append(s, x)) = s
        BY <3>7, AppendedIs
      <3>9. R.T[n].now = x /\ R.T[n].stack = s
        BY <3>6, <3>7, <3>8
      <3> QED
        BY <3>9 DEF s, x
    <2>3. \A n \in DOMAIN bench.T : R.T[n].now = bench.before[n].now /\ R.T[n].stack = bench.before[n].stack
      BY <1>2, <1>13, <2>2 DEF Saved
    <2>4. Restored(bench')
      BY <1>8, <1>10, <2>1, <2>3 DEF Restored
    <2> QED
      BY <1>8, <1>9, <1>10, <1>14, <2>1, <2>4 DEF TimingsKept
  <1>15. CASE R.thrown
    <2>1. \A k \in DOMAIN bench.order : Lacking(bench, k) => R.T[bench.order[k]] = bench.T[bench.order[k]]
      BY <1>5 DEF After, SettingOps
    <2>2. \A k \in DOMAIN bench.order : bench.order[k] \in DOMAIN bench.T
      BY <1>2, RegisteredAre
    <2>3. AnyLacking(bench)
      BY <1>10, <1>15
    <2>4. LeftOver(bench')
      BY <1>2, <1>8, <1>10, <1>12, <2>1, <2>2, <2>3 DEF LeftOver, Saved
    <2> QED
      BY <1>8, <1>9, <1>15, <2>4 DEF TimingsKept
  <1> QED
    BY <1>14, <1>15

(* Then all show what they did. *)
LEMMA PrintEndKeeps ==
  ASSUME TimingsKept(bench), PrintEnd
  PROVE  TimingsKept(bench')
  <1>1. bench.is = "timings" /\ bench.pc = "printed" /\ ~bench.thrown
    BY DEF PrintEnd, On
  <1>2. TimingsTyped(bench) /\ Restored(bench) /\ TimingsFields \subseteq DOMAIN bench
    BY <1>1 DEF TimingsKept, TimingsTyped
  <1>3. bench' = [bench EXCEPT !.pc = "idle", !.before = <<>>, !.t = 0, !.tf = 0,
                               !.fresh = Range(bench.order)]
    BY DEF PrintEnd
  <1>4. /\ TimingsFields \subseteq DOMAIN bench'
        /\ bench'.is = bench.is /\ bench'.pc = "idle" /\ bench'.T = bench.T /\ bench'.order = bench.order
        /\ bench'.thrown = bench.thrown /\ bench'.t = 0 /\ bench'.tf = 0
        /\ bench'.fresh = Range(bench.order)
    BY <1>2, <1>3 DEF TimingsFields
  <1>5. Range(bench.order) \subseteq DOMAIN bench.T
    BY <1>2, RegisteredAre
  <1>6. TimingsTyped(bench')
    BY <1>2, <1>4, <1>5 DEF TimingsTyped
  <1>7. \A n \in bench'.fresh : Shown(bench'.T[n])
    BY <1>2, <1>4 DEF Restored
  <1> QED
    BY <1>1, <1>4, <1>6, <1>7 DEF TimingsKept

(* Readings of the clock in microseconds. *)
Micro(c) == c[1] * Usecs + c[2]

(* Time goes on, and the difference of two readings, with a second borrowed *)
(* where it has to be, is the time that has passed.                        *)
LEMMA ReadingsDiffer ==
  ASSUME NEW c, IsReading(c), NEW u \in Nat
  PROVE  /\ IsReading(Later(c, u))
         /\ Micro(Subtime(c, Later(c, u))) = u
  <1> DEFINE m == c[1] * Usecs + c[2] + u
             q == m \div Usecs
             r == m % Usecs
  <1>1. Usecs \in Nat \ {0} /\ c[1] \in Int /\ c[2] \in 0 .. Usecs - 1
    BY ClocksAssumption DEF IsReading
  <1>2. m \in Int
    BY <1>1
  <1>3. Later(c, u) = <<q, r>>
    BY DEF Later
  <1> HIDE DEF m
  <1>4. q \in Int /\ r \in 0 .. Usecs - 1 /\ m = q * Usecs + r
    BY <1>1, <1>2
  <1> HIDE DEF q, r
  <1>5. IsReading(Later(c, u))
    BY <1>3, <1>4 DEF IsReading
  <1>6. m - (c[1] * Usecs + c[2]) = u
    BY <1>1 DEF m
  <1>7. Micro(Subtime(c, <<q, r>>)) = m - (c[1] * Usecs + c[2])
    <2>1. CASE r < c[2]
      <3>1. Subtime(c, <<q, r>>) = <<q - 1 - c[1], r + Usecs - c[2]>>
        BY <2>1 DEF Subtime
      <3>2. (q - 1 - c[1]) * Usecs + (r + Usecs - c[2]) = (q * Usecs + r) - (c[1] * Usecs + c[2])
        BY <1>1, <1>4
      <3> QED
        BY <1>4, <3>1, <3>2 DEF Micro
    <2>2. CASE ~(r < c[2])
      <3>1. Subtime(c, <<q, r>>) = <<q - c[1], r - c[2]>>
        BY <2>2 DEF Subtime
      <3>2. (q - c[1]) * Usecs + (r - c[2]) = (q * Usecs + r) - (c[1] * Usecs + c[2])
        BY <1>1, <1>4
      <3> QED
        BY <1>4, <3>1, <3>2 DEF Micro
    <2> QED
      BY <2>1, <2>2
  <1> QED
    BY <1>3, <1>5, <1>6, <1>7

(* A Timer as it is made. *)
LEMMA ZeroedKept ==
  ASSUME NEW f \in {"AVERAGED", "CUMMULATIVE", "SIMPLE"}, NEW c, IsReading(c)
  PROVE  /\ TimerKept([Zeroed(f) EXCEPT !.clock = c])
         /\ TimerKept(Zeroed(f))
  <1>1. SumTo(<<>>, 0) = 0
    BY SumToAdds
  <1>2. IsReading(<<0, Usecs - 1>>)
    BY ClocksAssumption DEF IsReading
  <1>3. ASSUME NEW d, IsReading(d),
               NEW b, b = [is |-> "timer", function |-> f, N_start |-> 0, N_stop |-> 0, tv |-> <<0, 0>>,
                           dt |-> <<0, 1>>, clock |-> d, log |-> <<>>]
        PROVE  TimerKept(b)
    <2>1. Measured(b)
      BY <1>1, <1>3 DEF Measured
    <2>2. b.log \in Seq(Nat) /\ Len(b.log) = 0
      BY <1>3
    <2> QED
      BY <1>3, <2>1, <2>2 DEF TimerKept, TimerFields
  <1>4. Zeroed(f) = [is |-> "timer", function |-> f, N_start |-> 0, N_stop |-> 0, tv |-> <<0, 0>>,
                     dt |-> <<0, 1>>, clock |-> <<0, Usecs - 1>>, log |-> <<>>]
    BY DEF Zeroed
  <1>5. [Zeroed(f) EXCEPT !.clock = c] =
          [is |-> "timer", function |-> f, N_start |-> 0, N_stop |-> 0, tv |-> <<0, 0>>,
           dt |-> <<0, 1>>, clock |-> c, log |-> <<>>]
    BY <1>4
  <1> QED
    BY <1>2, <1>3, <1>4, <1>5

(* It is started. *)
LEMMA StartKeeps ==
  ASSUME TimerKept(bench), Start
  PROVE  TimerKept(bench')
  <1>1. /\ bench.is = "timer" /\ bench.N_start = bench.N_stop
        /\ bench' = [bench EXCEPT !.N_start = bench.N_start + 1, !.tv = bench.clock]
    BY DEF Start, On
  <1>2. /\ TimerFields \subseteq DOMAIN bench
        /\ bench.function \in {"AVERAGED", "CUMMULATIVE", "SIMPLE"}
        /\ bench.N_stop \in Nat
        /\ bench.log \in Seq(Nat) /\ Len(bench.log) = bench.N_stop
        /\ IsReading(bench.clock) /\ Measured(bench)
    BY <1>1 DEF TimerKept
  <1>3. /\ TimerFields \subseteq DOMAIN bench'
        /\ bench'.function = bench.function /\ bench'.N_stop = bench.N_stop
        /\ bench'.N_start = bench.N_stop + 1 /\ bench'.tv = bench.clock /\ bench'.clock = bench.clock
        /\ bench'.log = bench.log /\ bench'.dt = bench.dt
    BY <1>1, <1>2 DEF TimerFields
  <1>4. Measured(bench')
    BY <1>2, <1>3 DEF Measured
  <1> QED
    BY <1>2, <1>3, <1>4 DEF TimerKept

(* The mean of one interval more. *)
LEMMA MeanOfMore ==
  ASSUME NEW p \in Int, NEW q \in Int, NEW n \in Nat, NEW s \in Int, NEW u \in Int, p * n = s * q
  PROVE  (p * n + u * q) * (n + 1) = (s + u) * (q * (n + 1))
  <1>1. p * n + u * q = (s + u) * q
    BY Z3
  <1> DEFINE a == p * n + u * q
             b == s + u
  <1>2. a = b * q /\ a \in Int /\ b \in Int
    BY <1>1
  <1> HIDE DEF a, b
  <1>3. a * (n + 1) = b * (q * (n + 1))
    BY <1>2
  <1> QED
    BY <1>3 DEF a, b

(* It is stopped: the interval is added to what it shows. *)
LEMMA StopKeeps ==
  ASSUME TimerKept(bench), Stop
  PROVE  TimerKept(bench')
  <1>1. bench.is = "timer" /\ bench.N_start = bench.N_stop + 1
    BY DEF Stop, On
  <1>2. /\ TimerFields \subseteq DOMAIN bench
        /\ bench.function \in {"AVERAGED", "CUMMULATIVE", "SIMPLE"}
        /\ bench.N_stop \in Nat
        /\ bench.log \in Seq(Nat) /\ Len(bench.log) = bench.N_stop
        /\ IsReading(bench.clock) /\ bench.tv = bench.clock /\ Measured(bench)
    BY <1>1 DEF TimerKept
  <1>3. PICK u \in Nat :
          bench' = [bench EXCEPT !.N_stop = bench.N_stop + 1, !.clock = Later(bench.clock, u),
                      !.log = Append(bench.log, u),
                      !.dt = Calculate(bench.function, bench.dt, Subtime(bench.tv, Later(bench.clock, u)),
                                       bench.N_start)]
    <2>1. 0 .. Usecs + 1 \subseteq Nat
      BY ClocksAssumption
    <2> QED
      BY <2>1 DEF Stop
  <1> DEFINE n == bench.N_stop
             d == bench.dt
             e == bench'.dt
             s == SumTo(bench.log, n)
  <1>4. /\ TimerFields \subseteq DOMAIN bench'
        /\ bench'.function = bench.function /\ bench'.N_start = n + 1 /\ bench'.N_stop = n + 1
        /\ bench'.clock = Later(bench.clock, u) /\ bench'.log = Append(bench.log, u)
        /\ e = Calculate(bench.function, d, Subtime(bench.clock, Later(bench.clock, u)), n + 1)
    BY <1>1, <1>2, <1>3 DEF TimerFields
  <1>5. IsReading(bench'.clock) /\ Micro(Subtime(bench.clock, Later(bench.clock, u))) = u
    BY <1>2, <1>4, ReadingsDiffer
  <1>6. /\ n \in Nat /\ d[1] \in Int /\ d[2] \in Int /\ u \in Int
        /\ bench.function = "CUMMULATIVE" => d[1] = s * d[2]
        /\ bench.function = "AVERAGED" => d[1] * n = s * d[2]
    BY <1>2 DEF Measured
  <1>7. /\ bench.function = "AVERAGED" => e = <<d[1] * n + u * d[2], d[2] * (n + 1)>>
        /\ bench.function = "CUMMULATIVE" => e = <<d[1] + u * d[2], d[2]>>
        /\ bench.function = "SIMPLE" => e = <<u, 1>>
    <2>1. (n + 1) - 1 = n
      BY <1>6
    <2> HIDE DEF n, d, e
    <2> QED
      BY <1>4, <1>5, <2>1 DEF Calculate, Micro
  <1>8. /\ bench'.log \in Seq(Nat) /\ Len(bench'.log) = n + 1 /\ bench'.log[n + 1] = u
        /\ \A k \in 1 .. n : bench'.log[k] = bench.log[k] /\ bench.log[k] \in Nat
    BY <1>2, <1>4
  <1>9. SumTo(bench'.log, n + 1) = s + u /\ s \in Nat
    <2>1. SumTo(bench'.log, n + 1) = SumTo(bench'.log, n) + bench'.log[n + 1]
      BY <1>6, SumToAdds
    <2>2. SumTo(bench'.log, n) = s
      <3> HIDE DEF n
      <3> QED
        BY <1>6, <1>8, SumToAdds, Zenon DEF s
    <2>3. \A k \in 0 .. n : SumTo(bench.log, k) \in Nat
      BY <1>6, <1>8, SumToType
    <2>4. n \in 0 .. n
      BY <1>6
    <2> QED
      BY <1>8, <2>1, <2>2, <2>3, <2>4
  <1> HIDE DEF n, d, e, s
  <1>10. CASE bench.function = "SIMPLE"
    <2>1. Measured(bench')
      BY <1>4, <1>7, <1>8, <1>10 DEF Measured, e
    <2> QED
      BY <1>4, <1>5, <1>6, <1>8, <1>10, <2>1 DEF TimerKept
  <1>11. CASE bench.function = "CUMMULATIVE"
    <2>1. e[1] = (s + u) * d[2] /\ e[2] = d[2]
      BY <1>6, <1>7, <1>9, <1>11
    <2>2. (s + u) * d[2] \in Int
      BY <1>6, <1>9
    <2>3. Measured(bench')
      BY <1>4, <1>6, <1>9, <1>11, <2>1, <2>2 DEF Measured, e
    <2> QED
      BY <1>4, <1>5, <1>6, <1>8, <1>11, <2>3 DEF TimerKept
  <1>12. CASE bench.function = "AVERAGED"
    <2>1. e[1] = d[1] * n + u * d[2] /\ e[2] = d[2] * (n + 1)
      BY <1>7, <1>12
    <2>2. (d[1] * n + u * d[2]) * (n + 1) = (s + u) * (d[2] * (n + 1))
      BY <1>6, <1>9, <1>12, MeanOfMore
    <2>3. e[1] \in Int /\ e[2] \in Int /\ e[1] * (n + 1) = (s + u) * e[2]
      <3>1. e[1] \in Int /\ e[2] \in Int
        BY <1>6, <2>1
      <3>2. e[1] * (n + 1) = (s + u) * e[2]
        BY <2>1, <2>2, Zenon
      <3> QED
        BY <3>1, <3>2
    <2>4. Measured(bench')
      BY <1>4, <1>9, <1>12, <2>3 DEF Measured, e
    <2> QED
      BY <1>4, <1>5, <1>6, <1>8, <1>12, <2>4 DEF TimerKept
  <1> QED
    BY <1>2, <1>10, <1>11, <1>12

(* Starting over. *)
LEMMA ZeroKeeps ==
  ASSUME TimerKept(bench), Zero
  PROVE  TimerKept(bench')
  <1>1. bench.is = "timer" /\ bench' = [Zeroed(bench.function) EXCEPT !.clock = <<bench.clock[1] % 2, bench.clock[2]>>]
    BY DEF Zero, On
  <1>2. bench.function \in {"AVERAGED", "CUMMULATIVE", "SIMPLE"} /\ IsReading(bench.clock)
    BY <1>1 DEF TimerKept
  <1>3. bench.clock[1] % 2 \in Int /\ bench.clock[2] \in 0 .. Usecs - 1
    BY <1>2 DEF IsReading
  <1>4. IsReading(<<bench.clock[1] % 2, bench.clock[2]>>)
    BY <1>3 DEF IsReading
  <1> QED
    BY <1>1, <1>2, <1>4, ZeroedKept

(* The Timings that the run puts on the bench are Timings. *)
LEMMA ExamplesAreTimings == NewTimings => AnyTimings
  <1> SUFFICES ASSUME NewTimings
               PROVE  AnyTimings
    OBVIOUS
  <1>1. PICK ea \in Schedules, eb \in Schedules, order \in {<<"a", "b">>, <<"b", "a">>, <<"b">>, <<>>} :
          PutOn([is |-> "timings", pc |-> "idle", T |-> [n \in Names |-> NewTiming(IF n = "a" THEN ea ELSE eb)],
                 order |-> order, thrown |-> FALSE, fresh |-> {}, before |-> <<>>, t |-> 0, tf |-> 0])
    BY Zenon DEF NewTimings
  <1> DEFINE T == [n \in Names |-> IF n = "a" THEN ea ELSE eb]
  <1>2. T \in [Names -> Seq(PowerLaws)]
    <2>1. ea \in Seq(PowerLaws) /\ eb \in Seq(PowerLaws)
      BY ClocksAssumption, Zenon
    <2> DEFINE e(n) == IF n = "a" THEN ea ELSE eb
    <2>2. \A n \in Names : e(n) \in Seq(PowerLaws)
      BY <2>1, Zenon
    <2>3. T = [n \in Names |-> e(n)]
      OBVIOUS
    <2> HIDE DEF e, T
    <2> QED
      BY <2>2, <2>3
  <1>3. order \in Seq(Names) /\ \A j, k \in DOMAIN order : order[j] = order[k] => j = k
    <2> HIDE DEF T
    <2>1. "a" \in Names /\ "b" \in Names /\ "a" # "b"
      BY DEF Names
    <2>2. CASE order = <<"a", "b">>
      BY <2>1, <2>2
    <2>3. CASE order = <<"b", "a">>
      BY <2>1, <2>3
    <2>4. CASE order = <<"b">>
      BY <2>1, <2>4
    <2>5. CASE order = <<>>
      BY <2>5
    <2> QED
      BY <2>2, <2>3, <2>4, <2>5
  <1>4. [n \in Names |-> NewTiming(IF n = "a" THEN ea ELSE eb)] = [n \in Names |-> NewTiming(T[n])]
    OBVIOUS
  <1>5. Free
    BY DEF NewTimings
  <1>6. PutOn([is |-> "timings", pc |-> "idle", T |-> [n \in Names |-> NewTiming(T[n])],
               order |-> order, thrown |-> FALSE, fresh |-> {}, before |-> <<>>, t |-> 0, tf |-> 0])
    BY <1>1, <1>4
  <1> HIDE DEF T
  <1> QED
    BY <1>2, <1>3, <1>5, <1>6, Zenon DEF AnyTimings

(* Timings as they are made. *)
LEMMA AnyTimingsKept ==
  ASSUME AnyTimings
  PROVE  TimingsKept(bench') /\ TimerKept(bench')
  <1>0. PICK names : \E T \in [names -> Seq(PowerLaws)] : \E order \in Seq(names) :
          /\ \A j, k \in DOMAIN order : order[j] = order[k] => j = k
          /\ bench' = [is |-> "timings", pc |-> "idle", T |-> [n \in names |-> NewTiming(T[n])],
                       order |-> order, thrown |-> FALSE, fresh |-> {}, before |-> <<>>, t |-> 0, tf |-> 0]
    BY Zenon DEF AnyTimings, PutOn
  <1>1. PICK T \in [names -> Seq(PowerLaws)], order \in Seq(names) :
          /\ \A j, k \in DOMAIN order : order[j] = order[k] => j = k
          /\ bench' = [is |-> "timings", pc |-> "idle", T |-> [n \in names |-> NewTiming(T[n])],
                       order |-> order, thrown |-> FALSE, fresh |-> {}, before |-> <<>>, t |-> 0, tf |-> 0]
    BY <1>0
  <1> DEFINE S == [n \in names |-> NewTiming(T[n])]
  <1>2. \A n \in names : TimingTyped(S[n])
    <2> TAKE n \in names
    <2> DEFINE e == T[n]
    <2>1. e \in Seq(PowerLaws)
      OBVIOUS
    <2>2. S[n] = NewTiming(e)
      OBVIOUS
    <2> HIDE DEF e, S
    <2>3. <<>> \in Seq(Int) /\ 0 \in Int
      OBVIOUS
    <2>4. S[n] = [timings |-> e, val |-> <<0, 1>>, now |-> 0, stack |-> <<>>]
      BY <2>2 DEF NewTiming
    <2> QED
      BY <2>1, <2>3, <2>4 DEF TimingTyped
  <1>3. DOMAIN S = names
    OBVIOUS
  <1> HIDE DEF S
  <1>4. bench' = [is |-> "timings", pc |-> "idle", T |-> S, order |-> order, thrown |-> FALSE,
                  fresh |-> {}, before |-> <<>>, t |-> 0, tf |-> 0]
    BY <1>1 DEF S
  <1>5. TimingsTyped(bench')
    BY <1>1, <1>2, <1>3, <1>4 DEF TimingsTyped, TimingsFields
  <1> QED
    BY <1>4, <1>5 DEF TimingsKept, TimerKept

(* Every step keeps both invariants. *)
LEMMA ClocksStep ==
  ASSUME TimingsKept(bench), TimerKept(bench),
         [AnyTimings \/ ClocksNext \/ Elsewhere({"timings", "timer"})]_bench
  PROVE  TimingsKept(bench') /\ TimerKept(bench')
  <1>1. CASE AnyTimings \/ NewTimings
    BY <1>1, AnyTimingsKept, ExamplesAreTimings
  <1>2. ASSUME NEW op \in {"set", "incr", "push", "pushnow", "pop"}, SetAll(op)
        PROVE  TimingsKept(bench') /\ TimerKept(bench')
    <2>1. TimingsKept(bench')
      BY <1>2, SetAllKeeps
    <2>2. bench.is = "timings" /\ TimingsTyped(bench)
      BY <1>2 DEF SetAll, On, TimingsKept
    <2>3. bench'.is = "timings"
      <3>1. PICK t \in Int :
              bench' = [ForAll(op, bench, t) EXCEPT
                          !.fresh = IF op \in {"push", "pushnow"} THEN @ ELSE Range(ForAll(op, bench, t).order),
                          !.before = IF ForAll(op, bench, t).thrown THEN bench.T ELSE <<>>]
        <4>1. \A t \in (IF op = "incr" THEN {1} ELSE IF op \in {"pushnow", "pop"} THEN {0} ELSE TimeRange) :
                t \in Int
          BY ClocksAssumption
        <4> QED
          BY <1>2, <4>1 DEF SetAll
      <3> DEFINE R == ForAll(op, bench, t)
      <3>2. Applied(op, bench, t, R)
        BY <2>2, ForAllIs
      <3> HIDE DEF R
      <3>3. "is" \in DOMAIN bench \ {"T", "thrown"}
        BY <2>2 DEF TimingsTyped, TimingsFields
      <3>4. R.is = "timings" /\ "is" \in DOMAIN R
        BY <2>2, <3>2, <3>3 DEF Applied
      <3> QED
        BY <3>1, <3>4 DEF R
    <2> QED
      BY <2>1, <2>3 DEF TimerKept
  <1>3. ASSUME PrintCall \/ PrintRow \/ PrintReturn \/ PrintEnd
        PROVE  TimingsKept(bench') /\ TimerKept(bench')
    <2>1. TimingsKept(bench')
      BY <1>3, PrintCallKeeps, PrintRowKeeps, PrintReturnKeeps, PrintEndKeeps
    <2>2. bench.is = "timings" /\ TimingsTyped(bench)
      BY <1>3 DEF PrintCall, PrintRow, PrintReturn, PrintEnd, On, TimingsKept
    <2>3. "is" \in DOMAIN bench \ {"T", "thrown"}
      BY <2>2 DEF TimingsTyped, TimingsFields
    <2>4. \A op, t : ForAll(op, bench, t).is = "timings" /\ "is" \in DOMAIN ForAll(op, bench, t)
      <3> TAKE op, t
      <3> DEFINE R == ForAll(op, bench, t)
      <3>1. Applied(op, bench, t, R)
        BY <2>2, ForAllIs
      <3> HIDE DEF R
      <3>2. R.is = "timings" /\ "is" \in DOMAIN R
        BY <2>2, <2>3, <3>1 DEF Applied
      <3> QED
        BY <3>2 DEF R
    <2>5. bench'.is = "timings"
      <3>1. CASE PrintCall
        BY <2>4, <3>1 DEF PrintCall
      <3>2. CASE PrintRow
        BY <2>4, <3>2 DEF PrintRow
      <3>3. CASE PrintReturn
        BY <2>4, <3>3 DEF PrintReturn
      <3>4. CASE PrintEnd
        BY <2>2, <2>3, <3>4 DEF PrintEnd
      <3> QED
        BY <1>3, <3>1, <3>2, <3>3, <3>4
    <2> QED
      BY <2>1, <2>5 DEF TimerKept
  <1>4. CASE NewTimer
    <2>1. PICK f \in {"AVERAGED", "CUMMULATIVE", "SIMPLE"} : bench' = Zeroed(f)
      BY <1>4 DEF NewTimer, PutOn
    <2>2. IsReading(<<0, Usecs - 1>>)
      BY ClocksAssumption DEF IsReading
    <2>3. TimerKept(bench')
      BY <2>1, <2>2, ZeroedKept
    <2>4. bench'.is = "timer"
      BY <2>1 DEF Zeroed
    <2> QED
      BY <2>3, <2>4 DEF TimingsKept
  <1>5. ASSUME Start \/ Stop \/ Zero
        PROVE  TimingsKept(bench') /\ TimerKept(bench')
    <2>1. TimerKept(bench')
      BY <1>5, StartKeeps, StopKeeps, ZeroKeeps
    <2>2. bench.is = "timer" /\ "is" \in DOMAIN bench
      BY <1>5 DEF Start, Stop, Zero, On, TimerKept, TimerFields
    <2>3. bench'.is = "timer"
      <3>1. CASE Start
        BY <2>2, <3>1 DEF Start
      <3>2. CASE Stop
        <4>1. \E now, dt, log : bench' = [bench EXCEPT !.N_stop = bench.N_stop + 1, !.clock = now, !.log = log, !.dt = dt]
          BY <3>2, Zenon DEF Stop
        <4> QED
          BY <2>2, <4>1
      <3>3. CASE Zero
        BY <3>3 DEF Zero, Zeroed
      <3> QED
        BY <1>5, <3>1, <3>2, <3>3
    <2> QED
      BY <2>1, <2>3 DEF TimingsKept
  <1>6. CASE TakeOff("timings") \/ TakeOff("timer")
    BY <1>6 DEF TakeOff, NothingThere, TimingsKept, TimerKept
  <1>7. CASE Elsewhere({"timings", "timer"})
    BY <1>7 DEF Elsewhere, TimingsKept, TimerKept
  <1>8. CASE bench' = bench
    BY <1>8
  <1> QED
    BY <1>1, <1>2, <1>3, <1>4, <1>5, <1>6, <1>7, <1>8 DEF ClocksNext

(* The invariants hold of any Timings and Timers. *)
THEOREM ClocksInvariant == ClocksSpec => [](TimingsKept(bench) /\ TimerKept(bench))
  <1>1. bench = NothingThere => TimingsKept(bench) /\ TimerKept(bench)
    BY DEF NothingThere, TimingsKept, TimerKept
  <1>2. /\ TimingsKept(bench) /\ TimerKept(bench)
        /\ [AnyTimings \/ ClocksNext \/ Elsewhere({"timings", "timer"})]_bench
        => (TimingsKept(bench) /\ TimerKept(bench))'
    BY ClocksStep
  <1> QED
    BY <1>1, <1>2, PTL DEF ClocksSpec

(* Timings show the value of their time, prints give it back, exceptions    *)
(* leave what they have to, and Timers add up, for any Timings and times.   *)
THEOREM TimesCorrect == ClocksSpec => []TimesKept
  <1>1. TimingsKept(bench) /\ TimerKept(bench) => TimesKept
    <2> SUFFICES ASSUME TimingsKept(bench), TimerKept(bench)
                 PROVE  TimesKept
      OBVIOUS
    <2>1. ASSUME On("timings"), ~bench.thrown, NEW n \in bench.fresh
          PROVE  LET T == bench.T[n]
                     p == Proper(T.timings, T.now)
                 IN T.timings # <<>> /\ T.val[1] * p[2] = p[1] * T.val[2]
      <3> DEFINE T == bench.T[n]
      <3>1. TimingTyped(T) /\ Shown(T)
        BY <2>1 DEF TimingsKept, TimingsTyped, On
      <3> HIDE DEF T
      <3>2. /\ T.timings \in Seq(PowerLaws) /\ T.now \in Int /\ T.timings # <<>>
            /\ T.val = ValueAt(T.timings, T.now)
        BY <3>1 DEF TimingTyped, Shown
      <3>3. LET p == Proper(T.timings, T.now)
                v == ValueAt(T.timings, T.now)
            IN v[1] * p[2] = p[1] * v[2]
        BY <3>2, ValueIsProper
      <3> QED
        BY <3>2, <3>3 DEF T
    <2>2. ASSUME On("timings"), bench.pc = "printed", ~bench.thrown
          PROVE  \A n \in DOMAIN bench.T :
                   bench.T[n].now = bench.before[n].now /\ bench.T[n].stack = bench.before[n].stack
      <3>1. Restored(bench)
        BY <2>2, Zenon DEF TimingsKept, On
      <3> QED
        BY <3>1, Zenon DEF Restored
    <2>3. ASSUME On("timings"), bench.thrown
          PROVE  \A k \in DOMAIN bench.order :
                   LET n == bench.order[k]
                   IN /\ (\E j \in 1 .. k - 1 : bench.T[bench.order[j]].timings = <<>>) =>
                           bench.T[n].now = bench.before[n].now
                      /\ bench.pc = "print" =>
                           bench.T[n].stack = Append(bench.before[n].stack, bench.before[n].now)
      BY <2>3, Zenon DEF TimingsKept, LeftOver, Lacking, On
    <2>4. ASSUME On("timer"), bench.N_stop > 0, bench.N_start = bench.N_stop
          PROVE  LET n == Len(bench.log)
                     sum == SumTo(bench.log, n)
                 IN CASE bench.function = "SIMPLE" -> bench.dt = <<bench.log[n], 1>>
                      [] bench.function = "CUMMULATIVE" -> bench.dt[1] = sum * bench.dt[2]
                      [] bench.function = "AVERAGED" -> bench.dt[1] * n = sum * bench.dt[2]
      <3>1. /\ bench.function \in {"AVERAGED", "CUMMULATIVE", "SIMPLE"}
            /\ Len(bench.log) = bench.N_stop /\ Measured(bench)
        BY <2>4 DEF TimerKept, On
      <3> QED
        BY <2>4, <3>1 DEF Measured
    <2> QED
      BY <2>1, <2>2, <2>3, <2>4, Zenon DEF TimesKept
  <1> QED
    BY <1>1, ClocksInvariant, PTL

-----------------------------------------------------------------------------
(* XML documents *)

(* The places of a key in pairs, and the first of them. *)
KeyAt(pairs, key, k) == {i \in 1 .. k : pairs[i][1] = key}
FirstPairs(pairs, k) ==
  [key \in {pairs[i][1] : i \in 1 .. k} |-> pairs[Min(KeyAt(pairs, key, k))][2]]

(* A map that pairs are inserted into, as the equation that defines it. *)
Inserts(pairs, g) ==
  g = [k \in 0 .. Len(pairs) |-> IF k = 0 THEN <<>> ELSE Insertion(g[k - 1], pairs[k])]

(* Inserting the next pair. *)
LEMMA InsertionIs ==
  ASSUME NEW pairs, NEW k \in Nat \ {0}
  PROVE  FirstPairs(pairs, k) = Insertion(FirstPairs(pairs, k - 1), pairs[k])
  <1> DEFINE F == FirstPairs(pairs, k - 1)
             G == FirstPairs(pairs, k)
             new == pairs[k][1]
  <1>1. DOMAIN F = {pairs[i][1] : i \in 1 .. k - 1} /\ DOMAIN G = {pairs[i][1] : i \in 1 .. k}
    BY DEF FirstPairs
  <1>2. DOMAIN G = DOMAIN F \cup {new}
    <2>1. 1 .. k = (1 .. k - 1) \cup {k}
      OBVIOUS
    <2> QED
      BY <1>1, <2>1
  <1>3. ASSUME NEW key \in DOMAIN F
        PROVE  G[key] = F[key]
    <2> DEFINE old == KeyAt(pairs, key, k - 1)
    <2>1. old # {} /\ old \subseteq Nat
      BY <1>1 DEF KeyAt
    <2>2. PICK m \in old : \A j \in old : m <= j
      BY <2>1, LeastOf
    <2>3. m \in 1 .. k - 1 /\ pairs[m][1] = key
      BY <2>2 DEF KeyAt
    <2>4. Min(old) = m
      BY <2>1, <2>2, LeastIs
    <2>5. Min(KeyAt(pairs, key, k)) = m
      <3>1. KeyAt(pairs, key, k) \subseteq Int /\ m \in KeyAt(pairs, key, k)
        BY <2>3 DEF KeyAt
      <3>2. \A j \in KeyAt(pairs, key, k) : m <= j
        BY <2>2, <2>3 DEF KeyAt
      <3> QED
        BY <3>1, <3>2, LeastIs
    <2> HIDE DEF old
    <2>6. key \in {pairs[i][1] : i \in 1 .. k} /\ key \in {pairs[i][1] : i \in 1 .. k - 1}
      BY <1>1, <1>2
    <2>7. G[key] = pairs[m][2]
      BY <2>5, <2>6 DEF FirstPairs
    <2>8. F[key] = pairs[m][2]
      BY <2>4, <2>6 DEF FirstPairs, old
    <2> QED
      BY <2>7, <2>8
  <1>4. ASSUME new \notin DOMAIN F
        PROVE  G[new] = pairs[k][2]
    <2>1. KeyAt(pairs, new, k) = {k}
      BY <1>1, <1>4 DEF KeyAt
    <2>2. Min({k}) = k
      BY LeastIs
    <2>3. new \in {pairs[i][1] : i \in 1 .. k}
      OBVIOUS
    <2> QED
      BY <2>1, <2>2, <2>3 DEF FirstPairs
  <1>5. G = [key \in DOMAIN G |-> G[key]] /\ F = [key \in DOMAIN F |-> F[key]]
    BY DEF FirstPairs
  <1> HIDE DEF F, G
  <1>6. CASE new \in DOMAIN F
    <2>1. DOMAIN G = DOMAIN F
      BY <1>2, <1>6
    <2>2. G = F
      BY <1>3, <1>5, <2>1
    <2> QED
      BY <1>6, <2>2 DEF Insertion, F, G
  <1>7. CASE new \notin DOMAIN F
    <2>1. Insertion(F, pairs[k]) =
            [key \in DOMAIN F \cup {new} |-> IF key = new THEN pairs[k][2] ELSE F[key]]
      BY <1>7 DEF Insertion
    <2>2. \A key \in DOMAIN G : G[key] = IF key = new THEN pairs[k][2] ELSE F[key]
      BY <1>2, <1>3, <1>4, <1>7
    <2>3. G = [key \in DOMAIN F \cup {new} |-> IF key = new THEN pairs[k][2] ELSE F[key]]
      BY <1>2, <1>5, <2>2
    <2> QED
      BY <2>1, <2>3 DEF F, G
  <1> QED
    BY <1>6, <1>7

(* A map keeps the first value of each key. *)
LEMMA MapOfIs ==
  ASSUME NEW pairs, Len(pairs) \in Nat
  PROVE  MapOf(pairs) = FirstPairs(pairs, Len(pairs))
  <1> DEFINE n == Len(pairs)
             m == CHOOSE g : g = [k \in 0 .. n |-> IF k = 0 THEN <<>> ELSE Insertion(g[k - 1], pairs[k])]
             g == [k \in 0 .. n |-> FirstPairs(pairs, k)]
             T == {k \in 0 .. n : m[k] # g[k]}
  <1>1. MapOf(pairs) = m[n]
    BY DEF MapOf
  <1>2. FirstPairs(pairs, 0) = <<>>
    BY DEF FirstPairs
  <1>3. Inserts(pairs, g)
    <2>1. ASSUME NEW k \in 0 .. n
          PROVE  g[k] = IF k = 0 THEN <<>> ELSE Insertion(g[k - 1], pairs[k])
      <3>1. CASE k = 0
        BY <1>2, <3>1
      <3>2. CASE k # 0
        <4>1. k \in Nat \ {0} /\ k - 1 \in 0 .. n
          BY <3>2
        <4>2. FirstPairs(pairs, k) = Insertion(FirstPairs(pairs, k - 1), pairs[k])
          BY <4>1, InsertionIs
        <4> QED
          BY <3>2, <4>1, <4>2
      <3> QED
        BY <3>1, <3>2
    <2>2. g = [k \in 0 .. n |-> g[k]]
      OBVIOUS
    <2> HIDE DEF g
    <2> QED
      BY <2>1, <2>2 DEF Inserts
  <1>4. Inserts(pairs, m)
    <2> HIDE DEF g
    <2> QED
      BY <1>3 DEF Inserts
  <1> HIDE DEF m
  <1>5. SUFFICES ASSUME T # {}
                 PROVE  FALSE
    BY <1>1
  <1>6. T \subseteq 0 .. n /\ n \in Nat
    OBVIOUS
  <1>7. PICK k \in T : k - 1 \notin T
    <2> HIDE DEF T, n
    <2> QED
      BY <1>5, <1>6, FirstFailure
  <1>8. k \in 0 .. n /\ m[k] # g[k]
    OBVIOUS
  <1> HIDE DEF g
  <1>9. /\ m[k] = IF k = 0 THEN <<>> ELSE Insertion(m[k - 1], pairs[k])
        /\ g[k] = IF k = 0 THEN <<>> ELSE Insertion(g[k - 1], pairs[k])
    BY <1>3, <1>4, <1>8 DEF Inserts
  <1>10. k # 0 => k - 1 \in 0 .. n
    BY <1>8
  <1> QED
    BY <1>7, <1>8, <1>9, <1>10

(* So a key is in a map if it is in a pair, with the value of the first such pair. *)
LEMMA MapHolds ==
  ASSUME NEW pairs, Len(pairs) \in Nat, NEW key
  PROVE  /\ key \in DOMAIN MapOf(pairs) <=> KeyAt(pairs, key, Len(pairs)) # {}
         /\ KeyAt(pairs, key, Len(pairs)) # {} =>
              MapOf(pairs)[key] = pairs[Min(KeyAt(pairs, key, Len(pairs)))][2]
  <1> DEFINE n == Len(pairs)
  <1>1. MapOf(pairs) = FirstPairs(pairs, n)
    BY MapOfIs
  <1>2. DOMAIN FirstPairs(pairs, n) = {pairs[i][1] : i \in 1 .. n}
    BY DEF FirstPairs
  <1>3. KeyAt(pairs, key, n) # {} <=> key \in {pairs[i][1] : i \in 1 .. n}
    BY DEF KeyAt
  <1>4. key \in {pairs[i][1] : i \in 1 .. n} =>
          FirstPairs(pairs, n)[key] = pairs[Min(KeyAt(pairs, key, n))][2]
    BY DEF FirstPairs
  <1> QED
    BY <1>1, <1>2, <1>3, <1>4

(* Sequences of at most one element, and how calls end. *)
LEMMA SequenceIs ==
  ASSUME NEW S, NEW s \in Seq(S)
  PROVE  /\ Len(s) \in Nat /\ DOMAIN s = 1 .. Len(s)
         /\ s = <<>> <=> Len(s) = 0
         /\ Len(s) = 1 => s = <<s[1]>> /\ s[1] \in S /\ s # <<>> /\ ~(Len(s) > 1)
         /\ Len(s) # 1 => s = <<>> \/ Len(s) > 1
  <1>1. Len(s) \in Nat /\ DOMAIN s = 1 .. Len(s) /\ s \in [1 .. Len(s) -> S]
    BY LenProperties
  <1>2. s # <<>> => Len(s) # 0
    BY EmptySeq
  <1>3. s = <<>> => Len(s) = 0
    BY EmptySeq
  <1>4. ASSUME Len(s) = 1
        PROVE  s = <<s[1]>> /\ s[1] \in S
    <2>1. s[1] \in S
      BY <1>1, <1>4
    <2>2. s = [i \in 1 .. 1 |-> s[1]]
      BY <1>1, <1>4
    <2> QED
      BY <2>1, <2>2
  <1> QED
    BY <1>1, <1>2, <1>3, <1>4

(* A call that ends with a value. *)
LEMMA OkIs == \A v : Ok(v).end = "ok" /\ Ok(v).value = v /\ Ok(v).end \notin Nonsingle /\ Ok(v).lost = {}
  BY DEF Ok, Nonsingle

(* A call that throws. *)
LEMMA ThrownIs == \A e : Thrown(e).end = e /\ Thrown(e).lost = {}
  BY DEF Thrown

(* A call that loses more ends as it would. *)
LEMMA LosingIs ==
  ASSUME NEW o, NEW more
  PROVE  /\ Losing(o, more).end = o.end /\ Losing(o, more).value = o.value
         /\ Losing(o, more).lost = o.lost \cup more
  BY DEF Losing

(* What eval and find make of an expression. *)
LEMMA FindIs ==
  ASSUME NEW node, IsNode(node), NEW q, q # "malformed", q # "text", q # "count"
  PROVE  LET found == Found(node, q)
         IN /\ found \in Seq(Children(node, q))
            /\ Eval(node, q).end = "ok" /\ Eval(node, q).value = found
            /\ Len(found) = 1 => /\ q \in DOMAIN node /\ found = node[q] /\ node[q] = <<node[q][1]>>
                                 /\ node[q][1] \in Children(node, q)
                                 /\ Find(node, q) = Ok(node[q][1])
            /\ Len(found) # 1 => Find(node, q).end \in Nonsingle
  <1> DEFINE found == Found(node, q)
             S == Children(node, q)
  <1>1. Eval(node, q).end = "ok" /\ Eval(node, q).value = found
    <2>1. (Eval(node, q) = Losing(Ok(<<>>), {q}) /\ found = <<>>) \/ Eval(node, q) = Ok(found)
      BY DEF Eval, NoSetFor, Numbers
    <2> HIDE DEF found
    <2> QED
      BY <2>1, OkIs, LosingIs
  <1>2. found = IF q \in DOMAIN node THEN node[q] ELSE <<>>
    BY DEF Found
  <1>3. q \in DOMAIN node => node[q] \in Seq(S)
    BY Zenon DEF IsNode
  <1> HIDE DEF found, S
  <1>4. found \in Seq(S)
    <2>1. <<>> \in Seq(S)
      BY EmptySeq
    <2> QED
      BY <1>2, <1>3, <2>1
  <1>5. /\ Len(found) \in Nat /\ (found = <<>> <=> Len(found) = 0)
        /\ Len(found) = 1 => found = <<found[1]>> /\ found[1] \in S /\ found # <<>> /\ ~(Len(found) > 1)
        /\ Len(found) # 1 => found = <<>> \/ Len(found) > 1
    BY <1>4, SequenceIs
  <1>6. Len(found) = 1 => q \in DOMAIN node /\ found = node[q]
    BY <1>2, <1>5
  <1>8. Find(node, q) = IF found = <<>> THEN Losing(Thrown("no_results"), Eval(node, q).lost)
                        ELSE IF Len(found) > 1 THEN Thrown("too_many_results") ELSE Ok(found[1])
    BY <1>1 DEF Find, TheOne
  <1>9. Len(found) = 1 => Find(node, q) = Ok(found[1])
    BY <1>5, <1>8
  <1>10. ASSUME Len(found) # 1
         PROVE  Find(node, q).end \in Nonsingle
    <2>1. Thrown("no_results").end \in Nonsingle /\ Thrown("too_many_results").end \in Nonsingle
      BY ThrownIs DEF Nonsingle
    <2>2. CASE found = <<>>
      BY <1>8, <2>1, <2>2, LosingIs
    <2>3. CASE found # <<>>
      <3>1. Len(found) > 1
        BY <1>5, <1>10, <2>3
      <3> QED
        BY <1>8, <2>1, <2>3, <3>1
    <2> QED
      BY <2>2, <2>3
  <1>11. ASSUME Len(found) = 1
         PROVE  /\ q \in DOMAIN node /\ found = node[q] /\ node[q] = <<node[q][1]>>
                /\ node[q][1] \in S /\ Find(node, q) = Ok(node[q][1])
    <2>1. q \in DOMAIN node /\ found = node[q]
      BY <1>6, <1>11
    <2>2. found = <<found[1]>> /\ found[1] \in S
      BY <1>5, <1>11
    <2> QED
      BY <1>9, <1>11, <2>1, <2>2
  <1> QED
    BY <1>1, <1>4, <1>10, <1>11, Zenon DEF found, S

(* Parts in order: all of their values, or the outcome of one that threw. *)
LEMMA InOrderIs ==
  ASSUME NEW outcomes, DOMAIN outcomes \subseteq Nat
  PROVE  LET read == InOrder(outcomes)
             good == \A i \in DOMAIN outcomes : outcomes[i].end = "ok"
         IN /\ read.end = "ok" <=> good
            /\ read.end = "ok" => read.value = [i \in DOMAIN outcomes |-> outcomes[i].value]
            /\ read.end # "ok" => \E i \in DOMAIN outcomes : read.end = outcomes[i].end
  <1> DEFINE thrown == {i \in DOMAIN outcomes : outcomes[i].end # "ok"}
             whole == IF thrown = {} THEN Ok([i \in DOMAIN outcomes |-> outcomes[i].value])
                      ELSE outcomes[Min(thrown)]
  <1>1. InOrder(outcomes).end = whole.end /\ InOrder(outcomes).value = whole.value
    BY DEF InOrder
  <1>2. CASE thrown = {}
    BY <1>1, <1>2 DEF Ok
  <1>3. CASE thrown # {}
    <2>1. PICK m \in thrown : \A k \in thrown : m <= k
      BY <1>3, LeastOf
    <2>2. thrown \subseteq Int
      OBVIOUS
    <2>3. m \in DOMAIN outcomes /\ outcomes[m].end # "ok"
      BY <2>1
    <2> HIDE DEF thrown
    <2>4. Min(thrown) = m
      BY <2>1, <2>2, LeastIs
    <2> QED
      BY <1>1, <1>3, <2>3, <2>4
  <1> QED
    BY <1>2, <1>3

(* A string that is asked for. *)
LEMMA StringIs ==
  ASSUME NEW x, IsNode(x), NEW q, q # "malformed", q # "text", q # "count"
  PROVE  LET answer == QueryOne(x, q, ParseString)
         IN /\ answer.end = "ok" => q \in DOMAIN x /\ Len(Found(x, q)) = 1 /\ x[q] = <<answer.value>>
            /\ answer.end # "ok" => Len(Found(x, q)) # 1 /\ answer.end \in Nonsingle
  <1> DEFINE y == Find(x, q)
             v == x[q][1]
             answer == QueryOne(x, q, ParseString)
  <1>1. answer = IF y.end = "ok" THEN Declared(ParseString(y.value)) ELSE y
    BY DEF QueryOne, ItemIn
  <1>2. /\ Len(Found(x, q)) = 1 => q \in DOMAIN x /\ x[q] = <<v>> /\ y = Ok(v)
        /\ Len(Found(x, q)) # 1 => y.end \in Nonsingle
    BY FindIs
  <1> HIDE DEF y, v, answer
  <1>3. Declared(ParseString(v)) = Ok(v)
    BY OkIs DEF Declared, ParseString
  <1>4. Len(Found(x, q)) = 1 => answer = Ok(v)
    BY <1>1, <1>2, <1>3, OkIs
  <1>5. Len(Found(x, q)) # 1 => answer = y /\ y.end # "ok"
    BY <1>1, <1>2 DEF Nonsingle
  <1> QED
    BY <1>2, <1>4, <1>5, OkIs DEF answer

(* A number that is asked for. *)
LEMMA NumberIs ==
  ASSUME NEW x, IsNode(x), NEW q, q # "malformed", q # "text", q # "count",
         QueryOne(x, q, ParseNumber).end = "ok"
  PROVE  q \in DOMAIN x /\ Len(Found(x, q)) = 1 /\ x[q] = <<QueryOne(x, q, ParseNumber).value>>
  <1> DEFINE y == Find(x, q)
             v == x[q][1]
             answer == QueryOne(x, q, ParseNumber)
  <1>1. answer = IF y.end = "ok" THEN Declared(ParseNumber(y.value)) ELSE y
    BY DEF QueryOne, ItemIn
  <1>2. /\ Len(Found(x, q)) = 1 => q \in DOMAIN x /\ x[q] = <<v>> /\ y = Ok(v)
        /\ Len(Found(x, q)) # 1 => y.end \in Nonsingle
    BY FindIs
  <1>3. answer.end = "ok"
    OBVIOUS
  <1> HIDE DEF y, v, answer
  <1>4. Len(Found(x, q)) = 1
    BY <1>1, <1>2, <1>3 DEF Nonsingle
  <1>5. answer = Declared(ParseNumber(v))
    BY <1>1, <1>2, <1>4, OkIs
  <1>6. v # Garbage
    <2>1. v = Garbage => ParseNumber(v) = Thrown("error")
      BY DEF ParseNumber
    <2>2. Declared(Thrown("error")) = Thrown("terminate")
      BY ThrownIs DEF Declared
    <2>3. Thrown("terminate").end # "ok"
      BY ThrownIs
    <2> QED
      BY <1>3, <1>5, <2>1, <2>2, <2>3
  <1>7. ParseNumber(v) = Ok(v)
    BY <1>6 DEF ParseNumber
  <1>8. answer = Ok(v)
    BY <1>5, <1>7, OkIs DEF Declared
  <1> QED
    BY <1>2, <1>4, <1>8, OkIs DEF answer

(* A bound is there or not. *)
LEMMA BoundIs ==
  ASSUME NEW x, NEW q
  PROVE  Bound(x, q).end \notin Nonsingle
  <1> DEFINE y == Find(x, q)
             item == IF y.end = "ok" THEN ParseNumber(y.value) ELSE y
  <1>1. Bound(x, q) = IF item.end \in Nonsingle THEN Losing(Ok(Dne), item.lost) ELSE item
    BY DEF Bound, QueryElse, ItemIn, OrElse
  <1> HIDE DEF item
  <1> QED
    BY <1>1, OkIs, LosingIs

(* Two to five parts in order. *)
LEMMA TwoInOrder ==
  ASSUME NEW a, NEW b
  PROVE  LET read == InOrder(<<a, b>>)
         IN /\ read.end = "ok" <=> a.end = "ok" /\ b.end = "ok"
            /\ read.end = "ok" => read.value[1] = a.value /\ read.value[2] = b.value
            /\ read.end # "ok" => read.end \in {a.end, b.end}
  <1> DEFINE parts == <<a, b>>
             read == InOrder(parts)
  <1>1. /\ DOMAIN parts = 1 .. 2 /\ DOMAIN parts \subseteq Nat
        /\ parts[1] = a /\ parts[2] = b
    OBVIOUS
  <1> HIDE DEF parts
  <1>2. /\ read.end = "ok" <=> \A i \in DOMAIN parts : parts[i].end = "ok"
        /\ read.end = "ok" => read.value = [i \in DOMAIN parts |-> parts[i].value]
        /\ read.end # "ok" => \E i \in DOMAIN parts : read.end = parts[i].end
    BY <1>1, InOrderIs
  <1> HIDE DEF read
  <1>3. DOMAIN parts = {1, 2}
    BY <1>1
  <1>4. read.end = "ok" => read.value[1] = a.value /\ read.value[2] = b.value
    BY <1>1, <1>2, <1>3
  <1> QED
    BY <1>1, <1>2, <1>3, <1>4 DEF read, parts

(* Three parts. *)
LEMMA ThreeInOrder ==
  ASSUME NEW a, NEW b, NEW c
  PROVE  LET read == InOrder(<<a, b, c>>)
         IN /\ read.end = "ok" <=> a.end = "ok" /\ b.end = "ok" /\ c.end = "ok"
            /\ read.end = "ok" => read.value[1] = a.value /\ read.value[2] = b.value /\ read.value[3] = c.value
            /\ read.end # "ok" => read.end \in {a.end, b.end, c.end}
  <1> DEFINE parts == <<a, b, c>>
             read == InOrder(parts)
  <1>1. /\ DOMAIN parts = 1 .. 3 /\ DOMAIN parts \subseteq Nat
        /\ parts[1] = a /\ parts[2] = b /\ parts[3] = c
    OBVIOUS
  <1> HIDE DEF parts
  <1>2. /\ read.end = "ok" <=> \A i \in DOMAIN parts : parts[i].end = "ok"
        /\ read.end = "ok" => read.value = [i \in DOMAIN parts |-> parts[i].value]
        /\ read.end # "ok" => \E i \in DOMAIN parts : read.end = parts[i].end
    BY <1>1, InOrderIs
  <1> HIDE DEF read
  <1>3. DOMAIN parts = {1, 2, 3}
    BY <1>1
  <1>4. read.end = "ok" => read.value[1] = a.value /\ read.value[2] = b.value /\ read.value[3] = c.value
    BY <1>1, <1>2, <1>3
  <1> QED
    BY <1>1, <1>2, <1>3, <1>4 DEF read, parts

(* Four parts. *)
LEMMA FourInOrder ==
  ASSUME NEW a, NEW b, NEW c, NEW d
  PROVE  LET read == InOrder(<<a, b, c, d>>)
         IN /\ read.end = "ok" <=> a.end = "ok" /\ b.end = "ok" /\ c.end = "ok" /\ d.end = "ok"
            /\ read.end = "ok" => read.value[1] = a.value /\ read.value[2] = b.value /\ read.value[3] = c.value /\ read.value[4] = d.value
            /\ read.end # "ok" => read.end \in {a.end, b.end, c.end, d.end}
  <1> DEFINE parts == <<a, b, c, d>>
             read == InOrder(parts)
  <1>1. /\ DOMAIN parts = 1 .. 4 /\ DOMAIN parts \subseteq Nat
        /\ parts[1] = a /\ parts[2] = b /\ parts[3] = c /\ parts[4] = d
    OBVIOUS
  <1> HIDE DEF parts
  <1>2. /\ read.end = "ok" <=> \A i \in DOMAIN parts : parts[i].end = "ok"
        /\ read.end = "ok" => read.value = [i \in DOMAIN parts |-> parts[i].value]
        /\ read.end # "ok" => \E i \in DOMAIN parts : read.end = parts[i].end
    BY <1>1, InOrderIs
  <1> HIDE DEF read
  <1>3. DOMAIN parts = {1, 2, 3, 4}
    BY <1>1
  <1>4. read.end = "ok" => read.value[1] = a.value /\ read.value[2] = b.value /\ read.value[3] = c.value /\ read.value[4] = d.value
    BY <1>1, <1>2, <1>3
  <1> QED
    BY <1>1, <1>2, <1>3, <1>4 DEF read, parts

(* Five parts. *)
LEMMA FiveInOrder ==
  ASSUME NEW a, NEW b, NEW c, NEW d, NEW e
  PROVE  LET read == InOrder(<<a, b, c, d, e>>)
         IN /\ read.end = "ok" <=> a.end = "ok" /\ b.end = "ok" /\ c.end = "ok" /\ d.end = "ok" /\ e.end = "ok"
            /\ read.end = "ok" => read.value[1] = a.value /\ read.value[2] = b.value /\ read.value[3] = c.value /\ read.value[4] = d.value /\ read.value[5] = e.value
            /\ read.end # "ok" => read.end \in {a.end, b.end, c.end, d.end, e.end}
  <1> DEFINE parts == <<a, b, c, d, e>>
             read == InOrder(parts)
  <1>1. /\ DOMAIN parts = 1 .. 5 /\ DOMAIN parts \subseteq Nat
        /\ parts[1] = a /\ parts[2] = b /\ parts[3] = c /\ parts[4] = d /\ parts[5] = e
    OBVIOUS
  <1> HIDE DEF parts
  <1>2. /\ read.end = "ok" <=> \A i \in DOMAIN parts : parts[i].end = "ok"
        /\ read.end = "ok" => read.value = [i \in DOMAIN parts |-> parts[i].value]
        /\ read.end # "ok" => \E i \in DOMAIN parts : read.end = parts[i].end
    BY <1>1, InOrderIs
  <1> HIDE DEF read
  <1>3. DOMAIN parts = {1, 2, 3, 4, 5}
    BY <1>1
  <1>4. read.end = "ok" => read.value[1] = a.value /\ read.value[2] = b.value /\ read.value[3] = c.value /\ read.value[4] = d.value /\ read.value[5] = e.value
    BY <1>1, <1>2, <1>3
  <1> QED
    BY <1>1, <1>2, <1>3, <1>4 DEF read, parts

(* A factor that is read names a parameter; one that is not single does not. *)
LEMMA FactorIs ==
  ASSUME NEW x, IsNode(x)
  PROVE  LET read == ParseFactor(x)
         IN /\ read.end = "ok" => Named(x) /\ x.param = <<read.value[1]>> /\ read.value[2] = x.text
            /\ read.end \in Nonsingle => ~Named(x)
  <1> DEFINE read == ParseFactor(x)
             name == QueryOne(x, "param", ParseString)
             number == ParseNumber(x.text)
  <1>1. read = InOrder(<<name, number>>)
    BY DEF ParseFactor
  <1>2. /\ name.end = "ok" => "param" \in DOMAIN x /\ Len(Found(x, "param")) = 1 /\ x["param"] = <<name.value>>
        /\ name.end # "ok" => Len(Found(x, "param")) # 1
    BY StringIs
  <1>3. name.end = "ok" => Named(x) /\ x.param = <<name.value>>
    BY <1>2 DEF Named, Found
  <1>4. name.end # "ok" => ~Named(x)
    BY <1>2 DEF Named, Found
  <1>5. /\ number.end = "ok" => number.value = x.text
        /\ number.end \in {"ok", "error"}
    BY OkIs, ThrownIs DEF ParseNumber
  <1> HIDE DEF read, name, number
  <1>6. /\ read.end = "ok" <=> name.end = "ok" /\ number.end = "ok"
        /\ read.end = "ok" => read.value[1] = name.value /\ read.value[2] = number.value
        /\ read.end # "ok" => read.end \in {name.end, number.end}
    BY <1>1, TwoInOrder
  <1>7. read.end \in Nonsingle => name.end # "ok"
    BY <1>5, <1>6 DEF Nonsingle
  <1> QED
    BY <1>3, <1>4, <1>5, <1>6, <1>7 DEF read

(* A parameter that is read has a name and an initial value. *)
LEMMA ParameterIs ==
  ASSUME NEW x, IsNode(x), ParseParameter(x).end = "ok"
  PROVE  LET v == ParseParameter(x).value
         IN x.name = <<v[1]>> /\ x.Initial = <<v[3]>>
  <1> DEFINE read == ParseParameter(x)
             a == QueryOne(x, "name", ParseString)
             b == Bound(x, "Lower")
             c == QueryOne(x, "Initial", ParseNumber)
             d == Bound(x, "Upper")
             e == QueryElse(x, "Scaling", 1, ParseNumber)
  <1>1. read = InOrder(<<a, b, c, d, e>>) /\ read.end = "ok"
    BY DEF ParseParameter
  <1>2. a.end = "ok" => x["name"] = <<a.value>>
    BY StringIs
  <1>3. c.end = "ok" => x["Initial"] = <<c.value>>
    BY NumberIs
  <1> HIDE DEF read, a, b, c, d, e
  <1>4. a.end = "ok" /\ c.end = "ok" /\ read.value[1] = a.value /\ read.value[3] = c.value
    BY <1>1, FiveInOrder
  <1> QED
    BY <1>2, <1>3, <1>4 DEF read

(* The factors of an equation. *)
LEMMA EquationIs ==
  ASSUME NEW x, IsNode(x), \A f \in Children(x, "Multiply") : IsNode(f)
  PROVE  LET read == ParseEquation(x)
             fs == Found(x, "Multiply")
         IN /\ read.end = "ok" =>
                 /\ read.value[3] = [m \in DOMAIN fs |-> read.value[3][m]]
                 /\ \A m \in DOMAIN fs : /\ Named(fs[m]) /\ fs[m].param = <<read.value[3][m][1]>>
                                         /\ read.value[3][m][2] = fs[m].text
            /\ read.end \in Nonsingle => \E m \in DOMAIN fs : ~Named(fs[m])
  <1> DEFINE read == ParseEquation(x)
             fs == Found(x, "Multiply")
             a == Bound(x, "Lower")
             b == Bound(x, "Upper")
             each == [m \in DOMAIN fs |-> ParseFactor(fs[m])]
             c == Losing(InOrder(each), Eval(x, "Multiply").lost)
  <1>1. fs \in Seq(Children(x, "Multiply")) /\ Eval(x, "Multiply").value = fs
    BY FindIs
  <1>2. c = ParseEach(x, "Multiply", ParseFactor)
    <2> HIDE DEF fs
    <2> QED
      BY <1>1 DEF ParseEach, Each
  <1>3. read = InOrder(<<a, b, c>>)
    BY <1>2 DEF ParseEquation
  <1>4. a.end \notin Nonsingle /\ b.end \notin Nonsingle
    BY BoundIs
  <1>5. \A m \in DOMAIN fs : IsNode(fs[m])
    BY DEF Children
  <1>6. DOMAIN fs \subseteq Nat
    <2> HIDE DEF fs
    <2> QED
      BY <1>1, SequenceIs
  <1> HIDE DEF fs
  <1>7. DOMAIN each = DOMAIN fs /\ \A m \in DOMAIN fs : each[m] = ParseFactor(fs[m])
    OBVIOUS
  <1> HIDE DEF each
  <1>8. /\ c.end = "ok" <=> \A m \in DOMAIN fs : each[m].end = "ok"
        /\ c.end = "ok" => c.value = [m \in DOMAIN fs |-> each[m].value]
        /\ c.end # "ok" => \E m \in DOMAIN fs : c.end = each[m].end
    BY <1>6, <1>7, InOrderIs, LosingIs
  <1> HIDE DEF read, a, b, c
  <1>9. /\ read.end = "ok" <=> a.end = "ok" /\ b.end = "ok" /\ c.end = "ok"
        /\ read.end = "ok" => read.value[3] = c.value
        /\ read.end # "ok" => read.end \in {a.end, b.end, c.end}
    BY <1>3, ThreeInOrder
  <1>10. ASSUME read.end = "ok"
         PROVE  /\ read.value[3] = [m \in DOMAIN fs |-> read.value[3][m]]
                /\ \A m \in DOMAIN fs : /\ Named(fs[m]) /\ fs[m].param = <<read.value[3][m][1]>>
                                        /\ read.value[3][m][2] = fs[m].text
    <2>1. read.value[3] = [m \in DOMAIN fs |-> each[m].value] /\ \A m \in DOMAIN fs : each[m].end = "ok"
      BY <1>8, <1>9, <1>10
    <2>2. ASSUME NEW m \in DOMAIN fs
          PROVE  /\ Named(fs[m]) /\ fs[m].param = <<read.value[3][m][1]>>
                 /\ read.value[3][m][2] = fs[m].text
      <3>1. read.value[3][m] = each[m].value /\ each[m].end = "ok"
        BY <2>1
      <3> QED
        BY <1>5, <1>7, <3>1, FactorIs
    <2> QED
      BY <2>1, <2>2
  <1>11. ASSUME read.end \in Nonsingle
         PROVE  \E m \in DOMAIN fs : ~Named(fs[m])
    <2>1. read.end # "ok" /\ read.end = c.end /\ c.end # "ok"
      BY <1>4, <1>9, <1>11 DEF Nonsingle
    <2>2. PICK m \in DOMAIN fs : c.end = each[m].end
      BY <1>8, <2>1
    <2>3. ParseFactor(fs[m]).end \in Nonsingle
      BY <1>7, <1>11, <2>1, <2>2
    <2> QED
      BY <1>5, <2>3, FactorIs
  <1> QED
    BY <1>10, <1>11 DEF read, fs

(* The equations of a file's constraints. *)
LEMMA ConstraintsAre ==
  ASSUME NEW x, IsNode(x),
         \A eq \in Children(x, "Eq") : IsNode(eq) /\ \A f \in Children(eq, "Multiply") : IsNode(f)
  PROVE  LET read == ParseConstraints(x)
             eqs == Found(x, "Eq")
             factors(k) == Found(eqs[k], "Multiply")
         IN /\ eqs \in Seq(Children(x, "Eq"))
            /\ read.end = "ok" =>
                 /\ DOMAIN read.value = DOMAIN eqs
                 /\ \A k \in DOMAIN eqs :
                      /\ read.value[k][3] = [m \in DOMAIN factors(k) |-> read.value[k][3][m]]
                      /\ \A m \in DOMAIN factors(k) :
                           /\ Named(factors(k)[m]) /\ factors(k)[m].param = <<read.value[k][3][m][1]>>
                           /\ read.value[k][3][m][2] = factors(k)[m].text
            /\ read.end \in Nonsingle => \E k \in DOMAIN eqs : \E m \in DOMAIN factors(k) : ~Named(factors(k)[m])
  <1> DEFINE read == ParseConstraints(x)
             eqs == Found(x, "Eq")
             factors(k) == Found(eqs[k], "Multiply")
             each == [k \in DOMAIN eqs |-> ParseEquation(eqs[k])]
  <1>1. eqs \in Seq(Children(x, "Eq")) /\ Eval(x, "Eq").value = eqs
    BY FindIs
  <1>2. read = Losing(InOrder(each), Eval(x, "Eq").lost)
    <2> HIDE DEF eqs
    <2> QED
      BY <1>1 DEF ParseEach, Each, ParseConstraints
  <1>3. \A k \in DOMAIN eqs : IsNode(eqs[k]) /\ \A f \in Children(eqs[k], "Multiply") : IsNode(f)
    <2>1. \A k \in DOMAIN eqs : eqs[k] \in Children(x, "Eq")
      BY DEF Children
    <2> HIDE DEF eqs
    <2> QED
      BY <2>1
  <1>4. DOMAIN eqs \subseteq Nat
    <2> HIDE DEF eqs
    <2> QED
      BY <1>1, SequenceIs
  <1> HIDE DEF eqs, factors
  <1>5. DOMAIN each = DOMAIN eqs /\ \A k \in DOMAIN eqs : each[k] = ParseEquation(eqs[k])
    OBVIOUS
  <1> HIDE DEF each
  <1>6. /\ read.end = "ok" <=> \A k \in DOMAIN eqs : each[k].end = "ok"
        /\ read.end = "ok" => read.value = [k \in DOMAIN eqs |-> each[k].value]
        /\ read.end # "ok" => \E k \in DOMAIN eqs : read.end = each[k].end
    BY <1>2, <1>4, <1>5, InOrderIs, LosingIs
  <1> HIDE DEF read
  <1>7. ASSUME read.end = "ok"
        PROVE  /\ DOMAIN read.value = DOMAIN eqs
               /\ \A k \in DOMAIN eqs :
                    /\ read.value[k][3] = [m \in DOMAIN factors(k) |-> read.value[k][3][m]]
                    /\ \A m \in DOMAIN factors(k) :
                         /\ Named(factors(k)[m]) /\ factors(k)[m].param = <<read.value[k][3][m][1]>>
                         /\ read.value[k][3][m][2] = factors(k)[m].text
    <2>1. read.value = [k \in DOMAIN eqs |-> each[k].value] /\ \A k \in DOMAIN eqs : each[k].end = "ok"
      BY <1>6, <1>7
    <2>2. ASSUME NEW k \in DOMAIN eqs
          PROVE  /\ read.value[k][3] = [m \in DOMAIN factors(k) |-> read.value[k][3][m]]
                 /\ \A m \in DOMAIN factors(k) :
                      /\ Named(factors(k)[m]) /\ factors(k)[m].param = <<read.value[k][3][m][1]>>
                      /\ read.value[k][3][m][2] = factors(k)[m].text
      <3>1. read.value[k] = ParseEquation(eqs[k]).value /\ ParseEquation(eqs[k]).end = "ok"
        BY <1>5, <2>1
      <3> QED
        BY <1>3, <3>1, EquationIs DEF factors
    <2> QED
      BY <2>1, <2>2
  <1>8. ASSUME read.end \in Nonsingle
        PROVE  \E k \in DOMAIN eqs : \E m \in DOMAIN factors(k) : ~Named(factors(k)[m])
    <2>1. read.end # "ok"
      BY <1>8 DEF Nonsingle
    <2>2. PICK k \in DOMAIN eqs : read.end = each[k].end
      BY <1>6, <2>1
    <2>3. ParseEquation(eqs[k]).end \in Nonsingle
      BY <1>5, <1>8, <2>2
    <2>4. \E m \in DOMAIN factors(k) : ~Named(factors(k)[m])
      BY <1>3, <2>3, EquationIs DEF factors
    <2> QED
      BY <2>4
  <1> QED
    BY <1>1, <1>7, <1>8 DEF read, eqs, factors

(* The parameters of a file. *)
LEMMA ParametersAre ==
  ASSUME NEW x, IsNode(x), \A p \in Children(x, "Param") : IsNode(p), ParseParameters(x).end = "ok"
  PROVE  LET read == ParseParameters(x).value
             params == Found(x, "Param")
         IN /\ params \in Seq(Children(x, "Param")) /\ read = [i \in DOMAIN params |-> read[i]]
            /\ \A i \in DOMAIN params : params[i].name = <<read[i][1]>> /\ params[i].Initial = <<read[i][3]>>
  <1> DEFINE read == ParseParameters(x)
             params == Found(x, "Param")
             each == [i \in DOMAIN params |-> ParseParameter(params[i])]
  <1>1. params \in Seq(Children(x, "Param")) /\ Eval(x, "Param").value = params
    BY FindIs
  <1>2. read = Losing(InOrder(each), Eval(x, "Param").lost) /\ read.end = "ok"
    <2> HIDE DEF params
    <2> QED
      BY <1>1 DEF ParseEach, Each, ParseParameters
  <1>3. \A i \in DOMAIN params : IsNode(params[i])
    <2>1. \A i \in DOMAIN params : params[i] \in Children(x, "Param")
      BY DEF Children
    <2> HIDE DEF params
    <2> QED
      BY <2>1
  <1>4. DOMAIN params \subseteq Nat
    <2> HIDE DEF params
    <2> QED
      BY <1>1, SequenceIs
  <1> HIDE DEF params
  <1>5. DOMAIN each = DOMAIN params /\ \A i \in DOMAIN params : each[i] = ParseParameter(params[i])
    OBVIOUS
  <1> HIDE DEF each, read
  <1>6. read.value = [i \in DOMAIN params |-> each[i].value] /\ \A i \in DOMAIN params : each[i].end = "ok"
    BY <1>2, <1>4, <1>5, InOrderIs, LosingIs
  <1>7. ASSUME NEW i \in DOMAIN params
        PROVE  params[i].name = <<read.value[i][1]>> /\ params[i].Initial = <<read.value[i][3]>>
    <2>1. read.value[i] = ParseParameter(params[i]).value /\ ParseParameter(params[i]).end = "ok"
      BY <1>5, <1>6
    <2> QED
      BY <1>3, <2>1, ParameterIs
  <1>8. read.value = [i \in DOMAIN params |-> read.value[i]]
    BY <1>6
  <1> QED
    BY <1>1, <1>7, <1>8 DEF read, params

(* What the constructor of Input reads. *)
LEMMA ReadInputIs ==
  ASSUME NEW root \in Inputs, ReadInput(root).end = "ok"
  PROVE  LET read == ReadInput(root).value
             params == Found(root.Parameters[1], "Param")
             eqs == Constraints(root)
             factors(k) == Found(eqs[k], "Multiply")
             named == \A k \in DOMAIN eqs : \A m \in DOMAIN factors(k) : Named(factors(k)[m])
         IN /\ Len(params) \in Nat /\ DOMAIN params = 1 .. Len(params) /\ (params = <<>> <=> Len(params) = 0)
            /\ read[2] = [i \in DOMAIN params |-> read[2][i]]
            /\ \A i \in DOMAIN params : params[i].name = <<read[2][i][1]>> /\ params[i].Initial = <<read[2][i][3]>>
            /\ \E n \in Nat : DOMAIN eqs = 1 .. n /\ Len(eqs) = n /\ (eqs = <<>> <=> n = 0)
            /\ \A k \in DOMAIN eqs : \E n \in Nat : DOMAIN factors(k) = 1 .. n
            /\ ~named => read[3] = <<>>
            /\ named => /\ DOMAIN read[3] = DOMAIN eqs
                        /\ \A k \in DOMAIN eqs :
                             /\ read[3][k][3] = [m \in DOMAIN factors(k) |-> read[3][k][3][m]]
                             /\ \A m \in DOMAIN factors(k) : /\ factors(k)[m].param = <<read[3][k][3][m][1]>>
                                                             /\ read[3][k][3][m][2] = factors(k)[m].text
  <1> DEFINE read == ReadInput(root)
             x == root.Parameters[1]
             y == root.Constraints[1]
             params == Found(x, "Param")
             eqs == Constraints(root)
             factors(k) == Found(eqs[k], "Multiply")
             named == \A k \in DOMAIN eqs : \A m \in DOMAIN factors(k) : Named(factors(k)[m])
             a == QueryOne(root, "Minimize", ParseString)
             b == QueryOne(root, "Parameters", ParseParameters)
             c == QueryElse(root, "Constraints", <<>>, ParseConstraints)
             d == QueryElse(root, "InitialStep", 0, ParseNumber)
  <1>1. /\ IsNode(root)
        /\ \A p \in Children(root, "Parameters") : IsNode(p) /\ \A q \in Children(p, "Param") : IsNode(q)
        /\ \A p \in Children(root, "Constraints") :
             IsNode(p) /\ \A eq \in Children(p, "Eq") : IsNode(eq) /\ \A f \in Children(eq, "Multiply") : IsNode(f)
    BY DocumentsAssumption
  <1>2. b.end = "ok" /\ c.end = "ok" /\ read.value[2] = b.value /\ read.value[3] = c.value
    <2>1. read = InOrder(<<a, b, c, d>>) /\ read.end = "ok"
      BY DEF ReadInput
    <2> HIDE DEF read, a, b, c, d
    <2> QED
      BY <2>1, FourInOrder
  <1>3. /\ Len(params) \in Nat /\ DOMAIN params = 1 .. Len(params) /\ (params = <<>> <=> Len(params) = 0)
        /\ b.value = [i \in DOMAIN params |-> b.value[i]]
        /\ \A i \in DOMAIN params : params[i].name = <<b.value[i][1]>> /\ params[i].Initial = <<b.value[i][3]>>
    <2> DEFINE f == Find(root, "Parameters")
    <2>1. b = IF f.end = "ok" THEN Declared(ParseParameters(f.value)) ELSE f
      BY DEF QueryOne, ItemIn
    <2>2. /\ Len(Found(root, "Parameters")) = 1 =>
               root["Parameters"][1] \in Children(root, "Parameters") /\ f = Ok(root["Parameters"][1])
          /\ Len(Found(root, "Parameters")) # 1 => f.end \in Nonsingle
      BY <1>1, FindIs
    <2> DEFINE p == ParseParameters(x)
    <2> HIDE DEF f, b, x
    <2>3. Len(Found(root, "Parameters")) = 1
      BY <1>2, <2>1, <2>2 DEF Nonsingle
    <2>4. x \in Children(root, "Parameters") /\ f = Ok(x)
      BY <2>2, <2>3 DEF x
    <2>5. b = Declared(p)
      BY <2>1, <2>4, OkIs
    <2> HIDE DEF p
    <2>6. p.end = "ok" /\ b = p
      BY <1>2, <2>5, ThrownIs DEF Declared
    <2>7. /\ params \in Seq(Children(x, "Param")) /\ b.value = [i \in DOMAIN params |-> b.value[i]]
          /\ \A i \in DOMAIN params : params[i].name = <<b.value[i][1]>> /\ params[i].Initial = <<b.value[i][3]>>
      BY <1>1, <2>4, <2>6, ParametersAre DEF p
    <2> HIDE DEF params
    <2> QED
      BY <2>7, SequenceIs
  <1>4. /\ \E n \in Nat : DOMAIN eqs = 1 .. n /\ Len(eqs) = n /\ (eqs = <<>> <=> n = 0)
        /\ \A k \in DOMAIN eqs : \E n \in Nat : DOMAIN factors(k) = 1 .. n
        /\ ~named => c.value = <<>>
        /\ named => /\ DOMAIN c.value = DOMAIN eqs
                    /\ \A k \in DOMAIN eqs :
                         /\ c.value[k][3] = [m \in DOMAIN factors(k) |-> c.value[k][3][m]]
                         /\ \A m \in DOMAIN factors(k) : /\ factors(k)[m].param = <<c.value[k][3][m][1]>>
                                                         /\ c.value[k][3][m][2] = factors(k)[m].text
    <2> DEFINE f == Find(root, "Constraints")
               item == IF f.end = "ok" THEN ParseConstraints(f.value) ELSE f
    <2>1. c = IF item.end \in Nonsingle THEN Losing(Ok(<<>>), item.lost) ELSE item
      BY DEF QueryElse, ItemIn, OrElse
    <2>2. /\ Len(Found(root, "Constraints")) = 1 =>
               root["Constraints"][1] \in Children(root, "Constraints") /\ f = Ok(root["Constraints"][1])
          /\ Len(Found(root, "Constraints")) # 1 => f.end \in Nonsingle
      BY <1>1, FindIs
    <2> DEFINE p == ParseConstraints(y)
    <2>3. CASE Len(Found(root, "Constraints")) = 1
      <3> HIDE DEF f, c, y
      <3>1. y \in Children(root, "Constraints") /\ f = Ok(y)
        BY <2>2, <2>3 DEF y
      <3>2. item = p
        BY <3>1, OkIs
      <3>3. eqs = Found(y, "Eq")
        BY <2>3 DEF Constraints, y
      <3> HIDE DEF item, p
      <3>4. IsNode(y) /\ \A eq \in Children(y, "Eq") : IsNode(eq) /\ \A g \in Children(eq, "Multiply") : IsNode(g)
        BY <1>1, <3>1
      <3> HIDE DEF eqs
      <3>5. /\ eqs \in Seq(Children(y, "Eq"))
            /\ p.end = "ok" =>
                 /\ DOMAIN p.value = DOMAIN eqs
                 /\ \A k \in DOMAIN eqs :
                      /\ p.value[k][3] = [m \in DOMAIN factors(k) |-> p.value[k][3][m]]
                      /\ \A m \in DOMAIN factors(k) :
                           /\ Named(factors(k)[m]) /\ factors(k)[m].param = <<p.value[k][3][m][1]>>
                           /\ p.value[k][3][m][2] = factors(k)[m].text
            /\ p.end \in Nonsingle => ~named
        BY <3>3, <3>4, ConstraintsAre DEF p
      <3>6. Len(eqs) \in Nat /\ DOMAIN eqs = 1 .. Len(eqs) /\ (eqs = <<>> <=> Len(eqs) = 0)
        BY <3>5, SequenceIs
      <3>7. \A k \in DOMAIN eqs : \E n \in Nat : DOMAIN factors(k) = 1 .. n
        <4> TAKE k \in DOMAIN eqs
        <4>1. IsNode(eqs[k])
          <5>1. eqs[k] \in Children(y, "Eq")
            BY <3>3 DEF Children
          <5> QED
            BY <3>4, <5>1
        <4>2. factors(k) \in Seq(Children(eqs[k], "Multiply"))
          BY <4>1, FindIs
        <4> HIDE DEF factors
        <4> QED
          BY <4>2, SequenceIs
      <3>8. CASE p.end \in Nonsingle
        <4>1. ~named /\ c.value = <<>>
          BY <2>1, <3>2, <3>5, <3>8, OkIs, LosingIs
        <4> QED
          BY <3>6, <3>7, <4>1
      <3>9. CASE p.end \notin Nonsingle
        <4>1. c = p /\ p.end = "ok"
          BY <1>2, <2>1, <3>2, <3>9
        <4>2. named
          BY <3>5, <4>1
        <4> HIDE DEF named, factors
        <4> QED
          BY <3>5, <3>6, <3>7, <4>1, <4>2
      <3> QED
        BY <3>8, <3>9
    <2>4. CASE Len(Found(root, "Constraints")) # 1
      <3> HIDE DEF f, c
      <3>1. item.end \in Nonsingle
        BY <2>2, <2>4 DEF Nonsingle
      <3>2. c.value = <<>>
        BY <2>1, <3>1, OkIs, LosingIs
      <3>3. eqs = <<>>
        BY <2>4 DEF Constraints
      <3> HIDE DEF eqs
      <3>4. DOMAIN eqs = {} /\ DOMAIN eqs = 1 .. 0 /\ Len(eqs) = 0 /\ DOMAIN <<>> = {}
        BY <3>3
      <3> QED
        BY <3>2, <3>3, <3>4
    <2> QED
      BY <2>3, <2>4
  <1> HIDE DEF read, b, c, x, eqs, factors, params
  <1> QED
    BY <1>2, <1>3, <1>4 DEF read, x, eqs, factors, params

(* The length of a sequence that is given place by place. *)
LEMMA LengthIs ==
  ASSUME NEW s, NEW n \in Nat, s = [k \in 1 .. n |-> s[k]]
  PROVE  Len(s) = n
  <1> DEFINE S == {s[k] : k \in 1 .. n}
  <1>1. s \in Seq(S)
    <2>1. s \in [1 .. n -> S]
      OBVIOUS
    <2> HIDE DEF S
    <2> QED
      BY <2>1
  <1> HIDE DEF S
  <1>2. Len(s) \in Nat /\ 1 .. Len(s) = 1 .. n
    BY <1>1, LenProperties
  <1> QED
    BY <1>2

(* An input that is read, is read as it is. *)
LEMMA InputsReadRight == \A root \in Inputs : InputRead(root)
  <1> SUFFICES ASSUME NEW root \in Inputs, ReadInput(root).end = "ok"
               PROVE  InputRead(root)
    BY DEF InputRead
  <1> DEFINE read == ReadInput(root)
             v == read.value
             packed == PackConstraints(v, FALSE).value
             params == Found(root.Parameters[1], "Param")
             eqs == Constraints(root)
             factors(k) == Found(eqs[k], "Multiply")
             named == \A k \in DOMAIN eqs : \A m \in DOMAIN factors(k) : Named(factors(k)[m])
             own(k, i) == {m \in DOMAIN factors(k) : factors(k)[m].param = params[i].name}
  <1>1. /\ Len(params) \in Nat /\ DOMAIN params = 1 .. Len(params) /\ (params = <<>> <=> Len(params) = 0)
        /\ v[2] = [i \in DOMAIN params |-> v[2][i]]
        /\ \A i \in DOMAIN params : params[i].name = <<v[2][i][1]>> /\ params[i].Initial = <<v[2][i][3]>>
        /\ \E n \in Nat : DOMAIN eqs = 1 .. n /\ Len(eqs) = n /\ (eqs = <<>> <=> n = 0)
        /\ \A k \in DOMAIN eqs : \E n \in Nat : DOMAIN factors(k) = 1 .. n
        /\ ~named => v[3] = <<>>
        /\ named => /\ DOMAIN v[3] = DOMAIN eqs
                    /\ \A k \in DOMAIN eqs :
                         /\ v[3][k][3] = [m \in DOMAIN factors(k) |-> v[3][k][3][m]]
                         /\ \A m \in DOMAIN factors(k) : /\ factors(k)[m].param = <<v[3][k][3][m][1]>>
                                                         /\ v[3][k][3][m][2] = factors(k)[m].text
    BY ReadInputIs
  <1>2. /\ packed = [k \in DOMAIN v[3] |-> packed[k]]
        /\ \A k \in DOMAIN v[3] : packed[k].row = MakeRow(v[2], MapOf(v[3][k][3]))
    <2>1. packed = Rows(v)
      BY OkIs DEF PackConstraints
    <2> HIDE DEF packed, v
    <2>2. packed = [k \in DOMAIN v[3] |->
                      [lower |-> v[3][k][1], upper |-> v[3][k][2], row |-> MakeRow(v[2], MapOf(v[3][k][3]))]]
      BY <2>1 DEF Rows
    <2> QED
      BY <2>2
  <1>0. PackConstraints(v, TRUE).end = "ok" <=> Len(v[2]) = Columns(packed)
    <2>1. packed = Rows(v)
      BY OkIs DEF PackConstraints
    <2>2. PackConstraints(v, TRUE) = IF Len(v[2]) # Columns(Rows(v)) THEN Thrown("terminate") ELSE Ok(Rows(v))
      BY DEF PackConstraints
    <2> HIDE DEF v, packed
    <2>3. CASE Len(v[2]) # Columns(packed)
      <3>1. PackConstraints(v, TRUE).end = Thrown("terminate").end
        BY <2>1, <2>2, <2>3, Zenon
      <3> QED
        BY <2>3, <3>1, ThrownIs
    <2>4. CASE Len(v[2]) = Columns(packed)
      <3>1. PackConstraints(v, TRUE).end = Ok(Rows(v)).end
        BY <2>1, <2>2, <2>4, Zenon
      <3> QED
        BY <2>4, <3>1, OkIs
    <2> QED
      BY <2>3, <2>4
  <1> DEFINE asserted == PackConstraints(v, TRUE).end = "ok"
  <1> HIDE DEF read, v, packed, params, eqs, factors, asserted
  <1>10. Len(v[2]) = Len(params)
    BY <1>1, LengthIs
  <1>3. [i \in DOMAIN v[2] |-> v[2][i][1]] = [i \in DOMAIN params |-> params[i].name[1]]
    BY <1>1
  <1>4. \A i \in DOMAIN params : params[i].Initial = <<v[2][i][3]>>
    BY <1>1
  <1>5. CASE ~named
    <2>1. v[3] = <<>> /\ DOMAIN <<>> = 1 .. 0
      BY <1>1, <1>5
    <2>2. packed = [k \in 1 .. 0 |-> packed[k]]
      BY <1>2, <2>1
    <2>3. Len(packed) = 0
      BY <2>2, LengthIs
    <2>4. DOMAIN packed = {}
      BY <2>2
    <2>9. asserted <=> params = <<>> \/ (named /\ eqs # <<>>)
      <3>1. Columns(packed) = 0
        <4>1. packed = <<>>
          BY <2>2, <2>3
        <4> QED
          BY <4>1 DEF Columns
      <3> QED
        BY <1>0, <1>1, <1>5, <1>10, <3>1 DEF asserted
    <2> HIDE DEF named, own
    <2>5. /\ Len(packed) = IF named THEN Len(eqs) ELSE 0
          /\ \A k \in DOMAIN packed : \A i \in DOMAIN params :
               packed[k].row[i] = IF own(k, i) = {} THEN 0 ELSE factors(k)[Min(own(k, i))].text
      BY <1>5, <2>3, <2>4
    <2> QED
      BY <1>3, <1>4, <2>5, <2>9, Zenon DEF InputRead, read, v, packed, params, eqs, factors, named, own, asserted
  <1>6. CASE named
    <2>1. PICK n \in Nat : DOMAIN eqs = 1 .. n /\ Len(eqs) = n /\ (eqs = <<>> <=> n = 0)
      BY <1>1
    <2>2. DOMAIN v[3] = 1 .. n
      BY <1>1, <1>6, <2>1
    <2>3. Len(packed) = n
      <3>1. packed = [k \in 1 .. n |-> packed[k]]
        BY <1>2, <2>2
      <3> QED
        BY <3>1, LengthIs
    <2>4. DOMAIN packed = DOMAIN eqs
      BY <1>2, <2>1, <2>2
    <2>5. ASSUME NEW k \in DOMAIN packed, NEW i \in DOMAIN params
          PROVE  packed[k].row[i] = IF own(k, i) = {} THEN 0 ELSE factors(k)[Min(own(k, i))].text
      <3> DEFINE pairs == v[3][k][3]
                 key == v[2][i][1]
                 mine == KeyAt(pairs, key, Len(pairs))
      <3>1. k \in DOMAIN eqs /\ k \in DOMAIN v[3] /\ i \in DOMAIN v[2]
        BY <1>1, <2>1, <2>2, <2>4
      <3>2. packed[k].row[i] = IF key \in DOMAIN MapOf(pairs) THEN MapOf(pairs)[key] ELSE 0
        BY <1>2, <3>1 DEF MakeRow
      <3>3. PICK l \in Nat : DOMAIN factors(k) = 1 .. l
        BY <1>1, <3>1
      <3>4. /\ pairs = [m \in 1 .. l |-> pairs[m]]
            /\ \A m \in 1 .. l : factors(k)[m].param = <<pairs[m][1]>> /\ pairs[m][2] = factors(k)[m].text
        BY <1>1, <1>6, <3>1, <3>3
      <3>5. params[i].name = <<key>>
        BY <1>1
      <3> HIDE DEF pairs, key
      <3>6. Len(pairs) = l
        BY <3>4, LengthIs
      <3>7. mine = own(k, i)
        <4>1. \A m \in 1 .. l : pairs[m][1] = key <=> factors(k)[m].param = params[i].name
          BY <3>4, <3>5
        <4> QED
          BY <3>3, <3>6, <4>1 DEF KeyAt
      <3>8. /\ key \in DOMAIN MapOf(pairs) <=> mine # {}
            /\ mine # {} => MapOf(pairs)[key] = pairs[Min(mine)][2]
        <4>1. Len(pairs) \in Nat
          BY <3>6
        <4> QED
          BY <4>1, MapHolds
      <3>9. mine # {} => Min(mine) \in 1 .. l
        <4>1. mine \subseteq 1 .. l /\ mine \subseteq Nat /\ mine \subseteq Int
          BY <3>6 DEF KeyAt
        <4> HIDE DEF mine
        <4>2. SUFFICES ASSUME mine # {}
                       PROVE  Min(mine) \in 1 .. l
          OBVIOUS
        <4>3. PICK m \in mine : \A j \in mine : m <= j
          BY <4>1, <4>2, LeastOf
        <4>4. Min(mine) = m
          BY <4>1, <4>3, LeastIs
        <4> QED
          BY <4>1, <4>3, <4>4
      <3> HIDE DEF mine, own
      <3>10. mine # {} => pairs[Min(mine)][2] = factors(k)[Min(mine)].text
        BY <3>4, <3>9
      <3> QED
        BY <3>2, <3>7, <3>8, <3>10
    <2>9. asserted <=> params = <<>> \/ (named /\ eqs # <<>>)
      <3>2. CASE n = 0
        <4>1. packed = <<>>
          BY <1>2, <2>2, <3>2
        <4>2. Columns(packed) = 0
          BY <4>1 DEF Columns
        <4> QED
          BY <1>0, <1>1, <1>10, <2>1, <3>2, <4>2 DEF asserted
      <3>3. CASE n # 0
        <4>1. packed # <<>> /\ 1 \in DOMAIN v[3]
          BY <2>2, <2>3, <3>3
        <4>2. packed[1].row = [i \in 1 .. Len(params) |-> packed[1].row[i]]
          <5>1. packed[1].row = MakeRow(v[2], MapOf(v[3][1][3]))
            BY <1>2, <4>1
          <5>2. DOMAIN v[2] = 1 .. Len(params)
            BY <1>1
          <5> QED
            BY <5>1, <5>2 DEF MakeRow
        <4>3. Len(packed[1].row) = Len(params)
          BY <1>1, <4>2, LengthIs
        <4>4. Columns(packed) = Len(params)
          BY <4>1, <4>3 DEF Columns
        <4> QED
          BY <1>0, <1>1, <1>6, <1>10, <2>1, <3>3, <4>4 DEF asserted
      <3> QED
        BY <3>2, <3>3
    <2> HIDE DEF named, own
    <2>6. /\ Len(packed) = IF named THEN Len(eqs) ELSE 0
          /\ \A k \in DOMAIN packed : \A i \in DOMAIN params :
               packed[k].row[i] = IF own(k, i) = {} THEN 0 ELSE factors(k)[Min(own(k, i))].text
      BY <1>6, <2>1, <2>3, <2>5
    <2> QED
      BY <1>3, <1>4, <2>6, <2>9, Zenon DEF InputRead, read, v, packed, params, eqs, factors, named, own, asserted
  <1> QED
    BY <1>5, <1>6

(* A point that is read has one number on either axis. *)
LEMMA PointIs ==
  ASSUME NEW x, IsNode(x), ParsePoint(x).end = "ok"
  PROVE  LET v == ParsePoint(x).value
         IN x["x"] = <<v[1]>> /\ x["y"] = <<v[2]>>
  <1> DEFINE read == ParsePoint(x)
             a == QueryOne(x, "x", ParseNumber)
             b == QueryOne(x, "y", ParseNumber)
  <1>1. read = InOrder(<<a, b>>) /\ read.end = "ok"
    BY DEF ParsePoint
  <1>2. a.end = "ok" => x["x"] = <<a.value>>
    BY NumberIs
  <1>3. b.end = "ok" => x["y"] = <<b.value>>
    BY NumberIs
  <1> HIDE DEF read, a, b
  <1>4. a.end = "ok" /\ b.end = "ok" /\ read.value[1] = a.value /\ read.value[2] = b.value
    BY <1>1, TwoInOrder
  <1> QED
    BY <1>2, <1>3, <1>4 DEF read

(* Data that are read keep the first of two points at the same place. *)
LEMMA DataReadRight == \A root \in DataSets : DataRead(root)
  <1> SUFFICES ASSUME NEW root \in DataSets, ParseDataSet(root).end = "ok"
               PROVE  DataRead(root)
    BY DEF DataRead
  <1> DEFINE vals == Found(root, "val")
             each == [i \in DOMAIN vals |-> ParsePoint(vals[i])]
             a == QueryOne(root, "xscale", ParseNumber)
             b == QueryOne(root, "yscale", ParseNumber)
             c == Losing(InOrder(each), Eval(root, "val").lost)
             r == InOrder(<<a, b, c>>)
             pairs == [i \in DOMAIN r.value[3] |-> <<r.value[3][i][1] * r.value[1], r.value[3][i][2] * r.value[2]>>]
             read == ParseDataSet(root)
  <1>1. IsNode(root) /\ \A p \in Children(root, "val") : IsNode(p)
    BY DocumentsAssumption
  <1>2. vals \in Seq(Children(root, "val")) /\ Eval(root, "val").value = vals
    BY <1>1, FindIs
  <1>3. c = ParseEach(root, "val", ParsePoint)
    <2> HIDE DEF vals
    <2> QED
      BY <1>2 DEF ParseEach, Each
  <1>4. read = IF r.end # "ok" THEN r ELSE Losing(Ok(MapOf(pairs)), r.lost)
    BY <1>3 DEF ParseDataSet, Scaled
  <1>5. a.end = "ok" => root["xscale"] = <<a.value>>
    BY <1>1, NumberIs
  <1>6. b.end = "ok" => root["yscale"] = <<b.value>>
    BY <1>1, NumberIs
  <1>7. \A i \in DOMAIN vals : IsNode(vals[i])
    <2>1. \A i \in DOMAIN vals : vals[i] \in Children(root, "val")
      BY DEF Children
    <2> HIDE DEF vals
    <2> QED
      BY <1>1, <2>1
  <1> HIDE DEF vals
  <1> DEFINE n == Len(vals)
  <1>8. n \in Nat /\ DOMAIN vals = 1 .. n
    BY <1>2, SequenceIs
  <1>9. DOMAIN each = DOMAIN vals /\ \A i \in DOMAIN vals : each[i] = ParsePoint(vals[i])
    OBVIOUS
  <1>10. read.end = "ok"
    OBVIOUS
  <1> HIDE DEF each, n
  <1>11. c.end = "ok" => /\ c.value = [i \in DOMAIN vals |-> each[i].value]
                         /\ \A i \in DOMAIN vals : each[i].end = "ok"
    <2>1. DOMAIN each \subseteq Nat
      BY <1>8, <1>9
    <2> QED
      BY <1>9, <2>1, InOrderIs, LosingIs
  <1>12. /\ r.end = "ok" => a.end = "ok" /\ b.end = "ok" /\ c.end = "ok"
         /\ r.end = "ok" => r.value[1] = a.value /\ r.value[2] = b.value /\ r.value[3] = c.value
    <2> HIDE DEF a, b, c
    <2> QED
      BY ThreeInOrder
  <1> HIDE DEF a, b, c, r, read
  <1>13. r.end = "ok" /\ read = Losing(Ok(MapOf(pairs)), r.lost)
    BY <1>4, <1>10
  <1>14. \A i \in DOMAIN vals : vals[i]["x"] = <<r.value[3][i][1]>> /\ vals[i]["y"] = <<r.value[3][i][2]>>
    <2> TAKE i \in DOMAIN vals
    <2>1. r.value[3][i] = ParsePoint(vals[i]).value /\ ParsePoint(vals[i]).end = "ok"
      BY <1>9, <1>11, <1>12, <1>13
    <2> QED
      BY <1>7, <2>1, PointIs
  <1>15. DOMAIN r.value[3] = 1 .. n
    BY <1>8, <1>11, <1>12, <1>13
  <1>16. root["xscale"] = <<r.value[1]>> /\ root["yscale"] = <<r.value[2]>>
    BY <1>5, <1>6, <1>12, <1>13
  <1>17. /\ pairs = [i \in 1 .. n |-> pairs[i]]
         /\ \A i \in 1 .. n : /\ pairs[i][1] = vals[i].x[1] * root.xscale[1]
                              /\ pairs[i][2] = vals[i].y[1] * root.yscale[1]
    <2>1. pairs = [i \in 1 .. n |-> <<r.value[3][i][1] * r.value[1], r.value[3][i][2] * r.value[2]>>]
      BY <1>15
    <2>2. ASSUME NEW i \in 1 .. n
          PROVE  pairs[i] = <<vals[i].x[1] * root.xscale[1], vals[i].y[1] * root.yscale[1]>>
      <3>1. r.value[3][i][1] = vals[i].x[1] /\ r.value[3][i][2] = vals[i].y[1]
        BY <1>8, <1>14
      <3>2. r.value[1] = root.xscale[1] /\ r.value[2] = root.yscale[1]
        BY <1>16
      <3> HIDE DEF pairs
      <3>3. pairs[i] = <<r.value[3][i][1] * r.value[1], r.value[3][i][2] * r.value[2]>>
        BY <2>1
      <3> QED
        BY <3>1, <3>2, <3>3
    <2> HIDE DEF pairs
    <2>3. pairs = [i \in 1 .. n |-> pairs[i]]
      BY <2>1
    <2> QED
      BY <2>2, <2>3
  <1> HIDE DEF pairs
  <1>18. Len(pairs) = n
    BY <1>8, <1>17, LengthIs
  <1>19. ASSUME NEW x \in DOMAIN read.value
         PROVE  LET at == {i \in DOMAIN vals : vals[i].x[1] * root.xscale[1] = x}
                IN at # {} /\ read.value[x] = vals[Min(at)].y[1] * root.yscale[1]
    <2> DEFINE at == {i \in DOMAIN vals : vals[i].x[1] * root.xscale[1] = x}
               own == KeyAt(pairs, x, n)
    <2>1. read.value = MapOf(pairs)
      BY <1>13, OkIs, LosingIs
    <2>2. own # {} /\ MapOf(pairs)[x] = pairs[Min(own)][2]
      <3>1. Len(pairs) \in Nat
        BY <1>8, <1>18
      <3>2. /\ x \in DOMAIN MapOf(pairs) <=> KeyAt(pairs, x, Len(pairs)) # {}
            /\ KeyAt(pairs, x, Len(pairs)) # {} =>
                 MapOf(pairs)[x] = pairs[Min(KeyAt(pairs, x, Len(pairs)))][2]
        BY <3>1, MapHolds
      <3> QED
        BY <1>18, <2>1, <3>2
    <2>3. own = at
      BY <1>8, <1>17 DEF KeyAt
    <2>4. Min(own) \in 1 .. n
      <3>1. own \subseteq Nat /\ own \subseteq Int /\ own \subseteq 1 .. n
        BY <1>8 DEF KeyAt
      <3> HIDE DEF own
      <3>2. PICK m \in own : \A j \in own : m <= j
        BY <2>2, <3>1, LeastOf
      <3>3. Min(own) = m
        BY <3>1, <3>2, LeastIs
      <3> QED
        BY <3>1, <3>2, <3>3
    <2> HIDE DEF own, at
    <2>5. pairs[Min(own)][2] = vals[Min(own)].y[1] * root.yscale[1]
      BY <1>17, <2>4
    <2>6. at # {} /\ read.value[x] = vals[Min(at)].y[1] * root.yscale[1]
      BY <2>1, <2>2, <2>3, <2>5
    <2> QED
      BY <2>6 DEF at
  <1> QED
    BY <1>19, Zenon DEF DataRead, read, vals

(* Each path of qs that may find nothing without a node set finds something *)
(* from the node, or may be lost.                                           *)
Covers(S, node, qs) == \A q \in qs \cap NoNodeSet : Found(node, q) # <<>> \/ q \in S

(* All paths may be lost, or none if each is answered. *)
LEMMA CoversIs ==
  /\ \A node, qs : Covers(NoNodeSet, node, qs)
  /\ \A node, qs : Answered(node, qs) => Covers({}, node, qs)
  /\ \A S, node, qs : Covers(S, node, qs) => \A q \in qs : Covers(S, node, {q})
  BY DEF Covers, Answered

(* What eval and find lose. *)
LEMMA FindLoses ==
  ASSUME NEW S, NEW node, NEW q, q # "count", Covers(S, node, {q})
  PROVE  Eval(node, q).lost \subseteq S /\ Find(node, q).lost \subseteq S
  <1> DEFINE nodes == Eval(node, q)
  <1>1. nodes.lost \subseteq S
    <2>1. CASE q = "malformed"
      <3>1. nodes = Thrown("error")
        BY <2>1 DEF Eval
      <3> HIDE DEF nodes
      <3> QED
        BY <3>1, ThrownIs
    <2>2. CASE q # "malformed" /\ NoSetFor(node, q)
      <3>1. nodes = Losing(Ok(<<>>), {q}) /\ q \in S
        BY <2>2 DEF Eval, NoSetFor, Numbers, Covers
      <3> HIDE DEF nodes
      <3> QED
        BY <3>1, OkIs, LosingIs
    <2>3. CASE q # "malformed" /\ ~NoSetFor(node, q)
      <3>1. nodes = Ok(Found(node, q))
        BY <2>3 DEF Eval
      <3> HIDE DEF nodes
      <3> QED
        BY <3>1, OkIs
    <2> QED
      BY <2>1, <2>2, <2>3
  <1>2. Find(node, q) \in {Declared(nodes), Losing(Thrown("no_results"), nodes.lost),
                           Thrown("too_many_results"), Ok(nodes.value[1])}
    BY DEF Find, TheOne
  <1> HIDE DEF nodes
  <1>3. Declared(nodes).lost \subseteq S
    BY <1>1, ThrownIs DEF Declared
  <1>4. Losing(Thrown("no_results"), nodes.lost).lost \subseteq S
    BY <1>1, ThrownIs, LosingIs
  <1>5. Thrown("too_many_results").lost = {} /\ Ok(nodes.value[1]).lost = {}
    BY ThrownIs, OkIs
  <1> QED
    BY <1>1, <1>2, <1>3, <1>4, <1>5 DEF nodes

(* Parts in order lose what they lose. *)
LEMMA InOrderLoses ==
  ASSUME NEW S, NEW outcomes, \A i \in DOMAIN outcomes : outcomes[i].lost \subseteq S
  PROVE  InOrder(outcomes).lost \subseteq S
  <1> DEFINE thrown == {i \in DOMAIN outcomes : outcomes[i].end # "ok"}
             read == {i \in DOMAIN outcomes : \A j \in thrown : i <= j}
  <1>1. InOrder(outcomes).lost = UNION {outcomes[i].lost : i \in read}
    BY DEF InOrder
  <1>2. read \subseteq DOMAIN outcomes
    OBVIOUS
  <1> HIDE DEF read
  <1> QED
    BY <1>1, <1>2

(* Strings and numbers lose what their query loses. *)
LEMMA ItemsLose ==
  ASSUME NEW S, NEW x, NEW q, q # "count", Covers(S, x, {q}), NEW default
  PROVE  /\ QueryOne(x, q, ParseString).lost \subseteq S /\ QueryOne(x, q, ParseNumber).lost \subseteq S
         /\ QueryElse(x, q, default, ParseNumber).lost \subseteq S /\ Bound(x, q).lost \subseteq S
  <1> DEFINE y == Find(x, q)
             item == IF y.end = "ok" THEN ParseNumber(y.value) ELSE y
  <1>1. y.lost \subseteq S
    BY FindLoses
  <1>2. /\ QueryOne(x, q, ParseString) = IF y.end = "ok" THEN Declared(ParseString(y.value)) ELSE y
        /\ QueryOne(x, q, ParseNumber) = IF y.end = "ok" THEN Declared(ParseNumber(y.value)) ELSE y
    BY DEF QueryOne, ItemIn
  <1>3. /\ QueryElse(x, q, default, ParseNumber) =
             IF item.end \in Nonsingle THEN Losing(Ok(default), item.lost) ELSE item
        /\ Bound(x, q) = IF item.end \in Nonsingle THEN Losing(Ok(Dne), item.lost) ELSE item
    BY DEF Bound, QueryElse, ItemIn, OrElse
  <1> HIDE DEF y
  <1>4. /\ ParseNumber(y.value).lost = {} /\ Declared(ParseNumber(y.value)).lost = {}
        /\ Declared(ParseString(y.value)).lost = {}
    BY OkIs, ThrownIs DEF ParseNumber, ParseString, Declared
  <1>5. item.lost \subseteq S
    BY <1>1, <1>4
  <1> HIDE DEF item
  <1>6. Losing(Ok(default), item.lost).lost \subseteq S /\ Losing(Ok(Dne), item.lost).lost \subseteq S
    BY <1>5, OkIs, LosingIs
  <1> QED
    BY <1>1, <1>2, <1>3, <1>4, <1>5, <1>6

(* A factor. *)
LEMMA FactorLoses ==
  ASSUME NEW S, NEW x, Covers(S, x, {"param"})
  PROVE  ParseFactor(x).lost \subseteq S
  <1> DEFINE a == QueryOne(x, "param", ParseString)
             b == ParseNumber(x.text)
  <1>1. a.lost \subseteq S
    BY ItemsLose
  <1>2. b.lost = {}
    BY OkIs, ThrownIs DEF ParseNumber
  <1>3. ParseFactor(x) = InOrder(<<a, b>>)
    BY DEF ParseFactor
  <1> HIDE DEF a, b
  <1>4. \A i \in DOMAIN <<a, b>> : <<a, b>>[i].lost \subseteq S
    BY <1>1, <1>2
  <1> QED
    BY <1>3, <1>4, InOrderLoses

(* What an equation asks for is covered. *)
EquationCovered(S, eq) ==
  /\ Covers(S, eq, {"Lower", "Upper", "Multiply"})
  /\ \A f \in Children(eq, "Multiply") : Covers(S, f, {"param"})

(* The nodes that are found are parsed one by one. *)
LEMMA EachOf ==
  ASSUME NEW node, NEW q, q # "malformed", q # "count"
  PROVE  /\ Eval(node, q).value = Found(node, q)
         /\ \A i \in DOMAIN Found(node, q) : Found(node, q)[i] \in Children(node, q)
  <1>1. (Eval(node, q) = Losing(Ok(<<>>), {q}) /\ Found(node, q) = <<>>) \/ Eval(node, q) = Ok(Found(node, q))
    BY DEF Eval, NoSetFor, Numbers
  <1> QED
    BY <1>1, OkIs, LosingIs DEF Children

(* An equation. *)
LEMMA EquationLoses ==
  ASSUME NEW S, NEW x, EquationCovered(S, x)
  PROVE  ParseEquation(x).lost \subseteq S
  <1> DEFINE fs == Found(x, "Multiply")
             each == [m \in DOMAIN fs |-> ParseFactor(fs[m])]
             a == Bound(x, "Lower")
             b == Bound(x, "Upper")
             c == Losing(InOrder(each), Eval(x, "Multiply").lost)
  <1>1. Covers(S, x, {"Lower"}) /\ Covers(S, x, {"Upper"}) /\ Covers(S, x, {"Multiply"})
    BY CoversIs DEF EquationCovered
  <1>2. a.lost \subseteq S /\ b.lost \subseteq S
    BY <1>1, ItemsLose
  <1>3. Eval(x, "Multiply").lost \subseteq S
    BY <1>1, FindLoses
  <1>4. Eval(x, "Multiply").value = fs /\ \A m \in DOMAIN fs : fs[m] \in Children(x, "Multiply")
    BY EachOf
  <1>5. ParseEquation(x) = InOrder(<<a, b, c>>)
    <2>1. ParseEach(x, "Multiply", ParseFactor) = c
      <3> HIDE DEF fs
      <3> QED
        BY <1>4 DEF ParseEach, Each
    <2> QED
      BY <2>1 DEF ParseEquation
  <1> HIDE DEF fs, a, b
  <1>6. InOrder(each).lost \subseteq S
    <2>1. \A m \in DOMAIN fs : ParseFactor(fs[m]).lost \subseteq S
      BY <1>4, FactorLoses DEF EquationCovered
    <2>2. \A m \in DOMAIN each : each[m].lost \subseteq S
      BY <2>1
    <2> HIDE DEF each
    <2> QED
      BY <2>2, InOrderLoses
  <1> HIDE DEF each
  <1>7. c.lost \subseteq S
    BY <1>3, <1>6, LosingIs
  <1> HIDE DEF c
  <1>8. \A i \in DOMAIN <<a, b, c>> : <<a, b, c>>[i].lost \subseteq S
    BY <1>2, <1>7
  <1> QED
    BY <1>5, <1>8, InOrderLoses

(* Constraints. *)
LEMMA ConstraintsLose ==
  ASSUME NEW S, NEW x, Covers(S, x, {"Eq"}), \A eq \in Children(x, "Eq") : EquationCovered(S, eq)
  PROVE  ParseConstraints(x).lost \subseteq S
  <1> DEFINE eqs == Found(x, "Eq")
             each == [k \in DOMAIN eqs |-> ParseEquation(eqs[k])]
  <1>1. Eval(x, "Eq").lost \subseteq S
    BY FindLoses
  <1>2. Eval(x, "Eq").value = eqs /\ \A k \in DOMAIN eqs : eqs[k] \in Children(x, "Eq")
    BY EachOf
  <1> HIDE DEF eqs
  <1>3. ParseConstraints(x) = Losing(InOrder(each), Eval(x, "Eq").lost)
    BY <1>2 DEF ParseConstraints, ParseEach, Each
  <1>4. \A k \in DOMAIN each : each[k].lost \subseteq S
    BY <1>2, EquationLoses
  <1> HIDE DEF each
  <1>5. InOrder(each).lost \subseteq S
    BY <1>4, InOrderLoses
  <1> QED
    BY <1>1, <1>3, <1>5, LosingIs

(* A parameter. *)
LEMMA ParameterLoses ==
  ASSUME NEW S, NEW x, Covers(S, x, {"name", "Lower", "Initial", "Upper", "Scaling"})
  PROVE  ParseParameter(x).lost \subseteq S
  <1> DEFINE a == QueryOne(x, "name", ParseString)
             b == Bound(x, "Lower")
             c == QueryOne(x, "Initial", ParseNumber)
             d == Bound(x, "Upper")
             e == QueryElse(x, "Scaling", 1, ParseNumber)
             parts == <<a, b, c, d, e>>
  <1>1. /\ Covers(S, x, {"name"}) /\ Covers(S, x, {"Lower"}) /\ Covers(S, x, {"Initial"})
        /\ Covers(S, x, {"Upper"}) /\ Covers(S, x, {"Scaling"})
    BY CoversIs
  <1>2. a.lost \subseteq S
    BY <1>1, ItemsLose
  <1>3. b.lost \subseteq S
    BY <1>1, ItemsLose
  <1>4. c.lost \subseteq S
    BY <1>1, ItemsLose
  <1>5. d.lost \subseteq S
    BY <1>1, ItemsLose
  <1>6. e.lost \subseteq S
    BY <1>1, ItemsLose
  <1>7. ParseParameter(x) = InOrder(parts)
    BY DEF ParseParameter
  <1> HIDE DEF a, b, c, d, e
  <1>8. \A i \in DOMAIN parts : parts[i].lost \subseteq S
    BY <1>2, <1>3, <1>4, <1>5, <1>6
  <1> HIDE DEF parts
  <1> QED
    BY <1>7, <1>8, InOrderLoses

(* What a parameter asks for is covered. *)
ParameterCovered(S, p) == Covers(S, p, {"name", "Lower", "Initial", "Upper", "Scaling"})

(* Parameters. *)
LEMMA ParametersLose ==
  ASSUME NEW S, NEW x, Covers(S, x, {"Param"}), \A p \in Children(x, "Param") : ParameterCovered(S, p)
  PROVE  ParseParameters(x).lost \subseteq S
  <1> DEFINE params == Found(x, "Param")
             each == [k \in DOMAIN params |-> ParseParameter(params[k])]
  <1>1. Eval(x, "Param").lost \subseteq S
    BY FindLoses
  <1>2. Eval(x, "Param").value = params /\ \A k \in DOMAIN params : params[k] \in Children(x, "Param")
    BY EachOf
  <1> HIDE DEF params
  <1>3. ParseParameters(x) = Losing(InOrder(each), Eval(x, "Param").lost)
    BY <1>2 DEF ParseParameters, ParseEach, Each
  <1>4. \A k \in DOMAIN each : each[k].lost \subseteq S
    BY <1>2, ParameterLoses DEF ParameterCovered
  <1> HIDE DEF each
  <1>5. InOrder(each).lost \subseteq S
    BY <1>4, InOrderLoses
  <1> QED
    BY <1>1, <1>3, <1>5, LosingIs

(* What a node of constraints and one of parameters ask for is covered. *)
ConstraintsCovered(S, x) == Covers(S, x, {"Eq"}) /\ \A eq \in Children(x, "Eq") : EquationCovered(S, eq)
ParametersCovered(S, x) == Covers(S, x, {"Param"}) /\ \A p \in Children(x, "Param") : ParameterCovered(S, p)

(* The constructor of Input loses what its queries lose. *)
LEMMA InputLoses ==
  ASSUME NEW S, NEW root, Covers(S, root, {"Minimize", "Parameters", "Constraints", "InitialStep"}),
         Find(root, "Parameters").end = "ok" => ParametersCovered(S, Find(root, "Parameters").value),
         Find(root, "Constraints").end = "ok" => ConstraintsCovered(S, Find(root, "Constraints").value)
  PROVE  ReadInput(root).lost \subseteq S
  <1> DEFINE f == Find(root, "Parameters")
             g == Find(root, "Constraints")
             item == IF g.end = "ok" THEN ParseConstraints(g.value) ELSE g
             a == QueryOne(root, "Minimize", ParseString)
             b == QueryOne(root, "Parameters", ParseParameters)
             c == QueryElse(root, "Constraints", <<>>, ParseConstraints)
             d == QueryElse(root, "InitialStep", 0, ParseNumber)
             parts == <<a, b, c, d>>
  <1>1. /\ Covers(S, root, {"Minimize"}) /\ Covers(S, root, {"Parameters"})
        /\ Covers(S, root, {"Constraints"}) /\ Covers(S, root, {"InitialStep"})
    BY CoversIs
  <1>2. a.lost \subseteq S
    BY <1>1, ItemsLose
  <1>3. d.lost \subseteq S
    BY <1>1, ItemsLose
  <1>4. f.lost \subseteq S /\ g.lost \subseteq S
    BY <1>1, FindLoses
  <1>5. b = IF f.end = "ok" THEN Declared(ParseParameters(f.value)) ELSE f
    BY DEF QueryOne, ItemIn
  <1>6. c = IF item.end \in Nonsingle THEN Losing(Ok(<<>>), item.lost) ELSE item
    BY DEF QueryElse, ItemIn, OrElse
  <1>7. ReadInput(root) = InOrder(parts)
    BY DEF ReadInput
  <1>8. f.end = "ok" => ParametersCovered(S, f.value)
    OBVIOUS
  <1>9. g.end = "ok" => ConstraintsCovered(S, g.value)
    OBVIOUS
  <1> HIDE DEF a, b, c, d, f, g
  <1>10. b.lost \subseteq S
    <2> DEFINE p == ParseParameters(f.value)
    <2>1. f.end = "ok" => p.lost \subseteq S
      BY <1>8, ParametersLose DEF ParametersCovered
    <2> HIDE DEF p
    <2>2. f.end = "ok" => Declared(p).lost \subseteq S
      BY <2>1, ThrownIs DEF Declared
    <2> QED
      BY <1>4, <1>5, <2>2 DEF p
  <1>11. c.lost \subseteq S
    <2>1. g.end = "ok" => ParseConstraints(g.value).lost \subseteq S
      BY <1>9, ConstraintsLose DEF ConstraintsCovered
    <2>2. item.lost \subseteq S
      BY <1>4, <2>1
    <2> HIDE DEF item
    <2> QED
      BY <1>6, <2>2, OkIs, LosingIs
  <1>12. \A i \in DOMAIN parts : parts[i].lost \subseteq S
    BY <1>2, <1>3, <1>10, <1>11
  <1> HIDE DEF parts
  <1> QED
    BY <1>7, <1>12, InOrderLoses

(* What the data ask for is covered. *)
DataCovered(S, root) ==
  Covers(S, root, {"xscale", "yscale", "val"}) /\ \A p \in Children(root, "val") : Covers(S, p, {"x", "y"})

(* Data lose what their queries lose. *)
LEMMA DataLoses ==
  ASSUME NEW S, NEW root, DataCovered(S, root)
  PROVE  ParseDataSet(root).lost \subseteq S
  <1> DEFINE vals == Found(root, "val")
             each == [i \in DOMAIN vals |-> ParsePoint(vals[i])]
             a == QueryOne(root, "xscale", ParseNumber)
             b == QueryOne(root, "yscale", ParseNumber)
             c == Losing(InOrder(each), Eval(root, "val").lost)
             parts == <<a, b, c>>
             r == InOrder(parts)
             pairs == [i \in DOMAIN r.value[3] |-> <<r.value[3][i][1] * r.value[1], r.value[3][i][2] * r.value[2]>>]
  <1>1. Covers(S, root, {"xscale"}) /\ Covers(S, root, {"yscale"}) /\ Covers(S, root, {"val"})
    BY CoversIs DEF DataCovered
  <1>2. a.lost \subseteq S /\ b.lost \subseteq S
    BY <1>1, ItemsLose
  <1>3. Eval(root, "val").lost \subseteq S
    BY <1>1, FindLoses
  <1>4. Eval(root, "val").value = vals /\ \A i \in DOMAIN vals : vals[i] \in Children(root, "val")
    BY EachOf
  <1>5. c = ParseEach(root, "val", ParsePoint)
    <2> HIDE DEF vals
    <2> QED
      BY <1>4 DEF ParseEach, Each
  <1>6. ParseDataSet(root) = IF r.end # "ok" THEN r ELSE Losing(Ok(MapOf(pairs)), r.lost)
    BY <1>5 DEF ParseDataSet, Scaled
  <1> HIDE DEF vals, a, b, pairs
  <1>7. ASSUME NEW p \in Children(root, "val")
        PROVE  ParsePoint(p).lost \subseteq S
    <2> DEFINE u == QueryOne(p, "x", ParseNumber)
               v == QueryOne(p, "y", ParseNumber)
    <2>1. Covers(S, p, {"x"}) /\ Covers(S, p, {"y"})
      BY CoversIs DEF DataCovered
    <2>2. u.lost \subseteq S /\ v.lost \subseteq S
      BY <2>1, ItemsLose
    <2>3. ParsePoint(p) = InOrder(<<u, v>>)
      BY DEF ParsePoint
    <2> HIDE DEF u, v
    <2>4. \A i \in DOMAIN <<u, v>> : <<u, v>>[i].lost \subseteq S
      BY <2>2
    <2> QED
      BY <2>3, <2>4, InOrderLoses
  <1>8. \A i \in DOMAIN each : each[i].lost \subseteq S
    BY <1>4, <1>7
  <1> HIDE DEF each
  <1>9. InOrder(each).lost \subseteq S
    BY <1>8, InOrderLoses
  <1>10. c.lost \subseteq S
    BY <1>3, <1>9, LosingIs
  <1> HIDE DEF c
  <1>11. \A i \in DOMAIN parts : parts[i].lost \subseteq S
    BY <1>2, <1>10
  <1> HIDE DEF parts
  <1>12. r.lost \subseteq S
    BY <1>11, InOrderLoses
  <1> HIDE DEF r
  <1> QED
    BY <1>6, <1>12, OkIs, LosingIs

(* What is lost by reading anything, and nothing where all is answered. *)
LEMMA ReadingLoses ==
  /\ \A root : ReadInput(root).lost \subseteq NoNodeSet /\ ParseDataSet(root).lost \subseteq NoNodeSet
  /\ \A root \in Inputs : InputAnswered(root) => ReadInput(root).lost = {}
  /\ \A root \in DataSets : DataAnswered(root) => ParseDataSet(root).lost = {}
  <1>1. ASSUME NEW root
        PROVE  ReadInput(root).lost \subseteq NoNodeSet /\ ParseDataSet(root).lost \subseteq NoNodeSet
    <2>1. \A x : ParametersCovered(NoNodeSet, x) /\ ConstraintsCovered(NoNodeSet, x) /\ DataCovered(NoNodeSet, x)
      BY CoversIs DEF ParametersCovered, ParameterCovered, ConstraintsCovered, EquationCovered, DataCovered
    <2>2. ReadInput(root).lost \subseteq NoNodeSet
      BY <2>1, CoversIs, InputLoses
    <2>3. ParseDataSet(root).lost \subseteq NoNodeSet
      BY <2>1, DataLoses
    <2> QED
      BY <2>2, <2>3
  <1>2. ASSUME NEW root \in Inputs, InputAnswered(root)
        PROVE  ReadInput(root).lost = {}
    <2> DEFINE f == Find(root, "Parameters")
               g == Find(root, "Constraints")
    <2>1. IsNode(root)
      BY DocumentsAssumption
    <2>2. f.end = "ok" => f.value \in Children(root, "Parameters")
      <3>1. /\ Len(Found(root, "Parameters")) = 1 =>
                 root["Parameters"][1] \in Children(root, "Parameters") /\ f = Ok(root["Parameters"][1])
            /\ Len(Found(root, "Parameters")) # 1 => f.end \in Nonsingle
        BY <2>1, FindIs
      <3> HIDE DEF f
      <3> QED
        BY <3>1, OkIs DEF Nonsingle
    <2>3. g.end = "ok" => g.value \in Children(root, "Constraints")
      <3>1. /\ Len(Found(root, "Constraints")) = 1 =>
                 root["Constraints"][1] \in Children(root, "Constraints") /\ g = Ok(root["Constraints"][1])
            /\ Len(Found(root, "Constraints")) # 1 => g.end \in Nonsingle
        BY <2>1, FindIs
      <3> HIDE DEF g
      <3> QED
        BY <3>1, OkIs DEF Nonsingle
    <2>4. Covers({}, root, {"Minimize", "Parameters", "Constraints", "InitialStep"})
      BY <1>2, CoversIs DEF InputAnswered
    <2>5. \A x \in Children(root, "Parameters") : ParametersCovered({}, x)
      BY <1>2, CoversIs DEF InputAnswered, ParametersCovered, ParameterCovered
    <2>6. \A x \in Children(root, "Constraints") : ConstraintsCovered({}, x)
      BY <1>2, CoversIs DEF InputAnswered, ConstraintsCovered, EquationCovered
    <2>7. ReadInput(root).lost \subseteq {}
      BY <2>2, <2>3, <2>4, <2>5, <2>6, InputLoses
    <2> QED
      BY <2>7
  <1>3. ASSUME NEW root \in DataSets, DataAnswered(root)
        PROVE  ParseDataSet(root).lost = {}
    <2>1. DataCovered({}, root)
      BY <1>3, CoversIs DEF DataAnswered, DataCovered
    <2>2. ParseDataSet(root).lost \subseteq {}
      BY <2>1, DataLoses
    <2> QED
      BY <2>2
  <1> QED
    BY <1>1, <1>2, <1>3

(* A query at the root, of a number too. *)
LEMMA FoundLoses == \A node, q : Find(node, q).lost \subseteq Numbers \cup NoNodeSet
  <1> SUFFICES ASSUME NEW node, NEW q
               PROVE  Find(node, q).lost \subseteq Numbers \cup NoNodeSet
    OBVIOUS
  <1>1. CASE q # "count"
    BY <1>1, FindLoses, CoversIs
  <1>2. CASE q = "count"
    <2> DEFINE nodes == Eval(node, q)
    <2>1. nodes = Losing(Ok(<<>>), {q})
      BY <1>2 DEF Eval, NoSetFor, Numbers
    <2>2. nodes.lost = {q} /\ nodes.end = "ok" /\ nodes.value = <<>>
      <3> HIDE DEF nodes
      <3> QED
        BY <2>1, OkIs, LosingIs
    <2>3. Find(node, q) = Losing(Thrown("no_results"), nodes.lost)
      BY <2>2 DEF Find, TheOne
    <2> HIDE DEF nodes
    <2>4. Find(node, q).lost = {q}
      BY <2>2, <2>3, ThrownIs, LosingIs
    <2> QED
      BY <1>2, <2>4 DEF Numbers
  <1> QED
    BY <1>1, <1>2

(* XML documents, in a library that does anything else as well. *)
DocumentsSpec ==
  bench = NothingThere /\ [][DocumentsNext \/ Elsewhere({"xml", "closed doc"})]_bench

(* What a Doc has open is all that there is, but for results never freed. *)
DocFields == {"is", "doc", "ctx", "docs", "ctxs", "opened", "leaked", "root", "told"}
HeldByDoc(b) ==
  /\ DocFields \subseteq DOMAIN b /\ b.doc \in Nat /\ b.ctx \in Nat /\ b.opened \in Nat
  /\ b.docs = {b.doc} \ {0} /\ b.ctxs = {b.ctx} \ {0} /\ b.leaked \subseteq Numbers \cup NoNodeSet

(* The inductive invariant of a Doc. *)
DocKept(b) ==
  /\ b.is = "xml" => HeldByDoc(b)
  /\ b.is = "closed doc" => b.docs = {} /\ b.ctxs = {} /\ b.leaked \subseteq Numbers \cup NoNodeSet

(* Closing leaves nothing. *)
LEMMA ClosedIs ==
  ASSUME NEW b, HeldByDoc(b)
  PROVE  /\ HeldByDoc(Closed(b)) /\ Closed(b).docs = {} /\ Closed(b).ctxs = {} /\ Closed(b).is = b.is
         /\ Closed(b).leaked = b.leaked
  <1> DEFINE c == Closed(b)
  <1>1. /\ DocFields \subseteq DOMAIN b /\ b.opened \in Nat /\ b.docs = {b.doc} \ {0} /\ b.ctxs = {b.ctx} \ {0}
        /\ b.leaked \subseteq Numbers \cup NoNodeSet
    BY DEF HeldByDoc
  <1>2. /\ DOMAIN c = DOMAIN b /\ c.is = b.is /\ c.opened = b.opened /\ c.doc = 0 /\ c.ctx = 0
        /\ c.leaked = b.leaked
        /\ c.docs = b.docs \ {b.doc} /\ c.ctxs = b.ctxs \ {b.ctx}
    BY <1>1 DEF Closed, DocFields
  <1> HIDE DEF c
  <1>3. c.docs = {} /\ c.ctxs = {}
    BY <1>1, <1>2
  <1>4. HeldByDoc(c)
    BY <1>1, <1>2, <1>3 DEF HeldByDoc
  <1> QED
    BY <1>2, <1>3, <1>4 DEF c

(* Opening after it holds one document with its context. *)
LEMMA OpeningIs ==
  ASSUME NEW b, HeldByDoc(b)
  PROVE  HeldByDoc(Opening(b)) /\ Opening(b).is = b.is
  <1> DEFINE c == Closed(b)
             o == Opening(b)
  <1>1. HeldByDoc(c) /\ c.docs = {} /\ c.ctxs = {} /\ c.is = b.is
    BY ClosedIs
  <1>2. b.opened \in Nat
    BY DEF HeldByDoc
  <1>3. c.opened = b.opened
    BY DEF Closed, HeldByDoc, DocFields
  <1>4. o = [c EXCEPT !.doc = b.opened + 1, !.docs = c.docs \cup {b.opened + 1}, !.opened = c.opened + 1,
                      !.ctx = b.opened + 1, !.ctxs = c.ctxs \cup {b.opened + 1}]
    BY DEF Opening
  <1> HIDE DEF c, o
  <1>5. DocFields \subseteq DOMAIN c
    BY <1>1 DEF HeldByDoc
  <1>6. /\ DOMAIN o = DOMAIN c /\ o.is = c.is /\ o.doc = b.opened + 1 /\ o.ctx = b.opened + 1
        /\ o.opened = c.opened + 1 /\ o.docs = c.docs \cup {b.opened + 1} /\ o.ctxs = c.ctxs \cup {b.opened + 1}
        /\ o.leaked = c.leaked
    BY <1>4, <1>5 DEF DocFields
  <1>7. HeldByDoc(o)
    BY <1>1, <1>2, <1>3, <1>5, <1>6 DEF HeldByDoc
  <1> QED
    BY <1>1, <1>6, <1>7 DEF o

(* Only what is told, and of which root, may change besides. *)
LEMMA HeldStill ==
  ASSUME NEW b, HeldByDoc(b), NEW r, NEW t
  PROVE  /\ HeldByDoc([b EXCEPT !.told = t]) /\ [b EXCEPT !.told = t].is = b.is
         /\ HeldByDoc([b EXCEPT !.root = r, !.told = t]) /\ [b EXCEPT !.root = r, !.told = t].is = b.is
  BY DEF HeldByDoc, DocFields

(* And results may get lost. *)
LEMMA HeldLosing ==
  ASSUME NEW b, HeldByDoc(b), NEW t, NEW l, l \subseteq Numbers \cup NoNodeSet
  PROVE  /\ HeldByDoc([b EXCEPT !.told = t, !.leaked = b.leaked \cup l])
         /\ [b EXCEPT !.told = t, !.leaked = b.leaked \cup l].is = b.is
  BY DEF HeldByDoc, DocFields

(* The count of what is opened stays a number. *)
LEMMA NextNumber == \A n \in Nat : n + 1 \in Nat
  OBVIOUS

(* Every step keeps the invariant. *)
LEMMA DocumentsStep ==
  ASSUME DocKept(bench), [DocumentsNext \/ Elsewhere({"xml", "closed doc"})]_bench
  PROVE  DocKept(bench')
  <1>0. On("xml") => HeldByDoc(bench)
    BY DEF On, DocKept
  <1>1. CASE NewDoc
    <2>1. bench' = [is |-> "xml", doc |-> 0, ctx |-> 0, docs |-> {}, ctxs |-> {}, opened |-> 0,
                    leaked |-> {}, root |-> <<>>, told |-> Ok(0)]
      BY <1>1 DEF NewDoc, PutOn
    <2> QED
      BY <2>1 DEF DocKept, HeldByDoc, DocFields
  <1>2. CASE DestroyDoc
    <2>1. HeldByDoc(bench) /\ bench' = [Closed(bench) EXCEPT !.is = "closed doc"]
      BY <1>0, <1>2 DEF DestroyDoc
    <2> DEFINE c == Closed(bench)
    <2>2. HeldByDoc(c) /\ c.docs = {} /\ c.ctxs = {} /\ c.leaked \subseteq Numbers \cup NoNodeSet
      BY <2>1, ClosedIs DEF HeldByDoc
    <2>3. bench' = [c EXCEPT !.is = "closed doc"]
      BY <2>1
    <2> HIDE DEF c
    <2>4. bench'.is = "closed doc" /\ bench'.docs = {} /\ bench'.ctxs = {} /\ bench'.leaked = c.leaked
      BY <2>2, <2>3 DEF HeldByDoc, DocFields
    <2> QED
      BY <2>2, <2>4 DEF DocKept
  <1>3. CASE Terminate \/ TakeOff("closed doc")
    <2>1. bench' = NothingThere
      BY <1>3 DEF Terminate, TakeOff
    <2>2. bench'.is = "nothing"
      BY <2>1 DEF NothingThere
    <2> QED
      BY <2>2 DEF DocKept
  <1>4. CASE Close \/ OpenUnparsable \/ OpenWithoutRoot
    <2>1. HeldByDoc(bench) /\ bench.is = "xml"
      BY <1>0, <1>4 DEF Close, OpenUnparsable, OpenWithoutRoot, On
    <2>2. HeldByDoc(Closed(bench)) /\ Closed(bench).is = "xml"
      BY <2>1, ClosedIs
    <2>3. HeldByDoc(Closed(Opening(bench))) /\ Closed(Opening(bench)).is = "xml"
      BY <2>1, OpeningIs, ClosedIs
    <2>4. HeldByDoc(bench') /\ bench'.is = "xml"
      <3>1. CASE Close
        BY <2>2, <3>1, HeldStill DEF Close
      <3>2. CASE OpenUnparsable
        <4> DEFINE c == Closed(bench)
        <4>1. bench' = [c EXCEPT !.opened = c.opened + 1, !.told = Thrown("error")]
          BY <3>2 DEF OpenUnparsable
        <4>2. HeldByDoc(c) /\ c.is = "xml"
          BY <2>2
        <4> HIDE DEF c
        <4>3. DocFields \subseteq DOMAIN c
          BY <4>2 DEF HeldByDoc
        <4>4. /\ DOMAIN bench' = DOMAIN c /\ bench'.is = c.is /\ bench'.opened = c.opened + 1
              /\ bench'.doc = c.doc /\ bench'.ctx = c.ctx /\ bench'.docs = c.docs /\ bench'.ctxs = c.ctxs
              /\ bench'.leaked = c.leaked
          BY <4>1, <4>3 DEF DocFields
        <4>5. /\ c.opened \in Nat /\ c.doc \in Nat /\ c.ctx \in Nat /\ c.docs = {c.doc} \ {0}
              /\ c.ctxs = {c.ctx} \ {0} /\ c.leaked \subseteq Numbers \cup NoNodeSet
          BY <4>2 DEF HeldByDoc
        <4>7. c.opened + 1 \in Nat
          BY <4>5, NextNumber, Zenon
        <4> DEFINE b == bench'
        <4>8. /\ DocFields \subseteq DOMAIN b /\ b.doc \in Nat /\ b.ctx \in Nat /\ b.opened \in Nat
              /\ b.docs = {b.doc} \ {0} /\ b.ctxs = {b.ctx} \ {0} /\ b.leaked \subseteq Numbers \cup NoNodeSet
          BY <4>3, <4>4, <4>5, <4>7, Zenon
        <4> HIDE DEF b
        <4>9. HeldByDoc(b)
          BY <4>8 DEF HeldByDoc
        <4> QED
          BY <4>2, <4>4, <4>9 DEF b
      <3>3. CASE OpenWithoutRoot
        BY <2>3, <3>3, HeldStill DEF OpenWithoutRoot
      <3> QED
        BY <1>4, <3>1, <3>2, <3>3
    <2> QED
      BY <2>4 DEF DocKept
  <1>5. ASSUME NEW root \in Inputs \cup DataSets, Open(root)
        PROVE  DocKept(bench')
    <2>1. HeldByDoc(bench) /\ bench.is = "xml"
      BY <1>0, <1>5 DEF Open, On
    <2>2. HeldByDoc(Opening(bench)) /\ Opening(bench).is = "xml"
      BY <2>1, OpeningIs
    <2>3. HeldByDoc(bench') /\ bench'.is = "xml"
      <3> DEFINE o == Opening(bench)
      <3>1. bench' = [o EXCEPT !.root = root, !.told = Ok(0)]
        BY <1>5 DEF Open
      <3>2. HeldByDoc(o) /\ o.is = "xml"
        BY <2>2
      <3> HIDE DEF o
      <3> DEFINE t == Ok(0)
      <3>3. bench' = [o EXCEPT !.root = root, !.told = t]
        BY <3>1
      <3> HIDE DEF t
      <3>4. HeldByDoc([o EXCEPT !.root = root, !.told = t]) /\ [o EXCEPT !.root = root, !.told = t].is = o.is
        BY <3>2, HeldStill
      <3> QED
        BY <3>2, <3>3, <3>4
    <2> QED
      BY <2>3 DEF DocKept
  <1>6. CASE ReadFile \/ ReadData \/ \E q \in {"Parameters", "malformed"} \cup Numbers : FindRoot(q)
    <2>1. HeldByDoc(bench) /\ bench.is = "xml"
      BY <1>0, <1>6 DEF ReadFile, ReadData, FindRoot, On
    <2>2. \E outcome : outcome.lost \subseteq Numbers \cup NoNodeSet /\ Tell(outcome)
      <3>1. CASE ReadFile
        <4> DEFINE read == IF IsOpen THEN ReadInput(bench.root) ELSE Thrown("error")
        <4>1. read.lost \subseteq NoNodeSet
          BY ReadingLoses, ThrownIs
        <4>2. Tell(read) \/ \E asserts \in BOOLEAN : Tell(Losing(PackConstraints(read.value, asserts), read.lost))
          BY <3>1, Zenon DEF ReadFile
        <4> HIDE DEF read
        <4>3. ASSUME NEW asserts \in BOOLEAN
              PROVE  Losing(PackConstraints(read.value, asserts), read.lost).lost \subseteq NoNodeSet
          <5>1. PackConstraints(read.value, asserts).lost = {}
            BY OkIs, ThrownIs DEF PackConstraints
          <5> QED
            BY <4>1, <5>1, LosingIs
        <4> QED
          BY <4>1, <4>2, <4>3
      <3>2. CASE ReadData
        <4>1. Tell(ParseDataSet(bench.root))
          BY <3>2, Zenon DEF ReadData
        <4> QED
          BY <4>1, ReadingLoses
      <3>3. ASSUME NEW q \in {"Parameters", "malformed"} \cup Numbers, FindRoot(q)
            PROVE  \E outcome : outcome.lost \subseteq Numbers \cup NoNodeSet /\ Tell(outcome)
        <4> DEFINE x == Find(bench.root, q)
        <4>1. x.lost \subseteq Numbers \cup NoNodeSet
          BY FoundLoses
        <4>2. Declared(Thrown("error")).lost = {}
          BY ThrownIs DEF Declared
        <4> DEFINE outcome == IF IsOpen THEN x ELSE Declared(Thrown("error"))
        <4>3. Tell(outcome)
          BY <3>3, Zenon DEF FindRoot
        <4> HIDE DEF x
        <4>4. outcome.lost \subseteq Numbers \cup NoNodeSet
          BY <4>1, <4>2
        <4> QED
          BY <4>3, <4>4
      <3> QED
        BY <1>6, <3>1, <3>2, <3>3
    <2>3. HeldByDoc(bench') /\ bench'.is = "xml"
      <3>1. PICK outcome : outcome.lost \subseteq Numbers \cup NoNodeSet /\ Tell(outcome)
        BY <2>2
      <3>2. bench' = [bench EXCEPT !.told = outcome, !.leaked = bench.leaked \cup outcome.lost]
        BY <3>1 DEF Tell
      <3> QED
        BY <2>1, <3>1, <3>2, HeldLosing
    <2> QED
      BY <2>3 DEF DocKept
  <1>7. CASE Elsewhere({"xml", "closed doc"})
    BY <1>7 DEF Elsewhere, DocKept
  <1>8. CASE bench' = bench
    BY <1>8
  <1> QED
    BY <1>1, <1>2, <1>3, <1>4, <1>5, <1>6, <1>7, <1>8 DEF DocumentsNext

(* A Doc holds the document and the context it has to give back, whatever   *)
(* is opened and fails; what it has lost are results without a node set.    *)
THEOREM DocumentsHeld == DocumentsSpec => []DocKept(bench)
  <1>1. bench = NothingThere => DocKept(bench)
    BY DEF NothingThere, DocKept
  <1>2. DocKept(bench) /\ [DocumentsNext \/ Elsewhere({"xml", "closed doc"})]_bench => DocKept(bench)'
    BY DocumentsStep
  <1> QED
    BY <1>1, <1>2, PTL DEF DocumentsSpec

(* Documents and contexts are closed, results are lost only without a node  *)
(* set and never where all that is asked for is answered, and any input and *)
(* data are read as they are, with the constraints kept or dropped as a     *)
(* whole, and packed if the assertions agree.                               *)
THEOREM DocumentsCorrect == DocumentsSpec => []DocumentsRead
  <1>1. DocKept(bench) => DocumentsRead
    <2>1. ASSUME DocKept(bench)
          PROVE  /\ On("xml") => bench.docs = {bench.doc} \ {0} /\ bench.ctxs = {bench.ctx} \ {0}
                 /\ On("closed doc") => bench.docs = {} /\ bench.ctxs = {}
                 /\ On("xml") \/ On("closed doc") => bench.leaked \subseteq Numbers \cup NoNodeSet
      BY <2>1 DEF DocKept, HeldByDoc, On
    <2>2. /\ \A root \in Inputs : InputRead(root) /\ (InputAnswered(root) => ReadInput(root).lost = {})
          /\ \A root \in DataSets : DataRead(root) /\ (DataAnswered(root) => ParseDataSet(root).lost = {})
      BY InputsReadRight, DataReadRight, ReadingLoses
    <2> QED
      BY <2>1, <2>2 DEF DocumentsRead
  <1> QED
    BY <1>1, DocumentsHeld, PTL

-----------------------------------------------------------------------------
(* Binning *)

(* What is added to a histogram: any keys and a value. *)
Entries == [key : Int \X (Nat \ {0}), key2 : Int \X (Nat \ {0}), v : Nat]

(* Any key that has a bin is added, with any value. *)
AnyAdd ==
  /\ On("histogram") /\ bench.pc = "use" /\ bench.factor = 1
  /\ \E a \in Entries : /\ GetBin(bench.h, a.key) \in DOMAIN bench.h.bins
                        /\ bench' = [bench EXCEPT !.h = BinAdd(@, a), !.adds = Append(@, a)]

(* Histograms of any keys and values, in a library that does anything else as well. *)
BinningSpec == bench = NothingThere /\ [][BinningNext \/ AnyAdd \/ Elsewhere({"histogram"})]_bench

-----------------------------------------------------------------------------
(* The sum of natural numbers, as the number of as many elements. *)
WeightOf(f, x) == {x} \X (1 .. f[x])
Weights(f, S) == {p \in S \X Nat : p[2] \in 1 .. f[p[1]]}

(* One element weighs what it adds to the number of all. *)
LEMMA WeightsAre ==
  ASSUME NEW S, IsFiniteSet(S), NEW f, \A k \in S : f[k] \in Nat, NEW x \in S
  PROVE  /\ Weights(f, S) = Weights(f, S \ {x}) \cup WeightOf(f, x)
         /\ Weights(f, S \ {x}) \cap WeightOf(f, x) = {}
         /\ IsFiniteSet(WeightOf(f, x)) /\ Cardinality(WeightOf(f, x)) = f[x]
  <1> DEFINE W == {x} \X (1 .. f[x])
  <1>1. Weights(f, S) = Weights(f, S \ {x}) \cup W
    BY DEF Weights
  <1>2. Weights(f, S \ {x}) \cap W = {}
    BY DEF Weights
  <1>3. f[x] \in Nat
    OBVIOUS
  <1>4. IsFiniteSet(1 .. f[x]) /\ Cardinality(1 .. f[x]) = f[x]
    <2> DEFINE n == f[x]
    <2>1. n \in Nat
      BY <1>3
    <2> HIDE DEF n
    <2>2. 1 \in Int /\ n \in Int /\ n - 1 + 1 = n
      BY <2>1
    <2>3. IsFiniteSet(1 .. n) /\ Cardinality(1 .. n) = n
      BY <2>1, <2>2, IntervalCount
    <2> QED
      BY <2>3 DEF n
  <1>5. IsFiniteSet(W) /\ Cardinality(W) = f[x]
    <2> DEFINE g == [i \in 1 .. f[x] |-> <<x, i>>]
    <2>1. g \in [1 .. f[x] -> W] /\ \A i, j \in 1 .. f[x] : g[i] = g[j] => i = j
      OBVIOUS
    <2>2. \A p \in W : \E i \in 1 .. f[x] : g[i] = p
      OBVIOUS
    <2>3. g \in Bijection(1 .. f[x], W)
      BY <2>1, <2>2, Zenon DEF Bijection, Injection, Surjection, IsInjective
    <2>4. IsFiniteSet(W) /\ Cardinality(W) = Cardinality(1 .. f[x])
      BY <2>3, <1>4, FS_Bijection DEF ExistsBijection
    <2> QED
      BY <2>4, <1>4
  <1> QED
    BY <1>1, <1>2, <1>5 DEF WeightOf

(* They can be counted when the summands are those of a sequence. *)
LEMMA WeightsFinite ==
  ASSUME NEW m \in Nat, NEW f, \A k \in 1 .. m : f[k] \in Nat
  PROVE  \A S \in SUBSET (1 .. m) : IsFiniteSet(S) /\ IsFiniteSet(Weights(f, S))
  <1>1. \A S \in SUBSET (1 .. m) : IsFiniteSet(S)
    <2>1. IsFiniteSet(1 .. m)
      BY FS_Interval
    <2> QED
      BY <2>1, FS_Subset
  <1> DEFINE Bad == {n \in 0 .. m : ~ IsFiniteSet(Weights(f, 1 .. n))}
  <1>2. Bad = {}
    <2> SUFFICES ASSUME Bad # {} PROVE FALSE
      OBVIOUS
    <2>1. Bad \subseteq Nat
      OBVIOUS
    <2>2. PICK n \in Bad : \A k \in Bad : n <= k
      BY <2>1, LeastOf
    <2>3. n \in Nat /\ n <= m
      BY <2>2
    <2>4. n # 0
      <3>1. Weights(f, 1 .. 0) = {}
        BY DEF Weights
      <3> QED
        BY <3>1, <2>2, FS_EmptySet
    <2>5. n - 1 \in 0 .. m /\ n - 1 \notin Bad
      <3>1. n - 1 \in 0 .. m /\ ~(n <= n - 1)
        BY <2>3, <2>4
      <3> QED
        BY <3>1, <2>2
    <2>6. IsFiniteSet(Weights(f, 1 .. n - 1))
      BY <2>5
    <2>7. (1 .. n) \ {n} = 1 .. n - 1 /\ n \in 1 .. n /\ 1 .. n \in SUBSET (1 .. m)
      BY <2>3, <2>4
    <2>8. IsFiniteSet(1 .. n) /\ \A k \in 1 .. n : f[k] \in Nat
      BY <2>7, <1>1
    <2> DEFINE S == 1 .. n
               W == WeightOf(f, n)
    <2>9. Weights(f, S) = Weights(f, S \ {n}) \cup W /\ IsFiniteSet(W)
      <3> HIDE DEF S
      <3>1. n \in S /\ IsFiniteSet(S) /\ \A k \in S : f[k] \in Nat
        BY <2>7, <2>8 DEF S
      <3> QED
        BY <3>1, WeightsAre
    <2>10. IsFiniteSet(Weights(f, S \ {n}))
      BY <2>6, <2>7, Zenon
    <2>11. IsFiniteSet(Weights(f, 1 .. n))
      <3> HIDE DEF W
      <3> QED
        BY <2>9, <2>10, FS_Union
    <2> QED
      BY <2>11, <2>2
  <1>3. IsFiniteSet(Weights(f, 1 .. m))
    BY <1>2
  <1>4. \A S \in SUBSET (1 .. m) : Weights(f, S) \subseteq Weights(f, 1 .. m)
    BY DEF Weights
  <1> QED
    BY <1>1, <1>3, <1>4, FS_Subset

(* So any of them may be taken from a sum. *)
LEMMA SumOfFinite ==
  ASSUME NEW S, IsFiniteSet(S), NEW f, \A k \in S : f[k] \in Nat, IsFiniteSet(Weights(f, S))
  PROVE  SumOver(f, S) = Cardinality(Weights(f, S)) /\ SumOver(f, S) \in Nat
  <1> DEFINE g == [s \in SUBSET S |-> Cardinality(Weights(f, s))]
  <1>0. \A s \in SUBSET S : IsFiniteSet(s) /\ IsFiniteSet(Weights(f, s))
    <2>1. \A s \in SUBSET S : Weights(f, s) \subseteq Weights(f, S)
      BY DEF Weights
    <2> QED
      BY <2>1, FS_Subset
  <1>1. g[{}] = 0
    <2>1. Weights(f, {}) = {}
      BY DEF Weights
    <2> QED
      BY <2>1, FS_EmptySet
  <1>2. ASSUME NEW s \in SUBSET S, NEW x \in s
        PROVE  g[s] = f[x] + g[s \ {x}]
    <2>1. IsFiniteSet(s) /\ (\A k \in s : f[k] \in Nat) /\ s \ {x} \in SUBSET S
      BY <1>0
    <2> DEFINE W == WeightOf(f, x)
               V == Weights(f, s \ {x})
    <2>2. Weights(f, s) = V \cup W /\ V \cap W = {} /\ IsFiniteSet(W) /\ Cardinality(W) = f[x]
      BY <2>1, WeightsAre
    <2>3. IsFiniteSet(V)
      BY <1>0
    <2> HIDE DEF V, W
    <2>4. Cardinality(V \cup W) = Cardinality(V) + Cardinality(W) - Cardinality(V \cap W)
      BY <2>2, <2>3, FS_Union
    <2>5. Cardinality(V \cap W) = 0 /\ Cardinality(V) \in Nat /\ f[x] \in Nat
      BY <2>1, <2>2, <2>3, FS_EmptySet, FS_CardinalityType
    <2>6. Cardinality(Weights(f, s)) = f[x] + Cardinality(V)
      BY <2>2, <2>4, <2>5
    <2> QED
      BY <2>1, <2>6 DEF V
  <1> HIDE DEF g
  <1>3. \A s \in SUBSET S : \A x \in s : g[s] = f[x] + g[s \ {x}]
    BY <1>2
  <1>4. Adds(f, S, g)
    BY <1>1, <1>3 DEF Adds
  <1>5. SumOver(f, S) = g[S]
    BY <1>0, <1>4, SumOverIs, Zenon
  <1>6. Cardinality(Weights(f, S)) \in Nat
    BY <1>0, FS_CardinalityType
  <1> QED
    BY <1>5, <1>6 DEF g

(* What some entries of the log add up to in a histogram of a kind. *)
SumAt(adds, T) == SumOver([k \in T |-> adds[k].v], T)
Total(adds, factor, kind, T) ==
  IF kind = "multi" THEN <<SumAt(adds, T), Cardinality(T)>> ELSE <<factor * Cardinality(T)>>

(* The log with one more entry. *)
LEMMA LogGrows ==
  ASSUME NEW adds \in Seq(Entries), NEW a \in Entries
  PROVE  /\ Append(adds, a) \in Seq(Entries) /\ Len(Append(adds, a)) = Len(adds) + 1
         /\ DOMAIN Append(adds, a) = DOMAIN adds \cup {Len(adds) + 1}
         /\ Len(adds) + 1 \notin DOMAIN adds
         /\ \A k \in DOMAIN adds : Append(adds, a)[k] = adds[k]
         /\ Append(adds, a)[Len(adds) + 1] = a
  OBVIOUS

(* What is added of nothing. *)
LEMMA TotalOfNothing ==
  ASSUME NEW adds, NEW factor \in Nat, NEW kind
  PROVE  Total(adds, factor, kind, {}) = IF kind = "multi" THEN <<0, 0>> ELSE <<0>>
  <1> DEFINE f == [k \in {} |-> adds[k].v]
  <1>1. SumOver(f, {}) = Cardinality(Weights(f, {}))
    <2>1. IsFiniteSet({}) /\ Weights(f, {}) = {}
      BY FS_EmptySet DEF Weights
    <2> HIDE DEF f
    <2> QED
      BY <2>1, SumOfFinite
  <1>2. Weights(f, {}) = {}
    BY DEF Weights
  <1>3. Cardinality({}) = 0
    BY FS_EmptySet
  <1>4. SumAt(adds, {}) = 0
    BY <1>1, <1>2, <1>3, Zenon DEF SumAt
  <1>5. factor * 0 = 0
    OBVIOUS
  <1> QED
    BY <1>3, <1>4, <1>5 DEF Total

(* The values in the log are natural numbers. *)
LEMMA ValuesAre ==
  ASSUME NEW adds \in Seq(Entries)
  PROVE  /\ Len(adds) \in Nat /\ DOMAIN adds = 1 .. Len(adds)
         /\ \A k \in 1 .. Len(adds) : adds[k] \in Entries /\ adds[k].v \in Nat
  <1>1. Len(adds) \in Nat /\ DOMAIN adds = 1 .. Len(adds) /\ \A k \in 1 .. Len(adds) : adds[k] \in Entries
    OBVIOUS
  <1>2. \A a \in Entries : a.v \in Nat
    BY DEF Entries
  <1> QED
    BY <1>1, <1>2

(* Entries do not add up to something else in a longer log. *)
LEMMA TotalStays ==
  ASSUME NEW adds \in Seq(Entries), NEW a \in Entries, NEW T \in SUBSET DOMAIN adds,
         NEW factor, NEW kind
  PROVE  Total(Append(adds, a), factor, kind, T) = Total(adds, factor, kind, T)
  <1> DEFINE f == [k \in T |-> adds[k].v]
             g == [k \in T |-> Append(adds, a)[k].v]
  <1>1. f = g
    BY LogGrows
  <1> QED
    BY <1>1, Zenon DEF Total, SumAt

(* One more entry adds its value and is counted. *)
LEMMA TotalMore ==
  ASSUME NEW adds \in Seq(Entries), NEW a \in Entries, NEW T \in SUBSET DOMAIN adds
  PROVE  /\ SumAt(adds, T) \in Nat /\ Cardinality(T) \in Nat
         /\ SumAt(Append(adds, a), T \cup {Len(adds) + 1}) = SumAt(adds, T) + a.v
         /\ Cardinality(T \cup {Len(adds) + 1}) = Cardinality(T) + 1
  <1> DEFINE n == Len(adds)
             more == Append(adds, a)
             U == T \cup {n + 1}
             f == [k \in T |-> adds[k].v]
             g == [k \in U |-> more[k].v]
             F == [k \in 1 .. n + 1 |-> more[k].v]
  <1>1. /\ n \in Nat /\ DOMAIN adds = 1 .. n /\ more \in Seq(Entries) /\ Len(more) = n + 1
        /\ more[n + 1] = a /\ \A k \in 1 .. n : more[k] = adds[k]
    BY ValuesAre, LogGrows
  <1>2. \A k \in 1 .. n + 1 : more[k].v \in Nat
    BY <1>1, ValuesAre
  <1> HIDE DEF n, more
  <1>3. T \in SUBSET (1 .. n + 1) /\ U \in SUBSET (1 .. n + 1) /\ n + 1 \in Nat /\ n + 1 \notin T /\ U \ {n + 1} = T
    BY <1>1
  <1>4. IsFiniteSet(T) /\ IsFiniteSet(U) /\ IsFiniteSet(Weights(F, T)) /\ IsFiniteSet(Weights(F, U))
    <2>1. \A k \in 1 .. n + 1 : F[k] \in Nat
      BY <1>2
    <2> HIDE DEF F, U
    <2> QED
      BY <1>3, <2>1, WeightsFinite
  <1>5. SumOver(f, T) = Cardinality(Weights(F, T))
    <2>1. Weights(f, T) = Weights(F, T)
      BY <1>1, <1>3 DEF Weights
    <2>2. \A k \in T : f[k] \in Nat
      BY <1>1, <1>2, <1>3
    <2> HIDE DEF f, F
    <2>3. SumOver(f, T) = Cardinality(Weights(f, T))
      BY <1>4, <2>1, <2>2, SumOfFinite
    <2> QED
      BY <2>1, <2>3
  <1>6. SumOver(g, U) = Cardinality(Weights(F, U))
    <2>1. Weights(g, U) = Weights(F, U)
      BY <1>3 DEF Weights
    <2>2. \A k \in U : g[k] \in Nat
      BY <1>2, <1>3
    <2> HIDE DEF g, F, U
    <2>3. SumOver(g, U) = Cardinality(Weights(g, U))
      BY <1>4, <2>1, <2>2, SumOfFinite
    <2> QED
      BY <2>1, <2>3
  <1> DEFINE W == WeightOf(F, n + 1)
  <1>7. /\ Weights(F, U) = Weights(F, T) \cup W /\ Weights(F, T) \cap W = {}
        /\ IsFiniteSet(W) /\ Cardinality(W) = F[n + 1]
    <2>1. \A k \in U : F[k] \in Nat
      BY <1>2, <1>3
    <2>2. n + 1 \in U
      OBVIOUS
    <2> HIDE DEF F, U
    <2>3. /\ Weights(F, U) = Weights(F, U \ {n + 1}) \cup W /\ Weights(F, U \ {n + 1}) \cap W = {}
          /\ IsFiniteSet(W) /\ Cardinality(W) = F[n + 1]
      BY <1>4, <2>1, <2>2, WeightsAre, Zenon
    <2>4. U \ {n + 1} = T
      BY <1>3
    <2> QED
      BY <2>3, <2>4
  <1>8. F[n + 1] = a.v /\ a.v \in Nat
    <2>1. n + 1 \in 1 .. n + 1 /\ more[n + 1] = a
      BY <1>1
    <2> QED
      BY <1>2, <2>1
  <1> HIDE DEF W, F, U
  <1>9. Cardinality(Weights(F, U)) = Cardinality(Weights(F, T)) + a.v /\ Cardinality(Weights(F, T)) \in Nat
    <2> DEFINE V == Weights(F, T)
    <2>1. IsFiniteSet(V) /\ IsFiniteSet(W) /\ V \cap W = {} /\ Cardinality(W) = a.v
      BY <1>4, <1>7, <1>8
    <2> HIDE DEF V
    <2>2. Cardinality(V \cup W) = Cardinality(V) + Cardinality(W) - Cardinality(V \cap W)
      BY <2>1, FS_Union
    <2>3. Cardinality(V \cap W) = 0 /\ Cardinality(V) \in Nat
      BY <2>1, FS_EmptySet, FS_CardinalityType
    <2>4. Cardinality(V \cup W) = Cardinality(V) + a.v
      BY <1>8, <2>1, <2>2, <2>3
    <2> QED
      BY <1>7, <2>3, <2>4 DEF V
  <1>10. Cardinality(T \cup {n + 1}) = Cardinality(T) + 1 /\ Cardinality(T) \in Nat
    BY <1>3, <1>4, FS_AddElement, FS_CardinalityType
  <1>11. SumAt(adds, T) = SumOver(f, T) /\ SumAt(more, T \cup {n + 1}) = SumOver(g, U)
    BY Zenon DEF SumAt, U
  <1> HIDE DEF f, g
  <1>12. /\ SumAt(adds, T) \in Nat /\ SumAt(more, T \cup {n + 1}) = SumAt(adds, T) + a.v
    BY <1>5, <1>6, <1>9, <1>11
  <1> QED
    BY <1>10, <1>12 DEF n, more

(* The fields of histograms. *)
HistFields == {"kind", "n", "min", "max", "scale", "bins"}

(* A histogram without histograms in its bins. *)
FlatHist(h) ==
  /\ HistFields \subseteq DOMAIN h /\ h.kind \in {"single", "multi"}
  /\ h.kind = "multi" <=> "hist" \in DOMAIN h
  /\ h.bins \in [DOMAIN h.bins -> Int]
  /\ h.kind = "multi" => h.hist \in [DOMAIN h.bins -> Int]

(* One like another, with other contents. *)
Like(g, h) ==
  /\ FlatHist(g) /\ g.kind = h.kind /\ g.min = h.min /\ g.max = h.max /\ g.scale = h.scale
  /\ DOMAIN g.bins = DOMAIN h.bins

(* A bin that v was added to. *)
More(h, i, v) ==
  IF h.kind = "multi" THEN <<h.bins[i] + v, h.hist[i] + 1>> ELSE <<h.bins[i] + 1>>

(* The bin of a key depends on the range of the histogram only. *)
LEMMA SameBins ==
  ASSUME NEW g, NEW h, g.min = h.min, g.max = h.max, g.scale = h.scale, NEW key
  PROVE  GetBin(g, key) = GetBin(h, key)
  BY Zenon DEF GetBin, Clamped

(* Adding at one place. *)
LEMMA AddedAt ==
  ASSUME NEW D, NEW f \in [D -> Int], NEW p, NEW v \in Int
  PROVE  /\ [f EXCEPT ![p] = f[p] + v] \in [D -> Int]
         /\ \A i \in D : [f EXCEPT ![p] = f[p] + v][i] = IF i = p THEN f[i] + v ELSE f[i]
  <1> DEFINE w == f[p] + v
             g == [f EXCEPT ![p] = w]
  <1>1. p \in D => w \in Int
    OBVIOUS
  <1> HIDE DEF w
  <1>2. g \in [D -> Int] /\ \A i \in D : g[i] = IF i = p THEN w ELSE f[i]
    BY <1>1
  <1> HIDE DEF g
  <1>3. \A i \in D : g[i] = IF i = p THEN f[i] + v ELSE f[i]
    BY <1>2, Zenon DEF w
  <1> QED
    BY <1>2, <1>3, Zenon DEF g, w

(* Adding to a histogram. *)
LEMMA BinIntoIs ==
  ASSUME NEW h, FlatHist(h), NEW key, NEW v \in Nat
  PROVE  /\ Like(BinInto(h, key, v), h)
         /\ \A i \in DOMAIN h.bins :
              Flat(BinInto(h, key, v), i) = IF i = GetBin(h, key) THEN More(h, i, v) ELSE Flat(h, i)
  <1> DEFINE g == BinInto(h, key, v)
             p == GetBin(h, key)
             B == [h.bins EXCEPT ![p] = h.bins[p] + v]
             C == [h.hist EXCEPT ![p] = h.hist[p] + 1]
             D == [h.bins EXCEPT ![p] = h.bins[p] + 1]
  <1>1. /\ HistFields \subseteq DOMAIN h /\ h.bins \in [DOMAIN h.bins -> Int]
        /\ h.kind \in {"single", "multi"} /\ (h.kind = "multi" <=> "hist" \in DOMAIN h)
        /\ h.kind = "multi" => h.hist \in [DOMAIN h.bins -> Int]
    BY DEF FlatHist
  <1>2. g = IF h.kind = "multi" THEN [h EXCEPT !.bins = B, !.hist = C] ELSE [h EXCEPT !.bins = D]
    BY Zenon DEF BinInto
  <1> HIDE DEF g, p
  <1>3. CASE h.kind = "multi"
    <2>1. /\ B \in [DOMAIN h.bins -> Int] /\ C \in [DOMAIN h.bins -> Int]
          /\ \A i \in DOMAIN h.bins : /\ B[i] = IF i = p THEN h.bins[i] + v ELSE h.bins[i]
                                      /\ C[i] = IF i = p THEN h.hist[i] + 1 ELSE h.hist[i]
      <3>1. h.bins \in [DOMAIN h.bins -> Int] /\ h.hist \in [DOMAIN h.bins -> Int] /\ v \in Int /\ 1 \in Int
        BY <1>1, <1>3
      <3>2. B \in [DOMAIN h.bins -> Int] /\ \A i \in DOMAIN h.bins : B[i] = IF i = p THEN h.bins[i] + v ELSE h.bins[i]
        BY <3>1, AddedAt
      <3>3. C \in [DOMAIN h.bins -> Int] /\ \A i \in DOMAIN h.bins : C[i] = IF i = p THEN h.hist[i] + 1 ELSE h.hist[i]
        BY <3>1, AddedAt
      <3> QED
        BY <3>2, <3>3, Zenon
    <2> HIDE DEF B, C
    <2>2. g = [h EXCEPT !.bins = B, !.hist = C]
      BY <1>2, <1>3
    <2>3. /\ DOMAIN g = DOMAIN h /\ g.kind = h.kind /\ g.min = h.min /\ g.max = h.max /\ g.scale = h.scale
          /\ g.bins = B /\ g.hist = C
      BY <1>1, <1>3, <2>2 DEF HistFields
    <2>4. Like(g, h)
      BY <1>1, <1>3, <2>1, <2>3 DEF Like, FlatHist
    <2>5. \A i \in DOMAIN h.bins : Flat(g, i) = IF i = p THEN More(h, i, v) ELSE Flat(h, i)
      BY <1>3, <2>1, <2>3 DEF Flat, More
    <2> QED
      BY <2>4, <2>5 DEF g, p
  <1>4. CASE h.kind # "multi"
    <2>1. /\ D \in [DOMAIN h.bins -> Int]
          /\ \A i \in DOMAIN h.bins : D[i] = IF i = p THEN h.bins[i] + 1 ELSE h.bins[i]
      <3>1. h.bins \in [DOMAIN h.bins -> Int] /\ 1 \in Int
        BY <1>1
      <3> QED
        BY <3>1, AddedAt
    <2> HIDE DEF D
    <2>2. g = [h EXCEPT !.bins = D]
      BY <1>2, <1>4
    <2>3. /\ DOMAIN g = DOMAIN h /\ g.kind = h.kind /\ g.min = h.min /\ g.max = h.max /\ g.scale = h.scale
          /\ g.bins = D
      BY <1>1, <2>2 DEF HistFields
    <2>4. Like(g, h)
      BY <1>1, <1>4, <2>1, <2>3 DEF Like, FlatHist
    <2>5. \A i \in DOMAIN h.bins : Flat(g, i) = IF i = p THEN More(h, i, v) ELSE Flat(h, i)
      BY <1>4, <2>1, <2>3 DEF Flat, More
    <2> QED
      BY <2>4, <2>5 DEF g, p
  <1> QED
    BY <1>3, <1>4

(* Clearing it. *)
LEMMA ClearFlatIs ==
  ASSUME NEW h, FlatHist(h)
  PROVE  /\ Like(ClearFlat(h), h)
         /\ \A i \in DOMAIN h.bins :
              /\ ClearFlat(h).bins[i] = 0 /\ (h.kind = "multi" => ClearFlat(h).hist[i] = 0)
              /\ Flat(ClearFlat(h), i) = IF h.kind = "multi" THEN <<0, 0>> ELSE <<0>>
  <1> DEFINE g == ClearFlat(h)
             B == [i \in DOMAIN h.bins |-> 0]
             C == [i \in DOMAIN h.hist |-> 0]
  <1>1. /\ HistFields \subseteq DOMAIN h /\ h.bins \in [DOMAIN h.bins -> Int]
        /\ h.kind \in {"single", "multi"} /\ (h.kind = "multi" <=> "hist" \in DOMAIN h)
        /\ h.kind = "multi" => h.hist \in [DOMAIN h.bins -> Int]
    BY DEF FlatHist
  <1>2. g = IF h.kind = "multi" THEN [h EXCEPT !.bins = B, !.hist = C] ELSE [h EXCEPT !.bins = B]
    BY Zenon DEF ClearFlat
  <1>3. B \in [DOMAIN h.bins -> Int] /\ \A i \in DOMAIN h.bins : B[i] = 0
    OBVIOUS
  <1>4. h.kind = "multi" => C = B
    BY <1>1
  <1> HIDE DEF g, B, C
  <1>5. /\ DOMAIN g = DOMAIN h /\ g.kind = h.kind /\ g.min = h.min /\ g.max = h.max /\ g.scale = h.scale
        /\ g.bins = B /\ (h.kind = "multi" => g.hist = B)
    <2>1. CASE h.kind = "multi"
      <3>1. g = [h EXCEPT !.bins = B, !.hist = C]
        BY <1>2, <2>1
      <3> QED
        BY <1>1, <1>4, <2>1, <3>1 DEF HistFields
    <2>2. CASE h.kind # "multi"
      <3>1. g = [h EXCEPT !.bins = B]
        BY <1>2, <2>2
      <3> QED
        BY <1>1, <2>2, <3>1 DEF HistFields
    <2> QED
      BY <2>1, <2>2
  <1>6. Like(g, h)
    BY <1>1, <1>3, <1>5 DEF Like, FlatHist
  <1>7. \A i \in DOMAIN h.bins :
              /\ g.bins[i] = 0 /\ (h.kind = "multi" => g.hist[i] = 0)
              /\ Flat(g, i) = IF h.kind = "multi" THEN <<0, 0>> ELSE <<0>>
    BY <1>3, <1>5 DEF Flat
  <1> QED
    BY <1>6, <1>7 DEF g

(* Adding another one to it. *)
LEMMA SumFlatIs ==
  ASSUME NEW h, FlatHist(h), NEW that, Like(that, h)
  PROVE  /\ Like(SumFlat(h, that), h)
         /\ \A i \in DOMAIN h.bins :
              /\ SumFlat(h, that).bins[i] = h.bins[i] + that.bins[i]
              /\ h.kind = "multi" => SumFlat(h, that).hist[i] = h.hist[i] + that.hist[i]
  <1> DEFINE s == SumFlat(h, that)
             B == [i \in DOMAIN h.bins |-> h.bins[i] + that.bins[i]]
             C == [i \in DOMAIN h.hist |-> h.hist[i] + that.hist[i]]
             g == [h EXCEPT !.bins = B]
  <1>1. /\ HistFields \subseteq DOMAIN h /\ h.bins \in [DOMAIN h.bins -> Int]
        /\ h.kind \in {"single", "multi"} /\ (h.kind = "multi" <=> "hist" \in DOMAIN h)
        /\ h.kind = "multi" => h.hist \in [DOMAIN h.bins -> Int]
    BY DEF FlatHist
  <1>2. /\ that.bins \in [DOMAIN h.bins -> Int]
        /\ h.kind = "multi" => that.hist \in [DOMAIN h.bins -> Int]
    BY DEF Like, FlatHist
  <1>3. B \in [DOMAIN h.bins -> Int] /\ \A i \in DOMAIN h.bins : B[i] = h.bins[i] + that.bins[i]
    BY <1>1, <1>2
  <1>4. h.kind = "multi" =>
          C \in [DOMAIN h.bins -> Int] /\ \A i \in DOMAIN h.bins : C[i] = h.hist[i] + that.hist[i]
    BY <1>1, <1>2
  <1>5. /\ DOMAIN g = DOMAIN h /\ g.bins = B /\ g.kind = h.kind /\ g.min = h.min /\ g.max = h.max
        /\ g.scale = h.scale /\ ("hist" \in DOMAIN h => g.hist = h.hist)
    <2> HIDE DEF B
    <2> QED
      BY <1>1 DEF HistFields
  <1>6. s = IF h.kind = "multi" THEN [g EXCEPT !.hist = [i \in DOMAIN g.hist |-> g.hist[i] + that.hist[i]]] ELSE g
    BY Zenon DEF SumFlat
  <1> HIDE DEF s, g, B
  <1>7. h.kind = "multi" => s = [g EXCEPT !.hist = C]
    BY <1>1, <1>5, <1>6
  <1>8. h.kind # "multi" => s = g
    BY <1>6
  <1> HIDE DEF C
  <1>9. /\ DOMAIN s = DOMAIN h /\ s.kind = h.kind /\ s.min = h.min /\ s.max = h.max /\ s.scale = h.scale
        /\ s.bins = B /\ (h.kind = "multi" => s.hist = C)
    <2>1. CASE h.kind = "multi"
      BY <1>1, <1>5, <1>7, <2>1 DEF HistFields
    <2>2. CASE h.kind # "multi"
      BY <1>5, <1>8, <2>2
    <2> QED
      BY <2>1, <2>2
  <1>10. Like(s, h)
    BY <1>1, <1>3, <1>4, <1>9 DEF Like, FlatHist
  <1>11. \A i \in DOMAIN h.bins :
              /\ s.bins[i] = h.bins[i] + that.bins[i]
              /\ h.kind = "multi" => s.hist[i] = h.hist[i] + that.hist[i]
    BY <1>3, <1>4, <1>9
  <1> QED
    BY <1>10, <1>11 DEF s

(* The contents of a histogram are numbers. *)
LEMMA ContentsAre ==
  ASSUME NEW h, FlatHist(h)
  PROVE  \A i \in DOMAIN h.bins : h.bins[i] \in Int /\ (h.kind = "multi" => h.hist[i] \in Int)
  BY DEF FlatHist

(* Adding an empty one changes nothing, and adding one that holds one key  *)
(* is adding the key.                                                      *)
LEMMA SumAgain ==
  ASSUME NEW h, FlatHist(h), NEW key, NEW v \in Nat
  PROVE  /\ Like(SumFlat(h, ClearFlat(h)), h)
         /\ \A i \in DOMAIN h.bins : Flat(SumFlat(h, ClearFlat(h)), i) = Flat(h, i)
         /\ Like(SumFlat(h, BinInto(ClearFlat(h), key, v)), h)
         /\ \A i \in DOMAIN h.bins :
              Flat(SumFlat(h, BinInto(ClearFlat(h), key, v)), i) =
                IF i = GetBin(h, key) THEN More(h, i, v) ELSE Flat(h, i)
  <1> DEFINE c == ClearFlat(h)
             d == BinInto(c, key, v)
             s == SumFlat(h, c)
             t == SumFlat(h, d)
  <1>1. /\ Like(c, h)
        /\ \A i \in DOMAIN h.bins : c.bins[i] = 0 /\ (h.kind = "multi" => c.hist[i] = 0)
    BY ClearFlatIs
  <1> HIDE DEF c
  <1>2. /\ Like(d, c)
        /\ \A i \in DOMAIN c.bins :
             Flat(d, i) = IF i = GetBin(c, key) THEN More(c, i, v) ELSE Flat(c, i)
    <2>1. FlatHist(c)
      BY <1>1 DEF Like
    <2> QED
      BY <2>1, BinIntoIs
  <1> HIDE DEF d
  <1>3. Like(d, h) /\ GetBin(c, key) = GetBin(h, key)
    BY <1>1, <1>2, SameBins DEF Like
  <1>4. /\ Like(s, h)
        /\ \A i \in DOMAIN h.bins :
              /\ s.bins[i] = h.bins[i] + c.bins[i]
              /\ h.kind = "multi" => s.hist[i] = h.hist[i] + c.hist[i]
    BY <1>1, SumFlatIs
  <1>5. /\ Like(t, h)
        /\ \A i \in DOMAIN h.bins :
              /\ t.bins[i] = h.bins[i] + d.bins[i]
              /\ h.kind = "multi" => t.hist[i] = h.hist[i] + d.hist[i]
    BY <1>3, SumFlatIs
  <1> HIDE DEF s, t
  <1>6. ASSUME NEW i \in DOMAIN h.bins
        PROVE  Flat(s, i) = Flat(h, i)
    <2>1. h.bins[i] \in Int /\ (h.kind = "multi" => h.hist[i] \in Int)
      BY ContentsAre
    <2>2. s.bins[i] = h.bins[i] /\ (h.kind = "multi" => s.hist[i] = h.hist[i]) /\ s.kind = h.kind
      BY <1>1, <1>4, <2>1 DEF Like
    <2> QED
      BY <2>2 DEF Flat
  <1>7. ASSUME NEW i \in DOMAIN h.bins
        PROVE  Flat(t, i) = IF i = GetBin(h, key) THEN More(h, i, v) ELSE Flat(h, i)
    <2>1. h.bins[i] \in Int /\ (h.kind = "multi" => h.hist[i] \in Int)
      BY ContentsAre
    <2>2. c.bins[i] = 0 /\ (h.kind = "multi" => c.hist[i] = 0) /\ c.kind = h.kind /\ i \in DOMAIN c.bins
      BY <1>1 DEF Like
    <2>3. d.kind = h.kind /\ t.kind = h.kind
      BY <1>3, <1>5 DEF Like
    <2>4. Flat(d, i) = IF i = GetBin(h, key) THEN More(c, i, v) ELSE Flat(c, i)
      BY <1>2, <1>3, <2>2
    <2>5. /\ t.bins[i] = h.bins[i] + d.bins[i]
          /\ h.kind = "multi" => t.hist[i] = h.hist[i] + d.hist[i]
      BY <1>5
    <2>6. CASE h.kind = "multi" /\ i = GetBin(h, key)
      <3>1. <<d.bins[i], d.hist[i]>> = <<0 + v, 0 + 1>>
        BY <2>2, <2>3, <2>4, <2>6 DEF Flat, More
      <3>2. t.bins[i] = h.bins[i] + v /\ t.hist[i] = h.hist[i] + 1
        BY <2>5, <2>6, <3>1
      <3> QED
        BY <2>3, <2>6, <3>2 DEF Flat, More
    <2>7. CASE h.kind = "multi" /\ i # GetBin(h, key)
      <3>1. <<d.bins[i], d.hist[i]>> = <<0, 0>>
        BY <2>2, <2>3, <2>4, <2>7 DEF Flat
      <3>2. t.bins[i] = h.bins[i] /\ t.hist[i] = h.hist[i]
        BY <2>1, <2>5, <2>7, <3>1
      <3> QED
        BY <2>3, <2>7, <3>2 DEF Flat
    <2>8. CASE h.kind # "multi" /\ i = GetBin(h, key)
      <3>1. <<d.bins[i]>> = <<0 + 1>>
        BY <2>2, <2>3, <2>4, <2>8 DEF Flat, More
      <3>2. t.bins[i] = h.bins[i] + 1
        BY <2>5, <3>1
      <3> QED
        BY <2>3, <2>8, <3>2 DEF Flat, More
    <2>9. CASE h.kind # "multi" /\ i # GetBin(h, key)
      <3>1. <<d.bins[i]>> = <<0>>
        BY <2>2, <2>3, <2>4, <2>9 DEF Flat
      <3>2. t.bins[i] = h.bins[i]
        BY <2>1, <2>5, <3>1
      <3> QED
        BY <2>3, <2>9, <3>2 DEF Flat
    <2> QED
      BY <2>6, <2>7, <2>8, <2>9
  <1> QED
    BY <1>4, <1>5, <1>6, <1>7 DEF c, d, s, t

(* A new one, and one multiplied by a factor. *)
LEMMA NewAre ==
  ASSUME NEW n, NEW mn, NEW mx, NEW h, h = Single(n, mn, mx) \/ h = Multi(n, mn, mx)
  PROVE  /\ FlatHist(h) /\ DOMAIN h.bins = 0 .. n - 1
         /\ h.kind = (IF h = Single(n, mn, mx) THEN "single" ELSE "multi")
         /\ h.min = mn /\ h.max = mx
         /\ \A i \in DOMAIN h.bins : Flat(h, i) = IF h.kind = "multi" THEN <<0, 0>> ELSE <<0>>
  <1> DEFINE sc == ScaleOf(n, mn, mx)
             B == [i \in 0 .. n - 1 |-> 0]
  <1>0. B \in [DOMAIN B -> Int] /\ DOMAIN B = 0 .. n - 1 /\ \A i \in DOMAIN B : B[i] = 0
    OBVIOUS
  <1>1. Single(n, mn, mx) = [kind |-> "single", n |-> n, min |-> mn, max |-> mx, scale |-> sc, bins |-> B]
    BY DEF Single
  <1>2. Multi(n, mn, mx)
          = [kind |-> "multi", n |-> n, min |-> mn, max |-> mx, scale |-> sc, bins |-> B, hist |-> B]
    BY DEF Multi
  <1> HIDE DEF sc, B
  <1>3. CASE h = Single(n, mn, mx)
    <2>1. /\ h.kind = "single" /\ h.bins = B /\ h.min = mn /\ h.max = mx
          /\ DOMAIN h = HistFields
      BY <1>1, <1>3 DEF HistFields
    <2>2. "hist" \notin DOMAIN h
      BY <2>1 DEF HistFields
    <2> QED
      BY <1>0, <1>3, <2>1, <2>2 DEF FlatHist, Flat
  <1>4. CASE h = Multi(n, mn, mx)
    <2>1. /\ h.kind = "multi" /\ h.bins = B /\ h.hist = B /\ h.min = mn /\ h.max = mx
          /\ DOMAIN h = HistFields \cup {"hist"}
      BY <1>2, <1>4 DEF HistFields
    <2>2. Single(n, mn, mx).kind = "single"
      BY <1>1
    <2> QED
      BY <1>0, <1>4, <2>1, <2>2 DEF FlatHist, Flat
  <1> QED
    BY <1>3, <1>4

(* A histogram, with or without histograms in its bins; these are all of a kind. *)
Hist(h) ==
  /\ HistFields \subseteq DOMAIN h /\ h.max \in Int /\ 0 \in DOMAIN h.bins
  /\ IF h.kind = "extended"
     THEN /\ h.bins = [i \in DOMAIN h.bins |-> h.bins[i]]
          /\ \A i \in DOMAIN h.bins : FlatHist(h.bins[i]) /\ h.bins[i].kind = h.bins[0].kind
     ELSE FlatHist(h)

(* One with the same bins. *)
Resembles(g, h) ==
  /\ Hist(g) /\ g.kind = h.kind /\ g.min = h.min /\ g.max = h.max /\ g.scale = h.scale
  /\ DOMAIN g.bins = DOMAIN h.bins
  /\ h.kind = "extended" => \A i \in DOMAIN h.bins : Like(g.bins[i], h.bins[i])

(* One that a was added to. *)
AddedTo(g, h, a) ==
  /\ Resembles(g, h)
  /\ \A i \in DOMAIN h.bins :
       IF h.kind = "extended"
       THEN \A j \in DOMAIN h.bins[i].bins :
              Flat(g.bins[i], j) =
                IF i = GetBin(h, a.key) /\ j = GetBin(h.bins[i], a.key2)
                THEN More(h.bins[i], j, a.v) ELSE Flat(h.bins[i], j)
       ELSE Flat(g, i) = IF i = GetBin(h, a.key) THEN More(h, i, a.v) ELSE Flat(h, i)

(* A flat histogram as a whole one. *)
LEMMA FlatIsWhole ==
  ASSUME NEW h, Hist(h), h.kind # "extended", NEW g, Like(g, h)
  PROVE  Resembles(g, h)
  <1>1. FlatHist(h) /\ h.kind \in {"single", "multi"} /\ h.max \in Int /\ 0 \in DOMAIN h.bins
    BY DEF Hist, FlatHist
  <1>2. /\ FlatHist(g) /\ g.kind = h.kind /\ g.min = h.min /\ g.max = h.max /\ g.scale = h.scale
        /\ DOMAIN g.bins = DOMAIN h.bins
    BY DEF Like
  <1>3. HistFields \subseteq DOMAIN g
    BY <1>2 DEF FlatHist
  <1>4. Hist(g)
    BY <1>1, <1>2, <1>3 DEF Hist
  <1> QED
    BY <1>1, <1>2, <1>4 DEF Resembles

(* Other children of the same kind. *)
LEMMA OtherChildren ==
  ASSUME NEW h, Hist(h), h.kind = "extended", NEW B, DOMAIN B = DOMAIN h.bins,
         B = [i \in DOMAIN B |-> B[i]], \A i \in DOMAIN B : Like(B[i], h.bins[i])
  PROVE  Resembles([h EXCEPT !.bins = B], h) /\ [h EXCEPT !.bins = B].bins = B
  <1> DEFINE g == [h EXCEPT !.bins = B]
  <1>1. HistFields \subseteq DOMAIN h /\ h.max \in Int /\ 0 \in DOMAIN h.bins
    BY DEF Hist
  <1>2. /\ DOMAIN g = DOMAIN h /\ g.kind = h.kind /\ g.min = h.min /\ g.max = h.max /\ g.scale = h.scale
        /\ g.bins = B
    BY <1>1 DEF HistFields
  <1> HIDE DEF g
  <1>3. \A i \in DOMAIN B : FlatHist(B[i]) /\ B[i].kind = B[0].kind
    <2>1. \A i \in DOMAIN B : FlatHist(B[i]) /\ B[i].kind = h.bins[i].kind
      BY DEF Like
    <2>2. \A i \in DOMAIN B : h.bins[i].kind = h.bins[0].kind
      BY DEF Hist
    <2> QED
      BY <1>1, <2>1, <2>2
  <1>4. Hist(g)
    BY <1>1, <1>2, <1>3 DEF Hist
  <1>5. Resembles(g, h)
    BY <1>2, <1>4 DEF Resembles
  <1> QED
    BY <1>2, <1>5 DEF g

(* A child is like itself. *)
LEMMA LikeItself == \A h : FlatHist(h) => Like(h, h)
  BY DEF Like

(* What binAdd does to any histogram. *)
LEMMA BinAddIs ==
  ASSUME NEW h, Hist(h), NEW a \in Entries
  PROVE  AddedTo(BinAdd(h, a), h, a)
  <1>0. a.v \in Nat
    BY DEF Entries
  <1>1. CASE h.kind # "extended"
    <2>1. FlatHist(h) /\ BinAdd(h, a) = BinInto(h, a.key, a.v)
      BY <1>1 DEF Hist, BinAdd
    <2>2. /\ Like(BinInto(h, a.key, a.v), h)
          /\ \A i \in DOMAIN h.bins :
               Flat(BinInto(h, a.key, a.v), i) = IF i = GetBin(h, a.key) THEN More(h, i, a.v) ELSE Flat(h, i)
      BY <1>0, <2>1, BinIntoIs
    <2>3. Resembles(BinInto(h, a.key, a.v), h)
      BY <1>1, <2>2, FlatIsWhole
    <2> QED
      BY <1>1, <2>1, <2>2, <2>3 DEF AddedTo
  <1>2. CASE h.kind = "extended"
    <2> DEFINE p == GetBin(h, a.key)
               w == BinInto(h.bins[p], a.key2, a.v)
               B == [h.bins EXCEPT ![p] = w]
    <2>1. BinAdd(h, a) = [h EXCEPT !.bins = B]
      BY <1>2, Zenon DEF BinAdd
    <2>2. /\ h.bins = [i \in DOMAIN h.bins |-> h.bins[i]]
          /\ \A i \in DOMAIN h.bins : FlatHist(h.bins[i])
      BY <1>2 DEF Hist
    <2>3. ASSUME p \in DOMAIN h.bins
          PROVE  /\ Like(w, h.bins[p])
                 /\ \A j \in DOMAIN h.bins[p].bins :
                      Flat(w, j) = IF j = GetBin(h.bins[p], a.key2)
                                   THEN More(h.bins[p], j, a.v) ELSE Flat(h.bins[p], j)
      <3> DEFINE x == h.bins[p]
      <3>1. FlatHist(x)
        BY <2>2, <2>3
      <3> HIDE DEF x
      <3>2. /\ Like(BinInto(x, a.key2, a.v), x)
            /\ \A j \in DOMAIN x.bins :
                 Flat(BinInto(x, a.key2, a.v), j) =
                   IF j = GetBin(x, a.key2) THEN More(x, j, a.v) ELSE Flat(x, j)
        BY <1>0, <3>1, BinIntoIs
      <3> QED
        BY <3>2, Zenon DEF x
    <2> HIDE DEF p, w
    <2>4. /\ DOMAIN B = DOMAIN h.bins /\ B = [i \in DOMAIN B |-> B[i]]
          /\ \A i \in DOMAIN h.bins : B[i] = IF i = p THEN w ELSE h.bins[i]
      BY <2>2
    <2> HIDE DEF B
    <2>5. \A i \in DOMAIN B : Like(B[i], h.bins[i])
      BY <2>2, <2>3, <2>4, LikeItself
    <2>6. Resembles([h EXCEPT !.bins = B], h) /\ [h EXCEPT !.bins = B].bins = B
      BY <1>2, <2>4, <2>5, OtherChildren
    <2>7. \A i \in DOMAIN h.bins : \A j \in DOMAIN h.bins[i].bins :
            Flat(B[i], j) = IF i = p /\ j = GetBin(h.bins[i], a.key2)
                            THEN More(h.bins[i], j, a.v) ELSE Flat(h.bins[i], j)
      BY <2>3, <2>4
    <2> QED
      BY <1>2, <2>1, <2>6, <2>7 DEF AddedTo, p
  <1> QED
    BY <1>1, <1>2

(* A histogram that holds the same as when one key was added, a sum. *)
LEMMA SumBinsIs ==
  ASSUME NEW h, Hist(h), NEW a \in Entries
  PROVE  AddedTo(SumBins(h, BinAdd(ClearBins(h), a)), h, a)
  <1>0. a.v \in Nat
    BY DEF Entries
  <1>1. CASE h.kind # "extended"
    <2> DEFINE c == ClearFlat(h)
               t == SumFlat(h, BinInto(c, a.key, a.v))
    <2>1. FlatHist(h) /\ ClearBins(h) = c
      BY <1>1 DEF Hist, ClearBins
    <2>2. /\ Like(t, h)
          /\ \A i \in DOMAIN h.bins : Flat(t, i) = IF i = GetBin(h, a.key) THEN More(h, i, a.v) ELSE Flat(h, i)
      BY <1>0, <2>1, SumAgain
    <2>3. c.kind = h.kind
      BY <2>1, ClearFlatIs DEF Like
    <2> HIDE DEF c
    <2>4. BinAdd(c, a) = BinInto(c, a.key, a.v)
      BY <1>1, <2>3 DEF BinAdd
    <2>5. SumBins(h, BinAdd(ClearBins(h), a)) = t
      BY <1>1, <2>1, <2>4 DEF SumBins
    <2> HIDE DEF t
    <2>6. Resembles(t, h)
      BY <1>1, <2>2, FlatIsWhole
    <2> QED
      BY <1>1, <2>2, <2>5, <2>6 DEF AddedTo
  <1>2. CASE h.kind = "extended"
    <2>1. /\ HistFields \subseteq DOMAIN h /\ h.bins = [i \in DOMAIN h.bins |-> h.bins[i]]
          /\ \A i \in DOMAIN h.bins : FlatHist(h.bins[i])
      BY <1>2 DEF Hist
    <2> DEFINE C == [i \in DOMAIN h.bins |-> ClearFlat(h.bins[i])]
               c == [h EXCEPT !.bins = C]
               p == GetBin(h, a.key)
               w == BinInto(C[p], a.key2, a.v)
               D == [C EXCEPT ![p] = w]
               d == [c EXCEPT !.bins = D]
               S == [i \in DOMAIN h.bins |-> SumFlat(h.bins[i], d.bins[i])]
    <2>2. ClearBins(h) = c
      BY <1>2, Zenon DEF ClearBins
    <2>3. /\ c.kind = h.kind /\ c.min = h.min /\ c.max = h.max /\ c.scale = h.scale /\ c.bins = C
          /\ DOMAIN c = DOMAIN h
      <3> HIDE DEF C
      <3> QED
        BY <2>1 DEF HistFields
    <2> HIDE DEF c
    <2>4. GetBin(c, a.key) = p
      BY <2>3, SameBins
    <2>5. BinAdd(c, a) = d
      <3>1. BinAdd(c, a) = [c EXCEPT !.bins = [c.bins EXCEPT ![GetBin(c, a.key)] =
                                                  BinInto(c.bins[GetBin(c, a.key)], a.key2, a.v)]]
        BY <1>2, <2>3, Zenon DEF BinAdd
      <3> HIDE DEF C, p
      <3> QED
        BY <2>3, <2>4, <3>1, Zenon
    <2>6. d.bins = D
      <3> HIDE DEF D
      <3> QED
        BY <2>1, <2>3 DEF HistFields
    <2> HIDE DEF d
    <2>7. SumBins(h, d) = [h EXCEPT !.bins = S]
      BY <1>2, Zenon DEF SumBins
    <2> HIDE DEF p, w
    <2>8. \A i \in DOMAIN h.bins : D[i] = IF i = p THEN w ELSE ClearFlat(h.bins[i])
      OBVIOUS
    <2>9. p \in DOMAIN h.bins => w = BinInto(ClearFlat(h.bins[p]), a.key2, a.v)
      BY DEF w
    <2> HIDE DEF C, D
    <2>10. ASSUME NEW i \in DOMAIN h.bins
           PROVE  /\ Like(S[i], h.bins[i])
                  /\ \A j \in DOMAIN h.bins[i].bins :
                       Flat(S[i], j) = IF i = p /\ j = GetBin(h.bins[i], a.key2)
                                       THEN More(h.bins[i], j, a.v) ELSE Flat(h.bins[i], j)
      <3> DEFINE x == h.bins[i]
                 y == SumFlat(x, ClearFlat(x))
                 z == SumFlat(x, BinInto(ClearFlat(x), a.key2, a.v))
      <3>1. FlatHist(x)
        BY <2>1
      <3>2. S[i] = IF i = p THEN z ELSE y
        BY <2>6, <2>8, <2>9
      <3> HIDE DEF x, S
      <3>3. /\ Like(y, x) /\ \A j \in DOMAIN x.bins : Flat(y, j) = Flat(x, j)
            /\ Like(z, x)
            /\ \A j \in DOMAIN x.bins :
                 Flat(z, j) = IF j = GetBin(x, a.key2) THEN More(x, j, a.v) ELSE Flat(x, j)
        BY <1>0, <3>1, SumAgain
      <3> HIDE DEF y, z
      <3>4. /\ Like(S[i], x)
            /\ \A j \in DOMAIN x.bins :
                 Flat(S[i], j) = IF i = p /\ j = GetBin(x, a.key2) THEN More(x, j, a.v) ELSE Flat(x, j)
        BY <3>2, <3>3
      <3> QED
        BY <3>4 DEF x
    <2>11. DOMAIN S = DOMAIN h.bins /\ S = [i \in DOMAIN S |-> S[i]]
      OBVIOUS
    <2> HIDE DEF S
    <2>12. Resembles([h EXCEPT !.bins = S], h) /\ [h EXCEPT !.bins = S].bins = S
      BY <1>2, <2>10, <2>11, OtherChildren
    <2> QED
      BY <1>2, <2>2, <2>5, <2>7, <2>10, <2>12 DEF AddedTo, p
  <1> QED
    BY <1>1, <1>2

(* Empty bins. *)
Zeros(h) == IF h.kind = "multi" THEN <<0, 0>> ELSE <<0>>
Empty(h) ==
  \A i \in DOMAIN h.bins :
    IF h.kind = "extended" THEN \A j \in DOMAIN h.bins[i].bins : Flat(h.bins[i], j) = Zeros(h.bins[i])
    ELSE Flat(h, i) = Zeros(h)

(* What clearBins leaves. *)
LEMMA ClearBinsIs ==
  ASSUME NEW h, Hist(h)
  PROVE  Resembles(ClearBins(h), h) /\ Empty(ClearBins(h))
  <1>1. CASE h.kind # "extended"
    <2> DEFINE c == ClearFlat(h)
    <2>1. FlatHist(h) /\ ClearBins(h) = c
      BY <1>1 DEF Hist, ClearBins
    <2>2. Like(c, h) /\ \A i \in DOMAIN h.bins : Flat(c, i) = IF h.kind = "multi" THEN <<0, 0>> ELSE <<0>>
      BY <2>1, ClearFlatIs
    <2> HIDE DEF c
    <2>3. Resembles(c, h) /\ c.kind = h.kind /\ DOMAIN c.bins = DOMAIN h.bins
      BY <1>1, <2>2, FlatIsWhole DEF Like
    <2> QED
      BY <1>1, <2>1, <2>2, <2>3 DEF Empty, Zeros
  <1>2. CASE h.kind = "extended"
    <2> DEFINE C == [i \in DOMAIN h.bins |-> ClearFlat(h.bins[i])]
    <2>1. ClearBins(h) = [h EXCEPT !.bins = C]
      BY <1>2, Zenon DEF ClearBins
    <2>2. ASSUME NEW i \in DOMAIN h.bins
          PROVE  Like(C[i], h.bins[i]) /\ \A j \in DOMAIN h.bins[i].bins : Flat(C[i], j) = Zeros(h.bins[i])
      <3> DEFINE x == h.bins[i]
      <3>1. FlatHist(x)
        BY <1>2 DEF Hist
      <3>2. C[i] = ClearFlat(x)
        OBVIOUS
      <3> HIDE DEF x, C
      <3>3. Like(C[i], x) /\ \A j \in DOMAIN x.bins : Flat(C[i], j) = Zeros(x)
        BY <3>1, <3>2, ClearFlatIs DEF Zeros
      <3> QED
        BY <3>3 DEF x
    <2>3. DOMAIN C = DOMAIN h.bins /\ C = [i \in DOMAIN C |-> C[i]]
      OBVIOUS
    <2> HIDE DEF C
    <2>4. Resembles([h EXCEPT !.bins = C], h) /\ [h EXCEPT !.bins = C].bins = C
      BY <1>2, <2>2, <2>3, OtherChildren
    <2>5. \A i \in DOMAIN C : DOMAIN C[i].bins = DOMAIN h.bins[i].bins /\ C[i].kind = h.bins[i].kind
      BY <2>2, <2>3 DEF Like
    <2> DEFINE g == [h EXCEPT !.bins = C]
    <2>6. g.kind = "extended" /\ g.bins = C
      BY <1>2, <2>4 DEF Resembles
    <2> HIDE DEF g
    <2>7. Empty(g)
      BY <2>2, <2>3, <2>5, <2>6 DEF Empty, Zeros
    <2> QED
      BY <2>1, <2>4, <2>7 DEF g
  <1> QED
    BY <1>1, <1>2

(* BinsAccount of any record. *)
Accounted(b) ==
  \A i \in DOMAIN b.h.bins :
    IF b.h.kind = "extended"
    THEN \A j \in DOMAIN b.h.bins[i].bins :
           Flat(b.h.bins[i], j) = Logged(b, b.h.bins[i], LoggedForChild(b, i, j))
    ELSE Flat(b.h, i) = Logged(b, b.h, LoggedFor(b, i))

(* Nothing of an empty log is in empty bins. *)
LEMMA EmptyAccounted ==
  ASSUME NEW b, b.adds = <<>>, b.factor \in Nat, Empty(b.h)
  PROVE  Accounted(b)
  <1>1. \A i : LoggedFor(b, i) = {} /\ \A j : LoggedForChild(b, i, j) = {}
    BY DEF LoggedFor, LoggedForChild
  <1>2. \A h : Logged(b, h, {}) = Zeros(h)
    <2> SUFFICES ASSUME NEW h PROVE Logged(b, h, {}) = Zeros(h)
      OBVIOUS
    <2>1. Logged(b, h, {}) = Total(b.adds, b.factor, h.kind, {})
      BY Zenon DEF Logged, Total, SumAt
    <2> QED
      BY <2>1, TotalOfNothing DEF Zeros
  <1> QED
    BY <1>1, <1>2 DEF Empty, Accounted

(* New histograms are empty. *)
LEMMA NewPlainIsEmpty ==
  ASSUME NEW n \in Nat \ {0}, NEW mn \in Nat, NEW mx \in Nat, NEW h,
         h = Single(n, mn, mx) \/ h = Multi(n, mn, mx)
  PROVE  Hist(h) /\ Empty(h)
  <1>1. /\ FlatHist(h) /\ DOMAIN h.bins = 0 .. n - 1 /\ h.max = mx
        /\ \A i \in DOMAIN h.bins : Flat(h, i) = IF h.kind = "multi" THEN <<0, 0>> ELSE <<0>>
    BY NewAre
  <1>2. h.kind # "extended" /\ HistFields \subseteq DOMAIN h /\ 0 \in 0 .. n - 1
    BY <1>1 DEF FlatHist
  <1> QED
    BY <1>1, <1>2 DEF Hist, Empty, Zeros

(* One with histograms in its bins. *)
LEMMA NewExtendedIsEmpty ==
  ASSUME NEW kind \in {"single", "multi"}, NEW n \in Nat \ {0}, NEW mx \in Nat
  PROVE  Hist(Extended(kind, 0, mx, n, 0, mx)) /\ Empty(Extended(kind, 0, mx, n, 0, mx))
  <1> DEFINE h == Extended(kind, 0, mx, n, 0, mx)
  <1> DEFINE r == IF mx # 0 THEN <<0, mx>> ELSE <<0, 0>>
             x == IF kind = "single" THEN Single(n, r[1], r[2]) ELSE Multi(n, r[1], r[2])
             f == Single(n, 0, mx)
             B == [i \in DOMAIN f.bins |-> x]
  <1>1. h = [f EXCEPT !.kind = "extended", !.bins = B]
    BY Zenon DEF Extended
  <1>2. FlatHist(f) /\ DOMAIN f.bins = 0 .. n - 1 /\ f.max = mx
    <2> HIDE DEF f
    <2>1. f = Single(n, 0, mx)
      BY DEF f
    <2> QED
      BY <2>1, NewAre
  <1>3. FlatHist(x) /\ \A j \in DOMAIN x.bins : Flat(x, j) = IF x.kind = "multi" THEN <<0, 0>> ELSE <<0>>
    <2> HIDE DEF r, f, h
    <2> DEFINE lo == r[1]
               hi == r[2]
    <2>1. x = Single(n, lo, hi) \/ x = Multi(n, lo, hi)
      OBVIOUS
    <2> HIDE DEF x, lo, hi
    <2> QED
      BY <2>1, NewAre
  <1> HIDE DEF f, x, h
  <1>4. DOMAIN B = 0 .. n - 1 /\ B = [i \in DOMAIN B |-> B[i]] /\ \A i \in DOMAIN B : B[i] = x
    BY <1>2
  <1> HIDE DEF B
  <1>5. h.kind = "extended" /\ h.bins = B /\ h.max = f.max /\ DOMAIN h = DOMAIN f
    BY <1>1, <1>2 DEF FlatHist, HistFields
  <1>6. HistFields \subseteq DOMAIN h
    BY <1>2, <1>5 DEF FlatHist
  <1>7. Hist(h)
    BY <1>2, <1>3, <1>4, <1>5, <1>6 DEF Hist
  <1>8. Empty(h)
    <2>1. \A j \in DOMAIN x.bins : Flat(x, j) = Zeros(x)
      BY <1>3 DEF Zeros
    <2>2. \A i \in DOMAIN h.bins : h.bins[i] = x
      BY <1>4, <1>5
    <2> QED
      BY <1>5, <2>1, <2>2, Zenon DEF Empty
  <1> QED
    BY <1>7, <1>8 DEF h

(* Any of them. *)
LEMMA NewIsEmpty ==
  ASSUME NEW s \in Shapes, NEW kind \in {"single", "multi"}, NEW extended \in BOOLEAN
  PROVE  LET new == IF kind = "single" THEN Single(s[1], 0, s[2]) ELSE Multi(s[1], 0, s[2])
             h == IF extended THEN Extended(kind, 0, s[2], s[1], 0, s[2]) ELSE new
         IN Hist(h) /\ Empty(h)
  <1>1. s[1] \in Nat \ {0} /\ s[2] \in Nat
    BY ShapesAssumption
  <1> DEFINE n == s[1]
             mx == s[2]
             z == 0
  <1>2. n \in Nat \ {0} /\ mx \in Nat /\ z \in Nat
    BY <1>1
  <1> HIDE DEF n, mx, z
  <1>3. Hist(Single(n, z, mx)) /\ Empty(Single(n, z, mx))
    BY <1>2, NewPlainIsEmpty
  <1>4. Hist(Multi(n, z, mx)) /\ Empty(Multi(n, z, mx))
    BY <1>2, NewPlainIsEmpty
  <1>5. Hist(Extended(kind, 0, mx, n, 0, mx)) /\ Empty(Extended(kind, 0, mx, n, 0, mx))
    BY <1>2, NewExtendedIsEmpty
  <1> QED
    BY <1>3, <1>4, <1>5, Zenon DEF n, mx, z


(* What operator*= leaves in a histogram that counts. *)
LEMMA ScaledFlatIs ==
  ASSUME NEW h, FlatHist(h), h.kind = "single", NEW g,
         g = ScaleFlat(h, 2)
  PROVE  Like(g, h) /\ \A i \in DOMAIN h.bins : Flat(g, i) = <<2 * h.bins[i]>>
  <1> DEFINE B == [i \in DOMAIN h.bins |-> 2 * h.bins[i]]
  <1>1. /\ HistFields \subseteq DOMAIN h /\ h.bins \in [DOMAIN h.bins -> Int]
        /\ (h.kind = "multi" <=> "hist" \in DOMAIN h)
    BY DEF FlatHist
  <1>2. B \in [DOMAIN h.bins -> Int] /\ \A i \in DOMAIN h.bins : B[i] = 2 * h.bins[i]
    BY <1>1
  <1> HIDE DEF B
  <1>3. g = [h EXCEPT !.bins = B]
    BY Zenon DEF B, ScaleFlat
  <1>4. /\ DOMAIN g = DOMAIN h /\ g.kind = h.kind /\ g.min = h.min /\ g.max = h.max /\ g.scale = h.scale
        /\ g.bins = B
    BY <1>1, <1>3 DEF HistFields
  <1>5. Like(g, h)
    BY <1>1, <1>2, <1>4 DEF Like, FlatHist
  <1>6. \A i \in DOMAIN h.bins : Flat(g, i) = <<2 * h.bins[i]>>
    BY <1>2, <1>4 DEF Flat
  <1> QED
    BY <1>5, <1>6

(* Twice a histogram without values. *)
Doubled(g, h) ==
  /\ Resembles(g, h)
  /\ \A i \in DOMAIN h.bins :
       IF h.kind = "extended"
       THEN \A j \in DOMAIN h.bins[i].bins : Flat(g.bins[i], j) = <<2 * h.bins[i].bins[j]>>
       ELSE Flat(g, i) = <<2 * h.bins[i]>>

(* Whether there are no values in it. *)
OnlyCounts(h) ==
  IF h.kind = "extended" THEN \A i \in DOMAIN h.bins : h.bins[i].kind = "single" ELSE h.kind = "single"

(* What operator*= makes of any histogram that counts. *)
LEMMA ScaleBinsIs ==
  ASSUME NEW h, Hist(h), OnlyCounts(h)
  PROVE  Doubled(ScaleBins(h, 2), h)
  <1>1. CASE h.kind # "extended"
    <2> DEFINE g == ScaleFlat(h, 2)
    <2>1. ScaleBins(h, 2) = g
      BY <1>1, Zenon DEF ScaleBins
    <2>2. FlatHist(h) /\ h.kind = "single"
      BY <1>1 DEF Hist, OnlyCounts
    <2>3. Like(g, h) /\ \A i \in DOMAIN h.bins : Flat(g, i) = <<2 * h.bins[i]>>
      BY <2>2, ScaledFlatIs
    <2> HIDE DEF g
    <2>4. Resembles(g, h)
      BY <1>1, <2>3, FlatIsWhole
    <2> QED
      BY <1>1, <2>1, <2>3, <2>4 DEF Doubled
  <1>2. CASE h.kind = "extended"
    <2> DEFINE C == [i \in DOMAIN h.bins |-> ScaleFlat(h.bins[i], 2)]
    <2>1. ScaleBins(h, 2) = [h EXCEPT !.bins = C]
      BY <1>2, Zenon DEF ScaleBins
    <2>2. ASSUME NEW i \in DOMAIN h.bins
          PROVE  Like(C[i], h.bins[i]) /\ \A j \in DOMAIN h.bins[i].bins : Flat(C[i], j) = <<2 * h.bins[i].bins[j]>>
      <3> DEFINE x == h.bins[i]
                 y == ScaleFlat(x, 2)
      <3>1. FlatHist(x) /\ x.kind = "single"
        BY <1>2 DEF Hist, OnlyCounts
      <3>2. C[i] = y
        BY Zenon
      <3> HIDE DEF x
      <3>3. Like(y, x) /\ \A j \in DOMAIN x.bins : Flat(y, j) = <<2 * x.bins[j]>>
        BY <3>1, ScaledFlatIs
      <3> HIDE DEF y, C
      <3>4. Like(C[i], x) /\ \A j \in DOMAIN x.bins : Flat(C[i], j) = <<2 * x.bins[j]>>
        BY <3>2, <3>3
      <3> QED
        BY <3>4 DEF x
    <2>3. DOMAIN C = DOMAIN h.bins /\ C = [i \in DOMAIN C |-> C[i]]
      BY Zenon
    <2> HIDE DEF C
    <2>4. Resembles([h EXCEPT !.bins = C], h) /\ [h EXCEPT !.bins = C].bins = C
      BY <1>2, <2>2, <2>3, OtherChildren
    <2> QED
      BY <1>2, <2>1, <2>2, <2>4 DEF Doubled
  <1> QED
    BY <1>1, <1>2

(* Who has hist. *)
LEMMA WhoCounts ==
  ASSUME NEW h, Hist(h), "hist" \notin DOMAIN h,
         h.kind = "extended" => "hist" \notin DOMAIN h.bins[0]
  PROVE  OnlyCounts(h)
  <1>1. CASE h.kind = "extended"
    <2>1. \A i \in DOMAIN h.bins : FlatHist(h.bins[i]) /\ h.bins[i].kind = h.bins[0].kind
      BY <1>1 DEF Hist
    <2>2. FlatHist(h.bins[0])
      BY <2>1 DEF Hist
    <2>3. h.bins[0].kind = "single"
      BY <1>1, <2>2 DEF FlatHist
    <2> QED
      BY <1>1, <2>1, <2>3 DEF OnlyCounts
  <1>2. CASE h.kind # "extended"
    BY <1>2 DEF Hist, FlatHist, OnlyCounts
  <1> QED
    BY <1>1, <1>2

(* Some entries of a log, and these with one more. *)
OfLog(adds, a, T) == adds \in Seq(Entries) /\ a \in Entries /\ T \in SUBSET DOMAIN adds
WithNext(adds, T) == T \cup {Len(adds) + 1}

(* A bin that shows its entries shows one more entry, and no entry that is *)
(* for another bin.                                                        *)
LEMMA ShowsMore ==
  ASSUME NEW h, NEW i, NEW adds, NEW a, NEW T,
         OfLog(adds, a, T), Flat(h, i) = Total(adds, 1, h.kind, T)
  PROVE  /\ More(h, i, a.v) = Total(Append(adds, a), 1, h.kind, WithNext(adds, T))
         /\ Flat(h, i) = Total(Append(adds, a), 1, h.kind, T)
  <1> DEFINE U == WithNext(adds, T)
             more == Append(adds, a)
             kind == h.kind
  <1>0. adds \in Seq(Entries) /\ a \in Entries /\ T \in SUBSET DOMAIN adds
    BY DEF OfLog
  <1>1. /\ SumAt(adds, T) \in Nat /\ Cardinality(T) \in Nat
        /\ SumAt(more, U) = SumAt(adds, T) + a.v /\ Cardinality(U) = Cardinality(T) + 1
    BY <1>0, TotalMore DEF WithNext
  <1>2. Total(more, 1, kind, T) = Total(adds, 1, kind, T)
    <2> HIDE DEF kind
    <2> QED
      BY <1>0, TotalStays
  <1> HIDE DEF U, more
  <1>3. CASE h.kind = "multi"
    <2>1. <<h.bins[i], h.hist[i]>> = <<SumAt(adds, T), Cardinality(T)>>
      BY <1>3 DEF Flat, Total
    <2>2. h.bins[i] = SumAt(adds, T) /\ h.hist[i] = Cardinality(T)
      BY <2>1
    <2>3. <<h.bins[i] + a.v, h.hist[i] + 1>> = <<SumAt(more, U), Cardinality(U)>>
      BY <1>1, <2>2
    <2>4. More(h, i, a.v) = Total(more, 1, kind, U)
      BY <1>3, <2>3 DEF More, Total
    <2> QED
      BY <1>2, <2>4, Zenon DEF U, more
  <1>4. CASE h.kind # "multi"
    <2>1. <<h.bins[i]>> = <<1 * Cardinality(T)>>
      BY <1>4 DEF Flat, Total
    <2>2. h.bins[i] + 1 = 1 * Cardinality(U)
      BY <1>1, <2>1
    <2>3. More(h, i, a.v) = Total(more, 1, kind, U)
      BY <1>4, <2>2 DEF More, Total
    <2> QED
      BY <1>2, <2>3, Zenon DEF U, more
  <1> QED
    BY <1>3, <1>4

(* A bin that was multiplied shows twice its entries. *)
LEMMA ShowsTwice ==
  ASSUME NEW h, h.kind = "single", NEW i \in DOMAIN h.bins, NEW adds \in Seq(Entries),
         NEW T \in SUBSET DOMAIN adds, Flat(h, i) = Total(adds, 1, h.kind, T)
  PROVE  <<2 * h.bins[i]>> = Total(adds, 2, h.kind, T)
  <1>1. <<h.bins[i]>> = <<1 * Cardinality(T)>>
    BY DEF Flat, Total
  <1>2. Cardinality(T) \in Nat
    <2>1. PICK m \in Nat : DOMAIN adds = 1 .. m
      BY ValuesAre
    <2>2. IsFiniteSet(1 .. m)
      BY FS_Interval
    <2> QED
      BY <2>1, <2>2, FS_Subset, FS_CardinalityType
  <1>3. h.bins[i] = Cardinality(T)
    BY <1>1, <1>2
  <1> QED
    BY <1>3 DEF Total

(* What the log says of a bin. *)
LEMMA LoggedIs ==
  \A b, h, T : Logged(b, h, T) = Total(b.adds, b.factor, h.kind, T)
  BY Zenon DEF Logged, Total, SumAt

(* The entries for a bin are of the log. *)
LEMMA EntriesOfLog ==
  \A b, i : /\ LoggedFor(b, i) \in SUBSET DOMAIN b.adds
            /\ \A j : LoggedForChild(b, i, j) \in SUBSET DOMAIN b.adds
  BY DEF LoggedFor, LoggedForChild

(* A histogram keeps its account when something is added to both. *)
LEMMA AddedKept ==
  ASSUME NEW b, b.adds \in Seq(Entries), b.factor = 1, Hist(b.h), Accounted(b),
         NEW a \in Entries, NEW c, AddedTo(c.h, b.h, a), c.adds = Append(b.adds, a), c.factor = 1
  PROVE  Accounted(c)
  <1> DEFINE g == c.h
             h == b.h
             adds == b.adds
             m == Len(b.adds) + 1
             p == GetBin(b.h, a.key)
  <1>1. /\ DOMAIN g.bins = DOMAIN h.bins /\ g.kind = h.kind
        /\ \A key : GetBin(g, key) = GetBin(h, key)
    <2>1. /\ g.kind = h.kind /\ g.min = h.min /\ g.max = h.max /\ g.scale = h.scale
          /\ DOMAIN g.bins = DOMAIN h.bins
      BY DEF AddedTo, Resembles
    <2> QED
      BY <2>1, SameBins
  <1>2. /\ DOMAIN c.adds = DOMAIN adds \cup {m} /\ m \notin DOMAIN adds
        /\ (\A k \in DOMAIN adds : c.adds[k] = adds[k]) /\ c.adds[m] = a
    BY LogGrows
  <1>3. \A i : LoggedFor(c, i) = LoggedFor(b, i) \cup (IF i = p THEN {m} ELSE {})
    <2> HIDE DEF m
    <2> QED
      BY <1>1, <1>2 DEF LoggedFor
  <1>4. CASE h.kind # "extended"
    <2> SUFFICES ASSUME NEW i \in DOMAIN h.bins
                 PROVE  Flat(g, i) = Logged(c, g, LoggedFor(c, i))
      BY <1>1, <1>4 DEF Accounted
    <2> DEFINE T == LoggedFor(b, i)
    <2>1. Flat(h, i) = Total(adds, 1, h.kind, T) /\ T \in SUBSET DOMAIN adds /\ FlatHist(h)
      BY <1>4, LoggedIs, EntriesOfLog DEF Accounted, Hist
    <2>2. Flat(g, i) = IF i = p THEN More(h, i, a.v) ELSE Flat(h, i)
      BY <1>4 DEF AddedTo
    <2>3. Logged(c, g, LoggedFor(c, i)) =
            Total(Append(adds, a), 1, h.kind, T \cup (IF i = p THEN {m} ELSE {}))
      <3>1. Logged(c, g, LoggedFor(c, i)) = Total(c.adds, c.factor, g.kind, LoggedFor(c, i))
        BY LoggedIs
      <3> QED
        BY <1>1, <1>3, <3>1, Zenon
    <2> HIDE DEF T, g, h, adds, p
    <2>4. OfLog(adds, a, T)
      BY <2>1 DEF OfLog, adds
    <2>5. /\ More(h, i, a.v) = Total(Append(adds, a), 1, h.kind, WithNext(adds, T))
          /\ Flat(h, i) = Total(Append(adds, a), 1, h.kind, T)
      BY <2>1, <2>4, ShowsMore
    <2>6. (IF i = p THEN More(h, i, a.v) ELSE Flat(h, i))
            = Total(Append(adds, a), 1, h.kind, T \cup (IF i = p THEN {Len(adds) + 1} ELSE {}))
      <3>1. T \cup {} = T
        OBVIOUS
      <3> QED
        BY <2>5, <3>1, Zenon DEF WithNext
    <2> QED
      BY <2>2, <2>3, <2>6, Zenon DEF adds, m
  <1>5. CASE h.kind = "extended"
    <2>0. \A i \in DOMAIN h.bins :
            DOMAIN g.bins[i].bins = DOMAIN h.bins[i].bins /\ g.bins[i].kind = h.bins[i].kind
              /\ \A key : GetBin(g.bins[i], key) = GetBin(h.bins[i], key)
      <3> SUFFICES ASSUME NEW i \in DOMAIN h.bins
                   PROVE  /\ DOMAIN g.bins[i].bins = DOMAIN h.bins[i].bins /\ g.bins[i].kind = h.bins[i].kind
                          /\ \A key : GetBin(g.bins[i], key) = GetBin(h.bins[i], key)
        OBVIOUS
      <3>1. Like(g.bins[i], h.bins[i])
        BY <1>5 DEF AddedTo, Resembles
      <3> QED
        BY <3>1, SameBins DEF Like
    <2> SUFFICES ASSUME NEW i \in DOMAIN h.bins, NEW j \in DOMAIN h.bins[i].bins
                 PROVE  Flat(g.bins[i], j) = Logged(c, g.bins[i], LoggedForChild(c, i, j))
      BY <1>1, <1>5, <2>0 DEF Accounted
    <2> DEFINE T == LoggedForChild(b, i, j)
               x == h.bins[i]
               hits == i = p /\ j = GetBin(x, a.key2)
    <2>1. Flat(x, j) = Total(adds, 1, x.kind, T) /\ T \in SUBSET DOMAIN adds /\ FlatHist(x)
      BY <1>5, LoggedIs, EntriesOfLog DEF Accounted, Hist
    <2>2. Flat(g.bins[i], j) = IF hits THEN More(x, j, a.v) ELSE Flat(x, j)
      BY <1>5 DEF AddedTo
    <2>3. LoggedForChild(c, i, j) = T \cup (IF hits THEN {m} ELSE {})
      <3> HIDE DEF m
      <3>1. \A k \in DOMAIN adds : GetBin(g.bins[i], c.adds[k].key2) = GetBin(x, adds[k].key2)
        BY <1>2, <2>0
      <3>2. GetBin(g.bins[i], c.adds[m].key2) = GetBin(x, a.key2)
        BY <1>2, <2>0
      <3>3. LoggedFor(b, i) \subseteq DOMAIN adds
        BY DEF LoggedFor
      <3> QED
        BY <1>2, <1>3, <3>1, <3>2, <3>3 DEF LoggedForChild
    <2>4. Logged(c, g.bins[i], LoggedForChild(c, i, j)) =
            Total(Append(adds, a), 1, x.kind, T \cup (IF hits THEN {m} ELSE {}))
      <3>1. Logged(c, g.bins[i], LoggedForChild(c, i, j))
              = Total(c.adds, c.factor, g.bins[i].kind, LoggedForChild(c, i, j))
        BY LoggedIs
      <3> QED
        BY <2>0, <2>3, <3>1, Zenon
    <2>5. j \in DOMAIN x.bins
      OBVIOUS
    <2> HIDE DEF T, x, g, h, adds, hits
    <2>6. (IF hits THEN More(x, j, a.v) ELSE Flat(x, j))
            = Total(Append(adds, a), 1, x.kind, T \cup (IF hits THEN {Len(adds) + 1} ELSE {}))
      <3>1. OfLog(adds, a, T)
        BY <2>1 DEF OfLog, adds
      <3>2. /\ More(x, j, a.v) = Total(Append(adds, a), 1, x.kind, WithNext(adds, T))
            /\ Flat(x, j) = Total(Append(adds, a), 1, x.kind, T)
        BY <2>1, <3>1, ShowsMore
      <3>3. T \cup {} = T
        OBVIOUS
      <3> QED
        BY <3>2, <3>3, Zenon DEF WithNext
    <2> QED
      BY <2>2, <2>4, <2>6, Zenon DEF adds, m
  <1> QED
    BY <1>4, <1>5

(* It keeps its account when both are doubled. *)
LEMMA DoubledKept ==
  ASSUME NEW b, b.adds \in Seq(Entries), b.factor = 1, Hist(b.h), OnlyCounts(b.h), Accounted(b),
         NEW c, Doubled(c.h, b.h), c.adds = b.adds, c.factor = 2
  PROVE  Accounted(c)
  <1> DEFINE g == c.h
             h == b.h
             adds == b.adds
  <1>1. /\ DOMAIN g.bins = DOMAIN h.bins /\ g.kind = h.kind
        /\ \A key : GetBin(g, key) = GetBin(h, key)
    <2>1. /\ g.kind = h.kind /\ g.min = h.min /\ g.max = h.max /\ g.scale = h.scale
          /\ DOMAIN g.bins = DOMAIN h.bins
      BY DEF Doubled, Resembles
    <2> QED
      BY <2>1, SameBins
  <1>2. \A i : LoggedFor(c, i) = LoggedFor(b, i)
    BY <1>1 DEF LoggedFor
  <1>3. CASE h.kind # "extended"
    <2> SUFFICES ASSUME NEW i \in DOMAIN h.bins
                 PROVE  Flat(g, i) = Logged(c, g, LoggedFor(c, i))
      BY <1>1, <1>3 DEF Accounted
    <2> DEFINE T == LoggedFor(b, i)
    <2>1. Flat(h, i) = Total(adds, 1, h.kind, T) /\ T \in SUBSET DOMAIN adds /\ h.kind = "single"
      BY <1>3, LoggedIs, EntriesOfLog DEF Accounted, OnlyCounts
    <2>2. Flat(g, i) = <<2 * h.bins[i]>>
      BY <1>3 DEF Doubled
    <2>3. Logged(c, g, LoggedFor(c, i)) = Total(adds, 2, h.kind, T)
      <3>1. Logged(c, g, LoggedFor(c, i)) = Total(c.adds, c.factor, g.kind, LoggedFor(c, i))
        BY LoggedIs
      <3> QED
        BY <1>1, <1>2, <3>1, Zenon
    <2> HIDE DEF T, g, h
    <2>4. <<2 * h.bins[i]>> = Total(adds, 2, h.kind, T)
      BY <2>1, ShowsTwice
    <2> QED
      BY <2>2, <2>3, <2>4, Zenon
  <1>4. CASE h.kind = "extended"
    <2>0. \A i \in DOMAIN h.bins :
            DOMAIN g.bins[i].bins = DOMAIN h.bins[i].bins /\ g.bins[i].kind = h.bins[i].kind
              /\ \A key : GetBin(g.bins[i], key) = GetBin(h.bins[i], key)
      <3> SUFFICES ASSUME NEW i \in DOMAIN h.bins
                   PROVE  /\ DOMAIN g.bins[i].bins = DOMAIN h.bins[i].bins /\ g.bins[i].kind = h.bins[i].kind
                          /\ \A key : GetBin(g.bins[i], key) = GetBin(h.bins[i], key)
        OBVIOUS
      <3>1. Like(g.bins[i], h.bins[i])
        BY <1>4 DEF Doubled, Resembles
      <3> QED
        BY <3>1, SameBins DEF Like
    <2> SUFFICES ASSUME NEW i \in DOMAIN h.bins, NEW j \in DOMAIN h.bins[i].bins
                 PROVE  Flat(g.bins[i], j) = Logged(c, g.bins[i], LoggedForChild(c, i, j))
      BY <1>1, <1>4, <2>0 DEF Accounted
    <2> DEFINE T == LoggedForChild(b, i, j)
               x == h.bins[i]
    <2>1. Flat(x, j) = Total(adds, 1, x.kind, T) /\ T \in SUBSET DOMAIN adds /\ x.kind = "single"
      BY <1>4, LoggedIs, EntriesOfLog DEF Accounted, OnlyCounts
    <2>2. Flat(g.bins[i], j) = <<2 * x.bins[j]>>
      BY <1>4 DEF Doubled
    <2>3. LoggedForChild(c, i, j) = T
      BY <1>2, <2>0 DEF LoggedForChild
    <2>4. Logged(c, g.bins[i], LoggedForChild(c, i, j)) = Total(adds, 2, x.kind, T)
      <3>1. Logged(c, g.bins[i], LoggedForChild(c, i, j))
              = Total(c.adds, c.factor, g.bins[i].kind, LoggedForChild(c, i, j))
        BY LoggedIs
      <3> QED
        BY <2>0, <2>3, <3>1, Zenon
    <2>5. j \in DOMAIN x.bins
      OBVIOUS
    <2> HIDE DEF T, x, g, h
    <2>6. <<2 * x.bins[j]>> = Total(adds, 2, x.kind, T)
      BY <2>1, <2>5, ShowsTwice
    <2> QED
      BY <2>2, <2>4, <2>6, Zenon
  <1> QED
    BY <1>3, <1>4

(* What is true of a histogram on the bench. *)
HistogramFields == {"is", "pc", "h", "adds", "factor"}
AccountKept(b) ==
  /\ HistogramFields \subseteq DOMAIN b /\ b.adds \in Seq(Entries) /\ b.factor \in Nat
  /\ Hist(b.h) /\ Accounted(b)
HistogramKept(b) == b.is = "histogram" => AccountKept(b)

(* A key or another histogram is added. *)
LEMMA AddingKeeps ==
  ASSUME NEW b, AccountKept(b), b.factor = 1, NEW a \in Entries, NEW c, DOMAIN c = DOMAIN b,
         AddedTo(c.h, b.h, a), c.adds = Append(b.adds, a), c.factor = 1
  PROVE  AccountKept(c)
  <1>1. HistogramFields \subseteq DOMAIN b /\ b.adds \in Seq(Entries) /\ Hist(b.h) /\ Accounted(b)
    BY DEF AccountKept
  <1>2. c.adds \in Seq(Entries)
    BY <1>1
  <1>3. Accounted(c)
    BY <1>1, AddedKept
  <1>4. Hist(c.h)
    BY DEF AddedTo, Resembles
  <1> QED
    BY <1>1, <1>2, <1>3, <1>4 DEF AccountKept

(* A histogram that counts is multiplied. *)
LEMMA MultiplyingKeeps ==
  ASSUME NEW b, AccountKept(b), b.factor = 1, OnlyCounts(b.h), NEW c, DOMAIN c = DOMAIN b,
         c.h = ScaleBins(b.h, 2), c.adds = b.adds, c.factor = 2
  PROVE  AccountKept(c)
  <1>1. HistogramFields \subseteq DOMAIN b /\ b.adds \in Seq(Entries) /\ Hist(b.h) /\ Accounted(b)
    BY DEF AccountKept
  <1>2. Doubled(c.h, b.h)
    <2> DEFINE h == b.h
    <2>1. Hist(h) /\ OnlyCounts(h)
      BY <1>1
    <2> HIDE DEF h
    <2>2. Doubled(ScaleBins(h, 2), h)
      BY <2>1, ScaleBinsIs
    <2> QED
      BY <2>2, Zenon DEF h
  <1>3. Accounted(c)
    BY <1>1, <1>2, DoubledKept
  <1>4. Hist(c.h)
    BY <1>2 DEF Doubled, Resembles
  <1> QED
    BY <1>1, <1>3, <1>4 DEF AccountKept

(* A histogram is empty, at first or again. *)
LEMMA EmptyKeeps ==
  ASSUME NEW c, HistogramFields \subseteq DOMAIN c, Hist(c.h), Empty(c.h), c.adds = <<>>, c.factor = 1
  PROVE  AccountKept(c)
  <1>1. c.factor \in Nat /\ c.adds \in Seq(Entries)
    OBVIOUS
  <1>2. Accounted(c)
    BY <1>1, EmptyAccounted
  <1> QED
    BY <1>1, <1>2 DEF AccountKept

(* A step of a histogram. *)
LEMMA BinningStep ==
  ASSUME HistogramKept(bench), [BinningNext \/ AnyAdd \/ Elsewhere({"histogram"})]_bench
  PROVE  HistogramKept(bench')
  <1>0. bench.is = "histogram" => AccountKept(bench)
    BY DEF HistogramKept
  <1>1. CASE NewHistogram
    <2>1. PICK s \in Shapes, kind \in {"single", "multi"}, extended \in BOOLEAN :
            LET new == IF kind = "single" THEN Single(s[1], 0, s[2]) ELSE Multi(s[1], 0, s[2])
                h == IF extended THEN Extended(kind, 0, s[2], s[1], 0, s[2]) ELSE new
            IN bench' = [is |-> "histogram", pc |-> "use", h |-> h, adds |-> <<>>, factor |-> 1]
      BY <1>1, Zenon DEF NewHistogram, PutOn
    <2> DEFINE new == IF kind = "single" THEN Single(s[1], 0, s[2]) ELSE Multi(s[1], 0, s[2])
               h == IF extended THEN Extended(kind, 0, s[2], s[1], 0, s[2]) ELSE new
    <2>2. Hist(h) /\ Empty(h)
      BY NewIsEmpty, Zenon
    <2>3. bench' = [is |-> "histogram", pc |-> "use", h |-> h, adds |-> <<>>, factor |-> 1]
      BY <2>1
    <2> HIDE DEF h
    <2>4. /\ HistogramFields \subseteq DOMAIN bench' /\ bench'.h = h /\ bench'.adds = <<>> /\ bench'.factor = 1
      BY <2>3 DEF HistogramFields
    <2> DEFINE c == bench'
    <2>5. HistogramFields \subseteq DOMAIN c /\ Hist(c.h) /\ Empty(c.h) /\ c.adds = <<>> /\ c.factor = 1
      BY <2>2, <2>4
    <2> HIDE DEF c
    <2>6. AccountKept(c)
      BY <2>5, EmptyKeeps
    <2> QED
      BY <2>6 DEF HistogramKept, c
  <1>2. ASSUME bench.is = "histogram", bench.factor = 1, NEW a \in Entries,
               bench' = [bench EXCEPT !.h = BinAdd(@, a), !.adds = Append(@, a)]
        PROVE  HistogramKept(bench')
    <2> DEFINE g == BinAdd(bench.h, a)
               more == Append(bench.adds, a)
               b == bench
               c == bench'
    <2>1. AccountKept(b) /\ HistogramFields \subseteq DOMAIN b
      BY <1>0, <1>2 DEF AccountKept
    <2>2. AddedTo(g, b.h, a)
      BY <2>1, BinAddIs DEF AccountKept
    <2>3. c = [b EXCEPT !.h = g, !.adds = more]
      BY <1>2
    <2> HIDE DEF g, more, c
    <2>4. DOMAIN c = DOMAIN b /\ c.h = g /\ c.adds = more /\ c.factor = 1
      BY <1>2, <2>1, <2>3 DEF HistogramFields
    <2>5. AccountKept(c)
      <3> HIDE DEF b
      <3>1. b.factor = 1 /\ c.adds = Append(b.adds, a)
        BY <1>2, <2>4 DEF b, more
      <3> QED
        BY <2>1, <2>2, <2>4, <3>1, AddingKeeps
    <2> QED
      BY <2>5 DEF HistogramKept, c
  <1>3. CASE AnyAdd
    <2>1. bench.is = "histogram" /\ bench.factor = 1
      BY <1>3 DEF AnyAdd, On
    <2>2. PICK a \in Entries : bench' = [bench EXCEPT !.h = BinAdd(@, a), !.adds = Append(@, a)]
      BY <1>3, Zenon DEF AnyAdd
    <2> QED
      BY <1>2, <2>1, <2>2
  <1>4. CASE AddKey
    <2>1. bench.is = "histogram" /\ bench.factor = 1
      BY <1>4 DEF AddKey, On
    <2>2. bench.h.max \in Int
      BY <1>0, <2>1 DEF AccountKept, Hist
    <2>3. PICK key \in {<<-1, 2>>, <<3, 2>>, <<2, 1>>, Exact(bench.h.max)},
               key2 \in (IF bench.h.kind = "extended" THEN {<<1, 2>>, <<5, 2>>} ELSE {<<0, 1>>}),
               v \in (IF bench.h.kind = "multi" THEN {1, 3} ELSE {1}) :
            LET a == [key |-> key, key2 |-> key2, v |-> v]
            IN bench' = [bench EXCEPT !.h = BinAdd(@, a), !.adds = Append(@, a)]
      BY <1>4, Zenon DEF AddKey
    <2> DEFINE a == [key |-> key, key2 |-> key2, v |-> v]
    <2>4. bench' = [bench EXCEPT !.h = BinAdd(@, a), !.adds = Append(@, a)]
      BY <2>3, Zenon
    <2>5. a \in Entries
      <3>1. Exact(bench.h.max) \in Int \X (Nat \ {0})
        BY <2>2 DEF Exact
      <3>2. key \in Int \X (Nat \ {0})
        BY <2>3, <3>1
      <3>3. key2 \in Int \X (Nat \ {0}) /\ v \in Nat
        BY <2>3
      <3> QED
        BY <3>2, <3>3 DEF Entries
    <2> HIDE DEF a
    <2> QED
      BY <1>2, <2>1, <2>4, <2>5
  <1>5. CASE AddHistogram
    <2> DEFINE b == bench
               c == bench'
               a == b.adds[1]
               more == Append(b.adds, a)
               g == SumBins(b.h, BinAdd(ClearBins(b.h), a))
               on == "summed"
    <2>1. b.is = "histogram" /\ b.factor = 1 /\ b.adds # <<>>
      BY <1>5 DEF AddHistogram, On
    <2>2. AccountKept(b) /\ HistogramFields \subseteq DOMAIN b /\ b.adds \in Seq(Entries) /\ Hist(b.h)
      BY <1>0, <2>1 DEF AccountKept
    <2>3. c = [b EXCEPT !.pc = on, !.adds = more, !.h = g]
      BY <1>5, Zenon DEF AddHistogram
    <2>4. a \in Entries
      BY <2>1, <2>2
    <2>5. AddedTo(g, b.h, a)
      <3> HIDE DEF b, a
      <3> QED
        BY <2>2, <2>4, SumBinsIs
    <2> HIDE DEF b, g, more, c, a, on
    <2>6. DOMAIN c = DOMAIN b /\ c.h = g /\ c.adds = more /\ c.factor = 1
      BY <2>1, <2>2, <2>3 DEF HistogramFields
    <2>7. AccountKept(c)
      <3>1. b.factor = 1 /\ c.adds = Append(b.adds, a)
        BY <2>1, <2>6 DEF more
      <3> QED
        BY <2>2, <2>4, <2>5, <2>6, <3>1, AddingKeeps
    <2> QED
      BY <2>7 DEF HistogramKept, c
  <1>6. CASE MultiplyHistogram
    <2> DEFINE b == bench
               c == bench'
               g == ScaleBins(b.h, 2)
               on == "summed"
    <2>1. /\ b.is = "histogram" /\ b.factor = 1 /\ "hist" \notin DOMAIN b.h
          /\ b.h.kind = "extended" => "hist" \notin DOMAIN b.h.bins[0]
      BY <1>6 DEF MultiplyHistogram, On
    <2>2. AccountKept(b) /\ HistogramFields \subseteq DOMAIN b /\ Hist(b.h)
      BY <1>0, <2>1 DEF AccountKept
    <2>3. c = [b EXCEPT !.pc = on, !.factor = 2, !.h = g]
      BY <1>6, Zenon DEF MultiplyHistogram
    <2>4. OnlyCounts(b.h)
      BY <2>1, <2>2, WhoCounts
    <2> HIDE DEF b, g, c, on
    <2>5. DOMAIN c = DOMAIN b /\ c.h = g /\ c.adds = b.adds /\ c.factor = 2
      BY <2>1, <2>2, <2>3 DEF HistogramFields
    <2>6. AccountKept(c)
      BY <2>1, <2>2, <2>4, <2>5, MultiplyingKeeps DEF g
    <2> QED
      BY <2>6 DEF HistogramKept, c
  <1>7. CASE ClearHistogram
    <2> DEFINE b == bench
               c == bench'
               g == ClearBins(b.h)
               on == "done"
    <2>1. b.is = "histogram"
      BY <1>7 DEF ClearHistogram, On
    <2>2. HistogramFields \subseteq DOMAIN b /\ Hist(b.h)
      BY <1>0, <2>1 DEF AccountKept
    <2>3. c = [b EXCEPT !.pc = on, !.h = g, !.adds = <<>>, !.factor = 1]
      BY <1>7, Zenon DEF ClearHistogram
    <2>4. Resembles(g, b.h) /\ Empty(g)
      <3> HIDE DEF b
      <3> QED
        BY <2>2, ClearBinsIs
    <2>5. Hist(g)
      BY <2>4 DEF Resembles
    <2> HIDE DEF b, g, c, on
    <2>6. DOMAIN c = DOMAIN b /\ c.h = g /\ c.adds = <<>> /\ c.factor = 1
      BY <2>2, <2>3 DEF HistogramFields
    <2>7. AccountKept(c)
      BY <2>2, <2>4, <2>5, <2>6, EmptyKeeps
    <2> QED
      BY <2>7 DEF HistogramKept, c
  <1>8. CASE TakeOff("histogram")
    BY <1>8 DEF TakeOff, NothingThere, HistogramKept
  <1>9. CASE AddBlocks \/ Finish("blocks")
    <2>1. CASE AddBlocks
      <3>1. bench'.is = "blocks"
        <4>1. PICK n \in 1 .. 4, e \in {4, 8}, L \in 1 .. 3, m \in 0 .. 3, multi \in BOOLEAN :
                /\ m > 0 => (L = 1 /\ ~multi)
                /\ LET one == IF multi THEN MultiBlocks(n, e, L) ELSE SingleBlocks(n, e, L)
                   IN bench' = [is |-> "blocks", pc |-> "done", n |-> n, e |-> e, L |-> L, m |-> m, multi |-> multi,
                                blocks |-> IF m = 0 THEN one ELSE ExtendedBlocks(m, one, SingleSize(n, e, L))]
          BY <2>1, Zenon DEF AddBlocks, PutOn
        <4> QED
          BY <4>1, Zenon
      <3> QED
        BY <3>1 DEF HistogramKept
    <2>2. CASE Finish("blocks")
      BY <2>2 DEF Finish, NothingThere, HistogramKept
    <2> QED
      BY <1>9, <2>1, <2>2
  <1>10. CASE Elsewhere({"histogram"})
    BY <1>10 DEF Elsewhere, HistogramKept
  <1>11. CASE bench' = bench
    BY <1>11
  <1> QED
    BY <1>1, <1>3, <1>4, <1>5, <1>6, <1>7, <1>8, <1>9, <1>10, <1>11 DEF BinningNext

(* The log and the bins of a histogram go together, with a factor, kinds   *)
(* and shapes of any kind.                                                 *)
THEOREM HistogramsKept == BinningSpec => []HistogramKept(bench)
  <1>1. bench = NothingThere => HistogramKept(bench)
    BY DEF NothingThere, HistogramKept
  <1>2. HistogramKept(bench) /\ [BinningNext \/ AnyAdd \/ Elsewhere({"histogram"})]_bench => HistogramKept(bench)'
    BY BinningStep
  <1> QED
    BY <1>1, <1>2, PTL DEF BinningSpec

(* Whatever sequence of keys, sums, factors and clearings a histogram has  *)
(* seen, every bin holds exactly what was added under its keys since the   *)
(* last clearing.                                                          *)
THEOREM BinsCorrect == BinningSpec => []BinsAccount
  <1>1. HistogramKept(bench) => BinsAccount
    BY DEF HistogramKept, AccountKept, Accounted, BinsAccount, On
  <1> QED
    BY <1>1, HistogramsKept, PTL
=============================================================================
