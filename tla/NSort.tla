------------------------------- MODULE NSort -------------------------------
(***************************************************************************)
(* src/xylose/nsort/NSort.h: sorting the items A into n_values buckets in  *)
(* place and in linear time, in steps of its moving pass.  On the bench:   *)
(*   given    the items as the caller handed them over                     *)
(*   A        the items now                                                *)
(*   map      the bucket of every item, which a tweaker may change         *)
(*   bin      counts of the buckets, then the ends of the buckets          *)
(*   ptr      the next place to fill in each bucket                        *)
(*   i        the bucket that is being filled                              *)
(*   cells    what setParticleRanges of examples/nsort/grid made of it     *)
(* Places are numbered from 0 as in the code, so A[p] is item p + 1 of A.  *)
(***************************************************************************)
EXTENDS Partitions

CONSTANTS MaxInts, MaxParticles   \* how many items there are to sort at most

ASSUME ItemsAssumption == MaxInts \in Nat /\ MaxParticles \in Nat

Buckets(n) == 0 .. n - 1

End(bin, i) == bin[i]

Begin(bin, i) == IF i = 0 THEN 0 ELSE bin[i - 1]

(* The bucket of the item in place p. *)
BucketAt(b, p) == b.map[b.A[p + 1]]

(* The loop that counts the items of each value. *)
Counts(items, map, n) ==
  [v \in Buckets(n) |-> Cardinality({p \in 1 .. Len(items) : map[items[p]] = v})]

(* The running sum that turns counts into ends; a bucket starts where the  *)
(* one before it ends.                                                     *)
Ends(bin, n) == [v \in Buckets(n) |-> SumOver(bin, 0 .. v)]

(* sort() up to the tweaker's turn. *)
SortCall(items, map, n, about) ==
  PutOn([is |-> "NSort", pc |-> "counted", n |-> n, given |-> items, A |-> items,
         map |-> map, bin |-> Counts(items, map, n), tweaked |-> FALSE, i |-> 0,
         ptr |-> [v \in Buckets(n) |-> 0], about |-> about, cells |-> <<>>])

(* The user's tweaker may send whole values elsewhere, as by writing the   *)
(* table of a remap.  It is handed the counts and has to move them along:  *)
(* ends computed from counts that the map no longer gives would send the   *)
(* moving pass beyond the items.                                           *)
Tweak ==
  /\ On("NSort") /\ bench.pc = "counted" /\ ~bench.tweaked /\ bench.about = "ints"
  /\ \E table \in [Buckets(bench.n) -> Buckets(bench.n)] :
       /\ table # RemapReset(bench.n)
       /\ bench' = [bench EXCEPT !.tweaked = TRUE,
                                 !.map = [x \in DOMAIN @ |-> table[@[x]]],
                                 !.bin = [w \in Buckets(bench.n) |->
                                            SumOver(@, {v \in DOMAIN table : table[v] = w})]]

Position ==
  /\ On("NSort") /\ bench.pc = "counted"
  /\ bench' = [bench EXCEPT !.pc = "moving", !.bin = Ends(@, bench.n),
                            !.ptr = [v \in Buckets(bench.n) |->
                                       Begin(Ends(bench.bin, bench.n), v)]]

Filling(b) ==
  b.is = "NSort" /\ b.pc = "moving" /\ b.i < b.n /\ b.ptr[b.i] < End(b.bin, b.i)

(* Bug: the item that came in exchange is taken for one of this bucket. *)
MoveOnBoth(b) ==
  LET pos == b.ptr[b.i]
      v == BucketAt(b, pos)
      pos2 == b.ptr[v]
  IN [b EXCEPT !.A = [@ EXCEPT ![pos + 1] = b.A[pos2 + 1], ![pos2 + 1] = b.A[pos + 1]],
               !.ptr = [u \in DOMAIN @ |-> IF u \in {v, b.i} THEN @[u] + 1 ELSE @[u]]]

(* One turn of the moving loop: the item either stays, when the next place *)
(* of its bucket is this one, or changes places with the item there.       *)
Move(b) ==
  LET pos == b.ptr[b.i]
      v == BucketAt(b, pos)
      pos2 == b.ptr[v]
  IN IF pos = pos2 THEN [b EXCEPT !.ptr[b.i] = @ + 1]
     ELSE [b EXCEPT !.A = [@ EXCEPT ![pos + 1] = b.A[pos2 + 1], ![pos2 + 1] = b.A[pos + 1]],
                    !.ptr[v] = @ + 1]

MoveItem == Filling(bench) /\ bench' = Move(bench)

NextBucket ==
  /\ On("NSort") /\ bench.pc = "moving" /\ ~Filling(bench)
  /\ bench' = IF bench.i < bench.n THEN [bench EXCEPT !.i = @ + 1]
              ELSE [bench EXCEPT !.pc = "sorted"]

(* IteratorRange and w_species_fields::setSpeciesRanges: a range of items  *)
(* per species, from bucket si on.                                         *)
RangeOf(b, first, last) == [begin |-> Begin(b.bin, first), end |-> End(b.bin, last)]

SpeciesRanges(b, si, n_species) ==
  [k \in 0 .. n_species - 1 |-> RangeOf(b, si + k, si + k)]

(* Grid::setParticleRanges of the example, with two species per cell. *)
ParticleRanges(b, n_species) ==
  [c \in 0 .. (b.n \div n_species) - 1 |->
     [particles |-> RangeOf(b, c * n_species, c * n_species + n_species - 1),
      species |-> SpeciesRanges(b, c * n_species, n_species)]]

SetParticleRanges ==
  /\ On("NSort") /\ bench.pc = "sorted"
  /\ bench' = [bench EXCEPT !.pc = "done",
                 !.cells = IF bench.about = "grid" THEN ParticleRanges(bench, 2) ELSE <<>>]

SortReturn == Finish("NSort")
-----------------------------------------------------------------------------
(* The sorts of examples/nsort: the map and the number of buckets given to *)
(* the constructor.                                                        *)
WithTypes(base) == Chain(<<[of |-> "w_species"]>>, base)

PivotBase(dims) == [of |-> "pivot", dims |-> dims]

ExampleSorts ==
  {[about |-> "pivot", chain |-> Chain(<<>>, PivotBase(d)), n |-> PowerOf2[Len(d)]] :
     d \in {<<0>>, <<0, 1>>, <<0, 1, 2>>}} \cup
  {[about |-> "pivot", chain |-> WithTypes(PivotBase(d)), n |-> 2 * PowerOf2[Len(d)]] :
     d \in {<<0>>, <<0, 1>>, <<0, 1, 2>>}} \cup
  {[about |-> "grid", chain |-> WithTypes([of |-> "grid", dims |-> <<0>>]),
    n |-> NumberValues(WithTypes([of |-> "grid", dims |-> <<0>>]))],
   [about |-> "species", chain |-> <<[of |-> "species"]>>, n |-> 2]}

(* initPVector: particles anywhere, here on both sides of every border. *)
ParticlesFor(about) ==
  CASE about = "pivot" -> [x : {Point(a, b, c) : a, b, c \in {-1, 0}}, species : 0 .. 1]
    [] about = "grid"  -> [x : {Point(a, 0, 0) : a \in -1 .. 3}, species : 0 .. 1]
    [] OTHER           -> [x : {Origin}, species : 0 .. 1]

BucketsOf(chain, items) == [p \in Range(items) |-> MapValue(chain, p)]

(* The maps of the examples give every particle a bucket of the sort. *)
ASSUME MapsAssumption ==
  \A s \in ExampleSorts :
    s.n \in Nat /\ \A p \in ParticlesFor(s.about) : MapValue(s.chain, p) \in Buckets(s.n)

SortInts ==
  Free /\ \E items \in BoundedSeq(0 .. 2, MaxInts) :
    SortCall(items, [v \in 0 .. 2 |-> Direct(v)], 3, "ints")

SortParticles ==
  Free /\ \E s \in ExampleSorts : \E items \in BoundedSeq(ParticlesFor(s.about), MaxParticles) :
    SortCall(items, BucketsOf(s.chain, items), s.n, s.about)

NSortNext ==
  \/ SortInts \/ SortParticles \/ Tweak \/ Position
  \/ MoveItem \/ NextBucket \/ SetParticleRanges \/ SortReturn
-----------------------------------------------------------------------------
(* The moving pass swaps items through pointers into the other buckets.    *)
(* At every turn of it, also when a tweaker merged or exchanged values     *)
(* after the counting, no item is lost or doubled, both pointers stay      *)
(* inside of the items, and the places already filled hold items of their  *)
(* bucket; at the end all do, although buckets before the one being filled *)
(* are never looked at again.                                              *)
MovesKeepBuckets ==
  On("NSort") =>
    /\ ToBag(bench.A) = ToBag(bench.given)
    /\ Filling(bench) => bench.ptr[BucketAt(bench, bench.ptr[bench.i])] \in 0 .. Len(bench.A) - 1
    /\ bench.pc # "counted" =>
         \A v \in Buckets(bench.n) :
           /\ bench.ptr[v] \in Begin(bench.bin, v) .. End(bench.bin, v)
           /\ \A p \in Begin(bench.bin, v) .. bench.ptr[v] - 1 : BucketAt(bench, p) = v
    /\ bench.pc \in {"sorted", "done"} =>
         \A v \in Buckets(bench.n) : bench.ptr[v] = End(bench.bin, v)

(* After a sort of the grid example the ranges that setParticleRanges made *)
(* of the ends of the buckets take up exactly the items of those buckets:  *)
(* two species and their cell.                                             *)
RangesHoldBuckets ==
  On("NSort") /\ bench.pc = "done" /\ bench.about = "grid" =>
    \A p \in 0 .. Len(bench.A) - 1 :
      LET in(r) == r.begin <= p /\ p < r.end
      IN \A c \in DOMAIN bench.cells :
           /\ in(bench.cells[c].particles) = (BucketAt(bench, p) \div 2 = c)
           /\ \A k \in DOMAIN bench.cells[c].species :
                in(bench.cells[c].species[k]) = (BucketAt(bench, p) = 2 * c + k)

(* The sort fills the buckets and its ranges find them.                    *)
SortsByBucket == MovesKeepBuckets /\ RangesHoldBuckets

(* After the grid example's sort the cells' ranges cut up all particles,   *)
(* every particle stands in the range of the cell it lies in (the border   *)
(* cell when it lies outside) and there in the range of its species.       *)
CellsHoldTheirParticles ==
  On("NSort") /\ bench.pc = "done" /\ bench.about = "grid" =>
    \A p \in 0 .. Len(bench.A) - 1 :
      LET q == bench.A[p + 1]
          in(r) == r.begin <= p /\ p < r.end
          home == CHOOSE c \in 0 .. AGrid.size[0] - 1 :
                    c = Max({0, Min({AGrid.size[0] - 1, q.x[0] - AGrid.x0[0]})})
      IN \A c \in DOMAIN bench.cells :
           /\ in(bench.cells[c].particles) = (c = home)
           /\ \A k \in DOMAIN bench.cells[c].species :
                in(bench.cells[c].species[k]) = (c = home /\ k = q.species)
=============================================================================
