------------------------------ MODULE Partitions ------------------------------
(***************************************************************************)
(* The partial quicksorts that examples/nsort/basic compares NSort with:   *)
(* partition, which the octree sort used, in the scans of its two          *)
(* iterators, and quadpartition and octpartition over std::partition.      *)
(***************************************************************************)
EXTENDS SortMaps

CONSTANT MaxParts   \* how many items there are to partition at most

(* partition(Ai, Af, pivot) of one direction; items are coordinates. *)
PartitionCall ==
  Free /\ \E A \in BoundedSeq({-1, 0, 1}, MaxParts) :
    /\ A # <<>>
    /\ PutOn([is |-> "partition", pc |-> "scan", given |-> A, A |-> A, pivot |-> 0,
              left |-> 1, right |-> Len(A), swaps |-> 0, split |-> 0])

(* Both scans stop where the iterators meet. *)
ScanLeft(b) ==
  Min({k \in b.left .. b.right : k = b.right \/ b.A[k] > b.pivot})

ScanRight(b, left) ==
  Max({k \in left .. b.right : k = left \/ b.A[k] <= b.pivot})

PartitionTurn ==
  /\ On("partition") /\ bench.pc = "scan" /\ bench.left < bench.right
  /\ LET l == ScanLeft(bench)
         r == ScanRight(bench, l)
     IN bench' = [bench EXCEPT !.left = l, !.right = r,
                    !.A = IF l < r THEN [@ EXCEPT ![l] = bench.A[r], ![r] = bench.A[l]] ELSE @,
                    !.swaps = IF l < r THEN @ + 1 ELSE @]

(* Without a swap the ends tell whether the items were in order already or *)
(* all on one side; the result is a place, numbered from 1 here.           *)
PartitionReturn ==
  /\ On("partition") /\ bench.pc = "scan" /\ bench.left >= bench.right
  /\ bench' = [bench EXCEPT !.pc = "done",
                 !.split = IF \/ bench.swaps > 0
                              \/ bench.A[1] <= bench.pivot /\ Last(bench.A) > bench.pivot
                           THEN bench.right ELSE 1]

(* std::partition of the items lo to hi - 1: any arrangement with the      *)
(* items of pred before the others.                                        *)
StdPartitions(A, lo, hi, dir) ==
  LET first(p) == p.x[dir] < 0
      m == lo + Cardinality({k \in lo .. hi - 1 : first(A[k])})
  IN {[k \in 1 .. Len(A) |-> IF k \in lo .. hi - 1 THEN A[f[k]] ELSE A[k]] :
        f \in {g \in Permutations(lo .. hi - 1) :
                 \A k \in lo .. hi - 1 : first(A[g[k]]) = (k < m)}}

Boundary(A, lo, hi, dir) == lo + Cardinality({k \in lo .. hi - 1 : A[k].x[dir] < 0})

(* quadpartition<x,y> and octpartition<x,y,z>, as the ranges that are      *)
(* still to be split, each by the last of its directions first.            *)
OctPartitionCall ==
  Free /\ \E dirs \in {<<0, 1>>, <<0, 1, 2>>},
     A \in BoundedSeq([x : {Point(a, b, c) : a, b, c \in {-1, 0}}, species : {0}], MaxParts - 1) :
    /\ A # <<>>
    /\ PutOn([is |-> "octpartition", pc |-> "split", given |-> A, A |-> A, dims |-> dirs,
              todo |-> <<[lo |-> 1, hi |-> Len(A) + 1, dirs |-> dirs]>>])

Split ==
  /\ On("octpartition") /\ bench.pc = "split" /\ bench.todo # <<>>
  /\ LET t == Head(bench.todo)
         d == Last(t.dirs)
         m == Boundary(bench.A, t.lo, t.hi, d)
     IN \E B \in StdPartitions(bench.A, t.lo, t.hi, d) :
          bench' = [bench EXCEPT !.A = B, !.todo =
            (IF Len(t.dirs) = 1 THEN <<>>
             ELSE <<[lo |-> t.lo, hi |-> m, dirs |-> Front(t.dirs)],
                    [lo |-> m, hi |-> t.hi, dirs |-> Front(t.dirs)]>>) \o Tail(@)]

OctPartitionReturn ==
  /\ On("octpartition") /\ bench.pc = "split" /\ bench.todo = <<>>
  /\ bench' = [bench EXCEPT !.pc = "done"]

PartitionNext ==
  \/ PartitionCall \/ PartitionTurn \/ PartitionReturn \/ Finish("partition")
  \/ OctPartitionCall \/ Split \/ OctPartitionReturn \/ Finish("octpartition")
-----------------------------------------------------------------------------
(* A partition that returns a place other than the beginning has all items *)
(* up to the pivot before it and all others from it on, and one that       *)
(* returns the beginning found all items on one side; quadpartition and    *)
(* octpartition leave the items in the order of the buckets of NSort's     *)
(* pivot map over the same directions, whatever std::partition does within *)
(* each part.                                                              *)
PartitionsMatchPivot ==
  bench.is \in {"partition", "octpartition"} /\ bench.pc = "done" =>
    /\ ToBag(bench.A) = ToBag(bench.given)
    /\ On("partition") =>
         \/ bench.split > 1 /\ \A k \in DOMAIN bench.A :
                                 (k < bench.split) = (bench.A[k] <= bench.pivot)
         \/ bench.split = 1 /\ \A j, k \in DOMAIN bench.A :
                                 (bench.A[j] <= bench.pivot) = (bench.A[k] <= bench.pivot)
    /\ On("octpartition") =>
         \A j, k \in DOMAIN bench.A : j < k =>
           PivotOf(bench.dims, Origin, bench.A[j]) <= PivotOf(bench.dims, Origin, bench.A[k])
=============================================================================
