---------------------------- MODULE SegmentIndex ----------------------------
(***************************************************************************)
(* The index of an element of a segmented_vector: a segment and a position *)
(* in it (src/xylose/Index.hpp, and detail/Iterator.hpp, which adds the    *)
(* container).  Both are size_t, here numbers modulo Words.                *)
(***************************************************************************)
EXTENDS Integers

CONSTANTS
  SegmentSize,   \* template argument kSegmentSize
  Words          \* values of a size_t, a bound on the sizes too

ASSUME IndexAssumption ==
  /\ SegmentSize \in Nat \ {0}
  /\ Words \in Nat /\ Words > 2 * SegmentSize

Index(segment, position) == [segment |-> segment, position |-> position]

(* numeric_limits<size_type>::max(): also what rend() is. *)
InvalidIndex == Index(Words - 1, SegmentSize - 1)

FromInteger(i) == Index(i \div SegmentSize, i % SegmentSize)

Linear(i) == SegmentSize * i.segment + i.position

Wrap(n) == n % Words

(* ptrdiff_t *)
Signed(n) == IF n < Words \div 2 THEN n ELSE n - Words

(* IndexAdjuster forward: operator++, and operator-- of a reverse index. *)
Increment(i) ==
  IF i.position + 1 >= SegmentSize THEN Index(Wrap(i.segment + 1), 0)
  ELSE Index(i.segment, i.position + 1)

(* IndexAdjuster backward: operator--, and operator++ of a reverse index. *)
Decrement(i) ==
  IF i.position > 0 THEN Index(i.segment, i.position - 1)
  ELSE Index(Wrap(i.segment - 1), SegmentSize - 1)

(* operator+= and operator+, n >= 0. *)
Forward(i, n) ==
  LET position == Wrap(i.position + n)
  IN Index(Wrap(i.segment + position \div SegmentSize), position % SegmentSize)

(* Bug: one segment is borrowed from at most. *)
BackwardOne(i, n) ==
  IF n <= i.position THEN Index(i.segment, i.position - n)
  ELSE Index(i.segment - 1, i.position + SegmentSize - n)

(* operator-= and operator-, n >= 0. *)
Backward(i, n) ==
  IF n <= i.position THEN Index(i.segment, i.position - n)
  ELSE FromInteger(Wrap(Linear(i) - n))

Plus(i, n) == IF n < 0 THEN Backward(i, -n) ELSE Forward(i, n)

Minus(i, j) ==
  Signed(Wrap((i.segment - j.segment) * SegmentSize + i.position - j.position))

Less(i, j) ==
  i.segment < j.segment \/ (i.segment = j.segment /\ i.position < j.position)

=============================================================================
