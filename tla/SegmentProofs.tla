---------------------------- MODULE SegmentProofs ----------------------------
(***************************************************************************)
(* Lemmas about the indices and the values of a segmented_vector: counting *)
(* from begin() is counting numbers, and a packed vector is the sequence   *)
(* of its elements with the segments they happen to be in.                 *)
(***************************************************************************)
EXTENDS Segments, WellFoundedInduction, TLAPS

-----------------------------------------------------------------------------
(* Division *)

LEMMA DivMod ==
  ASSUME NEW k \in Int, NEW s \in Nat, s > 0
  PROVE  k \div s \in Int /\ (k % s) \in 0 .. s - 1 /\ k = s * (k \div s) + (k % s)
  OBVIOUS

LEMMA TimesLeast ==
  ASSUME NEW s \in Nat, NEW d \in Int, s > 0, d >= 1
  PROVE  s * d >= s
  OBVIOUS

LEMMA TimesMinus ==
  ASSUME NEW s \in Int, NEW d \in Int, NEW e \in Int
  PROVE  s * d - s * e = s * (d - e) /\ (d - e) * s = s * d - s * e /\ s * (d + e) = s * d + s * e
  OBVIOUS

LEMMA TimesApart ==
  ASSUME NEW s \in Nat, NEW d \in Int, NEW e \in Int, s > 0, d < e
  PROVE  s * d + s <= s * e
  <1>1. e - d \in Int /\ e - d >= 1
    OBVIOUS
  <1>2. s * (e - d) >= s
    BY <1>1, TimesLeast
  <1>3. s * e - s * d = s * (e - d)
    BY TimesMinus
  <1>4. s * e \in Int /\ s * d \in Int
    OBVIOUS
  <1> QED
    BY <1>2, <1>3, <1>4

LEMMA DivUnique ==
  ASSUME NEW k \in Int, NEW s \in Nat, s > 0, NEW q \in Int, NEW r \in 0 .. s - 1, k = s * q + r
  PROVE  k \div s = q /\ (k % s) = r
  <1>1. k \div s \in Int /\ (k % s) \in 0 .. s - 1 /\ k = s * (k \div s) + (k % s)
    BY DivMod
  <1>2. ~(k \div s < q)
    <2>1. k \div s < q => s * (k \div s) + s <= s * q
      BY <1>1, TimesApart
    <2>2. s * (k \div s) \in Int /\ s * q \in Int
      BY <1>1
    <2> QED
      BY <1>1, <2>1, <2>2
  <1>3. ~(q < k \div s)
    <2>1. q < k \div s => s * q + s <= s * (k \div s)
      BY <1>1, TimesApart
    <2>2. s * (k \div s) \in Int /\ s * q \in Int
      BY <1>1
    <2> QED
      BY <1>1, <2>1, <2>2
  <1> QED
    BY <1>1, <1>2, <1>3

-----------------------------------------------------------------------------
(* Indices *)

(* The index of number k has the segment and the position that make k. *)
LEMMA NumberPlace ==
  ASSUME NEW k \in Nat
  PROVE  /\ FromInteger(k).segment \in 0 .. k /\ FromInteger(k).position \in 0 .. SegmentSize - 1
         /\ k = SegmentSize * FromInteger(k).segment + FromInteger(k).position
         /\ FromInteger(k) = Index(FromInteger(k).segment, FromInteger(k).position)
  <1> DEFINE q == k \div SegmentSize
             r == k % SegmentSize
  <1>1. q \in Int /\ r \in 0 .. SegmentSize - 1 /\ k = SegmentSize * q + r
    BY DivMod, IndexAssumption
  <1>2. q >= 0
    <2>1. q < 0 => SegmentSize * q + SegmentSize <= SegmentSize * 0
      BY <1>1, TimesApart, IndexAssumption
    <2> QED
      BY <1>1, <2>1, IndexAssumption
  <1>3. q <= k
    <2>1. CASE q = 0
      BY <2>1
    <2>2. CASE q >= 1
      <3>1. q * SegmentSize >= q
        BY <1>1, <1>2, TimesLeast, IndexAssumption
      <3> QED
        BY <1>1, <3>1, IndexAssumption
    <2> QED
      BY <1>1, <1>2, <2>1, <2>2
  <1>4. FromInteger(k) = Index(q, r)
    BY DEF FromInteger
  <1> HIDE DEF q, r
  <1> QED
    BY <1>1, <1>2, <1>3, <1>4 DEF Index

LEMMA PlaceNumber ==
  ASSUME NEW q \in Nat, NEW r \in 0 .. SegmentSize - 1
  PROVE  SegmentSize * q + r \in Nat /\ Index(q, r) = FromInteger(SegmentSize * q + r)
  <1>1. SegmentSize * q + r \in Nat
    BY IndexAssumption
  <1>2. (SegmentSize * q + r) \div SegmentSize = q /\ ((SegmentSize * q + r) % SegmentSize) = r
    BY <1>1, DivUnique, IndexAssumption
  <1> QED
    BY <1>1, <1>2 DEF FromInteger

LEMMA NumbersDiffer ==
  ASSUME NEW k \in Nat, NEW m \in Nat, FromInteger(k) = FromInteger(m)
  PROVE  k = m
  BY NumberPlace

LEMMA WrapInside ==
  ASSUME NEW n \in 0 .. Words - 1
  PROVE  Wrap(n) = n
  BY DivUnique, IndexAssumption DEF Wrap

LEMMA WrapBelow ==
  ASSUME NEW n \in -Words .. -1
  PROVE  Wrap(n) = n + Words
  <1>1. n = Words * (-1) + (n + Words) /\ n + Words \in 0 .. Words - 1
    BY IndexAssumption
  <1> QED
    BY <1>1, DivUnique, IndexAssumption DEF Wrap

LEMMA LessExact ==
  ASSUME NEW k \in Nat, NEW m \in Nat
  PROVE  Less(FromInteger(k), FromInteger(m)) <=> k < m
  <1> DEFINE i == FromInteger(k)
             j == FromInteger(m)
  <1>1. /\ i.segment \in Nat /\ i.position \in 0 .. SegmentSize - 1
        /\ j.segment \in Nat /\ j.position \in 0 .. SegmentSize - 1
        /\ k = SegmentSize * i.segment + i.position /\ m = SegmentSize * j.segment + j.position
    BY NumberPlace
  <1> HIDE DEF i, j
  <1>2. CASE i.segment = j.segment
    BY <1>1, <1>2, IndexAssumption DEF Less, i, j
  <1>3. CASE i.segment < j.segment
    <2>1. SegmentSize * i.segment + SegmentSize <= SegmentSize * j.segment
      BY <1>1, <1>3, TimesApart, IndexAssumption
    <2>2. k < m
      BY <1>1, <2>1, IndexAssumption
    <2> QED
      BY <1>3, <2>2 DEF Less, i, j
  <1>4. CASE j.segment < i.segment
    <2>1. SegmentSize * j.segment + SegmentSize <= SegmentSize * i.segment
      BY <1>1, <1>4, TimesApart, IndexAssumption
    <2>2. m < k
      BY <1>1, <2>1, IndexAssumption
    <2> QED
      BY <1>1, <1>4, <2>2 DEF Less, i, j
  <1> QED
    BY <1>1, <1>2, <1>3, <1>4

(* Numbers that a container of size() bound at most has: half of the words are enough. *)
Fits(k) == k \in Nat /\ 2 * (k + SegmentSize) < Words

LEMMA MinusExact ==
  ASSUME NEW k, NEW m, Fits(k), Fits(m)
  PROVE  Minus(FromInteger(k), FromInteger(m)) = k - m
  <1> DEFINE i == FromInteger(k)
             j == FromInteger(m)
  <1>1. /\ i.segment \in Nat /\ i.position \in 0 .. SegmentSize - 1
        /\ j.segment \in Nat /\ j.position \in 0 .. SegmentSize - 1
        /\ k = SegmentSize * i.segment + i.position /\ m = SegmentSize * j.segment + j.position
    BY NumberPlace DEF Fits
  <1> HIDE DEF i, j
  <1>2. (i.segment - j.segment) * SegmentSize + i.position - j.position = k - m
    <2>1. (i.segment - j.segment) * SegmentSize = SegmentSize * i.segment - SegmentSize * j.segment
      BY <1>1, TimesMinus, IndexAssumption
    <2> QED
      BY <1>1, <2>1, IndexAssumption
  <1>3. Minus(i, j) = Signed(Wrap(k - m))
    BY <1>2 DEF Minus
  <1>4. Words \div 2 \in Int /\ Words = 2 * (Words \div 2) + (Words % 2) /\ (Words % 2) \in 0 .. 1
    BY DivMod, IndexAssumption
  <1>5. CASE k >= m
    <2>1. Wrap(k - m) = k - m
      BY <1>5, WrapInside, IndexAssumption DEF Fits
    <2>2. k - m < Words \div 2
      BY <1>4, <1>5, IndexAssumption DEF Fits
    <2> QED
      BY <1>3, <2>1, <2>2 DEF Signed, i, j
  <1>6. CASE k < m
    <2>1. Wrap(k - m) = k - m + Words
      BY <1>6, WrapBelow, IndexAssumption DEF Fits
    <2>2. ~(k - m + Words < Words \div 2)
      BY <1>4, <1>6, IndexAssumption DEF Fits
    <2>3. Minus(i, j) = (k - m + Words) - Words
      BY <1>3, <2>1, <2>2 DEF Signed
    <2> QED
      BY <2>3, IndexAssumption DEF Fits, i, j
  <1> QED
    BY <1>5, <1>6 DEF Fits

LEMMA PlusExact ==
  ASSUME NEW k, NEW d \in Int, Fits(k), Fits(k + d)
  PROVE  Plus(FromInteger(k), d) = FromInteger(k + d)
  <1> DEFINE i == FromInteger(k)
  <1>1. /\ i.segment \in 0 .. k /\ i.position \in 0 .. SegmentSize - 1
        /\ k = SegmentSize * i.segment + i.position
    BY NumberPlace DEF Fits
  <1>0. k \in Nat /\ k + d \in Nat /\ SegmentSize \in Nat /\ SegmentSize > 0
    BY IndexAssumption DEF Fits
  <1> HIDE DEF i
  <1>2. CASE d >= 0
    <2> DEFINE position == i.position + d
               q == position \div SegmentSize
               r == position % SegmentSize
    <2>0. position \in Nat
      BY <1>0, <1>1, <1>2
    <2>1. Wrap(position) = position
      BY <1>1, <1>2, WrapInside, IndexAssumption DEF Fits
    <2>a. position = i.position + d
      OBVIOUS
    <2> HIDE DEF position
    <2>2. q \in Int /\ r \in 0 .. SegmentSize - 1 /\ position = SegmentSize * q + r
      BY <1>0, <2>0, DivMod
    <2>b. Forward(i, d) = Index(Wrap(i.segment + q), r)
      BY <2>1 DEF Forward, position
    <2> HIDE DEF q, r
    <2>3. q \in Nat
      <3>1. q < 0 => SegmentSize * q + SegmentSize <= SegmentSize * 0
        BY <1>0, <2>2, TimesApart
      <3> QED
        BY <1>0, <2>0, <2>2, <3>1
    <2>4. SegmentSize * (i.segment + q) + r = k + d
      <3>1. SegmentSize * (i.segment + q) = SegmentSize * i.segment + SegmentSize * q
        BY <1>0, <1>1, <2>3, TimesMinus
      <3>2. SegmentSize * i.segment \in Int /\ SegmentSize * q \in Int
        BY <1>0, <1>1, <2>2
      <3>3. i.position \in Int /\ r \in Int /\ d \in Int
        BY <1>0, <1>1, <2>2
      <3>4. k + d = SegmentSize * i.segment + position
        BY <1>1, <2>a, <3>2, <3>3
      <3>5. k + d = SegmentSize * i.segment + (SegmentSize * q + r)
        BY <2>2, <3>4
      <3> QED
        BY <3>1, <3>2, <3>3, <3>5
    <2>5. r \in 0 .. SegmentSize - 1 /\ i.segment + q \in Nat
      BY <1>1, <2>2, <2>3
    <2>6. Index(i.segment + q, r) = FromInteger(k + d)
      BY <2>4, <2>5, PlaceNumber
    <2>7. Wrap(i.segment + q) = i.segment + q
      <3>1. FromInteger(k + d).segment = i.segment + q
        BY <2>6 DEF Index
      <3>2. i.segment + q <= k + d
        BY <1>0, <3>1, NumberPlace
      <3> QED
        BY <2>5, <3>2, WrapInside, IndexAssumption DEF Fits
    <2> QED
      BY <1>2, <2>6, <2>7, <2>b DEF Plus, i
  <1>3. CASE d < 0
    <2>1. Plus(i, d) = Backward(i, -d)
      BY <1>3 DEF Plus
    <2>2. CASE -d <= i.position
      <3>1. i.position + d \in 0 .. SegmentSize - 1
        BY <1>0, <1>1, <1>3, <2>2
      <3>2. SegmentSize * i.segment + (i.position + d) = k + d
        BY <1>0, <1>1
      <3>3. Index(i.segment, i.position + d) = FromInteger(k + d)
        BY <1>1, <3>1, <3>2, PlaceNumber
      <3>4. i.position - (-d) = i.position + d
        BY <1>1
      <3> QED
        BY <2>1, <2>2, <3>3, <3>4 DEF Backward, i
    <2>3. CASE ~(-d <= i.position)
      <3>1. Linear(i) - (-d) = k + d
        BY <1>0, <1>1 DEF Linear
      <3>2. Wrap(k + d) = k + d
        BY <1>0, WrapInside, IndexAssumption DEF Fits
      <3> QED
        BY <2>1, <2>3, <3>1, <3>2 DEF Backward, i
    <2> QED
      BY <2>2, <2>3
  <1> QED
    BY <1>2, <1>3

LEMMA IncrementExact ==
  ASSUME NEW k, Fits(k + 1), k \in Nat
  PROVE  Increment(FromInteger(k)) = FromInteger(k + 1)
  <1> DEFINE i == FromInteger(k)
  <1>1. /\ i.segment \in 0 .. k /\ i.position \in 0 .. SegmentSize - 1
        /\ k = SegmentSize * i.segment + i.position
    BY NumberPlace
  <1>0. SegmentSize \in Nat /\ SegmentSize > 0
    BY IndexAssumption
  <1> HIDE DEF i
  <1>2. CASE i.position + 1 >= SegmentSize
    <2>1. SegmentSize * (i.segment + 1) + 0 = k + 1
      <3>1. SegmentSize * (i.segment + 1) = SegmentSize * i.segment + SegmentSize * 1
        BY <1>0, <1>1, TimesMinus
      <3> QED
        BY <1>0, <1>1, <1>2, <3>1
    <2>2. Index(i.segment + 1, 0) = FromInteger(k + 1)
      BY <1>0, <1>1, <2>1, PlaceNumber
    <2>3. Wrap(i.segment + 1) = i.segment + 1
      BY <1>0, <1>1, WrapInside, IndexAssumption DEF Fits
    <2> QED
      BY <1>2, <2>2, <2>3 DEF Increment, i
  <1>3. CASE ~(i.position + 1 >= SegmentSize)
    <2>1. SegmentSize * i.segment + (i.position + 1) = k + 1
      BY <1>0, <1>1
    <2>3. i.position + 1 \in 0 .. SegmentSize - 1
      BY <1>0, <1>1, <1>3
    <2>2. Index(i.segment, i.position + 1) = FromInteger(k + 1)
      BY <1>1, <2>1, <2>3, PlaceNumber
    <2> QED
      BY <1>3, <2>2 DEF Increment, i
  <1> QED
    BY <1>2, <1>3

LEMMA DecrementExact ==
  ASSUME NEW k \in Nat, Fits(k + 1)
  PROVE  Decrement(FromInteger(k + 1)) = FromInteger(k)
  <1> DEFINE i == FromInteger(k + 1)
  <1>1. /\ i.segment \in 0 .. k + 1 /\ i.position \in 0 .. SegmentSize - 1
        /\ k + 1 = SegmentSize * i.segment + i.position
    BY NumberPlace DEF Fits
  <1>0. SegmentSize \in Nat /\ SegmentSize > 0
    BY IndexAssumption
  <1> HIDE DEF i
  <1>2. CASE i.position > 0
    <2>1. SegmentSize * i.segment + (i.position - 1) = k
      BY <1>0, <1>1
    <2>3. i.position - 1 \in 0 .. SegmentSize - 1
      BY <1>0, <1>1, <1>2
    <2>2. Index(i.segment, i.position - 1) = FromInteger(k)
      BY <1>1, <2>1, <2>3, PlaceNumber
    <2> QED
      BY <1>2, <2>2 DEF Decrement, i
  <1>3. CASE ~(i.position > 0)
    <2>1. i.segment >= 1
      BY <1>0, <1>1, <1>3
    <2>2. SegmentSize * (i.segment - 1) + (SegmentSize - 1) = k
      <3>1. SegmentSize * (i.segment - 1) = SegmentSize * i.segment - SegmentSize * 1
        BY <1>0, <1>1, TimesMinus
      <3>2. i.position = 0 /\ SegmentSize * i.segment = k + 1
        BY <1>0, <1>1, <1>3
      <3>3. SegmentSize * (i.segment - 1) = (k + 1) - SegmentSize
        BY <1>0, <3>1, <3>2
      <3> QED
        BY <1>0, <3>3
    <2>3. Index(i.segment - 1, SegmentSize - 1) = FromInteger(k)
      BY <1>0, <1>1, <2>1, <2>2, PlaceNumber
    <2>4. Wrap(i.segment - 1) = i.segment - 1
      BY <1>0, <1>1, <2>1, WrapInside, IndexAssumption DEF Fits
    <2> QED
      BY <1>3, <2>3, <2>4 DEF Decrement, i
  <1> QED
    BY <1>2, <1>3

-----------------------------------------------------------------------------
(* Packed vectors *)

Fields == {"n", "free", "seat", "data", "alive"}

IsVector(v) == v = [i \in Fields |-> v[i]]

(* A vector of elements D in the shape that every operation expects. *)
PackedVector(v, D) ==
  /\ IsVector(v)
  /\ v.n \in Nat /\ v.free \in 0 .. v.n
  /\ v.seat \in [0 .. v.n -> 0 .. SegmentSize]
  /\ v.data \in [0 .. v.n - 1 -> [0 .. SegmentSize - 1 -> D]]
  /\ \A s \in 0 .. v.free - 1 : v.seat[s] = SegmentSize
  /\ v.free < v.n => v.seat[v.free] < SegmentSize
  /\ \A s \in v.free + 1 .. v.n : v.seat[s] = 0
  /\ v.seat[v.n] = 0

LEMMA MinIs ==
  ASSUME NEW T, NEW m \in T, T \subseteq Int, \A k \in T : m <= k
  PROVE  Min(T) = m
  <1>1. \A k \in T : (\A j \in T : k <= j) => k = m
    OBVIOUS
  <1> QED
    BY <1>1 DEF Min

LEMMA MaxIs ==
  ASSUME NEW T, NEW m \in T, T \subseteq Int, \A k \in T : m >= k
  PROVE  Max(T) = m
  <1>1. \A k \in T : (\A j \in T : k >= j) => k = m
    OBVIOUS
  <1> QED
    BY <1>1 DEF Max

(* What the operations do to the fields. *)
LEMMA AppendFields ==
  ASSUME NEW v, IsVector(v)
  PROVE  LET w == AppendSegment(v)
         IN /\ IsVector(w) /\ w.n = v.n + 1 /\ w.free = v.free /\ w.alive = v.alive
            /\ w.seat = [i \in 0 .. v.n + 1 |-> IF i <= v.n THEN v.seat[i] ELSE 0]
            /\ w.data = [i \in 0 .. v.n |->
                           IF i < v.n THEN v.data[i] ELSE [p \in 0 .. SegmentSize - 1 |-> Raw]]
  <1> DEFINE more == v.n + 1
             seats == [i \in 0 .. v.n + 1 |-> IF i <= v.n THEN v.seat[i] ELSE 0]
             rows == [i \in 0 .. v.n |->
                        IF i < v.n THEN v.data[i] ELSE [p \in 0 .. SegmentSize - 1 |-> Raw]]
             w == AppendSegment(v)
  <1>1. w = [v EXCEPT !.n = more, !.seat = seats, !.data = rows]
    BY DEF AppendSegment
  <1> SUFFICES IsVector(w) /\ w.n = more /\ w.free = v.free /\ w.alive = v.alive /\ w.seat = seats
               /\ w.data = rows
    OBVIOUS
  <1> HIDE DEF more, seats, rows, w
  <1> QED
    BY <1>1 DEF IsVector, Fields

Rewritten(data, i, x) == [data EXCEPT ![i.segment][i.position] = x]

LEMMA PutFields ==
  ASSUME NEW v, IsVector(v), NEW i, NEW x
  PROVE  LET w == Put(v, i, x)
         IN /\ IsVector(w) /\ w.n = v.n /\ w.free = v.free /\ w.alive = v.alive
            /\ w.seat = v.seat /\ w.data = Rewritten(v.data, i, x)
  <1> DEFINE rows == Rewritten(v.data, i, x)
             w == Put(v, i, x)
  <1>1. w = [v EXCEPT !.data = rows]
    BY DEF Put, Rewritten
  <1> HIDE DEF rows, w
  <1>2. /\ IsVector(w) /\ w.n = v.n /\ w.free = v.free /\ w.alive = v.alive
        /\ w.seat = v.seat /\ w.data = rows
    BY <1>1 DEF IsVector, Fields
  <1> QED
    BY <1>2 DEF rows, w

LEMMA EmptyPacked ==
  ASSUME NEW D
  PROVE  PackedVector(EmptyVector, D) /\ Size(EmptyVector) = 0
  <1> DEFINE seats == [i \in {0} |-> 0]
  <1>1. EmptyVector = [n |-> 0, free |-> 0, seat |-> seats, data |-> <<>>, alive |-> {}]
    BY DEF EmptyVector
  <1>2. seats \in [0 .. 0 -> 0 .. SegmentSize] /\ seats[0] = 0
    BY IndexAssumption
  <1>3. <<>> \in [0 .. 0 - 1 -> [0 .. SegmentSize - 1 -> D]]
    OBVIOUS
  <1> HIDE DEF seats
  <1>4. /\ EmptyVector.n = 0 /\ EmptyVector.free = 0 /\ EmptyVector.seat = seats
        /\ EmptyVector.data = <<>> /\ IsVector(EmptyVector)
    BY <1>1 DEF IsVector, Fields
  <1>5. Size(EmptyVector) = 0
    BY <1>4 DEF Size
  <1> QED
    BY <1>2, <1>3, <1>4, <1>5, IndexAssumption DEF PackedVector

(* An element by its number. *)
At(v, k) == Get(v, FromInteger(k))

LEMMA SizeIs ==
  ASSUME NEW v, NEW D, PackedVector(v, D)
  PROVE  /\ Size(v) = SegmentSize * v.free + v.seat[v.free] /\ Size(v) \in Nat
         /\ End(v) = FromInteger(Size(v))
         /\ \A k \in Nat : IsValid(v, FromInteger(k)) <=> k < Size(v)
  <1>0. SegmentSize \in Nat /\ SegmentSize > 0
    BY IndexAssumption
  <1>1. v.free \in Nat /\ v.seat[v.free] \in 0 .. SegmentSize - 1 /\ v.n \in Nat /\ v.free <= v.n
    BY <1>0 DEF PackedVector
  <1>2. Size(v) = SegmentSize * v.free + v.seat[v.free]
    <2>1. CASE v.n = 0
      <3>1. v.free = 0 /\ v.seat[v.free] = 0
        BY <1>1, <2>1 DEF PackedVector
      <3> QED
        BY <1>0, <2>1, <3>1 DEF Size
    <2>2. CASE v.n # 0
      <3>1. v.free * SegmentSize = SegmentSize * v.free
        BY <1>0, <1>1
      <3> QED
        BY <2>2, <3>1 DEF Size
    <2> QED
      BY <2>1, <2>2
  <1>3. Size(v) \in Nat /\ End(v) = FromInteger(Size(v))
    BY <1>1, <1>2, PlaceNumber DEF End
  <1>4. ASSUME NEW k \in Nat PROVE IsValid(v, FromInteger(k)) <=> k < Size(v)
    <2> DEFINE q == FromInteger(k).segment
               r == FromInteger(k).position
    <2>1. q \in Nat /\ r \in 0 .. SegmentSize - 1 /\ k = SegmentSize * q + r
      BY NumberPlace
    <2>2. IsValid(v, FromInteger(k)) <=> q < v.n /\ r < v.seat[q]
      BY DEF IsValid
    <2> HIDE DEF q, r
    <2>3. SegmentSize * q \in Int /\ SegmentSize * v.free \in Int
      BY <1>0, <1>1, <2>1
    <2>4. CASE q < v.free
      <3>1. SegmentSize * q + SegmentSize <= SegmentSize * v.free
        BY <1>0, <1>1, <2>1, <2>4, TimesApart
      <3>2. v.seat[q] = SegmentSize
        BY <1>1, <2>1, <2>4 DEF PackedVector
      <3> QED
        BY <1>0, <1>1, <1>2, <2>1, <2>2, <2>3, <2>4, <3>1, <3>2
    <2>5. CASE q = v.free
      <3>1. v.free = v.n => v.seat[q] = 0
        BY <2>5 DEF PackedVector
      <3>2. k < Size(v) <=> r < v.seat[q]
        BY <1>0, <1>1, <1>2, <2>1, <2>3, <2>5
      <3>3. r < v.seat[q] => q < v.n
        BY <1>0, <1>1, <2>1, <2>5, <3>1
      <3> QED
        BY <2>2, <3>2, <3>3
    <2>6. CASE v.free < q
      <3>1. SegmentSize * v.free + SegmentSize <= SegmentSize * q
        BY <1>0, <1>1, <2>1, <2>6, TimesApart
      <3>2. q <= v.n => v.seat[q] = 0
        BY <1>1, <2>1, <2>6 DEF PackedVector
      <3>3. ~(k < Size(v))
        BY <1>0, <1>1, <1>2, <2>1, <2>3, <3>1
      <3>4. ~(q < v.n /\ r < v.seat[q])
        BY <1>0, <1>1, <2>1, <3>2
      <3> QED
        BY <2>2, <3>3, <3>4
    <2> QED
      BY <1>1, <2>1, <2>4, <2>5, <2>6
  <1> QED
    BY <1>2, <1>3, <1>4

LEMMA PutExact ==
  ASSUME NEW v, NEW D, PackedVector(v, D), NEW x \in D, NEW k \in Nat, k < Size(v)
  PROVE  /\ PackedVector(Put(v, FromInteger(k), x), D)
         /\ Size(Put(v, FromInteger(k), x)) = Size(v)
         /\ \A m \in Nat : m < Size(v) =>
              At(Put(v, FromInteger(k), x), m) = IF m = k THEN x ELSE At(v, m)
         /\ LET w == Put(v, FromInteger(k), x)
            IN w.n = v.n /\ w.free = v.free /\ w.seat = v.seat /\ w.alive = v.alive
  <1> DEFINE q == FromInteger(k).segment
             r == FromInteger(k).position
             w == Put(v, FromInteger(k), x)
             rows == [v.data EXCEPT ![q][r] = x]
  <1>1. q \in Nat /\ r \in 0 .. SegmentSize - 1 /\ k = SegmentSize * q + r
    BY NumberPlace
  <1>2. q < v.n
    BY SizeIs DEF IsValid
  <1>4. /\ w.n = v.n /\ w.free = v.free /\ w.seat = v.seat /\ w.data = rows /\ w.alive = v.alive
        /\ IsVector(w)
    <2>1. IsVector(v)
      BY DEF PackedVector
    <2> QED
      BY <2>1, PutFields DEF Rewritten
  <1> HIDE DEF w
  <1>5. q \in 0 .. v.n - 1 /\ v.data \in [0 .. v.n - 1 -> [0 .. SegmentSize - 1 -> D]]
    BY <1>1, <1>2 DEF PackedVector
  <1> HIDE DEF q, r
  <1>6. rows \in [0 .. v.n - 1 -> [0 .. SegmentSize - 1 -> D]]
    BY <1>1, <1>5
  <1>7. PackedVector(w, D) /\ Size(w) = Size(v)
    BY <1>4, <1>6 DEF PackedVector, Size
  <1>8. ASSUME NEW m \in Nat, m < Size(v) PROVE At(w, m) = IF m = k THEN x ELSE At(v, m)
    <2> DEFINE a == FromInteger(m).segment
               b == FromInteger(m).position
    <2>1. a \in Nat /\ b \in 0 .. SegmentSize - 1 /\ m = SegmentSize * a + b
      BY NumberPlace
    <2>0. a < v.n
      BY <1>8, SizeIs DEF IsValid
    <2>2. a \in 0 .. v.n - 1
      BY <2>0, <2>1 DEF PackedVector
    <2>3. At(w, m) = rows[a][b] /\ At(v, m) = v.data[a][b]
      BY <1>4 DEF At, Get
    <2>4. m = k <=> a = q /\ b = r
      BY <1>1, <2>1 DEF q, r
    <2> HIDE DEF a, b
    <2>5. rows[a][b] = IF a = q /\ b = r THEN x ELSE v.data[a][b]
      BY <1>1, <1>5, <2>1, <2>2
    <2> QED
      BY <2>3, <2>4, <2>5
  <1> QED
    BY <1>4, <1>7, <1>8 DEF w

LEMMA AppendExact ==
  ASSUME NEW v, NEW D, PackedVector(v, D), Raw \in D
  PROVE  LET w == AppendSegment(v)
         IN /\ PackedVector(w, D) /\ Size(w) = Size(v)
            /\ w.n = v.n + 1 /\ w.free = v.free /\ w.alive = v.alive
            /\ w.seat[v.free] = v.seat[v.free]
            /\ \A k \in Nat : k < Size(v) => At(w, k) = At(v, k)
  <1> DEFINE w == AppendSegment(v)
  <1>0. IsVector(v) /\ SegmentSize \in Nat /\ SegmentSize > 0
    BY IndexAssumption DEF PackedVector
  <1>1. /\ IsVector(w) /\ w.n = v.n + 1 /\ w.free = v.free /\ w.alive = v.alive
        /\ w.seat = [i \in 0 .. v.n + 1 |-> IF i <= v.n THEN v.seat[i] ELSE 0]
        /\ w.data = [i \in 0 .. v.n |->
                       IF i < v.n THEN v.data[i] ELSE [p \in 0 .. SegmentSize - 1 |-> Raw]]
    BY <1>0, AppendFields
  <1> HIDE DEF w
  <1>2. v.n \in Nat /\ v.free \in 0 .. v.n /\ v.seat \in [0 .. v.n -> 0 .. SegmentSize]
    BY DEF PackedVector
  <1>3. \A i \in 0 .. v.n + 1 : w.seat[i] = IF i <= v.n THEN v.seat[i] ELSE 0
    BY <1>1
  <1>4. w.seat \in [0 .. w.n -> 0 .. SegmentSize]
    BY <1>0, <1>1, <1>2
  <1>5. w.data \in [0 .. w.n - 1 -> [0 .. SegmentSize - 1 -> D]]
    <2>1. [p \in 0 .. SegmentSize - 1 |-> Raw] \in [0 .. SegmentSize - 1 -> D]
      OBVIOUS
    <2>2. 0 .. w.n - 1 = 0 .. v.n
      BY <1>1, <1>2
    <2>a. v.data \in [0 .. v.n - 1 -> [0 .. SegmentSize - 1 -> D]]
      BY DEF PackedVector
    <2>3. \A i \in 0 .. v.n : i < v.n => v.data[i] \in [0 .. SegmentSize - 1 -> D]
      BY <1>2, <2>a
    <2> HIDE DEF w
    <2> QED
      BY <1>1, <2>1, <2>2, <2>3
  <1>6. /\ \A s \in 0 .. w.free - 1 : w.seat[s] = SegmentSize
        /\ w.free < w.n => w.seat[w.free] < SegmentSize
        /\ \A s \in w.free + 1 .. w.n : w.seat[s] = 0
        /\ w.seat[w.n] = 0
    <2>1. /\ \A s \in 0 .. v.free - 1 : v.seat[s] = SegmentSize
          /\ v.free < v.n => v.seat[v.free] < SegmentSize
          /\ \A s \in v.free + 1 .. v.n : v.seat[s] = 0
          /\ v.seat[v.n] = 0
      BY DEF PackedVector
    <2>2. w.free = v.free /\ w.n = v.n + 1
      BY <1>1
    <2> HIDE DEF w
    <2>3. \A s \in 0 .. v.free - 1 : w.seat[s] = SegmentSize
      BY <1>2, <1>3, <2>1
    <2>4. w.seat[v.free] < SegmentSize
      BY <1>0, <1>2, <1>3, <2>1
    <2>5. \A s \in v.free + 1 .. v.n + 1 : w.seat[s] = 0
      BY <1>2, <1>3, <2>1
    <2>6. w.seat[v.n + 1] = 0
      BY <1>2, <1>3
    <2> QED
      BY <2>2, <2>3, <2>4, <2>5, <2>6
  <1>7. PackedVector(w, D) /\ w.seat[v.free] = v.seat[v.free]
    BY <1>1, <1>2, <1>3, <1>4, <1>5, <1>6 DEF PackedVector
  <1>8. Size(w) = Size(v)
    <2>1. Size(w) = SegmentSize * w.free + w.seat[w.free]
      BY <1>7, SizeIs
    <2>2. Size(v) = SegmentSize * v.free + v.seat[v.free]
      BY SizeIs
    <2> QED
      BY <1>1, <1>7, <2>1, <2>2
  <1>9. ASSUME NEW k \in Nat, k < Size(v) PROVE At(w, k) = At(v, k)
    <2> DEFINE a == FromInteger(k).segment
               b == FromInteger(k).position
    <2>1. a \in Nat /\ b \in 0 .. SegmentSize - 1
      BY NumberPlace
    <2>2. a < v.n
      BY <1>9, SizeIs DEF IsValid
    <2>3. At(w, k) = w.data[a][b] /\ At(v, k) = v.data[a][b]
      BY DEF At, Get
    <2> HIDE DEF a, b
    <2> QED
      BY <1>1, <1>2, <2>1, <2>2, <2>3
  <1> QED
    BY <1>1, <1>7, <1>8, <1>9 DEF w

(* A seat is taken: what allocate() and the construction do once there is a segment. *)
Seated(v, x) ==
  LET y == [v EXCEPT !.seat[v.free] = @ + 1]
  IN [Put([y EXCEPT !.free = NextFree(y, v.free)], End(v), x) EXCEPT !.alive = @ \cup {End(v)}]

LEMMA SeatedExact ==
  ASSUME NEW v, NEW D, PackedVector(v, D), v.free < v.n, NEW x \in D
  PROVE  LET w == Seated(v, x)
         IN /\ PackedVector(w, D) /\ Size(w) = Size(v) + 1
            /\ w.n = v.n /\ w.alive = v.alive \cup {FromInteger(Size(v))}
            /\ \A k \in Nat : k < Size(w) => At(w, k) = IF k = Size(v) THEN x ELSE At(v, k)
  <1> DEFINE f == v.free
             q == v.seat[v.free]
             y == [v EXCEPT !.seat[v.free] = @ + 1]
             g == NextFree(y, v.free)
             z == [y EXCEPT !.free = g]
             p == Put(z, End(v), x)
             w == Seated(v, x)
  <1>0. /\ IsVector(v) /\ SegmentSize \in Nat /\ SegmentSize > 0
        /\ v.n \in Nat /\ f \in 0 .. v.n - 1 /\ q \in 0 .. SegmentSize - 1
        /\ v.seat \in [0 .. v.n -> 0 .. SegmentSize]
        /\ v.data \in [0 .. v.n - 1 -> [0 .. SegmentSize - 1 -> D]]
    BY IndexAssumption DEF PackedVector
  <1>1. /\ IsVector(y) /\ y.n = v.n /\ y.free = f /\ y.data = v.data /\ y.alive = v.alive
        /\ y.seat = [v.seat EXCEPT ![f] = q + 1]
    BY <1>0 DEF IsVector, Fields
  <1> HIDE DEF y
  <1>2. g = IF q + 1 = SegmentSize THEN f + 1 ELSE f
    <2> DEFINE T == {i \in f .. y.n : i = y.n \/ y.seat[i] # SegmentSize}
    <2>0. g = Min(T) /\ T \subseteq Int
      BY <1>0, <1>1 DEF NextFree
    <2>1. CASE q + 1 = SegmentSize
      <3>1. f + 1 \in T
        <4>1. f + 1 < v.n => v.seat[f + 1] = 0
          BY <1>0 DEF PackedVector
        <4> QED
          BY <1>0, <1>1, <4>1
      <3>2. \A k \in T : f + 1 <= k
        BY <1>0, <1>1, <2>1
      <3> HIDE DEF T
      <3> QED
        BY <1>0, <2>0, <2>1, <3>1, <3>2, MinIs
    <2>2. CASE q + 1 # SegmentSize
      <3>1. f \in T
        BY <1>0, <1>1, <2>2
      <3>2. \A k \in T : f <= k
        BY <1>0
      <3> HIDE DEF T
      <3> QED
        BY <1>0, <2>0, <2>2, <3>1, <3>2, MinIs
    <2> QED
      BY <2>1, <2>2
  <1> HIDE DEF g
  <1>3. /\ IsVector(z) /\ z.n = v.n /\ z.free = g /\ z.data = v.data /\ z.alive = v.alive
        /\ z.seat = y.seat
    BY <1>1 DEF IsVector, Fields
  <1> HIDE DEF z
  <1>4. End(v) = Index(f, q) /\ End(v) = FromInteger(Size(v)) /\ Size(v) \in Nat
    BY SizeIs DEF End
  <1>5. /\ IsVector(p) /\ p.n = v.n /\ p.free = g /\ p.alive = v.alive /\ p.seat = y.seat
        /\ p.data = [v.data EXCEPT ![f][q] = x]
    <2>1. End(v).segment = f /\ End(v).position = q
      BY <1>4 DEF Index
    <2>2. /\ IsVector(p) /\ p.n = z.n /\ p.free = z.free /\ p.alive = z.alive /\ p.seat = z.seat
          /\ p.data = Rewritten(z.data, End(v), x)
      BY <1>3, PutFields
    <2> HIDE DEF p, f, q
    <2> QED
      BY <1>3, <2>1, <2>2 DEF Rewritten
  <1> HIDE DEF p
  <1>6. w = [p EXCEPT !.alive = @ \cup {End(v)}]
    BY DEF Seated, p, z, g, y
  <1> HIDE DEF w
  <1>7. /\ IsVector(w) /\ w.n = v.n /\ w.free = g /\ w.alive = v.alive \cup {End(v)}
        /\ w.seat = y.seat /\ w.data = [v.data EXCEPT ![f][q] = x]
    BY <1>5, <1>6 DEF IsVector, Fields
  <1> HIDE DEF f, q
  <1>8. /\ \A i \in 0 .. v.n : w.seat[i] = IF i = f THEN q + 1 ELSE v.seat[i]
        /\ w.seat \in [0 .. v.n -> 0 .. SegmentSize]
    BY <1>0, <1>1, <1>7
  <1>9. w.data \in [0 .. v.n - 1 -> [0 .. SegmentSize - 1 -> D]]
    <2>1. f \in 0 .. v.n - 1 /\ q \in 0 .. SegmentSize - 1
      BY <1>0
    <2>2. v.data[f] \in [0 .. SegmentSize - 1 -> D]
      BY <1>0, <2>1
    <2>3. [v.data[f] EXCEPT ![q] = x] \in [0 .. SegmentSize - 1 -> D]
      BY <2>1, <2>2
    <2> DEFINE R == [0 .. SegmentSize - 1 -> D]
               row == [v.data[f] EXCEPT ![q] = x]
    <2>4. v.data \in [0 .. v.n - 1 -> R] /\ row \in R /\ w.data = [v.data EXCEPT ![f] = row]
      BY <1>0, <1>7, <2>3
    <2> HIDE DEF R, row
    <2>5. w.data \in [0 .. v.n - 1 -> R]
      BY <2>1, <2>4
    <2> QED
      BY <2>5 DEF R
  <1>10. /\ \A s \in 0 .. f - 1 : v.seat[s] = SegmentSize
         /\ \A s \in f + 1 .. v.n : v.seat[s] = 0
         /\ v.seat[v.n] = 0
    BY DEF PackedVector, f
  <1>11. PackedVector(w, D)
    <2>1. g \in 0 .. v.n
      BY <1>0, <1>2
    <2>2. \A s \in 0 .. g - 1 : w.seat[s] = SegmentSize
      BY <1>0, <1>2, <1>8, <1>10
    <2>3. g < v.n => w.seat[g] < SegmentSize
      <3>1. w.seat[g] = IF g = f THEN q + 1 ELSE v.seat[g]
        BY <1>8, <2>1
      <3>2. CASE q + 1 = SegmentSize
        <4>1. g = f + 1 /\ g # f /\ g \in f + 1 .. v.n
          BY <1>0, <1>2, <2>1, <3>2
        <4>2. v.seat[g] = 0
          BY <1>10, <4>1
        <4> QED
          BY <1>0, <3>1, <4>1, <4>2
      <3>3. CASE q + 1 # SegmentSize
        <4>1. g = f
          BY <1>2, <3>3
        <4> QED
          BY <1>0, <3>1, <3>3, <4>1
      <3> QED
        BY <3>2, <3>3
    <2>4. \A s \in g + 1 .. v.n : w.seat[s] = 0
      BY <1>0, <1>2, <1>8, <1>10
    <2>5. w.seat[v.n] = 0
      BY <1>0, <1>8, <1>10
    <2> QED
      BY <1>0, <1>7, <1>8, <1>9, <2>1, <2>2, <2>3, <2>4, <2>5 DEF PackedVector
  <1>12. Size(w) = Size(v) + 1
    <2>1. Size(v) = SegmentSize * f + q /\ Size(w) = SegmentSize * g + w.seat[g]
      BY <1>7, <1>11, SizeIs DEF f, q
    <2>2. CASE q + 1 = SegmentSize
      <3>1. SegmentSize * (f + 1) = SegmentSize * f + SegmentSize * 1
        BY <1>0, TimesMinus
      <3>2. w.seat[f + 1] = 0
        BY <1>0, <1>8, <1>10
      <3>3. SegmentSize * f \in Int /\ SegmentSize * 1 = SegmentSize
        BY <1>0
      <3>4. Size(w) = SegmentSize * (f + 1) + 0
        BY <1>2, <2>1, <2>2, <3>2
      <3> DEFINE product == SegmentSize * f
      <3>5. Size(w) = product + SegmentSize + 0 /\ Size(v) = product + q /\ product \in Int
        BY <2>1, <3>1, <3>3, <3>4
      <3> HIDE DEF product
      <3>6. q \in Int /\ SegmentSize = q + 1
        BY <1>0, <2>2
      <3> QED
        BY <3>5, <3>6
    <2>3. CASE q + 1 # SegmentSize
      <3>1. w.seat[f] = q + 1
        BY <1>0, <1>8
      <3>2. Size(w) = SegmentSize * f + (q + 1) /\ SegmentSize * f \in Int
        BY <1>0, <1>2, <2>1, <2>3, <3>1
      <3> QED
        BY <1>0, <2>1, <3>2
    <2> QED
      BY <2>2, <2>3
  <1>13. ASSUME NEW k \in Nat, k < Size(w) PROVE At(w, k) = IF k = Size(v) THEN x ELSE At(v, k)
    <2> DEFINE a == FromInteger(k).segment
               b == FromInteger(k).position
    <2>1. a \in Nat /\ b \in 0 .. SegmentSize - 1 /\ k = SegmentSize * a + b
      BY NumberPlace
    <2>2. a < v.n
      BY <1>7, <1>11, <1>13, SizeIs DEF IsValid
    <2>3. At(w, k) = w.data[a][b] /\ At(v, k) = v.data[a][b]
      BY DEF At, Get
    <2>4. k = Size(v) <=> a = f /\ b = q
      <3>1. FromInteger(k) = FromInteger(Size(v)) <=> k = Size(v)
        BY <1>4, NumbersDiffer
      <3>2. FromInteger(k) = Index(a, b)
        BY NumberPlace
      <3>3. Index(a, b) = Index(f, q) <=> a = f /\ b = q
        BY DEF Index
      <3> QED
        BY <1>4, <3>1, <3>2, <3>3 DEF f, q
    <2> HIDE DEF a, b
    <2>5. w.data[a][b] = IF a = f /\ b = q THEN x ELSE v.data[a][b]
      BY <1>0, <1>7, <2>1, <2>2
    <2> QED
      BY <2>3, <2>4, <2>5
  <1> QED
    BY <1>4, <1>7, <1>11, <1>12, <1>13 DEF w

LEMMA PushBackExact ==
  ASSUME NEW v, NEW D, PackedVector(v, D), Raw \in D, NEW x \in D
  PROVE  LET w == PushBack(v, x)
         IN /\ PackedVector(w, D) /\ Size(w) = Size(v) + 1
            /\ w.n \in {v.n, v.n + 1} /\ w.alive = v.alive \cup {FromInteger(Size(v))}
            /\ \A k \in Nat : k < Size(w) => At(w, k) = IF k = Size(v) THEN x ELSE At(v, k)
  <1>1. CASE v.free = v.n
    <2> DEFINE w == AppendSegment(v)
    <2>1. /\ PackedVector(w, D) /\ Size(w) = Size(v) /\ w.n = v.n + 1 /\ w.free = v.free
          /\ w.alive = v.alive /\ w.seat[v.free] = v.seat[v.free]
          /\ \A k \in Nat : k < Size(v) => At(w, k) = At(v, k)
      BY AppendExact
    <2>2. End(w) = End(v)
      BY <2>1 DEF End
    <2>3. PushBack(v, x) = Seated(w, x)
      BY <1>1, <2>1, <2>2 DEF PushBack, Allocate, Seated
    <2> HIDE DEF w
    <2>4. w.free < w.n /\ Size(v) \in Nat
      <3>1. v.n \in Nat
        BY DEF PackedVector
      <3> QED
        BY <1>1, <2>1, <3>1, SizeIs
    <2>5. /\ PackedVector(Seated(w, x), D) /\ Size(Seated(w, x)) = Size(w) + 1
          /\ Seated(w, x).n = w.n /\ Seated(w, x).alive = w.alive \cup {FromInteger(Size(w))}
          /\ \A k \in Nat : k < Size(Seated(w, x)) =>
               At(Seated(w, x), k) = IF k = Size(w) THEN x ELSE At(w, k)
      BY <2>1, <2>4, SeatedExact
    <2> QED
      BY <2>1, <2>3, <2>4, <2>5
  <1>2. CASE v.free # v.n
    <2>1. PushBack(v, x) = Seated(v, x)
      BY <1>2 DEF PushBack, Allocate, Seated
    <2>2. v.free < v.n
      BY <1>2 DEF PackedVector
    <2> QED
      BY <2>1, <2>2, SeatedExact
  <1> QED
    BY <1>1, <1>2

-----------------------------------------------------------------------------
(* Least numbers, and vectors that are given no more segments *)

Below == {p \in Nat \X Nat : p[1] < p[2]}

LEMMA BelowIs == Below = OpToRel(<, Nat)
  BY DEF Below, OpToRel

LEMMA LeastNumber ==
  ASSUME NEW T, T \subseteq Nat, T # {}
  PROVE  \E m \in T : \A k \in T : m <= k
  <1>1. IsWellFoundedOn(Below, Nat)
    BY NatLessThanWellFounded, BelowIs, Zenon
  <1>2. PICK m \in T : \A k \in T : ~(<<k, m>> \in Below)
    BY <1>1, WFMin
  <1>3. \A k \in T : ~(k < m)
    BY <1>2 DEF Below
  <1> QED
    BY <1>3

LEMMA GreatestNumber ==
  ASSUME NEW T, NEW n \in Nat, T \subseteq 0 .. n, T # {}
  PROVE  \E m \in T : \A k \in T : m >= k
  <1> DEFINE U == {n - k : k \in T}
  <1>1. U \subseteq Nat /\ U # {}
    OBVIOUS
  <1>2. PICK u \in U : \A k \in U : u <= k
    BY <1>1, LeastNumber
  <1>3. PICK m \in T : u = n - m
    BY <1>2
  <1>4. ASSUME NEW k \in T PROVE m >= k
    <2>1. u <= n - k
      BY <1>2
    <2>2. m \in Int /\ k \in Int
      OBVIOUS
    <2> HIDE DEF U
    <2> QED
      BY <1>3, <2>1, <2>2
  <1> QED
    BY <1>4

LEMMA ResizeEmpty ==
  ASSUME NEW x
  PROVE  Resize(EmptyVector, 0, x) = EmptyVector
  <1>0. SegmentSize \in Nat /\ SegmentSize > 0 /\ EmptyVector.n = 0
    BY IndexAssumption DEF EmptyVector
  <1>1. Max({0, (0 + SegmentSize - 1) \div SegmentSize - EmptyVector.n}) = 0
    <2>1. (0 + SegmentSize - 1) \div SegmentSize = 0
      <3>1. SegmentSize - 1 = SegmentSize * 0 + (SegmentSize - 1) /\ SegmentSize - 1 \in 0 .. SegmentSize - 1
        BY <1>0
      <3> QED
        BY <1>0, <3>1, DivUnique
    <2>2. {0, (0 + SegmentSize - 1) \div SegmentSize - EmptyVector.n} = {0}
      BY <1>0, <2>1
    <2>3. Max({0}) = 0
      BY MaxIs
    <2> QED
      BY <2>2, <2>3
  <1>2. Repeat(AppendSegment, 0, EmptyVector) = EmptyVector
    <2> DEFINE e == EmptyVector
               Steps(g) == g = [i \in 0 .. 0 |-> IF i = 0 THEN e ELSE AppendSegment(g[i - 1])]
    <2>1. Repeat(AppendSegment, 0, e) = (CHOOSE g : Steps(g))[0]
      BY DEF Repeat
    <2> HIDE DEF e
    <2>2. Steps([i \in 0 .. 0 |-> e])
      OBVIOUS
    <2>3. \A g : Steps(g) => g[0] = e
      OBVIOUS
    <2> HIDE DEF Steps
    <2> QED
      BY <2>1, <2>2, <2>3 DEF e
  <1>3. Reserve(EmptyVector, 0) = EmptyVector
    BY <1>1, <1>2 DEF Reserve
  <1>4. Max({0, 0 - Size(EmptyVector)}) = 0
    <2>1. Max({0}) = 0
      BY MaxIs
    <2>2. {0, 0 - Size(EmptyVector)} = {0}
      BY EmptyPacked
    <2> QED
      BY <2>1, <2>2
  <1>5. Repeat(LAMBDA w : PushBack(w, x), 0, EmptyVector) = EmptyVector
    <2> DEFINE e == EmptyVector
               Steps(g) == g = [i \in 0 .. 0 |-> IF i = 0 THEN e ELSE PushBack(g[i - 1], x)]
    <2>1. Repeat(LAMBDA w : PushBack(w, x), 0, e) = (CHOOSE g : Steps(g))[0]
      BY DEF Repeat
    <2> HIDE DEF e
    <2>2. Steps([i \in 0 .. 0 |-> e])
      OBVIOUS
    <2>3. \A g : Steps(g) => g[0] = e
      OBVIOUS
    <2> HIDE DEF Steps
    <2> QED
      BY <2>1, <2>2, <2>3 DEF e
  <1> QED
    BY <1>3, <1>4, <1>5 DEF Resize

=============================================================================
