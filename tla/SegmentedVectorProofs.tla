------------------------- MODULE SegmentedVectorProofs -------------------------
(***************************************************************************)
(* Proofs about segmented_vector: every operation keeps the segments       *)
(* packed, iterators count, no element moves but the one that fills a      *)
(* hole, and the user sees the list, for segments, words and values of any *)
(* number.                                                                 *)
(***************************************************************************)
EXTENDS SegmentedVector, SegmentProofs, SequenceTheorems, FiniteSetTheorems

-----------------------------------------------------------------------------
(* erase *)

(* The last element is in the segment of the last free seat, or in the full one before. *)
LEMMA LastSegmentIs ==
  ASSUME NEW v, NEW D, PackedVector(v, D), Size(v) > 0
  PROVE  LET from == LastSegment(v)
         IN /\ from \in 0 .. v.n - 1 /\ v.seat[from] \in 1 .. SegmentSize
            /\ Index(from, v.seat[from] - 1) = FromInteger(Size(v) - 1)
            /\ Size(v) - 1 = SegmentSize * from + (v.seat[from] - 1)
            /\ from = v.free \/ (from = v.free - 1 /\ v.seat[v.free] = 0)
  <1> DEFINE f == v.free
             q == v.seat[v.free]
             from == IF q > 0 THEN f ELSE f - 1
             IsLast(s) == /\ s = 0 \/ v.seat[s] # 0
                          /\ \A r \in s + 1 .. f : v.seat[r] = 0
  <1>0. /\ SegmentSize \in Nat /\ SegmentSize > 0 /\ v.n \in Nat /\ f \in 0 .. v.n
        /\ q \in 0 .. SegmentSize - 1 /\ v.seat \in [0 .. v.n -> 0 .. SegmentSize]
        /\ \A s \in 0 .. f - 1 : v.seat[s] = SegmentSize
        /\ v.seat[v.n] = 0
    BY IndexAssumption DEF PackedVector
  <1>1. Size(v) = SegmentSize * f + q
    BY SizeIs
  <1>2. q > 0 => f < v.n
    BY <1>0
  <1>3. q = 0 => f > 0
    <2>1. f = 0 => SegmentSize * f = 0
      BY <1>0
    <2> QED
      BY <1>0, <1>1, <2>1
  <1> HIDE DEF f, q
  <1>4. /\ from \in 0 .. f /\ from \in 0 .. v.n - 1 /\ v.seat[from] \in 1 .. SegmentSize
        /\ from = f \/ (from = f - 1 /\ q = 0 /\ v.seat[from] = SegmentSize)
    <2>1. CASE q > 0
      <3>1. from = f /\ v.seat[from] = q
        BY <2>1 DEF f, q
      <3> HIDE DEF from
      <3> QED
        BY <1>0, <1>2, <2>1, <3>1
    <2>2. CASE ~(q > 0)
      <3>1. from = f - 1 /\ q = 0 /\ f > 0
        BY <1>0, <1>3, <2>2
      <3> HIDE DEF from
      <3>2. from \in 0 .. f - 1
        BY <1>0, <3>1
      <3> QED
        BY <1>0, <3>1, <3>2
    <2> QED
      BY <2>1, <2>2
  <1>5. IsLast(from)
    BY <1>0, <1>4 DEF f, q
  <1>6. ASSUME NEW s \in 0 .. f, IsLast(s) PROVE s = from
    <2>1. ~(s < from)
      <3>1. s < from => from \in s + 1 .. f
        BY <1>0, <1>4
      <3> QED
        BY <1>4, <1>6, <3>1
    <2>2. ~(from < s)
      <3>1. from < s => s = f /\ s # 0 /\ q = 0
        BY <1>0, <1>4
      <3>2. v.seat[f] = q
        BY DEF f, q
      <3> QED
        BY <1>6, <3>1, <3>2
    <2> QED
      BY <1>0, <1>4, <2>1, <2>2
  <1> HIDE DEF from
  <1>7. LastSegment(v) = from
    <2>1. LastSegment(v) = CHOOSE s \in 0 .. f : IsLast(s)
      BY DEF LastSegment, f
    <2> HIDE DEF IsLast
    <2> QED
      BY <1>4, <1>5, <1>6, <2>1
  <1>8. Size(v) - 1 = SegmentSize * from + (v.seat[from] - 1)
    <2>1. CASE from = f /\ q > 0
      BY <1>0, <1>1, <2>1 DEF f, q
    <2>2. CASE from = f - 1 /\ q = 0 /\ v.seat[from] = SegmentSize
      <3>1. SegmentSize * (f - 1) = SegmentSize * f - SegmentSize * 1
        BY <1>0, TimesMinus
      <3>2. SegmentSize * f \in Int /\ SegmentSize * 1 = SegmentSize
        BY <1>0
      <3> QED
        BY <1>0, <1>1, <2>2, <3>1, <3>2
    <2> QED
      BY <1>0, <1>4, <2>1, <2>2 DEF from
  <1>9. Index(from, v.seat[from] - 1) = FromInteger(Size(v) - 1)
    <2>1. from \in Nat /\ v.seat[from] - 1 \in 0 .. SegmentSize - 1
      BY <1>0, <1>4
    <2> QED
      BY <1>8, <2>1, PlaceNumber
  <1> QED
    BY <1>4, <1>7, <1>8, <1>9 DEF f, q

(* The vector without its last seat. *)
Vacated(v, i) ==
  LET from == LastSegment(v)
  IN [v EXCEPT !.seat[from] = @ - 1, !.free = IF from < @ THEN from ELSE @, !.alive = @ \ {i}]

LEMMA VacatedExact ==
  ASSUME NEW v, NEW D, PackedVector(v, D), Size(v) > 0, NEW i
  PROVE  LET w == Vacated(v, i)
         IN /\ PackedVector(w, D) /\ Size(w) = Size(v) - 1
            /\ w.n = v.n /\ w.alive = v.alive \ {i} /\ w.data = v.data
            /\ \A k \in Nat : At(w, k) = At(v, k)
  <1> DEFINE from == LastSegment(v)
             w == Vacated(v, i)
             q == v.seat[from]
  <1>0. /\ IsVector(v) /\ SegmentSize \in Nat /\ SegmentSize > 0
        /\ v.n \in Nat /\ v.free \in 0 .. v.n
        /\ v.seat \in [0 .. v.n -> 0 .. SegmentSize]
        /\ \A s \in 0 .. v.free - 1 : v.seat[s] = SegmentSize
        /\ \A s \in v.free + 1 .. v.n : v.seat[s] = 0
        /\ v.seat[v.n] = 0
    BY IndexAssumption DEF PackedVector
  <1>1. /\ from \in 0 .. v.n - 1 /\ q \in 1 .. SegmentSize
        /\ Size(v) - 1 = SegmentSize * from + (q - 1)
        /\ from = v.free \/ (from = v.free - 1 /\ v.seat[v.free] = 0)
    BY LastSegmentIs
  <1> HIDE DEF from, q
  <1> DEFINE seats == [v.seat EXCEPT ![from] = q - 1]
  <1>2. w = [v EXCEPT !.seat = seats, !.free = from, !.alive = v.alive \ {i}]
    <2>1. (IF from < v.free THEN from ELSE v.free) = from
      BY <1>0, <1>1
    <2>2. w = [v EXCEPT !.seat = seats, !.free = IF from < v.free THEN from ELSE v.free,
                        !.alive = v.alive \ {i}]
      BY DEF Vacated, from, q
    <2> HIDE DEF w, seats
    <2> QED
      BY <2>1, <2>2
  <1> HIDE DEF w, seats
  <1>3. /\ IsVector(w) /\ w.n = v.n /\ w.free = from /\ w.alive = v.alive \ {i}
        /\ w.seat = seats /\ w.data = v.data
    BY <1>0, <1>2 DEF IsVector, Fields
  <1>4. /\ \A s \in 0 .. v.n : seats[s] = IF s = from THEN q - 1 ELSE v.seat[s]
        /\ seats \in [0 .. v.n -> 0 .. SegmentSize]
    BY <1>0, <1>1 DEF seats
  <1>5. PackedVector(w, D)
    <2>1. ASSUME NEW s \in 0 .. from - 1 PROVE seats[s] = SegmentSize
      <3>1. s \in 0 .. v.n /\ s \in 0 .. v.free - 1 /\ s # from
        BY <1>0, <1>1
      <3> QED
        BY <1>0, <1>4, <3>1
    <2>2. ASSUME NEW s \in from + 1 .. v.n PROVE seats[s] = 0
      <3>1. s \in 0 .. v.n /\ s # from
        BY <1>0, <1>1
      <3>2. v.seat[s] = 0
        <4>1. s = v.free \/ s \in v.free + 1 .. v.n
          BY <1>0, <1>1
        <4>2. s = v.free => v.seat[v.free] = 0
          BY <1>0, <1>1
        <4> QED
          BY <1>0, <4>1, <4>2
      <3> QED
        BY <1>4, <3>1, <3>2
    <2>3. seats[from] < SegmentSize /\ seats[v.n] = 0 /\ from \in 0 .. v.n
      BY <1>0, <1>1, <1>4
    <2>4. v.data \in [0 .. v.n - 1 -> [0 .. SegmentSize - 1 -> D]]
      BY DEF PackedVector
    <2> QED
      BY <1>0, <1>3, <1>4, <2>1, <2>2, <2>3, <2>4 DEF PackedVector
  <1>6. Size(w) = Size(v) - 1
    <2>1. Size(w) = SegmentSize * from + seats[from]
      BY <1>3, <1>5, SizeIs
    <2>2. seats[from] = q - 1
      BY <1>0, <1>1, <1>4
    <2> QED
      BY <1>1, <2>1, <2>2
  <1>7. \A k \in Nat : At(w, k) = At(v, k)
    BY <1>3 DEF At, Get
  <1> QED
    BY <1>3, <1>5, <1>6, <1>7 DEF w

LEMMA ElementIn ==
  ASSUME NEW v, NEW D, PackedVector(v, D), NEW k \in Nat, k < Size(v)
  PROVE  At(v, k) \in D /\ FromInteger(k).segment \in 0 .. v.n - 1
  <1> DEFINE a == FromInteger(k).segment
             b == FromInteger(k).position
  <1>1. a \in Nat /\ b \in 0 .. SegmentSize - 1
    BY NumberPlace
  <1>2. a < v.n /\ v.n \in Nat
    BY SizeIs DEF IsValid, PackedVector
  <1>3. At(v, k) = v.data[a][b]
    BY DEF At, Get
  <1> HIDE DEF a, b
  <1>4. v.data \in [0 .. v.n - 1 -> [0 .. SegmentSize - 1 -> D]]
    BY DEF PackedVector
  <1>6. a \in 0 .. v.n - 1
    BY <1>1, <1>2
  <1>5. v.data[a][b] \in D
    BY <1>1, <1>4, <1>6
  <1> QED
    BY <1>3, <1>5, <1>6 DEF a

LEMMA EraseExact ==
  ASSUME NEW v, NEW D, PackedVector(v, D), NEW k \in Nat, k < Size(v)
  PROVE  LET w == Erase(v, FromInteger(k))
         IN /\ PackedVector(w, D) /\ Size(w) = Size(v) - 1
            /\ w.n = v.n /\ w.alive = v.alive \ {FromInteger(k)}
            /\ \A m \in Nat : m < Size(w) => At(w, m) = IF m = k THEN At(v, Size(v) - 1) ELSE At(v, m)
  <1> DEFINE i == FromInteger(k)
             n == Size(v)
             x == At(v, n - 1)
             w == Vacated(v, i)
             last == FromInteger(n - 1)
  <1>0. n \in Nat /\ n - 1 \in Nat /\ n > 0
    BY SizeIs
  <1>1. x \in D
    BY <1>0, ElementIn
  <1>2. /\ PackedVector(w, D) /\ Size(w) = n - 1 /\ w.n = v.n /\ w.alive = v.alive \ {i}
        /\ \A m \in Nat : At(w, m) = At(v, m)
    BY <1>0, VacatedExact
  <1>3. Erase(v, i) = IF i = last THEN w ELSE Put(w, i, x)
    <2>1. Index(LastSegment(v), v.seat[LastSegment(v)] - 1) = last
      BY <1>0, LastSegmentIs
    <2>2. Get(v, last) = x
      BY DEF At
    <2> QED
      BY <2>1, <2>2 DEF Erase, Vacated
  <1>4. i = last <=> k = n - 1
    BY <1>0, NumbersDiffer
  <1> HIDE DEF w, n, x
  <1>5. CASE k = n - 1
    BY <1>0, <1>2, <1>3, <1>4, <1>5 DEF n, x
  <1>6. CASE k # n - 1
    <2>1. Erase(v, i) = Put(w, i, x) /\ k < Size(w)
      BY <1>0, <1>2, <1>3, <1>4, <1>6 DEF n
    <2>2. /\ PackedVector(Put(w, i, x), D) /\ Size(Put(w, i, x)) = Size(w)
          /\ \A m \in Nat : m < Size(w) => At(Put(w, i, x), m) = IF m = k THEN x ELSE At(w, m)
          /\ Put(w, i, x).n = w.n /\ Put(w, i, x).alive = w.alive
      BY <1>1, <1>2, <2>1, PutExact
    <2> QED
      BY <1>2, <2>1, <2>2 DEF n, x
  <1> QED
    BY <1>5, <1>6

-----------------------------------------------------------------------------
(* What every operation keeps *)

SeatsOf(v) == [segment : 0 .. v.n - 1, position : 0 .. SegmentSize - 1]

VectorKept(v) ==
  /\ PackedVector(v, Values \cup {Raw})
  /\ v.alive \subseteq SeatsOf(v)
  /\ \A k \in Nat : k < Size(v) => At(v, k) \in Values

SameElements(v, w) ==
  Size(w) = Size(v) /\ \A k \in Nat : k < Size(v) => At(w, k) = At(v, k)

LEMMA SizeOfKept ==
  ASSUME NEW v, VectorKept(v)
  PROVE  /\ Size(v) \in Nat /\ v.n \in Nat /\ End(v) = FromInteger(Size(v))
         /\ \A k \in Nat : k < Size(v) => FromInteger(k) \in SeatsOf(v)
  <1>1. PackedVector(v, Values \cup {Raw})
    BY DEF VectorKept
  <1>2. ASSUME NEW k \in Nat, k < Size(v) PROVE FromInteger(k) \in SeatsOf(v)
    <2>1. FromInteger(k).segment \in 0 .. v.n - 1
      BY <1>1, <1>2, ElementIn
    <2>2. /\ FromInteger(k).position \in 0 .. SegmentSize - 1
          /\ FromInteger(k) = Index(FromInteger(k).segment, FromInteger(k).position)
      BY NumberPlace
    <2> DEFINE a == FromInteger(k).segment
               b == FromInteger(k).position
    <2> HIDE DEF a, b
    <2>3. Index(a, b) \in SeatsOf(v)
      BY <2>1, <2>2 DEF Index, SeatsOf, a, b
    <2> QED
      BY <2>2, <2>3 DEF a, b
  <1>3. Size(v) \in Nat /\ End(v) = FromInteger(Size(v))
    BY <1>1, SizeIs
  <1>4. v.n \in Nat
    BY <1>1 DEF PackedVector
  <1> QED
    BY <1>2, <1>3, <1>4

LEMMA MoreSeats ==
  ASSUME NEW v, NEW w, v.n \in Nat, w.n \in Nat, v.n <= w.n
  PROVE  SeatsOf(v) \subseteq SeatsOf(w)
  <1>1. 0 .. v.n - 1 \subseteq 0 .. w.n - 1
    OBVIOUS
  <1> QED
    BY <1>1 DEF SeatsOf

LEMMA EmptyKept == VectorKept(EmptyVector) /\ Size(EmptyVector) = 0
  <1>1. PackedVector(EmptyVector, Values \cup {Raw}) /\ Size(EmptyVector) = 0
    BY EmptyPacked
  <1>2. EmptyVector.alive = {}
    BY DEF EmptyVector
  <1> QED
    BY <1>1, <1>2 DEF VectorKept

LEMMA AppendKept ==
  ASSUME NEW v, VectorKept(v)
  PROVE  VectorKept(AppendSegment(v)) /\ SameElements(v, AppendSegment(v))
  <1> DEFINE w == AppendSegment(v)
  <1>1. PackedVector(v, Values \cup {Raw}) /\ v.n \in Nat /\ v.alive \subseteq SeatsOf(v)
    BY SizeOfKept DEF VectorKept
  <1>2. /\ PackedVector(w, Values \cup {Raw}) /\ Size(w) = Size(v)
        /\ w.n = v.n + 1 /\ w.alive = v.alive
        /\ \A k \in Nat : k < Size(v) => At(w, k) = At(v, k)
    BY <1>1, AppendExact
  <1> HIDE DEF w
  <1>3. SeatsOf(v) \subseteq SeatsOf(w)
    <2>1. w.n \in Nat /\ v.n <= w.n
      BY <1>1, <1>2
    <2> QED
      BY <1>1, <2>1, MoreSeats
  <1>4. VectorKept(w) /\ SameElements(v, w)
    BY <1>1, <1>2, <1>3 DEF VectorKept, SameElements
  <1> QED
    BY <1>4 DEF w

(* One element more, at the end. *)
Lengthened(v, w, x) ==
  /\ Size(w) = Size(v) + 1
  /\ \A k \in Nat : k < Size(w) => At(w, k) = IF k = Size(v) THEN x ELSE At(v, k)

LEMMA PushBackKept ==
  ASSUME NEW v, VectorKept(v), NEW x \in Values
  PROVE  VectorKept(PushBack(v, x)) /\ Lengthened(v, PushBack(v, x), x)
  <1> DEFINE w == PushBack(v, x)
             D == Values \cup {Raw}
  <1>1. PackedVector(v, D) /\ v.n \in Nat /\ v.alive \subseteq SeatsOf(v) /\ Size(v) \in Nat
    BY SizeOfKept DEF VectorKept
  <1>2. /\ PackedVector(w, D) /\ Size(w) = Size(v) + 1
        /\ w.n \in {v.n, v.n + 1} /\ w.alive = v.alive \cup {FromInteger(Size(v))}
        /\ \A k \in Nat : k < Size(w) => At(w, k) = IF k = Size(v) THEN x ELSE At(v, k)
    <2>1. x \in D /\ Raw \in D
      OBVIOUS
    <2> HIDE DEF D
    <2> QED
      BY <1>1, <2>1, PushBackExact
  <1> HIDE DEF w
  <1>3. SeatsOf(v) \subseteq SeatsOf(w)
    <2>1. w.n \in Nat /\ v.n <= w.n
      BY <1>1, <1>2
    <2> QED
      BY <1>1, <2>1, MoreSeats
  <1>4. \A k \in Nat : k < Size(w) => At(w, k) \in Values
    <2>1. \A k \in Nat : k < Size(v) => At(v, k) \in Values
      BY DEF VectorKept
    <2> QED
      BY <1>1, <1>2, <2>1
  <1>5. FromInteger(Size(v)) \in SeatsOf(w)
    <2>1. FromInteger(Size(v)).segment \in 0 .. w.n - 1
      BY <1>1, <1>2, ElementIn
    <2>2. /\ FromInteger(Size(v)).position \in 0 .. SegmentSize - 1
          /\ FromInteger(Size(v)) = Index(FromInteger(Size(v)).segment, FromInteger(Size(v)).position)
      BY <1>1, NumberPlace
    <2> DEFINE a == FromInteger(Size(v)).segment
               b == FromInteger(Size(v)).position
    <2> HIDE DEF a, b
    <2>3. Index(a, b) \in SeatsOf(w)
      BY <2>1, <2>2 DEF Index, SeatsOf, a, b
    <2> QED
      BY <2>2, <2>3 DEF a, b
  <1>6. VectorKept(w)
    BY <1>1, <1>2, <1>3, <1>4, <1>5 DEF VectorKept
  <1>7. Lengthened(v, w, x)
    BY <1>2 DEF Lengthened
  <1> QED
    BY <1>6, <1>7 DEF w

(* One element less: the last one is in the place of number k. *)
Filled(v, w, k) ==
  /\ Size(w) = Size(v) - 1
  /\ \A m \in Nat : m < Size(w) => At(w, m) = IF m = k THEN At(v, Size(v) - 1) ELSE At(v, m)

LEMMA EraseKept ==
  ASSUME NEW v, VectorKept(v), NEW k \in Nat, k < Size(v)
  PROVE  VectorKept(Erase(v, FromInteger(k))) /\ Filled(v, Erase(v, FromInteger(k)), k)
  <1> DEFINE w == Erase(v, FromInteger(k))
  <1>1. PackedVector(v, Values \cup {Raw}) /\ v.alive \subseteq SeatsOf(v) /\ Size(v) \in Nat
    BY SizeOfKept DEF VectorKept
  <1>2. /\ PackedVector(w, Values \cup {Raw}) /\ Size(w) = Size(v) - 1
        /\ w.n = v.n /\ w.alive = v.alive \ {FromInteger(k)}
        /\ \A m \in Nat : m < Size(w) => At(w, m) = IF m = k THEN At(v, Size(v) - 1) ELSE At(v, m)
    BY <1>1, EraseExact
  <1> HIDE DEF w
  <1>3. w.alive \subseteq SeatsOf(w)
    BY <1>1, <1>2 DEF SeatsOf
  <1>4. \A m \in Nat : m < Size(w) => At(w, m) \in Values
    <2>1. \A m \in Nat : m < Size(v) => At(v, m) \in Values
      BY DEF VectorKept
    <2> QED
      BY <1>1, <1>2, <2>1
  <1>5. VectorKept(w) /\ Filled(v, w, k)
    BY <1>2, <1>3, <1>4 DEF VectorKept, Filled
  <1> QED
    BY <1>5 DEF w

LEMMA CompactKept ==
  ASSUME NEW v, VectorKept(v)
  PROVE  VectorKept(Compact(v)) /\ SameElements(v, Compact(v))
  <1> DEFINE D == Values \cup {Raw}
             T == {k \in 0 .. v.n : \A i \in k .. v.n - 1 : v.seat[i] = 0}
             n == Min(T)
             w == Compact(v)
             seats == [i \in 0 .. n |-> v.seat[i]]
             rows == [i \in 0 .. n - 1 |-> v.data[i]]
             objects == {i \in v.alive : i.segment < n}
  <1>0. /\ IsVector(v) /\ SegmentSize \in Nat /\ SegmentSize > 0
        /\ v.n \in Nat /\ v.free \in 0 .. v.n /\ v.seat \in [0 .. v.n -> 0 .. SegmentSize]
        /\ v.data \in [0 .. v.n - 1 -> [0 .. SegmentSize - 1 -> D]]
        /\ \A s \in 0 .. v.free - 1 : v.seat[s] = SegmentSize
        /\ v.free < v.n => v.seat[v.free] < SegmentSize
        /\ \A s \in v.free + 1 .. v.n : v.seat[s] = 0
        /\ v.seat[v.n] = 0
        /\ v.alive \subseteq SeatsOf(v)
    BY IndexAssumption DEF VectorKept, PackedVector
  <1>1. n \in T
    <2>1. v.n \in T /\ T \subseteq Nat /\ T \subseteq Int
      BY <1>0
    <2>2. PICK m \in T : \A k \in T : m <= k
      BY <2>1, LeastNumber
    <2> HIDE DEF T
    <2>3. Min(T) = m
      BY <2>1, <2>2, MinIs
    <2> QED
      BY <2>2, <2>3
  <1> HIDE DEF n
  <1>3. n \in 0 .. v.n /\ v.free <= n /\ v.seat[n] = 0
    BY <1>0, <1>1
  <1>2. /\ 0 .. n \subseteq 0 .. v.n /\ 0 .. n - 1 \subseteq 0 .. v.n - 1
        /\ 0 .. v.free - 1 \subseteq 0 .. n /\ v.free + 1 .. n \subseteq 0 .. n
        /\ v.free + 1 .. n \subseteq v.free + 1 .. v.n
    BY <1>0, <1>3
  <1> HIDE DEF T
  <1>4. w = [v EXCEPT !.n = n, !.seat = seats, !.data = rows, !.alive = objects]
    BY DEF Compact, n, T
  <1> HIDE DEF w, seats, rows, objects
  <1>5. /\ IsVector(w) /\ w.n = n /\ w.free = v.free /\ w.seat = seats /\ w.data = rows
        /\ w.alive = objects
    BY <1>0, <1>4 DEF IsVector, Fields
  <1>6. seats \in [0 .. n -> 0 .. SegmentSize] /\ \A s \in 0 .. n : seats[s] = v.seat[s]
    BY <1>0, <1>2 DEF seats
  <1>7. /\ rows \in [0 .. n - 1 -> [0 .. SegmentSize - 1 -> D]]
        /\ \A s \in 0 .. n - 1 : rows[s] = v.data[s]
    <2> DEFINE R == [0 .. SegmentSize - 1 -> D]
    <2>1. v.data \in [0 .. v.n - 1 -> R]
      BY <1>0
    <2> HIDE DEF R
    <2>2. \A s \in 0 .. n - 1 : v.data[s] \in R
      BY <1>2, <2>1
    <2>3. rows \in [0 .. n - 1 -> R] /\ \A s \in 0 .. n - 1 : rows[s] = v.data[s]
      BY <2>2 DEF rows
    <2> QED
      BY <2>3 DEF R
  <1>8. PackedVector(w, D)
    <2>1. n \in Nat /\ v.free \in 0 .. n
      BY <1>0, <1>3
    <2>2. \A s \in 0 .. v.free - 1 : seats[s] = SegmentSize
      BY <1>0, <1>2, <1>6
    <2>3. v.free < n => seats[v.free] < SegmentSize
      BY <1>0, <1>3, <1>6
    <2>4. \A s \in v.free + 1 .. n : seats[s] = 0
      BY <1>0, <1>2, <1>6
    <2>5. seats[n] = 0
      BY <1>0, <1>3, <1>6
    <2> HIDE DEF D
    <2> QED
      BY <1>5, <1>6, <1>7, <2>1, <2>2, <2>3, <2>4, <2>5 DEF PackedVector
  <1>9. Size(w) = Size(v)
    <2>1. Size(w) = SegmentSize * v.free + seats[v.free]
      BY <1>5, <1>8, SizeIs
    <2>2. Size(v) = SegmentSize * v.free + v.seat[v.free]
      BY SizeIs DEF VectorKept
    <2>3. seats[v.free] = v.seat[v.free]
      BY <1>0, <1>3, <1>6
    <2> QED
      BY <2>1, <2>2, <2>3
  <1>10. ASSUME NEW k \in Nat, k < Size(v) PROVE At(w, k) = At(v, k)
    <2>1. FromInteger(k).segment \in 0 .. n - 1
      <3> HIDE DEF D
      <3> QED
        BY <1>5, <1>8, <1>9, <1>10, ElementIn
    <2> QED
      BY <1>5, <1>7, <2>1 DEF At, Get
  <1>11. w.alive \subseteq SeatsOf(w)
    <2>1. \A i \in SeatsOf(v) : i.segment < n => i \in SeatsOf(w)
      BY <1>0, <1>3, <1>5 DEF SeatsOf
    <2> QED
      BY <1>0, <1>5, <2>1 DEF objects
  <1>12. VectorKept(w)
    BY <1>8, <1>9, <1>10, <1>11 DEF VectorKept
  <1>13. SameElements(v, w)
    BY <1>9, <1>10 DEF SameElements
  <1> QED
    BY <1>12, <1>13 DEF w

LEMMA CopyKept ==
  ASSUME NEW v, VectorKept(v)
  PROVE  VectorKept(Copy(v)) /\ SameElements(v, Copy(v))
  <1> DEFINE D == Values \cup {Raw}
             R == [0 .. SegmentSize - 1 -> D]
             w == Copy(v)
             rows == [i \in DOMAIN v.data |-> [p \in DOMAIN v.data[i] |->
                        IF p < v.seat[i] THEN v.data[i][p] ELSE Raw]]
             objects == {i \in [segment : 0 .. v.n - 1, position : 0 .. SegmentSize - 1] :
                           IsValid(v, i)}
  <1>0. /\ IsVector(v) /\ SegmentSize \in Nat /\ SegmentSize > 0 /\ v.n \in Nat
        /\ v.data \in [0 .. v.n - 1 -> [0 .. SegmentSize - 1 -> D]]
        /\ PackedVector(v, D)
    BY IndexAssumption DEF VectorKept, PackedVector
  <1>1. w = [v EXCEPT !.data = rows, !.alive = objects]
    BY DEF Copy
  <1> HIDE DEF w, rows, objects
  <1>2. /\ IsVector(w) /\ w.n = v.n /\ w.free = v.free /\ w.seat = v.seat /\ w.data = rows
        /\ w.alive = objects
    BY <1>0, <1>1 DEF IsVector, Fields
  <1>3. rows = [i \in 0 .. v.n - 1 |-> [p \in 0 .. SegmentSize - 1 |->
                        IF p < v.seat[i] THEN v.data[i][p] ELSE Raw]]
    <2>1. DOMAIN v.data = 0 .. v.n - 1 /\ \A i \in 0 .. v.n - 1 : DOMAIN v.data[i] = 0 .. SegmentSize - 1
      BY <1>0
    <2> QED
      BY <2>1 DEF rows
  <1>4. rows \in [0 .. v.n - 1 -> R]
    <2>1. ASSUME NEW i \in 0 .. v.n - 1
          PROVE  [p \in 0 .. SegmentSize - 1 |-> IF p < v.seat[i] THEN v.data[i][p] ELSE Raw] \in R
      <3>1. \A p \in 0 .. SegmentSize - 1 : v.data[i][p] \in D /\ Raw \in D
        BY <1>0
      <3> HIDE DEF D
      <3> QED
        BY <3>1
    <2> HIDE DEF R
    <2> QED
      BY <1>3, <2>1
  <1>5. PackedVector(w, D)
    <2> HIDE DEF D
    <2> QED
      BY <1>0, <1>2, <1>4 DEF PackedVector
  <1>6. Size(w) = Size(v)
    BY <1>2 DEF Size
  <1>7. ASSUME NEW k \in Nat, k < Size(v) PROVE At(w, k) = At(v, k)
    <2> DEFINE a == FromInteger(k).segment
               b == FromInteger(k).position
    <2>1. a < v.n /\ b < v.seat[a] /\ a \in Nat /\ b \in 0 .. SegmentSize - 1
      <3>1. IsValid(v, FromInteger(k))
        BY <1>0, <1>7, SizeIs
      <3> QED
        BY <3>1, NumberPlace DEF IsValid
    <2>2. At(w, k) = rows[a][b] /\ At(v, k) = v.data[a][b]
      BY <1>2 DEF At, Get
    <2> HIDE DEF a, b
    <2>3. a \in 0 .. v.n - 1
      BY <1>0, <2>1
    <2> QED
      BY <1>3, <2>1, <2>2, <2>3
  <1>8. w.alive \subseteq SeatsOf(w)
    BY <1>2 DEF objects, SeatsOf
  <1>9. VectorKept(w) /\ SameElements(v, w)
    BY <1>5, <1>6, <1>7, <1>8 DEF VectorKept, SameElements
  <1> QED
    BY <1>9 DEF w

-----------------------------------------------------------------------------
(* Repeat *)

LEMMA AllNumbers ==
  ASSUME NEW T, T \subseteq Nat, 0 \in T, \A k \in T : k + 1 \in T
  PROVE  T = Nat
  <1>1. SUFFICES ASSUME Nat \ T # {} PROVE FALSE
    OBVIOUS
  <1>2. PICK m \in Nat \ T : \A k \in Nat \ T : m <= k
    BY <1>1, LeastNumber
  <1>3. m - 1 \in T /\ (m - 1) + 1 = m
    BY <1>2
  <1> QED
    BY <1>2, <1>3

FirstMatch(w, P) == FromInteger(Min(Matches(w, P)) - 1)

(* What is repeated: a segment more, an element x more, a match in x less. *)
Turn(kind, x, w) ==
  CASE kind = 1 -> AppendSegment(w)
    [] kind = 2 -> PushBack(w, x)
    [] kind = 3 -> Erase(w, FirstMatch(w, x))

Turns(kind, x, v, k, g) ==
  g = [i \in 0 .. k |-> IF i = 0 THEN v ELSE Turn(kind, x, g[i - 1])]

LEMMA TurnsExist ==
  ASSUME NEW kind, NEW x, NEW v, NEW k \in Nat
  PROVE  \E g : Turns(kind, x, v, k, g)
  <1> DEFINE T == {j \in Nat : \E g : Turns(kind, x, v, j, g)}
  <1>1. 0 \in T
    <2>1. Turns(kind, x, v, 0, [i \in 0 .. 0 |-> v])
      BY DEF Turns
    <2> QED
      BY <2>1
  <1>2. ASSUME NEW j \in T PROVE j + 1 \in T
    <2>1. PICK h : Turns(kind, x, v, j, h)
      OBVIOUS
    <2> DEFINE g == [i \in 0 .. j + 1 |-> IF i = 0 THEN v ELSE Turn(kind, x, h[i - 1])]
    <2>2. \A i \in 0 .. j : h[i] = g[i]
      BY <2>1 DEF Turns
    <2>3. \A i \in 0 .. j + 1 : i # 0 => h[i - 1] = g[i - 1]
      <3>1. \A i \in 0 .. j + 1 : i # 0 => i - 1 \in 0 .. j
        OBVIOUS
      <3> HIDE DEF g, T
      <3> QED
        BY <2>2, <3>1
    <2>4. g = [i \in 0 .. j + 1 |-> IF i = 0 THEN v ELSE Turn(kind, x, g[i - 1])]
      <3> HIDE DEF g
      <3>1. g = [i \in 0 .. j + 1 |-> IF i = 0 THEN v ELSE Turn(kind, x, h[i - 1])]
        BY DEF g
      <3> QED
        BY <2>3, <3>1
    <2>5. Turns(kind, x, v, j + 1, g)
      BY <2>4 DEF Turns
    <2> QED
      BY <2>5
  <1> HIDE DEF T
  <1>3. T \subseteq Nat
    BY DEF T
  <1>4. T = Nat
    BY <1>1, <1>2, <1>3, AllNumbers
  <1> QED
    BY <1>4 DEF T

(* The result of k turns is the last of k + 1 vectors, each a turn after the one before. *)
LEMMA TurnsTaken ==
  ASSUME NEW kind, NEW x, NEW v, NEW k \in Nat
  PROVE  LET g == CHOOSE g : Turns(kind, x, v, k, g)
         IN g[0] = v /\ \A i \in 0 .. k - 1 : g[i + 1] = Turn(kind, x, g[i])
  <1> DEFINE g == CHOOSE g : Turns(kind, x, v, k, g)
  <1>1. Turns(kind, x, v, k, g)
    BY TurnsExist
  <1> HIDE DEF g
  <1>2. g[0] = v /\ \A i \in 0 .. k : i # 0 => g[i] = Turn(kind, x, g[i - 1])
    BY <1>1 DEF Turns
  <1>3. ASSUME NEW i \in 0 .. k - 1 PROVE g[i + 1] = Turn(kind, x, g[i])
    <2>1. i + 1 \in 0 .. k /\ i + 1 # 0 /\ (i + 1) - 1 = i
      OBVIOUS
    <2> QED
      BY <1>2, <2>1
  <1> QED
    BY <1>2, <1>3 DEF g

LEMMA RepeatAppends ==
  ASSUME NEW v, NEW k \in Nat
  PROVE  Repeat(AppendSegment, k, v) = (CHOOSE g : Turns(1, 0, v, k, g))[k]
  <1> DEFINE Steps(g) == g = [i \in 0 .. k |-> IF i = 0 THEN v ELSE AppendSegment(g[i - 1])]
  <1>1. Repeat(AppendSegment, k, v) = (CHOOSE g : Steps(g))[k]
    BY DEF Repeat
  <1>2. \A g : Steps(g) <=> Turns(1, 0, v, k, g)
    BY DEF Turns, Turn
  <1> HIDE DEF Steps
  <1>3. (CHOOSE g : Steps(g)) = CHOOSE g : Turns(1, 0, v, k, g)
    BY <1>2
  <1> QED
    BY <1>1, <1>3

LEMMA RepeatPushes ==
  ASSUME NEW v, NEW k \in Nat, NEW x
  PROVE  Repeat(LAMBDA w : PushBack(w, x), k, v) = (CHOOSE g : Turns(2, x, v, k, g))[k]
  <1> DEFINE Steps(g) == g = [i \in 0 .. k |-> IF i = 0 THEN v ELSE PushBack(g[i - 1], x)]
  <1>1. Repeat(LAMBDA w : PushBack(w, x), k, v) = (CHOOSE g : Steps(g))[k]
    BY DEF Repeat
  <1>2. \A g : Steps(g) <=> Turns(2, x, v, k, g)
    BY DEF Turns, Turn
  <1> HIDE DEF Steps
  <1>3. (CHOOSE g : Steps(g)) = CHOOSE g : Turns(2, x, v, k, g)
    BY <1>2
  <1> QED
    BY <1>1, <1>3

LEMMA RepeatErases ==
  ASSUME NEW v, NEW k \in Nat, NEW P
  PROVE  Repeat(LAMBDA w : Erase(w, FromInteger(Min(Matches(w, P)) - 1)), k, v)
           = (CHOOSE g : Turns(3, P, v, k, g))[k]
  <1> DEFINE Steps(g) == g = [i \in 0 .. k |-> IF i = 0 THEN v
                                ELSE Erase(g[i - 1], FromInteger(Min(Matches(g[i - 1], P)) - 1))]
  <1>1. Repeat(LAMBDA w : Erase(w, FromInteger(Min(Matches(w, P)) - 1)), k, v)
          = (CHOOSE g : Steps(g))[k]
    BY DEF Repeat
  <1>2. \A g : Steps(g) <=> Turns(3, P, v, k, g)
    BY DEF Turns, Turn, FirstMatch
  <1> HIDE DEF Steps
  <1>3. (CHOOSE g : Steps(g)) = CHOOSE g : Turns(3, P, v, k, g)
    BY <1>2
  <1> QED
    BY <1>1, <1>3

-----------------------------------------------------------------------------
(* reserve and resize *)

LEMMA AppendsKept ==
  ASSUME NEW v, VectorKept(v), NEW k \in Nat
  PROVE  LET w == Repeat(AppendSegment, k, v)
         IN VectorKept(w) /\ SameElements(v, w)
  <1> DEFINE g == CHOOSE g : Turns(1, 0, v, k, g)
             T == {j \in Nat : j <= k => VectorKept(g[j]) /\ SameElements(v, g[j])}
  <1>1. g[0] = v /\ \A i \in 0 .. k - 1 : g[i + 1] = AppendSegment(g[i])
    BY TurnsTaken DEF Turn
  <1> HIDE DEF g
  <1>2. 0 \in T
    BY <1>1 DEF SameElements
  <1>3. ASSUME NEW j \in T PROVE j + 1 \in T
    <2>1. SUFFICES ASSUME j + 1 <= k PROVE VectorKept(g[j + 1]) /\ SameElements(v, g[j + 1])
      OBVIOUS
    <2>2. VectorKept(g[j]) /\ SameElements(v, g[j]) /\ g[j + 1] = AppendSegment(g[j])
      BY <1>1, <2>1
    <2>3. VectorKept(g[j + 1]) /\ SameElements(g[j], g[j + 1])
      BY <2>2, AppendKept
    <2> QED
      BY <2>2, <2>3 DEF SameElements
  <1>4. T = Nat
    <2>1. T \subseteq Nat
      OBVIOUS
    <2> HIDE DEF T
    <2> QED
      BY <1>2, <1>3, <2>1, AllNumbers
  <1>5. VectorKept(g[k]) /\ SameElements(v, g[k])
    BY <1>4
  <1> QED
    BY <1>5, RepeatAppends DEF g

(* k elements x more, at the end. *)
Grown(v, w, k, x) ==
  /\ Size(w) = Size(v) + k
  /\ \A m \in Nat : m < Size(w) => At(w, m) = IF m < Size(v) THEN At(v, m) ELSE x

LEMMA PushesKept ==
  ASSUME NEW v, VectorKept(v), NEW k \in Nat, NEW x \in Values
  PROVE  LET w == Repeat(LAMBDA w : PushBack(w, x), k, v)
         IN VectorKept(w) /\ Grown(v, w, k, x)
  <1> DEFINE g == CHOOSE g : Turns(2, x, v, k, g)
             T == {j \in Nat : j <= k => VectorKept(g[j]) /\ Grown(v, g[j], j, x)}
  <1>1. g[0] = v /\ \A i \in 0 .. k - 1 : g[i + 1] = PushBack(g[i], x)
    BY TurnsTaken DEF Turn
  <1> HIDE DEF g
  <1>2. Size(v) \in Nat
    BY SizeOfKept
  <1>3. 0 \in T
    BY <1>1, <1>2 DEF Grown
  <1>4. ASSUME NEW j \in T PROVE j + 1 \in T
    <2>1. SUFFICES ASSUME j + 1 <= k PROVE VectorKept(g[j + 1]) /\ Grown(v, g[j + 1], j + 1, x)
      OBVIOUS
    <2>2. VectorKept(g[j]) /\ Grown(v, g[j], j, x) /\ g[j + 1] = PushBack(g[j], x)
      BY <1>1, <2>1
    <2>3. VectorKept(g[j + 1]) /\ Lengthened(g[j], g[j + 1], x)
      BY <2>2, PushBackKept
    <2>4. Grown(v, g[j + 1], j + 1, x)
      BY <1>2, <2>2, <2>3 DEF Grown, Lengthened
    <2> QED
      BY <2>3, <2>4
  <1>5. T = Nat
    <2>1. T \subseteq Nat
      OBVIOUS
    <2> HIDE DEF T
    <2> QED
      BY <1>3, <1>4, <2>1, AllNumbers
  <1>6. VectorKept(g[k]) /\ Grown(v, g[k], k, x)
    BY <1>5
  <1> QED
    BY <1>6, RepeatPushes DEF g

LEMMA ZeroOrMore ==
  ASSUME NEW d \in Int
  PROVE  Max({0, d}) = (IF d > 0 THEN d ELSE 0) /\ Max({0, d}) \in Nat
  <1>1. CASE d > 0
    BY <1>1, MaxIs
  <1>2. CASE ~(d > 0)
    BY <1>2, MaxIs
  <1> QED
    BY <1>1, <1>2

LEMMA ReserveKept ==
  ASSUME NEW v, VectorKept(v), NEW size \in Nat
  PROVE  VectorKept(Reserve(v, size)) /\ SameElements(v, Reserve(v, size))
  <1> DEFINE d == (size + SegmentSize - 1) \div SegmentSize - v.n
  <1>1. d \in Int
    BY SizeOfKept, DivMod, IndexAssumption
  <1>2. Max({0, d}) \in Nat
    BY <1>1, ZeroOrMore
  <1> QED
    BY <1>2, AppendsKept DEF Reserve

LEMMA ResizeKept ==
  ASSUME NEW v, VectorKept(v), NEW size \in Nat, NEW x \in Values
  PROVE  LET more == IF size > Size(v) THEN size - Size(v) ELSE 0
         IN VectorKept(Resize(v, size, x)) /\ Grown(v, Resize(v, size, x), more, x)
  <1> DEFINE w == Reserve(v, size)
             more == Max({0, size - Size(v)})
  <1>1. Size(v) \in Nat
    BY SizeOfKept
  <1>2. more = (IF size > Size(v) THEN size - Size(v) ELSE 0) /\ more \in Nat
    BY <1>1, ZeroOrMore
  <1>3. VectorKept(w) /\ SameElements(v, w)
    BY ReserveKept
  <1> HIDE DEF w, more
  <1>4. LET u == Repeat(LAMBDA y : PushBack(y, x), more, w)
        IN VectorKept(u) /\ Grown(w, u, more, x)
    BY <1>2, <1>3, PushesKept
  <1>5. Resize(v, size, x) = Repeat(LAMBDA y : PushBack(y, x), more, w)
    BY DEF Resize, more, w
  <1>6. VectorKept(Resize(v, size, x)) /\ Grown(w, Resize(v, size, x), more, x)
    BY <1>4, <1>5
  <1>7. Grown(v, Resize(v, size, x), more, x)
    BY <1>3, <1>6 DEF Grown, SameElements
  <1> QED
    BY <1>2, <1>6, <1>7

-----------------------------------------------------------------------------
(* eraseIf *)

LEMMA MatchesAre ==
  ASSUME NEW v, VectorKept(v), NEW Q
  PROVE  /\ Matches(v, Q) = {k \in 1 .. Size(v) : At(v, k - 1) \in Q}
         /\ IsFiniteSet(Matches(v, Q)) /\ Cardinality(Matches(v, Q)) \in Nat
  <1>1. DOMAIN Elements(v) = 1 .. Size(v) /\ \A k \in 1 .. Size(v) : Elements(v)[k] = At(v, k - 1)
    BY DEF Elements, At
  <1>2. Matches(v, Q) = {k \in 1 .. Size(v) : At(v, k - 1) \in Q}
    BY <1>1 DEF Matches
  <1>3. IsFiniteSet(1 .. Size(v))
    BY SizeOfKept, FS_Interval
  <1>4. IsFiniteSet(Matches(v, Q))
    BY <1>2, <1>3, FS_Subset
  <1> QED
    BY <1>2, <1>4, FS_CardinalityType

(* How often elements of a set Q occur, when the last one takes the place of number k. *)
LEMMA FilledCounts ==
  ASSUME NEW v, VectorKept(v), NEW w, VectorKept(w), NEW k \in Nat, k < Size(v), Filled(v, w, k), NEW Q
  PROVE  Cardinality(Matches(w, Q))
           = Cardinality(Matches(v, Q)) - (IF At(v, k) \in Q THEN 1 ELSE 0)
  <1> DEFINE n == Size(v)
             before == Matches(v, Q)
             after == Matches(w, Q)
  <1>1. n \in Nat /\ n > 0 /\ Size(w) = n - 1
    BY SizeOfKept DEF Filled
  <1>2. /\ before = {i \in 1 .. n : At(v, i - 1) \in Q}
        /\ after = {i \in 1 .. n - 1 : At(w, i - 1) \in Q}
        /\ IsFiniteSet(before) /\ Cardinality(before) \in Nat
    BY <1>1, MatchesAre
  <1> HIDE DEF n, before, after
  <1> DEFINE less == IF At(v, k) \in Q THEN 1 ELSE 0
  <1> SUFFICES Cardinality(after) = Cardinality(before) - less
    BY DEF before, after
  <1>9. IsFiniteSet(before)
    BY <1>2
  <1>3. \A i \in 1 .. n - 1 : At(w, i - 1) = IF i = k + 1 THEN At(v, n - 1) ELSE At(v, i - 1)
    <2>1. \A i \in 1 .. n - 1 : i - 1 \in Nat /\ i - 1 < Size(w) /\ (i - 1 = k <=> i = k + 1)
      BY <1>1
    <2> QED
      BY <2>1 DEF Filled, n
  <1>4. k + 1 \in 1 .. n /\ (k + 1) - 1 = k
    BY <1>1 DEF n
  <1>5. CASE At(v, n - 1) \in Q /\ At(v, k) \in Q
    <2>1. n \in before
      BY <1>1, <1>2, <1>5
    <2>2. after = before \ {n}
      BY <1>1, <1>2, <1>3, <1>4, <1>5
    <2>3. Cardinality(after) = Cardinality(before) - 1
      BY <1>9, <2>1, <2>2, FS_RemoveElement
    <2> QED
      BY <1>5, <2>3
  <1>6. CASE At(v, n - 1) \notin Q /\ At(v, k) \in Q
    <2>1. k + 1 \in before
      BY <1>1, <1>2, <1>4, <1>6
    <2>2. after = before \ {k + 1}
      BY <1>1, <1>2, <1>3, <1>4, <1>6
    <2>3. Cardinality(after) = Cardinality(before) - 1
      BY <1>9, <2>1, <2>2, FS_RemoveElement
    <2> QED
      BY <1>6, <2>3
  <1>7. CASE At(v, n - 1) \in Q /\ At(v, k) \notin Q
    <2>1. n \in before /\ k + 1 \notin before
      BY <1>1, <1>2, <1>4, <1>7
    <2>2. after = (before \ {n}) \cup {k + 1}
      BY <1>1, <1>2, <1>3, <1>4, <1>7
    <2>3. IsFiniteSet(before \ {n}) /\ Cardinality(before \ {n}) = Cardinality(before) - 1
      BY <1>2, <2>1, FS_RemoveElement
    <2>4. Cardinality(after) = Cardinality(before \ {n}) + 1
      BY <2>1, <2>2, <2>3, FS_AddElement
    <2> QED
      BY <1>2, <1>7, <2>3, <2>4
  <1>8. CASE At(v, n - 1) \notin Q /\ At(v, k) \notin Q
    <2>1. after = before
      BY <1>1, <1>2, <1>3, <1>4, <1>8
    <2> QED
      BY <1>2, <1>8, <2>1
  <1> QED
    BY <1>5, <1>6, <1>7, <1>8

(* A match is erased, and is not among the matches any more. *)
LEMMA EraseFirstMatch ==
  ASSUME NEW v, VectorKept(v), NEW P, Cardinality(Matches(v, P)) > 0
  PROVE  LET w == Erase(v, FirstMatch(v, P))
         IN /\ VectorKept(w) /\ Cardinality(Matches(w, P)) = Cardinality(Matches(v, P)) - 1
            /\ \A x : x \notin P => Cardinality(Matches(w, {x})) = Cardinality(Matches(v, {x}))
            /\ \E k \in Nat : k < Size(v) /\ Filled(v, w, k)
  <1> DEFINE T == Matches(v, P)
  <1>1. T = {k \in 1 .. Size(v) : At(v, k - 1) \in P} /\ Size(v) \in Nat /\ Cardinality(T) \in Nat
    BY MatchesAre, SizeOfKept
  <1>2. T # {}
    BY <1>1, FS_EmptySet
  <1> HIDE DEF T
  <1>3. PICK m \in T : \A k \in T : m <= k
    BY <1>1, <1>2, LeastNumber
  <1>4. Min(T) = m
    BY <1>1, <1>3, MinIs
  <1>5. m - 1 \in Nat /\ m - 1 < Size(v) /\ At(v, m - 1) \in P
    BY <1>1, <1>3
  <1> DEFINE w == Erase(v, FirstMatch(v, P))
  <1>6. VectorKept(w) /\ Filled(v, w, m - 1)
    BY <1>4, <1>5, EraseKept DEF FirstMatch, T
  <1> HIDE DEF w
  <1>7. Cardinality(Matches(w, P)) = Cardinality(Matches(v, P)) - 1
    BY <1>5, <1>6, FilledCounts
  <1>8. ASSUME NEW x, x \notin P
        PROVE  Cardinality(Matches(w, {x})) = Cardinality(Matches(v, {x}))
    <2>1. At(v, m - 1) \notin {x}
      BY <1>5, <1>8
    <2>2. Cardinality(Matches(w, {x})) = Cardinality(Matches(v, {x})) - 0
      BY <1>5, <1>6, <2>1, FilledCounts
    <2> QED
      BY <2>2, MatchesAre
  <1> QED
    BY <1>5, <1>6, <1>7, <1>8 DEF w

(* The elements of P are gone, the others are as many as before, and erasing one moves one. *)
Without(v, w, P) ==
  /\ Cardinality(Matches(w, P)) = 0
  /\ \A x : x \notin P => Cardinality(Matches(w, {x})) = Cardinality(Matches(v, {x}))
  /\ Size(w) <= Size(v)
  /\ Size(w) = Size(v) => w = v
  /\ Size(w) = Size(v) - 1 => \E k \in Nat : k < Size(v) /\ Filled(v, w, k)

LEMMA EraseIfKept ==
  ASSUME NEW v, VectorKept(v), NEW P
  PROVE  VectorKept(EraseIf(v, P)) /\ Without(v, EraseIf(v, P), P)
  <1> DEFINE c == Cardinality(Matches(v, P))
             g == CHOOSE g : Turns(3, P, v, c, g)
             Done(w, j) == /\ VectorKept(w) /\ Cardinality(Matches(w, P)) = c - j
                           /\ \A x : x \notin P => Cardinality(Matches(w, {x})) = Cardinality(Matches(v, {x}))
                           /\ Size(w) = Size(v) - j
                           /\ j = 1 => \E k \in Nat : k < Size(v) /\ Filled(v, w, k)
             T == {j \in Nat : j <= c => Done(g[j], j)}
  <1>1. c \in Nat /\ Size(v) \in Nat
    BY MatchesAre, SizeOfKept
  <1>2. g[0] = v /\ \A i \in 0 .. c - 1 : g[i + 1] = Erase(g[i], FirstMatch(g[i], P))
    BY <1>1, TurnsTaken DEF Turn
  <1>3. EraseIf(v, P) = g[c]
    BY <1>1, RepeatErases DEF EraseIf
  <1> HIDE DEF g, c
  <1>4. Done(v, 0)
    BY <1>1 DEF c
  <1>5. ASSUME NEW j \in Nat, j + 1 <= c, Done(g[j], j) PROVE Done(g[j + 1], j + 1)
    <2> DEFINE w == g[j]
               u == g[j + 1]
    <2>1. u = Erase(w, FirstMatch(w, P))
      BY <1>1, <1>2, <1>5
    <2>2. VectorKept(w) /\ Cardinality(Matches(w, P)) > 0
      BY <1>1, <1>5
    <2>3. /\ VectorKept(u) /\ Cardinality(Matches(u, P)) = Cardinality(Matches(w, P)) - 1
          /\ \A x : x \notin P => Cardinality(Matches(u, {x})) = Cardinality(Matches(w, {x}))
          /\ \E k \in Nat : k < Size(w) /\ Filled(w, u, k)
      BY <2>1, <2>2, EraseFirstMatch
    <2>4. Size(u) = Size(v) - (j + 1)
      BY <1>1, <1>5, <2>3 DEF Filled
    <2>5. Cardinality(Matches(u, P)) = c - (j + 1)
      BY <1>1, <1>5, <2>3
    <2>6. j + 1 = 1 => w = v
      <3>1. j + 1 = 1 => j = 0
        OBVIOUS
      <3> QED
        BY <1>2, <3>1
    <2> HIDE DEF w, u
    <2>7. \A x : x \notin P => Cardinality(Matches(u, {x})) = Cardinality(Matches(v, {x}))
      BY <1>5, <2>3 DEF w
    <2> QED
      BY <2>3, <2>4, <2>5, <2>6, <2>7 DEF u
  <1> HIDE DEF Done
  <1>6. T = Nat
    <2>1. T \subseteq Nat /\ 0 \in T
      BY <1>2, <1>4
    <2>2. ASSUME NEW j \in T PROVE j + 1 \in T
      <3>1. j + 1 <= c => j <= c
        BY <1>1
      <3> QED
        BY <1>5, <3>1
    <2> HIDE DEF T
    <2> QED
      BY <2>1, <2>2, AllNumbers
  <1>7. Done(EraseIf(v, P), c)
    BY <1>1, <1>3, <1>6
  <1>8. c = 0 => EraseIf(v, P) = v
    BY <1>2, <1>3
  <1> DEFINE w == EraseIf(v, P)
  <1> HIDE DEF w
  <1>9. /\ VectorKept(w) /\ Cardinality(Matches(w, P)) = c - c
        /\ \A x : x \notin P => Cardinality(Matches(w, {x})) = Cardinality(Matches(v, {x}))
        /\ Size(w) = Size(v) - c
        /\ c = 1 => \E k \in Nat : k < Size(v) /\ Filled(v, w, k)
    BY <1>7 DEF Done, w
  <1>10. c = 0 => w = v
    BY <1>8 DEF w
  <1>11. Without(v, w, P)
    BY <1>1, <1>9, <1>10 DEF Without
  <1> QED
    BY <1>9, <1>11 DEF w

-----------------------------------------------------------------------------
(* The steps *)

VectorInv == VectorKept(vec) /\ Size(vec) <= MaxSize

LEMMA SizesFit ==
  /\ MaxSize \in Nat /\ SegmentSize \in Nat /\ SegmentSize > 0
  /\ \A k \in 0 .. MaxSize : Fits(k)
  BY VectorAssumption, IndexAssumption DEF Fits

(* An index of a valid element is its number. *)
LEMMA ValidHasNumber ==
  ASSUME NEW v, VectorKept(v), NEW i \in SeatsOf(v), IsValid(v, i)
  PROVE  \E k \in Nat : k < Size(v) /\ i = FromInteger(k)
  <1> DEFINE q == i.segment
             r == i.position
             k == SegmentSize * q + r
  <1>1. /\ q \in 0 .. v.n - 1 /\ r \in 0 .. SegmentSize - 1
        /\ i = [segment |-> q, position |-> r]
    BY DEF SeatsOf
  <1>2. q \in Nat
    BY <1>1, SizeOfKept
  <1> HIDE DEF q, r
  <1>3. k \in Nat /\ i = FromInteger(k)
    BY <1>1, <1>2, PlaceNumber DEF Index
  <1>4. k < Size(v)
    BY <1>3, SizeIs DEF VectorKept
  <1> QED
    BY <1>3, <1>4

LEMMA ClearKept ==
  ASSUME NEW v
  PROVE  VectorKept(Clear(v)) /\ Size(Clear(v)) = 0
  BY EmptyKept DEF Clear

LEMMA StepsKept ==
  ASSUME VectorInv, [Next]_vec
  PROVE  VectorInv'
  <1>0. Size(vec) \in Nat /\ MaxSize \in Nat /\ Size(vec) <= MaxSize
    BY SizeOfKept, SizesFit DEF VectorInv
  <1>1. ASSUME NEW x \in Values, DoPushBack(x) PROVE VectorInv'
    <2>1. VectorKept(vec') /\ Size(vec') = Size(vec) + 1 /\ Size(vec) < MaxSize
      BY <1>1, PushBackKept DEF DoPushBack, VectorInv, Lengthened
    <2>2. Size(vec') <= MaxSize
      BY <1>0, <2>1
    <2> QED
      BY <2>1, <2>2 DEF VectorInv
  <1>2. ASSUME NEW i \in Seats, DoErase(i) PROVE VectorInv'
    <2>1. PICK k \in Nat : k < Size(vec) /\ i = FromInteger(k)
      BY <1>2, ValidHasNumber DEF DoErase, Seats, SeatsOf, VectorInv
    <2>2. VectorKept(vec') /\ Size(vec') = Size(vec) - 1
      BY <1>2, <2>1, EraseKept DEF DoErase, VectorInv, Filled
    <2>3. Size(vec') <= MaxSize
      BY <1>0, <2>2
    <2> QED
      BY <2>2, <2>3 DEF VectorInv
  <1>3. ASSUME NEW P \in SUBSET Values, DoEraseIf(P) PROVE VectorInv'
    <2>1. VectorKept(vec') /\ Size(vec') <= Size(vec)
      BY <1>3, EraseIfKept DEF DoEraseIf, VectorInv, Without
    <2>2. Size(vec') \in Nat
      BY <2>1, SizeOfKept
    <2>3. Size(vec') <= MaxSize
      BY <1>0, <2>1, <2>2
    <2> QED
      BY <2>1, <2>3 DEF VectorInv
  <1>4. ASSUME NEW size \in Sizes, DoReserve(size) PROVE VectorInv'
    <2>1. size \in Nat
      BY <1>0 DEF Sizes
    <2>2. VectorKept(vec') /\ Size(vec') = Size(vec)
      BY <1>4, <2>1, ReserveKept DEF DoReserve, VectorInv, SameElements
    <2> QED
      BY <1>0, <2>2 DEF VectorInv
  <1>5. ASSUME NEW size \in Sizes, NEW x \in Values, DoResize(size, x) PROVE VectorInv'
    <2>1. size \in Nat /\ size <= MaxSize
      BY <1>0 DEF Sizes
    <2>2. /\ VectorKept(vec')
          /\ Size(vec') = Size(vec) + (IF size > Size(vec) THEN size - Size(vec) ELSE 0)
      BY <1>5, <2>1, ResizeKept DEF DoResize, VectorInv, Grown
    <2>3. Size(vec') <= MaxSize
      BY <1>0, <2>1, <2>2
    <2> QED
      BY <2>2, <2>3 DEF VectorInv
  <1>6. CASE DoCompact
    BY <1>6, CompactKept DEF DoCompact, VectorInv, SameElements
  <1>7. CASE DoClear
    <2>1. VectorKept(vec') /\ Size(vec') = 0
      BY <1>7, ClearKept DEF DoClear
    <2> QED
      BY <1>0, <2>1 DEF VectorInv
  <1>8. CASE DoCopy
    BY <1>8, CopyKept DEF DoCopy, VectorInv, SameElements
  <1>9. CASE UNCHANGED vec
    BY <1>9 DEF VectorInv
  <1> QED
    BY <1>1, <1>2, <1>3, <1>4, <1>5, <1>6, <1>7, <1>8, <1>9 DEF Next

LEMMA VectorHolds == Spec => []VectorInv
  <1>1. Init => VectorInv
    BY EmptyKept, SizesFit DEF Init, VectorInv
  <1>2. VectorInv /\ [Next]_vec => VectorInv'
    BY StepsKept
  <1> QED
    BY <1>1, <1>2, PTL DEF Spec

(* The variable has its type, and only seats that there are hold objects. *)
THEOREM VectorTypes == Spec => []TypeOK
  <1>1. VectorInv => TypeOK
    BY DEF VectorInv, VectorKept, PackedVector, TypeOK, Seats, SeatsOf
  <1> QED
    BY <1>1, VectorHolds, PTL

(* No sequence of operations leaves a hole before mFirstFreeSegment, or an element behind it. *)
THEOREM StaysPacked == Spec => []Packed
  <1>1. VectorInv => Packed
    BY DEF VectorInv, VectorKept, PackedVector, Packed
  <1> QED
    BY <1>1, VectorHolds, PTL

-----------------------------------------------------------------------------
(* Iterators *)

(* rend() is before begin(). *)
LEMMA FirstBefore == Increment(REnd) = Begin /\ Decrement(Begin) = REnd
  <1>1. Words \in Nat /\ Words > 0 /\ SegmentSize \in Nat /\ SegmentSize > 0
    BY IndexAssumption
  <1>2. Wrap(Words - 1 + 1) = 0
    <2>1. Words - 1 + 1 = Words * 1 + 0 /\ 0 \in 0 .. Words - 1 /\ Words - 1 + 1 \in Int
      BY <1>1
    <2>2. ((Words - 1 + 1) % Words) = 0
      BY <1>1, <2>1, DivUnique
    <2> QED
      BY <2>2 DEF Wrap
  <1>3. Wrap(0 - 1) = Words - 1
    <2>1. 0 - 1 \in -Words .. -1
      BY <1>1
    <2> QED
      BY <1>1, <2>1, WrapBelow
  <1>4. REnd.segment = Words - 1 /\ REnd.position = SegmentSize - 1 /\ Begin.segment = 0 /\ Begin.position = 0
    BY DEF REnd, InvalidIndex, Begin, Index
  <1>5. Increment(REnd) = Index(Wrap(Words - 1 + 1), 0)
    BY <1>1, <1>4 DEF Increment
  <1>6. Decrement(Begin) = Index(Wrap(0 - 1), SegmentSize - 1)
    BY <1>4 DEF Decrement
  <1> QED
    BY <1>2, <1>3, <1>5, <1>6 DEF Begin, REnd, InvalidIndex

LEMMA KeptIterators ==
  ASSUME VectorInv
  PROVE  IteratorsCount
  <1> DEFINE size == Size(vec)
  <1>0. size \in 0 .. MaxSize /\ \A k \in 0 .. size : k \in Nat /\ Fits(k)
    BY SizeOfKept, SizesFit DEF VectorInv
  <1>1. Begin = FromInteger(0)
    <2>1. SegmentSize * 0 + 0 = 0 /\ 0 \in 0 .. SegmentSize - 1
      BY IndexAssumption
    <2> QED
      BY <2>1, PlaceNumber DEF Begin
  <1>2. End(vec) = FromInteger(size)
    BY SizeOfKept DEF VectorInv
  <1> HIDE DEF size
  <1>3. RBegin(vec) = IF size = 0 THEN REnd ELSE FromInteger(size - 1)
    <2>1. /\ vec.free \in Nat /\ vec.seat[vec.free] \in 0 .. SegmentSize - 1
          /\ size = SegmentSize * vec.free + vec.seat[vec.free]
      <3>1. PackedVector(vec, Values \cup {Raw})
        BY DEF VectorInv, VectorKept
      <3>2. size = SegmentSize * vec.free + vec.seat[vec.free]
        BY <3>1, SizeIs DEF size
      <3> QED
        BY <3>1, <3>2, IndexAssumption DEF PackedVector
    <2>2. RBegin(vec) = Decrement(FromInteger(size))
      <3>1. FromInteger(size).segment = vec.free /\ FromInteger(size).position = vec.seat[vec.free]
        BY <1>2 DEF End, Index
      <3> QED
        BY <2>1, <3>1 DEF RBegin, Decrement
    <2>3. CASE size = 0
      <3>1. Decrement(FromInteger(0)) = REnd
        BY <1>1, FirstBefore
      <3> QED
        BY <2>2, <2>3, <3>1
    <2>4. CASE size # 0
      <3>1. size - 1 \in Nat /\ Fits(size) /\ (size - 1) + 1 = size
        BY <1>0, <2>4
      <3>2. Decrement(FromInteger(size)) = FromInteger(size - 1)
        BY <3>1, DecrementExact
      <3> QED
        BY <2>2, <2>4, <3>2
    <2> QED
      BY <2>3, <2>4
  <1>4. Increment(REnd) = Begin /\ Decrement(Begin) = REnd
    BY FirstBefore
  <1>5. ASSUME NEW k \in 0 .. size, NEW m \in 0 .. size
        PROVE  /\ Plus(FromInteger(k), m - k) = FromInteger(m)
               /\ Minus(FromInteger(m), FromInteger(k)) = m - k
               /\ Less(FromInteger(k), FromInteger(m)) <=> k < m
    <2>1. /\ k \in Nat /\ m \in Nat /\ Fits(k) /\ Fits(m) /\ m - k \in Int /\ k + (m - k) = m
      BY <1>0
    <2>2. Plus(FromInteger(k), m - k) = FromInteger(k + (m - k))
      BY <2>1, PlusExact
    <2>3. Minus(FromInteger(m), FromInteger(k)) = m - k
      BY <2>1, MinusExact
    <2>4. Less(FromInteger(k), FromInteger(m)) <=> k < m
      BY <2>1, LessExact
    <2> QED
      BY <2>1, <2>2, <2>3, <2>4
  <1>6. ASSUME NEW k \in 0 .. size - 1
        PROVE  /\ Increment(FromInteger(k)) = FromInteger(k + 1)
               /\ Decrement(FromInteger(k + 1)) = FromInteger(k)
    <2>1. k \in Nat /\ Fits(k + 1)
      BY <1>0
    <2> QED
      BY <2>1, IncrementExact, DecrementExact
  <1> QED
    BY <1>1, <1>2, <1>3, <1>4, <1>5, <1>6 DEF IteratorsCount, size

(* Counting with iterators, forward and backward, over any number of segments, gives the
   numbers of the elements, in every state of the vector. *)
THEOREM IteratorsExact == Spec => []IteratorsCount
  BY VectorHolds, KeptIterators, PTL

-----------------------------------------------------------------------------
(* Elements that move *)

MovedBy(v, w) ==
  {i \in {j \in SeatsOf(v) : IsValid(v, j)} \cap {j \in SeatsOf(w) : IsValid(w, j)} :
     Get(v, i) # Get(w, i)}

LEMMA MovedNumbers ==
  ASSUME NEW v, VectorKept(v), NEW w, VectorKept(w), NEW i \in MovedBy(v, w)
  PROVE  \E k \in Nat : k < Size(v) /\ k < Size(w) /\ i = FromInteger(k) /\ At(v, k) # At(w, k)
  <1>1. i \in SeatsOf(v) /\ IsValid(v, i) /\ IsValid(w, i) /\ Get(v, i) # Get(w, i)
    BY DEF MovedBy
  <1>2. PICK k \in Nat : k < Size(v) /\ i = FromInteger(k)
    BY <1>1, ValidHasNumber
  <1>3. k < Size(w)
    BY <1>1, <1>2, SizeIs DEF VectorKept
  <1> QED
    BY <1>1, <1>2, <1>3 DEF At

StaysIn(v, w) ==
  /\ Size(w) >= Size(v) => MovedBy(v, w) = {}
  /\ Size(w) = Size(v) - 1 => Cardinality(MovedBy(v, w)) <= 1

(* No element moves if those that remain have their numbers. *)
LEMMA NobodyMoves ==
  ASSUME NEW v, VectorKept(v), NEW w, VectorKept(w),
         \A k \in Nat : k < Size(v) /\ k < Size(w) => At(w, k) = At(v, k)
  PROVE  StaysIn(v, w)
  <1>1. MovedBy(v, w) = {}
    BY MovedNumbers
  <1>2. Cardinality(MovedBy(v, w)) = 0
    BY <1>1, FS_EmptySet
  <1> QED
    BY <1>1, <1>2 DEF StaysIn

LEMMA OneMoves ==
  ASSUME NEW v, VectorKept(v), NEW w, VectorKept(w), NEW k \in Nat, Filled(v, w, k)
  PROVE  StaysIn(v, w)
  <1>1. Size(v) \in Nat /\ Size(w) = Size(v) - 1
    BY SizeOfKept DEF Filled
  <1>2. MovedBy(v, w) \subseteq {FromInteger(k)}
    BY MovedNumbers DEF Filled
  <1>3. IsFiniteSet({FromInteger(k)}) /\ Cardinality({FromInteger(k)}) = 1
    BY FS_Singleton
  <1>4. Cardinality(MovedBy(v, w)) <= 1
    BY <1>2, <1>3, FS_Subset
  <1>5. ~(Size(w) >= Size(v))
    BY <1>1
  <1> QED
    BY <1>4, <1>5 DEF StaysIn

LEMMA StepsStay ==
  ASSUME VectorInv, [Next]_vec
  PROVE  StaysIn(vec, vec')
  <1>0. VectorKept(vec) /\ VectorKept(vec') /\ Size(vec) \in Nat /\ Size(vec') \in Nat
    <2>1. VectorInv'
      BY StepsKept
    <2>2. VectorKept(vec) /\ VectorKept(vec')
      BY <2>1 DEF VectorInv
    <2> QED
      BY <2>2, SizeOfKept
  <1>1. ASSUME NEW x \in Values, DoPushBack(x) PROVE StaysIn(vec, vec')
    <2>1. Lengthened(vec, vec', x)
      BY <1>0, <1>1, PushBackKept DEF DoPushBack
    <2>2. \A k \in Nat : k < Size(vec) => At(vec', k) = At(vec, k)
      BY <1>0, <2>1 DEF Lengthened
    <2> QED
      BY <1>0, <2>2, NobodyMoves
  <1>2. ASSUME NEW i \in Seats, DoErase(i) PROVE StaysIn(vec, vec')
    <2>1. PICK k \in Nat : k < Size(vec) /\ i = FromInteger(k)
      BY <1>0, <1>2, ValidHasNumber DEF DoErase, Seats, SeatsOf
    <2>2. Filled(vec, vec', k)
      BY <1>0, <1>2, <2>1, EraseKept DEF DoErase
    <2> QED
      BY <1>0, <2>2, OneMoves
  <1>3. ASSUME NEW P \in SUBSET Values, DoEraseIf(P) PROVE StaysIn(vec, vec')
    <2>1. Without(vec, vec', P)
      BY <1>0, <1>3, EraseIfKept DEF DoEraseIf
    <2>2. CASE Size(vec') = Size(vec)
      <3>1. vec' = vec
        BY <2>1, <2>2 DEF Without
      <3> QED
        BY <1>0, <3>1, NobodyMoves
    <2>3. CASE Size(vec') = Size(vec) - 1
      <3>1. PICK k \in Nat : Filled(vec, vec', k)
        BY <2>1, <2>3 DEF Without
      <3> QED
        BY <1>0, <3>1, OneMoves
    <2>4. CASE Size(vec') # Size(vec) /\ Size(vec') # Size(vec) - 1
      <3>1. ~(Size(vec') >= Size(vec))
        BY <1>0, <2>1, <2>4 DEF Without
      <3> QED
        BY <2>4, <3>1 DEF StaysIn
    <2> QED
      BY <2>2, <2>3, <2>4
  <1>4. ASSUME SameElements(vec, vec') PROVE StaysIn(vec, vec')
    BY <1>0, <1>4, NobodyMoves DEF SameElements
  <1>5. ASSUME NEW size \in Sizes, DoReserve(size) PROVE StaysIn(vec, vec')
    <2>1. size \in Nat
      BY SizesFit DEF Sizes
    <2> QED
      BY <1>0, <1>4, <1>5, <2>1, ReserveKept DEF DoReserve
  <1>6. ASSUME NEW size \in Sizes, NEW x \in Values, DoResize(size, x) PROVE StaysIn(vec, vec')
    <2>1. size \in Nat
      BY SizesFit DEF Sizes
    <2>2. \E more : Grown(vec, vec', more, x)
      BY <1>0, <1>6, <2>1, ResizeKept DEF DoResize
    <2>3. \A k \in Nat : k < Size(vec) /\ k < Size(vec') => At(vec', k) = At(vec, k)
      BY <2>2 DEF Grown
    <2> QED
      BY <1>0, <2>3, NobodyMoves
  <1>7. CASE DoCompact
    BY <1>0, <1>4, <1>7, CompactKept DEF DoCompact
  <1>8. CASE DoClear
    <2>1. Size(vec') = 0
      BY <1>8, ClearKept DEF DoClear
    <2>2. \A k \in Nat : ~(k < Size(vec'))
      BY <2>1
    <2> QED
      BY <1>0, <2>2, NobodyMoves
  <1>9. CASE DoCopy
    BY <1>0, <1>4, <1>9, CopyKept DEF DoCopy
  <1>10. CASE UNCHANGED vec
    BY <1>0, <1>4, <1>10 DEF SameElements
  <1> QED
    BY <1>1, <1>2, <1>3, <1>5, <1>6, <1>7, <1>8, <1>9, <1>10 DEF Next

(* An element stays at its address while the vector grows; erasing one moves one other. *)
THEOREM NothingMoves == Spec => ElementsStay
  <1> DEFINE moved == {i \in Valid \cap Valid' : Get(vec, i) # Get(vec', i)}
             Stay == /\ Size(vec') >= Size(vec) => moved = {}
                     /\ Size(vec') = Size(vec) - 1 => Cardinality(moved) <= 1
  <1>1. VectorInv /\ [Next]_vec => [Stay]_vec
    <2> SUFFICES ASSUME VectorInv, [Next]_vec PROVE Stay
      OBVIOUS
    <2>1. moved = MovedBy(vec, vec')
      BY DEF Valid, Seats, MovedBy, SeatsOf
    <2>2. StaysIn(vec, vec')
      BY StepsStay
    <2> HIDE DEF moved
    <2> QED
      BY <2>1, <2>2 DEF StaysIn
  <1>2. ElementsStay <=> [][Stay]_vec
    BY DEF ElementsStay
  <1> HIDE DEF Stay
  <1> QED
    BY <1>1, <1>2, VectorHolds, PTL DEF Spec

-----------------------------------------------------------------------------
(* The list *)

LEMMA ElementsAre ==
  ASSUME NEW v, VectorKept(v)
  PROVE  /\ Elements(v) \in Seq(Values) /\ Len(Elements(v)) = Size(v)
         /\ DOMAIN Elements(v) = 1 .. Size(v) /\ Size(v) \in Nat
         /\ \A k \in 1 .. Size(v) : Elements(v)[k] = At(v, k - 1)
         /\ Elements(v) = [k \in 1 .. Size(v) |-> At(v, k - 1)]
  <1>1. Size(v) \in Nat
    BY SizeOfKept
  <1>2. Elements(v) = [k \in 1 .. Size(v) |-> At(v, k - 1)]
    BY DEF Elements, At
  <1>3. \A k \in 1 .. Size(v) : At(v, k - 1) \in Values
    <2>1. \A k \in 1 .. Size(v) : k - 1 \in Nat /\ k - 1 < Size(v)
      BY <1>1
    <2> QED
      BY <2>1 DEF VectorKept
  <1>4. Elements(v) \in Seq(Values) /\ Len(Elements(v)) = Size(v)
    BY <1>1, <1>2, <1>3
  <1> QED
    BY <1>1, <1>2, <1>4

LEMMA SameList ==
  ASSUME NEW v, VectorKept(v), NEW w, VectorKept(w), SameElements(v, w)
  PROVE  Elements(w) = Elements(v)
  <1>1. \A k \in 1 .. Size(v) : At(w, k - 1) = At(v, k - 1)
    <2>1. \A k \in 1 .. Size(v) : k - 1 \in Nat /\ k - 1 < Size(v)
      BY SizeOfKept
    <2> QED
      BY <2>1 DEF SameElements
  <1>2. Size(w) = Size(v)
    BY DEF SameElements
  <1> QED
    BY <1>1, <1>2, ElementsAre

LEMMA ListAdds ==
  ASSUME NEW v, VectorKept(v), NEW w, VectorKept(w), NEW x \in Values, Lengthened(v, w, x)
  PROVE  Elements(w) = Append(Elements(v), x)
  <1> DEFINE n == Size(v)
             s == Elements(v)
             t == Elements(w)
             u == Append(s, x)
  <1>1. /\ n \in Nat /\ s \in Seq(Values) /\ Len(s) = n
        /\ \A k \in 1 .. n : s[k] = At(v, k - 1)
    BY ElementsAre
  <1>2. Size(w) = n + 1
    BY DEF Lengthened
  <1>3. /\ t \in Seq(Values) /\ Len(t) = n + 1
        /\ \A k \in 1 .. n + 1 : t[k] = At(w, k - 1)
    BY <1>2, ElementsAre
  <1>4. /\ u \in Seq(Values) /\ Len(u) = n + 1
        /\ \A k \in 1 .. n : u[k] = s[k]
        /\ u[n + 1] = x
    <2> HIDE DEF n, s
    <2> QED
      BY <1>1, AppendProperties
  <1> HIDE DEF n, s, t, u
  <1>5. ASSUME NEW k \in 1 .. n + 1 PROVE t[k] = u[k]
    <2>1. k - 1 \in Nat /\ k - 1 < Size(w) /\ (k - 1 = n <=> k = n + 1) /\ (k # n + 1 => k \in 1 .. n)
      BY <1>1, <1>2
    <2>2. At(w, k - 1) = IF k = n + 1 THEN x ELSE At(v, k - 1)
      BY <2>1 DEF Lengthened, n
    <2> QED
      BY <1>1, <1>3, <1>4, <2>1, <2>2
  <1>6. t = u
    BY <1>3, <1>4, <1>5, SeqEqual
  <1> QED
    BY <1>6 DEF s, t, u

LEMMA ListFills ==
  ASSUME NEW v, VectorKept(v), NEW w, VectorKept(w), NEW k \in Nat, k < Size(v), Filled(v, w, k)
  PROVE  Elements(w) = List!Front([Elements(v) EXCEPT ![k + 1] = List!Last(Elements(v))])
  <1> DEFINE n == Size(v)
             s == Elements(v)
             t == Elements(w)
             u == [s EXCEPT ![k + 1] = s[n]]
  <1>1. /\ n \in Nat /\ n > 0 /\ k + 1 \in 1 .. n /\ Size(w) = n - 1
        /\ s \in Seq(Values) /\ Len(s) = n /\ DOMAIN s = 1 .. n
        /\ t = [j \in 1 .. n - 1 |-> At(w, j - 1)]
        /\ \A j \in 1 .. n : s[j] = At(v, j - 1)
    BY ElementsAre DEF Filled
  <1>2. \A j \in 1 .. n - 1 : At(w, j - 1) = IF j = k + 1 THEN At(v, n - 1) ELSE At(v, j - 1)
    <2>1. \A j \in 1 .. n - 1 : j - 1 \in Nat /\ j - 1 < Size(w) /\ (j - 1 = k <=> j = k + 1)
      BY <1>1
    <2> QED
      BY <2>1 DEF Filled
  <1> HIDE DEF n, s, t
  <1>3. u \in Seq(Values) /\ Len(u) = n /\ \A j \in 1 .. n : u[j] = IF j = k + 1 THEN s[n] ELSE s[j]
    BY <1>1
  <1> HIDE DEF u
  <1>4. SubSeq(u, 1, n - 1) = [j \in 1 .. n - 1 |-> u[j]]
    BY <1>1, <1>3
  <1>5. \A j \in 1 .. n - 1 : At(w, j - 1) = u[j]
    <2>1. \A j \in 1 .. n - 1 : j \in 1 .. n
      BY <1>1
    <2>2. n \in 1 .. n
      BY <1>1
    <2> QED
      BY <1>1, <1>2, <1>3, <2>1, <2>2
  <1>6. t = SubSeq(u, 1, n - 1)
    BY <1>1, <1>4, <1>5
  <1> QED
    BY <1>1, <1>3, <1>6 DEF List!Front, List!Last, s, t, u

Copies(d, x) == [k \in 1 .. d |-> x]

LEMMA ListGrows ==
  ASSUME NEW v, VectorKept(v), NEW w, VectorKept(w), NEW d \in Nat, NEW x \in Values, Grown(v, w, d, x)
  PROVE  Elements(w) = Elements(v) \o Copies(d, x)
  <1> DEFINE n == Size(v)
             s == Elements(v)
             t == Elements(w)
             more == Copies(d, x)
             u == s \o more
  <1>1. /\ n \in Nat /\ s \in Seq(Values) /\ Len(s) = n
        /\ \A k \in 1 .. n : s[k] = At(v, k - 1)
    BY ElementsAre
  <1>2. Size(w) = n + d
    BY DEF Grown
  <1>3. /\ t \in Seq(Values) /\ Len(t) = n + d
        /\ \A k \in 1 .. n + d : t[k] = At(w, k - 1)
    BY <1>2, ElementsAre
  <1>4. more \in Seq(Values) /\ Len(more) = d /\ \A k \in 1 .. d : more[k] = x
    BY DEF Copies
  <1>5. /\ u \in Seq(Values) /\ Len(u) = n + d
        /\ \A k \in 1 .. n + d : u[k] = IF k <= n THEN s[k] ELSE more[k - n]
    <2> HIDE DEF n, s, more
    <2> QED
      BY <1>1, <1>4, ConcatProperties
  <1> HIDE DEF n, s, t, more, u
  <1>6. ASSUME NEW k \in 1 .. n + d PROVE t[k] = u[k]
    <2>1. /\ k - 1 \in Nat /\ k - 1 < Size(w) /\ (k - 1 < n <=> k <= n)
          /\ k <= n => k \in 1 .. n
          /\ ~(k <= n) => k - n \in 1 .. d
      BY <1>1, <1>2
    <2>2. At(w, k - 1) = IF k <= n THEN At(v, k - 1) ELSE x
      BY <2>1 DEF Grown, n
    <2> QED
      BY <1>1, <1>3, <1>4, <1>5, <2>1, <2>2
  <1>7. t = u
    BY <1>3, <1>5, <1>6, SeqEqual
  <1> QED
    BY <1>7 DEF s, t, u, more

LEMMA ListLoses ==
  ASSUME NEW v, VectorKept(v), NEW w, VectorKept(w), NEW P, Without(v, w, P)
  PROVE  /\ Elements(w) \in Seq(Values \ P)
         /\ \A x \in Values \ P :
              Cardinality({k \in DOMAIN Elements(w) : Elements(w)[k] = x})
                = Cardinality({k \in DOMAIN Elements(v) : Elements(v)[k] = x})
  <1>1. Matches(w, P) = {}
    BY MatchesAre, FS_EmptySet DEF Without
  <1>2. \A k \in 1 .. Size(w) : Elements(w)[k] \in Values \ P
    <2>1. \A k \in 1 .. Size(w) : Elements(w)[k] \in Values /\ k \in DOMAIN Elements(w)
      BY ElementsAre
    <2> QED
      BY <1>1, <2>1 DEF Matches
  <1>3. Elements(w) \in Seq(Values \ P)
    BY <1>2, ElementsAre
  <1>4. ASSUME NEW x \in Values \ P
        PROVE  Cardinality({k \in DOMAIN Elements(w) : Elements(w)[k] = x})
                 = Cardinality({k \in DOMAIN Elements(v) : Elements(v)[k] = x})
    <2>1. \A y : {k \in DOMAIN Elements(y) : Elements(y)[k] = x} = Matches(y, {x})
      BY DEF Matches
    <2>2. Cardinality(Matches(w, {x})) = Cardinality(Matches(v, {x}))
      BY DEF Without
    <2> QED
      BY <2>1, <2>2
  <1> QED
    BY <1>3, <1>4

LEMMA SameCount ==
  ASSUME NEW S
  PROVE  List!Cardinality(S) = Cardinality(S)
  BY DEF List!Cardinality, Cardinality

LEMMA StepsOfList ==
  ASSUME VectorInv, [Next]_vec
  PROVE  List!ListNext \/ Elements(vec)' = Elements(vec)
  <1> DEFINE Listed == List!ListNext \/ Elements(vec)' = Elements(vec)
  <1>0. /\ VectorKept(vec) /\ VectorKept(vec') /\ Size(vec) \in Nat /\ Size(vec) <= MaxSize
        /\ MaxSize \in Nat
    <2>1. VectorInv'
      BY StepsKept
    <2>2. VectorKept(vec) /\ VectorKept(vec') /\ Size(vec) <= MaxSize
      BY <2>1 DEF VectorInv
    <2> QED
      BY <2>2, SizeOfKept, SizesFit
  <1>1. ASSUME NEW x \in Values, DoPushBack(x) PROVE Listed
    <2>1. Lengthened(vec, vec', x)
      BY <1>0, <1>1, PushBackKept DEF DoPushBack
    <2>2. Elements(vec') = Append(Elements(vec), x)
      BY <1>0, <2>1, ListAdds
    <2>3. List!Add(x)
      BY <2>2 DEF List!Add
    <2> QED
      BY <2>3 DEF List!ListNext
  <1>2. ASSUME NEW i \in Seats, DoErase(i) PROVE Listed
    <2>1. PICK k \in Nat : k < Size(vec) /\ i = FromInteger(k)
      BY <1>0, <1>2, ValidHasNumber DEF DoErase, Seats, SeatsOf
    <2>2. Filled(vec, vec', k)
      BY <1>0, <1>2, <2>1, EraseKept DEF DoErase
    <2>3. Elements(vec') = List!Front([Elements(vec) EXCEPT ![k + 1] = List!Last(Elements(vec))])
      BY <1>0, <2>1, <2>2, ListFills
    <2>4. List!FillWithLast(k + 1)
      BY <2>3 DEF List!FillWithLast
    <2>5. k + 1 \in DOMAIN Elements(vec)
      BY <1>0, <2>1, ElementsAre
    <2> QED
      BY <2>4, <2>5 DEF List!ListNext
  <1>3. ASSUME NEW P \in SUBSET Values, DoEraseIf(P) PROVE Listed
    <2>1. Without(vec, vec', P)
      BY <1>0, <1>3, EraseIfKept DEF DoEraseIf
    <2>2. List!RemoveAll(P)
      BY <1>0, <2>1, ListLoses, SameCount DEF List!RemoveAll
    <2> QED
      BY <2>2 DEF List!ListNext
  <1>4. ASSUME SameElements(vec, vec') PROVE Listed
    BY <1>0, <1>4, SameList
  <1>5. ASSUME NEW size \in Sizes, DoReserve(size) PROVE Listed
    <2>1. size \in Nat
      BY SizesFit DEF Sizes
    <2> QED
      BY <1>0, <1>4, <1>5, <2>1, ReserveKept DEF DoReserve
  <1>6. ASSUME NEW size \in Sizes, NEW x \in Values, DoResize(size, x) PROVE Listed
    <2> DEFINE more == IF size > Size(vec) THEN size - Size(vec) ELSE 0
    <2>1. size \in Nat /\ size <= MaxSize
      BY SizesFit DEF Sizes
    <2>2. Grown(vec, vec', more, x)
      BY <1>0, <1>6, <2>1, ResizeKept DEF DoResize
    <2>3. more \in Nat
      BY <1>0, <2>1
    <2>4. Elements(vec') = Elements(vec) \o Copies(more, x)
      <3> HIDE DEF more
      <3> QED
        BY <1>0, <2>2, <2>3, ListGrows
    <2>5. Len(Elements(vec)) = Size(vec)
      BY <1>0, ElementsAre
    <2> DEFINE target == Size(vec) + more
    <2>6. target \in Len(Elements(vec)) .. MaxSize /\ target - Len(Elements(vec)) = more
      BY <1>0, <2>1, <2>5
    <2> HIDE DEF more, target
    <2>7. List!GrowTo(target, x)
      BY <2>4, <2>6 DEF List!GrowTo, Copies
    <2> QED
      BY <2>6, <2>7 DEF List!ListNext
  <1>7. CASE DoCompact
    BY <1>0, <1>4, <1>7, CompactKept DEF DoCompact
  <1>8. CASE DoClear
    <2>1. Elements(vec') = <<>>
      BY <1>0, <1>8, ClearKept, ElementsAre DEF DoClear
    <2>2. List!Empty
      BY <2>1 DEF List!Empty
    <2> QED
      BY <2>2 DEF List!ListNext
  <1>9. CASE DoCopy
    BY <1>0, <1>4, <1>9, CopyKept DEF DoCopy
  <1>10. CASE UNCHANGED vec
    BY <1>10
  <1> QED
    BY <1>1, <1>2, <1>3, <1>5, <1>6, <1>7, <1>8, <1>9, <1>10 DEF Next

(* Whatever the segments do, to its user the vector is a list that grows at the end and whose
   last element fills the hole of an erased one. *)
THEOREM VectorIsList == Spec => ImplementsList
  <1>1. Init => List!ListInit
    BY EmptyKept, ElementsAre DEF Init, List!ListInit
  <1>2. VectorInv /\ [Next]_vec => [List!ListNext]_(Elements(vec))
    BY StepsOfList
  <1> QED
    BY <1>1, <1>2, VectorHolds, PTL DEF Spec, ImplementsList, List!ListSpec

=============================================================================
