--------------------------- MODULE SegmentedVector ---------------------------
(***************************************************************************)
(* A segmented_vector in use: every operation that changes one, in any     *)
(* order, on the values of Segments.                                       *)
(***************************************************************************)
EXTENDS Segments

CONSTANTS
  Values,        \* elements
  MaxSize        \* bound on size() and on the arguments of reserve and resize

ASSUME VectorAssumption ==
  /\ Raw \notin Values
  /\ MaxSize \in Nat /\ 2 * (MaxSize + SegmentSize) < Words

VARIABLE vec

Sizes == 0 .. MaxSize

(* Every index of a seat there is. *)
Seats == [segment : 0 .. vec.n - 1, position : 0 .. SegmentSize - 1]

Valid == {i \in Seats : IsValid(vec, i)}

TypeOK ==
  /\ vec.n \in Nat /\ vec.free \in 0 .. vec.n
  /\ vec.seat \in [0 .. vec.n -> 0 .. SegmentSize]
  /\ vec.data \in [0 .. vec.n - 1 -> [0 .. SegmentSize - 1 -> Values \cup {Raw}]]
  /\ vec.alive \subseteq Seats

Init == vec = EmptyVector

DoPushBack(x) == Size(vec) < MaxSize /\ vec' = PushBack(vec, x)

DoErase(i) == IsValid(vec, i) /\ vec' = Erase(vec, i)

DoEraseIf(P) == vec' = EraseIf(vec, P)

DoCompact == vec' = Compact(vec)

DoReserve(size) == vec' = Reserve(vec, size)

DoResize(size, x) == vec' = Resize(vec, size, x)

DoClear == vec' = Clear(vec)

(* A copy that takes the place of the original. *)
DoCopy == vec' = Copy(vec)

Next ==
  \/ \E x \in Values : DoPushBack(x)
  \/ \E i \in Seats : DoErase(i)
  \/ \E P \in SUBSET Values : DoEraseIf(P)
  \/ \E size \in Sizes : DoReserve(size)
  \/ \E size \in Sizes, x \in Values : DoResize(size, x)
  \/ DoCompact \/ DoClear \/ DoCopy

Spec == Init /\ [][Next]_vec

-----------------------------------------------------------------------------
(* The segments before mFirstFreeSegment are full and those after it are empty, down to the
   entry of mFirstFreeSeat behind the last segment: what size(), end() and allocate()
   take for granted, kept by erase, eraseIf and compact. *)
Packed ==
  /\ \A s \in 0 .. vec.free - 1 : vec.seat[s] = SegmentSize
  /\ vec.free < vec.n => vec.seat[vec.free] < SegmentSize
  /\ \A s \in vec.free + 1 .. vec.n : vec.seat[s] = 0
  /\ vec.seat[vec.n] = 0

(* Iterators: ++, --, +=, -= and the difference agree with counting from begin(), which
   is at 0, to end(), which is at size(); rbegin() is at the last element and rend()
   before the first. *)
IteratorsCount ==
  LET At(k) == FromInteger(k)
      size == Size(vec)
  IN /\ Begin = At(0) /\ End(vec) = At(size)
     /\ RBegin(vec) = IF size = 0 THEN REnd ELSE At(size - 1)
     /\ Increment(REnd) = Begin /\ Decrement(Begin) = REnd
     /\ \A k, m \in 0 .. size :
          /\ Plus(At(k), m - k) = At(m)
          /\ Minus(At(m), At(k)) = m - k
          /\ Less(At(k), At(m)) <=> k < m
     /\ \A k \in 0 .. size - 1 :
          Increment(At(k)) = At(k + 1) /\ Decrement(At(k + 1)) = At(k)

(* Segments are never moved: growing leaves every element at its address, and erasing one
   moves one other at most. *)
ElementsStay ==
  [][LET moved == {i \in Valid \cap Valid' : Get(vec, i) # Get(vec', i)}
     IN /\ Size(vec') >= Size(vec) => moved = {}
        /\ Size(vec') = Size(vec) - 1 => Cardinality(moved) <= 1]_vec

(* Whatever the segments do, the user sees the list. *)
List == INSTANCE SwapList WITH list <- Elements(vec)

ImplementsList == List!ListSpec

(* The destructor is invoked for the objects that are in the container, clear() says: every
   element is a constructed object and there is no other. *)
ObjectsAlive == vec.alive = Valid

=============================================================================
