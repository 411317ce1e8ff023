------------------------------ MODULE Segments ------------------------------
(***************************************************************************)
(* The values and operations of a segmented_vector                         *)
(* (src/xylose/segmented_vector.hpp): segments of SegmentSize seats that   *)
(* are never moved, filled from the front.  segmentedVectors are values    *)
(* here, so that the containers built on them can hold one:                *)
(*   n       mNSegments                                                    *)
(*   free    mFirstFreeSegment                                             *)
(*   seat    mFirstFreeSeat, with one entry more than there are segments   *)
(*   data    what the seats hold                                           *)
(*   alive   the seats that hold a constructed object                      *)
(***************************************************************************)
EXTENDS SegmentIndex, FiniteSetsExt

CONSTANT Raw   \* memory that nothing was written to

Repeat(op(_), k, v) ==
  LET after[i \in 0 .. k] == IF i = 0 THEN v ELSE op(after[i - 1]) IN after[k]

EmptyVector ==
  [n |-> 0, free |-> 0, seat |-> [i \in {0} |-> 0], data |-> <<>>, alive |-> {}]

Size(v) == IF v.n = 0 THEN 0 ELSE v.free * SegmentSize + v.seat[v.free]

Capacity(v) == v.n * SegmentSize

Begin == Index(0, 0)

End(v) == Index(v.free, v.seat[v.free])

RBegin(v) ==
  IF v.seat[v.free] = 0 THEN Index(Wrap(v.free - 1), SegmentSize - 1)
  ELSE Index(v.free, v.seat[v.free] - 1)

REnd == InvalidIndex

IsValid(v, i) == i.segment < v.n /\ i.position < v.seat[i.segment]

Get(v, i) == v.data[i.segment][i.position]

Put(v, i, x) == [v EXCEPT !.data[i.segment][i.position] = x]

AppendSegment(v) ==
  [v EXCEPT !.n = @ + 1,
            !.seat = [i \in 0 .. v.n + 1 |-> IF i <= v.n THEN v.seat[i] ELSE 0],
            !.data = [i \in 0 .. v.n |->
                        IF i < v.n THEN v.data[i] ELSE [p \in 0 .. SegmentSize - 1 |-> Raw]]]

(* The first segment from s on that is not full. *)
NextFree(v, s) ==
  Min({i \in s .. v.n : i = v.n \/ v.seat[i] # SegmentSize})

(* Take the first free seat; the object is constructed by the caller. *)
Allocate(v) ==
  LET w == IF v.free = v.n THEN AppendSegment(v) ELSE v
      x == [w EXCEPT !.seat[w.free] = @ + 1]
  IN [x EXCEPT !.free = NextFree(x, w.free)]

PushBack(v, x) ==
  [Put(Allocate(v), End(v), x) EXCEPT !.alive = @ \cup {End(v)}]

(* The last segment with an element, going back from mFirstFreeSegment. *)
LastSegment(v) ==
  CHOOSE s \in 0 .. v.free :
    /\ s = 0 \/ v.seat[s] # 0
    /\ \A r \in s + 1 .. v.free : v.seat[r] = 0

(* Bug: mFirstFreeSegment stays where it was. *)
EraseStaysFull(v, i) ==
  LET from == LastSegment(v)
      last == Index(from, v.seat[from] - 1)
      w == [v EXCEPT !.seat[from] = @ - 1, !.alive = @ \ {i}]
  IN IF i = last THEN w ELSE Put(w, i, Get(v, last))

(* Bug: the elements behind the hole move up. *)
EraseShifts(v, i) ==
  LET from == LastSegment(v)
      w == [v EXCEPT !.seat[from] = @ - 1, !.free = IF from < @ THEN from ELSE @]
  IN [w EXCEPT !.data = [s \in DOMAIN @ |-> [p \in DOMAIN @[s] |->
       IF IsValid(w, Index(s, p)) /\ ~Less(Index(s, p), i)
       THEN Get(v, Increment(Index(s, p))) ELSE Get(v, Index(s, p))]]]

(* The last element is moved to the hole. *)
Erase(v, i) ==
  LET from == LastSegment(v)
      last == Index(from, v.seat[from] - 1)
      w == [v EXCEPT !.seat[from] = @ - 1,
                     !.free = IF from < @ THEN from ELSE @,
                     !.alive = @ \ {i}]
  IN IF i = last THEN w ELSE Put(w, i, Get(v, last))

(* The elements in order, as begin() to end() visits them. *)
Elements(v) == [k \in 1 .. Size(v) |-> Get(v, FromInteger(k - 1))]

Matches(v, P) == {k \in DOMAIN Elements(v) : Elements(v)[k] \in P}

(* Bug: the element moved to the hole is not tested. *)
EraseIfOnce(v, P) ==
  LET erase[k \in 0 .. Size(v)] ==
        IF k = 0 THEN v
        ELSE LET w == erase[k - 1]
             IN IF k \in Matches(w, P) THEN Erase(w, FromInteger(k - 1)) ELSE w
  IN erase[Size(v)]

(* The scan meets the first match; the element moved there is tested again. *)
EraseIf(v, P) ==
  Repeat(LAMBDA w : Erase(w, FromInteger(Min(Matches(w, P)) - 1)),
         Cardinality(Matches(v, P)), v)

(* Bug: mFirstFreeSeat keeps its entries. *)
CompactKeepsSeats(v) ==
  LET n == Min({k \in 0 .. v.n : \A i \in k .. v.n - 1 : v.seat[i] = 0})
  IN [v EXCEPT !.n = n, !.data = [i \in 0 .. n - 1 |-> v.data[i]],
               !.alive = {i \in @ : i.segment < n}]

(* Give the empty segments at the end back. *)
Compact(v) ==
  LET n == Min({k \in 0 .. v.n : \A i \in k .. v.n - 1 : v.seat[i] = 0})
  IN [v EXCEPT !.n = n,
               !.seat = [i \in 0 .. n |-> v.seat[i]],
               !.data = [i \in 0 .. n - 1 |-> v.data[i]],
               !.alive = {i \in @ : i.segment < n}]

Reserve(v, size) ==
  Repeat(AppendSegment, Max({0, (size + SegmentSize - 1) \div SegmentSize - v.n}), v)

(* Never shrinks. *)
Resize(v, size, x) ==
  Repeat(LAMBDA w : PushBack(w, x), Max({0, size - Size(v)}), Reserve(v, size))

(* clear() destroys the objects and frees every segment. *)
Clear(v) == EmptyVector

(* The copy constructor and operator=: as many segments, the same elements. *)
Copy(v) ==
  [v EXCEPT !.data = [i \in DOMAIN v.data |->
                        [p \in DOMAIN v.data[i] |->
                           IF p < v.seat[i] THEN v.data[i][p] ELSE Raw]],
            !.alive = {i \in [segment : 0 .. v.n - 1, position : 0 .. SegmentSize - 1] :
                         IsValid(v, i)}]

=============================================================================
