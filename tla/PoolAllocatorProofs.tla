-------------------------- MODULE PoolAllocatorProofs --------------------------
(***************************************************************************)
(* Proofs about the pool allocator: the free list, the bits and the items  *)
(* that users hold agree, and the users see an allocator, for segments,    *)
(* words and pools of any size.                                            *)
(***************************************************************************)
EXTENDS PoolAllocator, SegmentProofs, FiniteSetTheorems

(* ItemOfBit finds the unused item before a freed one in the first byte of the bits only: the
   last item of the pool may have its bit in the second.  It is not asked when deallocation
   does nothing. *)
OneByte == FALSE \in NoOpDeallocs => MaxItems <= ByteBits + 1

Contents == Int \cup {Data, Raw}

(* Of n items, a is the number of the first unused one behind number k, or n. *)
IsAfter(a, k, n, u) ==
  a \in k + 1 .. n /\ (a < n => a \notin u) /\ \A m \in k + 1 .. a - 1 : m \in u

(* The free list, by the numbers of the items. *)
Listed(p, first, u) ==
  /\ \E m \in 0 .. Size(p) : first = FromInteger(m) /\ IsAfter(m, -1, Size(p), u)
  /\ \A k \in (0 .. Size(p) - 1) \ u : At(p, k) \in Int /\ IsAfter(k + At(p, k), k, Size(p), u)

PoolShape ==
  /\ PackedVector(pool, Contents) /\ Size(pool) <= MaxItems
  /\ \A k \in 0 .. Size(pool) - 1 : At(pool, k) \in Int \cup {Data}
  /\ bytes = BytesFor(Size(pool))

(* What users hold is counted and has its bit set, until a free of what nobody held is counted. *)
HeldCounted ==
  /\ IsFiniteSet(held) /\ number = Cardinality(held)
  /\ \A i \in held : \E k \in used : i = FromInteger(k)

HoldersExact ==
  /\ used \subseteq 0 .. Size(pool) - 1
  /\ number \in Int /\ misfrees \in 0 .. MaxMisfrees
  /\ misfrees = 0 => HeldCounted
  /\ noOPDealloc => used = 0 .. Size(pool) - 1
  /\ ~noOPDealloc => misfrees = 0 /\ \A k \in used : FromInteger(k) \in held

PoolKept ==
  /\ noOPDealloc \in NoOpDeallocs
  /\ PoolShape /\ HoldersExact /\ Listed(pool, next, used)

-----------------------------------------------------------------------------
LEMMA ItemsFit ==
  /\ MaxItems \in Nat /\ SegmentSize \in Nat /\ SegmentSize > 0
  /\ \A k \in 0 .. MaxItems : Fits(k)
  BY PoolAssumption, IndexAssumption DEF Fits

LEMMA BeginIsZero == Begin = FromInteger(0) /\ Fits(0)
  <1>1. SegmentSize * 0 + 0 = 0 /\ 0 \in 0 .. SegmentSize - 1
    BY IndexAssumption
  <1> QED
    BY <1>1, PlaceNumber, IndexAssumption DEF Begin, Fits

(* The offset of an item is its number. *)
LEMMA OffsetExact ==
  ASSUME NEW k \in 0 .. MaxItems
  PROVE  Offset(FromInteger(k)) = k
  <1>1. Minus(FromInteger(k), FromInteger(0)) = k - 0
    BY ItemsFit, BeginIsZero, MinusExact
  <1> QED
    BY <1>1, BeginIsZero DEF Offset

LEMMA InvalidLast ==
  ASSUME NEW k \in 0 .. MaxItems
  PROVE  ~Less(InvalidIndex, FromInteger(k))
  <1>1. FromInteger(k).segment \in 0 .. k
    BY NumberPlace
  <1>2. Words - 1 > k
    BY PoolAssumption, IndexAssumption
  <1>3. InvalidIndex.segment = Words - 1
    BY DEF InvalidIndex, Index
  <1> QED
    BY <1>1, <1>2, <1>3, IndexAssumption DEF Less

LEMMA AfterIs ==
  ASSUME NEW n \in Nat, NEW u, NEW k \in -1 .. n - 1
  PROVE  LET S == {m \in {j \in 0 .. n - 1 : j \notin u} : m > k} \cup {n}
         IN IsAfter(Min(S), k, n, u) /\ \A a : IsAfter(a, k, n, u) => a = Min(S)
  <1> DEFINE S == {m \in {j \in 0 .. n - 1 : j \notin u} : m > k} \cup {n}
  <1>1. S \subseteq Nat /\ S # {}
    OBVIOUS
  <1>2. PICK a \in S : \A m \in S : a <= m
    BY <1>1, LeastNumber
  <1>3. IsAfter(a, k, n, u)
    <2>1. a \in k + 1 .. n /\ (a < n => a \notin u)
      OBVIOUS
    <2>2. \A m \in k + 1 .. a - 1 : m \in u
      BY <1>2, <2>1
    <2> QED
      BY <2>1, <2>2 DEF IsAfter
  <1>4. ASSUME NEW b, IsAfter(b, k, n, u) PROVE b \in S /\ \A m \in S : b <= m
    BY <1>4 DEF IsAfter
  <1>5. ASSUME NEW b, IsAfter(b, k, n, u) PROVE b = Min(S)
    <2> HIDE DEF S
    <2>1. S \subseteq Int
      BY <1>1
    <2> QED
      BY <1>4, <1>5, <2>1, MinIs
  <1>6. a = Min(S)
    BY <1>3, <1>5
  <1> QED
    BY <1>3, <1>5, <1>6

LEMMA DivNat ==
  ASSUME NEW k \in Nat, NEW s \in Nat, s > 0
  PROVE  k \div s \in Nat
  OBVIOUS

-----------------------------------------------------------------------------
(* A step leaves what users hold as it is, or its user writes to it. *)
Untouched == misfrees = 0 => \A i \in held \cap held' : Get(pool', i) \in {Get(pool, i), Data}

(* So it is when the step does so with the items whose bits are set. *)
LEMMA UntouchedByNumber ==
  ASSUME PoolKept,
         \A k \in used : FromInteger(k) \in held \cap held' => At(pool', k) \in {At(pool, k), Data}
  PROVE  Untouched
  BY DEF PoolKept, HoldersExact, HeldCounted, Untouched, At

LEMMA KeptStutter ==
  ASSUME PoolKept, UNCHANGED vars
  PROVE  PoolKept' /\ Untouched
  <1>1. /\ noOPDealloc' = noOPDealloc /\ pool' = pool /\ next' = next /\ used' = used
        /\ bytes' = bytes /\ number' = number /\ held' = held /\ misfrees' = misfrees
    BY DEF vars
  <1> QED
    BY <1>1 DEF PoolKept, PoolShape, HoldersExact, HeldCounted, Listed, Untouched

LEMMA InitPool == Init => PoolKept
  <1> SUFFICES ASSUME Init PROVE PoolKept
    OBVIOUS
  <1>1. PackedVector(pool, Contents) /\ Size(pool) = 0
    BY EmptyPacked DEF Init
  <1>2. BytesFor(0) = 0
    <2>1. 0 + ByteBits - 1 = ByteBits * 0 + (ByteBits - 1) /\ ByteBits - 1 \in 0 .. ByteBits - 1
      BY PoolAssumption
    <2> QED
      BY <2>1, DivUnique, PoolAssumption DEF BytesFor
  <1>3. PoolShape
    BY <1>1, <1>2, ItemsFit DEF PoolShape, Init
  <1>4. HoldersExact
    BY <1>1, FS_EmptySet, PoolAssumption DEF HoldersExact, HeldCounted, Init
  <1>5. Listed(pool, next, used)
    BY <1>1, BeginIsZero DEF Listed, IsAfter, Init
  <1> QED
    BY <1>3, <1>4, <1>5 DEF PoolKept, Init

LEMMA KeptAllocateExpands ==
  ASSUME PoolKept, AllocateItem, next = End(pool)
  PROVE  PoolKept' /\ Untouched /\ \E i : /\ misfrees = 0 => i \notin held
                                         /\ held' = held \cup {i} /\ i = FromInteger(Size(pool))
  <1> DEFINE n == Size(pool)
             e == PushBack(pool, 1)
             i == FromInteger(n)
  <1>0. /\ PackedVector(pool, Contents) /\ n \in Nat /\ n < MaxItems /\ End(pool) = i
        /\ Raw \in Contents /\ 1 \in Contents
    BY SizeIs DEF PoolKept, PoolShape, AllocateItem, Contents
  <1>1. /\ PackedVector(e, Contents) /\ Size(e) = n + 1
        /\ \A k \in Nat : k < Size(e) => At(e, k) = IF k = n THEN 1 ELSE At(pool, k)
    BY <1>0, PushBackExact
  <1>2. Fits(n) /\ Fits(n + 1) /\ n \in 0 .. MaxItems /\ n + 1 \in 0 .. MaxItems
    BY <1>0, ItemsFit
  <1>3. Decrement(End(e)) = i
    BY <1>0, <1>1, <1>2, SizeIs, DecrementExact
  <1>4. Get(e, i) = 1
    BY <1>0, <1>1 DEF At
  <1>5. Plus(i, 1) = FromInteger(n + 1)
    BY <1>0, <1>2, PlusExact
  <1>6. Offset(i) = n
    BY <1>2, OffsetExact
  <1>7. Expanded = e
    BY DEF Expanded
  <1> HIDE DEF n, e, i
  <1>8. /\ pool' = e /\ bytes' = BytesFor(n + 1) /\ next' = FromInteger(n + 1)
        /\ used' = used \cup {n} /\ held' = held \cup {i}
        /\ number' = number + 1 /\ noOPDealloc' = noOPDealloc /\ misfrees' = misfrees
    BY <1>1, <1>3, <1>4, <1>5, <1>6, <1>7 DEF AllocateItem
  <1>9. /\ used \subseteq 0 .. n - 1 /\ number \in Int /\ misfrees \in 0 .. MaxMisfrees
        /\ misfrees = 0 => HeldCounted
        /\ noOPDealloc => used = 0 .. n - 1
        /\ ~noOPDealloc => misfrees = 0 /\ \A k \in used : FromInteger(k) \in held
        /\ \A k \in 0 .. n - 1 : At(pool, k) \in Int \cup {Data}
    BY DEF PoolKept, PoolShape, HoldersExact, n
  <1>10. misfrees = 0 => i \notin held
    BY <1>0, <1>9, NumbersDiffer DEF i, HeldCounted
  <1>11. PoolShape'
    <2>1. \A k \in 0 .. n : At(e, k) \in Int \cup {Data}
      BY <1>0, <1>1, <1>9
    <2> QED
      BY <1>0, <1>1, <1>8, <2>1, ItemsFit DEF PoolShape
  <1>12. HoldersExact'
    <2>1. ASSUME misfrees = 0 PROVE HeldCounted'
      <3>1. IsFiniteSet(held') /\ Cardinality(held') = Cardinality(held) + 1
        BY <1>8, <1>9, <1>10, <2>1, FS_AddElement DEF HeldCounted
      <3>2. \A j \in held' : \E k \in used' : j = FromInteger(k)
        BY <1>8, <1>9, <2>1 DEF i, HeldCounted
      <3> QED
        BY <1>8, <1>9, <2>1, <3>1, <3>2 DEF HeldCounted
    <2>2. used' \subseteq 0 .. n /\ (noOPDealloc' => used' = 0 .. n)
      BY <1>0, <1>8, <1>9
    <2>3. ~noOPDealloc' => misfrees' = 0 /\ \A k \in used' : FromInteger(k) \in held'
      BY <1>8, <1>9 DEF i
    <2>4. Size(pool') - 1 = n
      BY <1>0, <1>1, <1>8
    <2>5. number' \in Int /\ misfrees' \in 0 .. MaxMisfrees
      BY <1>8, <1>9
    <2> QED
      BY <1>8, <2>1, <2>2, <2>3, <2>4, <2>5 DEF HoldersExact
  <1>13. Listed(pool', next', used')
    <2>1. IsAfter(n, -1, n, used)
      <3>1. PICK m \in 0 .. n : next = FromInteger(m) /\ IsAfter(m, -1, n, used)
        BY DEF PoolKept, Listed, n
      <3>2. m \in Nat /\ FromInteger(m) = FromInteger(n)
        BY <1>0, <3>1 DEF i
      <3>3. m = n
        BY <1>0, <3>2, NumbersDiffer
      <3> QED
        BY <3>1, <3>3
    <2>2. \A k \in 0 .. n : k \in used'
      BY <1>0, <1>8, <2>1 DEF IsAfter
    <2> QED
      BY <1>0, <1>1, <1>8, <2>2 DEF Listed, IsAfter
  <1>14. PoolKept'
    BY <1>8, <1>11, <1>12, <1>13 DEF PoolKept
  <1>15. Untouched
    <2>1. \A k \in used : k \in Nat /\ k < n + 1 /\ k # n
      BY <1>0, <1>9
    <2>2. \A k \in used : At(pool', k) = At(pool, k)
      BY <1>1, <1>8, <2>1
    <2> QED
      BY <2>2, UntouchedByNumber
  <1> QED
    BY <1>8, <1>10, <1>14, <1>15 DEF i, n

LEMMA KeptAllocateUnused ==
  ASSUME PoolKept, AllocateItem, next # End(pool)
  PROVE  PoolKept' /\ Untouched /\ misfrees = 0 /\ \E k \in 0 .. Size(pool) - 1 :
                         FromInteger(k) \notin held /\ held' = held \cup {FromInteger(k)}
  <1> DEFINE n == Size(pool)
  <1>0. /\ PackedVector(pool, Contents) /\ n \in Nat /\ n <= MaxItems /\ End(pool) = FromInteger(n)
    BY SizeIs DEF PoolKept, PoolShape
  <1>1. PICK m \in 0 .. n : next = FromInteger(m) /\ IsAfter(m, -1, n, used)
    BY DEF PoolKept, Listed
  <1> HIDE DEF n
  <1>2. m \in 0 .. n - 1 /\ m \notin used /\ m \in Nat /\ m \in 0 .. MaxItems /\ Fits(m)
    BY <1>0, <1>1, ItemsFit DEF IsAfter
  <1> DEFINE d == At(pool, m)
  <1>3. d \in Int /\ IsAfter(m + d, m, n, used)
    BY <1>2 DEF PoolKept, Listed, n
  <1> HIDE DEF d
  <1>4. m + d \in 0 .. n /\ Fits(m + d)
    BY <1>0, <1>2, <1>3, ItemsFit DEF IsAfter
  <1>5. Plus(FromInteger(m), d) = FromInteger(m + d) /\ Offset(FromInteger(m)) = m
    BY <1>2, <1>3, <1>4, PlusExact, OffsetExact
  <1>6. Get(pool, FromInteger(m)) = d
    BY DEF At, d
  <1>7. /\ pool' = pool /\ bytes' = bytes /\ next' = FromInteger(m + d)
        /\ used' = used \cup {m} /\ held' = held \cup {FromInteger(m)}
        /\ number' = number + 1 /\ noOPDealloc' = noOPDealloc /\ misfrees' = misfrees
    BY <1>1, <1>5, <1>6 DEF AllocateItem, Expanded
  <1>8. /\ used \subseteq 0 .. n - 1 /\ ~noOPDealloc /\ misfrees = 0
        /\ IsFiniteSet(held) /\ number = Cardinality(held) /\ number \in Int
        /\ \A j \in held : \E k \in used : j = FromInteger(k)
        /\ \A k \in used : FromInteger(k) \in held
    BY <1>2 DEF PoolKept, HoldersExact, HeldCounted, n
  <1>9. FromInteger(m) \notin held
    BY <1>0, <1>2, <1>8, NumbersDiffer
  <1>10. PoolShape'
    BY <1>7 DEF PoolKept, PoolShape
  <1>11. HoldersExact'
    <2>1. IsFiniteSet(held') /\ Cardinality(held') = Cardinality(held) + 1
      BY <1>7, <1>8, <1>9, FS_AddElement
    <2>2. used' \subseteq 0 .. n - 1 /\ Size(pool') = n
      BY <1>2, <1>7, <1>8 DEF n
    <2>3. /\ \A j \in held' : \E k \in used' : j = FromInteger(k)
          /\ \A k \in used' : FromInteger(k) \in held'
      BY <1>7, <1>8
    <2>4. number' \in Int /\ ~noOPDealloc' /\ misfrees' = 0 /\ misfrees' \in 0 .. MaxMisfrees
      BY <1>7, <1>8, PoolAssumption
    <2>5. number' = Cardinality(held')
      BY <1>7, <1>8, <2>1
    <2>6. HeldCounted'
      BY <2>1, <2>3, <2>5 DEF HeldCounted
    <2> QED
      BY <2>2, <2>3, <2>4, <2>6 DEF HoldersExact
  <1>12. Listed(pool', next', used')
    <2>1. IsAfter(m + d, -1, n, used')
      BY <1>0, <1>1, <1>2, <1>3, <1>7 DEF IsAfter
    <2>2. ASSUME NEW k \in (0 .. n - 1) \ used'
          PROVE  At(pool, k) \in Int /\ IsAfter(k + At(pool, k), k, n, used')
      <3>1. k \notin used /\ k # m /\ At(pool, k) \in Int /\ IsAfter(k + At(pool, k), k, n, used)
        BY <1>7, <2>2 DEF PoolKept, Listed, n
      <3>2. k > m
        BY <1>0, <1>1, <2>2, <3>1 DEF IsAfter
      <3> QED
        BY <1>0, <1>2, <1>7, <2>2, <3>1, <3>2 DEF IsAfter
    <2> QED
      BY <1>4, <1>7, <2>1, <2>2 DEF Listed, n
  <1>13. PoolKept'
    BY <1>7, <1>10, <1>11, <1>12 DEF PoolKept
  <1>14. Untouched
    BY <1>7 DEF Untouched
  <1> QED
    BY <1>2, <1>7, <1>8, <1>9, <1>13, <1>14 DEF n

(* The items are looked up by their numbers. *)
LEMMA ItemsAre ==
  ASSUME PoolKept
  PROVE  /\ Size(pool) \in Nat /\ Size(pool) <= MaxItems /\ End(pool) = FromInteger(Size(pool))
         /\ \A i \in Items : \E k \in 0 .. Size(pool) - 1 :
              i = FromInteger(k) /\ Offset(i) = k /\ Get(pool, i) = At(pool, k)
  <1>1. Size(pool) \in Nat /\ Size(pool) <= MaxItems /\ End(pool) = FromInteger(Size(pool))
    BY SizeIs DEF PoolKept, PoolShape
  <1>2. ASSUME NEW i \in Items
        PROVE  \E k \in 0 .. Size(pool) - 1 : i = FromInteger(k) /\ Offset(i) = k
                                              /\ Get(pool, i) = At(pool, k)
    <2>1. PICK k \in 0 .. Size(pool) - 1 : i = FromInteger(k)
      BY DEF Items
    <2>2. k \in 0 .. MaxItems
      BY <1>1, ItemsFit
    <2> QED
      BY <2>1, <2>2, OffsetExact DEF At
  <1> QED
    BY <1>1, <1>2

LEMMA KeptWrite ==
  ASSUME PoolKept, NEW i \in held, Write(i)
  PROVE  PoolKept' /\ Untouched
  <1> DEFINE n == Size(pool)
  <1>0. PackedVector(pool, Contents) /\ n \in Nat /\ Data \in Contents
    BY SizeIs DEF PoolKept, PoolShape, Contents
  <1>1. PICK k \in used : i = FromInteger(k)
    BY DEF PoolKept, HoldersExact, HeldCounted, Write, Items
  <1>2. k \in 0 .. n - 1
    BY DEF PoolKept, HoldersExact
  <1> HIDE DEF n
  <1>3. /\ pool' = Put(pool, FromInteger(k), Data)
        /\ UNCHANGED <<noOPDealloc, next, used, bytes, number, held, misfrees>>
    BY <1>1 DEF Write
  <1>4. /\ PackedVector(pool', Contents) /\ Size(pool') = n
        /\ \A m \in Nat : m < n => At(pool', m) = IF m = k THEN Data ELSE At(pool, m)
    BY <1>0, <1>2, <1>3, PutExact DEF n
  <1>5. PoolShape'
    BY <1>0, <1>3, <1>4 DEF PoolKept, PoolShape, n
  <1>6. HoldersExact'
    BY <1>3, <1>4 DEF PoolKept, HoldersExact, HeldCounted, n
  <1>7. Listed(pool', next', used')
    BY <1>0, <1>3, <1>4 DEF PoolKept, Listed, n
  <1>8. PoolKept'
    BY <1>3, <1>5, <1>6, <1>7 DEF PoolKept
  <1>9. Untouched
    <2>1. \A m \in used : m \in Nat /\ m < n
      BY <1>0 DEF PoolKept, HoldersExact, n
    <2>2. \A m \in used : At(pool', m) \in {At(pool, m), Data}
      BY <1>4, <2>1
    <2> QED
      BY <2>2, UntouchedByNumber
  <1> QED
    BY <1>8, <1>9

LEMMA KeptDeallocateNothing ==
  ASSUME PoolKept, NEW i, DeallocateNothing(i)
  PROVE  PoolKept' /\ Untouched
         /\ (misfrees' > 0 \/ (i \in held /\ held' = held \ {i} /\ misfrees' = misfrees))
  <1>1. /\ noOPDealloc /\ number' = number - 1
        /\ UNCHANGED <<noOPDealloc, pool, next, used, bytes>>
    BY DEF DeallocateNothing
  <1>2. /\ used = 0 .. Size(pool) - 1 /\ number \in Int /\ misfrees \in 0 .. MaxMisfrees
        /\ misfrees = 0 => HeldCounted
        /\ MaxMisfrees \in Nat
    BY <1>1, PoolAssumption DEF PoolKept, HoldersExact
  <1>3. CASE i \in held /\ held' = held \ {i} /\ misfrees' = misfrees
    <2>1. ASSUME misfrees = 0 PROVE HeldCounted'
      <3>1. IsFiniteSet(held') /\ Cardinality(held') = Cardinality(held) - 1
        BY <1>2, <1>3, <2>1, FS_RemoveElement DEF HeldCounted
      <3> QED
        BY <1>1, <1>2, <1>3, <2>1, <3>1 DEF HeldCounted
    <2>2. HoldersExact'
      BY <1>1, <1>2, <1>3, <2>1 DEF HoldersExact
    <2> QED
      BY <1>1, <1>3, <2>2 DEF PoolKept, PoolShape, Untouched
  <1>4. CASE misfrees < MaxMisfrees /\ misfrees' = misfrees + 1 /\ held' = held
    <2>1. misfrees' \in 0 .. MaxMisfrees /\ misfrees' > 0 /\ misfrees' # 0
      BY <1>2, <1>4
    <2>2. HoldersExact'
      BY <1>1, <1>2, <2>1 DEF HoldersExact
    <2> QED
      BY <1>1, <2>1, <2>2 DEF PoolKept, PoolShape, Untouched
  <1> QED
    BY <1>3, <1>4 DEF DeallocateNothing

(* The item of the first unused number is not before an item of the pool that is. *)
LEMMA FreedIsItem ==
  ASSUME PoolKept, NEW i \in Items \cup held \cup {InvalidIndex}, ~noOPDealloc, NEW m \in 0 .. Size(pool),
         Less(i, FromInteger(m))
  PROVE  \E k \in 0 .. m - 1 : i = FromInteger(k) /\ Offset(i) = k /\ Get(pool, i) = At(pool, k)
                               /\ k \in 0 .. MaxItems
  <1>1. m \in 0 .. MaxItems
    BY ItemsAre, ItemsFit
  <1>2. i # InvalidIndex
    BY <1>1, InvalidLast
  <1>3. PICK k \in 0 .. Size(pool) - 1 : i = FromInteger(k) /\ Offset(i) = k /\ Get(pool, i) = At(pool, k)
    <2>1. i \in Items
      BY <1>2 DEF PoolKept, HoldersExact, HeldCounted, Items
    <2> QED
      BY <2>1, ItemsAre
  <1>4. k < m
    BY <1>3, LessExact, ItemsAre
  <1> QED
    BY <1>3, <1>4, ItemsAre, ItemsFit

(* One item less is held, and its bit is not set any more. *)
LEMMA KeptFreed ==
  ASSUME PoolKept, NEW k \in used, ~noOPDealloc,
         used' = used \ {k}, held' = held \ {FromInteger(k)}, number' = number - 1,
         noOPDealloc' = noOPDealloc, misfrees' = misfrees, Size(pool') = Size(pool)
  PROVE  HoldersExact' /\ FromInteger(k) \in held
  <1>1. FromInteger(k) \in held /\ used \subseteq Nat /\ misfrees = 0 /\ HeldCounted /\ number \in Int
    BY DEF PoolKept, HoldersExact
  <1>2. IsFiniteSet(held') /\ Cardinality(held') = Cardinality(held) - 1
    BY <1>1, FS_RemoveElement DEF HeldCounted
  <1>3. \A i \in held' : \E j \in used' : i = FromInteger(j)
    BY <1>1 DEF HeldCounted
  <1>4. \A j \in used' : FromInteger(j) \in held'
    BY <1>1, NumbersDiffer DEF PoolKept, HoldersExact
  <1>5. HeldCounted'
    BY <1>1, <1>2, <1>3 DEF HeldCounted
  <1> QED
    BY <1>1, <1>4, <1>5 DEF PoolKept, HoldersExact

LEMMA KeptDeallocateFirst ==
  ASSUME PoolKept, NEW i \in Items \cup held \cup {InvalidIndex}, DeallocateFirst(i)
  PROVE  PoolKept' /\ Untouched /\ i \in held /\ held' = held \ {i} /\ misfrees' = misfrees
  <1> DEFINE n == Size(pool)
  <1>0. PackedVector(pool, Contents) /\ n \in Nat /\ n <= MaxItems
    BY SizeIs DEF PoolKept, PoolShape
  <1>1. PICK m \in 0 .. n : next = FromInteger(m) /\ IsAfter(m, -1, n, used)
    BY DEF PoolKept, Listed
  <1>2. PICK k \in 0 .. m - 1 : i = FromInteger(k) /\ Offset(i) = k /\ k \in 0 .. MaxItems
    BY <1>1, FreedIsItem DEF DeallocateFirst
  <1> HIDE DEF n
  <1>3. k \in used /\ k \in Nat /\ k < n
    BY <1>0, <1>1, <1>2 DEF IsAfter
  <1>4. Minus(next, i) = m - k
    BY <1>0, <1>1, <1>2, <1>3, MinusExact, ItemsFit
  <1>5. /\ ~noOPDealloc /\ pool' = Put(pool, FromInteger(k), m - k) /\ next' = FromInteger(k)
        /\ used' = used \ {k} /\ number' = number - 1 /\ held' = held \ {FromInteger(k)}
        /\ noOPDealloc' = noOPDealloc /\ bytes' = bytes /\ misfrees' = misfrees
    BY <1>2, <1>4 DEF DeallocateFirst
  <1>6. m - k \in Contents /\ m - k \in Int
    BY <1>1, <1>3 DEF Contents
  <1>7. /\ PackedVector(pool', Contents) /\ Size(pool') = n
        /\ \A j \in Nat : j < n => At(pool', j) = IF j = k THEN m - k ELSE At(pool, j)
    BY <1>0, <1>3, <1>5, <1>6, PutExact DEF n
  <1>8. PoolShape'
    BY <1>0, <1>5, <1>6, <1>7 DEF PoolKept, PoolShape, n
  <1>9. HoldersExact' /\ FromInteger(k) \in held
    BY <1>3, <1>5, <1>7, KeptFreed DEF n
  <1>10. Listed(pool', next', used')
    <2>1. IsAfter(k, -1, n, used')
      BY <1>0, <1>1, <1>2, <1>3, <1>5 DEF IsAfter
    <2>2. ASSUME NEW j \in (0 .. n - 1) \ used'
          PROVE  At(pool', j) \in Int /\ IsAfter(j + At(pool', j), j, n, used')
      <3>1. CASE j = k
        <4>1. At(pool', j) = m - k
          BY <1>3, <1>7, <3>1
        <4>2. IsAfter(m, k, n, used')
          BY <1>0, <1>1, <1>2, <1>3, <1>5 DEF IsAfter
        <4> QED
          BY <1>1, <1>3, <1>6, <3>1, <4>1, <4>2
      <3>2. CASE j # k
        <4>0. j \in Nat /\ j < n
          BY <1>0, <2>2
        <4>1. j \notin used /\ At(pool', j) = At(pool, j)
          BY <1>5, <1>7, <2>2, <3>2, <4>0
        <4>2. At(pool, j) \in Int /\ IsAfter(j + At(pool, j), j, n, used)
          BY <2>2, <4>1 DEF PoolKept, Listed, n
        <4>3. k < j
          BY <1>0, <1>1, <1>2, <2>2, <4>1 DEF IsAfter
        <4> QED
          BY <1>0, <1>3, <1>5, <2>2, <4>1, <4>2, <4>3 DEF IsAfter
      <3> QED
        BY <3>1, <3>2
    <2>3. k \in 0 .. n /\ Size(pool') = n /\ next' = FromInteger(k)
      BY <1>0, <1>3, <1>5, <1>7
    <2> QED
      BY <2>1, <2>2, <2>3 DEF Listed
  <1>11. PoolKept'
    BY <1>5, <1>8, <1>9, <1>10 DEF PoolKept
  <1>12. Untouched
    <2>1. \A j \in used : j \in Nat /\ j < n
      BY <1>0 DEF PoolKept, HoldersExact, n
    <2>2. \A j \in used : FromInteger(j) \in held' => j # k
      BY <1>5
    <2>3. \A j \in used : FromInteger(j) \in held' => At(pool', j) = At(pool, j)
      BY <1>7, <2>1, <2>2
    <2> QED
      BY <2>3, UntouchedByNumber
  <1> QED
    BY <1>2, <1>5, <1>9, <1>11, <1>12

LEMMA KeptDeallocateBehind ==
  ASSUME PoolKept, OneByte, NEW i \in Items \cup held \cup {InvalidIndex}, DeallocateBehind(i)
  PROVE  PoolKept' /\ Untouched /\ i \in held /\ held' = held \ {i} /\ misfrees' = misfrees
  <1> DEFINE n == Size(pool)
  <1>0. /\ PackedVector(pool, Contents) /\ n \in Nat /\ n <= MaxItems /\ n <= ByteBits + 1
        /\ ByteBits \in Nat \ {0}
    <2>1. PackedVector(pool, Contents) /\ n \in Nat /\ n <= MaxItems
      BY SizeIs DEF PoolKept, PoolShape
    <2>2. noOPDealloc = FALSE
      BY PoolAssumption DEF PoolKept, DeallocateBehind
    <2>3. FALSE \in NoOpDeallocs
      BY <2>2 DEF PoolKept
    <2>4. MaxItems <= ByteBits + 1
      BY <2>3 DEF OneByte
    <2> QED
      BY <2>1, <2>4, ItemsFit, PoolAssumption
  <1>1. PICK k \in 0 .. n - 1 : i = FromInteger(k) /\ Offset(i) = k /\ k \in 0 .. MaxItems
    BY <1>0, FreedIsItem, ItemsAre DEF DeallocateBehind
  <1>2. k \in used /\ UnusedBelow(i) # {} /\ UnusedBelow(i) = {j \in 0 .. k - 1 : j \notin used}
    BY <1>1 DEF DeallocateBehind, UnusedBelow
  <1> HIDE DEF n
  <1>3. PICK b \in UnusedBelow(i) : \A j \in UnusedBelow(i) : b >= j
    BY <1>0, <1>1, <1>2, GreatestNumber
  <1>4. b \in 0 .. k - 1 /\ b \notin used /\ b = Max(UnusedBelow(i)) /\ b \in Nat
    <2>1. b \in 0 .. k - 1 /\ b \notin used /\ b \in Nat
      BY <1>1, <1>2, <1>3
    <2>2. UnusedBelow(i) \subseteq Int
      BY <1>2
    <2>3. b = Max(UnusedBelow(i))
      BY <1>3, <2>2, MaxIs
    <2> QED
      BY <2>1, <2>3
  <1>5. \A j \in b + 1 .. k : j \in used
    BY <1>0, <1>1, <1>2, <1>3, <1>4
  <1>6. ItemOfBit(b) = FromInteger(b)
    <2>1. b = ByteBits * 0 + b /\ b \in 0 .. ByteBits - 1
      BY <1>0, <1>1, <1>4
    <2>2. b \div ByteBits = 0 /\ (b % ByteBits) = b
      BY <1>0, <1>4, <2>1, DivUnique
    <2>3. Plus(FromInteger(0), b) = FromInteger(b)
      <3>1. Fits(0) /\ Fits(0 + b) /\ b \in Int
        BY <1>0, <1>1, <1>4, ItemsFit
      <3>2. Plus(FromInteger(0), b) = FromInteger(0 + b)
        BY <3>1, PlusExact
      <3> QED
        BY <1>4, <3>2
    <2>4. ItemOfBit(b) = Plus(FromInteger(0), b)
      BY <1>4, <2>2, BeginIsZero DEF ItemOfBit
    <2> QED
      BY <2>3, <2>4
  <1>7. Minus(i, FromInteger(b)) = k - b /\ k - b \in Int
    BY <1>0, <1>1, <1>4, MinusExact, ItemsFit
  <1> DEFINE d == At(pool, b)
  <1>8. d \in Int /\ IsAfter(b + d, b, n, used)
    BY <1>0, <1>1, <1>4 DEF PoolKept, Listed, n
  <1>9. Shifted(FromInteger(b), -(k - b)) = d - (k - b)
    <2>1. Get(pool, FromInteger(b)) = d /\ d # Data
      BY <1>8, PoolAssumption DEF At
    <2> QED
      BY <1>7, <1>8, <2>1 DEF Shifted
  <1> HIDE DEF d
  <1> DEFINE p == Put(pool, FromInteger(k), d - (k - b))
  <1>10. /\ ~noOPDealloc /\ pool' = Put(p, FromInteger(b), k - b) /\ next' = next
         /\ used' = used \ {k} /\ number' = number - 1 /\ held' = held \ {FromInteger(k)}
         /\ noOPDealloc' = noOPDealloc /\ bytes' = bytes /\ misfrees' = misfrees
    BY <1>1, <1>4, <1>6, <1>7, <1>9 DEF DeallocateBehind
  <1>11. d - (k - b) \in Contents /\ k - b \in Contents /\ d - (k - b) \in Int
    BY <1>7, <1>8 DEF Contents
  <1>12. /\ PackedVector(p, Contents) /\ Size(p) = n
         /\ \A j \in Nat : j < n => At(p, j) = IF j = k THEN d - (k - b) ELSE At(pool, j)
    BY <1>0, <1>1, <1>11, PutExact DEF n
  <1> HIDE DEF p
  <1>13. /\ PackedVector(pool', Contents) /\ Size(pool') = n
         /\ \A j \in Nat : j < n => At(pool', j) = IF j = b THEN k - b ELSE At(p, j)
    <2>1. b \in Nat /\ b < Size(p)
      BY <1>0, <1>1, <1>4, <1>12
    <2>2. k - b \in Contents /\ PackedVector(p, Contents)
      BY <1>11, <1>12
    <2>3. /\ PackedVector(Put(p, FromInteger(b), k - b), Contents)
          /\ Size(Put(p, FromInteger(b), k - b)) = Size(p)
          /\ \A j \in Nat : j < Size(p) =>
               At(Put(p, FromInteger(b), k - b), j) = IF j = b THEN k - b ELSE At(p, j)
      BY <2>1, <2>2, PutExact
    <2> QED
      BY <1>10, <1>12, <2>3
  <1>14. PoolShape'
    <2>1. \A j \in 0 .. n - 1 : At(pool', j) \in Int \cup {Data}
      BY <1>0, <1>7, <1>11, <1>12, <1>13 DEF PoolKept, PoolShape, n
    <2> QED
      BY <1>0, <1>10, <1>13, <2>1 DEF PoolKept, PoolShape, n
  <1>15. HoldersExact' /\ FromInteger(k) \in held
    BY <1>2, <1>10, <1>13, KeptFreed DEF n
  <1>16. Listed(pool', next', used')
    <2>1. PICK m \in 0 .. n : next = FromInteger(m) /\ IsAfter(m, -1, n, used)
      BY DEF PoolKept, Listed, n
    <2>2. m <= b /\ IsAfter(m, -1, n, used')
      BY <1>0, <1>1, <1>4, <1>10, <2>1 DEF IsAfter
    <2>3. ASSUME NEW j \in (0 .. n - 1) \ used'
          PROVE  At(pool', j) \in Int /\ IsAfter(j + At(pool', j), j, n, used')
      <3>1. CASE j = k
        <4>1. At(pool', j) = d - (k - b) /\ j + At(pool', j) = b + d
          BY <1>0, <1>1, <1>4, <1>8, <1>12, <1>13, <3>1
        <4>2. IsAfter(b + d, k, n, used')
          BY <1>0, <1>1, <1>2, <1>4, <1>5, <1>8, <1>10 DEF IsAfter
        <4> QED
          BY <1>11, <3>1, <4>1, <4>2
      <3>2. CASE j = b
        <4>1. At(pool', j) = k - b /\ j + At(pool', j) = k
          BY <1>0, <1>1, <1>4, <1>13, <3>2
        <4>2. IsAfter(k, b, n, used')
          BY <1>0, <1>1, <1>4, <1>5, <1>10 DEF IsAfter
        <4> QED
          BY <1>7, <3>2, <4>1, <4>2
      <3>3. CASE j # k /\ j # b
        <4>0. j \in Nat /\ j < n
          BY <1>0, <2>3
        <4>1. j \notin used /\ At(pool', j) = At(pool, j)
          BY <1>10, <1>12, <1>13, <2>3, <3>3, <4>0
        <4>2. At(pool, j) \in Int /\ IsAfter(j + At(pool, j), j, n, used)
          BY <2>3, <4>1 DEF PoolKept, Listed, n
        <4>3. j < b \/ k < j
          BY <1>0, <1>1, <1>4, <1>5, <2>3, <3>3, <4>1
        <4>4. \A a \in j + 1 .. j + At(pool, j) - 1 : a # k
          BY <1>0, <1>1, <1>4, <2>3, <4>2, <4>3 DEF IsAfter
        <4> QED
          BY <1>0, <1>10, <2>3, <4>1, <4>2, <4>4 DEF IsAfter
      <3> QED
        BY <3>1, <3>2, <3>3
    <2> QED
      BY <1>10, <1>13, <2>1, <2>2, <2>3 DEF Listed
  <1>17. PoolKept'
    BY <1>10, <1>14, <1>15, <1>16 DEF PoolKept
  <1>18. Untouched
    <2>1. \A j \in used : j \in Nat /\ j < n
      BY <1>0 DEF PoolKept, HoldersExact, n
    <2>2. \A j \in used : FromInteger(j) \in held' => j # k /\ j # b
      BY <1>4, <1>10
    <2>3. \A j \in used : FromInteger(j) \in held' => At(pool', j) = At(pool, j)
      BY <1>12, <1>13, <2>1, <2>2
    <2> QED
      BY <2>3, UntouchedByNumber
  <1> QED
    BY <1>1, <1>10, <1>15, <1>17, <1>18

LEMMA KeptReset ==
  ASSUME PoolKept, Reset
  PROVE  PoolKept' /\ Untouched
  <1>1. misfrees = 0 => held = {}
    BY FS_EmptySet DEF PoolKept, HoldersExact, HeldCounted, Reset
  <1>2. Capacity(EmptyVector) = 0
    BY IndexAssumption DEF Capacity, EmptyVector
  <1>3. /\ pool' = EmptyVector /\ bytes' = BytesFor(0) /\ used' = {} /\ next' = Begin
        /\ noOPDealloc' = noOPDealloc /\ number' = number /\ number = 0
        /\ held' = held /\ misfrees' = misfrees
    BY <1>2, ResizeEmpty DEF Reset, Clear
  <1>4. PackedVector(EmptyVector, Contents) /\ Size(EmptyVector) = 0
    BY EmptyPacked
  <1>5. PoolShape'
    BY <1>3, <1>4, ItemsFit DEF PoolShape
  <1>6. HoldersExact'
    <2>1. misfrees = 0 => HeldCounted'
      BY <1>1, <1>3, FS_EmptySet DEF HeldCounted
    <2> QED
      BY <1>3, <1>4, <2>1 DEF PoolKept, HoldersExact
  <1>7. Listed(pool', next', used')
    BY <1>3, <1>4, BeginIsZero DEF Listed, IsAfter
  <1>8. PoolKept'
    BY <1>3, <1>5, <1>6, <1>7 DEF PoolKept
  <1>9. Untouched
    BY <1>1 DEF Untouched
  <1> QED
    BY <1>8, <1>9

-----------------------------------------------------------------------------
(* The items by their numbers: no two are equal, and each is a cell of the heap. *)
LEMMA HeldAreItems ==
  ASSUME PoolKept, misfrees = 0, NEW i \in held
  PROVE  \E k \in used : /\ i = FromInteger(k) /\ k \in 0 .. Size(pool) - 1
                         /\ k \in 0 .. MaxItems /\ Offset(i) = k
  <1>1. PICK k \in used : i = FromInteger(k)
    BY DEF PoolKept, HoldersExact, HeldCounted
  <1>2. k \in 0 .. Size(pool) - 1
    BY DEF PoolKept, HoldersExact
  <1>3. k \in 0 .. MaxItems
    BY <1>2, ItemsAre, ItemsFit
  <1> QED
    BY <1>1, <1>2, <1>3, OffsetExact

(* A step that frees an item frees it for one that held it, or deallocate does nothing and
   counts a free too many. *)
LEMMA KeptDeallocate ==
  ASSUME PoolKept, OneByte, NEW i \in Items \cup held \cup {InvalidIndex}, Deallocate(i)
  PROVE  /\ PoolKept' /\ Untouched
         /\ \/ UNCHANGED vars \/ misfrees' > 0
            \/ i \in held /\ held' = held \ {i} /\ number' = number - 1 /\ misfrees' = misfrees
  <1>1. CASE DeallocateFirst(i)
    BY <1>1, KeptDeallocateFirst DEF DeallocateFirst
  <1>2. CASE DeallocateBehind(i)
    BY <1>2, KeptDeallocateBehind DEF DeallocateBehind
  <1>3. CASE DeallocateFails(i)
    <2>1. UNCHANGED vars
      BY <1>3 DEF DeallocateFails
    <2> QED
      BY <2>1, KeptStutter
  <1>4. CASE DeallocateNothing(i)
    BY <1>4, KeptDeallocateNothing DEF DeallocateNothing
  <1> QED
    BY <1>1, <1>2, <1>3, <1>4 DEF Deallocate

LEMMA KeptNext ==
  ASSUME PoolKept, OneByte, [Next]_vars
  PROVE  PoolKept' /\ Untouched
  <1>1. CASE AllocateItem
    BY <1>1, KeptAllocateExpands, KeptAllocateUnused
  <1>2. ASSUME NEW i \in held, Write(i) PROVE PoolKept' /\ Untouched
    BY <1>2, KeptWrite
  <1>3. ASSUME NEW i \in Items \cup held \cup {InvalidIndex}, Deallocate(i)
        PROVE  PoolKept' /\ Untouched
    BY <1>3, KeptDeallocate
  <1>4. CASE Reset
    BY <1>4, KeptReset
  <1>5. CASE Refused \/ UNCHANGED vars
    <2>1. UNCHANGED vars
      BY <1>5 DEF Refused
    <2> QED
      BY <2>1, KeptStutter
  <1> QED
    BY <1>1, <1>2, <1>3, <1>4, <1>5 DEF Next

(* The pool, its bits, its free list and its users agree in every state. *)
THEOREM PoolHolds ==
  ASSUME OneByte
  PROVE  Spec => []PoolKept
  <1>1. Init => PoolKept
    BY InitPool
  <1>2. PoolKept /\ [Next]_vars => PoolKept'
    BY KeptNext
  <1> QED
    BY <1>1, <1>2, PTL DEF Spec

-----------------------------------------------------------------------------
LEMMA KeptTypes ==
  ASSUME PoolKept
  PROVE  TypeOK
  <1> DEFINE n == Size(pool)
  <1>1. n \in Nat /\ n <= MaxItems /\ End(pool) = FromInteger(n)
    BY ItemsAre
  <1>2. noOPDealloc \in BOOLEAN
    BY PoolAssumption DEF PoolKept
  <1>3. \A i \in Items : Get(pool, i) \in Int \cup {Data}
    <2>1. \A k \in 0 .. n - 1 : At(pool, k) \in Int \cup {Data}
      BY DEF PoolKept, PoolShape
    <2> QED
      BY <2>1, ItemsAre
  <1>4. next \in Items \cup {End(pool)}
    <2>1. PICK m \in 0 .. n : next = FromInteger(m)
      BY DEF PoolKept, Listed
    <2>2. m = n \/ m \in 0 .. n - 1
      BY <1>1
    <2> QED
      BY <1>1, <2>1, <2>2 DEF Items
  <1>5. used \subseteq 0 .. n - 1
    BY DEF PoolKept, HoldersExact
  <1>6. bytes \in Nat
    <2>1. bytes = (n + ByteBits - 1) \div ByteBits
      BY DEF PoolKept, PoolShape, BytesFor
    <2>2. n + ByteBits - 1 \in Nat /\ ByteBits \in Nat /\ ByteBits > 0
      BY <1>1, PoolAssumption
    <2> QED
      BY <2>1, <2>2, DivNat
  <1>7. number \in Int /\ misfrees \in 0 .. MaxMisfrees
    BY DEF PoolKept, HoldersExact
  <1>8. misfrees = 0 => held \subseteq Items
    <2>1. \A k \in used : FromInteger(k) \in Items
      BY <1>5 DEF Items
    <2> QED
      BY <2>1 DEF PoolKept, HoldersExact, HeldCounted
  <1> QED
    BY <1>2, <1>3, <1>4, <1>5, <1>6, <1>7, <1>8 DEF TypeOK

(* The variables have their types; what users hold are items of the pool, until deallocate does
   nothing and counts a free too many. *)
THEOREM PoolTypes ==
  ASSUME OneByte
  PROVE  Spec => []TypeOK
  BY PoolHolds, KeptTypes, PTL

LEMMA KeptFreeList ==
  ASSUME PoolKept
  PROVE  FreeListExact
  <1> DEFINE n == Size(pool)
             S(k) == {m \in {j \in 0 .. n - 1 : j \notin used} : m > k} \cup {n}
  <1>1. n \in Nat
    BY ItemsAre
  <1>2. \A k : UnusedAfter(k) = Min(S(k))
    BY DEF UnusedAfter, Unused
  <1>3. next = FromInteger(UnusedAfter(-1))
    <2>1. PICK m \in 0 .. n : next = FromInteger(m) /\ IsAfter(m, -1, n, used)
      BY DEF PoolKept, Listed
    <2>2. -1 \in -1 .. n - 1
      BY <1>1
    <2>3. m = Min(S(-1))
      BY <1>1, <2>1, <2>2, AfterIs
    <2> QED
      BY <1>2, <2>1, <2>3
  <1>4. ASSUME NEW k \in Unused
        PROVE  Get(pool, FromInteger(k)) = UnusedAfter(k) - k
    <2>1. k \in (0 .. n - 1) \ used /\ k \in -1 .. n - 1 /\ k \in Int
      BY <1>1 DEF Unused
    <2>2. At(pool, k) \in Int /\ IsAfter(k + At(pool, k), k, n, used)
      BY <2>1 DEF PoolKept, Listed
    <2>3. k + At(pool, k) = Min(S(k))
      BY <1>1, <2>1, <2>2, AfterIs
    <2>4. At(pool, k) = UnusedAfter(k) - k
      BY <1>2, <2>1, <2>2, <2>3
    <2> QED
      BY <2>4 DEF At
  <1> QED
    BY <1>3, <1>4 DEF FreeListExact

(* From next, the offsets in the unused items lead through exactly those, in order, to the end
   of the pool, whatever is allocated, freed in any order, freed twice, or reset. *)
THEOREM ListFollowsBits ==
  ASSUME OneByte
  PROVE  Spec => []FreeListExact
  BY PoolHolds, KeptFreeList, PTL

LEMMA KeptBits ==
  ASSUME PoolKept
  PROVE  BitsExact
  <1>1. misfrees = 0 => {Offset(i) : i \in held} \subseteq used
    BY HeldAreItems
  <1>4. ~noOPDealloc => misfrees = 0
    BY DEF PoolKept, HoldersExact
  <1>2. ASSUME ~noOPDealloc, NEW k \in used PROVE k \in {Offset(i) : i \in held}
    <2>1. FromInteger(k) \in held
      BY <1>2 DEF PoolKept, HoldersExact
    <2>2. k \in 0 .. MaxItems
      BY ItemsAre, ItemsFit DEF PoolKept, HoldersExact
    <2>3. Offset(FromInteger(k)) = k
      BY <2>2, OffsetExact
    <2> QED
      BY <2>1, <2>3
  <1>3. bytes = BytesFor(Size(pool))
    BY DEF PoolKept, PoolShape
  <1> QED
    BY <1>1, <1>2, <1>3, <1>4 DEF BitsExact

(* The bits are those of the items that users hold, and there are bytes for all; a pool whose
   deallocate does nothing claims so until it counts a free of what nobody held. *)
THEOREM BitsFollowUsers ==
  ASSUME OneByte
  PROVE  Spec => []BitsExact
  BY PoolHolds, KeptBits, PTL

(* No allocation, deallocation or refused double free writes to an item that a user keeps; only a
   free that was counted, though nobody held the item, ends that. *)
THEOREM UsersUndisturbed ==
  ASSUME OneByte
  PROVE  Spec => HeldUntouched
  <1>1. PoolKept /\ [Next]_vars =>
          [misfrees = 0 => \A i \in held \cap held' : Get(pool', i) \in {Get(pool, i), Data}]_vars
    BY KeptNext DEF Untouched
  <1> QED
    BY <1>1, PoolHolds, PTL DEF Spec, HeldUntouched

-----------------------------------------------------------------------------
CellsOfHeap == [segment : 0 .. MaxItems, position : 0 .. SegmentSize - 1]

LEMMA ItemsAreCells ==
  ASSUME NEW k \in 0 .. MaxItems
  PROVE  FromInteger(k) \in CellsOfHeap
  <1> DEFINE q == FromInteger(k).segment
             r == FromInteger(k).position
  <1>1. q \in 0 .. k /\ r \in 0 .. SegmentSize - 1 /\ FromInteger(k) = Index(q, r)
    BY NumberPlace
  <1>2. q \in 0 .. MaxItems
    BY <1>1, ItemsFit
  <1> HIDE DEF q, r
  <1>3. [segment |-> q, position |-> r] \in CellsOfHeap
    BY <1>1, <1>2 DEF CellsOfHeap
  <1> QED
    BY <1>1, <1>3 DEF Index

LEMMA StepsOfHeap ==
  ASSUME PoolKept, OneByte, [Next]_vars
  PROVE  [Heap!AllocatorNext]_<<held, number, misfrees > 0>>
  <1>0. misfrees \in Nat
    BY PoolAssumption DEF PoolKept, HoldersExact
  <1>1. CASE misfrees' > 0
    BY <1>1 DEF Heap!AllocatorNext, Heap!Misuse
  <1>2. CASE AllocateItem /\ misfrees = 0
    <2>1. PICK k \in 0 .. MaxItems : FromInteger(k) \notin held /\ held' = held \cup {FromInteger(k)}
      <3>1. CASE next = End(pool)
        BY <1>2, <3>1, KeptAllocateExpands, ItemsAre, ItemsFit
      <3>2. CASE next # End(pool)
        BY <1>2, <3>2, KeptAllocateUnused, ItemsAre, ItemsFit
      <3> QED
        BY <3>1, <3>2
    <2>2. number' = number + 1 /\ misfrees' = misfrees
      BY <1>2 DEF AllocateItem
    <2>3. Heap!Take(FromInteger(k))
      BY <2>1, <2>2 DEF Heap!Take
    <2>4. FromInteger(k) \in CellsOfHeap
      BY ItemsAreCells
    <2> QED
      BY <2>3, <2>4 DEF Heap!AllocatorNext, CellsOfHeap
  <1>3. ASSUME misfrees = 0, NEW i \in Items \cup held \cup {InvalidIndex}, Deallocate(i)
        PROVE  [Heap!AllocatorNext]_<<held, number, misfrees > 0>>
    <2>1. CASE UNCHANGED vars
      BY <2>1 DEF vars
    <2>2. CASE i \in held /\ held' = held \ {i} /\ number' = number - 1 /\ misfrees' = misfrees
      <3>1. i \in CellsOfHeap
        BY <1>3, <2>2, HeldAreItems, ItemsAreCells
      <3>2. Heap!GiveBack(i)
        BY <2>2 DEF Heap!GiveBack
      <3> QED
        BY <3>1, <3>2 DEF Heap!AllocatorNext, CellsOfHeap
    <2> QED
      BY <1>1, <1>3, <2>1, <2>2, KeptDeallocate
  <1>4. CASE Reset \/ Refused \/ UNCHANGED vars \/ \E i \in held : Write(i)
    BY <1>4 DEF Reset, Refused, vars, Write
  <1>5. CASE misfrees # 0
    <2>1. misfrees' # 0 /\ misfrees' \in Nat
      <3>1. PoolKept'
        BY KeptNext
      <3>2. misfrees' \in Nat
        BY <3>1, PoolAssumption DEF PoolKept, HoldersExact
      <3>3. misfrees' \in {misfrees, misfrees + 1}
        BY DEF Next, vars, AllocateItem, Write, Deallocate, DeallocateNothing, DeallocateFirst,
               DeallocateBehind, DeallocateFails, Reset, Refused
      <3> QED
        BY <1>0, <1>5, <3>2, <3>3
    <2> QED
      BY <1>1, <2>1
  <1> QED
    BY <1>2, <1>3, <1>4, <1>5 DEF Next

(* To its users the pool is an allocator: no item goes out twice, only what is out comes back,
   and number_allocated is how many are out.  A pool that really frees is so for ever, whatever
   its users do; one whose deallocate does nothing is so until an item is freed that nobody
   held, which it counts instead of refusing. *)
THEOREM PoolIsAllocator ==
  ASSUME OneByte
  PROVE  Spec => ImplementsAllocator
  <1>1. Init => Heap!NothingOut
    BY DEF Init, Heap!NothingOut
  <1>2. PoolKept /\ [Next]_vars => [Heap!AllocatorNext]_<<held, number, misfrees > 0>>
    BY StepsOfHeap
  <1> QED
    BY <1>1, <1>2, PoolHolds, PTL DEF Spec, ImplementsAllocator, Heap!AllocatorSpec

=============================================================================
