--------------------------- MODULE PoolAllocator ---------------------------
(***************************************************************************)
(* The pool allocator (src/xylose/pool_allocator.hpp): items in a          *)
(* segmented_vector, a bit vector of the used ones, and a free list whose  *)
(* links, relative offsets, are kept in the unused items.  The list is     *)
(* sorted, so that next is the first unused item, or end().  Every         *)
(* operation holds memLock.                                                *)
(***************************************************************************)
EXTENDS Segments

CONSTANTS
  ByteBits,      \* bits of an unsigned char
  MaxItems,      \* bound on the items of the pool
  MaxMisfrees,   \* bound on the frees of what nobody holds, when deallocate does nothing
  NoOpDeallocs,  \* values of the template argument noOPDealloc
  Data           \* what a user has put in an item, read as an offset: garbage

ASSUME PoolAssumption ==
  /\ ByteBits \in Nat \ {0}
  /\ MaxItems \in Nat /\ 2 * (MaxItems + SegmentSize) < Words
  /\ MaxMisfrees \in Nat
  /\ NoOpDeallocs \subseteq BOOLEAN
  /\ Data \notin Int

VARIABLES
  noOPDealloc,   \* template argument
  pool,          \* items, each with its next_offset or the user's data
  next,          \* the item that is allocated next
  used,          \* numbers of the items whose bit is set
  bytes,         \* used.size()
  number,        \* number_allocated
  held,          \* items that users hold
  misfrees       \* history: how often deallocate counted a free of what nobody held

vars == <<noOPDealloc, pool, next, used, bytes, number, held, misfrees>>

(* bits::numT *)
BytesFor(bits) == (bits + ByteBits - 1) \div ByteBits

(* pi - pool.begin() *)
Offset(i) == Minus(i, Begin)

Items == {FromInteger(k) : k \in 0 .. Size(pool) - 1}

TypeOK ==
  /\ noOPDealloc \in BOOLEAN
  /\ \A i \in Items : Get(pool, i) \in Int \cup {Data}
  /\ next \in Items \cup {End(pool)}
  /\ used \subseteq 0 .. Size(pool) - 1
  /\ bytes \in Nat /\ number \in Int
  /\ misfrees \in 0 .. MaxMisfrees
  /\ misfrees = 0 => held \subseteq Items

Init ==
  /\ noOPDealloc \in NoOpDeallocs
  /\ pool = EmptyVector
  /\ next = Begin
  /\ used = {} /\ bytes = 0
  /\ number = 0
  /\ held = {} /\ misfrees = 0

(* Bug: the new item leads two items on. *)
ExpandedFar == IF next = End(pool) THEN PushBack(pool, 2) ELSE pool

(* One item more, when none is unused; its next_offset is 1. *)
Expanded == IF next = End(pool) THEN PushBack(pool, 1) ELSE pool

(* Bug: no byte is added for the bit of the new item. *)
AllocateItemNoByte ==
  /\ next = End(pool) => Size(pool) < MaxItems
  /\ LET i == IF next = End(pool) THEN Decrement(End(Expanded)) ELSE next
     IN /\ pool' = Expanded
        /\ next' = Plus(i, Get(Expanded, i))
        /\ used' = used \cup {Offset(i)}
        /\ held' = held \cup {i}
  /\ number' = number + 1
  /\ UNCHANGED <<noOPDealloc, bytes, misfrees>>

AllocateItem ==
  /\ next = End(pool) => Size(pool) < MaxItems
  /\ LET expands == next = End(pool)
         i == IF expands THEN Decrement(End(Expanded)) ELSE next
     IN /\ pool' = Expanded
        /\ bytes' = IF expands THEN BytesFor(Size(Expanded)) ELSE bytes
        /\ next' = Plus(i, Get(Expanded, i))
        /\ used' = used \cup {Offset(i)}
        /\ held' = held \cup {i}
  /\ number' = number + 1
  /\ UNCHANGED <<noOPDealloc, misfrees>>

(* The user writes to an item it holds, over the link.  One that a reset took from under its
   user is memory given back: nothing is said of it. *)
Write(i) ==
  /\ i \in held \cap Items
  /\ pool' = Put(pool, i, Data)
  /\ UNCHANGED <<noOPDealloc, next, used, bytes, number, held, misfrees>>

(* deallocate when noOPDealloc: the item is not reused before reset.  The call is counted
   before that is decided, and whatever it is given: an item freed twice, or one that is not
   of the pool, makes number_allocated wrong, and it stays so. *)
DeallocateNothing(i) ==
  /\ noOPDealloc
  /\ number' = number - 1
  /\ \/ i \in held /\ held' = held \ {i} /\ UNCHANGED misfrees
     \/ i \notin held /\ misfrees < MaxMisfrees /\ misfrees' = misfrees + 1 /\ UNCHANGED held
  /\ UNCHANGED <<noOPDealloc, pool, next, used, bytes>>

(* The item is before the first unused one: it becomes the first. *)
DeallocateFirst(i) ==
  /\ ~noOPDealloc /\ Less(i, next)
  /\ pool' = Put(pool, i, Minus(next, i))
  /\ next' = i
  /\ used' = used \ {Offset(i)}
  /\ number' = number - 1
  /\ held' = held \ {i}
  /\ UNCHANGED <<noOPDealloc, bytes, misfrees>>

UnusedBelow(i) == {k \in 0 .. Offset(i) - 1 : k \notin used}

(* Bug: the item behind the unused one. *)
ItemOfBitPlusOne(k) == Plus(Begin, (k \div ByteBits) + (k % ByteBits) + 1)

(* Where deallocate takes the unused item with bit number k to be: the number of its byte
   plus that of its bit in the byte. *)
ItemOfBit(k) == Plus(Begin, (k \div ByteBits) + (k % ByteBits))

(* The offset in an item, after adding n. *)
Shifted(i, n) == IF Get(pool, i) = Data THEN Data ELSE Get(pool, i) + n

(* Bug: the link of the item is taken over as it is, relative to another item. *)
DeallocateBehindUnshifted(i) ==
  /\ ~noOPDealloc /\ ~Less(i, next) /\ Less(i, End(pool))
  /\ Offset(i) \in used /\ UnusedBelow(i) # {}
  /\ LET before == ItemOfBit(Max(UnusedBelow(i)))
     IN pool' = Put(Put(pool, i, Get(pool, before)), before, Minus(i, before))
  /\ used' = used \ {Offset(i)}
  /\ number' = number - 1
  /\ held' = held \ {i}
  /\ UNCHANGED <<noOPDealloc, next, bytes, misfrees>>

(* The item is behind an unused one, found in the bits: it is linked behind that. *)
DeallocateBehind(i) ==
  /\ ~noOPDealloc /\ ~Less(i, next) /\ Less(i, End(pool))
  /\ Offset(i) \in used /\ UnusedBelow(i) # {}
  /\ LET before == ItemOfBit(Max(UnusedBelow(i)))
         gap == Minus(i, before)
     IN pool' = Put(Put(pool, i, Shifted(before, -gap)), before, gap)
  /\ used' = used \ {Offset(i)}
  /\ number' = number - 1
  /\ held' = held \ {i}
  /\ UNCHANGED <<noOPDealloc, next, bytes, misfrees>>

(* Bug: number_allocated is not corrected. *)
DeallocateFailsCounted(i) ==
  /\ ~noOPDealloc /\ ~Less(i, next)
  /\ Less(i, End(pool)) /\ Offset(i) \in used => UnusedBelow(i) = {}
  /\ number' = number - 1
  /\ UNCHANGED <<noOPDealloc, pool, next, used, bytes, held, misfrees>>

(* bad_alloc, and number_allocated is corrected: the item is not in the pool, it was freed
   already, or the bits have no unused one before it. *)
DeallocateFails(i) ==
  /\ ~noOPDealloc /\ ~Less(i, next)
  /\ Less(i, End(pool)) /\ Offset(i) \in used => UnusedBelow(i) = {}
  /\ UNCHANGED vars

(* clear() gives the memory of the pool back, whatever rsz is: the capacity is 0 then.  The
   counter decides alone: when it is wrong, items that users hold go with the memory, and are
   handed out again. *)
Reset ==
  /\ number = 0
  /\ LET capacity == Capacity(Clear(pool))
     IN /\ pool' = Resize(Clear(pool), capacity, 1)
        /\ bytes' = BytesFor(capacity)
  /\ used' = {}
  /\ next' = Begin
  /\ UNCHANGED <<noOPDealloc, number, held, misfrees>>

(* reset throws bad_alloc while items are allocated; so do the calls for n # 1. *)
Refused == number # 0 /\ UNCHANGED vars

(* Users may free an item twice, or one that is not of the pool. *)
Deallocate(i) ==
  DeallocateNothing(i) \/ DeallocateFirst(i) \/ DeallocateBehind(i) \/ DeallocateFails(i)

Next ==
  \/ AllocateItem
  \/ \E i \in held : Write(i)
  \/ \E i \in Items \cup held \cup {InvalidIndex} : Deallocate(i)
  \/ Reset \/ Refused

Spec == Init /\ [][Next]_vars

-----------------------------------------------------------------------------
Unused == {k \in 0 .. Size(pool) - 1 : k \notin used}

(* The number of the first unused item behind the item number k, or that of end(). *)
UnusedAfter(k) == Min({m \in Unused : m > k} \cup {Size(pool)})

(* The free list is what the bits say: from next, each offset leads to the next unused
   item in order, and the last one to end(), where the pool will grow. *)
FreeListExact ==
  /\ next = FromInteger(UnusedAfter(-1))
  /\ \A k \in Unused : Get(pool, FromInteger(k)) = UnusedAfter(k) - k

(* The bits are exactly the items that users hold (those held since the last reset if
   deallocation does nothing, and until it counts a free of what nobody held), in as many
   bytes as the assertion of deallocate wants. *)
BitsExact ==
  /\ ~noOPDealloc => {Offset(i) : i \in held} = used
  /\ misfrees = 0 => {Offset(i) : i \in held} \subseteq used
  /\ bytes = BytesFor(Size(pool))

(* No operation writes to an item that a user holds, until one counts a free of what nobody
   held: then reset may give the item to another user. *)
HeldUntouched ==
  [][misfrees = 0 => \A i \in held \cap held' : Get(pool', i) \in {Get(pool, i), Data}]_vars

(* No item is handed out twice, and number_allocated is right: always when deallocate does
   its work, double frees included; and when it does nothing, until an item is freed twice or
   one that is not of the pool, after which nothing is promised. *)
Heap == INSTANCE Allocator WITH
  Cells <- [segment : 0 .. MaxItems, position : 0 .. SegmentSize - 1], out <- number,
  broken <- misfrees > 0

ImplementsAllocator == Heap!AllocatorSpec

=============================================================================
