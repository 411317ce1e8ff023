------------------------------ MODULE Ownership ------------------------------
(***************************************************************************)
(* What owns memory: src/xylose/Stack.hpp with src/xylose/Swap.hpp, and    *)
(* src/xylose/AbstractFactory.hpp with Factory.hpp and TypedFactory.hpp.   *)
(* A Stack is a record of mSize, mCapacity and mData, the elements of its  *)
(* buffer; bench.expect has what a mathematician's stack would hold and    *)
(* live counts the elements that are constructed and not destroyed.        *)
(***************************************************************************)
EXTENDS Workbench

CONSTANTS InitialSize,   \* the first capacity of a stack, kInitialSize
          MaxPushes,     \* how often a stack is pushed to or copied
          FactoryKeys,   \* the keys factories are registered with
          MaxFactories   \* how many factories are made

ASSUME InitialAssumption == InitialSize \in Nat \ {0}

NewStack == [mSize |-> 0, mCapacity |-> InitialSize, mData |-> <<>>]

(* A copy has its own buffer of the same capacity with copies of the       *)
(* elements in use.                                                        *)
CopyOfStack(other) ==
  [mSize |-> other.mSize, mCapacity |-> other.mCapacity, mData |-> SubSeq(other.mData, 1, other.mSize)]

Back(s) == s.mData[s.mSize]

(* The elements are copied into the new buffer; those of the old one are   *)
(* not destroyed before it is deallocated.                                 *)
Reserve(s, n) ==
  IF s.mCapacity < n THEN [s EXCEPT !.mCapacity = n, !.mData = SubSeq(@, 1, s.mSize)] ELSE s

LeftBehind(s, n) == IF s.mCapacity < n THEN s.mSize ELSE 0

(* Bug: one element too late for a larger buffer. *)
PushBackLate(s, x) ==
  LET room == IF s.mSize > s.mCapacity THEN Reserve(s, s.mCapacity * 2) ELSE s
  IN [room EXCEPT !.mSize = @ + 1, !.mData = Append(SubSeq(@, 1, room.mSize), x)]

PushBack(s, x) ==
  LET room == IF s.mSize = s.mCapacity THEN Reserve(s, s.mCapacity * 2) ELSE s
  IN [room EXCEPT !.mSize = @ + 1, !.mData = Append(SubSeq(@, 1, room.mSize), x)]

(* What was popped stays in the buffer, destroyed. *)
PopBack(s) == [s EXCEPT !.mSize = @ - 1]

Clear(s) == [s EXCEPT !.mSize = 0]

(* swap exchanges the members; arrays are exchanged element by element.    *)
SwapStacks(pair) == [k \in 1 .. 2 |-> pair[3 - k]]
-----------------------------------------------------------------------------
(* Two stacks, of which the second begins as a copy of the first. *)
NewStacks ==
  Free /\ PutOn([is |-> "stacks", s |-> <<NewStack, NewStack>>, expect |-> <<<<>>, <<>>>>,
                 pushed |-> 0, live |-> 0, lost |-> 0])

Push(k) ==
  /\ On("stacks") /\ bench.pushed < MaxPushes
  /\ LET s == bench.s[k]
         lost == IF s.mSize = s.mCapacity THEN LeftBehind(s, s.mCapacity * 2) ELSE 0
     IN bench' = [bench EXCEPT !.s[k] = PushBack(@, bench.pushed + 1), !.pushed = @ + 1,
                               !.expect[k] = Append(@, bench.pushed + 1),
                               !.live = @ + lost + 1, !.lost = @ + lost]

Pop(k) ==
  /\ On("stacks") /\ bench.s[k].mSize > 0
  /\ bench' = [bench EXCEPT !.s[k] = PopBack(@), !.expect[k] = SubSeq(@, 1, Len(@) - 1), !.live = @ - 1]

ReserveMore(k) ==
  /\ On("stacks")
  /\ LET s == bench.s[k]
         n == s.mCapacity + 1
     IN /\ n <= 2 * InitialSize + 1
        /\ bench' = [bench EXCEPT !.s[k] = Reserve(@, n), !.live = @ + LeftBehind(s, n),
                                  !.lost = @ + LeftBehind(s, n)]

Swap ==
  /\ On("stacks")
  /\ bench' = [bench EXCEPT !.s = SwapStacks(@), !.expect = <<@[2], @[1]>>]

(* The second stack is destroyed and made anew as a copy of the first. *)
CopyFirst ==
  /\ On("stacks") /\ bench.expect[2] = <<>> /\ bench.pushed < MaxPushes
  /\ bench' = [bench EXCEPT !.pushed = @ + 1, !.s[2] = CopyOfStack(bench.s[1]), !.expect[2] = bench.expect[1],
                            !.live = @ + Len(bench.expect[1])]

(* The destructors clear. *)
DestroyStacks ==
  /\ On("stacks")
  /\ bench' = [is |-> "destroyed", live |-> bench.live - bench.s[1].mSize - bench.s[2].mSize,
               lost |-> bench.lost, s |-> <<Clear(bench.s[1]), Clear(bench.s[2])>>]
-----------------------------------------------------------------------------
(* AbstractFactory: mFactories gives each key a factory, numbered in the   *)
(* order in which they were made; a factory handed over is the map's own.  *)
RegisterFactory(m, key, factory) == [k \in DOMAIN m \cup {key} |-> IF k = key THEN factory ELSE m[k]]

(* TypedFactory's create makes an object of its own type. *)
CreateObject(m, key, parameter) ==
  IF key \in DOMAIN m THEN [type |-> m[key], parameter |-> parameter] ELSE [type |-> 0]

NewAbstractFactory ==
  Free /\ PutOn([is |-> "factories", mFactories |-> <<>>, alive |-> {}, made |-> 0,
                 last |-> [k \in FactoryKeys |-> 0], object |-> [type |-> 0],
                 asked |-> <<>>, registered |-> 0])

Register(key) ==
  /\ On("factories") /\ bench.made < MaxFactories
  /\ LET replaced == IF key \in DOMAIN bench.mFactories THEN {bench.mFactories[key]} ELSE {}
         new == bench.made + 1
     IN bench' = [bench EXCEPT !.mFactories = RegisterFactory(@, key, new), !.made = new,
                               !.alive = (@ \ replaced) \cup {new}, !.last[key] = new]

Make(key) ==
  /\ On("factories")
  /\ bench' = [bench EXCEPT !.object = CreateObject(bench.mFactories, key, key), !.asked = <<key>>,
                            !.registered = bench.last[key]]

DestroyFactories ==
  /\ On("factories")
  /\ bench' = [is |-> "deleted", left |-> bench.alive \ Range(bench.mFactories)]

OwnershipNext ==
  \/ NewStacks \/ Swap \/ CopyFirst \/ DestroyStacks
  \/ \E k \in 1 .. 2 : Push(k) \/ Pop(k) \/ ReserveMore(k)
  \/ NewAbstractFactory \/ DestroyFactories \/ \E key \in FactoryKeys : Register(key) \/ Make(key)
  \/ TakeOff("destroyed") \/ TakeOff("deleted")
-----------------------------------------------------------------------------
(* However they were grown, popped, exchanged and copied, the stacks hold  *)
(* what was pushed and not popped, in order, within their capacity, and    *)
(* every element is destroyed once, except those that growing leaves       *)
(* behind; the factories that exist are those the map can reach, each      *)
(* under one key, the last registered with it, and none is left when the   *)
(* map is gone; create makes what that factory makes, or nothing when none *)
(* was ever registered.                                                    *)
EverythingOwned ==
  /\ On("stacks") =>
       /\ \A k \in 1 .. 2 :
            LET s == bench.s[k]
            IN /\ SubSeq(s.mData, 1, s.mSize) = bench.expect[k] /\ s.mSize <= s.mCapacity
               /\ s.mSize > 0 => Back(s) = Last(bench.expect[k])
       /\ bench.live = Len(bench.expect[1]) + Len(bench.expect[2]) + bench.lost
  /\ On("destroyed") => bench.live = bench.lost
  /\ On("factories") =>
       /\ bench.alive = Range(bench.mFactories)
       /\ \A k, l \in DOMAIN bench.mFactories : bench.mFactories[k] = bench.mFactories[l] => k = l
       /\ bench.asked # <<>> =>
            /\ bench.object.type = bench.registered
            /\ bench.object.type # 0 => bench.object.parameter = bench.asked[1]
  /\ On("deleted") => bench.left = {}
=============================================================================
