# xylose in TLA+

Specifications of xylose's thread cache and its clients, of its containers, and
of nearly all of the independent classes and functions around them, with TLC
runs that check them on small instances and TLAPS proofs about the thread cache,
its clients, the containers, and the classes with locks or owned memory, the
sort, the adaptive integrator, Timings and Timers, the XML documents, and the
histograms. Line numbers refer to the sources under `src/src/xylose`;
`PROJECT.json` maps each definition to the lines it stands for.

## 1. Inventory

| component | state | operations | what is hard | what makes it correct |
|---|---|---|---|---|
| **thread cache** `PThreadCache.h` | task queue, finished set, three counters, quit flag, thread id holders, two spinlocks, two mutexes, two conditions | constructor, `addTask`, `waitForTasks`, `set_max_threads`, destructor; the slaves' loop | threads on demand or eager, nested tasks, resizing under load, wake-ups, throws out of locked regions | a task is executed once and returned to its owner; counters exact; no call blocks for ever |
| **clients** `PThreadEval.h`, `fit/appspack/ThreadedExecutor.hpp` | sets of task pointers | `eval`, `joinAll`; `spawn`, `recv` | one cache for all, addresses that come back, callbacks into the object | one result per task, deleted once and only after it left the cache |
| **segmented_vector** with `Index.hpp`, `detail/Iterator.hpp` | table of segments, first free seat per segment, first free segment | `push_back`, `erase`, `eraseIf`, `compact`, `reserve`, `resize`, `clear`, copy; iterators | segment borders, unsigned wrap-around, removal while walking | it is a list with swap-erase, packed, with stable addresses |
| **pool_allocator**, `bits.hpp` | pool of items, free list as offsets, bytes of used bits, count | `allocate`, `construct`, `deallocate`, `reset` | frees in any order, double and foreign frees (counted with `noOPDealloc`), byte borders | free list and bits agree; a held item is nobody else's, as long as no wrong free went unrefused |
| SyncLock `SyncLock.h` | one lock of OpenMP, pthread or Win32 | lock, unlock, tryLock, isLocked, keys for a scope | `isLocked` takes the lock for a moment | mutual exclusion |
| Singleton `Singleton.hpp` | the object | `instance`, `destroyInstance`, exit | no lock of its own; looks and creates, deletes and forgets in two steps each | under a lock one object, none left; without one, what is given exists unless somebody destroys it |
| logger `logger.c` | file, type, level, mutex, static buffer | `vlog`, `setLogFile` | replacing a file another thread writes to; one buffer for all | whole lines, each once, where configured |
| NSort and maps `nsort/` | items, counts, ends, cursors per bucket | `sort`, tweakers, ranges; maps and wrappers | in-place moves through a user map that may change after counting | a permutation, every item in its bucket |
| binning `binning/` | counts per bin, limits, scale | `bin`, `+=`, `*=`, `clearBins`, MPI blocks | rounded borders, keys at the maximum, padding | every key counted once, in its bin |
| Stack, Swap | buffer, size, capacity | push, pop, reserve, copy, swap | growing, elements without a destructor | last in, first out; all destroyed |
| factories | key to factory | register, create | replaced factories | the factory registered last creates |
| timing `timing/`, Timer | elements, current time, saved times; readings of the clock | `set_time`, `push_time`, `pop_time`, print; start, stop | times beyond the elements, exceptions half-way, borrow of a second | the value of the time set; time restored |
| random `random/` | words, position, count; kept deviate | draw, seed, save, load, copy | restoring all of the state; the second deviate of a pair | a restored generator repeats, a deviate never |
| distributions `distribution/` | map of shares, array of values | construct, reset, copy, draw | rounding of sums, ownership of the array | values drawn by their share |
| integrators `integrate/` | step size, truncation, time | fixed steps; adaptive driver | retries, cut steps, underflow, several calls | exact for polynomials; arrives and no further |
| XML documents `xml/` | document, XPath context | open, close, find, query | failing half-way, exception declarations, results without a node set | documents and contexts are closed, only results without a node set are lost, first values win |
| fit: external programs `fit/` | files, pipes, processes | one evaluation; reading the input | names given out again, failing programs | the value of one's own point |
| vectors, matrices, geometry | numbers | operators, loops in place | operand inside the object | linear algebra; smallest rectangles |
| bits, upper_triangle, strings | words, half a matrix | set, resize, reverse, stream | word borders, the diagonal | what was stored is read |
| compat, type traits | none | | | |

The parts interact as follows. Clients call the thread cache and are called
back by it only through `exec()` of their tasks; `PThreadEval` additionally
calls the user's `accept()`, which may call `eval()` again. `pool_allocator`
keeps its items in a `segmented_vector` and its bits in a vector of bytes and
takes a `SyncLock` around every operation. `ExecFunc` and `PExecFunc` are called
by the tasks of `ThreadedExecutor`, that is, by several threads at a time.
`Extender` nests histograms, the inverters draw from a generator, and the input
of the fit is read through an XML `Doc`. Everything logs. The other classes do
not call each other.

## 2. Modules

    TaskPool        <=refines=  ScatterGather  EXTENDS  PThreadCache
    CacheProgramProofs EXTENDS ScatterGatherProofs EXTENDS ScatterGather
    SharedCache  (the promises of TaskPool, by address)  <-  CacheClients EXTENDS it
    CacheClientsProofs EXTENDS CacheClients
    SwapList        <=refines=  SegmentedVector EXTENDS Segments EXTENDS SegmentIndex
    Allocator       <=refines=  PoolAllocator   EXTENDS Segments
    SegmentedVectorProofs EXTENDS SegmentedVector, SegmentProofs
    PoolAllocatorProofs   EXTENDS PoolAllocator, SegmentProofs;   SegmentProofs EXTENDS Segments
    MCLibrary EXTENDS NSort -> Partitions -> SortMaps, Geometry -> VectorAlgebra,
      Binning and Distributions -> SmallFloats, BitArrays, Synchronized, Ownership,
      Clocks, Logging, Generators, Integrators, Documents, Programs;  all -> Workbench
    LibraryProofs   EXTENDS Synchronized, Ownership, Logging, Programs
    AlgorithmProofs EXTENDS NSort, Integrators, Clocks, Documents, Binning

The `MC*` modules define the constants of TLC's instances.

**PThreadCache** has one variable per field of the class (`taskQueue`,
`finishedTasks`, `maxThreads`, `totalThreads`, `activeThreads`, `slavesQuit`,
`createOnDemand`, the owners of both spinlocks, `threads`' holders as the states
`slave[s]` of the slots) and a program counter per activity, an application
thread or a task whose `exec()` runs. A slave goes through start, get, sleeping,
popped, exec, signal (`taskSlave`, `getTask`, `signalTaskFinished`). A call of
`addTask` first takes `total_threads_spinlock`, then `max_threads_spinlock` and
does the whole locked region in one step, and then either spins in
`waitForStartedThread` or executes the task serially. `set_max_threads` raises
the quit flag, stays in `setMaxJoin` holding the spinlock until the slaves are
gone, and installs the new number. The grain: a critical section that cannot
block inside is one step, whose guard is that its locks are free. A lock is a
variable only where a thread can be stuck holding it: `totalLock` while `addTask`
waits for the other spinlock, `maxLock` while `set_max_threads` joins, and these
and `queueLock` after a throw. Spurious wake-ups of the
conditions are in (`SlaveWake`, `GatherWake`). `Faults` selects whether
`pthread_create` may fail and whether fresh memory is arbitrary.

**ScatterGather** composes the cache with programs in the shape of
`examples/threadcache`: each activity adds its tasks (`Parent`), waits for the
set it owns as often as needed, and goes on; tasks may do the same inside
`exec()`. The main thread constructs the cache, may resize it, and destroys it.
`Disciplined` says whether it is resized only when nobody uses it.

**TaskPool** is what the cache promises: a task goes from out to pending to
running to finished, and a gatherer takes its own finished tasks and eventually
all of them. `ImplementsPool` is the refinement; the mapping reads a task's
status off the queue, the slots and the finished set.

**SharedCache** is that promise with addresses and a heap; **CacheClients** runs
`PThreadEval` and `ThreadedExecutor` objects on it. `deleteTasks` is one step
per task, so that `accept()` (`EvalInAccept`) runs between two deletions.

**SegmentIndex** is `Index` and the iterators: pairs of unsigned words modulo
`Words`, with the wrap-around the reverse borders rely on. **Segments** gives
each operation of the container as an operator from vector to vector (loops as
recursive functions), **SegmentedVector** applies them to one vector
and tracks where objects are constructed and destroyed, **SwapList** is the
list a user sees.

**PoolAllocator** keeps the pool (a vector of Segments whose elements are links,
or the user's `Data` that overlaps the link), the used bits and their bytes, the
position `next`, `number_allocated` and, for the properties, the items users hold
and `misfrees`, how often a free of what nobody held was counted. Users may free
anything: what they hold, an item already freed, a pointer of another pool. Where
`deallocate` does its work it refuses the latter two; with `noOPDealloc` it cannot
tell, and decrements the count (210) before it returns (214).
`ByteBits` is the number of bits of a byte: 8 in the code's types, smaller in
one run so that several bytes come into play on small pools. Its operations are
atomic because each takes `memLock` for its whole body. **Allocator** is the
promise: `allocate` gives an item nobody holds, `deallocate` takes back one that is
held, and the number out is known; after a wrong free that was not refused
(`Misuse`) nothing is promised.

**Workbench** has the one variable that the models of the independent classes
share, `bench`: what lies on it is one object or one group of calls, a record
whose field `is` names it and whose other fields are its members or locals. Each
module puts its objects on the empty bench, has one action per operation, and
takes them off again. That is sound because these classes do not touch each
other's state. A loop that could be interrupted, or whose intermediate states a
property is about, is a step per turn (the moving pass of `sort`, the in-place
loops of vectors, `vlog`, the retries of `rkqs`); other functions are operators.

* **SortMaps**, **Partitions**, **NSort** (`nsort/`): maps as chains of layers
  with the constructors' nested arguments; `partition` and `octpartition` of the
  examples, with any outcome `std::partition` may have; `sort` by turns of the
  moving loop, with `Tweak` between counting and moving. A tweaker is handed the
  counts and has to carry them along; `Tweak` is one that does.
* **SmallFloats**: binary floating point with `Precision` bits, rounded to
  nearest even, so that what depends on rounding shows at a size TLC can handle.
  **Binning** and **Distributions** compute in it. Overflow and NaN are left out.
* **VectorAlgebra**, **Geometry**: over integers. `LoopStep` is one element of an
  in-place operator, with the operand a scalar, another object, or a reference
  into the object itself. `LexicographicCompare` is as the code has it
  (section 6); square roots and the series of `fast_pow` are left out, its
  splitting of the exponent is in.
* **BitArrays**: words of `Tsz` bits, `upper_triangle`, `strip`.
* **Synchronized**: a lock, and the singleton. Singleton has no lock of its own
  and `Timing::registry` calls `instance()` without one (`timing/Timing.h`
  146-148), so its functions are cut where another thread may act: the look
  (`Instance`), `createObject` (`Create`), the assignment, the second look, and
  on the other side the look, `deleteObject` (`Finalize`) and `m_ptr = 0`
  (`Forget`). Each new lock comes with the rules its threads keep, any set of
  "lock" (they call the singleton inside the lock only) and "keep" (they never
  call `destroyInstance`). An assertion that fails, where assertions are
  compiled in, or a second deletion may end the program (`Abort`).
* **Ownership**: two stacks with a count of living elements; the factories.
* **Clocks**: Timings in a collection in the order of their addresses, set,
  pushed and popped together, with the exception in the middle; the Timer. Times
  and values are whole numbers, and `Power` is `fast_pow` of them.
* **Logging**: the steps of `vlog` under the mutex, `timestamp`'s own taking of
  it, and `setLogFile` without it. Writing to a closed file loses the line.
* **Generators**: MersenneTwister, Kiss and Crappy with their shifts and masks
  scaled to `Width` bits (Crappy in its own 30), state vectors of `N` words, the
  pointer `next` as an object and a place; deviates by the draws they come from.
* **Integrators**: the fixed steps in integers whose divisions are exact for the
  derivatives used; the driver of `rk5` in multiples of the smallest time that
  still changes the sum, with the errors' verdict a choice.
* **Documents**: `Doc`, `Context`, queries and their exceptions; the fit's
  input. How a call ends also says which results libxml has lost: `eval` returns
  without freeing one that has no node set (`Context.h` 154-155). That is so for
  an expression that names a number (`Numbers`), and for the paths in
  `NoNodeSet` when they find nothing; which those are is libxml's choice, and a
  constant. Packing the constraints has its assertion compiled in or not.
* **Programs**: evaluations by several threads. `MkStemp` is the first free name,
  so that a name that was given back comes again soon; the program may print
  anything, exit with a failure or be killed.

## 3. Runs

| run | asks | bounds |
|---|---|---|
| CacheOneCaller | One caller, serial, on demand and eager, resizing an idle cache. `EmptySlotFound`, `StopsIdleSlaves`, `EagerThreadsLive`, `CleanEnd`, liveness `ProgramEnds` | 3 tasks, 3 slots, 2 rounds, 1 resize |
| CacheNested | Two callers, tasks that scatter tasks, eager slaves, `self_if_none_avail`: refinement with fairness `ImplementsPool`, so no task is lost and nobody waits for ever | 4 tasks (2 of them children), 2 or 3 slots |
| CacheShared | Callers without discipline, failing `pthread_create`, arbitrary fresh memory. `OneHome`, `ExecutedByOne`, `CountsExact`, `NoLostWakeup`, `QuitReachesAll` | 2 callers, 3 tasks, 3 slots, 1 resize |
| CacheBusyResize | Violated: see section 6 | 2 tasks, 2 slots |
| Clients | A `PThreadEval` and a `ThreadedExecutor` share the cache. `QueuedExact`, `NoDanglingTask`, `OneResultEach`, liveness `ClientsServed` | 3 addresses, 3 tasks per object |
| ClientsRegather | Violated: `accept()` that evaluates again | same |
| Vector | All operations in any order. `Packed`, `IteratorsCount`, `ElementsStay`, `ImplementsList` | 5 elements in segments of 2, 2 values, words of 4 bits |
| VectorObjects | Violated: `erase` in the middle | smaller |
| Pool | All operations in any order, both deallocation modes. `FreeListExact`, `BitsExact`, `HeldUntouched`, `ImplementsAllocator`, with `noOPDealloc` until the first wrong free | 6 items, segments of 3, bytes of 5 bits, 2 wrong frees counted |
| PoolBytes | Violated: more than a byte's worth of items | 10 items, bytes of 8 bits |
| Library | Every other class, one invariant each, see below | `Library.cfg` |
| BinningEdge | Violated: a key at the maximum | 9 bins on [0,7], 5 bits |

The invariants of Library:

| invariant | says | bounds |
|---|---|---|
| `SortsByBucket` | at every turn of the moving pass no item is lost and the filled places are right, also after a tweak; the ranges of cells and species take up the items of their buckets | 4 integers of 3 values, 2 particles on both sides of every border, 4 parts |
| `BinsAccount` | every bin, of every child too, holds what was added under its keys since it was cleared | 4 bins on [0,3] and 3 on [0,4], 2 adds |
| `GeometryHolds` | in-place operators on elements of themselves; Lagrange's identity, associativity, transposition; rectangles are the smallest; powers | elements -2, 0, 1; coordinates -1, 0, 2; 2 expansions |
| `ResultsMatch` | what is computed is what the definitions say: the maps' strides never fold two cells into one bucket, whatever the order of dimensions and layers, and partitions end in that order; each cell of a sorted grid holds the particles that lie in it; the fixed steps of the integrators are exact; bits, cells of the triangle and strings are stored apart; a key counts for the bin it lies in, in spite of rounding, a row is printed under a key of its own bin, and MPI's blocks lie where the members are (`BinsPlaced`) | as for the sort and the histograms; words of 3 bits, 7 bits, side 3, 5 characters; elements of 4 and 8 bytes |
| `OneAtATime` | the lock has one holder; singletons are one at a time if every caller holds it, and none is left at the end; without it, if nobody destroys them, no thread is given one that does not exist | 2 threads, which keep any of the rules, 2 objects |
| `EverythingOwned` | stacks and factories | capacity 2, 3 pushes, 3 factories |
| `TimesKept` | Timings, their stacks and prints; Timers | up to 2 elements, times -1 to 4, 2 saved, 3 stops |
| `LinesWhole` | lines are whole, at most one per call, never lost unless `setLogFile` got in the way | 2 loggers and a setter, 2 settings |
| `Repeats` | saved and copied generators go on alike where `next` is in place; ranges; seeds; deviates are returned once | words of 12 bits, 4 words of state, 4 draws |
| `StepsArrive` | the driver of `rk5` arrives, counts its tries, and hands on the step the errors asked for | intervals -4, 0, 5, 2 calls |
| `Inverts` | values come up by their share; arrays divide the distribution equally; one owner per array | 4 tables, 3 densities, 5 bits |
| `DocumentsRead` | documents and contexts are closed; results are lost only where there is no node set, and none by reading a file where each path of `NoNodeSet` finds something; parameters, constraints and data as in the file; the assertion of `packConstraints` holds just when constraints are left or there are no parameters | 8 inputs, 2 data sets, 2 opens, 4 paths without a node set |
| `OwnAnswers` | a task is told the value of its own point, failures told apart, files removed | 2 threads, 2 evaluations |

These bounds are the smallest at which the borders occur: both sides of every
pivot and cell, a word border and a partly used word, a stack that grows, an
interval shorter than a step and one longer, a name given back while another
thread asks for one, a refill of the generator's state between save and
load. 12-bit words keep every shift of the generators nonzero. Library has only
safety properties and no fairness.

Why the bounds are enough to be interesting. Three slots with three or four
tasks let every slave be busy, one wait and one be on its way, which is what the
counting and the single signal depend on; two callers are enough for one to act
between any two steps of the other, and a nested task is a third party to both.
The second round reuses a task's address. Three addresses make reuse between
two clients unavoidable. Five elements in segments of two have two full and one
partial segment; six items in bytes of five bits put exactly one item into the
second byte, which is as far as `deallocate` finds its way (section 6), and
`PoolBytes` goes beyond. Words of 16 and 32 are larger than any linear position
used and small enough to wrap.

Deadlock is checked in the cache runs with disciplined programs (`Stop` is the
only step of an ended program), in Library and in BinningEdge, where every object
can be taken off the bench. It is off in CacheShared, where calls block
or throw for ever by section 6, and where a model stops at its bounds: Clients,
Vector, Pool.

The passing runs also cover the mutants in `PROJECT.json`: each property fails
when the one definition named there is changed in the way of a plausible
mistake.

## 4. Fairness

`FairSpec` assumes weak fairness of each slave, each call and each program step:
a thread that can continue does, which is the scheduler's business.
Acquiring a lock is part of `CallStep`; weak fairness lets a spinlock that is
taken again and again starve a waiter, and `ProgramEnds` holds without assuming
otherwise. `NextRound` and `Resize` are choices of
the program and have no fairness; `Destroy` has, since a program ends. Condition
wake-ups without a signal have none: nothing relies on a spurious wake-up.
In CacheClients the cache's progress is assumed, which is what `ProgramEnds` and
`ImplementsPool` give, and APPSPACK is assumed to call `recv` while points are
outstanding.

## 5. Proofs

The theorems hold for every value of the constants that the named assumptions of
the modules allow: any callers, tasks, slots, addresses, threads, keys, values,
segment sizes and bounds. Where a theorem needs more, its statement says so in
an `ASSUME`, and the list below says what the code has to do with it.

### The thread cache

`ScatterGatherProofs` has what holds under any program, `CacheProgramProofs`, which
builds on it, what needs a rule, and the refinement.

| theorem | proves `Spec => ...` | needs |
|---|---|---|
| `TypeCorrect`, `OneExecutor`, `NoTaskLost` | `[]ProgramTypeOK`, `[]ExecutedByOne`, `[]OneHome` | |
| `NobodyLeftAsleep`, `CountersExact`, `NoTaskWaitsBesideASleeper` | `[]QuitReachesAll`, `[]CountsExact`, `[]NoLostWakeup` | |
| `EagerThreadsAwaited` | missing eager threads have a call that waits for them | |
| `EagerThreadsAlive` | `[]EagerThreadsLive` | `Faults = {}` |
| `OneCallerFindsSlots` | `[]EmptySlotFound` | `OneAdds` |
| `IdleSlavesStopped`, `NothingLeftBehind` | `[]StopsIdleSlaves`, `[]CleanEnd` | `Disciplined` |
| `CacheIsPool` | `Pool!PoolSpec`, the refinement without its fairness | |
| `SubtasksInside` | a task in the cache has a parent that runs | |

`OneHome` counts the places of a task and is not inductive: a step preserves it
only because the argument of a call is held exactly in certain states
(`ArgumentsHeld`), because what is in the cache belongs to the parent that added
it and is not in its `todo` (`Ownership`), because places are disjoint
(`Exclusive`) and because a running task has not yet been shown finished
(`ExecutedByOne`). `SlotsFit` and `GoalFits` keep slots within `max_threads`
over a resize, and `ConstructorAlone` keeps tasks out of the cache until its
constructor has returned. `Bookkeeping` is their conjunction; there is one lemma
per action or group of actions that shares a reason, and `NextBooks` puts them
together. `BooksGiveHome` derives `OneHome`.

`ThreadsKept` adds the threads. Its three properties need each other and two
facts more: which call holds which lock where (`LocksHeld`), and that a slave
leaves its loop only when told to (`QuitOnly`). `NoLostWakeup` is a count of two
changing sets; the lemmas on `Number(f, P)`, how many slots are in states `P`,
carry the arithmetic, from `FiniteSetTheorems`. These results hold for programs
without discipline, failing `pthread_create` and uninitialised memory: the
defects of section 6 block or throw, they do not duplicate a task or lose count.

What a program may rely on only if it keeps a rule is proved under that rule.
`Faults = {}` is a machine on which threads start and memory is fresh. `OneAdds`
(one application thread adds every task, and threads start) is sharp: with two
callers the throw of section 6 happens. `Disciplined` is what the examples do:
one thread resizes the cache, between its rounds. Then the inductive invariant is
`Quiet`, which needs an argument about nested tasks: no set of tasks in the cache
has all its parents in itself (`NoRing`), so that whatever is in the cache is in
it for some application thread, and a cache that no application thread has
tasks in is empty. `NoRing` is a statement about all subsets since the
well-founded order of the nesting is not a constant of the model.

`CacheIsPool` is a step simulation. `Books` is enough for it: each step of the
cache is an `Add`, `Start`, `Finish` or `CollectAll` of the pool or leaves every
task's status alone. Of `ImplementsPool` TLC alone has the fairness.

### The clients

`CacheClientsProofs`: `ClientTypes` (`[]TypeOK`), `NeverDangling`
(`[]NoDanglingTask`), `ResultsCounted` (`[]OneResultEach`), for any objects and
addresses and whatever `new` returns, and `NothingForgotten` (`[]QueuedExact`)
under `~QuickReuse`. `ClientsKept` is inductive: what a client waits for is its
own and in the cache, *except* for addresses that the `joinAll` in progress has
collected, which may by now be anybody's; that exception is the gap through which
ClientsRegather escapes, and `JoinedMeansDone` shows that there is no other:
without quick reuse, `JoinsAll` holds.

### Containers

`SegmentProofs` has the lemmas about indices, iterators and segments that the two
next modules share: division with remainder for `FromInteger`, wrap-around of the
unsigned words, and what `push_back`, `Get` and `Put` do to a `PackedVector`.

`SegmentedVectorProofs`: `VectorTypes`, `StaysPacked`, `IteratorsExact`,
`NothingMoves` and `VectorIsList` (`ImplementsList`, the whole refinement; there
is no fairness in it). The invariant `VectorInv` says that all segments before
`free` are full, all behind it empty, and elements proper values. `eraseIf`,
`compact` and `resize` are recursive functions; what they return is shown from
properties every turn preserves, by induction in the form of a smallest
counterexample (`LeastNumber`, from `NatLessThanWellFounded`), since the
induction theorems proper take an operator as a parameter.

`PoolAllocatorProofs`: `PoolTypes`, `ListFollowsBits` (`[]FreeListExact`),
`BitsFollowUsers` (`[]BitsExact`), `UsersUndisturbed` (`HeldUntouched`) and
`PoolIsAllocator` (`ImplementsAllocator`). Double and foreign frees are steps of
the model in both modes, so the refinement says that where `deallocate` does its
work no such free ever makes the count wrong or a reset early; with
`noOPDealloc` the last three hold until one is counted, and section 6 says what
comes then. The invariant `PoolKept` states the free list without recursion: the
entry of an unused item is the distance to the next unused one (`IsAfter`). All
need `OneByte`: where `deallocate` does anything, the pool has at most one item
more than a byte has bits. That is not a convenience. PoolBytes breaks
`HeldUntouched` with two items more, by the defect of section 6; the theorems
say that up to there the code is right, and with `noOPDealloc` for pools of
every size.

### Classes of the library

The two modules about these classes have nine specifications: `LibraryProofs`
has `SyncSpec`, `OwnershipSpec`, `LogSpec` and `ProgramsSpec`, `AlgorithmProofs`
has `SortSpec`, `StepSpec`, `ClocksSpec`, `DocumentsSpec` and `BinningSpec`.
Each has the actions of its class, and besides them `Elsewhere`: any step at all
that begins and ends with something of another class on the bench. `SortSpec`
also has `AnySort`, a sort of any items by any map into any number of buckets,
since the sort must not depend on the maps that the examples use; that their
maps give each particle a bucket is `MapsAssumption`, which TLC evaluates.
`ClocksSpec` likewise has `AnyTimings`, a collection of any Timings in any
order, and `BinningSpec` has `AnyAdd`, adding any key that has a bin with any
value, however often. Every behaviour of MCLibrary's `Spec` satisfies all nine,
so they say more than the run asks; MCLibrary's `Spec` itself cannot be named in
a theorem because that module reaches `Bitwise`.

| theorem | proves | inductive invariant |
|---|---|---|
| `OneThreadInside` | `SyncSpec => []OneAtATime` | `SyncKept`: the holder is the one thread inside, and under the rule "lock" the one in the singleton; there the object is `m_ptr` except between the halves of its creation and its deletion; under "keep" objects only come, and whatever a thread has or is about to get is one of them |
| `OwnedOnce` | `OwnershipSpec => []EverythingOwned` | `OwnedKept`: buffers hold what was pushed within their capacity, living elements are counted per buffer; keys and factories one to one |
| `LoggedWhole` | `LogSpec => []LinesWhole` | `LogKept`: the static buffer is the mutex holder's while it has the mutex; whose lines are out; where a call is headed unless a `setLogFile` came between |
| `AnsweredOwn` | `ProgramsSpec => []OwnAnswers` | `ProgramsKept`: the files there are belong each to one evaluation, and hold what it has done so far |
| `SortCorrect` | `SortSpec => []SortsByBucket` | `SortKept`: of every kind there are as many items as were given; `bin` holds the numbers of items per bucket and then the buckets' ends; each cursor is in its bucket with only items of that bucket behind it, and at the end of every bucket already left |
| `StepsCorrect` | `StepSpec => []StepsArrive` | `DriverKept`: `x` is at the time reached, which lies between `ti` and `ti + dt`; a trial leads no further; the next step points in the direction of `dt` and is no longer than the one the errors asked for, and what is left after a cut is no more than that |
| `TimesCorrect` | `ClocksSpec => []TimesKept` | `TimingsKept`: a Timing that was set shows the value of its time; between the rows of a print every stack is the one before it with the time pushed on top; behind one that threw, nothing was set. `TimerKept`: the clock is a reading, and `dt` is the last, the sum or the mean of what was measured |
| `DocumentsCorrect` | `DocumentsSpec => []DocumentsRead` | `DocKept`: the documents and contexts that libxml holds are those that the Doc has open, and none behind its destructor; results lost are of expressions without a node set |
| `BinsCorrect` | `BinningSpec => []BinsAccount` | `HistogramKept`: the bins of a histogram are numbers, or flat histograms all of one kind, and in each is what the log says of it |

The sort's hard part is that an item swapped through another bucket's cursor finds
a free place there: if that bucket were full, it would hold as many items as were
counted for it, and the item in hand would be one more than were given
(`RoomLeft`). The proof counts items by kind with the cardinality of sets of
positions; the bags in the property follow from that.

The Timings' value is compared with `Proper`, which looks for the element and
computes the value in another way than `set_time` and `getValue`. That both find
the same element follows from the order of the elements' ends, for any number of
elements (`EndsAscend`), and this from the recursion of the running sum
(`SumToAdds`): again by the smallest counterexample (`LeastOf`).

`DocumentsRead` speaks of the file and not of the reading: the lemmas go through the
queries one by one, from what an expression finds (`FindIs`) and what survives of
several parts in order (`InOrderIs`) to the whole input (`ReadInputIs`), and say for
each what it means that it did not throw. The only place where an exception turns
into a value is the query with a default, and there all constraints go at once
(`ConstraintsAre`). What is lost is followed through the same queries in two
families of lemmas: nothing but expressions without a node set is
(`EquationLoses`, `InputLoses`, `DataLoses`), and nothing where every path finds
something (`ReadingLoses`). That a map keeps the first value of a key is shown of the
recursive function `MapOf`, by the smallest counterexample again (`MapOfIs`).

`BinsAccount` says that each bin shows a sum and a number of entries of the log; the
bin that an entry is for is asked of the histogram as it is, which is right because
no operation touches its range (`SameBins`), and that a rounded product decides it
does not matter here. One more entry adds its value to the sum over a set of entries
(`TotalMore`), which is proved by taking the sum for the number of elements of a set
(`SumOfFinite`). What is added to an Extender reaches one bin of one child, and a sum
of histograms, which adds all bins of all children, is the same as adding the keys of
the other one (`SumAgain`, `SumBinsIs`).

`LevelAssumption` (levels are integers) is the type in the code;
`CallersAssumption` (threads are finitely many) makes `mkstemp` find a name;
`StepAssumption` says that a program starts with a positive `localDt` (with 0
the driver never advances, see section 6) and that the tolerated rest is a
positive share; `ClocksAssumption` says that the run's elements are `PowerLaws`,
whole and with an exponent other than 0, and that a second has microseconds;
`DocumentsAssumption` says that an expression finds a sequence of nodes, from
the root of a file down to the factors of an equation or the points of the data;
`ShapesAssumption` says that a histogram has bins and a maximum that is not
negative.

Each inductive invariant was checked by TLC as an invariant of the run's instance
before it was proved.

### Only model-checked

* Liveness (`ProgramEnds`, `ClientsServed`) and the fairness in `ImplementsPool`:
  temporal reasoning about `ENABLED` is out of the prover's reach.
* `Repeats` and the bits of `ResultsMatch`: their modules use `Bitwise`.
* The rest of `ResultsMatch` and `Inverts`, the formulas of
  `GeometryHolds`: what recursive functions over sequences and powers (strides,
  rounding to `Precision` bits, sums of shares) compute for every input needs
  induction over data.
* The rectangles of `GeometryHolds` share its formula with the above, and what the
  arrays of `Inverts` own is part of a property about rounded values.
* The properties that runs violate.

## 6. What the runs found

* **CacheBusyResize**: `set_max_threads` joins slaves while it holds the lock
  they need.
* **ClientsRegather**: `joinAll` can return early when `accept()` evaluates
  again and an address comes back.
* **VectorObjects**: `erase` assigns to a destroyed object and leaks the last.
* **PoolBytes**: `deallocate` miscounts bytes as items and writes into an item
  that a user holds.

* **BinningEdge**: when `nbins/(max - min)` is rounded up, the factor
  `1 - epsilon` in `scale` does not bring a key at the maximum below the last
  border, and `getBin` indexes one past the bins (9 bins on [0,7], 17 on [0,3],
  18 on [0,7]; the same numbers give the same index in double).

Seen while modelling or reading, without a run of their own:

* **Thread cache.** Two callers on demand can make `addTask` throw at 345,
  because `total_threads` lags behind the occupied slots (the throw leaves three
  locks taken); `EmptySlotFound` is checked with one caller, and CacheShared
  contains the throws. Eager `set_max_threads` passes uninitialised holders to
  `start_thread` (444); CacheShared runs with arbitrary memory. `get_live_threads`
  is documented as less than `get_max_threads()` (484-486) and can equal it;
  `log_finer` reads the queue's size without its mutex (322); tasks queued while
  the cache shrinks to one thread stay there; nested tasks without
  `self_if_none_avail` can occupy every slave.
* **Containers.** `segmented_vector::resize` never shrinks although documented to
  leave n elements (250); `back()` and `pop_back()` use an index that is never
  valid (575-586); `pool_allocator::reset` frees memory whatever its argument
  (166-199). With `noOPDealloc`, `deallocate` decrements `number_allocated` (210),
  documented as "A counter to tell how many items are currently allocated" (121),
  whatever it is given, and corrects it nowhere: after an item is freed twice while
  another is held, the count is 0, `reset`, "only valid if no objects are
  allocated" (175), succeeds, and the held item is handed out again. Pool contains
  these frees; its properties speak of the time before the first one
  (`misfrees = 0`). `Stack::reserve` leaves the old elements undestroyed, and
  `push_back` of an element of the stack itself reads freed memory when it grows.
* **Singleton.** It is to "Get the single instance of the class" (59), and
  `test/TestSingleton.cpp` 48 asks for `Test::instance() == Test::instance()`,
  but nothing in it is locked: two threads that find no object (63) both create
  one (120), or the second fails the assertion (119); the first of two objects
  is never deleted and its caller's pointer differs. A thread between 63 and 66
  gets NULL, and one after `delete` (126) and before `m_ptr = 0` (127) a deleted
  object, if another calls `destroyInstance`. `Timing::registry`
  (`timing/Timing.h` 146-148) calls it without a lock. Library contains all of
  this where threads do not keep the rule "lock"; `OneAtATime` promises one
  object only where they do.
* **NSort.** `w_species` documents the opposite index order (38, 66).
* **Binning.** MPI's blocks take `hist` for ints when they compute the padding
  (`MultiValued.h` 298, 328, 358), and multiply the length of a vector twice for
  elements of 4 bytes (`SingleValued.h` 314, 356); `BlocksFit` states the sizes
  for which the blocks are right. `mpi_init.h` is not in the repository.
* **Vectors and geometry.** `SquareMatrix::transpose` exchanges every pair twice
  and so changes nothing; `compDiv` of a matrix calls `compMult`; scalar + Vector
  indexes the scalar and cannot be instantiated (`Vector.h` 580-586); `project`
  divides by the length and not by its square. `lexicographicCompare` is
  documented to compare as dictionary words (217-218), but its last line (231)
  forgets z: it orders (x,y,z) by x when the y are equal and the z in the wrong
  order. `expand`'s documentation speaks of an uninitialised rectangle.
* **Random numbers.** `MersenneTwister::load`, its constructor from a state and
  its copies do not set `next` (146, 264), so what follows is read from wherever
  it pointed; `Repeats` asks for equal numbers only where `next` is in place.
  Crappy's product `(state_length-1)*chosen` wraps. Kiss seeded with
  0xFFFFFFFF gets y = 0, whose shift register stays 0.
* **Timing.** `Timing::set_time` changes the time before it throws (187-205), and
  an exception in the middle of a collection leaves the others behind.
* **Logger.** With `USE_PTHREAD` and no mutex set, `vlog` locks NULL. `setLogFile`
  closes the old file before it sets the new one and the type (504-530), without the
  mutex: a message logged meanwhile may be written to a closed file and lost, and
  `LinesWhole` asks only of messages that no setting overlaps that they are out.
* **Distributions.** The table constructor of `Inverter` passes the member `q`,
  which is NULL, instead of `_q` (99); self-assignment reads the array it has
  freed (82-85); a DiscreteInverter without a positive probability has an empty
  map and dereferences its end.
* **Integrators.** A `localDt` of 0 never advances; an exception for an underflow
  of the step leaves the cut step as the next one.
* **XML and fit.** Exception specifications end the program on errors other than
  those they list; `Doc::query` with a default is documented as "does NOT throw
  any exceptions" (`Doc.h` 231-232) but throws when no document is open or a
  value cannot be parsed; `eval` never frees a result that has no node set
  (`Context.h` 152-155), so a query of a number, and of a path where libxml
  answers that way, leaks it, which for optional entries of the input is every
  file without them (the record `leaked` of Documents); `packConstraints`
  asserts that the matrix has a column for each parameter (`Input.hpp` 133-135),
  which fails for an input with parameters and without constraints, although
  these are read with an empty default (83-86); one factor without a name drops
  all constraints, because the default is taken for the whole query; contexts
  dangle after `close`. A factor of an unknown parameter is ignored. A program
  that is killed counts as successful, since `std::system(...) >> 8` shifts the
  signal out.

## 7. Plan

1. Done: thread cache, its abstract pool, its clients, the container, the pool;
   every independent class with operations of its own, in one run.
2. Done: every safety property of the cache, its clients, the container and the
   pool that a run checks, both container refinements and the step simulation of
   `ImplementsPool` are theorems; so are the lock and singleton, the logger, the
   owners and the external programs.
3. Done: the moving pass of `sort` for any items and map, the adaptive driver of
   `rk5`, Timings and Timers, the XML documents with the input and the data that
   are read from them, and what histograms hold.
4. Left: the ownership of arrays in `Inverts` and the rectangles of `GeometryHolds`,
   as properties of their own.

Not modelled, and why:

* `back`, `pop_back` and `swap` of `segmented_vector` (the first two trip an
  assertion at once);
* formulas in floating point without state: the Gaussian, Maxwellian and uniform
  density functors, PTRS for large Poissonian means, square roots and norms;
* `PythonExpr` (the Python interpreter), saving and extending XML, libxml, the
  parsing of units, the main program of `appsPack` (the APPSPACK library);
* stream operators and the wording of messages, except `bits` whose stream is
  read back;
* `compat`, `except.h`, `ref_of.h`, `XSTR.h`, `nothing.hpp`, `Forward.hpp`:
  platform shims and types;
* a logger without threads or without a mutex, which has only one order of steps.

The number of runs is kept to what a developer waits for (the longest takes
about a minute or two); defects that need a run of their own beyond those above
are listed in section 6 instead.
