--------------------------- MODULE ScatterGather ----------------------------
(***************************************************************************)
(* Programs that scatter tasks over the thread cache and gather them, as   *)
(* examples/threadcache does: every activity adds the tasks it is the      *)
(* Parent of, in any order, calls waitForTasks on its set of tasks as      *)
(* often as it likes, and goes on when all of them are collected.  A task  *)
(* whose exec() scatters tasks of its own is the parent of those.  A       *)
(* collected task is deleted, and its address may come back in the next    *)
(* round.                                                                  *)
(***************************************************************************)
EXTENDS PThreadCache

CONSTANTS
  Main,          \* the thread that constructs and destroys the cache
  Parent,        \* the activity that adds each task
  OnDemand,      \* values of ONDEMAND_PTHREADS
  NumPthreads,   \* values of NUM_PTHREADS
  Resizes,       \* arguments of set_max_threads
  SelfIfNone,    \* arguments self_if_none_avail
  MaxRounds,     \* bound on the scatter rounds of a caller
  MaxResizes,    \* bound on the calls of set_max_threads
  Disciplined    \* whether set_max_threads is only called on an idle cache

ASSUME ProgramAssumption ==
  /\ Main \in Callers
  /\ Parent \in [Tasks -> Activities] /\ \A t \in Tasks : Parent[t] # t
  /\ OnDemand \subseteq BOOLEAN /\ SelfIfNone \subseteq BOOLEAN
  /\ NumPthreads \subseteq Slots /\ Resizes \subseteq Slots
  /\ MaxRounds \in Nat /\ MaxResizes \in Nat
  /\ Disciplined \in BOOLEAN
  /\ Disciplined => Callers = {Main} \/ MaxResizes = 0

VARIABLES
  phase,    \* of the program: "construct", "run", "destroy"
  todo,     \* tasks an activity has yet to add in this round
  round,    \* scatter rounds a caller has begun
  resizes   \* calls of set_max_threads so far

vars == <<cacheVars, phase, todo, round, resizes>>

Children(a) == {t \in Tasks : Parent[t] = a}

ProgramTypeOK ==
  /\ TypeOK
  /\ phase \in {"construct", "run", "destroy"}
  /\ todo \in [Activities -> SUBSET Tasks]
  /\ round \in [Callers -> 0 .. MaxRounds]
  /\ resizes \in 0 .. MaxResizes

Init ==
  /\ \E onDemand \in OnDemand, mx \in NumPthreads : CacheInit(Main, onDemand, mx)
  /\ phase = "construct"
  /\ todo = [a \in Activities |-> Children(a)]
  /\ round = [c \in Callers |-> 0]
  /\ resizes = 0

(* The constructor has returned; main starts the other application threads. *)
Constructed ==
  /\ phase = "construct" /\ pc[Main] = "app"
  /\ phase' = "run"
  /\ pc' = [a \in Activities |-> IF a \in Callers THEN "app" ELSE pc[a]]
  /\ UNCHANGED <<settings, counters, queues, locks, threads, arg, goal, owned, todo, round,
                 resizes>>

(* Past the call of the destructor only the tasks still use the cache. *)
MayCall(a) == a \in Callers => phase = "run"

Scatter(a) ==
  /\ MayCall(a)
  /\ \E t \in todo[a] :
       /\ CallAddTask(a, t)
       /\ todo' = [todo EXCEPT ![a] = @ \ {t}]
  /\ UNCHANGED <<phase, round, resizes>>

Finished(a) == pc[a] = "app" /\ todo[a] = {} /\ owned[a] = {}

(* exec() of a task returns when the tasks it scattered are collected. *)
Return(t) ==
  /\ Finished(t)
  /\ pc' = [pc EXCEPT ![t] = "returned"]
  /\ todo' = [todo EXCEPT ![t] = Children(t)]
  /\ UNCHANGED <<settings, counters, queues, locks, threads, arg, goal, owned, phase, round,
                 resizes>>

(* A caller scatters once more. *)
NextRound(c) ==
  /\ phase = "run" /\ Finished(c) /\ round[c] < MaxRounds
  /\ round' = [round EXCEPT ![c] = @ + 1]
  /\ todo' = [todo EXCEPT ![c] = Children(c)]
  /\ UNCHANGED <<cacheVars, phase, resizes>>

(* No task is in the cache and no other thread is using it. *)
Unused(c) ==
  /\ \A a \in Activities : owned[a] = {}
  /\ \A d \in Callers \ {c} : Finished(d)

Resize(c) ==
  /\ phase = "run" /\ resizes < MaxResizes
  /\ Disciplined => Unused(c)
  /\ \E mx \in Resizes : CallSetMaxThreads(c, mx)
  /\ resizes' = resizes + 1
  /\ UNCHANGED <<phase, todo, round>>

(* The program ends: ~PThreadCache calls set_max_threads(0). *)
Destroy ==
  /\ phase = "run"
  /\ \A d \in Callers \ {Main} : Finished(d)
  /\ Disciplined => Finished(Main)
  /\ CallSetMaxThreads(Main, 0)
  /\ phase' = "destroy"
  /\ UNCHANGED <<todo, round, resizes>>

Ended == phase = "destroy" /\ pc[Main] = "app"

Stop == Ended /\ UNCHANGED vars

-----------------------------------------------------------------------------
SameProgram == UNCHANGED <<phase, todo, round, resizes>>

SlaveStep(s) ==
  \/ SlaveStart(s) /\ SameProgram
  \/ SlaveQuit(s) /\ SameProgram
  \/ SlaveSleep(s) /\ SameProgram
  \/ SlavePop(s) /\ SameProgram
  \/ SlaveExec(s) /\ SameProgram
  \/ SlaveDone(s) /\ SameProgram
  \/ SlaveSignal(s) /\ SameProgram
  \/ SlaveExit(s) /\ SameProgram

AddStep(a) ==
  \/ AddLockTotal(a) /\ SameProgram
  \/ \E self \in SelfIfNone : AddSerial(a, self) /\ SameProgram
  \/ \E self \in SelfIfNone : AddQueued(a, self) /\ SameProgram
  \/ \E self \in SelfIfNone : AddStarting(a, self) /\ SameProgram
  \/ \E self \in SelfIfNone : AddThrows(a, self) /\ SameProgram
  \/ ThreadStarted(a) /\ SameProgram
  \/ SerialDone(a) /\ SameProgram

GatherStep(a) ==
  \/ MayCall(a) /\ Collect(a) /\ SameProgram
  \/ MayCall(a) /\ GatherSleep(a) /\ SameProgram

SetMaxStep(a) ==
  \/ SetMaxSame(a) /\ SameProgram
  \/ SetMaxStop(a) /\ SameProgram
  \/ SetMaxInstalls(a) /\ SameProgram
  \/ SetMaxFails(a) /\ SameProgram

CallStep(a) == AddStep(a) \/ GatherStep(a) \/ SetMaxStep(a)

Wake ==
  \/ \E s \in Slots : SlaveWake(s) /\ SameProgram
  \/ \E a \in Activities : GatherWake(a) /\ SameProgram

ProgramStep(a) == Scatter(a) \/ (a \in Tasks /\ Return(a))

Next ==
  \/ \E s \in Slots : SlaveStep(s)
  \/ \E a \in Activities : CallStep(a) \/ ProgramStep(a)
  \/ \E c \in Callers : NextRound(c) \/ Resize(c)
  \/ Constructed \/ Destroy \/ Wake \/ Stop

(* Every thread that can take a step eventually takes one.  A program may ask for a
   round or a resize, or not, but main ends it at last. *)
Fairness ==
  /\ \A s \in Slots : WF_vars(SlaveStep(s))
  /\ \A a \in Activities : WF_vars(CallStep(a) \/ ProgramStep(a))
  /\ WF_vars(Constructed) /\ WF_vars(Destroy)

Spec == Init /\ [][Next]_vars
FairSpec == Spec /\ Fairness

-----------------------------------------------------------------------------
(* Where a task is: in a call of addTask, in the queue, with a slave, finished. *)
Homes(t) ==
  {<<"call", a>> : a \in {b \in Activities : arg[b] = t}}
    \cup {<<"queue", i>> : i \in {j \in DOMAIN taskQueue : taskQueue[j] = t}}
    \cup {<<"slave", s>> : s \in {r \in Slots : job[r] = t}}
    \cup {<<"finished", t>> : u \in finishedTasks \cap {t}}

(* A task its parent has added and not collected is in exactly one place, and the cache
   keeps no trace of any other task: it is never executed twice, never lost, and may be
   deleted once collected.  getTask, addTask, signalTaskFinished, waitForTasks. *)
OneHome ==
  \A t \in Tasks :
    IF t \in owned[Parent[t]] THEN \E h \in Homes(t) : Homes(t) = {h} ELSE Homes(t) = {}

(* exec() of a task is begun by one executor, a slave or the serial branch of addTask, and
   until that executor shows the task finished no other one touches it; a slave shows it
   finished only when exec() has returned. *)
ExecutedByOne ==
  /\ \A t \in Tasks :
       pc[t] # "idle" <=>
         \/ \E s \in Slots : job[s] = t /\ slave[s] \in {"exec", "signal"}
         \/ \E a \in Activities : arg[a] = t /\ pc[a] = "serial"
  /\ \A s \in Slots : slave[s] = "signal" => pc[job[s]] = "returned"

(* Threads live in the slots that max_threads allows, and in none when it is 1. *)
SlotsFit == \A s \in Slots : slave[s] # "none" => s <= maxThreads /\ maxThreads > 1

(* total_threads and active_threads count the threads they are meant to count, however
   the slaves' increments and decrements interleave with resizing; with the slots it
   follows that 0 <= active_threads <= total_threads <= max_threads. *)
CountsExact ==
  /\ totalThreads = Cardinality(Counted)
  /\ activeThreads = Cardinality(Active)
  /\ SlotsFit

(* The single pthread_cond_signal of addTask suffices: while some slave sleeps, as many
   slaves are on their way to the queue as there are tasks in it. *)
NoLostWakeup ==
  (\E s \in Slots : slave[s] = "sleeping") =>
    Len(taskQueue) <= Cardinality({s \in Slots : slave[s] = "get"})

(* set_max_threads stops slaves only under max_threads_spinlock, and signalSlavesQuit
   leaves no slave asleep to be joined for ever. *)
QuitReachesAll ==
  /\ slavesQuit <=> \E a \in Activities : pc[a] = "setMaxJoin" /\ maxLock = a
  /\ slavesQuit => \A s \in Slots : slave[s] # "sleeping"

(* When set_max_threads is only called on an idle cache, no slave has a task and none is
   queued while it joins: the slaves it waits for need no lock that it holds. *)
StopsIdleSlaves ==
  slavesQuit => taskQueue = <<>> /\ \A s \in Slots : job[s] = NoTask

(* addTask finds an empty thread slot whenever it decides to start a thread. *)
EmptySlotFound == \A a \in Activities : pc[a] # "threw"

(* Threads created eagerly are live, all of them, whenever no call of the constructor or
   of set_max_threads is under way (waitForStartedThread). *)
EagerThreadsLive ==
  (~createOnDemand /\ phase = "run" /\ maxThreads > 1
     /\ \A a \in Activities : pc[a] \notin {"setMax", "setMaxJoin", "setMaxStarted"})
    => totalThreads = maxThreads

(* The destructor leaves no thread alive and the cache forgets nothing. *)
CleanEnd ==
  Ended => /\ totalThreads = 0 /\ activeThreads = 0
           /\ \A s \in Slots : slave[s] = "none"
           /\ taskQueue = <<>> /\ finishedTasks = {}

(* No call blocks for ever: the program always gets through its rounds and resizes and
   out of the destructor. *)
ProgramEnds == <>Ended

(* A started thread is joined: every call of set_max_threads returns. *)
ResizeReturns ==
  \A a \in Activities : pc[a] \in {"setMax", "setMaxJoin"} ~> pc[a] = "app"

(* The cache implements the abstract pool. *)
Status(t) ==
  IF t \in finishedTasks THEN "finished"
  ELSE IF pc[t] # "idle" THEN "running"
  ELSE IF t \in owned[Parent[t]] THEN "pending"
  ELSE "out"

Pool == INSTANCE TaskPool WITH status <- [t \in Tasks |-> Status(t)]

ImplementsPool == Pool!PoolFairSpec

-----------------------------------------------------------------------------
(* The parts of the inductive invariant behind OneHome and ExecutedByOne. *)

(* The task of a call, and of a slave, is there exactly between two of its steps. *)
ArgumentsHeld ==
  /\ \A a \in Activities :
       arg[a] # NoTask <=> pc[a] \in {"addTotal", "addMax", "serial", "threw"}
  /\ \A s \in Slots : job[s] # NoTask <=> slave[s] \in {"popped", "exec", "signal"}

(* What set_max_threads is about to install fits the bound. *)
GoalFits ==
  \A a \in Activities : pc[a] \in {"setMax", "setMaxJoin"} => goal[a] \in 0 .. MaxSlots

(* An activity owns tasks of its own that it has added in this round; whatever is in the
   cache is owned. *)
Ownership ==
  /\ \A a \in Activities :
       owned[a] \subseteq Children(a) /\ todo[a] \subseteq Children(a) \ owned[a]
  /\ \A a \in Activities : arg[a] # NoTask => arg[a] \in owned[a]
  /\ \A i \in DOMAIN taskQueue : taskQueue[i] \in owned[Parent[taskQueue[i]]]
  /\ \A s \in Slots : job[s] # NoTask => job[s] \in owned[Parent[job[s]]]
  /\ \A t \in finishedTasks : t \in owned[Parent[t]]

(* No task is in two places. *)
Exclusive ==
  /\ \A i, j \in DOMAIN taskQueue : taskQueue[i] = taskQueue[j] => i = j
  /\ \A i \in DOMAIN taskQueue :
       /\ \A a \in Activities : arg[a] # taskQueue[i]
       /\ \A s \in Slots : job[s] # taskQueue[i]
       /\ taskQueue[i] \notin finishedTasks
  /\ \A s, r \in Slots : job[s] # NoTask /\ job[s] = job[r] => s = r
  /\ \A s \in Slots :
       /\ \A a \in Activities : arg[a] # NoTask => arg[a] # job[s]
       /\ job[s] \notin finishedTasks
  /\ \A a \in Activities : arg[a] \notin finishedTasks

(* An owned task is somewhere. *)
NothingLost ==
  \A t \in Tasks : t \in owned[Parent[t]] =>
    \/ \E a \in Activities : arg[a] = t
    \/ \E i \in DOMAIN taskQueue : taskQueue[i] = t
    \/ \E s \in Slots : job[s] = t
    \/ t \in finishedTasks

(* Nothing but the constructor runs before main goes on. *)
ConstructorAlone ==
  phase = "construct" =>
    /\ pc[Main] \in {"setMax", "setMaxJoin", "setMaxStarted", "setMaxThrew", "wild", "app"}
    /\ \A a \in Activities \ {Main} : pc[a] = "idle"
    /\ \A a \in Activities : owned[a] = {}

Bookkeeping ==
  /\ ArgumentsHeld /\ GoalFits /\ Ownership /\ Exclusive /\ NothingLost
  /\ ConstructorAlone /\ SlotsFit /\ ExecutedByOne

=============================================================================
