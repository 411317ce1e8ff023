---------------------------- MODULE PThreadCache ----------------------------
(***************************************************************************)
(* The POSIX thread cache of xylose (src/xylose/PThreadCache.h): a queue   *)
(* of tasks, a set of finished tasks, and slave threads that are created   *)
(* all at once or on demand and that live until set_max_threads joins      *)
(* them.                                                                   *)
(*                                                                         *)
(* An activity is a piece of code that may call the cache: an application  *)
(* thread, or the exec() of a task (nested scattering).  A task is run by  *)
(* a slave, or by the caller itself when addTask decides to be serial.     *)
(*                                                                         *)
(* Grain: a critical section that cannot block inside is one step; a lock  *)
(* is a variable only while some thread can be stuck holding it, i.e.      *)
(* total_threads_spinlock while addTask waits for max_threads_spinlock,    *)
(* max_threads_spinlock while set_max_threads joins the slaves, and all    *)
(* three after addTask has thrown.  task_finished_mutex is never held      *)
(* across a step.                                                          *)
(***************************************************************************)
EXTENDS Integers, Sequences, FiniteSets

CONSTANTS
  Callers,       \* application threads that use the cache
  Tasks,         \* PThreadTask pointers
  MaxSlots,      \* bound on the argument of set_max_threads
  Faults,        \* what may go wrong when a thread is started, see Failures
  NoTask, Nobody \* NULL pointer, free lock

Activities == Callers \cup Tasks
Slots == 1 .. MaxSlots        \* thread id holders threads[0 .. max_threads-1]

(* pthread_create fails; operator new returns memory that has been used before. *)
Failures == {"create", "heap"}

ASSUME CacheAssumption ==
  /\ Callers \cap Tasks = {}
  /\ NoTask \notin Activities /\ Nobody \notin Activities
  /\ MaxSlots \in Nat \ {0}
  /\ Faults \subseteq Failures

VARIABLES
  createOnDemand,  \* create_threads_on_demand, const after construction
  maxThreads,      \* max_threads
  totalThreads,    \* total_threads
  activeThreads,   \* active_threads
  slavesQuit,
  taskQueue,       \* task_queue, first in first out
  finishedTasks,   \* finished_tasks
  totalLock,       \* owner of total_threads_spinlock
  maxLock,         \* owner of max_threads_spinlock
  queueLock,       \* owner of task_queue_mutex
  slave,           \* where the thread of each slot is in taskSlave
  job,             \* the task pointer of each slave
  pc,              \* where each activity is in its call
  arg,             \* the task of its addTask call
  goal,            \* new_total in addTask, mx in set_max_threads
  owned            \* callers_tasks: added by the activity, not yet collected

settings == <<createOnDemand, maxThreads, slavesQuit>>
counters == <<totalThreads, activeThreads>>
queues == <<taskQueue, finishedTasks>>
locks == <<totalLock, maxLock, queueLock>>
threads == <<slave, job>>
calls == <<pc, arg, goal, owned>>
cacheVars == <<settings, counters, queues, locks, threads, calls>>

SlaveStates == {"none", "starting", "get", "sleeping", "popped", "exec", "signal",
                "quit", "exited"}
CallStates == {"idle", "app", "addTotal", "addMax", "addStarted", "serial", "gather",
               "gatherSleeping", "setMax", "setMaxJoin", "setMaxStarted", "returned",
               "threw", "setMaxThrew", "wild"}

(* Slaves that incrementTotalThreads and incrementActiveThreads have counted. *)
Counted == {s \in Slots : slave[s] \in {"get", "sleeping", "popped", "exec", "signal", "quit"}}
Active == {s \in Slots : slave[s] = "exec"}

TypeOK ==
  /\ createOnDemand \in BOOLEAN
  /\ maxThreads \in 0 .. MaxSlots
  /\ totalThreads \in Int /\ activeThreads \in Int
  /\ slavesQuit \in BOOLEAN
  /\ taskQueue \in Seq(Tasks)
  /\ finishedTasks \in SUBSET Tasks
  /\ totalLock \in Activities \cup {Nobody}
  /\ maxLock \in Activities \cup {Nobody}
  /\ queueLock \in Activities \cup {Nobody}
  /\ slave \in [Slots -> SlaveStates]
  /\ job \in [Slots -> Tasks \cup {NoTask}]
  /\ pc \in [Activities -> CallStates]
  /\ arg \in [Activities -> Tasks \cup {NoTask}]
  /\ goal \in [Activities -> Int]
  /\ owned \in [Activities -> SUBSET Tasks]

(* The constructor on thread c: it ends in set_max_threads(mx), mx being NUM_PTHREADS
   or 1.  Every other activity is idle. *)
CacheInit(c, onDemand, mx) ==
  /\ createOnDemand = onDemand
  /\ maxThreads = 0 /\ totalThreads = 0 /\ activeThreads = 0
  /\ slavesQuit = FALSE
  /\ taskQueue = <<>> /\ finishedTasks = {}
  /\ totalLock = Nobody /\ maxLock = Nobody /\ queueLock = Nobody
  /\ slave = [s \in Slots |-> "none"]
  /\ job = [s \in Slots |-> NoTask]
  /\ pc = [a \in Activities |-> IF a = c THEN "setMax" ELSE "idle"]
  /\ arg = [a \in Activities |-> NoTask]
  /\ goal = [a \in Activities |-> IF a = c THEN mx ELSE 0]
  /\ owned = [a \in Activities |-> {}]

-----------------------------------------------------------------------------
(* Condition variables *)

(* pthread_cond_signal(&task_ready_cond): one of the sleeping slaves wakes, if any. *)
SignalReady(live) ==
  LET sleeping == {s \in Slots : live[s] = "sleeping"}
  IN \/ sleeping = {} /\ slave' = live
     \/ \E s \in sleeping : slave' = [live EXCEPT ![s] = "get"]

(* pthread_cond_broadcast(&task_ready_cond). *)
AllReady == [s \in Slots |-> IF slave[s] = "sleeping" THEN "get" ELSE slave[s]]

(* pthread_cond_broadcast(&task_finished_cond). *)
AllGatherers ==
  [a \in Activities |-> IF pc[a] = "gatherSleeping" THEN "gather" ELSE pc[a]]

-----------------------------------------------------------------------------
(* taskSlave, run by the thread of slot s *)

(* incrementTotalThreads *)
SlaveStart(s) ==
  /\ slave[s] = "starting" /\ totalLock = Nobody
  /\ totalThreads' = totalThreads + 1
  /\ slave' = [slave EXCEPT ![s] = "get"]
  /\ UNCHANGED <<settings, activeThreads, queues, locks, job, calls>>

(* getTask when told to quit: NULL, even if tasks are queued. *)
SlaveQuit(s) ==
  /\ slave[s] = "get" /\ queueLock = Nobody
  /\ slavesQuit
  /\ slave' = [slave EXCEPT ![s] = "quit"]
  /\ UNCHANGED <<settings, counters, queues, locks, job, calls>>

(* getTask on an empty queue: pthread_cond_wait. *)
SlaveSleep(s) ==
  /\ slave[s] = "get" /\ queueLock = Nobody
  /\ ~slavesQuit /\ taskQueue = <<>>
  /\ slave' = [slave EXCEPT ![s] = "sleeping"]
  /\ UNCHANGED <<settings, counters, queues, locks, job, calls>>

(* pthread_cond_wait may return without a signal; the while loop tests again. *)
SlaveWake(s) ==
  /\ slave[s] = "sleeping" /\ queueLock = Nobody
  /\ slave' = [slave EXCEPT ![s] = "get"]
  /\ UNCHANGED <<settings, counters, queues, locks, job, calls>>

(* Bug: the front of the queue is not popped. *)
SlavePopKeeps(s) ==
  /\ slave[s] = "get" /\ queueLock = Nobody
  /\ ~slavesQuit /\ taskQueue # <<>>
  /\ job' = [job EXCEPT ![s] = Head(taskQueue)]
  /\ slave' = [slave EXCEPT ![s] = "popped"]
  /\ UNCHANGED <<settings, counters, queues, locks, calls>>

(* getTask: take the front of the queue. *)
SlavePop(s) ==
  /\ slave[s] = "get" /\ queueLock = Nobody
  /\ ~slavesQuit /\ taskQueue # <<>>
  /\ job' = [job EXCEPT ![s] = Head(taskQueue)]
  /\ taskQueue' = Tail(taskQueue)
  /\ slave' = [slave EXCEPT ![s] = "popped"]
  /\ UNCHANGED <<settings, counters, finishedTasks, locks, calls>>

(* incrementActiveThreads, then task->exec() begins. *)
SlaveExec(s) ==
  /\ slave[s] = "popped" /\ maxLock = Nobody
  /\ activeThreads' = activeThreads + 1
  /\ slave' = [slave EXCEPT ![s] = "exec"]
  /\ pc' = [pc EXCEPT ![job[s]] = "app"]
  /\ UNCHANGED <<settings, totalThreads, queues, locks, job, arg, goal, owned>>

(* Bug: the task is given back while exec() is running. *)
SlaveDoneEarly(s) ==
  /\ slave[s] = "exec" /\ maxLock = Nobody
  /\ activeThreads' = activeThreads - 1
  /\ slave' = [slave EXCEPT ![s] = "signal"]
  /\ UNCHANGED <<settings, totalThreads, queues, locks, job, calls>>

(* Bug: the slave is not counted inactive again. *)
SlaveDoneUncounted(s) ==
  /\ slave[s] = "exec" /\ pc[job[s]] = "returned" /\ maxLock = Nobody
  /\ slave' = [slave EXCEPT ![s] = "signal"]
  /\ UNCHANGED <<settings, counters, queues, locks, job, calls>>

(* exec() has returned: decrementActiveThreads. *)
SlaveDone(s) ==
  /\ slave[s] = "exec" /\ pc[job[s]] = "returned" /\ maxLock = Nobody
  /\ activeThreads' = activeThreads - 1
  /\ slave' = [slave EXCEPT ![s] = "signal"]
  /\ UNCHANGED <<settings, totalThreads, queues, locks, job, calls>>

(* signalTaskFinished, then back to getTask. *)
SlaveSignal(s) ==
  /\ slave[s] = "signal"
  /\ finishedTasks' = finishedTasks \cup {job[s]}
  /\ pc' = [AllGatherers EXCEPT ![job[s]] = "idle"]
  /\ job' = [job EXCEPT ![s] = NoTask]
  /\ slave' = [slave EXCEPT ![s] = "get"]
  /\ UNCHANGED <<settings, counters, taskQueue, locks, arg, goal, owned>>

(* decrementTotalThreads, then the thread ends. *)
SlaveExit(s) ==
  /\ slave[s] = "quit" /\ totalLock = Nobody
  /\ totalThreads' = totalThreads - 1
  /\ slave' = [slave EXCEPT ![s] = "exited"]
  /\ UNCHANGED <<settings, activeThreads, queues, locks, job, calls>>

-----------------------------------------------------------------------------
(* addTask(task, self_if_none_avail), called by activity a *)

CallAddTask(a, t) ==
  /\ pc[a] = "app"
  /\ pc' = [pc EXCEPT ![a] = "addTotal"]
  /\ arg' = [arg EXCEPT ![a] = t]
  /\ owned' = [owned EXCEPT ![a] = @ \cup {t}]
  /\ UNCHANGED <<settings, counters, queues, locks, threads, goal>>

AddLockTotal(a) ==
  /\ pc[a] = "addTotal" /\ totalLock = Nobody
  /\ totalLock' = a
  /\ pc' = [pc EXCEPT ![a] = "addMax"]
  /\ UNCHANGED <<settings, counters, queues, maxLock, queueLock, threads, arg, goal,
                 owned>>

IsSerial(selfIfNone) == maxThreads <= 1 \/ (selfIfNone /\ maxThreads = activeThreads)

NeedsThread ==
  /\ createOnDemand /\ totalThreads < maxThreads
  /\ activeThreads = totalThreads \/ totalThreads <= Len(taskQueue)

FreeSlots == {s \in 1 .. maxThreads : slave[s] = "none"}

HoldsTotalGetsMax(a) == pc[a] = "addMax" /\ maxLock = Nobody

(* The caller executes the task itself, outside of the locks. *)
AddSerial(a, selfIfNone) ==
  /\ HoldsTotalGetsMax(a) /\ IsSerial(selfIfNone)
  /\ totalLock' = Nobody
  /\ pc' = [pc EXCEPT ![a] = "serial", ![arg[a]] = "app"]
  /\ UNCHANGED <<settings, counters, queues, maxLock, queueLock, threads, arg, goal,
                 owned>>

(* Bug: no slave is woken. *)
AddQueuedSilent(a, selfIfNone) ==
  /\ HoldsTotalGetsMax(a) /\ queueLock = Nobody
  /\ ~IsSerial(selfIfNone) /\ ~NeedsThread
  /\ taskQueue' = Append(taskQueue, arg[a])
  /\ totalLock' = Nobody
  /\ pc' = [pc EXCEPT ![a] = "app"]
  /\ arg' = [arg EXCEPT ![a] = NoTask]
  /\ UNCHANGED <<settings, counters, finishedTasks, maxLock, queueLock, threads, goal, owned>>

(* Push the task, wake one sleeping slave. *)
AddQueued(a, selfIfNone) ==
  /\ HoldsTotalGetsMax(a) /\ queueLock = Nobody
  /\ ~IsSerial(selfIfNone) /\ ~NeedsThread
  /\ taskQueue' = Append(taskQueue, arg[a])
  /\ SignalReady(slave)
  /\ totalLock' = Nobody
  /\ pc' = [pc EXCEPT ![a] = "app"]
  /\ arg' = [arg EXCEPT ![a] = NoTask]
  /\ UNCHANGED <<settings, counters, finishedTasks, maxLock, queueLock, job, goal, owned>>

(* Start a thread in the first empty slot as well; then waitForStartedThread. *)
AddStarting(a, selfIfNone) ==
  /\ HoldsTotalGetsMax(a) /\ queueLock = Nobody
  /\ ~IsSerial(selfIfNone) /\ NeedsThread
  /\ \E s \in FreeSlots :
       /\ \A r \in FreeSlots : s <= r
       /\ SignalReady([slave EXCEPT ![s] = "starting"])
  /\ taskQueue' = Append(taskQueue, arg[a])
  /\ goal' = [goal EXCEPT ![a] = totalThreads + 1]
  /\ totalLock' = Nobody
  /\ pc' = [pc EXCEPT ![a] = "addStarted"]
  /\ arg' = [arg EXCEPT ![a] = NoTask]
  /\ UNCHANGED <<settings, counters, finishedTasks, maxLock, queueLock, job, owned>>

(* "expected to find empty thread slot!", or "could not start thread!" from start_thread:
   the exception leaves the three locks held. *)
AddThrows(a, selfIfNone) ==
  /\ HoldsTotalGetsMax(a) /\ queueLock = Nobody
  /\ ~IsSerial(selfIfNone) /\ NeedsThread
  /\ FreeSlots = {} \/ "create" \in Faults
  /\ maxLock' = a /\ queueLock' = a
  /\ pc' = [pc EXCEPT ![a] = "threw"]
  /\ UNCHANGED <<settings, counters, queues, totalLock, threads, arg, goal, owned>>

(* Bug: nobody waits for the new thread. *)
ThreadStartedUnseen(a) ==
  /\ pc[a] \in {"addStarted", "setMaxStarted"} /\ totalLock = Nobody
  /\ pc' = [pc EXCEPT ![a] = "app"]
  /\ goal' = [goal EXCEPT ![a] = 0]
  /\ UNCHANGED <<settings, counters, queues, locks, threads, arg, owned>>

(* waitForStartedThread(goal[a]), from addTask or from set_max_threads. *)
ThreadStarted(a) ==
  /\ pc[a] \in {"addStarted", "setMaxStarted"} /\ totalLock = Nobody
  /\ goal[a] <= totalThreads
  /\ pc' = [pc EXCEPT ![a] = "app"]
  /\ goal' = [goal EXCEPT ![a] = 0]
  /\ UNCHANGED <<settings, counters, queues, locks, threads, arg, owned>>

(* The caller's own exec() has returned: signalTaskFinished. *)
SerialDone(a) ==
  /\ pc[a] = "serial" /\ pc[arg[a]] = "returned"
  /\ finishedTasks' = finishedTasks \cup {arg[a]}
  /\ pc' = [AllGatherers EXCEPT ![a] = "app", ![arg[a]] = "idle"]
  /\ arg' = [arg EXCEPT ![a] = NoTask]
  /\ UNCHANGED <<settings, counters, taskQueue, locks, threads, goal, owned>>

-----------------------------------------------------------------------------
(* waitForTasks(owned[a]), called or resumed after a broadcast *)

(* Bug: all of the caller's tasks are returned once one is finished. *)
CollectUnfinished(a) ==
  /\ pc[a] \in {"app", "gather"}
  /\ owned[a] \cap finishedTasks # {}
  /\ finishedTasks' = finishedTasks \ owned[a]
  /\ owned' = [owned EXCEPT ![a] = {}]
  /\ pc' = [pc EXCEPT ![a] = "app"]
  /\ UNCHANGED <<settings, counters, taskQueue, locks, threads, arg, goal>>

(* Some of the caller's tasks are finished: they leave the cache. *)
Collect(a) ==
  /\ pc[a] \in {"app", "gather"}
  /\ owned[a] \cap finishedTasks # {}
  /\ finishedTasks' = finishedTasks \ owned[a]
  /\ owned' = [owned EXCEPT ![a] = @ \ finishedTasks]
  /\ pc' = [pc EXCEPT ![a] = "app"]
  /\ UNCHANGED <<settings, counters, taskQueue, locks, threads, arg, goal>>

(* None is finished: pthread_cond_wait. *)
GatherSleep(a) ==
  /\ pc[a] \in {"app", "gather"}
  /\ owned[a] # {} /\ owned[a] \cap finishedTasks = {}
  /\ pc' = [pc EXCEPT ![a] = "gatherSleeping"]
  /\ UNCHANGED <<settings, counters, queues, locks, threads, arg, goal, owned>>

(* pthread_cond_wait may return without a broadcast; the loop looks again. *)
GatherWake(a) ==
  /\ pc[a] = "gatherSleeping"
  /\ pc' = [pc EXCEPT ![a] = "gather"]
  /\ UNCHANGED <<settings, counters, queues, locks, threads, arg, goal, owned>>

-----------------------------------------------------------------------------
(* set_max_threads(mx), called by activity a *)

CallSetMaxThreads(a, mx) ==
  /\ pc[a] = "app"
  /\ pc' = [pc EXCEPT ![a] = "setMax"]
  /\ goal' = [goal EXCEPT ![a] = mx]
  /\ UNCHANGED <<settings, counters, queues, locks, threads, arg, owned>>

(* Bug: set_max_threads returns before the threads have started. *)
AfterSetMaxAtOnce(a, mx) ==
  /\ pc' = [pc EXCEPT ![a] = "app"]
  /\ goal' = [goal EXCEPT ![a] = 0]

(* After the lock is released: wait for eagerly created threads, or return. *)
AfterSetMax(a, mx) ==
  LET waits == mx > 1 /\ ~createOnDemand
  IN /\ pc' = [pc EXCEPT ![a] = IF waits THEN "setMaxStarted" ELSE "app"]
     /\ goal' = [goal EXCEPT ![a] = IF waits THEN mx ELSE 0]

(* Bug: one thread more than asked for. *)
InstallMaxPlusOne(a) ==
  LET mx == IF goal[a] > 1 THEN goal[a] + 1 ELSE 1
  IN /\ maxThreads' = mx
     /\ slave' = [s \in Slots |->
                    IF mx > 1 /\ s <= mx /\ ~createOnDemand THEN "starting" ELSE "none"]
     /\ AfterSetMax(a, mx)

(* max_threads := mx > 1 ? mx : 1, with new, empty or freshly started, slots. *)
InstallMax(a) ==
  LET mx == IF goal[a] > 1 THEN goal[a] ELSE 1
  IN /\ maxThreads' = mx
     /\ slave' = [s \in Slots |->
                    IF mx > 1 /\ s <= mx /\ ~createOnDemand THEN "starting" ELSE "none"]
     /\ AfterSetMax(a, mx)

SetMaxSame(a) ==
  /\ pc[a] = "setMax" /\ maxLock = Nobody
  /\ maxThreads = goal[a]
  /\ AfterSetMax(a, goal[a])
  /\ UNCHANGED <<settings, counters, queues, locks, threads, arg, owned>>

(* Bug: the threads are told to stop, and not joined. *)
NoThreadsJoined(a) ==
  \/ pc[a] = "setMax" /\ maxLock = Nobody /\ maxThreads # goal[a] /\ maxThreads <= 1
  \/ pc[a] = "setMaxJoin" /\ queueLock = Nobody

(* No threads to stop, or every thread has been joined. *)
NoThreadsLeft(a) ==
  \/ pc[a] = "setMax" /\ maxLock = Nobody /\ maxThreads # goal[a] /\ maxThreads <= 1
  \/ /\ pc[a] = "setMaxJoin" /\ queueLock = Nobody
     /\ \A s \in Slots : slave[s] \in {"none", "exited"}

(* Bug: the sleeping slaves are not woken. *)
SetMaxStopSilent(a) ==
  /\ pc[a] = "setMax" /\ maxLock = Nobody /\ queueLock = Nobody
  /\ maxThreads # goal[a] /\ maxThreads > 1
  /\ maxLock' = a
  /\ slavesQuit' = TRUE
  /\ pc' = [pc EXCEPT ![a] = "setMaxJoin"]
  /\ UNCHANGED <<createOnDemand, maxThreads, counters, queues, totalLock, queueLock, threads,
                 arg, goal, owned>>

(* signalSlavesQuit, keeping max_threads_spinlock. *)
SetMaxStop(a) ==
  /\ pc[a] = "setMax" /\ maxLock = Nobody /\ queueLock = Nobody
  /\ maxThreads # goal[a] /\ maxThreads > 1
  /\ maxLock' = a
  /\ slavesQuit' = TRUE
  /\ slave' = AllReady
  /\ pc' = [pc EXCEPT ![a] = "setMaxJoin"]
  /\ UNCHANGED <<createOnDemand, maxThreads, counters, queues, totalLock, queueLock, job,
                 arg, goal, owned>>

(* resetSlavesQuit, new slots, unlock. *)
SetMaxInstalls(a) ==
  /\ NoThreadsLeft(a)
  /\ slavesQuit' = FALSE
  /\ InstallMax(a)
  /\ maxLock' = Nobody
  /\ UNCHANGED <<createOnDemand, counters, queues, totalLock, queueLock, job, arg, owned>>

(* An eager start_thread fails, the lock held: it throws, or it has found garbage in the
   uninitialised threads[i] and pthread_create writes through it. *)
SetMaxFails(a) ==
  /\ NoThreadsLeft(a) /\ ~createOnDemand /\ goal[a] > 1
  /\ \E n \in 1 .. goal[a] :
       slave' = [s \in Slots |-> IF s < n THEN "starting" ELSE "none"]
  /\ \/ "create" \in Faults /\ pc' = [pc EXCEPT ![a] = "setMaxThrew"]
     \/ "heap" \in Faults /\ pc' = [pc EXCEPT ![a] = "wild"]
  /\ slavesQuit' = FALSE
  /\ maxThreads' = goal[a]
  /\ maxLock' = a
  /\ UNCHANGED <<createOnDemand, counters, queues, totalLock, queueLock, job, arg, goal, owned>>

=============================================================================
