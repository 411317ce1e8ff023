------------------------ MODULE ScatterGatherProofs -------------------------
(***************************************************************************)
(* Proofs about the thread cache under any scatter-gather program: any     *)
(* sets of callers, tasks and slots, any nesting of tasks, resizing at any *)
(* time, exceptions included: first the bookkeeping of the tasks, then the *)
(* threads, who holds which lock, that set_max_threads leaves no slave     *)
(* behind, that the counters count, and that no slave sleeps beside a      *)
(* queued task.                                                            *)
(***************************************************************************)
EXTENDS ScatterGather, FiniteSetTheorems, TLAPS

LEMMA InitType == Init => ProgramTypeOK
  <1> USE CacheAssumption, ProgramAssumption
  <1> SUFFICES ASSUME Init PROVE ProgramTypeOK
    OBVIOUS
  <1>1. PICK onDemand \in OnDemand, mx \in NumPthreads : CacheInit(Main, onDemand, mx)
    BY DEF Init
  <1>2. createOnDemand \in BOOLEAN /\ mx \in Slots /\ mx \in Int /\ Main \in Activities
    BY <1>1 DEF CacheInit, Slots, Activities
  <1>3. taskQueue \in Seq(Tasks) /\ maxThreads \in 0 .. MaxSlots
    BY <1>1 DEF CacheInit
  <1>4. /\ slave \in [Slots -> SlaveStates] /\ job \in [Slots -> Tasks \cup {NoTask}]
        /\ pc \in [Activities -> CallStates] /\ arg \in [Activities -> Tasks \cup {NoTask}]
        /\ owned \in [Activities -> SUBSET Tasks]
    BY <1>1 DEF CacheInit, SlaveStates, CallStates
  <1>5. goal \in [Activities -> Int]
    BY <1>1, <1>2 DEF CacheInit
  <1>6. TypeOK
    <2>1. totalThreads \in Int /\ activeThreads \in Int
      BY <1>1 DEF CacheInit
    <2>2. finishedTasks \in SUBSET Tasks /\ slavesQuit \in BOOLEAN
      BY <1>1 DEF CacheInit
    <2>3. totalLock = Nobody /\ maxLock = Nobody /\ queueLock = Nobody
      BY <1>1 DEF CacheInit
    <2> QED
      BY <1>2, <1>3, <1>4, <1>5, <2>1, <2>2, <2>3 DEF TypeOK
  <1>7. todo \in [Activities -> SUBSET Tasks]
    BY DEF Init, Children
  <1>8. phase \in {"construct", "run", "destroy"}
    BY DEF Init
  <1>9. resizes \in 0 .. MaxResizes
    BY ONLY Init, ProgramAssumption DEF Init, ProgramAssumption
  <1>10. round \in [Callers -> 0 .. MaxRounds]
    BY DEF Init
  <1> QED
    BY <1>6, <1>7, <1>8, <1>9, <1>10 DEF ProgramTypeOK

LEMMA SlaveType ==
  ASSUME ProgramTypeOK, ArgumentsHeld, NEW s \in Slots, SlaveStep(s)
  PROVE  ProgramTypeOK'
  <1> USE CacheAssumption DEF ProgramTypeOK, TypeOK, SameProgram, settings, counters, queues,
          locks, threads, calls, SlaveStates, CallStates
  <1>1. CASE SlaveStart(s) /\ SameProgram
    BY <1>1 DEF SlaveStart
  <1>2. CASE SlaveQuit(s) /\ SameProgram
    BY <1>2 DEF SlaveQuit
  <1>3. CASE SlaveSleep(s) /\ SameProgram
    BY <1>3 DEF SlaveSleep
  <1>4. CASE SlavePop(s) /\ SameProgram
    BY <1>4 DEF SlavePop
  <1>5. CASE SlaveExec(s) /\ SameProgram
    <2>1. pc' \in [Activities -> CallStates]
      BY <1>5 DEF SlaveExec
    <2> QED
      BY <1>5, <2>1 DEF SlaveExec
  <1>6. CASE SlaveDone(s) /\ SameProgram
    BY <1>6 DEF SlaveDone
  <1>7. CASE SlaveSignal(s) /\ SameProgram
    BY <1>7 DEF SlaveSignal, AllGatherers, ArgumentsHeld
  <1>8. CASE SlaveExit(s) /\ SameProgram
    BY <1>8 DEF SlaveExit
  <1> QED
    BY <1>1, <1>2, <1>3, <1>4, <1>5, <1>6, <1>7, <1>8 DEF SlaveStep

LEMMA AddType ==
  ASSUME ProgramTypeOK, ArgumentsHeld, NEW a \in Activities, AddStep(a)
  PROVE  ProgramTypeOK'
  <1> USE CacheAssumption, ProgramAssumption DEF ProgramTypeOK, TypeOK, SameProgram, settings,
          counters, queues, locks, threads, calls, SlaveStates, CallStates
  <1>1. CASE AddLockTotal(a) /\ SameProgram
    BY <1>1 DEF AddLockTotal
  <1>2. ASSUME NEW self \in SelfIfNone, AddSerial(a, self), SameProgram PROVE ProgramTypeOK'
    BY <1>2 DEF AddSerial
  <1>3. ASSUME pc[a] = "addMax" PROVE arg[a] \in Tasks /\ Append(taskQueue, arg[a]) \in Seq(Tasks)
    BY <1>3 DEF ArgumentsHeld
  <1>4. ASSUME NEW self \in SelfIfNone, AddQueued(a, self), SameProgram PROVE ProgramTypeOK'
    <2>1. slave' \in [Slots -> SlaveStates]
      BY <1>4 DEF AddQueued, SignalReady
    <2>2. taskQueue' \in Seq(Tasks)
      BY <1>3, <1>4 DEF AddQueued, HoldsTotalGetsMax
    <2> QED
      BY <1>4, <2>1, <2>2 DEF AddQueued
  <1>5. ASSUME NEW self \in SelfIfNone, AddStarting(a, self), SameProgram PROVE ProgramTypeOK'
    <2>1. PICK s \in FreeSlots : SignalReady([slave EXCEPT ![s] = "starting"])
      BY <1>5 DEF AddStarting
    <2>2. [slave EXCEPT ![s] = "starting"] \in [Slots -> SlaveStates]
      OBVIOUS
    <2>3. slave' \in [Slots -> SlaveStates]
      BY <2>1, <2>2 DEF SignalReady
    <2>4. taskQueue' \in Seq(Tasks)
      BY <1>3, <1>5 DEF AddStarting, HoldsTotalGetsMax
    <2>5. goal' \in [Activities -> Int]
      BY <1>5 DEF AddStarting
    <2> QED
      BY <1>5, <2>3, <2>4, <2>5 DEF AddStarting
  <1>6. ASSUME NEW self \in SelfIfNone, AddThrows(a, self), SameProgram PROVE ProgramTypeOK'
    BY <1>6 DEF AddThrows
  <1>7. CASE ThreadStarted(a) /\ SameProgram
    BY <1>7 DEF ThreadStarted
  <1>8. CASE SerialDone(a) /\ SameProgram
    <2>1. arg[a] \in Tasks
      BY <1>8 DEF SerialDone, ArgumentsHeld
    <2>2. AllGatherers \in [Activities -> CallStates]
      BY DEF AllGatherers
    <2>3. pc' \in [Activities -> CallStates]
      BY <1>8, <2>2 DEF SerialDone
    <2>4. finishedTasks' \in SUBSET Tasks
      BY <1>8, <2>1 DEF SerialDone
    <2> QED
      BY <1>8, <2>3, <2>4 DEF SerialDone
  <1> QED
    BY <1>1, <1>2, <1>4, <1>5, <1>6, <1>7, <1>8 DEF AddStep

LEMMA GatherType ==
  ASSUME ProgramTypeOK, NEW a \in Activities, SameProgram,
         Collect(a) \/ GatherSleep(a) \/ GatherWake(a)
  PROVE  ProgramTypeOK'
  BY DEF Collect, GatherSleep, GatherWake, ProgramTypeOK, TypeOK, SameProgram, settings,
         counters, queues, locks, threads, calls, CallStates

LEMMA SetMaxType ==
  ASSUME ProgramTypeOK, GoalFits, NEW a \in Activities, SetMaxStep(a)
  PROVE  ProgramTypeOK'
  <1> USE CacheAssumption DEF ProgramTypeOK, TypeOK, SameProgram, settings, counters, queues,
          locks, threads, calls
  <1>1. ASSUME NEW mx \in Int, AfterSetMax(a, mx)
        PROVE  pc' \in [Activities -> CallStates] /\ goal' \in [Activities -> Int]
    BY <1>1 DEF AfterSetMax, CallStates
  <1>2. CASE SetMaxSame(a) /\ SameProgram
    <2>1. goal[a] \in Int
      OBVIOUS
    <2> QED
      BY <1>1, <1>2, <2>1 DEF SetMaxSame
  <1>3. CASE SetMaxStop(a) /\ SameProgram
    <2>1. slave' \in [Slots -> SlaveStates]
      BY <1>3 DEF SetMaxStop, AllReady, SlaveStates
    <2>2. pc' \in [Activities -> CallStates]
      BY <1>3 DEF SetMaxStop, CallStates
    <2> QED
      BY <1>3, <2>1, <2>2 DEF SetMaxStop
  <1>4. ASSUME NoThreadsLeft(a) PROVE goal[a] \in 0 .. MaxSlots
    BY <1>4 DEF NoThreadsLeft, GoalFits
  <1>5. CASE SetMaxInstalls(a) /\ SameProgram
    <2> DEFINE mx == IF goal[a] > 1 THEN goal[a] ELSE 1
    <2>1. mx \in 0 .. MaxSlots /\ mx \in Int
      BY <1>4, <1>5 DEF SetMaxInstalls
    <2>2. InstallMax(a) /\ AfterSetMax(a, mx) /\ maxThreads' = mx
      BY <1>5 DEF SetMaxInstalls, InstallMax
    <2>3. pc' \in [Activities -> CallStates] /\ goal' \in [Activities -> Int]
      BY <1>1, <2>1, <2>2
    <2>4. slave' \in [Slots -> SlaveStates]
      BY <2>2 DEF InstallMax, SlaveStates
    <2> HIDE DEF mx
    <2> QED
      BY <1>5, <2>1, <2>2, <2>3, <2>4 DEF SetMaxInstalls
  <1>6. CASE SetMaxFails(a) /\ SameProgram
    <2>1. slave' \in [Slots -> SlaveStates]
      BY <1>6 DEF SetMaxFails, SlaveStates
    <2>2. pc' \in [Activities -> CallStates]
      BY <1>6 DEF SetMaxFails, CallStates
    <2>3. maxThreads' \in 0 .. MaxSlots
      BY <1>4, <1>6 DEF SetMaxFails
    <2> QED
      BY <1>6, <2>1, <2>2, <2>3 DEF SetMaxFails
  <1> QED
    BY <1>2, <1>3, <1>5, <1>6 DEF SetMaxStep

LEMMA ProgramType ==
  ASSUME ProgramTypeOK,
         \/ \E a \in Activities : ProgramStep(a)
         \/ \E c \in Callers : NextRound(c) \/ Resize(c)
         \/ Constructed \/ Destroy \/ Stop
  PROVE  ProgramTypeOK'
  <1>a. ASSUME NEW b \in Activities, NEW n \in Int, CallSetMaxThreads(b, n)
        PROVE  goal' \in [Activities -> Int]
    BY <1>a DEF CallSetMaxThreads, ProgramTypeOK, TypeOK
  <1>b. Callers \subseteq Activities /\ Resizes \subseteq Int /\ Main \in Activities /\ 0 \in Int
    BY ProgramAssumption DEF Activities, Slots
  <1> USE CacheAssumption, ProgramAssumption DEF ProgramTypeOK, TypeOK, settings, counters,
          queues, locks, threads, calls, CallStates
  <1>1. ASSUME NEW a \in Activities, Scatter(a) PROVE ProgramTypeOK'
    BY <1>1 DEF Scatter, CallAddTask
  <1>2. ASSUME NEW t \in Tasks, Return(t) PROVE ProgramTypeOK'
    BY <1>2 DEF Return, Children
  <1>3. ASSUME NEW c \in Callers, NextRound(c) PROVE ProgramTypeOK'
    <2>1. round' \in [Callers -> 0 .. MaxRounds]
      BY <1>3 DEF NextRound
    <2> QED
      BY <1>3, <2>1 DEF NextRound, Children, cacheVars
  <1>4. ASSUME NEW c \in Callers, Resize(c) PROVE ProgramTypeOK'
    <2>1. PICK mx \in Resizes : CallSetMaxThreads(c, mx)
      BY <1>4 DEF Resize
    <2>2. goal' \in [Activities -> Int]
      BY ONLY <1>a, <1>b, <2>1
    <2>3. resizes' \in 0 .. MaxResizes
      BY <1>4 DEF Resize
    <2> QED
      BY <1>4, <2>1, <2>2, <2>3 DEF Resize, CallSetMaxThreads
  <1>5. CASE Constructed
    BY <1>5 DEF Constructed
  <1>6. CASE Destroy
    <2>1. goal' \in [Activities -> Int]
      BY <1>a, <1>b, <1>6 DEF Destroy
    <2> QED
      BY <1>6, <2>1 DEF Destroy, CallSetMaxThreads
  <1>7. CASE Stop
    BY <1>7 DEF Stop, vars, cacheVars
  <1> QED
    BY <1>1, <1>2, <1>3, <1>4, <1>5, <1>6, <1>7 DEF ProgramStep

-----------------------------------------------------------------------------
(* What leaves the bookkeeping of the tasks alone *)

(* No task moves. *)
LEMMA TasksStay ==
  ASSUME Ownership, Exclusive, NothingLost,
         UNCHANGED <<arg, taskQueue, job, finishedTasks, owned, todo>>
  PROVE  Ownership' /\ Exclusive' /\ NothingLost'
  <1>1. Ownership'
    BY DEF Ownership
  <1>2. Exclusive'
    BY DEF Exclusive
  <1>3. NothingLost'
    BY DEF NothingLost
  <1> QED
    BY <1>1, <1>2, <1>3

(* No exec() begins, is returned from late, or is forgotten. *)
LEMMA ExecutionStays ==
  ASSUME ProgramTypeOK, ArgumentsHeld, ExecutedByOne,
         \A s \in Slots :
           /\ slave'[s] \in {"exec", "signal"} <=> slave[s] \in {"exec", "signal"}
           /\ slave[s] \in {"exec", "signal"} => job'[s] = job[s]
           /\ slave'[s] = "signal" => slave[s] = "signal",
         \A a \in Activities :
           /\ pc'[a] = "serial" <=> pc[a] = "serial"
           /\ pc[a] = "serial" => arg'[a] = arg[a],
         \A t \in Tasks :
           /\ pc'[t] = "idle" <=> pc[t] = "idle"
           /\ pc[t] = "returned" => pc'[t] = "returned"
  PROVE  ExecutedByOne'
  <1>1. ASSUME NEW t \in Tasks
        PROVE  pc'[t] # "idle" <=>
                 \/ \E s \in Slots : job'[s] = t /\ slave'[s] \in {"exec", "signal"}
                 \/ \E a \in Activities : arg'[a] = t /\ pc'[a] = "serial"
    BY DEF ExecutedByOne
  <1>2. ASSUME NEW s \in Slots, slave'[s] = "signal"
        PROVE  pc'[job'[s]] = "returned"
    <2>1. slave[s] = "signal" /\ job'[s] = job[s] /\ pc[job[s]] = "returned"
      BY <1>2 DEF ExecutedByOne
    <2>2. job[s] \in Tasks
      BY <2>1 DEF ArgumentsHeld, ProgramTypeOK, TypeOK
    <2> QED
      BY <2>1, <2>2
  <1> QED
    BY <1>1, <1>2 DEF ExecutedByOne

(* The front of the queue and the rest of it. *)
LEMMA QueuePop ==
  ASSUME NEW q \in Seq(Tasks), q # <<>>
  PROVE  /\ 1 \in DOMAIN q /\ Head(q) = q[1] /\ Head(q) \in Tasks
         /\ Tail(q) \in Seq(Tasks)
         /\ \A i \in DOMAIN Tail(q) :
              i \in Nat /\ i # 0 /\ i + 1 \in DOMAIN q /\ Tail(q)[i] = q[i + 1]
         /\ \A i \in DOMAIN q :
              i = 1 \/ (i - 1 \in DOMAIN Tail(q) /\ Tail(q)[i - 1] = q[i])
  OBVIOUS

(* The queue after a push. *)
LEMMA QueuePush ==
  ASSUME NEW q \in Seq(Tasks), NEW t \in Tasks
  PROVE  /\ Append(q, t) \in Seq(Tasks)
         /\ Len(q) + 1 \in DOMAIN Append(q, t) /\ Append(q, t)[Len(q) + 1] = t
         /\ \A i \in DOMAIN q : i \in DOMAIN Append(q, t) /\ Append(q, t)[i] = q[i]
         /\ \A i \in DOMAIN Append(q, t) : i = Len(q) + 1 \/ i \in DOMAIN q
         /\ Len(q) + 1 \notin DOMAIN q
  OBVIOUS

-----------------------------------------------------------------------------
(* The slaves *)

(* getTask without a task, incrementTotalThreads, decrementTotalThreads, a spurious wakeup. *)
LEMMA SlaveIdlesBooks ==
  ASSUME ProgramTypeOK, Bookkeeping, NEW s \in Slots, SameProgram,
         SlaveStart(s) \/ SlaveQuit(s) \/ SlaveSleep(s) \/ SlaveExit(s) \/ SlaveWake(s)
  PROVE  Bookkeeping'
  <1> USE DEF Bookkeeping
  <1>1. /\ UNCHANGED <<settings, queues, job, calls, phase, todo>>
        /\ slave[s] \in {"starting", "get", "sleeping", "quit"}
        /\ \E st \in {"get", "quit", "sleeping", "exited"} : slave' = [slave EXCEPT ![s] = st]
    BY DEF SlaveStart, SlaveQuit, SlaveSleep, SlaveExit, SlaveWake, SameProgram, settings,
           calls, queues
  <1>2. /\ UNCHANGED <<maxThreads, taskQueue, finishedTasks, job, pc, arg, goal, owned, phase, todo>>
        /\ \A r \in Slots : slave'[r] = slave[r]
             \/ /\ r = s
                /\ slave[s] \in {"starting", "get", "sleeping", "quit"}
                /\ slave'[s] \in {"get", "quit", "sleeping", "exited"}
    BY <1>1 DEF settings, queues, calls, ProgramTypeOK, TypeOK
  <1>3. ArgumentsHeld'
    BY <1>2 DEF ArgumentsHeld
  <1>4. GoalFits' /\ ConstructorAlone'
    BY <1>2 DEF GoalFits, ConstructorAlone
  <1>5. SlotsFit'
    BY <1>2 DEF SlotsFit
  <1>6. ExecutedByOne'
    BY <1>2, ExecutionStays
  <1> QED
    BY <1>2, <1>3, <1>4, <1>5, <1>6, TasksStay

LEMMA SlavePopBooks ==
  ASSUME ProgramTypeOK, Bookkeeping, NEW s \in Slots, SameProgram, SlavePop(s)
  PROVE  Bookkeeping'
  <1> USE CacheAssumption DEF Bookkeeping
  <1> DEFINE q == taskQueue
  <1>1. /\ UNCHANGED <<maxThreads, finishedTasks, pc, arg, goal, owned, phase, todo>>
        /\ slave[s] = "get" /\ slave' = [slave EXCEPT ![s] = "popped"]
        /\ q # <<>> /\ q \in Seq(Tasks) /\ taskQueue' = Tail(q)
        /\ job' = [job EXCEPT ![s] = Head(q)]
    BY DEF SlavePop, SameProgram, settings, calls, ProgramTypeOK, TypeOK
  <1>2. \A r \in Slots : /\ r # s => slave'[r] = slave[r] /\ job'[r] = job[r]
                         /\ r = s => slave'[r] = "popped" /\ job'[r] = q[1]
    BY <1>1, QueuePop DEF ProgramTypeOK, TypeOK
  <1>3. /\ 1 \in DOMAIN q /\ q[1] \in Tasks /\ q[1] # NoTask
        /\ \A i \in DOMAIN taskQueue' :
             i \in Nat /\ i # 0 /\ i + 1 \in DOMAIN q /\ taskQueue'[i] = q[i + 1]
        /\ \A i \in DOMAIN q : i = 1 \/ (i - 1 \in DOMAIN taskQueue' /\ taskQueue'[i - 1] = q[i])
    BY <1>1, QueuePop DEF Activities
  <1>4. ArgumentsHeld'
    BY <1>1, <1>2, <1>3 DEF ArgumentsHeld
  <1>5. GoalFits' /\ ConstructorAlone'
    BY <1>1 DEF GoalFits, ConstructorAlone
  <1>6. SlotsFit'
    BY <1>1, <1>2 DEF SlotsFit
  <1>7. ExecutedByOne'
    BY <1>1, <1>2, ExecutionStays
  <1>8. Ownership'
    BY <1>1, <1>2, <1>3 DEF Ownership
  <1>9. Exclusive'
    <2>1. \A i, j \in DOMAIN taskQueue' : taskQueue'[i] = taskQueue'[j] => i = j
      BY <1>3 DEF Exclusive
    <2>2. ASSUME NEW i \in DOMAIN taskQueue'
          PROVE  /\ \A a \in Activities : arg'[a] # taskQueue'[i]
                 /\ \A r \in Slots : job'[r] # taskQueue'[i]
                 /\ taskQueue'[i] \notin finishedTasks'
      <3>1. i + 1 \in DOMAIN q /\ i + 1 # 1 /\ taskQueue'[i] = q[i + 1]
        BY <1>3
      <3>2. q[i + 1] # q[1]
        BY <1>3, <3>1 DEF Exclusive
      <3> QED
        BY <1>1, <1>2, <3>1, <3>2 DEF Exclusive
    <2>3. /\ \A r, u \in Slots : job'[r] # NoTask /\ job'[r] = job'[u] => r = u
          /\ \A r \in Slots : /\ \A a \in Activities : arg'[a] # NoTask => arg'[a] # job'[r]
                              /\ job'[r] \notin finishedTasks'
      BY <1>1, <1>2, <1>3 DEF Exclusive
    <2> QED
      BY <1>1, <2>1, <2>2, <2>3 DEF Exclusive
  <1>10. NothingLost'
    <2> SUFFICES ASSUME NEW t \in Tasks, t \in owned[Parent[t]]
                 PROVE  \/ \E a \in Activities : arg'[a] = t
                        \/ \E i \in DOMAIN taskQueue' : taskQueue'[i] = t
                        \/ \E r \in Slots : job'[r] = t
                        \/ t \in finishedTasks'
      BY <1>1 DEF NothingLost
    <2>1. CASE \E i \in DOMAIN q : q[i] = t
      BY <1>2, <1>3, <2>1
    <2>2. CASE \E r \in Slots : job[r] = t
      <3>1. job[s] = NoTask
        BY <1>1 DEF ArgumentsHeld
      <3> QED
        BY <1>2, <2>2, <3>1 DEF Activities
    <2> QED
      BY <1>1, <2>1, <2>2 DEF NothingLost
  <1> QED
    BY <1>4, <1>5, <1>6, <1>7, <1>8, <1>9, <1>10

(* exec() of a task begins, with a slave. *)
LEMMA SlaveExecBooks ==
  ASSUME ProgramTypeOK, Bookkeeping, NEW s \in Slots, SameProgram, SlaveExec(s)
  PROVE  Bookkeeping'
  <1> USE CacheAssumption, ProgramAssumption DEF Bookkeeping
  <1> DEFINE u == job[s]
  <1>1. /\ UNCHANGED <<maxThreads, taskQueue, finishedTasks, job, arg, goal, owned, phase, todo>>
        /\ slave[s] = "popped" /\ slave' = [slave EXCEPT ![s] = "exec"]
        /\ pc' = [pc EXCEPT ![u] = "app"]
    BY DEF SlaveExec, SameProgram, settings, queues
  <1>2. u \in Tasks /\ u # NoTask /\ u \in Activities
    BY <1>1 DEF ArgumentsHeld, ProgramTypeOK, TypeOK, Activities
  <1>3. /\ \A r \in Slots : slave'[r] = IF r = s THEN "exec" ELSE slave[r]
        /\ \A a \in Activities : pc'[a] = IF a = u THEN "app" ELSE pc[a]
    BY <1>1, <1>2 DEF ProgramTypeOK, TypeOK
  <1>4. /\ \A r \in Slots : job[r] = u => r = s
        /\ \A a \in Activities : arg[a] # u
    BY <1>2 DEF Exclusive
  <1>5. pc[u] = "idle" /\ arg[u] = NoTask
    <2>1. pc[u] = "idle"
      BY <1>1, <1>2, <1>4 DEF ExecutedByOne
    <2> QED
      BY <2>1, <1>2 DEF ArgumentsHeld
  <1>6. ArgumentsHeld'
    BY <1>1, <1>2, <1>3, <1>5 DEF ArgumentsHeld
  <1>7. GoalFits'
    BY <1>1, <1>3 DEF GoalFits
  <1>8. SlotsFit'
    BY <1>1, <1>3 DEF SlotsFit
  <1>9. ConstructorAlone'
    <2>1. u \in owned[Parent[u]] /\ Parent[u] \in Activities
      BY <1>2 DEF Ownership
    <2> QED
      BY <1>1, <2>1 DEF ConstructorAlone
  <1>10. ExecutedByOne'
    <2>1. ASSUME NEW t \in Tasks
          PROVE  pc'[t] # "idle" <=>
                   \/ \E r \in Slots : job'[r] = t /\ slave'[r] \in {"exec", "signal"}
                   \/ \E a \in Activities : arg'[a] = t /\ pc'[a] = "serial"
      <3>1. CASE t = u
        BY <1>1, <1>2, <1>3, <3>1
      <3>2. CASE t # u
        <4>1. pc'[t] = pc[t] /\ t \in Activities
          BY <1>3, <3>2 DEF Activities
        <4>2. (\E r \in Slots : job'[r] = t /\ slave'[r] \in {"exec", "signal"})
                <=> (\E r \in Slots : job[r] = t /\ slave[r] \in {"exec", "signal"})
          BY <1>1, <1>3, <3>2
        <4>3. (\E a \in Activities : arg'[a] = t /\ pc'[a] = "serial")
                <=> (\E a \in Activities : arg[a] = t /\ pc[a] = "serial")
          BY <1>1, <1>3, <1>5
        <4> QED
          BY <4>1, <4>2, <4>3 DEF ExecutedByOne
      <3> QED
        BY <3>1, <3>2
    <2>2. ASSUME NEW r \in Slots, slave'[r] = "signal" PROVE pc'[job'[r]] = "returned"
      <3>1. r # s /\ slave[r] = "signal"
        BY <1>3, <2>2
      <3>2. job[r] # u /\ job[r] \in Activities
        BY <1>4, <3>1 DEF ArgumentsHeld, ProgramTypeOK, TypeOK, Activities
      <3> QED
        BY <1>1, <1>3, <3>1, <3>2 DEF ExecutedByOne
    <2> QED
      BY <2>1, <2>2 DEF ExecutedByOne
  <1> QED
    BY <1>1, <1>6, <1>7, <1>8, <1>9, <1>10, TasksStay

LEMMA SlaveDoneBooks ==
  ASSUME ProgramTypeOK, Bookkeeping, NEW s \in Slots, SameProgram, SlaveDone(s)
  PROVE  Bookkeeping'
  <1> USE DEF Bookkeeping
  <1>1. /\ UNCHANGED <<maxThreads, taskQueue, finishedTasks, job, pc, arg, goal, owned, phase, todo>>
        /\ slave[s] = "exec" /\ pc[job[s]] = "returned"
        /\ slave' = [slave EXCEPT ![s] = "signal"]
    BY DEF SlaveDone, SameProgram, settings, queues, calls
  <1>2. \A r \in Slots : slave'[r] = IF r = s THEN "signal" ELSE slave[r]
    BY <1>1 DEF ProgramTypeOK, TypeOK
  <1>3. ArgumentsHeld'
    BY <1>1, <1>2 DEF ArgumentsHeld
  <1>4. GoalFits' /\ ConstructorAlone'
    BY <1>1 DEF GoalFits, ConstructorAlone
  <1>5. SlotsFit'
    BY <1>1, <1>2 DEF SlotsFit
  <1>6. ExecutedByOne'
    <2>1. \A r \in Slots : slave'[r] \in {"exec", "signal"} <=> slave[r] \in {"exec", "signal"}
      BY <1>1, <1>2
    <2>2. ASSUME NEW t \in Tasks
          PROVE  pc'[t] # "idle" <=>
                   \/ \E r \in Slots : job'[r] = t /\ slave'[r] \in {"exec", "signal"}
                   \/ \E a \in Activities : arg'[a] = t /\ pc'[a] = "serial"
      BY <1>1, <2>1 DEF ExecutedByOne
    <2>3. ASSUME NEW r \in Slots, slave'[r] = "signal" PROVE pc'[job'[r]] = "returned"
      BY <1>1, <1>2, <2>3 DEF ExecutedByOne
    <2> QED
      BY <2>2, <2>3 DEF ExecutedByOne
  <1> QED
    BY <1>1, <1>3, <1>4, <1>5, <1>6, TasksStay

(* signalTaskFinished moves the task of a slave to the finished set. *)
LEMMA SlaveSignalBooks ==
  ASSUME ProgramTypeOK, Bookkeeping, NEW s \in Slots, SameProgram, SlaveSignal(s)
  PROVE  Bookkeeping'
  <1> USE CacheAssumption, ProgramAssumption DEF Bookkeeping
  <1> DEFINE u == job[s]
  <1>1. /\ UNCHANGED <<maxThreads, taskQueue, arg, goal, owned, phase, todo>>
        /\ slave[s] = "signal" /\ slave' = [slave EXCEPT ![s] = "get"]
        /\ job' = [job EXCEPT ![s] = NoTask]
        /\ pc' = [AllGatherers EXCEPT ![u] = "idle"]
        /\ finishedTasks' = finishedTasks \cup {u}
    BY DEF SlaveSignal, SameProgram, settings
  <1>2. u \in Tasks /\ u # NoTask /\ u \in Activities /\ pc[u] = "returned"
    BY <1>1 DEF ArgumentsHeld, ProgramTypeOK, TypeOK, Activities, ExecutedByOne
  <1>3. /\ \A r \in Slots : /\ slave'[r] = IF r = s THEN "get" ELSE slave[r]
                            /\ job'[r] = IF r = s THEN NoTask ELSE job[r]
        /\ \A a \in Activities : pc'[a] = IF a = u THEN "idle"
                                          ELSE IF pc[a] = "gatherSleeping" THEN "gather"
                                          ELSE pc[a]
    BY <1>1, <1>2 DEF ProgramTypeOK, TypeOK, AllGatherers
  <1>4. /\ \A r \in Slots : job[r] = u => r = s
        /\ \A a \in Activities : arg[a] # u
        /\ \A i \in DOMAIN taskQueue : taskQueue[i] # u
        /\ arg[u] = NoTask
    BY <1>2 DEF Exclusive, ArgumentsHeld
  <1>5. ArgumentsHeld'
    BY <1>1, <1>2, <1>3, <1>4 DEF ArgumentsHeld
  <1>6. GoalFits'
    BY <1>1, <1>3 DEF GoalFits
  <1>7. SlotsFit'
    BY <1>1, <1>3 DEF SlotsFit
  <1>8. ConstructorAlone'
    <2>1. u \in owned[Parent[u]] /\ Parent[u] \in Activities
      BY <1>2 DEF Ownership
    <2> QED
      BY <1>1, <2>1 DEF ConstructorAlone
  <1>9. Ownership'
    BY <1>1, <1>2, <1>3 DEF Ownership
  <1>10. Exclusive'
    <2>1. \A i, j \in DOMAIN taskQueue' : taskQueue'[i] = taskQueue'[j] => i = j
      BY <1>1 DEF Exclusive
    <2>2. NoTask \notin Tasks /\ \A i \in DOMAIN taskQueue : taskQueue[i] # NoTask
      BY DEF Activities, ProgramTypeOK, TypeOK
    <2>3. \A i \in DOMAIN taskQueue' :
            /\ \A a \in Activities : arg'[a] # taskQueue'[i]
            /\ \A r \in Slots : job'[r] # taskQueue'[i]
            /\ taskQueue'[i] \notin finishedTasks'
      BY <1>1, <1>3, <1>4, <2>2 DEF Exclusive
    <2>4. finishedTasks \in SUBSET Tasks
      BY DEF ProgramTypeOK, TypeOK
    <2>5. /\ \A r, v \in Slots : job'[r] # NoTask /\ job'[r] = job'[v] => r = v
          /\ \A r \in Slots : /\ \A a \in Activities : arg'[a] # NoTask => arg'[a] # job'[r]
                              /\ job'[r] \notin finishedTasks'
      BY <1>1, <1>2, <1>3, <1>4, <2>2, <2>4 DEF Exclusive
    <2>6. \A a \in Activities : arg'[a] \notin finishedTasks'
      BY <1>1, <1>4 DEF Exclusive
    <2> QED
      BY <2>1, <2>3, <2>5, <2>6 DEF Exclusive
  <1>11. NothingLost'
    <2> SUFFICES ASSUME NEW t \in Tasks, t \in owned[Parent[t]]
                 PROVE  \/ \E a \in Activities : arg'[a] = t
                        \/ \E i \in DOMAIN taskQueue' : taskQueue'[i] = t
                        \/ \E r \in Slots : job'[r] = t
                        \/ t \in finishedTasks'
      BY <1>1 DEF NothingLost
    <2>1. CASE \E r \in Slots : job[r] = t
      BY <1>1, <1>3, <2>1
    <2> QED
      BY <1>1, <2>1 DEF NothingLost
  <1>12. ExecutedByOne'
    <2>1. ASSUME NEW t \in Tasks
          PROVE  pc'[t] # "idle" <=>
                   \/ \E r \in Slots : job'[r] = t /\ slave'[r] \in {"exec", "signal"}
                   \/ \E a \in Activities : arg'[a] = t /\ pc'[a] = "serial"
      <3>1. (\E a \in Activities : arg'[a] = t /\ pc'[a] = "serial")
              <=> (\E a \in Activities : arg[a] = t /\ pc[a] = "serial")
        BY <1>1, <1>2, <1>3
      <3>2. CASE t = u
        BY <1>1, <1>2, <1>3, <1>4, <3>1, <3>2
      <3>3. CASE t # u
        <4>1. pc'[t] # "idle" <=> pc[t] # "idle"
          BY <1>3, <3>3 DEF Activities
        <4>2. (\E r \in Slots : job'[r] = t /\ slave'[r] \in {"exec", "signal"})
                <=> (\E r \in Slots : job[r] = t /\ slave[r] \in {"exec", "signal"})
          BY <1>1, <1>2, <1>3, <3>3 DEF Activities
        <4> QED
          BY <4>1, <4>2, <3>1 DEF ExecutedByOne
      <3> QED
        BY <3>2, <3>3
    <2>2. ASSUME NEW r \in Slots, slave'[r] = "signal" PROVE pc'[job'[r]] = "returned"
      <3>1. r # s /\ slave[r] = "signal" /\ job'[r] = job[r]
        BY <1>3, <2>2
      <3>2. job[r] # u /\ job[r] \in Activities /\ pc[job[r]] = "returned"
        BY <1>4, <3>1 DEF ArgumentsHeld, ProgramTypeOK, TypeOK, Activities, ExecutedByOne
      <3> QED
        BY <1>3, <3>1, <3>2
    <2> QED
      BY <2>1, <2>2 DEF ExecutedByOne
  <1> QED
    BY <1>5, <1>6, <1>7, <1>8, <1>9, <1>10, <1>11, <1>12

-----------------------------------------------------------------------------
(* The calls and the program, where no task moves *)

(* Threads and calls move between states that hold no task, or the same one. *)
LEMMA StatesMove ==
  ASSUME ProgramTypeOK, ArgumentsHeld, ExecutedByOne,
         UNCHANGED <<job, arg>>,
         \A s \in Slots : slave'[s] # slave[s] =>
           /\ slave[s] \notin {"popped", "exec", "signal"}
           /\ slave'[s] \notin {"popped", "exec", "signal"},
         \A a \in Activities : pc'[a] # pc[a] =>
           /\ pc[a] \in {"addTotal", "addMax", "threw"}
                <=> pc'[a] \in {"addTotal", "addMax", "threw"}
           /\ pc[a] # "serial" /\ pc'[a] # "serial"
           /\ a \in Tasks => pc[a] \notin {"idle", "returned"} /\ pc'[a] # "idle"
  PROVE  ArgumentsHeld' /\ ExecutedByOne'
  <1>1. \A a \in Activities : pc'[a] \in {"addTotal", "addMax", "serial", "threw"}
                                <=> pc[a] \in {"addTotal", "addMax", "serial", "threw"}
    OBVIOUS
  <1>2. ArgumentsHeld'
    BY <1>1 DEF ArgumentsHeld
  <1>3. ExecutedByOne'
    <2>1. \A s \in Slots : /\ slave'[s] \in {"exec", "signal"} <=> slave[s] \in {"exec", "signal"}
                           /\ slave'[s] = "signal" => slave[s] = "signal"
      OBVIOUS
    <2>2. \A a \in Activities : pc'[a] = "serial" <=> pc[a] = "serial"
      OBVIOUS
    <2>3. \A t \in Tasks : /\ pc'[t] = "idle" <=> pc[t] = "idle"
                           /\ pc[t] = "returned" => pc'[t] = "returned"
      BY DEF Activities
    <2> QED
      BY <2>1, <2>2, <2>3, ExecutionStays
  <1> QED
    BY <1>2, <1>3

(* addTask taking its first lock, throwing, or waiting for its thread; the waits of
   waitForTasks. *)
LEMMA WaitsBooks ==
  ASSUME ProgramTypeOK, Bookkeeping, NEW a \in Activities, SameProgram,
         \/ AddLockTotal(a) \/ ThreadStarted(a) \/ GatherWake(a)
         \/ MayCall(a) /\ GatherSleep(a)
         \/ \E self \in SelfIfNone : AddThrows(a, self)
  PROVE  Bookkeeping'
  <1> USE DEF Bookkeeping
  <1>1. /\ UNCHANGED <<maxThreads, taskQueue, finishedTasks, slave, job, arg, owned, phase, todo>>
        /\ \A b \in Activities : b # a => goal'[b] = goal[b] /\ pc'[b] = pc[b]
    BY DEF AddLockTotal, ThreadStarted, GatherWake, GatherSleep, AddThrows, SameProgram,
           settings, counters, queues, threads, calls, ProgramTypeOK, TypeOK
  <1>2. \/ pc[a] \in {"addTotal", "addMax"} /\ pc'[a] \in {"addMax", "threw"}
        \/ pc[a] = "addStarted" /\ pc'[a] = "app"
        \/ pc[a] = "setMaxStarted" /\ pc'[a] = "app"
        \/ pc[a] = "gatherSleeping" /\ pc'[a] = "gather"
        \/ /\ pc[a] \in {"app", "gather"} /\ pc'[a] = "gatherSleeping"
           /\ owned[a] # {}
    BY DEF AddLockTotal, ThreadStarted, GatherWake, GatherSleep, AddThrows, HoldsTotalGetsMax,
           ProgramTypeOK, TypeOK
  <1>3. \A b \in Activities : pc'[b] # pc[b] =>
           /\ pc[b] \in {"addTotal", "addMax", "threw"}
                <=> pc'[b] \in {"addTotal", "addMax", "threw"}
           /\ pc[b] # "serial" /\ pc'[b] # "serial"
           /\ b \in Tasks => pc[b] \notin {"idle", "returned"} /\ pc'[b] # "idle"
    BY <1>1, <1>2
  <1>4. ArgumentsHeld' /\ ExecutedByOne'
    BY <1>1, <1>3, StatesMove
  <1>5. GoalFits'
    BY <1>1, <1>2 DEF GoalFits
  <1>6. ConstructorAlone'
    BY <1>1, <1>2 DEF ConstructorAlone
  <1>7. SlotsFit'
    BY <1>1 DEF SlotsFit
  <1> QED
    BY <1>1, <1>4, <1>5, <1>6, <1>7, TasksStay

(* The steps of set_max_threads. *)
LEMMA SetMaxBooks ==
  ASSUME ProgramTypeOK, Bookkeeping, NEW a \in Activities, SetMaxStep(a)
  PROVE  Bookkeeping'
  <1> USE DEF Bookkeeping
  <1>1. UNCHANGED <<taskQueue, finishedTasks, job, arg, owned, phase, todo>>
    BY DEF SetMaxStep, SetMaxSame, SetMaxStop, SetMaxInstalls, SetMaxFails, SameProgram,
           settings, queues, threads
  <1>2. /\ pc[a] \in {"setMax", "setMaxJoin"}
        /\ pc'[a] \in {"setMaxJoin", "setMaxStarted", "app", "setMaxThrew", "wild"}
        /\ \A b \in Activities : b # a => goal'[b] = goal[b] /\ pc'[b] = pc[b]
        /\ pc'[a] = "setMaxJoin" => goal'[a] = goal[a]
    BY DEF SetMaxStep, SetMaxSame, SetMaxStop, SetMaxInstalls, SetMaxFails, InstallMax,
           AfterSetMax, NoThreadsLeft, calls, ProgramTypeOK, TypeOK
  <1>3. \A b \in Activities : pc'[b] # pc[b] =>
           /\ pc[b] \in {"addTotal", "addMax", "threw"}
                <=> pc'[b] \in {"addTotal", "addMax", "threw"}
           /\ pc[b] # "serial" /\ pc'[b] # "serial"
           /\ b \in Tasks => pc[b] \notin {"idle", "returned"} /\ pc'[b] # "idle"
    BY <1>2
  <1>4. GoalFits'
    BY <1>2 DEF GoalFits
  <1>5. ConstructorAlone'
    BY <1>1, <1>2 DEF ConstructorAlone
  <1>6. ASSUME NoThreadsLeft(a)
        PROVE  \A s \in Slots : slave[s] \in {"none", "exited"}
    BY <1>6 DEF NoThreadsLeft, SlotsFit, ProgramTypeOK, TypeOK
  <1>7. /\ \A s \in Slots : slave'[s] # slave[s] =>
             /\ slave[s] \notin {"popped", "exec", "signal"}
             /\ slave'[s] \notin {"popped", "exec", "signal"}
        /\ SlotsFit'
    <2>1. CASE SetMaxSame(a)
      BY <2>1 DEF SetMaxSame, threads, settings, SlotsFit
    <2>2. CASE SetMaxStop(a)
      <3>1. /\ \A s \in Slots : slave'[s] = IF slave[s] = "sleeping" THEN "get" ELSE slave[s]
            /\ maxThreads' = maxThreads
        BY <2>2 DEF SetMaxStop, AllReady
      <3> QED
        BY <3>1 DEF SlotsFit
    <2>3. CASE SetMaxInstalls(a)
      <3> DEFINE mx == IF goal[a] > 1 THEN goal[a] ELSE 1
      <3>1. /\ maxThreads' = mx
            /\ \A s \in Slots :
                 slave'[s] = IF mx > 1 /\ s <= mx /\ ~createOnDemand THEN "starting" ELSE "none"
        BY <2>3 DEF SetMaxInstalls, InstallMax
      <3>2. \A s \in Slots : slave[s] \in {"none", "exited"}
        BY <1>6, <2>3 DEF SetMaxInstalls
      <3>3. SlotsFit'
        BY <3>1 DEF SlotsFit
      <3> QED
        BY <3>1, <3>2, <3>3
    <2>4. CASE SetMaxFails(a)
      <3>1. PICK n \in 1 .. goal[a] :
              slave' = [s \in Slots |-> IF s < n THEN "starting" ELSE "none"]
        BY <2>4 DEF SetMaxFails
      <3>2. maxThreads' = goal[a] /\ goal[a] > 1 /\ goal[a] \in Int
        BY <2>4 DEF SetMaxFails, ProgramTypeOK, TypeOK
      <3>3. \A s \in Slots : slave[s] \in {"none", "exited"}
        BY <1>6, <2>4 DEF SetMaxFails
      <3>4. SlotsFit'
        BY <3>1, <3>2 DEF SlotsFit, Slots
      <3> QED
        BY <3>1, <3>3, <3>4
    <2> QED
      BY <2>1, <2>2, <2>3, <2>4 DEF SetMaxStep
  <1>8. ArgumentsHeld' /\ ExecutedByOne'
    BY <1>1, <1>3, <1>7, StatesMove
  <1> QED
    BY <1>1, <1>4, <1>5, <1>7, <1>8, TasksStay

(* The steps of the program between its calls. *)
LEMMA ProgramBooks ==
  ASSUME ProgramTypeOK, Bookkeeping,
         \/ \E t \in Tasks : Return(t)
         \/ \E c \in Callers : NextRound(c) \/ Resize(c)
         \/ Constructed \/ Destroy \/ UNCHANGED vars
  PROVE  Bookkeeping'
  <1> USE CacheAssumption, ProgramAssumption DEF Bookkeeping
  <1>1. /\ UNCHANGED <<maxThreads, taskQueue, finishedTasks, slave, job, arg, owned>>
        /\ \A a \in Activities : goal'[a] = goal[a] \/ goal'[a] \in 0 .. MaxSlots
    <2>1. \A mx \in Resizes : mx \in 0 .. MaxSlots
      BY DEF Slots
    <2>2. 0 \in 0 .. MaxSlots
      OBVIOUS
    <2>3. goal \in [Activities -> Int]
      BY DEF ProgramTypeOK, TypeOK
    <2> HIDE ProgramAssumption, CacheAssumption DEF Bookkeeping
    <2> QED
      BY <2>1, <2>2, <2>3 DEF Return, NextRound, Resize, Constructed, Destroy, CallSetMaxThreads, vars, cacheVars,
           settings, counters, queues, threads, calls
  <1>2. \A a \in Activities :
          \/ pc'[a] = pc[a]
          \/ pc[a] = "app" /\ pc'[a] \in {"setMax", "returned"}
          \/ a \in Callers /\ pc[a] \in {"idle", "app"} /\ pc'[a] = "app" /\ phase' = "run"
    <2>1. pc \in [Activities -> CallStates]
      BY DEF ProgramTypeOK, TypeOK
    <2>2. ASSUME Constructed PROVE \A a \in Callers : pc[a] \in {"idle", "app"}
      BY <2>2 DEF Constructed, ConstructorAlone, Activities
    <2>3. Tasks \subseteq Activities /\ Callers \subseteq Activities /\ Main \in Callers
      BY DEF Activities
    <2>4. CASE \E t \in Tasks : Return(t)
      BY ONLY <2>1, <2>3, <2>4 DEF Return, Finished
    <2>5. CASE Constructed
      BY <2>1, <2>2, <2>5 DEF Constructed
    <2>6. CASE Destroy \/ \E c \in Callers : Resize(c)
      BY ONLY <2>1, <2>3, <2>6 DEF Destroy, Resize, CallSetMaxThreads
    <2> QED
      BY <2>4, <2>5, <2>6 DEF NextRound, vars, cacheVars, calls
  <1>3. \A a \in Activities : pc'[a] # pc[a] =>
           /\ pc[a] \in {"addTotal", "addMax", "threw"}
                <=> pc'[a] \in {"addTotal", "addMax", "threw"}
           /\ pc[a] # "serial" /\ pc'[a] # "serial"
           /\ a \in Tasks => pc[a] \notin {"idle", "returned"} /\ pc'[a] # "idle"
    BY <1>2
  <1>4. ArgumentsHeld' /\ ExecutedByOne'
    BY <1>1, <1>3, StatesMove
  <1>5. GoalFits'
    <2>1. ASSUME NEW a \in Activities, pc'[a] \in {"setMax", "setMaxJoin"}
          PROVE  goal'[a] \in 0 .. MaxSlots
      <3>1. CASE pc'[a] = pc[a]
        BY <1>1, <2>1, <3>1 DEF GoalFits
      <3>2. CASE pc'[a] = "setMax" /\ pc[a] # "setMax"
        <4>1. goal'[a] # goal[a] \/ \E mx \in Resizes \cup {0} : goal'[a] = mx
          <5>1. goal \in [Activities -> Int]
            BY DEF ProgramTypeOK, TypeOK
          <5>2. pc \in [Activities -> CallStates]
            BY DEF ProgramTypeOK, TypeOK
          <5> HIDE ProgramAssumption, CacheAssumption DEF Bookkeeping
          <5> QED
            BY <3>2, <5>1, <5>2 DEF Return, NextRound, Resize, Constructed, Destroy,
               CallSetMaxThreads, vars, cacheVars, calls
        <4>2. \A mx \in Resizes \cup {0} : mx \in 0 .. MaxSlots
          BY DEF Slots
        <4> QED
          BY <1>1, <4>1, <4>2
      <3> QED
        BY <1>2, <2>1, <3>1, <3>2
    <2> QED
      BY <2>1 DEF GoalFits
  <1>6. SlotsFit'
    BY <1>1 DEF SlotsFit
  <1>7. \A a \in Activities : todo'[a] = todo[a] \/ (todo'[a] = Children(a) /\ owned[a] = {})
    <2> HIDE CacheAssumption, ProgramAssumption DEF Bookkeeping
    <2> QED
      BY DEF Return, NextRound, Finished, Resize, Constructed, Destroy, vars, ProgramTypeOK
  <1>8. Ownership'
    <2>1. ASSUME NEW a \in Activities
          PROVE  owned'[a] \subseteq Children(a) /\ todo'[a] \subseteq Children(a) \ owned'[a]
      BY <1>1, <1>7 DEF Ownership
    <2> QED
      BY <1>1, <2>1 DEF Ownership
  <1>9. Exclusive' /\ NothingLost'
    BY <1>1 DEF Exclusive, NothingLost
  <1>10. ConstructorAlone'
    <2>1. phase' = "construct" =>
             /\ phase = "construct"
             /\ UNCHANGED pc \/ \E t \in Tasks : Return(t)
      BY DEF Return, NextRound, Resize, Constructed, Destroy, vars, cacheVars, calls
    <2>2. ASSUME NEW t \in Tasks, Return(t) PROVE pc[t] = "app" /\ t \in Activities /\ t # Main
      BY <2>2 DEF Return, Finished, Activities
    <2> QED
      BY <1>1, <2>1, <2>2 DEF ConstructorAlone
  <1> QED
    BY <1>4, <1>5, <1>6, <1>8, <1>9, <1>10

-----------------------------------------------------------------------------
(* The calls that move a task *)

(* addTask begins: the task enters the cache. *)
LEMMA ScatterBooks ==
  ASSUME ProgramTypeOK, Bookkeeping, NEW a \in Activities, Scatter(a)
  PROVE  Bookkeeping'
  <1> USE CacheAssumption, ProgramAssumption DEF Bookkeeping
  <1>1. PICK t \in todo[a] : CallAddTask(a, t) /\ todo' = [todo EXCEPT ![a] = @ \ {t}]
    BY DEF Scatter
  <1>2. /\ UNCHANGED <<maxThreads, taskQueue, finishedTasks, slave, job, goal, phase>>
        /\ pc[a] = "app" /\ MayCall(a)
    BY <1>1 DEF Scatter, CallAddTask, settings, counters, queues, threads
  <1>3. /\ t \in Tasks /\ t # NoTask /\ Parent[t] = a /\ t \notin owned[a] /\ arg[a] = NoTask
    BY <1>1, <1>2 DEF Ownership, Children, ArgumentsHeld, Activities
  <1>4. /\ pc'[a] = "addTotal" /\ arg'[a] = t
        /\ owned'[a] = owned[a] \cup {t} /\ todo'[a] = todo[a] \ {t}
        /\ \A b \in Activities : b # a => /\ pc'[b] = pc[b] /\ arg'[b] = arg[b]
                                        /\ owned'[b] = owned[b] /\ todo'[b] = todo[b]
    BY <1>1 DEF CallAddTask, ProgramTypeOK, TypeOK
  <1>5. /\ \A b \in Activities : arg[b] # t
        /\ \A i \in DOMAIN taskQueue : taskQueue[i] # t
        /\ \A s \in Slots : job[s] # t
        /\ t \notin finishedTasks
    <2>1. \A i \in DOMAIN taskQueue : taskQueue[i] # t
      BY <1>3 DEF Ownership
    <2>2. \A s \in Slots : job[s] # t
      BY <1>3 DEF Ownership
    <2>3. t \notin finishedTasks
      BY <1>3 DEF Ownership
    <2>4. ASSUME NEW b \in Activities, arg[b] = t PROVE FALSE
      <3>1. t \in owned[b] /\ owned[b] \subseteq Children(b)
        BY <1>3, <2>4 DEF Ownership
      <3> QED
        BY <1>3, <3>1 DEF Children
    <2> QED
      BY <2>1, <2>2, <2>3, <2>4
  <1>6. ArgumentsHeld'
    BY <1>2, <1>3, <1>4 DEF ArgumentsHeld
  <1>7. GoalFits' /\ SlotsFit'
    <2>1. GoalFits'
      BY <1>2, <1>4 DEF GoalFits
    <2>2. SlotsFit'
      BY <1>2 DEF SlotsFit
    <2> QED
      BY <2>1, <2>2
  <1>8. ConstructorAlone'
    BY <1>2, <1>4 DEF ConstructorAlone, MayCall
  <1>9. ExecutedByOne'
    <2>1. \A b \in Activities : /\ pc'[b] = "serial" <=> pc[b] = "serial"
                                /\ pc[b] = "serial" => arg'[b] = arg[b]
      BY <1>2, <1>4
    <2>2. \A u \in Tasks : /\ pc'[u] = "idle" <=> pc[u] = "idle"
                           /\ pc[u] = "returned" => pc'[u] = "returned"
      BY <1>2, <1>4 DEF Activities
    <2> QED
      BY <1>2, <2>1, <2>2, ExecutionStays
  <1>10. Ownership'
    <2>1. ASSUME NEW b \in Activities
          PROVE  owned'[b] \subseteq Children(b) /\ todo'[b] \subseteq Children(b) \ owned'[b]
      <3>1. owned[b] \subseteq Children(b) /\ todo[b] \subseteq Children(b) \ owned[b]
        BY DEF Ownership
      <3>2. CASE b # a
        BY <1>4, <3>1, <3>2
      <3>3. CASE b = a
        BY <1>1, <1>4, <3>1, <3>3
      <3> QED
        BY <3>2, <3>3
    <2>2. \A b \in Activities : owned[b] \subseteq owned'[b]
      BY <1>4
    <2>3. \A u \in Tasks : Parent[u] \in Activities
      OBVIOUS
    <2>4. ASSUME NEW b \in Activities, arg'[b] # NoTask PROVE arg'[b] \in owned'[b]
      <3>1. arg[b] # NoTask => arg[b] \in owned[b]
        BY DEF Ownership
      <3> QED
        BY <1>4, <2>4, <3>1
    <2>5. \A i \in DOMAIN taskQueue' : taskQueue'[i] \in owned'[Parent[taskQueue'[i]]]
      <3>1. \A i \in DOMAIN taskQueue : taskQueue[i] \in Tasks
        BY DEF ProgramTypeOK, TypeOK
      <3> QED
        BY <1>2, <2>2, <2>3, <3>1 DEF Ownership
    <2>6. \A s \in Slots : job'[s] # NoTask => job'[s] \in owned'[Parent[job'[s]]]
      <3>1. \A s \in Slots : job[s] # NoTask => job[s] \in Tasks
        BY DEF ProgramTypeOK, TypeOK
      <3> QED
        BY <1>2, <2>2, <2>3, <3>1 DEF Ownership
    <2>7. \A u \in finishedTasks' : u \in owned'[Parent[u]]
      <3>1. finishedTasks \subseteq Tasks
        BY DEF ProgramTypeOK, TypeOK
      <3> QED
        BY <1>2, <2>2, <2>3, <3>1 DEF Ownership
    <2> QED
      BY <2>1, <2>4, <2>5, <2>6, <2>7 DEF Ownership
  <1>11. Exclusive'
    <2>1. \A b \in Activities : arg'[b] = arg[b] \/ arg'[b] = t
      BY <1>4
    <2>2. \A i \in DOMAIN taskQueue' : \A b \in Activities : arg'[b] # taskQueue'[i]
      BY <1>2, <1>5, <2>1 DEF Exclusive
    <2>3. \A s \in Slots : \A b \in Activities : arg'[b] # NoTask => arg'[b] # job'[s]
      BY <1>2, <1>5, <2>1 DEF Exclusive
    <2>4. \A b \in Activities : arg'[b] \notin finishedTasks'
      BY <1>2, <1>5, <2>1 DEF Exclusive
    <2> QED
      BY <1>2, <2>2, <2>3, <2>4 DEF Exclusive
  <1>12. NothingLost'
    <2> SUFFICES ASSUME NEW u \in Tasks, u \in owned'[Parent[u]]
                 PROVE  \/ \E b \in Activities : arg'[b] = u
                        \/ \E i \in DOMAIN taskQueue' : taskQueue'[i] = u
                        \/ \E s \in Slots : job'[s] = u
                        \/ u \in finishedTasks'
      BY DEF NothingLost
    <2>1. CASE u = t
      BY <1>4, <2>1
    <2>2. CASE u # t
      <3>1. u \in owned[Parent[u]] /\ Parent[u] \in Activities
        BY <1>4, <2>2
      <3>2. \A b \in Activities : arg[b] = u => arg'[b] = u
        BY <1>3, <1>4 DEF Activities
      <3> QED
        BY <1>2, <3>1, <3>2 DEF NothingLost
    <2> QED
      BY <2>1, <2>2
  <1> QED
    BY <1>6, <1>7, <1>8, <1>9, <1>10, <1>11, <1>12

(* addTask's serial branch: exec() begins in the caller. *)
LEMMA AddSerialBooks ==
  ASSUME ProgramTypeOK, Bookkeeping, NEW a \in Activities, SameProgram,
         NEW self \in SelfIfNone, AddSerial(a, self)
  PROVE  Bookkeeping'
  <1> USE CacheAssumption, ProgramAssumption DEF Bookkeeping
  <1> DEFINE u == arg[a]
  <1>1. /\ UNCHANGED <<maxThreads, taskQueue, finishedTasks, slave, job, arg, goal, owned, phase,
                       todo>>
        /\ pc[a] = "addMax"
        /\ pc' = [pc EXCEPT ![a] = "serial", ![u] = "app"]
    BY DEF AddSerial, HoldsTotalGetsMax, SameProgram, settings, counters, queues, threads
  <1>2. u \in Tasks /\ u # NoTask /\ u \in Activities
    BY <1>1 DEF ArgumentsHeld, ProgramTypeOK, TypeOK, Activities
  <1>3. /\ \A b \in Activities : b # a => arg[b] # u
        /\ \A s \in Slots : job[s] # u
    <2>1. \A s \in Slots : job[s] # u
      BY <1>2 DEF Exclusive
    <2>2. ASSUME NEW b \in Activities, b # a, arg[b] = u PROVE FALSE
      <3>1. u \in owned[a] /\ u \in owned[b]
        BY <1>2, <2>2 DEF Ownership
      <3> QED
        BY <2>2, <3>1 DEF Ownership, Children
    <2> QED
      BY <2>1, <2>2
  <1>4. u # a
    BY <1>2 DEF Ownership, Children
  <1>5. /\ pc'[u] = "app" /\ pc'[a] = "serial"
        /\ \A b \in Activities : b # u /\ b # a => pc'[b] = pc[b]
    BY <1>1, <1>2, <1>4 DEF ProgramTypeOK, TypeOK
  <1>6. pc[u] = "idle" /\ arg[u] = NoTask
    <2>1. pc[u] = "idle"
      BY <1>1, <1>2, <1>3 DEF ExecutedByOne
    <2> QED
      BY <2>1, <1>2 DEF ArgumentsHeld
  <1>7. ArgumentsHeld'
    BY <1>1, <1>2, <1>5, <1>6 DEF ArgumentsHeld
  <1>8. GoalFits' /\ SlotsFit'
    <2>1. GoalFits'
      BY <1>1, <1>5 DEF GoalFits
    <2>2. SlotsFit'
      BY <1>1 DEF SlotsFit
    <2> QED
      BY <2>1, <2>2
  <1>9. ConstructorAlone'
    <2>1. u \in owned[a]
      BY <1>2 DEF Ownership
    <2> QED
      BY <1>1, <2>1 DEF ConstructorAlone
  <1>10. ExecutedByOne'
    <2>1. ASSUME NEW t \in Tasks
          PROVE  pc'[t] # "idle" <=>
                   \/ \E r \in Slots : job'[r] = t /\ slave'[r] \in {"exec", "signal"}
                   \/ \E b \in Activities : arg'[b] = t /\ pc'[b] = "serial"
      <3>1. CASE t = u
        BY <1>1, <1>2, <1>4, <1>5, <3>1
      <3>2. CASE t # u
        <4>1. pc'[t] # "idle" <=> pc[t] # "idle"
          BY <1>1, <1>5, <3>2 DEF Activities
        <4>2. (\E b \in Activities : arg'[b] = t /\ pc'[b] = "serial")
                <=> (\E b \in Activities : arg[b] = t /\ pc[b] = "serial")
          BY <1>1, <1>5, <1>6, <3>2
        <4> QED
          BY <1>1, <4>1, <4>2 DEF ExecutedByOne
      <3> QED
        BY <3>1, <3>2
    <2>2. ASSUME NEW r \in Slots, slave'[r] = "signal" PROVE pc'[job'[r]] = "returned"
      <3>1. slave[r] = "signal" /\ job[r] # u /\ job[r] \in Activities
        BY <1>1, <1>3, <2>2 DEF ArgumentsHeld, ProgramTypeOK, TypeOK, Activities
      <3>2. pc[job[r]] = "returned"
        BY <3>1 DEF ExecutedByOne
      <3> QED
        BY <1>1, <1>5, <3>1, <3>2
    <2> QED
      BY <2>1, <2>2 DEF ExecutedByOne
  <1> QED
    BY <1>1, <1>7, <1>8, <1>9, <1>10, TasksStay

(* addTask pushes its task. *)
LEMMA AddPushBooks ==
  ASSUME ProgramTypeOK, Bookkeeping, NEW a \in Activities, SameProgram,
         NEW self \in SelfIfNone, AddQueued(a, self) \/ AddStarting(a, self)
  PROVE  Bookkeeping'
  <1> USE CacheAssumption, ProgramAssumption DEF Bookkeeping
  <1> DEFINE u == arg[a]  q == taskQueue  n == Len(taskQueue) + 1
  <1>1. /\ UNCHANGED <<maxThreads, finishedTasks, job, owned, phase, todo>>
        /\ pc[a] = "addMax"
        /\ arg' = [arg EXCEPT ![a] = NoTask]
        /\ taskQueue' = Append(q, u)
    BY DEF AddQueued, AddStarting, HoldsTotalGetsMax, SameProgram, settings
  <1>2. u \in Tasks /\ u # NoTask /\ u \in owned[Parent[u]]
    <2>1. u \in Tasks /\ u # NoTask
      BY <1>1 DEF ArgumentsHeld, ProgramTypeOK, TypeOK
    <2>2. u \in owned[a] /\ owned[a] \subseteq Children(a)
      BY <2>1 DEF Ownership
    <2> QED
      BY <2>1, <2>2 DEF Children
  <1>3. /\ pc'[a] \in {"app", "addStarted"}
        /\ \A b \in Activities : b # a => pc'[b] = pc[b] /\ goal'[b] = goal[b]
        /\ arg'[a] = NoTask /\ \A b \in Activities : b # a => arg'[b] = arg[b]
    <2>1. pc \in [Activities -> CallStates] /\ arg \in [Activities -> Tasks \cup {NoTask}]
      BY DEF ProgramTypeOK, TypeOK
    <2>2. goal \in [Activities -> Int]
      BY DEF ProgramTypeOK, TypeOK
    <2> HIDE CacheAssumption, ProgramAssumption DEF Bookkeeping
    <2> QED
      BY <2>1, <2>2 DEF AddQueued, AddStarting
  <1>4. \A s \in Slots : slave'[s] = slave[s]
          \/ /\ slave[s] \in {"none", "sleeping"} /\ slave'[s] \in {"starting", "get"}
             /\ slave[s] = "none" => s <= maxThreads /\ maxThreads > 1
    <2>1. slave \in [Slots -> SlaveStates]
      BY DEF ProgramTypeOK, TypeOK
    <2>2. CASE AddQueued(a, self)
      BY <2>1, <2>2 DEF AddQueued, SignalReady
    <2>3. CASE AddStarting(a, self)
      <3>1. PICK s \in FreeSlots : SignalReady([slave EXCEPT ![s] = "starting"])
        BY <2>3 DEF AddStarting
      <3>2. s \in 1 .. maxThreads /\ slave[s] = "none" /\ maxThreads > 1 /\ s \in Slots
        BY <2>3 DEF AddStarting, FreeSlots, IsSerial, ProgramTypeOK, TypeOK, Slots
      <3> DEFINE live == [slave EXCEPT ![s] = "starting"]
      <3>3. live \in [Slots -> SlaveStates] /\ live[s] = "starting"
              /\ \A r \in Slots : r # s => live[r] = slave[r]
        BY <2>1, <3>2 DEF SlaveStates
      <3> HIDE DEF live
      <3>4. \A r \in Slots : slave'[r] = live[r] \/ (live[r] = "sleeping" /\ slave'[r] = "get")
        BY <3>1, <3>3 DEF SignalReady, live
      <3> QED
        BY <3>2, <3>3, <3>4
    <2> QED
      BY <2>2, <2>3
  <1>5. /\ \A b \in Activities : b # a => arg[b] # u
        /\ \A s \in Slots : job[s] # u
        /\ \A i \in DOMAIN q : q[i] # u
        /\ u \notin finishedTasks
    <2>1. ASSUME NEW b \in Activities, b # a, arg[b] = u PROVE FALSE
      <3>1. u \in owned[a] /\ u \in owned[b]
        BY <1>2, <2>1 DEF Ownership
      <3> QED
        BY <2>1, <3>1 DEF Ownership, Children
    <2>2. (\A s \in Slots : job[s] # u) /\ (\A i \in DOMAIN q : q[i] # u) /\ u \notin finishedTasks
      BY <1>2 DEF Exclusive
    <2> QED
      BY <2>1, <2>2
  <1>6. /\ n \in DOMAIN taskQueue' /\ taskQueue'[n] = u
        /\ \A i \in DOMAIN q : i \in DOMAIN taskQueue' /\ taskQueue'[i] = q[i]
        /\ \A i \in DOMAIN taskQueue' : i = n \/ i \in DOMAIN q
    BY <1>1, <1>2, QueuePush DEF ProgramTypeOK, TypeOK
  <1> HIDE DEF n, u
  <1>7. ArgumentsHeld'
    <2>1. \A b \in Activities :
            arg'[b] # NoTask <=> pc'[b] \in {"addTotal", "addMax", "serial", "threw"}
      BY <1>3 DEF ArgumentsHeld
    <2>2. \A s \in Slots : job'[s] # NoTask <=> slave'[s] \in {"popped", "exec", "signal"}
      BY <1>1, <1>4 DEF ArgumentsHeld
    <2> QED
      BY <2>1, <2>2 DEF ArgumentsHeld
  <1>8. GoalFits'
    BY <1>3 DEF GoalFits
  <1>9. SlotsFit'
    BY <1>1, <1>4 DEF SlotsFit
  <1>10. ConstructorAlone'
    <2>1. u \in owned[a]
      BY <1>2 DEF Ownership, u
    <2> QED
      BY <1>1, <2>1 DEF ConstructorAlone
  <1>11. ExecutedByOne'
    <2>1. \A s \in Slots :
            /\ slave'[s] \in {"exec", "signal"} <=> slave[s] \in {"exec", "signal"}
            /\ slave[s] \in {"exec", "signal"} => job'[s] = job[s]
            /\ slave'[s] = "signal" => slave[s] = "signal"
      BY <1>1, <1>4
    <2>2. \A b \in Activities : /\ pc'[b] = "serial" <=> pc[b] = "serial"
                                /\ pc[b] = "serial" => arg'[b] = arg[b]
      BY <1>1, <1>3
    <2>3. \A t \in Tasks : /\ pc'[t] = "idle" <=> pc[t] = "idle"
                           /\ pc[t] = "returned" => pc'[t] = "returned"
      BY <1>1, <1>3 DEF Activities
    <2> QED
      BY <2>1, <2>2, <2>3, ExecutionStays
  <1>12. Ownership'
    <2>1. \A i \in DOMAIN taskQueue' : taskQueue'[i] \in owned[Parent[taskQueue'[i]]]
      BY <1>2, <1>6 DEF Ownership, u
    <2>2. \A b \in Activities : arg'[b] # NoTask => arg'[b] \in owned[b]
      BY <1>3 DEF Ownership
    <2> QED
      BY <1>1, <2>1, <2>2 DEF Ownership
  <1>13. Exclusive'
    <2>1. \A i, j \in DOMAIN taskQueue' : taskQueue'[i] = taskQueue'[j] => i = j
      BY <1>5, <1>6 DEF Exclusive
    <2>2. ASSUME NEW i \in DOMAIN taskQueue'
          PROVE  /\ \A b \in Activities : arg'[b] # taskQueue'[i]
                 /\ \A s \in Slots : job'[s] # taskQueue'[i]
                 /\ taskQueue'[i] \notin finishedTasks'
      <3>1. CASE i = n
        BY <1>1, <1>2, <1>3, <1>5, <1>6, <3>1 DEF u
      <3>2. CASE i \in DOMAIN q
        <4>1. taskQueue'[i] = q[i] /\ q[i] # NoTask
          BY <1>6, <3>2 DEF ProgramTypeOK, TypeOK, Activities
        <4>2. \A b \in Activities : arg'[b] # q[i]
          BY <1>3, <3>2, <4>1 DEF Exclusive
        <4> QED
          BY <1>1, <3>2, <4>1, <4>2 DEF Exclusive
      <3> QED
        BY <1>6, <3>1, <3>2
    <2>3. \A s, r \in Slots : job'[s] # NoTask /\ job'[s] = job'[r] => s = r
      BY <1>1 DEF Exclusive
    <2>4. \A s \in Slots : /\ \A b \in Activities : arg'[b] # NoTask => arg'[b] # job'[s]
                           /\ job'[s] \notin finishedTasks'
      BY <1>1, <1>3 DEF Exclusive
    <2>5. \A b \in Activities : arg'[b] \notin finishedTasks'
      <3>1. NoTask \notin finishedTasks
        BY DEF ProgramTypeOK, TypeOK, Activities
      <3> QED
        BY <1>1, <1>3, <3>1 DEF Exclusive
    <2> QED
      BY <2>1, <2>2, <2>3, <2>4, <2>5 DEF Exclusive
  <1>14. NothingLost'
    <2> SUFFICES ASSUME NEW t \in Tasks, t \in owned[Parent[t]]
                 PROVE  \/ \E b \in Activities : arg'[b] = t
                        \/ \E i \in DOMAIN taskQueue' : taskQueue'[i] = t
                        \/ \E s \in Slots : job'[s] = t
                        \/ t \in finishedTasks'
      BY <1>1 DEF NothingLost
    <2>1. CASE \E b \in Activities : arg[b] = t
      BY <1>3, <1>6, <2>1 DEF u
    <2>2. CASE \E i \in DOMAIN q : q[i] = t
      BY <1>6, <2>2
    <2> QED
      BY <1>1, <2>1, <2>2 DEF NothingLost
  <1> QED
    BY <1>7, <1>8, <1>9, <1>10, <1>11, <1>12, <1>13, <1>14

(* signalTaskFinished for a task the caller has executed itself. *)
LEMMA SerialDoneBooks ==
  ASSUME ProgramTypeOK, Bookkeeping, NEW a \in Activities, SameProgram, SerialDone(a)
  PROVE  Bookkeeping'
  <1> USE CacheAssumption, ProgramAssumption DEF Bookkeeping
  <1> DEFINE u == arg[a]
  <1>1. /\ UNCHANGED <<maxThreads, taskQueue, slave, job, goal, owned, phase, todo>>
        /\ pc[a] = "serial" /\ pc[u] = "returned"
        /\ pc' = [AllGatherers EXCEPT ![a] = "app", ![u] = "idle"]
        /\ arg' = [arg EXCEPT ![a] = NoTask]
        /\ finishedTasks' = finishedTasks \cup {u}
    BY DEF SerialDone, SameProgram, settings, threads
  <1>2. u \in Tasks /\ u # NoTask /\ u \in Activities /\ arg[u] = NoTask /\ u # a
    BY <1>1 DEF ArgumentsHeld, ProgramTypeOK, TypeOK, Activities
  <1>3. /\ pc'[u] = "idle" /\ pc'[a] = "app"
        /\ \A b \in Activities : b # u /\ b # a =>
             pc'[b] = pc[b] \/ (pc[b] = "gatherSleeping" /\ pc'[b] = "gather")
        /\ arg'[a] = NoTask /\ \A b \in Activities : b # a => arg'[b] = arg[b]
    BY <1>1, <1>2 DEF ProgramTypeOK, TypeOK, AllGatherers
  <1>4. /\ \A b \in Activities : b # a => arg[b] # u
        /\ \A s \in Slots : job[s] # u
        /\ \A i \in DOMAIN taskQueue : taskQueue[i] # u
    <2>1. ASSUME NEW b \in Activities, b # a, arg[b] = u PROVE FALSE
      <3>1. u \in owned[a] /\ u \in owned[b]
        BY <1>2, <2>1 DEF Ownership
      <3> QED
        BY <2>1, <3>1 DEF Ownership, Children
    <2>2. (\A s \in Slots : job[s] # u) /\ (\A i \in DOMAIN taskQueue : taskQueue[i] # u)
      BY <1>2 DEF Exclusive
    <2> QED
      BY <2>1, <2>2
  <1>5. u \in owned[a] /\ Parent[u] = a
    BY <1>2 DEF Ownership, Children
  <1> HIDE DEF u
  <1>6. ArgumentsHeld'
    <2>1. \A b \in Activities :
            arg'[b] # NoTask <=> pc'[b] \in {"addTotal", "addMax", "serial", "threw"}
      <3>1. arg'[u] = NoTask
        BY <1>2, <1>3 DEF u
      <3> QED
        BY <1>3, <3>1 DEF ArgumentsHeld
    <2> QED
      BY <1>1, <2>1 DEF ArgumentsHeld
  <1>7. GoalFits'
    BY <1>1, <1>3 DEF GoalFits
  <1>8. SlotsFit'
    BY <1>1 DEF SlotsFit
  <1>9. ConstructorAlone'
    BY <1>1, <1>5 DEF ConstructorAlone
  <1>10. Ownership'
    <2>1. \A b \in Activities : arg'[b] # NoTask => arg'[b] \in owned[b]
      BY <1>3 DEF Ownership
    <2>2. \A t \in finishedTasks' : t \in owned[Parent[t]]
      BY <1>1, <1>5 DEF Ownership
    <2> QED
      BY <1>1, <2>1, <2>2 DEF Ownership
  <1>11. Exclusive'
    <2>1. finishedTasks \subseteq Tasks /\ NoTask \notin Tasks
      BY DEF ProgramTypeOK, TypeOK, Activities
    <2>2. ASSUME NEW i \in DOMAIN taskQueue'
          PROVE  /\ \A b \in Activities : arg'[b] # taskQueue'[i]
                 /\ \A s \in Slots : job'[s] # taskQueue'[i]
                 /\ taskQueue'[i] \notin finishedTasks'
      <3>1. taskQueue[i] \in Tasks /\ i \in DOMAIN taskQueue
        BY <1>1 DEF ProgramTypeOK, TypeOK
      <3> QED
        BY <1>1, <1>3, <1>4, <2>1, <3>1 DEF Exclusive
    <2>3. \A s \in Slots : /\ \A b \in Activities : arg'[b] # NoTask => arg'[b] # job'[s]
                           /\ job'[s] \notin finishedTasks'
      BY <1>1, <1>3, <1>4 DEF Exclusive
    <2>4. \A b \in Activities : arg'[b] \notin finishedTasks'
      BY <1>1, <1>2, <1>3, <1>4, <2>1 DEF Exclusive
    <2> QED
      BY <1>1, <2>2, <2>3, <2>4 DEF Exclusive
  <1>12. NothingLost'
    <2> SUFFICES ASSUME NEW t \in Tasks, t \in owned[Parent[t]]
                 PROVE  \/ \E b \in Activities : arg'[b] = t
                        \/ \E i \in DOMAIN taskQueue' : taskQueue'[i] = t
                        \/ \E s \in Slots : job'[s] = t
                        \/ t \in finishedTasks'
      BY <1>1 DEF NothingLost
    <2>1. CASE \E b \in Activities : arg[b] = t
      BY <1>1, <1>3, <2>1 DEF u
    <2> QED
      BY <1>1, <2>1 DEF NothingLost
  <1>13. ExecutedByOne'
    <2>1. ASSUME NEW t \in Tasks
          PROVE  pc'[t] # "idle" <=>
                   \/ \E r \in Slots : job'[r] = t /\ slave'[r] \in {"exec", "signal"}
                   \/ \E b \in Activities : arg'[b] = t /\ pc'[b] = "serial"
      <3>1. CASE t = u
        BY <1>1, <1>2, <1>3, <1>4, <3>1
      <3>2. CASE t # u
        <4>1. pc'[t] # "idle" <=> pc[t] # "idle"
          BY <1>1, <1>3, <3>2 DEF Activities
        <4>2. (\E b \in Activities : arg'[b] = t /\ pc'[b] = "serial")
                <=> (\E b \in Activities : arg[b] = t /\ pc[b] = "serial")
          <5>1. ASSUME NEW b \in Activities
                PROVE  arg'[b] = t /\ pc'[b] = "serial" <=> arg[b] = t /\ pc[b] = "serial"
            <6>1. CASE b = a
              BY <1>3, <3>2, <6>1 DEF u
            <6>2. CASE b = u
              BY <1>1, <1>3, <6>2
            <6>3. CASE b # a /\ b # u
              BY <1>3, <6>3
            <6> QED
              BY <6>1, <6>2, <6>3
          <5> QED
            BY <5>1
        <4> QED
          BY <1>1, <4>1, <4>2 DEF ExecutedByOne
      <3> QED
        BY <3>1, <3>2
    <2>2. ASSUME NEW r \in Slots, slave'[r] = "signal" PROVE pc'[job'[r]] = "returned"
      <3>1. slave[r] = "signal" /\ job[r] # u /\ job[r] \in Activities
        BY <1>1, <1>4, <2>2 DEF ArgumentsHeld, ProgramTypeOK, TypeOK, Activities
      <3>2. pc[job[r]] = "returned" /\ job[r] # a
        BY <1>1, <3>1 DEF ExecutedByOne
      <3> QED
        BY <1>1, <1>3, <3>1, <3>2
    <2> QED
      BY <2>1, <2>2 DEF ExecutedByOne
  <1> QED
    BY <1>6, <1>7, <1>8, <1>9, <1>10, <1>11, <1>12, <1>13

(* waitForTasks returns: the collected tasks leave the cache. *)
LEMMA CollectBooks ==
  ASSUME ProgramTypeOK, Bookkeeping, NEW a \in Activities, SameProgram, Collect(a)
  PROVE  Bookkeeping'
  <1> USE CacheAssumption, ProgramAssumption DEF Bookkeeping
  <1>1. /\ UNCHANGED <<maxThreads, taskQueue, slave, job, arg, goal, phase, todo>>
        /\ pc[a] \in {"app", "gather"}
        /\ owned[a] # {}
        /\ finishedTasks' = finishedTasks \ owned[a]
    BY DEF Collect, SameProgram, settings, threads
  <1>2. /\ pc'[a] = "app" /\ owned'[a] = owned[a] \ finishedTasks
        /\ \A b \in Activities : b # a => pc'[b] = pc[b] /\ owned'[b] = owned[b]
    BY DEF Collect, ProgramTypeOK, TypeOK
  <1>3. \A b \in Activities : pc'[b] # pc[b] =>
           /\ pc[b] \in {"addTotal", "addMax", "threw"}
                <=> pc'[b] \in {"addTotal", "addMax", "threw"}
           /\ pc[b] # "serial" /\ pc'[b] # "serial"
           /\ b \in Tasks => pc[b] \notin {"idle", "returned"} /\ pc'[b] # "idle"
    BY <1>1, <1>2
  <1>4. ArgumentsHeld' /\ ExecutedByOne'
    BY <1>1, <1>3, StatesMove
  <1>5. GoalFits'
    BY <1>1, <1>2 DEF GoalFits
  <1>6. SlotsFit' /\ ConstructorAlone'
    BY <1>1, <1>2 DEF SlotsFit, ConstructorAlone
  <1>7. \A t \in Tasks : t \in owned[Parent[t]] /\ t \notin finishedTasks => t \in owned'[Parent[t]]
    BY <1>2
  <1>8. Ownership'
    <2>1. \A b \in Activities :
            owned'[b] \subseteq Children(b) /\ todo'[b] \subseteq Children(b) \ owned'[b]
      BY <1>1, <1>2 DEF Ownership
    <2>2. ASSUME NEW b \in Activities, arg'[b] # NoTask PROVE arg'[b] \in owned'[b]
      <3>1. arg[b] \in owned[b] /\ arg[b] \notin finishedTasks
        BY <1>1, <2>2 DEF Ownership, Exclusive
      <3> QED
        BY <1>1, <1>2, <3>1
    <2>3. ASSUME NEW i \in DOMAIN taskQueue' PROVE taskQueue'[i] \in owned'[Parent[taskQueue'[i]]]
      <3>1. taskQueue[i] \in Tasks /\ i \in DOMAIN taskQueue
        BY <1>1 DEF ProgramTypeOK, TypeOK
      <3> QED
        BY <1>1, <1>7, <3>1 DEF Ownership, Exclusive
    <2>4. ASSUME NEW s \in Slots, job'[s] # NoTask PROVE job'[s] \in owned'[Parent[job'[s]]]
      <3>1. job[s] \in Tasks
        BY <1>1, <2>4 DEF ProgramTypeOK, TypeOK
      <3> QED
        BY <1>1, <1>7, <2>4, <3>1 DEF Ownership, Exclusive
    <2>5. ASSUME NEW t \in finishedTasks' PROVE t \in owned'[Parent[t]]
      <3>1. t \in Tasks /\ t \in owned[Parent[t]] /\ t \notin owned[a]
        BY <1>1 DEF ProgramTypeOK, TypeOK, Ownership
      <3> QED
        BY <1>2, <3>1
    <2> QED
      BY <2>1, <2>2, <2>3, <2>4, <2>5 DEF Ownership
  <1>9. Exclusive'
    BY <1>1 DEF Exclusive
  <1>10. NothingLost'
    <2> SUFFICES ASSUME NEW t \in Tasks, t \in owned'[Parent[t]]
                 PROVE  \/ \E b \in Activities : arg'[b] = t
                        \/ \E i \in DOMAIN taskQueue' : taskQueue'[i] = t
                        \/ \E s \in Slots : job'[s] = t
                        \/ t \in finishedTasks'
      BY DEF NothingLost
    <2>1. t \in owned[Parent[t]] /\ (Parent[t] = a => t \notin finishedTasks)
      BY <1>2
    <2>2. t \in owned[a] => Parent[t] = a
      BY DEF Ownership, Children
    <2> QED
      BY <1>1, <2>1, <2>2 DEF NothingLost
  <1> QED
    BY <1>4, <1>5, <1>6, <1>8, <1>9, <1>10

-----------------------------------------------------------------------------
(* The theorems *)

LEMMA InitBooks == Init => Bookkeeping
  <1> USE CacheAssumption, ProgramAssumption
  <1> SUFFICES ASSUME Init PROVE Bookkeeping
    OBVIOUS
  <1>1. PICK onDemand \in OnDemand, mx \in NumPthreads : CacheInit(Main, onDemand, mx)
    BY DEF Init
  <1>2. /\ Main \in Activities /\ mx \in 0 .. MaxSlots
        /\ \A a \in Activities : /\ pc[a] \in {"setMax", "idle"} /\ arg[a] = NoTask
                                 /\ owned[a] = {} /\ todo[a] = Children(a)
                                 /\ goal[a] \in {0, mx}
                                 /\ a # Main => pc[a] = "idle"
        /\ pc[Main] = "setMax"
    BY <1>1 DEF Init, CacheInit, Activities, Slots
  <1>3. /\ \A s \in Slots : slave[s] = "none" /\ job[s] = NoTask
        /\ taskQueue = <<>> /\ finishedTasks = {}
    BY <1>1 DEF CacheInit
  <1>4. DOMAIN taskQueue = {}
    BY <1>3
  <1>5. ArgumentsHeld /\ ConstructorAlone /\ SlotsFit
    BY <1>2, <1>3 DEF ArgumentsHeld, ConstructorAlone, SlotsFit
  <1>6. GoalFits
    BY <1>2 DEF GoalFits
  <1>7. Ownership
    BY <1>2, <1>3, <1>4 DEF Ownership
  <1>8. Exclusive
    BY <1>2, <1>3, <1>4 DEF Exclusive
  <1>9. NothingLost
    BY <1>2 DEF NothingLost
  <1>10. ExecutedByOne
    <2>1. Main \notin Tasks /\ \A t \in Tasks : t \in Activities
      BY DEF Activities
    <2>2. \A t \in Tasks : pc[t] = "idle"
      BY <1>2, <2>1
    <2> QED
      BY <1>2, <1>3, <2>2 DEF ExecutedByOne
  <1> QED
    BY <1>5, <1>6, <1>7, <1>8, <1>9, <1>10 DEF Bookkeeping

LEMMA NextBooks ==
  ASSUME ProgramTypeOK, Bookkeeping, [Next]_vars
  PROVE  ProgramTypeOK' /\ Bookkeeping'
  <1>0. ArgumentsHeld /\ GoalFits
    BY DEF Bookkeeping
  <1>1. ASSUME NEW s \in Slots, SlaveStep(s) PROVE ProgramTypeOK' /\ Bookkeeping'
    BY <1>0, <1>1, SlaveType, SlaveIdlesBooks, SlavePopBooks, SlaveExecBooks, SlaveDoneBooks,
       SlaveSignalBooks DEF SlaveStep
  <1>2. ASSUME NEW a \in Activities, AddStep(a) PROVE ProgramTypeOK' /\ Bookkeeping'
    BY <1>0, <1>2, AddType, WaitsBooks, AddSerialBooks, AddPushBooks, SerialDoneBooks DEF AddStep
  <1>3. ASSUME NEW a \in Activities, GatherStep(a) PROVE ProgramTypeOK' /\ Bookkeeping'
    BY <1>3, GatherType, WaitsBooks, CollectBooks DEF GatherStep
  <1>4. ASSUME NEW a \in Activities, SetMaxStep(a) PROVE ProgramTypeOK' /\ Bookkeeping'
    BY <1>0, <1>4, SetMaxType, SetMaxBooks
  <1>5. ASSUME NEW a \in Activities, ProgramStep(a) PROVE ProgramTypeOK' /\ Bookkeeping'
    BY <1>5, ProgramType, ScatterBooks, ProgramBooks DEF ProgramStep
  <1>6. CASE \/ \E c \in Callers : NextRound(c) \/ Resize(c)
             \/ Constructed \/ Destroy \/ Stop
    BY <1>6, ProgramType, ProgramBooks DEF Stop
  <1>7. CASE Wake
    <2>1. ASSUME NEW s \in Slots, SlaveWake(s), SameProgram PROVE ProgramTypeOK' /\ Bookkeeping'
      <3>1. ProgramTypeOK'
        BY <2>1 DEF SlaveWake, SameProgram, ProgramTypeOK, TypeOK, SlaveStates, settings,
           counters, queues, locks, calls
      <3> QED
        BY <2>1, <3>1, SlaveIdlesBooks
    <2>2. ASSUME NEW a \in Activities, GatherWake(a), SameProgram
          PROVE  ProgramTypeOK' /\ Bookkeeping'
      BY <2>2, GatherType, WaitsBooks
    <2> QED
      BY <1>7, <2>1, <2>2 DEF Wake
  <1>8. CASE UNCHANGED vars
    <2>1. ProgramTypeOK'
      BY <1>8 DEF vars, cacheVars, settings, counters, queues, locks, threads, calls,
         ProgramTypeOK, TypeOK
    <2> QED
      BY <1>8, <2>1, ProgramBooks
  <1> QED
    BY <1>1, <1>2, <1>3, <1>4, <1>5, <1>6, <1>7, <1>8 DEF Next, CallStep

(* The inductive invariant: types, and where every task, call and slave stands. *)
THEOREM BookkeepingHolds == Spec => [](ProgramTypeOK /\ Bookkeeping)
  <1>1. Init => ProgramTypeOK /\ Bookkeeping
    BY InitType, InitBooks
  <1>2. ProgramTypeOK /\ Bookkeeping /\ [Next]_vars => (ProgramTypeOK /\ Bookkeeping)'
    BY NextBooks
  <1> QED
    BY <1>1, <1>2, PTL DEF Spec

(* PThreadCache keeps its state well formed under every program. *)
THEOREM TypeCorrect == Spec => []ProgramTypeOK
  BY BookkeepingHolds, PTL

(* exec() is run by one slave, or by the caller of addTask, until it is shown finished. *)
THEOREM OneExecutor == Spec => []ExecutedByOne
  <1>1. ProgramTypeOK /\ Bookkeeping => ExecutedByOne
    BY DEF Bookkeeping
  <1> QED
    BY <1>1, BookkeepingHolds, PTL

LEMMA BooksGiveHome == ProgramTypeOK /\ Bookkeeping => OneHome
  <1> USE CacheAssumption, ProgramAssumption DEF Bookkeeping
  <1> SUFFICES ASSUME ProgramTypeOK, Bookkeeping, NEW t \in Tasks
               PROVE  IF t \in owned[Parent[t]] THEN \E h \in Homes(t) : Homes(t) = {h}
                      ELSE Homes(t) = {}
    BY DEF OneHome
  <1>1. t # NoTask
    BY DEF Activities
  <1>2. \A h : h \in Homes(t) <=>
          \/ \E a \in Activities : arg[a] = t /\ h = <<"call", a>>
          \/ \E i \in DOMAIN taskQueue : taskQueue[i] = t /\ h = <<"queue", i>>
          \/ \E s \in Slots : job[s] = t /\ h = <<"slave", s>>
          \/ t \in finishedTasks /\ h = <<"finished", t>>
    BY DEF Homes
  <1>3. CASE t \notin owned[Parent[t]]
    <2>1. \A a \in Activities : arg[a] # t
      BY <1>1, <1>3 DEF Ownership, Children
    <2>2. \A i \in DOMAIN taskQueue : taskQueue[i] # t
      BY <1>3 DEF Ownership
    <2>3. (\A s \in Slots : job[s] # t) /\ t \notin finishedTasks
      BY <1>1, <1>3 DEF Ownership
    <2> QED
      BY <1>2, <1>3, <2>1, <2>2, <2>3
  <1>4. CASE t \in owned[Parent[t]]
    <2>1. \E h : h \in Homes(t)
      BY <1>2, <1>4 DEF NothingLost
    <2>2. ASSUME NEW g \in Homes(t), NEW h \in Homes(t) PROVE g = h
      <3>1. \A a, b \in Activities : arg[a] = t /\ arg[b] = t => a = b
        BY <1>1 DEF Ownership, Children
      <3>2. \A i, j \in DOMAIN taskQueue : taskQueue[i] = t /\ taskQueue[j] = t => i = j
        BY DEF Exclusive
      <3>3. \A s, r \in Slots : job[s] = t /\ job[r] = t => s = r
        BY <1>1 DEF Exclusive
      <3>4. \A i \in DOMAIN taskQueue : taskQueue[i] = t =>
              /\ \A a \in Activities : arg[a] # t
              /\ \A s \in Slots : job[s] # t
              /\ t \notin finishedTasks
        BY DEF Exclusive
      <3>5. \A s \in Slots : job[s] = t =>
              (\A a \in Activities : arg[a] # t) /\ t \notin finishedTasks
        BY <1>1 DEF Exclusive
      <3>6. \A a \in Activities : arg[a] = t => t \notin finishedTasks
        BY DEF Exclusive
      <3> QED
        BY <1>2, <3>1, <3>2, <3>3, <3>4, <3>5, <3>6
    <2> QED
      BY <1>4, <2>1, <2>2
  <1> QED
    BY <1>3, <1>4

(* addTask, getTask, signalTaskFinished and waitForTasks lose no task and copy none. *)
THEOREM NoTaskLost == Spec => []OneHome
  BY BooksGiveHome, BookkeepingHolds, PTL

-----------------------------------------------------------------------------
(* The threads *)

(* A call holds a lock over a step exactly where the code can be stuck with it. *)
LocksHeld ==
  \A a \in Activities :
    /\ totalLock = a <=> pc[a] \in {"addMax", "threw"}
    /\ maxLock = a <=> pc[a] \in {"setMaxJoin", "threw", "setMaxThrew", "wild"}
    /\ queueLock = a <=> pc[a] = "threw"

LockStates == {"addMax", "threw", "setMaxJoin", "setMaxThrew", "wild"}

(* A slave has left its loop, or is leaving it, only because it was told to. *)
QuitOnly == \A s \in Slots : slave[s] \in {"quit", "exited"} => slavesQuit

-----------------------------------------------------------------------------
(* The locks *)

(* No lock changes hands, and no call enters or leaves a step in which it holds one. *)
LocksStay ==
  /\ UNCHANGED locks
  /\ \A b \in Activities :
       pc'[b] = pc[b] \/ (pc[b] \notin LockStates /\ pc'[b] \notin LockStates)

LEMMA LocksStayHeld ==
  ASSUME LocksHeld, LocksStay
  PROVE  LocksHeld'
  BY DEF LocksHeld, LocksStay, LockStates, locks

(* A task on its way to an executor is idle; one that has an executor is not. *)
LEMMA TaskStates ==
  ASSUME ProgramTypeOK, Bookkeeping
  PROVE  /\ \A s \in Slots :
              /\ slave[s] \in {"popped", "exec", "signal"} => job[s] \in Tasks
              /\ slave[s] = "popped" => pc[job[s]] = "idle"
              /\ slave[s] = "exec" => pc[job[s]] # "idle"
              /\ slave[s] = "signal" => pc[job[s]] = "returned"
         /\ \A a \in Activities :
              /\ pc[a] \in {"addTotal", "addMax", "serial", "threw"} =>
                   arg[a] \in Tasks /\ arg[a] # a
              /\ pc[a] \in {"addTotal", "addMax", "threw"} => pc[arg[a]] = "idle"
              /\ pc[a] = "serial" => pc[arg[a]] # "idle"
  <1> USE CacheAssumption, ProgramAssumption DEF ProgramTypeOK, TypeOK
  <1>1. ASSUME NEW s \in Slots, slave[s] \in {"popped", "exec", "signal"}
        PROVE  job[s] \in Tasks /\ job[s] # NoTask
    BY <1>1 DEF Bookkeeping, ArgumentsHeld
  <1>2. ASSUME NEW s \in Slots, slave[s] = "popped" PROVE pc[job[s]] = "idle"
    <2>1. \A r \in Slots : job[r] = job[s] => r = s
      BY <1>1, <1>2 DEF Bookkeeping, Exclusive
    <2>2. \A a \in Activities : arg[a] # job[s]
      BY <1>1, <1>2 DEF Bookkeeping, Exclusive
    <2> QED
      BY <1>1, <1>2, <2>1, <2>2 DEF Bookkeeping, ExecutedByOne
  <1>3. \A s \in Slots : slave[s] = "exec" => pc[job[s]] # "idle"
    BY <1>1 DEF Bookkeeping, ExecutedByOne
  <1>4. \A s \in Slots : slave[s] = "signal" => pc[job[s]] = "returned"
    BY DEF Bookkeeping, ExecutedByOne
  <1>5. ASSUME NEW a \in Activities, pc[a] \in {"addTotal", "addMax", "serial", "threw"}
        PROVE  arg[a] \in Tasks /\ arg[a] # NoTask /\ arg[a] # a
    <2>1. arg[a] \in Tasks /\ arg[a] # NoTask
      BY <1>5 DEF Bookkeeping, ArgumentsHeld
    <2>2. Parent[arg[a]] = a
      BY <2>1 DEF Bookkeeping, Ownership, Children
    <2> QED
      BY <2>1, <2>2
  <1>6. ASSUME NEW a \in Activities, pc[a] \in {"addTotal", "addMax", "threw"}
        PROVE  pc[arg[a]] = "idle"
    <2>1. \A r \in Slots : job[r] # arg[a]
      BY <1>5, <1>6 DEF Bookkeeping, Exclusive
    <2>2. ASSUME NEW b \in Activities, arg[b] = arg[a] PROVE b = a
      <3>1. arg[a] \in owned[a] /\ arg[a] \in owned[b]
        BY <1>5, <1>6, <2>2 DEF Bookkeeping, Ownership
      <3> QED
        BY <3>1 DEF Bookkeeping, Ownership, Children
    <2> QED
      BY <1>5, <1>6, <2>1, <2>2 DEF Bookkeeping, ExecutedByOne
  <1>7. \A a \in Activities : pc[a] = "serial" => pc[arg[a]] # "idle"
    BY <1>5 DEF Bookkeeping, ExecutedByOne
  <1> QED
    BY <1>1, <1>2, <1>3, <1>4, <1>5, <1>6, <1>7

(* The slaves take the spinlocks only for the length of a step. *)
LEMMA SlaveLocks ==
  ASSUME ProgramTypeOK, Bookkeeping, NEW s \in Slots, SlaveStep(s) \/ SlaveWake(s)
  PROVE  LocksStay
  <1> USE DEF ProgramTypeOK, TypeOK, LocksStay, LockStates, calls
  <1>1. CASE SlaveExec(s)
    <2>1. job[s] \in Tasks /\ pc[job[s]] = "idle"
      BY <1>1, TaskStates DEF SlaveExec
    <2> QED
      BY <1>1, <2>1 DEF SlaveExec, Activities
  <1>2. CASE SlaveSignal(s)
    <2>1. pc[job[s]] = "returned"
      BY <1>2 DEF SlaveSignal, Bookkeeping, ExecutedByOne
    <2> QED
      BY <1>2, <2>1 DEF SlaveSignal, AllGatherers
  <1>3. CASE SlaveStart(s) \/ SlaveQuit(s) \/ SlaveSleep(s) \/ SlavePop(s) \/ SlaveDone(s)
             \/ SlaveExit(s) \/ SlaveWake(s)
    BY <1>3 DEF SlaveStart, SlaveQuit, SlaveSleep, SlavePop, SlaveDone, SlaveExit, SlaveWake
  <1> QED
    BY <1>1, <1>2, <1>3 DEF SlaveStep

(* addTask takes total_threads_spinlock, gives it back, or keeps all three when it throws. *)
LEMMA AddLocks ==
  ASSUME ProgramTypeOK, Bookkeeping, LocksHeld, NEW a \in Activities, AddStep(a)
  PROVE  LocksHeld'
  <1> USE CacheAssumption DEF ProgramTypeOK, TypeOK, LocksHeld
  <1>1. CASE AddLockTotal(a)
    BY <1>1 DEF AddLockTotal, Activities
  <1>2. ASSUME NEW self \in SelfIfNone, AddSerial(a, self) PROVE LocksHeld'
    <2>1. arg[a] \in Activities /\ arg[a] # a /\ pc[arg[a]] = "idle" /\ pc[a] = "addMax"
      BY <1>2, TaskStates DEF AddSerial, HoldsTotalGetsMax, Activities
    <2> QED
      BY <1>2, <2>1 DEF AddSerial
  <1>3. ASSUME NEW self \in SelfIfNone, AddQueued(a, self) \/ AddStarting(a, self)
        PROVE  LocksHeld'
    BY <1>3 DEF AddQueued, AddStarting, HoldsTotalGetsMax
  <1>4. ASSUME NEW self \in SelfIfNone, AddThrows(a, self) PROVE LocksHeld'
    BY <1>4 DEF AddThrows, HoldsTotalGetsMax
  <1>5. CASE ThreadStarted(a)
    BY <1>5 DEF ThreadStarted, locks
  <1>6. CASE SerialDone(a)
    <2>1. arg[a] \in Activities /\ arg[a] # a /\ pc[arg[a]] = "returned" /\ pc[a] = "serial"
      BY <1>6, TaskStates DEF SerialDone, Activities
    <2>2. LocksStay
      BY <1>6, <2>1 DEF SerialDone, AllGatherers, LocksStay, LockStates
    <2> QED
      BY <2>2, LocksStayHeld
  <1> QED
    BY <1>1, <1>2, <1>3, <1>4, <1>5, <1>6 DEF AddStep

(* set_max_threads keeps max_threads_spinlock while it joins the slaves. *)
LEMMA SetMaxLocks ==
  ASSUME ProgramTypeOK, LocksHeld, NEW a \in Activities, SetMaxStep(a)
  PROVE  LocksHeld'
  <1> USE CacheAssumption DEF ProgramTypeOK, TypeOK, LocksHeld
  <1>1. CASE SetMaxSame(a)
    BY <1>1 DEF SetMaxSame, AfterSetMax, locks
  <1>2. CASE SetMaxStop(a)
    BY <1>2 DEF SetMaxStop
  <1>3. ASSUME NoThreadsLeft(a)
        PROVE  /\ pc[a] \in {"setMax", "setMaxJoin"}
               /\ \A b \in Activities : b # a => maxLock # b
    BY <1>3 DEF NoThreadsLeft, Activities
  <1>4. CASE SetMaxInstalls(a)
    <2>1. /\ \A b \in Activities : b # a => pc'[b] = pc[b]
          /\ pc'[a] \in {"setMaxStarted", "app"}
          /\ UNCHANGED <<totalLock, queueLock>> /\ maxLock' = Nobody
      BY <1>4 DEF SetMaxInstalls, InstallMax, AfterSetMax
    <2> QED
      BY <1>3, <1>4, <2>1 DEF SetMaxInstalls
  <1>5. CASE SetMaxFails(a)
    BY <1>3, <1>5 DEF SetMaxFails
  <1> QED
    BY <1>1, <1>2, <1>4, <1>5 DEF SetMaxStep

(* A gathering thread and the program hold none. *)
LEMMA OtherLocks ==
  ASSUME ProgramTypeOK, Bookkeeping,
         \/ \E a \in Activities : GatherStep(a) \/ GatherWake(a) \/ ProgramStep(a)
         \/ \E c \in Callers : NextRound(c) \/ Resize(c)
         \/ Constructed \/ Destroy \/ UNCHANGED vars
  PROVE  LocksStay
  <1> USE ProgramAssumption DEF ProgramTypeOK, TypeOK, LocksStay, LockStates
  <1>1. ASSUME NEW a \in Activities, GatherStep(a) \/ GatherWake(a) PROVE LocksStay
    BY <1>1 DEF GatherStep, Collect, GatherSleep, GatherWake
  <1>2. ASSUME NEW a \in Activities, ProgramStep(a) PROVE LocksStay
    BY <1>2 DEF ProgramStep, Scatter, CallAddTask, Return, Finished
  <1>3. ASSUME NEW c \in Callers, NextRound(c) \/ Resize(c) PROVE LocksStay
    BY <1>3 DEF NextRound, Resize, CallSetMaxThreads, cacheVars, calls, Activities
  <1>4. CASE Constructed
    <2>1. \A a \in Callers : pc[a] \in {"idle", "app"}
      BY <1>4 DEF Constructed, Bookkeeping, ConstructorAlone, Activities
    <2> QED
      BY <1>4, <2>1 DEF Constructed
  <1>5. CASE Destroy \/ UNCHANGED vars
    BY <1>5 DEF Destroy, CallSetMaxThreads, vars, cacheVars, calls, Activities
  <1> QED
    BY <1>1, <1>2, <1>3, <1>4, <1>5

-----------------------------------------------------------------------------
(* Stopping the slaves *)

(* A slave falls asleep only when not told to quit, and leaves its loop only when told to. *)
SlavesObey ==
  \A s \in Slots :
    \/ slave'[s] \notin {"sleeping", "quit", "exited"}
    \/ slave'[s] = "sleeping" /\ (slave[s] = "sleeping" \/ ~slavesQuit)
    \/ slave'[s] \in {"quit", "exited"} /\ (slave[s] \in {"quit", "exited"} \/ slavesQuit)

(* What keeps a running set_max_threads, or its absence, as it is. *)
LEMMA QuitStays ==
  ASSUME QuitReachesAll, QuitOnly, UNCHANGED slavesQuit,
         \A b \in Activities :
           pc'[b] = "setMaxJoin" /\ maxLock' = b <=> pc[b] = "setMaxJoin" /\ maxLock = b,
         SlavesObey
  PROVE  QuitReachesAll' /\ QuitOnly'
  <1>1. QuitOnly'
    BY DEF QuitOnly, SlavesObey
  <1>2. QuitReachesAll'
    BY DEF QuitReachesAll, SlavesObey
  <1> QED
    BY <1>1, <1>2

LEMMA LocksStayQuits ==
  ASSUME LocksStay, QuitReachesAll, QuitOnly, UNCHANGED slavesQuit,
         SlavesObey
  PROVE  QuitReachesAll' /\ QuitOnly'
  <1>1. \A b \in Activities :
          pc'[b] = "setMaxJoin" /\ maxLock' = b <=> pc[b] = "setMaxJoin" /\ maxLock = b
    BY DEF LocksStay, LockStates, locks
  <1> QED
    BY <1>1, QuitStays

(* getTask: told to quit, a slave does; not told, it may sleep. *)
LEMMA SlaveQuits ==
  ASSUME ProgramTypeOK, Bookkeeping, QuitReachesAll, QuitOnly,
         NEW s \in Slots, SlaveStep(s) \/ SlaveWake(s)
  PROVE  QuitReachesAll' /\ QuitOnly'
  <1>1. UNCHANGED slavesQuit
    BY DEF SlaveStep, SlaveStart, SlaveQuit, SlaveSleep, SlavePop, SlaveExec, SlaveDone,
       SlaveSignal, SlaveExit, SlaveWake, settings
  <1>2. ASSUME NEW r \in Slots
        PROVE  \/ slave'[r] = slave[r]
               \/ slave'[r] \in {"get", "popped", "exec", "signal"}
               \/ slave'[r] = "sleeping" /\ ~slavesQuit
               \/ slave'[r] = "quit" /\ slavesQuit
               \/ slave'[r] = "exited" /\ slave[r] = "quit"
    BY DEF SlaveStep, SlaveStart, SlaveQuit, SlaveSleep, SlavePop, SlaveExec, SlaveDone,
       SlaveSignal, SlaveExit, SlaveWake, ProgramTypeOK, TypeOK
  <1>3. LocksStay
    BY SlaveLocks
  <1>4. SlavesObey
    BY <1>2 DEF SlavesObey
  <1> QED
    BY <1>1, <1>3, <1>4, LocksStayQuits

(* addTask starts slaves in empty slots and wakes slaves, nothing else. *)
LEMMA AddWakesOnly ==
  ASSUME ProgramTypeOK, NEW a \in Activities, AddStep(a), NEW r \in Slots
  PROVE  \/ slave'[r] = slave[r]
         \/ slave[r] = "sleeping" /\ slave'[r] = "get"
         \/ slave[r] = "none" /\ slave'[r] = "starting" /\ createOnDemand
  <1>1. ASSUME NEW f, f \in [Slots -> SlaveStates], SignalReady(f)
        PROVE  slave'[r] = f[r] \/ (f[r] = "sleeping" /\ slave'[r] = "get")
    BY <1>1 DEF SignalReady
  <1>2. ASSUME NEW self \in SelfIfNone, AddQueued(a, self)
        PROVE  slave'[r] = slave[r] \/ (slave[r] = "sleeping" /\ slave'[r] = "get")
    BY <1>1, <1>2 DEF AddQueued, ProgramTypeOK, TypeOK
  <1>3. ASSUME NEW self \in SelfIfNone, AddStarting(a, self)
        PROVE  \/ slave'[r] = slave[r]
               \/ slave[r] = "sleeping" /\ slave'[r] = "get"
               \/ slave[r] = "none" /\ slave'[r] = "starting" /\ createOnDemand
    <2>1. PICK s \in FreeSlots : SignalReady([slave EXCEPT ![s] = "starting"])
      BY <1>3 DEF AddStarting
    <2> DEFINE f == [slave EXCEPT ![s] = "starting"]
    <2>2. /\ f \in [Slots -> SlaveStates]
          /\ f[r] = slave[r] \/ (slave[r] = "none" /\ f[r] = "starting")
      BY DEF ProgramTypeOK, TypeOK, SlaveStates, FreeSlots
    <2> HIDE DEF f
    <2>3. SignalReady(f)
      BY <2>1 DEF f
    <2>4. createOnDemand
      BY <1>3 DEF AddStarting, NeedsThread
    <2> QED
      BY <1>1, <2>2, <2>3, <2>4
  <1> QED
    BY <1>2, <1>3 DEF AddStep, AddLockTotal, AddSerial, AddThrows, ThreadStarted, SerialDone,
       threads

(* addTask starts and wakes slaves; it cannot get past set_max_threads. *)
LEMMA AddQuits ==
  ASSUME ProgramTypeOK, Bookkeeping, LocksHeld, QuitReachesAll, QuitOnly,
         NEW a \in Activities, AddStep(a)
  PROVE  QuitReachesAll' /\ QuitOnly'
  <1>1. UNCHANGED slavesQuit
    BY DEF AddStep, AddLockTotal, AddSerial, AddQueued, AddStarting, AddThrows, ThreadStarted,
       SerialDone, settings
  <1>2. \A r \in Slots : slave'[r] = slave[r] \/ slave'[r] \in {"get", "starting"}
    BY AddWakesOnly
  <1>3. ASSUME NEW b \in Activities
        PROVE  pc'[b] = "setMaxJoin" /\ maxLock' = b <=> pc[b] = "setMaxJoin" /\ maxLock = b
    <2> USE CacheAssumption DEF ProgramTypeOK, TypeOK
    <2>1. ASSUME NEW self \in SelfIfNone, AddThrows(a, self)
          PROVE  pc'[b] = "setMaxJoin" /\ maxLock' = b <=> pc[b] = "setMaxJoin" /\ maxLock = b
      BY <2>1 DEF AddThrows, HoldsTotalGetsMax, Activities
    <2>2. ASSUME NEW self \in SelfIfNone, AddSerial(a, self)
          PROVE  pc'[b] = "setMaxJoin" /\ maxLock' = b <=> pc[b] = "setMaxJoin" /\ maxLock = b
      BY <2>2 DEF AddSerial, HoldsTotalGetsMax, Activities
    <2>3. ASSUME NEW self \in SelfIfNone, AddQueued(a, self) \/ AddStarting(a, self)
          PROVE  pc'[b] = "setMaxJoin" /\ maxLock' = b <=> pc[b] = "setMaxJoin" /\ maxLock = b
      BY <2>3 DEF AddQueued, AddStarting, HoldsTotalGetsMax
    <2>4. CASE AddLockTotal(a) \/ ThreadStarted(a)
      BY <2>4 DEF AddLockTotal, ThreadStarted, locks
    <2>5. CASE SerialDone(a)
      <3>1. pc[a] = "serial" /\ arg[a] \in Activities /\ pc[arg[a]] = "returned"
        BY <2>5, TaskStates DEF SerialDone, Activities
      <3> QED
        BY <2>5, <3>1 DEF SerialDone, AllGatherers, locks
    <2> QED
      BY <2>1, <2>2, <2>3, <2>4, <2>5 DEF AddStep
  <1>4. SlavesObey
    BY <1>2 DEF SlavesObey
  <1> QED
    BY <1>1, <1>3, <1>4, QuitStays

(* set_max_threads raises slaves_quit with every sleeper woken, and lowers it when all have
   been joined. *)
LEMMA SetMaxQuits ==
  ASSUME ProgramTypeOK, Bookkeeping, LocksHeld, QuitReachesAll, QuitOnly,
         NEW a \in Activities, SetMaxStep(a)
  PROVE  QuitReachesAll' /\ QuitOnly'
  <1> USE CacheAssumption DEF ProgramTypeOK, TypeOK
  <1>1. CASE SetMaxSame(a)
    <2>1. UNCHANGED <<slavesQuit, maxLock, slave>>
      BY <1>1 DEF SetMaxSame, settings, locks, threads
    <2>2. /\ \A b \in Activities : b # a => pc'[b] = pc[b]
          /\ pc[a] = "setMax" /\ pc'[a] # "setMaxJoin"
      BY <1>1 DEF SetMaxSame, AfterSetMax
    <2>3. SlavesObey
      BY <2>1 DEF SlavesObey
    <2>4. \A b \in Activities :
            pc'[b] = "setMaxJoin" /\ maxLock' = b <=> pc[b] = "setMaxJoin" /\ maxLock = b
      BY <2>1, <2>2
    <2> QED
      BY <2>1, <2>3, <2>4, QuitStays
  <1>2. CASE SetMaxStop(a)
    <2>1. slavesQuit' /\ pc'[a] = "setMaxJoin" /\ maxLock' = a
      BY <1>2 DEF SetMaxStop
    <2>2. \A s \in Slots : slave'[s] # "sleeping"
      BY <1>2 DEF SetMaxStop, AllReady
    <2> QED
      BY <2>1, <2>2 DEF QuitReachesAll, QuitOnly
  <1>3. CASE SetMaxInstalls(a)
    <2>1. ~slavesQuit' /\ maxLock' = Nobody
      BY <1>3 DEF SetMaxInstalls
    <2>2. \A s \in Slots : slave'[s] \in {"starting", "none"}
      BY <1>3 DEF SetMaxInstalls, InstallMax
    <2>3. \A b \in Activities : maxLock' # b
      BY <2>1
    <2> QED
      BY <2>1, <2>2, <2>3 DEF QuitReachesAll, QuitOnly
  <1>4. CASE SetMaxFails(a)
    <2>1. ~slavesQuit' /\ maxLock' = a /\ pc'[a] # "setMaxJoin"
      BY <1>4 DEF SetMaxFails
    <2>2. \A s \in Slots : slave'[s] \in {"starting", "none"}
      BY <1>4 DEF SetMaxFails
    <2> QED
      BY <2>1, <2>2 DEF QuitReachesAll, QuitOnly
  <1> QED
    BY <1>1, <1>2, <1>3, <1>4 DEF SetMaxStep

(* Nobody else starts, stops or wakes a slave, or touches the counters and the queue. *)
LEMMA OthersIdle ==
  ASSUME \/ \E a \in Activities : GatherStep(a) \/ GatherWake(a) \/ ProgramStep(a)
         \/ \E c \in Callers : NextRound(c) \/ Resize(c)
         \/ Constructed \/ Destroy \/ UNCHANGED vars
  PROVE  UNCHANGED <<createOnDemand, maxThreads, slavesQuit, counters, taskQueue, threads>>
  BY DEF GatherStep, Collect, GatherSleep, GatherWake, ProgramStep, Scatter, CallAddTask, Return,
     NextRound, Resize, CallSetMaxThreads, Constructed, Destroy, vars, cacheVars, settings,
     counters, queues, threads

LEMMA OtherQuits ==
  ASSUME ProgramTypeOK, Bookkeeping, QuitReachesAll, QuitOnly,
         \/ \E a \in Activities : GatherStep(a) \/ GatherWake(a) \/ ProgramStep(a)
         \/ \E c \in Callers : NextRound(c) \/ Resize(c)
         \/ Constructed \/ Destroy \/ UNCHANGED vars
  PROVE  QuitReachesAll' /\ QuitOnly'
  <1>1. LocksStay /\ UNCHANGED <<slavesQuit, slave>>
    BY OtherLocks, OthersIdle DEF threads
  <1>2. SlavesObey
    BY <1>1 DEF SlavesObey
  <1> QED
    BY <1>1, <1>2, LocksStayQuits

-----------------------------------------------------------------------------
(* Counting slaves *)

InStates(f, P) == {s \in Slots : f[s] \in P}
Number(f, P) == Cardinality(InStates(f, P))

CountedStates == {"get", "sleeping", "popped", "exec", "signal", "quit"}
ActiveStates == {"exec"}
ReadyStates == {"get"}

LEMMA NumberIsNat ==
  ASSUME NEW f, NEW P
  PROVE  IsFiniteSet(InStates(f, P)) /\ Number(f, P) \in Nat
  <1>1. IsFiniteSet(Slots)
    BY CacheAssumption, FS_Interval DEF Slots
  <1>2. IsFiniteSet(InStates(f, P))
    BY <1>1, FS_Subset DEF InStates
  <1> QED
    BY <1>2, FS_CardinalityType DEF Number

(* One slave enters the states P, leaves them, or does neither. *)
LEMMA NumberGrows ==
  ASSUME NEW f, NEW g, NEW s \in Slots, \A r \in Slots : r # s => g[r] = f[r],
         NEW P, g[s] \in P, f[s] \notin P
  PROVE  Number(g, P) = Number(f, P) + 1
  <1> DEFINE A == InStates(f, P)
             B == InStates(g, P)
  <1>1. B = A \cup {s} /\ s \notin A
    BY DEF InStates
  <1>2. Cardinality(A \cup {s}) = Cardinality(A) + 1
    BY <1>1, NumberIsNat, FS_AddElement
  <1>3. Cardinality(B) = Cardinality(A) + 1
    BY <1>1, <1>2
  <1> QED
    BY <1>3 DEF Number

LEMMA NumberShrinks ==
  ASSUME NEW f, NEW g, NEW s \in Slots, \A r \in Slots : r # s => g[r] = f[r],
         NEW P, g[s] \notin P, f[s] \in P
  PROVE  Number(g, P) = Number(f, P) - 1
  <1> DEFINE A == InStates(f, P)
             B == InStates(g, P)
  <1>1. B = A \ {s} /\ s \in A
    BY DEF InStates
  <1>2. Cardinality(A \ {s}) = Cardinality(A) - 1
    BY <1>1, NumberIsNat, FS_RemoveElement
  <1>3. Cardinality(B) = Cardinality(A) - 1
    BY <1>1, <1>2
  <1> QED
    BY <1>3 DEF Number

LEMMA NumberKeeps ==
  ASSUME NEW f, NEW g, NEW P, NEW s \in Slots, \A r \in Slots : r # s => g[r] = f[r],
         g[s] \in P <=> f[s] \in P
  PROVE  Number(g, P) = Number(f, P)
  BY DEF Number, InStates

(* No slave enters or leaves the states P. *)
LEMMA NumberStays ==
  ASSUME NEW f, NEW g, NEW P, \A s \in Slots : f[s] \in P <=> g[s] \in P
  PROVE  Number(f, P) = Number(g, P)
  BY DEF Number, InStates

LEMMA NumberZero ==
  ASSUME NEW f, NEW P, \A s \in Slots : f[s] \notin P
  PROVE  Number(f, P) = 0
  BY FS_EmptySet DEF Number, InStates

(* The counters, as numbers of slaves. *)
LEMMA CountsAreNumbers ==
  CountsExact <=> /\ totalThreads = Number(slave, CountedStates)
                  /\ activeThreads = Number(slave, ActiveStates)
                  /\ SlotsFit
  BY DEF CountsExact, Counted, Active, Number, InStates, CountedStates, ActiveStates

(* pthread_cond_signal wakes a sleeping slave, and there is one more on its way to the queue. *)
LEMMA SignalWakes ==
  ASSUME NEW f, f \in [Slots -> SlaveStates], SignalReady(f)
  PROVE  /\ Number(slave', CountedStates) = Number(f, CountedStates)
         /\ Number(slave', ActiveStates) = Number(f, ActiveStates)
         /\ \/ \A s \in Slots : slave'[s] # "sleeping"
            \/ Number(slave', ReadyStates) = Number(f, ReadyStates) + 1
  <1>1. CASE slave' = f /\ \A s \in Slots : f[s] # "sleeping"
    BY <1>1
  <1>2. ASSUME NEW s \in Slots, f[s] = "sleeping", slave' = [f EXCEPT ![s] = "get"]
        PROVE  /\ Number(slave', CountedStates) = Number(f, CountedStates)
               /\ Number(slave', ActiveStates) = Number(f, ActiveStates)
               /\ Number(slave', ReadyStates) = Number(f, ReadyStates) + 1
    <2>1. \A r \in Slots : r # s => slave'[r] = f[r]
      BY <1>2
    <2>2. /\ slave'[s] \in CountedStates /\ f[s] \in CountedStates
          /\ slave'[s] \notin ActiveStates /\ f[s] \notin ActiveStates
          /\ slave'[s] \in ReadyStates /\ f[s] \notin ReadyStates
      BY <1>2 DEF CountedStates, ActiveStates, ReadyStates
    <2> QED
      BY <2>1, <2>2, NumberKeeps, NumberGrows
  <1> QED
    BY <1>1, <1>2 DEF SignalReady

(* incrementTotalThreads, decrementTotalThreads, incrementActiveThreads and
   decrementActiveThreads, each by the slave that it counts. *)
LEMMA SlaveCounts ==
  ASSUME ProgramTypeOK, Bookkeeping, CountsExact, NEW s \in Slots, SlaveStep(s) \/ SlaveWake(s),
         SlotsFit'
  PROVE  CountsExact'
  <1> USE DEF ProgramTypeOK, TypeOK
  <1>1. /\ totalThreads = Number(slave, CountedStates)
        /\ activeThreads = Number(slave, ActiveStates)
    BY CountsAreNumbers
  <1>2. s \in Slots /\ \A r \in Slots : r # s => slave'[r] = slave[r]
    BY DEF SlaveStep, SlaveStart, SlaveQuit, SlaveSleep, SlavePop, SlaveExec, SlaveDone,
       SlaveSignal, SlaveExit, SlaveWake
  <1>3. totalThreads' = Number(slave', CountedStates)
    <2>1. CASE SlaveStart(s)
      <3>1. slave'[s] \in CountedStates /\ slave[s] \notin CountedStates
        BY <2>1 DEF SlaveStart, CountedStates
      <3>2. Number(slave', CountedStates) = Number(slave, CountedStates) + 1
        BY ONLY <1>2, <3>1, NumberGrows
      <3> QED
        BY <1>1, <2>1, <3>2 DEF SlaveStart
    <2>2. CASE SlaveExit(s)
      <3>1. slave'[s] \notin CountedStates /\ slave[s] \in CountedStates
        BY <2>2 DEF SlaveExit, CountedStates
      <3>2. Number(slave', CountedStates) = Number(slave, CountedStates) - 1
        BY ONLY <1>2, <3>1, NumberShrinks
      <3> QED
        BY <1>1, <2>2, <3>2 DEF SlaveExit
    <2>3. CASE ~SlaveStart(s) /\ ~SlaveExit(s)
      <3>1. /\ UNCHANGED totalThreads
            /\ slave'[s] \in CountedStates /\ slave[s] \in CountedStates
        BY <2>3 DEF SlaveStep, SlaveQuit, SlaveSleep, SlavePop, SlaveExec, SlaveDone,
           SlaveSignal, SlaveWake, counters, CountedStates
      <3>2. Number(slave', CountedStates) = Number(slave, CountedStates)
        BY ONLY <1>2, <3>1, NumberKeeps
      <3> QED
        BY <1>1, <3>1, <3>2
    <2> QED
      BY <2>1, <2>2, <2>3
  <1>4. activeThreads' = Number(slave', ActiveStates)
    <2>1. CASE SlaveExec(s)
      <3>1. slave'[s] \in ActiveStates /\ slave[s] \notin ActiveStates
        BY <2>1 DEF SlaveExec, ActiveStates
      <3>2. Number(slave', ActiveStates) = Number(slave, ActiveStates) + 1
        BY ONLY <1>2, <3>1, NumberGrows
      <3> QED
        BY <1>1, <2>1, <3>2 DEF SlaveExec
    <2>2. CASE SlaveDone(s)
      <3>1. slave'[s] \notin ActiveStates /\ slave[s] \in ActiveStates
        BY <2>2 DEF SlaveDone, ActiveStates
      <3>2. Number(slave', ActiveStates) = Number(slave, ActiveStates) - 1
        BY ONLY <1>2, <3>1, NumberShrinks
      <3> QED
        BY <1>1, <2>2, <3>2 DEF SlaveDone
    <2>3. CASE ~SlaveExec(s) /\ ~SlaveDone(s)
      <3>1. UNCHANGED activeThreads /\ slave'[s] \notin ActiveStates /\ slave[s] \notin ActiveStates
        BY <2>3 DEF SlaveStep, SlaveStart, SlaveQuit, SlaveSleep, SlavePop, SlaveSignal,
           SlaveExit, SlaveWake, counters, ActiveStates
      <3>2. Number(slave', ActiveStates) = Number(slave, ActiveStates)
        BY ONLY <1>2, <3>1, NumberKeeps
      <3> QED
        BY <1>1, <3>1, <3>2
    <2> QED
      BY <2>1, <2>2, <2>3
  <1>5. CountsExact' <=> /\ totalThreads' = Number(slave', CountedStates)
                         /\ activeThreads' = Number(slave', ActiveStates)
                         /\ SlotsFit'
    BY DEF CountsExact, Counted, Active, Number, InStates, CountedStates, ActiveStates
  <1> QED
    BY <1>3, <1>4, <1>5

(* No slave is counted, and none is not, because of an addTask. *)
LEMMA AddNumbers ==
  ASSUME ProgramTypeOK, NEW a \in Activities, AddStep(a)
  PROVE  /\ UNCHANGED counters
         /\ Number(slave', CountedStates) = Number(slave, CountedStates)
         /\ Number(slave', ActiveStates) = Number(slave, ActiveStates)
         /\ \/ \A s \in Slots : slave'[s] # "sleeping"
            \/ /\ taskQueue' = taskQueue
               /\ slave' = slave
            \/ /\ taskQueue' = Append(taskQueue, arg[a]) /\ pc[a] = "addMax"
               /\ Number(slave', ReadyStates) = Number(slave, ReadyStates) + 1
  <1> USE DEF ProgramTypeOK, TypeOK
  <1>1. UNCHANGED counters
    BY DEF AddStep, AddLockTotal, AddSerial, AddQueued, AddStarting, AddThrows, ThreadStarted,
       SerialDone
  <1>2. ASSUME NEW self \in SelfIfNone, AddQueued(a, self)
        PROVE  SignalReady(slave) /\ taskQueue' = Append(taskQueue, arg[a]) /\ pc[a] = "addMax"
    BY <1>2 DEF AddQueued, HoldsTotalGetsMax
  <1>3. ASSUME NEW self \in SelfIfNone, AddStarting(a, self)
        PROVE  /\ \E f \in [Slots -> SlaveStates] :
                    /\ SignalReady(f)
                    /\ Number(f, CountedStates) = Number(slave, CountedStates)
                    /\ Number(f, ActiveStates) = Number(slave, ActiveStates)
                    /\ Number(f, ReadyStates) = Number(slave, ReadyStates)
               /\ taskQueue' = Append(taskQueue, arg[a]) /\ pc[a] = "addMax"
    <2>1. PICK s \in FreeSlots : SignalReady([slave EXCEPT ![s] = "starting"])
      BY <1>3 DEF AddStarting
    <2> DEFINE f == [slave EXCEPT ![s] = "starting"]
    <2>2. f \in [Slots -> SlaveStates]
      BY DEF SlaveStates
    <2>3. /\ s \in Slots /\ \A r \in Slots : r # s => f[r] = slave[r]
          /\ f[s] = "starting" /\ slave[s] = "none"
      BY CacheAssumption DEF FreeSlots, Slots
    <2>4. /\ f[s] \notin CountedStates /\ slave[s] \notin CountedStates
          /\ f[s] \notin ActiveStates /\ slave[s] \notin ActiveStates
          /\ f[s] \notin ReadyStates /\ slave[s] \notin ReadyStates
      BY <2>3 DEF CountedStates, ActiveStates, ReadyStates
    <2> HIDE DEF f
    <2>5. Number(f, CountedStates) = Number(slave, CountedStates)
      BY ONLY <2>3, <2>4, NumberKeeps
    <2>6. Number(f, ActiveStates) = Number(slave, ActiveStates)
      BY ONLY <2>3, <2>4, NumberKeeps
    <2>7. Number(f, ReadyStates) = Number(slave, ReadyStates)
      BY ONLY <2>3, <2>4, NumberKeeps
    <2>8. SignalReady(f)
      BY <2>1 DEF f
    <2> QED
      BY <1>3, <2>2, <2>5, <2>6, <2>7, <2>8 DEF AddStarting, HoldsTotalGetsMax
  <1>4. ASSUME NEW f \in [Slots -> SlaveStates], SignalReady(f),
               Number(f, CountedStates) = Number(slave, CountedStates),
               Number(f, ActiveStates) = Number(slave, ActiveStates),
               Number(f, ReadyStates) = Number(slave, ReadyStates)
        PROVE  /\ Number(slave', CountedStates) = Number(slave, CountedStates)
               /\ Number(slave', ActiveStates) = Number(slave, ActiveStates)
               /\ \/ \A s \in Slots : slave'[s] # "sleeping"
                  \/ Number(slave', ReadyStates) = Number(slave, ReadyStates) + 1
    BY <1>4, SignalWakes
  <1>5. ASSUME NEW self \in SelfIfNone, AddQueued(a, self) \/ AddStarting(a, self)
        PROVE  /\ Number(slave', CountedStates) = Number(slave, CountedStates)
               /\ Number(slave', ActiveStates) = Number(slave, ActiveStates)
               /\ \/ \A s \in Slots : slave'[s] # "sleeping"
                  \/ /\ taskQueue' = Append(taskQueue, arg[a]) /\ pc[a] = "addMax"
                     /\ Number(slave', ReadyStates) = Number(slave, ReadyStates) + 1
    BY <1>2, <1>3, <1>4, <1>5
  <1>6. ASSUME ~ \E self \in SelfIfNone : AddQueued(a, self) \/ AddStarting(a, self)
        PROVE  UNCHANGED <<taskQueue, slave>>
    BY <1>6 DEF AddStep, AddLockTotal, AddSerial, AddThrows, ThreadStarted, SerialDone, queues,
       threads
  <1> QED
    BY <1>1, <1>5, <1>6

(* set_max_threads: waking the sleepers counts nobody; new slots are installed when no
   slave is left to be counted. *)
LEMMA SetMaxNumbers ==
  ASSUME ProgramTypeOK, SlotsFit, NEW a \in Activities, SetMaxStep(a)
  PROVE  /\ UNCHANGED <<counters, taskQueue>>
         /\ Number(slave', CountedStates) = Number(slave, CountedStates)
         /\ Number(slave', ActiveStates) = Number(slave, ActiveStates)
         /\ slave' = slave \/ \A s \in Slots : slave'[s] # "sleeping"
  <1>1. UNCHANGED <<counters, taskQueue>>
    BY DEF SetMaxStep, SetMaxSame, SetMaxStop, SetMaxInstalls, SetMaxFails, queues
  <1>2. CASE SetMaxSame(a)
    BY <1>1, <1>2 DEF SetMaxSame, threads
  <1>3. CASE SetMaxStop(a)
    <2>1. \A s \in Slots : slave'[s] = slave[s]
             \/ (slave[s] = "sleeping" /\ slave'[s] = "get")
      BY <1>3 DEF SetMaxStop, AllReady
    <2>2. \A s \in Slots : /\ slave'[s] \in CountedStates <=> slave[s] \in CountedStates
                           /\ slave'[s] \in ActiveStates <=> slave[s] \in ActiveStates
      BY <2>1 DEF CountedStates, ActiveStates
    <2>3. \A s \in Slots : slave'[s] # "sleeping"
      BY <1>3 DEF SetMaxStop, AllReady
    <2> QED
      BY <1>1, <2>2, <2>3, NumberStays
  <1>4. ASSUME NoThreadsLeft(a)
        PROVE  /\ Number(slave, CountedStates) = 0
               /\ Number(slave, ActiveStates) = 0
    <2>1. \A s \in Slots : slave[s] \in {"none", "exited"}
      BY <1>4 DEF NoThreadsLeft, SlotsFit, ProgramTypeOK, TypeOK
    <2>2. \A s \in Slots : slave[s] \notin CountedStates /\ slave[s] \notin ActiveStates
      BY <2>1 DEF CountedStates, ActiveStates
    <2> QED
      BY <2>2, NumberZero
  <1>5. CASE SetMaxInstalls(a) \/ SetMaxFails(a)
    <2>1. \A s \in Slots : slave'[s] \in {"none", "starting"}
      BY <1>5 DEF SetMaxInstalls, InstallMax, SetMaxFails
    <2>2. \A s \in Slots : slave'[s] \notin CountedStates /\ slave'[s] \notin ActiveStates
      BY <2>1 DEF CountedStates, ActiveStates
    <2>3. Number(slave', CountedStates) = 0 /\ Number(slave', ActiveStates) = 0
      BY <2>2, NumberZero
    <2>4. NoThreadsLeft(a)
      BY <1>5 DEF SetMaxInstalls, SetMaxFails
    <2> QED
      BY <1>1, <1>4, <2>1, <2>3, <2>4
  <1> QED
    BY <1>2, <1>3, <1>5 DEF SetMaxStep

(* The counters and the slaves move together. *)
LEMMA NumbersStay ==
  ASSUME CountsExact, SlotsFit', UNCHANGED counters,
         Number(slave', CountedStates) = Number(slave, CountedStates),
         Number(slave', ActiveStates) = Number(slave, ActiveStates)
  PROVE  CountsExact'
  <1>1. CountsExact' <=> /\ totalThreads' = Number(slave', CountedStates)
                         /\ activeThreads' = Number(slave', ActiveStates)
                         /\ SlotsFit'
    BY DEF CountsExact, Counted, Active, Number, InStates, CountedStates, ActiveStates
  <1> QED
    BY <1>1, CountsAreNumbers DEF counters

LEMMA NextCounts ==
  ASSUME ProgramTypeOK, Bookkeeping, CountsExact, [Next]_vars
  PROVE  CountsExact'
  <1>1. SlotsFit /\ SlotsFit'
    BY NextBooks DEF Bookkeeping
  <1>2. ASSUME NEW s \in Slots, SlaveStep(s) \/ SlaveWake(s) PROVE CountsExact'
    BY <1>1, <1>2, SlaveCounts
  <1>3. ASSUME NEW a \in Activities, AddStep(a) PROVE CountsExact'
    BY <1>1, <1>3, AddNumbers, NumbersStay
  <1>4. ASSUME NEW a \in Activities, SetMaxStep(a) PROVE CountsExact'
    BY <1>1, <1>4, SetMaxNumbers, NumbersStay
  <1>5. ASSUME \/ \E a \in Activities : GatherStep(a) \/ GatherWake(a) \/ ProgramStep(a)
               \/ \E c \in Callers : NextRound(c) \/ Resize(c)
               \/ Constructed \/ Destroy \/ UNCHANGED vars
        PROVE  CountsExact'
    <2>1. UNCHANGED <<counters, slave>>
      BY <1>5, OthersIdle DEF threads
    <2> QED
      BY <1>1, <2>1, NumbersStay
  <1> QED
    BY <1>2, <1>3, <1>4, <1>5 DEF Next, CallStep, Wake, Stop

-----------------------------------------------------------------------------
(* No lost wakeup *)

LEMMA WakeupNumbers ==
  NoLostWakeup <=> ((\E s \in Slots : slave[s] = "sleeping") =>
                      Len(taskQueue) <= Number(slave, ReadyStates))
  BY DEF NoLostWakeup, Number, InStates, ReadyStates

(* A slave that comes to the queue, waits at it, or takes a task from it. *)
LEMMA SlaveWakeup ==
  ASSUME ProgramTypeOK, NoLostWakeup, QuitReachesAll, NEW s \in Slots, SlaveStep(s) \/ SlaveWake(s)
  PROVE  NoLostWakeup'
  <1> USE DEF ProgramTypeOK, TypeOK
  <1>1. NoLostWakeup' <=> ((\E r \in Slots : slave'[r] = "sleeping") =>
                             Len(taskQueue') <= Number(slave', ReadyStates))
    BY DEF NoLostWakeup, Number, InStates, ReadyStates
  <1>2. s \in Slots /\ \A r \in Slots : r # s => slave'[r] = slave[r]
    BY DEF SlaveStep, SlaveStart, SlaveQuit, SlaveSleep, SlavePop, SlaveExec, SlaveDone,
       SlaveSignal, SlaveExit, SlaveWake
  <1>3. Number(slave, ReadyStates) \in Nat /\ Number(slave', ReadyStates) \in Nat
        /\ Len(taskQueue) \in Nat
    BY NumberIsNat
  <1>4. CASE SlaveQuit(s)
    BY <1>1, <1>4 DEF SlaveQuit, QuitReachesAll
  <1>5. CASE SlaveSleep(s)
    <2>1. Len(taskQueue') = 0
      BY <1>5 DEF SlaveSleep, queues
    <2> QED
      BY <1>1, <1>3, <2>1
  <1>6. CASE SlavePop(s)
    <2>1. slave'[s] \notin ReadyStates /\ slave[s] \in ReadyStates /\ slave'[s] # "sleeping"
      BY <1>6 DEF SlavePop, ReadyStates
    <2>2. Number(slave', ReadyStates) = Number(slave, ReadyStates) - 1
      BY ONLY <1>2, <2>1, NumberShrinks
    <2>3. Len(taskQueue') = Len(taskQueue) - 1
      BY <1>6 DEF SlavePop
    <2>4. \A r \in Slots : slave'[r] = "sleeping" => slave[r] = "sleeping"
      BY <1>2, <2>1
    <2> QED
      BY <1>1, <1>3, <2>2, <2>3, <2>4, WakeupNumbers
  <1>7. CASE SlaveStart(s) \/ SlaveSignal(s) \/ SlaveWake(s)
    <2>1. slave'[s] \in ReadyStates /\ slave[s] \notin ReadyStates /\ slave'[s] # "sleeping"
      BY <1>7 DEF SlaveStart, SlaveSignal, SlaveWake, ReadyStates
    <2>2. Number(slave', ReadyStates) = Number(slave, ReadyStates) + 1
      BY ONLY <1>2, <2>1, NumberGrows
    <2>3. UNCHANGED taskQueue
      BY <1>7 DEF SlaveStart, SlaveSignal, SlaveWake, queues
    <2>4. \A r \in Slots : slave'[r] = "sleeping" => slave[r] = "sleeping"
      BY <1>2, <2>1
    <2> QED
      BY <1>1, <1>3, <2>2, <2>3, <2>4, WakeupNumbers
  <1>8. CASE SlaveExec(s) \/ SlaveDone(s) \/ SlaveExit(s)
    <2>1. slave'[s] \notin ReadyStates /\ slave[s] \notin ReadyStates /\ slave'[s] # "sleeping"
      BY <1>8 DEF SlaveExec, SlaveDone, SlaveExit, ReadyStates
    <2>2. Number(slave', ReadyStates) = Number(slave, ReadyStates)
      BY ONLY <1>2, <2>1, NumberKeeps
    <2>3. UNCHANGED taskQueue
      BY <1>8 DEF SlaveExec, SlaveDone, SlaveExit, queues
    <2>4. \A r \in Slots : slave'[r] = "sleeping" => slave[r] = "sleeping"
      BY <1>2, <2>1
    <2> QED
      BY <1>1, <2>2, <2>3, <2>4, WakeupNumbers
  <1> QED
    BY <1>4, <1>5, <1>6, <1>7, <1>8 DEF SlaveStep

LEMMA NextWakeup ==
  ASSUME ProgramTypeOK, Bookkeeping, QuitReachesAll, NoLostWakeup, [Next]_vars
  PROVE  NoLostWakeup'
  <1>1. NoLostWakeup' <=> ((\E r \in Slots : slave'[r] = "sleeping") =>
                             Len(taskQueue') <= Number(slave', ReadyStates))
    BY DEF NoLostWakeup, Number, InStates, ReadyStates
  <1>2. ASSUME UNCHANGED <<taskQueue, slave>> PROVE NoLostWakeup'
    BY <1>1, <1>2, WakeupNumbers
  <1>3. ASSUME NEW s \in Slots, SlaveStep(s) \/ SlaveWake(s) PROVE NoLostWakeup'
    BY <1>3, SlaveWakeup
  <1>4. ASSUME NEW a \in Activities, AddStep(a) PROVE NoLostWakeup'
    <2>1. CASE \A s \in Slots : slave'[s] # "sleeping"
      BY <1>1, <2>1
    <2>2. CASE /\ taskQueue' = Append(taskQueue, arg[a]) /\ pc[a] = "addMax"
               /\ Number(slave', ReadyStates) = Number(slave, ReadyStates) + 1
               /\ \E s \in Slots : slave'[s] = "sleeping"
      <3>1. arg[a] \in Tasks /\ taskQueue \in Seq(Tasks)
        BY <2>2, TaskStates DEF ProgramTypeOK, TypeOK
      <3>2. Len(taskQueue') = Len(taskQueue) + 1 /\ Len(taskQueue) \in Nat
        BY <2>2, <3>1
      <3>3. \E s \in Slots : slave[s] = "sleeping"
        BY <1>4, <2>2, AddWakesOnly
      <3>4. Number(slave, ReadyStates) \in Nat
        BY NumberIsNat
      <3> QED
        BY <1>1, <2>2, <3>2, <3>3, <3>4, WakeupNumbers
    <2> QED
      BY <1>2, <1>4, <2>1, <2>2, AddNumbers
  <1>5. ASSUME NEW a \in Activities, SetMaxStep(a) PROVE NoLostWakeup'
    <2>1. SlotsFit
      BY DEF Bookkeeping
    <2> QED
      BY <1>1, <1>2, <1>5, <2>1, SetMaxNumbers
  <1>6. ASSUME \/ \E a \in Activities : GatherStep(a) \/ GatherWake(a) \/ ProgramStep(a)
               \/ \E c \in Callers : NextRound(c) \/ Resize(c)
               \/ Constructed \/ Destroy \/ UNCHANGED vars
        PROVE  NoLostWakeup'
    BY <1>2, <1>6, OthersIdle DEF threads
  <1> QED
    BY <1>3, <1>4, <1>5, <1>6 DEF Next, CallStep, Wake, Stop

-----------------------------------------------------------------------------
(* The theorems *)

(* The inductive invariant of the threads, on top of the bookkeeping of the tasks. *)
ThreadsKept == LocksHeld /\ QuitReachesAll /\ QuitOnly /\ CountsExact /\ NoLostWakeup

LEMMA InitThreads == Init => ThreadsKept
  <1> SUFFICES ASSUME Init PROVE ThreadsKept
    OBVIOUS
  <1>1. PICK onDemand \in OnDemand, mx \in NumPthreads : CacheInit(Main, onDemand, mx)
    BY DEF Init
  <1>2. /\ totalLock = Nobody /\ maxLock = Nobody /\ queueLock = Nobody
        /\ slavesQuit = FALSE /\ totalThreads = 0 /\ activeThreads = 0
        /\ \A a \in Activities : pc[a] \in {"setMax", "idle"} /\ Nobody # a
        /\ \A s \in Slots : slave[s] = "none"
    BY <1>1, CacheAssumption DEF CacheInit
  <1>3. LocksHeld
    BY <1>2 DEF LocksHeld
  <1>4. QuitReachesAll /\ QuitOnly /\ NoLostWakeup
    BY <1>2 DEF QuitReachesAll, QuitOnly, NoLostWakeup
  <1>5. SlotsFit
    BY <1>2 DEF SlotsFit
  <1>6. \A s \in Slots : slave[s] \notin CountedStates /\ slave[s] \notin ActiveStates
    BY <1>2 DEF CountedStates, ActiveStates
  <1>7. Number(slave, CountedStates) = 0 /\ Number(slave, ActiveStates) = 0
    BY <1>6, NumberZero
  <1>8. CountsExact
    BY <1>2, <1>5, <1>7, CountsAreNumbers
  <1> QED
    BY <1>3, <1>4, <1>8 DEF ThreadsKept

LEMMA NextThreads ==
  ASSUME ProgramTypeOK, Bookkeeping, ThreadsKept, [Next]_vars
  PROVE  ThreadsKept'
  <1> USE DEF ThreadsKept
  <1>1. LocksHeld' /\ QuitReachesAll' /\ QuitOnly'
    <2>1. ASSUME NEW s \in Slots, SlaveStep(s) \/ SlaveWake(s)
          PROVE  LocksHeld' /\ QuitReachesAll' /\ QuitOnly'
      BY <2>1, SlaveLocks, LocksStayHeld, SlaveQuits
    <2>2. ASSUME NEW a \in Activities, AddStep(a)
          PROVE  LocksHeld' /\ QuitReachesAll' /\ QuitOnly'
      BY <2>2, AddLocks, AddQuits
    <2>3. ASSUME NEW a \in Activities, SetMaxStep(a)
          PROVE  LocksHeld' /\ QuitReachesAll' /\ QuitOnly'
      BY <2>3, SetMaxLocks, SetMaxQuits
    <2>4. ASSUME \/ \E a \in Activities : GatherStep(a) \/ GatherWake(a) \/ ProgramStep(a)
                 \/ \E c \in Callers : NextRound(c) \/ Resize(c)
                 \/ Constructed \/ Destroy \/ UNCHANGED vars
          PROVE  LocksHeld' /\ QuitReachesAll' /\ QuitOnly'
      BY <2>4, OtherLocks, LocksStayHeld, OtherQuits
    <2> QED
      BY <2>1, <2>2, <2>3, <2>4 DEF Next, CallStep, Wake, Stop
  <1> QED
    BY <1>1, NextCounts, NextWakeup

(* The locks, the flag that stops the slaves and the counters agree with where every thread
   of the process is. *)
THEOREM ThreadsHold == Spec => [](ProgramTypeOK /\ Bookkeeping /\ ThreadsKept)
  <1>1. Init => ProgramTypeOK /\ Bookkeeping /\ ThreadsKept
    BY InitType, InitBooks, InitThreads
  <1>2. (ProgramTypeOK /\ Bookkeeping /\ ThreadsKept) /\ [Next]_vars
          => (ProgramTypeOK /\ Bookkeeping /\ ThreadsKept)'
    BY NextBooks, NextThreads
  <1> QED
    BY <1>1, <1>2, PTL DEF Spec

(* signalSlavesQuit leaves no slave asleep: set_max_threads can join every one. *)
THEOREM NobodyLeftAsleep == Spec => []QuitReachesAll
  <1>1. ThreadsKept => QuitReachesAll
    BY DEF ThreadsKept
  <1> QED
    BY <1>1, ThreadsHold, PTL

(* total_threads and active_threads are exact, whatever the slaves, addTask and
   set_max_threads interleave. *)
THEOREM CountersExact == Spec => []CountsExact
  <1>1. ThreadsKept => CountsExact
    BY DEF ThreadsKept
  <1> QED
    BY <1>1, ThreadsHold, PTL

(* One pthread_cond_signal for each task pushed is enough. *)
THEOREM NoTaskWaitsBesideASleeper == Spec => []NoLostWakeup
  <1>1. ThreadsKept => NoLostWakeup
    BY DEF ThreadsKept
  <1> QED
    BY <1>1, ThreadsHold, PTL

=============================================================================
