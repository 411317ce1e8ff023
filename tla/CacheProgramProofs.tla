------------------------- MODULE CacheProgramProofs -------------------------
(***************************************************************************)
(* Proofs about the thread cache under programs that keep to some rule:    *)
(* no thread fails to start, one caller adds every task, the cache is only *)
(* resized and destroyed when no task is in it; and, under any program,    *)
(* that the cache implements the pool of tasks.                            *)
(***************************************************************************)
EXTENDS ScatterGatherProofs

-----------------------------------------------------------------------------
(* Threads created eagerly *)

LEMMA NumberFits ==
  ASSUME NEW f, NEW P, NEW m \in Nat, \A s \in Slots : f[s] \in P => s <= m
  PROVE  Number(f, P) \in Nat /\ Number(f, P) <= m
  <1>1. InStates(f, P) \subseteq 1 .. m
    BY DEF InStates, Slots
  <1>2. /\ IsFiniteSet(1 .. m) /\ Cardinality(1 .. m) <= m /\ Cardinality(1 .. m) \in Nat
    <2>1. /\ IsFiniteSet(1 .. m)
          /\ Cardinality(1 .. m) = IF 1 > m THEN 0 ELSE m - 1 + 1
      BY FS_Interval
    <2> QED
      BY <2>1
  <1>3. Cardinality(InStates(f, P)) <= Cardinality(1 .. m)
    BY <1>1, <1>2, FS_Subset
  <1>4. Number(f, P) \in Nat
    BY NumberIsNat
  <1> QED
    BY <1>2, <1>3, <1>4 DEF Number

(* There are never more threads than asked for. *)
LEMMA TotalFits ==
  ASSUME ProgramTypeOK, CountsExact
  PROVE  totalThreads \in Nat /\ totalThreads <= maxThreads
  <1>1. maxThreads \in Nat
    BY CacheAssumption DEF ProgramTypeOK, TypeOK
  <1>2. \A s \in Slots : slave[s] \in CountedStates => s <= maxThreads
    BY DEF CountsExact, SlotsFit, CountedStates
  <1> QED
    BY <1>1, <1>2, NumberFits, CountsAreNumbers

LEMMA TotalFitsNext ==
  ASSUME ProgramTypeOK', CountsExact'
  PROVE  totalThreads' \in Nat /\ totalThreads' <= maxThreads'
  <1>1. maxThreads' \in Nat
    BY CacheAssumption DEF ProgramTypeOK, TypeOK
  <1>2. \A s \in Slots : slave'[s] \in CountedStates => s <= maxThreads'
    BY DEF CountsExact, SlotsFit, CountedStates
  <1>3. totalThreads' = Number(slave', CountedStates)
    BY DEF CountsExact, Counted, Number, InStates, CountedStates
  <1> QED
    BY <1>1, <1>2, <1>3, NumberFits

(* A call of set_max_threads that is joining, has failed, or waits for its threads. *)
InstallStates == {"setMaxJoin", "setMaxThrew", "wild", "setMaxStarted"}

InstallsStay ==
  \A a \in Activities : pc[a] \in InstallStates => pc'[a] = pc[a] /\ goal'[a] = goal[a]

(* Threads that are wanted and not yet live are being waited for. *)
ThreadsComing ==
  ~createOnDemand /\ maxThreads > 1 /\ totalThreads # maxThreads =>
    \E a \in Activities :
      \/ pc[a] \in {"setMaxJoin", "setMaxThrew", "wild"}
      \/ pc[a] = "setMaxStarted" /\ goal[a] = maxThreads

LEMMA ComingStays ==
  ASSUME ThreadsComing, InstallsStay, UNCHANGED <<createOnDemand, maxThreads>>,
         totalThreads' = totalThreads \/ totalThreads' = maxThreads
  PROVE  ThreadsComing'
  BY DEF ThreadsComing, InstallsStay, InstallStates

LEMMA SlaveInstalls ==
  ASSUME ProgramTypeOK, Bookkeeping, NEW s \in Slots, SlaveStep(s) \/ SlaveWake(s)
  PROVE  InstallsStay /\ UNCHANGED <<createOnDemand, maxThreads>>
  <1> USE DEF ProgramTypeOK, TypeOK, InstallsStay, InstallStates, settings, calls
  <1>1. CASE SlaveExec(s)
    <2>1. job[s] \in Tasks /\ pc[job[s]] = "idle"
      BY <1>1, TaskStates DEF SlaveExec
    <2> QED
      BY <1>1, <2>1 DEF SlaveExec
  <1>2. CASE SlaveSignal(s)
    <2>1. job[s] \in Tasks /\ pc[job[s]] = "returned"
      BY <1>2, TaskStates DEF SlaveSignal
    <2> QED
      BY <1>2, <2>1 DEF SlaveSignal, AllGatherers
  <1>3. CASE SlaveStart(s) \/ SlaveQuit(s) \/ SlaveSleep(s) \/ SlavePop(s) \/ SlaveDone(s)
             \/ SlaveExit(s) \/ SlaveWake(s)
    BY <1>3 DEF SlaveStart, SlaveQuit, SlaveSleep, SlavePop, SlaveDone, SlaveExit, SlaveWake
  <1> QED
    BY <1>1, <1>2, <1>3 DEF SlaveStep

LEMMA AddInstalls ==
  ASSUME ProgramTypeOK, Bookkeeping, NEW a \in Activities, AddStep(a)
  PROVE  /\ UNCHANGED <<createOnDemand, maxThreads, counters>>
         /\ InstallsStay \/ ThreadStarted(a)
  <1> USE DEF ProgramTypeOK, TypeOK, InstallsStay, InstallStates, settings, calls
  <1>1. UNCHANGED <<createOnDemand, maxThreads, counters>>
    BY DEF AddStep, AddLockTotal, AddSerial, AddQueued, AddStarting, AddThrows, ThreadStarted,
       SerialDone
  <1>2. ASSUME NEW self \in SelfIfNone, AddSerial(a, self) PROVE InstallsStay
    <2>1. arg[a] \in Activities /\ pc[arg[a]] = "idle" /\ pc[a] = "addMax"
      BY <1>2, TaskStates DEF AddSerial, HoldsTotalGetsMax, Activities
    <2> QED
      BY <1>2, <2>1 DEF AddSerial
  <1>3. CASE SerialDone(a)
    <2>1. arg[a] \in Activities /\ pc[arg[a]] = "returned" /\ pc[a] = "serial"
      BY <1>3, TaskStates DEF SerialDone, Activities
    <2> QED
      BY <1>1, <1>3, <2>1 DEF SerialDone, AllGatherers
  <1>4. CASE AddLockTotal(a)
    BY <1>1, <1>4 DEF AddLockTotal
  <1>5. ASSUME NEW self \in SelfIfNone,
               AddQueued(a, self) \/ AddStarting(a, self) \/ AddThrows(a, self)
        PROVE  InstallsStay
    BY <1>5 DEF AddQueued, AddStarting, AddThrows, HoldsTotalGetsMax
  <1> QED
    BY <1>1, <1>2, <1>3, <1>4, <1>5 DEF AddStep

LEMMA OtherInstalls ==
  ASSUME ProgramTypeOK, Bookkeeping,
         \/ \E a \in Activities : GatherStep(a) \/ GatherWake(a) \/ ProgramStep(a)
         \/ \E c \in Callers : NextRound(c) \/ Resize(c)
         \/ Constructed \/ Destroy \/ UNCHANGED vars
  PROVE  InstallsStay
  <1> USE ProgramAssumption DEF ProgramTypeOK, TypeOK, InstallsStay, InstallStates
  <1>1. ASSUME NEW a \in Activities, GatherStep(a) \/ GatherWake(a) PROVE InstallsStay
    BY <1>1 DEF GatherStep, Collect, GatherSleep, GatherWake
  <1>2. ASSUME NEW a \in Activities, ProgramStep(a) PROVE InstallsStay
    BY <1>2 DEF ProgramStep, Scatter, CallAddTask, Return, Finished
  <1>3. ASSUME NEW c \in Callers, NextRound(c) \/ Resize(c) PROVE InstallsStay
    BY <1>3 DEF NextRound, Resize, CallSetMaxThreads, cacheVars, calls, Activities
  <1>4. CASE Constructed
    <2>1. \A a \in Callers : pc[a] \in {"idle", "app"}
      BY <1>4 DEF Constructed, Bookkeeping, ConstructorAlone, Activities
    <2> QED
      BY <1>4, <2>1 DEF Constructed
  <1>5. CASE Destroy \/ UNCHANGED vars
    BY <1>5 DEF Destroy, CallSetMaxThreads, vars, cacheVars, calls, Activities
  <1> QED
    BY <1>1, <1>2, <1>3, <1>4, <1>5

LEMMA NextComing ==
  ASSUME ProgramTypeOK, Bookkeeping, ThreadsKept, ThreadsComing, [Next]_vars
  PROVE  ThreadsComing'
  <1>1. /\ totalThreads \in Nat /\ totalThreads <= maxThreads
        /\ totalThreads' \in Nat /\ totalThreads' <= maxThreads'
    BY NextBooks, NextThreads, TotalFits, TotalFitsNext DEF ThreadsKept
  <1>2. ASSUME NEW s \in Slots, SlaveStep(s) \/ SlaveWake(s) PROVE ThreadsComing'
    <2>1. InstallsStay /\ UNCHANGED <<createOnDemand, maxThreads>>
      BY <1>2, SlaveInstalls
    <2>2. CASE SlaveStart(s)
      <3>1. totalThreads' = totalThreads + 1
        BY <2>2 DEF SlaveStart
      <3>2. totalThreads # maxThreads
        BY <1>1, <2>1, <3>1
      <3> QED
        BY <2>1, <3>2 DEF ThreadsComing, InstallsStay, InstallStates
    <2>3. CASE SlaveExit(s)
      <3>1. \E a \in Activities : pc[a] = "setMaxJoin"
        BY <2>3 DEF SlaveExit, ThreadsKept, QuitOnly, QuitReachesAll
      <3> QED
        BY <2>1, <3>1 DEF ThreadsComing, InstallsStay, InstallStates
    <2>4. CASE ~SlaveStart(s) /\ ~SlaveExit(s)
      <3>1. UNCHANGED totalThreads
        BY <1>2, <2>4 DEF SlaveStep, SlaveQuit, SlaveSleep, SlavePop, SlaveExec, SlaveDone,
           SlaveSignal, SlaveWake, counters
      <3> QED
        BY <2>1, <3>1, ComingStays
    <2> QED
      BY <2>2, <2>3, <2>4
  <1>3. ASSUME NEW a \in Activities, AddStep(a) PROVE ThreadsComing'
    <2>1. UNCHANGED <<createOnDemand, maxThreads, totalThreads>> /\ (InstallsStay \/ ThreadStarted(a))
      BY <1>3, AddInstalls DEF counters
    <2>2. CASE InstallsStay
      BY <2>1, <2>2, ComingStays
    <2>3. CASE ThreadStarted(a)
      <3>1. /\ goal[a] <= totalThreads
            /\ pc[a] \in {"addStarted", "setMaxStarted"}
            /\ \A b \in Activities : b # a => pc'[b] = pc[b] /\ goal'[b] = goal[b]
        BY <2>3 DEF ThreadStarted, ProgramTypeOK, TypeOK
      <3>2. goal[a] = maxThreads => totalThreads = maxThreads
        BY <1>1, <3>1 DEF ProgramTypeOK, TypeOK
      <3> QED
        BY <2>1, <3>1, <3>2 DEF ThreadsComing
    <2> QED
      BY <2>1, <2>2, <2>3
  <1>4. ASSUME NEW a \in Activities, SetMaxStep(a) PROVE ThreadsComing'
    <2> USE DEF ProgramTypeOK, TypeOK
    <2>1. CASE SetMaxSame(a)
      <3>1. /\ UNCHANGED <<createOnDemand, maxThreads, totalThreads>> /\ pc[a] = "setMax"
            /\ \A b \in Activities : b # a => pc'[b] = pc[b] /\ goal'[b] = goal[b]
        BY <2>1 DEF SetMaxSame, AfterSetMax, settings, counters
      <3> QED
        BY <3>1 DEF ThreadsComing
    <2>2. CASE SetMaxStop(a)
      <3>1. pc'[a] = "setMaxJoin"
        BY <2>2 DEF SetMaxStop
      <3> QED
        BY <3>1 DEF ThreadsComing
    <2>3. CASE SetMaxInstalls(a)
      <3>1. createOnDemand' = createOnDemand
        BY <2>3 DEF SetMaxInstalls
      <3>2. CASE goal[a] > 1 /\ ~createOnDemand
        <4>1. maxThreads' = goal[a] /\ pc'[a] = "setMaxStarted" /\ goal'[a] = goal[a]
          BY <2>3, <3>2 DEF SetMaxInstalls, InstallMax, AfterSetMax
        <4> QED
          BY <4>1 DEF ThreadsComing
      <3>3. CASE ~(goal[a] > 1)
        <4>1. maxThreads' = 1
          BY <2>3, <3>3 DEF SetMaxInstalls, InstallMax
        <4> QED
          BY <4>1 DEF ThreadsComing
      <3> QED
        BY <3>1, <3>2, <3>3 DEF ThreadsComing
    <2>4. CASE SetMaxFails(a)
      <3>1. pc'[a] \in {"setMaxThrew", "wild"}
        BY <2>4 DEF SetMaxFails
      <3> QED
        BY <3>1 DEF ThreadsComing
    <2> QED
      BY <1>4, <2>1, <2>2, <2>3, <2>4 DEF SetMaxStep
  <1>5. ASSUME \/ \E a \in Activities : GatherStep(a) \/ GatherWake(a) \/ ProgramStep(a)
               \/ \E c \in Callers : NextRound(c) \/ Resize(c)
               \/ Constructed \/ Destroy \/ UNCHANGED vars
        PROVE  ThreadsComing'
    BY <1>5, OthersIdle, OtherInstalls, ComingStays DEF counters
  <1> QED
    BY <1>2, <1>3, <1>4, <1>5 DEF Next, CallStep, Wake, Stop

(* Only a failing start_thread leaves set_max_threads by an exception. *)
LEMMA NextUnfailed ==
  ASSUME Faults = {}, ProgramTypeOK, Bookkeeping, [Next]_vars,
         \A a \in Activities : pc[a] \notin {"setMaxThrew", "wild"}
  PROVE  \A a \in Activities : pc'[a] \notin {"setMaxThrew", "wild"}
  <1> USE DEF ProgramTypeOK, TypeOK
  <1>1. ASSUME LocksStay PROVE \A a \in Activities : pc'[a] \notin {"setMaxThrew", "wild"}
    BY <1>1 DEF LocksStay, LockStates
  <1>2. ASSUME NEW a \in Activities, AddStep(a)
        PROVE  \A b \in Activities : pc'[b] \notin {"setMaxThrew", "wild"}
    BY <1>2 DEF AddStep, AddLockTotal, AddSerial, AddQueued, AddStarting, AddThrows, ThreadStarted,
       SerialDone, AllGatherers
  <1>3. ASSUME NEW a \in Activities, SetMaxStep(a)
        PROVE  \A b \in Activities : pc'[b] \notin {"setMaxThrew", "wild"}
    BY <1>3 DEF SetMaxStep, SetMaxSame, SetMaxStop, SetMaxInstalls, InstallMax, AfterSetMax,
       SetMaxFails
  <1> QED
    BY <1>1, <1>2, <1>3, SlaveLocks, OtherLocks DEF Next, CallStep, Wake, Stop

LEMMA InitComing == Init => ThreadsComing /\ \A a \in Activities : pc[a] \notin {"setMaxThrew", "wild"}
  <1> SUFFICES ASSUME Init PROVE ThreadsComing /\ \A a \in Activities : pc[a] \notin {"setMaxThrew", "wild"}
    OBVIOUS
  <1>1. PICK onDemand \in OnDemand, mx \in NumPthreads : CacheInit(Main, onDemand, mx)
    BY DEF Init
  <1> QED
    BY <1>1 DEF CacheInit, ThreadsComing

(* With create_threads_on_demand false, max_threads threads are live, or some call of
   set_max_threads has still to return or has thrown; a call that waits for threads of an
   earlier max_threads does not count. *)
THEOREM EagerThreadsAwaited == Spec => []ThreadsComing
  <1>1. Init => ProgramTypeOK /\ Bookkeeping /\ ThreadsKept /\ ThreadsComing
    BY InitType, InitBooks, InitThreads, InitComing
  <1>2. (ProgramTypeOK /\ Bookkeeping /\ ThreadsKept /\ ThreadsComing) /\ [Next]_vars
          => (ProgramTypeOK /\ Bookkeeping /\ ThreadsKept /\ ThreadsComing)'
    BY NextBooks, NextThreads, NextComing
  <1> QED
    BY <1>1, <1>2, PTL DEF Spec

(* As long as threads can be started, those created eagerly are all live between the calls
   of set_max_threads. *)
THEOREM EagerThreadsAlive ==
  ASSUME Faults = {}
  PROVE  Spec => []EagerThreadsLive
  <1> DEFINE Unfailed == \A a \in Activities : pc[a] \notin {"setMaxThrew", "wild"}
             Inv == ProgramTypeOK /\ Bookkeeping /\ ThreadsKept /\ ThreadsComing /\ Unfailed
  <1>1. Init => Inv
    BY InitType, InitBooks, InitThreads, InitComing
  <1>2. Inv /\ [Next]_vars => Inv'
    <2> SUFFICES ASSUME Inv, [Next]_vars PROVE Inv'
      OBVIOUS
    <2>1. Unfailed'
      BY NextUnfailed
    <2> HIDE DEF Unfailed
    <2> QED
      BY <2>1, NextBooks, NextThreads, NextComing
  <1>3. Inv => EagerThreadsLive
    BY DEF ThreadsComing, EagerThreadsLive
  <1> HIDE DEF Inv
  <1> QED
    BY <1>1, <1>2, <1>3, PTL DEF Spec

-----------------------------------------------------------------------------
(* An empty slot for every new thread *)

(* One caller adds all the tasks, and pthread_create does not fail. *)
OneAdds ==
  /\ Callers = {Main} /\ \A t \in Tasks : Parent[t] = Main
  /\ "create" \notin Faults

(* Only main calls the cache, and it has seen the thread started that it asked for before it
   adds another task. *)
StartsSeen ==
  /\ \A t \in Tasks : pc[t] \in {"idle", "app", "returned"}
  /\ createOnDemand => \A s \in Slots : slave[s] = "starting" =>
       /\ pc[Main] = "addStarted" /\ totalThreads < goal[Main]
       /\ \A r \in Slots : slave[r] = "starting" => r = s
  /\ pc[Main] # "threw"

LEMMA OnlyMain ==
  ASSUME OneAdds
  PROVE  /\ Activities = Tasks \cup {Main} /\ Main \notin Tasks
         /\ \A t \in Tasks : Children(t) = {}
  <1>1. Main \notin Tasks /\ Callers = {Main}
    BY CacheAssumption DEF OneAdds
  <1> QED
    BY <1>1 DEF OneAdds, Children, Activities

LEMMA SlaveSeen ==
  ASSUME OneAdds, ProgramTypeOK, Bookkeeping, StartsSeen,
         NEW s \in Slots, SlaveStep(s) \/ SlaveWake(s)
  PROVE  StartsSeen'
  <1> USE OnlyMain DEF ProgramTypeOK, TypeOK, settings, calls
  <1>1. /\ \A r \in Slots : slave'[r] = "starting" => slave[r] = "starting"
        /\ createOnDemand' = createOnDemand /\ goal' = goal
    BY DEF SlaveStep, SlaveStart, SlaveQuit, SlaveSleep, SlavePop, SlaveExec, SlaveDone,
       SlaveSignal, SlaveExit, SlaveWake
  <1>2. /\ \A t \in Tasks : pc'[t] \in {"idle", "app", "returned"}
        /\ pc[Main] = "addStarted" => pc'[Main] = "addStarted"
        /\ pc'[Main] # "threw"
    <2>1. CASE SlaveExec(s)
      <3>1. job[s] \in Tasks
        BY <2>1, TaskStates DEF SlaveExec
      <3> QED
        BY <2>1, <3>1 DEF SlaveExec, StartsSeen
    <2>2. CASE SlaveSignal(s)
      <3>1. job[s] \in Tasks
        BY <2>2, TaskStates DEF SlaveSignal
      <3> QED
        BY <2>2, <3>1 DEF SlaveSignal, AllGatherers, StartsSeen
    <2>3. CASE ~SlaveExec(s) /\ ~SlaveSignal(s)
      <3>1. UNCHANGED pc
        BY <2>3 DEF SlaveStep, SlaveStart, SlaveQuit, SlaveSleep, SlavePop, SlaveDone, SlaveExit,
           SlaveWake
      <3> QED
        BY <3>1 DEF StartsSeen
    <2> QED
      BY <2>1, <2>2, <2>3
  <1>3. ASSUME createOnDemand', NEW r \in Slots, slave'[r] = "starting"
        PROVE  /\ pc'[Main] = "addStarted" /\ totalThreads' < goal'[Main]
               /\ \A u \in Slots : slave'[u] = "starting" => u = r
    <2>1. /\ pc'[Main] = "addStarted" /\ totalThreads < goal[Main]
          /\ \A u \in Slots : slave'[u] = "starting" => u = r
      BY <1>1, <1>2, <1>3 DEF StartsSeen
    <2>2. ~SlaveStart(s)
      BY <1>1, <1>3 DEF SlaveStart, StartsSeen
    <2>3. totalThreads' = totalThreads \/ totalThreads' = totalThreads - 1
      BY <2>2 DEF SlaveStep, SlaveQuit, SlaveSleep, SlavePop, SlaveExec, SlaveDone, SlaveSignal,
         SlaveExit, SlaveWake, counters
    <2>4. totalThreads' < goal'[Main]
      BY <1>1, <2>1, <2>3
    <2> QED
      BY <2>1, <2>4
  <1> QED
    BY <1>2, <1>3 DEF StartsSeen

(* NeedsThread with every slot taken would be a miscount. *)
LEMMA SlotLeft ==
  ASSUME OneAdds, ProgramTypeOK, Bookkeeping, ThreadsKept, StartsSeen,
         pc[Main] = "addMax", NeedsThread
  PROVE  FreeSlots # {}
  <1> USE OnlyMain DEF ProgramTypeOK, TypeOK
  <1> SUFFICES ASSUME FreeSlots = {} PROVE FALSE
    OBVIOUS
  <1>1. ~slavesQuit
    BY DEF ThreadsKept, QuitReachesAll, StartsSeen
  <1>2. ASSUME NEW s \in 1 .. maxThreads PROVE s \in Slots /\ slave[s] \in CountedStates
    <2>1. s \in Slots /\ slave[s] # "none"
      <3>1. MaxSlots \in Nat /\ maxThreads \in Nat /\ maxThreads <= MaxSlots
        BY CacheAssumption
      <3>2. s \in Slots
        BY <3>1 DEF Slots
      <3> QED
        BY <3>2 DEF FreeSlots
    <2>2. slave[s] # "starting"
      BY <2>1 DEF StartsSeen, NeedsThread
    <2>3. slave[s] \notin {"quit", "exited"}
      BY <1>1, <2>1 DEF ThreadsKept, QuitOnly
    <2> QED
      BY <2>1, <2>2, <2>3 DEF SlaveStates, CountedStates
  <1>3. 1 .. maxThreads \subseteq InStates(slave, CountedStates)
    BY <1>2 DEF InStates
  <1>4. maxThreads \in Nat
    BY CacheAssumption
  <1>5. /\ IsFiniteSet(1 .. maxThreads)
        /\ Cardinality(1 .. maxThreads) = maxThreads
    <2>1. /\ IsFiniteSet(1 .. maxThreads)
          /\ Cardinality(1 .. maxThreads) = IF 1 > maxThreads THEN 0 ELSE maxThreads - 1 + 1
      BY <1>4, FS_Interval
    <2> QED
      BY <1>4, <2>1
  <1>6. IsFiniteSet(InStates(slave, CountedStates)) /\ Number(slave, CountedStates) \in Nat
    BY NumberIsNat
  <1>7. maxThreads <= Number(slave, CountedStates)
    BY <1>3, <1>5, <1>6, FS_Subset DEF Number
  <1>8. totalThreads = Number(slave, CountedStates)
    BY CountsAreNumbers DEF ThreadsKept
  <1> QED
    BY <1>4, <1>6, <1>7, <1>8 DEF NeedsThread

LEMMA AddSeen ==
  ASSUME OneAdds, ProgramTypeOK, Bookkeeping, ThreadsKept, StartsSeen,
         NEW a \in Activities, AddStep(a)
  PROVE  StartsSeen'
  <1> USE OnlyMain DEF ProgramTypeOK, TypeOK, settings, counters, threads, calls
  <1>1. a = Main
    BY DEF AddStep, AddLockTotal, AddSerial, AddQueued, AddStarting, AddThrows, ThreadStarted,
       SerialDone, HoldsTotalGetsMax, StartsSeen
  <1>2. UNCHANGED <<createOnDemand, totalThreads>>
    BY AddInstalls
  <1>3. ASSUME \A s \in Slots : slave'[s] # "starting" \/ ~createOnDemand,
               \A t \in Tasks : pc'[t] \in {"idle", "app", "returned"}, pc'[Main] # "threw"
        PROVE  StartsSeen'
    BY <1>2, <1>3 DEF StartsSeen
  <1>4. ASSUME NEW self \in SelfIfNone, AddStarting(a, self) PROVE StartsSeen'
    <2>1. /\ pc[Main] = "addMax" /\ pc' = [pc EXCEPT ![Main] = "addStarted"]
          /\ goal' = [goal EXCEPT ![Main] = totalThreads + 1] /\ createOnDemand
      BY <1>1, <1>4 DEF AddStarting, HoldsTotalGetsMax, NeedsThread
    <2>2. PICK s \in FreeSlots : SignalReady([slave EXCEPT ![s] = "starting"])
      BY <1>4 DEF AddStarting
    <2>3. \A r \in Slots : slave'[r] = "starting" => r = s
      <3> DEFINE f == [slave EXCEPT ![s] = "starting"]
      <3>1. \A r \in Slots : f[r] = "starting" => r = s
        BY <2>1 DEF StartsSeen
      <3>2. f \in [Slots -> SlaveStates]
        BY DEF SlaveStates
      <3>3. SignalReady(f)
        BY <2>2
      <3> HIDE DEF f
      <3>4. \A r \in Slots : slave'[r] = "starting" => f[r] = "starting"
        BY <3>2, <3>3 DEF SignalReady
      <3> QED
        BY <3>1, <3>4
    <2>4. totalThreads' < goal'[Main] /\ pc'[Main] = "addStarted"
      BY <1>2, <2>1
    <2>5. \A t \in Tasks : pc'[t] \in {"idle", "app", "returned"}
      BY <2>1 DEF StartsSeen
    <2> QED
      BY <2>3, <2>4, <2>5 DEF StartsSeen
  <1>5. ASSUME NEW self \in SelfIfNone, AddThrows(a, self) PROVE StartsSeen'
    BY <1>1, <1>5, SlotLeft DEF AddThrows, HoldsTotalGetsMax, OneAdds
  <1>6. ASSUME NEW self \in SelfIfNone, AddQueued(a, self) PROVE StartsSeen'
    <2>1. pc[Main] = "addMax" /\ pc' = [pc EXCEPT ![Main] = "app"]
      BY <1>1, <1>6 DEF AddQueued, HoldsTotalGetsMax
    <2>2. \A s \in Slots : slave[s] # "starting" \/ ~createOnDemand
      BY <2>1 DEF StartsSeen
    <2>3. \A s \in Slots : slave'[s] # "starting" \/ ~createOnDemand
      BY <1>6, <2>2 DEF AddQueued, SignalReady
    <2>4. (\A t \in Tasks : pc'[t] \in {"idle", "app", "returned"}) /\ pc'[Main] # "threw"
      BY <2>1 DEF StartsSeen
    <2> QED
      BY <1>3, <2>3, <2>4
  <1>7. ASSUME NEW self \in SelfIfNone, AddSerial(a, self) PROVE StartsSeen'
    <2>1. arg[Main] \in Tasks /\ pc[Main] = "addMax"
      BY <1>1, <1>7, TaskStates DEF AddSerial, HoldsTotalGetsMax
    <2>2. \A s \in Slots : slave'[s] # "starting" \/ ~createOnDemand
      BY <1>7, <2>1 DEF AddSerial, StartsSeen
    <2>3. (\A t \in Tasks : pc'[t] \in {"idle", "app", "returned"}) /\ pc'[Main] # "threw"
      BY <1>1, <1>7, <2>1 DEF AddSerial, StartsSeen
    <2> QED
      BY <1>3, <2>2, <2>3
  <1>8. CASE AddLockTotal(a) \/ ThreadStarted(a)
    <2>1. pc[Main] = "addTotal" \/ goal[Main] <= totalThreads
      BY <1>1, <1>8 DEF AddLockTotal, ThreadStarted
    <2>2. \A s \in Slots : slave'[s] # "starting" \/ ~createOnDemand
      BY <1>8, <2>1 DEF AddLockTotal, ThreadStarted, StartsSeen
    <2>3. (\A t \in Tasks : pc'[t] \in {"idle", "app", "returned"}) /\ pc'[Main] # "threw"
      BY <1>1, <1>8 DEF AddLockTotal, ThreadStarted, StartsSeen
    <2> QED
      BY <1>3, <2>2, <2>3
  <1>9. CASE SerialDone(a)
    <2>1. arg[Main] \in Tasks /\ pc[Main] = "serial"
      BY <1>1, <1>9, TaskStates DEF SerialDone
    <2>2. \A s \in Slots : slave'[s] # "starting" \/ ~createOnDemand
      BY <1>9, <2>1 DEF SerialDone, StartsSeen
    <2>3. (\A t \in Tasks : pc'[t] \in {"idle", "app", "returned"}) /\ pc'[Main] # "threw"
      BY <1>1, <1>9, <2>1 DEF SerialDone, AllGatherers, StartsSeen
    <2> QED
      BY <1>3, <2>2, <2>3
  <1> QED
    BY <1>4, <1>5, <1>6, <1>7, <1>8, <1>9 DEF AddStep

LEMMA SetMaxSeen ==
  ASSUME OneAdds, ProgramTypeOK, StartsSeen, NEW a \in Activities, SetMaxStep(a)
  PROVE  StartsSeen'
  <1> USE OnlyMain DEF ProgramTypeOK, TypeOK
  <1>1. a = Main /\ pc[Main] \in {"setMax", "setMaxJoin"}
    <2>1. pc[a] \in {"setMax", "setMaxJoin"}
      BY DEF SetMaxStep, SetMaxSame, SetMaxStop, SetMaxInstalls, SetMaxFails, NoThreadsLeft
    <2> QED
      BY <2>1 DEF StartsSeen
  <1>2. /\ \A t \in Tasks : pc'[t] = pc[t]
        /\ pc'[Main] # "threw"
    BY <1>1 DEF SetMaxStep, SetMaxSame, SetMaxStop, SetMaxInstalls, InstallMax, AfterSetMax,
       SetMaxFails
  <1>3. createOnDemand' = createOnDemand
    BY DEF SetMaxStep, SetMaxSame, SetMaxStop, SetMaxInstalls, SetMaxFails, settings
  <1>4. \A s \in Slots : slave[s] # "starting" \/ ~createOnDemand
    BY <1>1 DEF StartsSeen
  <1>5. \A s \in Slots : slave'[s] # "starting" \/ ~createOnDemand
    <2>1. CASE SetMaxSame(a) \/ SetMaxStop(a)
      BY <1>4, <2>1 DEF SetMaxSame, SetMaxStop, AllReady, threads
    <2>2. CASE SetMaxInstalls(a) \/ SetMaxFails(a)
      BY <2>2 DEF SetMaxInstalls, InstallMax, SetMaxFails
    <2> QED
      BY <2>1, <2>2 DEF SetMaxStep
  <1> QED
    BY <1>2, <1>3, <1>5 DEF StartsSeen

LEMMA OtherSeen ==
  ASSUME OneAdds, ProgramTypeOK, Bookkeeping, StartsSeen,
         \/ \E a \in Activities : GatherStep(a) \/ GatherWake(a) \/ ProgramStep(a)
         \/ \E c \in Callers : NextRound(c) \/ Resize(c)
         \/ Constructed \/ Destroy \/ UNCHANGED vars
  PROVE  StartsSeen'
  <1> USE OnlyMain DEF ProgramTypeOK, TypeOK
  <1>1. UNCHANGED <<createOnDemand, totalThreads, slave>>
    BY OthersIdle DEF counters, threads
  <1>2. \A t \in Tasks : owned[t] = {} /\ todo[t] = {}
    BY DEF Bookkeeping, Ownership
  <1>3. ASSUME \A t \in Tasks : pc'[t] \in {"idle", "app", "returned"}, pc'[Main] # "threw",
               pc[Main] = "addStarted" => pc'[Main] = "addStarted" /\ goal'[Main] = goal[Main]
        PROVE  StartsSeen'
    BY <1>1, <1>3 DEF StartsSeen
  <1>4. ASSUME NEW a \in Activities, GatherStep(a) \/ GatherWake(a) PROVE StartsSeen'
    <2>1. a = Main /\ pc[Main] \in {"app", "gather", "gatherSleeping"}
      BY <1>2, <1>4 DEF GatherStep, Collect, GatherSleep, GatherWake, StartsSeen
    <2>2. (\A t \in Tasks : pc'[t] = pc[t]) /\ pc'[Main] # "threw"
      BY <1>4, <2>1 DEF GatherStep, Collect, GatherSleep, GatherWake
    <2> QED
      BY <1>3, <2>1, <2>2 DEF StartsSeen
  <1>5. ASSUME NEW a \in Activities, Scatter(a) PROVE StartsSeen'
    <2>1. a = Main /\ pc[Main] = "app"
      BY <1>2, <1>5 DEF Scatter, CallAddTask
    <2>2. (\A t \in Tasks : pc'[t] = pc[t]) /\ pc'[Main] # "threw"
      BY <1>5, <2>1 DEF Scatter, CallAddTask
    <2> QED
      BY <1>3, <2>1, <2>2 DEF StartsSeen
  <1>6. ASSUME NEW t \in Tasks, Return(t) PROVE StartsSeen'
    BY <1>3, <1>6 DEF Return, StartsSeen
  <1>7. ASSUME NEW c \in Callers, NextRound(c) PROVE StartsSeen'
    BY <1>3, <1>7 DEF NextRound, cacheVars, calls, StartsSeen
  <1>8. ASSUME NEW mx, CallSetMaxThreads(Main, mx) PROVE StartsSeen'
    <2>1. (\A t \in Tasks : pc'[t] = pc[t]) /\ pc'[Main] # "threw" /\ pc[Main] = "app"
      BY <1>8 DEF CallSetMaxThreads
    <2> QED
      BY <1>3, <2>1 DEF StartsSeen
  <1>9. CASE (\E c \in Callers : Resize(c)) \/ Destroy
    BY <1>8, <1>9 DEF Resize, Destroy, OneAdds
  <1>10. CASE Constructed
    <2>1. (\A t \in Tasks : pc'[t] = pc[t]) /\ pc'[Main] = "app" /\ pc[Main] = "app"
      BY <1>10 DEF Constructed, OneAdds
    <2> QED
      BY <1>3, <2>1 DEF StartsSeen
  <1>11. CASE UNCHANGED vars
    BY <1>3, <1>11 DEF vars, cacheVars, calls, StartsSeen
  <1> QED
    BY <1>4, <1>5, <1>6, <1>7, <1>9, <1>10, <1>11 DEF ProgramStep

LEMMA InitSeen ==
  ASSUME OneAdds, Init
  PROVE  StartsSeen
  <1>1. PICK onDemand \in OnDemand, mx \in NumPthreads : CacheInit(Main, onDemand, mx)
    BY DEF Init
  <1> QED
    BY <1>1, OnlyMain DEF CacheInit, StartsSeen

(* With one thread that adds the tasks, addTask always finds the empty slot that total_threads
   < max_threads promises: it has waited for the thread it started last.  (With two, or with
   tasks that add tasks, it does not.) *)
THEOREM OneCallerFindsSlots ==
  ASSUME OneAdds
  PROVE  Spec => []EmptySlotFound
  <1> DEFINE Inv == ProgramTypeOK /\ Bookkeeping /\ ThreadsKept /\ StartsSeen
  <1>1. Init => Inv
    BY InitType, InitBooks, InitThreads, InitSeen
  <1>2. Inv /\ [Next]_vars => Inv'
    <2> SUFFICES ASSUME Inv, [Next]_vars PROVE Inv'
      OBVIOUS
    <2>1. StartsSeen'
      BY SlaveSeen, AddSeen, SetMaxSeen, OtherSeen DEF Next, CallStep, Wake, Stop
    <2> QED
      BY <2>1, NextBooks, NextThreads
  <1>3. Inv => EmptySlotFound
    BY OnlyMain DEF StartsSeen, EmptySlotFound
  <1> HIDE DEF Inv
  <1> QED
    BY <1>1, <1>2, <1>3, PTL DEF Spec

-----------------------------------------------------------------------------
(* Resizing and destroying an idle cache *)

(* exec() of a task that has none running, or is past its gathering, owns no task. *)
IdleHands == \A t \in Tasks : pc[t] \in {"idle", "returned"} => owned[t] = {}

(* No tasks in the cache wait for each other in a circle: every one is, in the end, there for
   an application thread. *)
NoRing ==
  \A S \in SUBSET Tasks :
    (\A t \in S : Parent[t] \in S /\ t \in owned[Parent[t]]) => S = {}

(* Only the constructor sees max_threads = 0, and only the destructor asks for it. *)
Installed ==
  /\ maxThreads = 0 => phase = "construct" /\ pc[Main] = "setMax"
  /\ \A a \in Activities : pc[a] = "setMax" /\ phase # "destroy" => goal[a] > 0

(* Nothing is in the cache while set_max_threads stops its threads, and nothing ever after
   the destructor has been called. *)
QuietResize ==
  /\ \A a \in Activities : pc[a] \in {"setMax", "setMaxJoin"} =>
       /\ a = Main /\ (phase = "run" => Callers = {Main})
       /\ \A b \in Activities : owned[b] = {}
  /\ phase = "destroy" =>
       /\ \A b \in Activities : owned[b] = {}
       /\ \/ pc[Main] \in {"setMax", "setMaxJoin"} /\ goal[Main] = 0
          \/ pc[Main] = "app" /\ maxThreads = 1

(* A task whose exec() is running is in the cache. *)
LEMMA RunningOwned ==
  ASSUME ProgramTypeOK, Bookkeeping, NEW t \in Tasks, pc[t] # "idle"
  PROVE  t \in owned[Parent[t]] /\ Parent[t] \in Activities
  <1>1. t # NoTask /\ Parent[t] \in Activities
    BY CacheAssumption, ProgramAssumption DEF Activities
  <1>2. ASSUME NEW s \in Slots, job[s] = t PROVE t \in owned[Parent[t]]
    BY <1>1, <1>2 DEF Bookkeeping, Ownership
  <1>3. ASSUME NEW a \in Activities, arg[a] = t PROVE t \in owned[Parent[t]]
    BY <1>1, <1>3 DEF Bookkeeping, Ownership, Children
  <1> QED
    BY <1>1, <1>2, <1>3 DEF Bookkeeping, ExecutedByOne

(* When the application threads own no task, nobody does. *)
LEMMA NothingOwned ==
  ASSUME ProgramTypeOK, Bookkeeping, IdleHands, NoRing, \A c \in Callers : owned[c] = {}
  PROVE  \A b \in Activities : owned[b] = {}
  <1> DEFINE S == {t \in Tasks : t \in owned[Parent[t]]}
  <1>1. ASSUME NEW t \in S PROVE Parent[t] \in S /\ t \in owned[Parent[t]]
    <2>1. Parent[t] \in Tasks
      BY ProgramAssumption DEF Activities
    <2>2. pc[Parent[t]] # "idle"
      BY <2>1 DEF IdleHands
    <2> QED
      BY <2>1, <2>2, RunningOwned
  <1>2. S = {}
    BY <1>1 DEF NoRing
  <1>3. ASSUME NEW b \in Activities, NEW t \in owned[b] PROVE t \in S
    BY DEF Bookkeeping, Ownership, Children
  <1> QED
    BY <1>2, <1>3

(* Where tasks are added and collected. *)
LEMMA OwnedStays ==
  ASSUME ProgramTypeOK, Bookkeeping, [Next]_vars,
         ~ \E a \in Activities : Scatter(a) \/ Collect(a)
  PROVE  /\ UNCHANGED owned
         /\ \A t \in Tasks : pc'[t] \in {"idle", "returned"} =>
              pc[t] \in {"idle", "returned"} \/ owned[t] = {}
  <1> DEFINE Goes == \A t \in Tasks : pc'[t] \in {"idle", "returned"} =>
                       pc[t] \in {"idle", "returned"} \/ owned[t] = {}
  <1>0. pc \in [Activities -> CallStates] /\ Tasks \subseteq Activities
    BY DEF ProgramTypeOK, TypeOK, Activities
  <1>1. UNCHANGED pc => Goes
    OBVIOUS
  <1>2. ASSUME NEW a \in Activities, NEW v, v \notin {"idle", "returned"},
               pc' = [pc EXCEPT ![a] = v]
        PROVE  Goes
    BY <1>0, <1>2
  <1>3. ASSUME NEW s \in Slots, SlaveStep(s) \/ SlaveWake(s) PROVE UNCHANGED owned /\ Goes
    <2>1. UNCHANGED owned
      BY <1>3 DEF SlaveStep, SlaveStart, SlaveQuit, SlaveSleep, SlavePop, SlaveExec,
         SlaveDone, SlaveSignal, SlaveExit, SlaveWake, calls
    <2>2. CASE SlaveSignal(s)
      <3>1. job[s] \in Tasks /\ pc[job[s]] = "returned"
        BY <2>2, TaskStates DEF SlaveSignal
      <3>2. \A t \in Tasks : t # job[s] => pc'[t] = AllGatherers[t]
        BY <2>2, <1>0 DEF SlaveSignal, AllGatherers
      <3>3. Goes
        BY <3>1, <3>2, <1>0 DEF AllGatherers
      <3> QED
        BY <2>1, <3>3
    <2>3. CASE SlaveExec(s)
      <3>1. job[s] \in Activities
        BY <1>0, <2>3, TaskStates DEF SlaveExec
      <3> QED
        BY <1>2, <2>1, <2>3, <3>1 DEF SlaveExec
    <2>4. CASE ~SlaveSignal(s) /\ ~SlaveExec(s)
      <3>1. UNCHANGED pc
        BY <1>3, <2>4 DEF SlaveStep, SlaveStart, SlaveQuit, SlaveSleep, SlavePop, SlaveDone,
           SlaveExit, SlaveWake, calls
      <3> QED
        BY <1>1, <2>1, <3>1
    <2> QED
      BY <2>2, <2>3, <2>4
  <1>4. ASSUME NEW a \in Activities, AddStep(a) PROVE UNCHANGED owned /\ Goes
    <2>1. UNCHANGED owned
      BY <1>4 DEF AddStep, AddLockTotal, AddSerial, AddQueued, AddStarting, AddThrows,
         ThreadStarted, SerialDone
    <2>2. CASE SerialDone(a)
      <3>1. arg[a] \in Tasks /\ pc[arg[a]] = "returned" /\ arg[a] # a
        BY <2>2, TaskStates DEF SerialDone
      <3>2. /\ \A t \in Tasks : t # arg[a] /\ t # a => pc'[t] = AllGatherers[t]
            /\ a \in Tasks => pc'[a] = "app"
        BY <2>2, <3>1, <1>0 DEF SerialDone, AllGatherers
      <3>3. Goes
        BY <3>1, <3>2, <1>0 DEF AllGatherers
      <3> QED
        BY <2>1, <3>3
    <2>3. ASSUME NEW self \in SelfIfNone, AddSerial(a, self) PROVE Goes
      <3>1. \A t \in Tasks : pc'[t] = pc[t] \/ pc'[t] = "app" \/ pc'[t] = "serial"
        BY <2>3, <1>0 DEF AddSerial
      <3> QED
        BY <3>1
    <2>4. CASE \E v \in {"addMax", "addStarted", "app", "threw"} : pc' = [pc EXCEPT ![a] = v]
      BY <1>2, <2>1, <2>4
    <2>5. \/ SerialDone(a) \/ \E self \in SelfIfNone : AddSerial(a, self)
          \/ \E v \in {"addMax", "addStarted", "app", "threw"} : pc' = [pc EXCEPT ![a] = v]
      BY <1>4 DEF AddStep, AddLockTotal, AddQueued, AddStarting, AddThrows, ThreadStarted
    <2> QED
      BY <2>1, <2>2, <2>3, <2>4, <2>5
  <1>5. ASSUME NEW a \in Activities, GatherSleep(a) \/ GatherWake(a) \/ SetMaxStep(a)
        PROVE  UNCHANGED owned /\ Goes
    <2>1. UNCHANGED owned
      BY <1>5 DEF GatherSleep, GatherWake, SetMaxStep, SetMaxSame, SetMaxStop, SetMaxInstalls,
         SetMaxFails
    <2>2. \E v \in {"gatherSleeping", "gather", "setMaxJoin", "setMaxStarted", "app",
                    "setMaxThrew", "wild"} : pc' = [pc EXCEPT ![a] = v]
      BY <1>5 DEF GatherSleep, GatherWake, SetMaxStep, SetMaxSame, SetMaxStop, SetMaxInstalls,
         SetMaxFails, InstallMax, AfterSetMax
    <2> QED
      BY <1>2, <2>1, <2>2
  <1>6. ASSUME NEW t \in Tasks, Return(t) PROVE UNCHANGED owned /\ Goes
    <2>1. owned[t] = {} /\ pc' = [pc EXCEPT ![t] = "returned"]
      BY <1>6 DEF Return, Finished
    <2> QED
      BY <1>0, <1>6, <2>1 DEF Return
  <1>7. ASSUME NEW c \in Callers, NextRound(c) \/ Resize(c) PROVE UNCHANGED owned /\ Goes
    <2>1. UNCHANGED owned /\ (UNCHANGED pc \/ pc' = [pc EXCEPT ![c] = "setMax"])
      BY <1>7 DEF NextRound, Resize, CallSetMaxThreads, cacheVars, calls
    <2>2. c \in Activities
      BY DEF Activities
    <2> QED
      BY <1>1, <1>2, <2>1, <2>2
  <1>8. ASSUME Constructed PROVE UNCHANGED owned /\ Goes
    <2>1. \A t \in Tasks : pc'[t] = "app" \/ pc'[t] = pc[t]
      BY <1>0, <1>8 DEF Constructed
    <2> QED
      BY <1>8, <2>1 DEF Constructed
  <1>9. ASSUME Destroy PROVE UNCHANGED owned /\ Goes
    <2>1. UNCHANGED owned /\ pc' = [pc EXCEPT ![Main] = "setMax"]
      BY <1>9 DEF Destroy, CallSetMaxThreads
    <2>2. Main \in Activities
      BY ProgramAssumption DEF Activities
    <2> QED
      BY <1>2, <2>1, <2>2
  <1>10. UNCHANGED vars => UNCHANGED owned /\ Goes
    BY <1>1 DEF vars, cacheVars, calls
  <1> QED
    BY <1>3, <1>4, <1>5, <1>6, <1>7, <1>8, <1>9, <1>10 DEF Next, CallStep, GatherStep, ProgramStep,
       Wake, Stop

LEMMA NextOwned ==
  ASSUME ProgramTypeOK, Bookkeeping, IdleHands, NoRing, [Next]_vars
  PROVE  IdleHands' /\ NoRing'
  <1> USE ProgramAssumption DEF ProgramTypeOK, TypeOK
  <1>1. ASSUME NEW a \in Activities, Scatter(a) PROVE IdleHands' /\ NoRing'
    <2>1. PICK t \in todo[a] : CallAddTask(a, t)
      BY <1>1 DEF Scatter
    <2>2. t \in Tasks /\ Parent[t] = a /\ t \notin owned[a]
      BY DEF Bookkeeping, Ownership, Children
    <2>3. /\ pc[a] = "app" /\ pc' = [pc EXCEPT ![a] = "addTotal"]
          /\ owned' = [owned EXCEPT ![a] = owned[a] \cup {t}]
      BY <2>1 DEF CallAddTask
    <2>4. IdleHands'
      BY <2>3 DEF IdleHands
    <2>5. pc[t] = "idle"
      BY <2>2, RunningOwned
    <2>6. ASSUME NEW S \in SUBSET Tasks, \A u \in S : Parent[u] \in S /\ u \in owned'[Parent[u]]
          PROVE  S = {}
      <3>1. ASSUME NEW u \in S, u # t PROVE u \in owned[Parent[u]]
        BY <2>2, <2>3, <2>6, <3>1
      <3>2. ASSUME NEW u \in S, u # t PROVE Parent[u] # t
        BY <2>5, <3>1, <3>2 DEF IdleHands
      <3>3. S \ {t} = {}
        <4>1. S \ {t} \in SUBSET Tasks
          OBVIOUS
        <4>2. \A u \in S \ {t} : Parent[u] \in S \ {t} /\ u \in owned[Parent[u]]
          BY <2>6, <3>1, <3>2
        <4> QED
          BY <4>1, <4>2 DEF NoRing
      <3>4. t \in S => a \in S /\ a # t
        BY <2>2, <2>6
      <3> QED
        BY <3>3, <3>4
    <2> QED
      BY <2>4, <2>6 DEF NoRing
  <1>2. ASSUME NEW a \in Activities, Collect(a) PROVE IdleHands' /\ NoRing'
    <2>1. /\ pc[a] \in {"app", "gather"} /\ pc' = [pc EXCEPT ![a] = "app"]
          /\ \A b \in Activities : owned'[b] \subseteq owned[b]
      BY <1>2 DEF Collect
    <2>2. IdleHands'
      BY <2>1 DEF IdleHands, Activities
    <2>3. NoRing'
      BY <2>1 DEF NoRing
    <2> QED
      BY <2>2, <2>3
  <1>3. ASSUME ~ \E a \in Activities : Scatter(a) \/ Collect(a) PROVE IdleHands' /\ NoRing'
    BY <1>3, OwnedStays DEF IdleHands, NoRing
  <1> QED
    BY <1>1, <1>2, <1>3

(* Nobody but the one who scatters owns more than before. *)
LEMMA OwnedShrinks ==
  ASSUME ProgramTypeOK, Bookkeeping, [Next]_vars, ~ \E a \in Activities : Scatter(a)
  PROVE  \A b \in Activities : owned'[b] \subseteq owned[b]
  <1>1. ASSUME NEW a \in Activities, Collect(a)
        PROVE  \A b \in Activities : owned'[b] \subseteq owned[b]
    BY <1>1 DEF Collect, ProgramTypeOK, TypeOK
  <1> QED
    BY <1>1, OwnedStays

ResizeStates == {"setMax", "setMaxJoin"}

(* No call of set_max_threads is made, gets on, or changes its mind, and main does not come
   back from the destructor to call the cache again. *)
ResizesStay ==
  /\ UNCHANGED maxThreads
  /\ \A b \in Activities :
       /\ pc[b] \in ResizeStates => pc'[b] = pc[b] /\ goal'[b] = goal[b]
       /\ pc'[b] \in ResizeStates => pc[b] \in ResizeStates
  /\ phase = "destroy" /\ pc[Main] = "app" => pc'[Main] = "app"

LEMMA SlaveResizes ==
  ASSUME ProgramTypeOK, Bookkeeping, NEW s \in Slots, SlaveStep(s) \/ SlaveWake(s)
  PROVE  ResizesStay
  <1> USE CacheAssumption, ProgramAssumption DEF ProgramTypeOK, TypeOK, ResizesStay, ResizeStates
  <1>1. UNCHANGED <<maxThreads, goal>> /\ Main \notin Tasks /\ Main \in Activities
    BY DEF SlaveStep, SlaveStart, SlaveQuit, SlaveSleep, SlavePop, SlaveExec, SlaveDone,
       SlaveSignal, SlaveExit, SlaveWake, settings, calls, Activities
  <1>2. CASE SlaveExec(s)
    <2>1. job[s] \in Tasks /\ pc[job[s]] = "idle"
      BY <1>2, TaskStates DEF SlaveExec
    <2> QED
      BY <1>1, <1>2, <2>1 DEF SlaveExec
  <1>3. CASE SlaveSignal(s)
    <2>1. job[s] \in Tasks /\ pc[job[s]] = "returned"
      BY <1>3, TaskStates DEF SlaveSignal
    <2> QED
      BY <1>1, <1>3, <2>1 DEF SlaveSignal, AllGatherers
  <1>4. CASE ~SlaveExec(s) /\ ~SlaveSignal(s)
    <2>1. UNCHANGED pc
      BY <1>4 DEF SlaveStep, SlaveStart, SlaveQuit, SlaveSleep, SlavePop, SlaveDone,
         SlaveExit, SlaveWake, calls
    <2> QED
      BY <1>1, <2>1
  <1> QED
    BY <1>2, <1>3, <1>4

LEMMA AddResizes ==
  ASSUME ProgramTypeOK, Bookkeeping, NEW a \in Activities, AddStep(a)
  PROVE  ResizesStay
  <1> USE CacheAssumption, ProgramAssumption DEF ProgramTypeOK, TypeOK, ResizesStay, ResizeStates
  <1>1. UNCHANGED maxThreads /\ Main \notin Tasks /\ Main \in Activities
    BY AddInstalls DEF Activities
  <1>2. ASSUME NEW self \in SelfIfNone, AddSerial(a, self) PROVE ResizesStay
    <2>1. arg[a] \in Tasks /\ pc[arg[a]] = "idle" /\ pc[a] = "addMax"
      BY <1>2, TaskStates DEF AddSerial, HoldsTotalGetsMax
    <2> QED
      BY <1>1, <1>2, <2>1 DEF AddSerial
  <1>3. CASE SerialDone(a)
    <2>1. arg[a] \in Tasks /\ pc[arg[a]] = "returned" /\ pc[a] = "serial"
      BY <1>3, TaskStates DEF SerialDone
    <2> QED
      BY <1>1, <1>3, <2>1 DEF SerialDone, AllGatherers
  <1>4. CASE AddLockTotal(a)
    BY <1>1, <1>4 DEF AddLockTotal
  <1>5. ASSUME NEW self \in SelfIfNone,
               AddQueued(a, self) \/ AddStarting(a, self) \/ AddThrows(a, self)
        PROVE  ResizesStay
    BY <1>1, <1>5 DEF AddQueued, AddStarting, AddThrows, HoldsTotalGetsMax
  <1>6. CASE ThreadStarted(a)
    BY <1>1, <1>6 DEF ThreadStarted
  <1> QED
    BY <1>2, <1>3, <1>4, <1>5, <1>6 DEF AddStep

LEMMA OtherResizes ==
  ASSUME ProgramTypeOK, Bookkeeping,
         \/ \E a \in Activities : GatherStep(a) \/ GatherWake(a) \/ ProgramStep(a)
         \/ \E c \in Callers : NextRound(c)
         \/ Constructed \/ UNCHANGED vars
  PROVE  ResizesStay
  <1> USE CacheAssumption, ProgramAssumption DEF ProgramTypeOK, TypeOK, ResizesStay, ResizeStates
  <1>1. UNCHANGED maxThreads /\ Main \notin Tasks /\ Main \in Activities
    BY OthersIdle DEF Activities
  <1>2. ASSUME NEW a \in Activities, GatherStep(a) \/ GatherWake(a) PROVE ResizesStay
    BY <1>1, <1>2 DEF GatherStep, Collect, GatherSleep, GatherWake, MayCall
  <1>3. ASSUME NEW a \in Activities, ProgramStep(a) PROVE ResizesStay
    BY <1>1, <1>3 DEF ProgramStep, Scatter, CallAddTask, Return, Finished, MayCall
  <1>4. ASSUME NEW c \in Callers, NextRound(c) PROVE ResizesStay
    BY <1>1, <1>4 DEF NextRound, cacheVars, calls
  <1>5. CASE Constructed
    <2>1. \A a \in Callers : pc[a] \in {"idle", "app"}
      BY <1>5 DEF Constructed, Bookkeeping, ConstructorAlone, Activities
    <2>2. goal' = goal /\ pc' = [a \in Activities |-> IF a \in Callers THEN "app" ELSE pc[a]]
      BY <1>5 DEF Constructed
    <2> QED
      BY <1>1, <2>1, <2>2
  <1>6. CASE UNCHANGED vars
    BY <1>1, <1>6 DEF vars, cacheVars, calls
  <1> QED
    BY <1>2, <1>3, <1>4, <1>5, <1>6

(* The phases follow each other, and only Constructed and Destroy change them. *)
LEMMA PhaseStays ==
  ASSUME [Next]_vars
  PROVE  UNCHANGED phase \/ Constructed \/ Destroy
  BY DEF Next, SlaveStep, CallStep, AddStep, GatherStep, SetMaxStep, Wake, SameProgram,
     ProgramStep, Scatter, Return, NextRound, Resize, Stop, vars

(* While nothing is in the cache and no application thread may add a task, none is added. *)
LEMMA QuietScatter ==
  ASSUME ProgramTypeOK, Bookkeeping, QuietResize,
         phase = "destroy" \/ \E a \in Activities : pc[a] \in ResizeStates
  PROVE  ~ \E b \in Activities : Scatter(b)
  <1> SUFFICES ASSUME NEW b \in Activities, Scatter(b) PROVE FALSE
    OBVIOUS
  <1>1. \A d \in Activities : owned[d] = {}
    BY DEF QuietResize, ResizeStates
  <1>2. pc[b] = "app" /\ MayCall(b) /\ todo[b] # {}
    BY DEF Scatter, CallAddTask
  <1>3. b \in Callers
    BY <1>1, <1>2, RunningOwned DEF Activities
  <1>4. phase = "run"
    BY <1>2, <1>3 DEF MayCall
  <1>5. Callers = {Main} /\ pc[Main] \in ResizeStates
    BY <1>4 DEF QuietResize, ResizeStates
  <1> QED
    BY <1>2, <1>3, <1>5 DEF ResizeStates

LEMMA OthersQuiet ==
  ASSUME ProgramTypeOK, Bookkeeping, Installed, QuietResize, [Next]_vars, ResizesStay, ~Destroy
  PROVE  Installed' /\ QuietResize'
  <1> USE DEF ResizesStay, ResizeStates
  <1>0. Main \in Activities
    BY ProgramAssumption DEF Activities
  <1>1. UNCHANGED phase \/ (phase = "construct" /\ phase' = "run" /\ pc[Main] = "app")
    BY PhaseStays DEF Constructed
  <1>2. Installed'
    BY <1>0, <1>1 DEF Installed
  <1>3. ASSUME NEW a \in Activities, pc'[a] \in {"setMax", "setMaxJoin"}
        PROVE  /\ a = Main /\ (phase' = "run" => Callers = {Main})
               /\ \A b \in Activities : owned'[b] = {}
    <2>1. pc[a] \in ResizeStates
      BY <1>3
    <2>2. a = Main /\ UNCHANGED phase
      BY <1>1, <2>1 DEF QuietResize
    <2>3. \A b \in Activities : owned'[b] = {}
      BY <2>1, QuietScatter, OwnedShrinks DEF QuietResize
    <2> QED
      BY <2>1, <2>2, <2>3 DEF QuietResize
  <1>4. ASSUME phase' = "destroy"
        PROVE  /\ \A b \in Activities : owned'[b] = {}
               /\ \/ pc'[Main] \in {"setMax", "setMaxJoin"} /\ goal'[Main] = 0
                  \/ pc'[Main] = "app" /\ maxThreads' = 1
    <2>1. phase = "destroy"
      BY <1>1, <1>4
    <2>2. \A b \in Activities : owned'[b] = {}
      BY <2>1, QuietScatter, OwnedShrinks DEF QuietResize
    <2> QED
      BY <1>0, <2>1, <2>2 DEF QuietResize
  <1> QED
    BY <1>2, <1>3, <1>4 DEF QuietResize

(* The two places where set_max_threads is called. *)
LEMMA CallsQuiet ==
  ASSUME Disciplined, ProgramTypeOK, Bookkeeping, IdleHands, NoRing, Installed, QuietResize,
         (\E c \in Callers : Resize(c)) \/ Destroy
  PROVE  Installed' /\ QuietResize'
  <1> USE ProgramAssumption DEF ProgramTypeOK, TypeOK
  <1>1. Main \in Activities
    BY DEF Activities
  <1>2. ASSUME NEW c \in Callers, Resize(c) PROVE Installed' /\ QuietResize'
    <2>1. Callers = {Main} /\ c = Main
      BY <1>2 DEF Resize
    <2>2. PICK mx \in Resizes : CallSetMaxThreads(Main, mx)
      BY <1>2, <2>1 DEF Resize
    <2>3. /\ \A a \in Activities : a # Main => pc'[a] = pc[a] /\ goal'[a] = goal[a]
          /\ goal'[Main] = mx /\ mx > 0 /\ UNCHANGED <<maxThreads, phase, owned>> /\ phase = "run"
      BY <1>1, <1>2, <2>2 DEF Resize, CallSetMaxThreads, Slots, settings
    <2>4. \A b \in Activities : owned'[b] = {}
      BY <1>2, <2>3 DEF Resize, Unused
    <2> QED
      BY <2>1, <2>3, <2>4 DEF Installed, QuietResize
  <1>3. CASE Destroy
    <2>1. /\ \A a \in Activities : a # Main => pc'[a] = pc[a] /\ goal'[a] = goal[a]
          /\ goal'[Main] = 0 /\ pc'[Main] = "setMax" /\ UNCHANGED <<maxThreads, owned>>
          /\ phase = "run" /\ phase' = "destroy"
      BY <1>1, <1>3 DEF Destroy, CallSetMaxThreads, settings
    <2>2. \A c \in Callers : owned[c] = {}
      BY <1>3 DEF Destroy, Finished
    <2>3. \A b \in Activities : owned'[b] = {}
      BY <2>1, <2>2, NothingOwned
    <2> QED
      BY <2>1, <2>3 DEF Installed, QuietResize
  <1> QED
    BY <1>2, <1>3

LEMMA SetMaxQuiet ==
  ASSUME ProgramTypeOK, Installed, QuietResize, NEW a \in Activities, SetMaxStep(a)
  PROVE  Installed' /\ QuietResize'
  <1> USE CacheAssumption, ProgramAssumption DEF ProgramTypeOK, TypeOK
  <1>1. /\ pc[a] \in {"setMax", "setMaxJoin"} /\ UNCHANGED <<phase, owned>>
        /\ \A b \in Activities : b # a => pc'[b] = pc[b] /\ goal'[b] = goal[b]
    BY DEF SetMaxStep, SetMaxSame, SetMaxStop, SetMaxInstalls, SetMaxFails, NoThreadsLeft,
       InstallMax, AfterSetMax, SameProgram
  <1>2. /\ a = Main /\ (phase = "run" => Callers = {Main})
        /\ \A b \in Activities : owned[b] = {}
        /\ \A b \in Activities : b # a => pc[b] \notin {"setMax", "setMaxJoin"}
        /\ phase = "destroy" => goal[a] = 0
    BY <1>1 DEF QuietResize
  <1>3. goal[a] \in Int /\ maxThreads \in Int
    OBVIOUS
  <1>4. CASE SetMaxSame(a)
    <2>1. /\ maxThreads = goal[a] /\ maxThreads' = maxThreads /\ pc[a] = "setMax"
          /\ pc'[a] \in {"setMaxStarted", "app"}
      BY <1>4 DEF SetMaxSame, AfterSetMax, settings
    <2>2. phase # "destroy" /\ maxThreads' # 0
      BY <1>1, <1>2, <1>3, <2>1 DEF Installed
    <2> QED
      BY <1>1, <1>2, <2>1, <2>2 DEF Installed, QuietResize
  <1>5. CASE SetMaxStop(a)
    <2>1. maxThreads' = maxThreads /\ maxThreads > 1 /\ pc'[a] = "setMaxJoin" /\ goal'[a] = goal[a]
      BY <1>5 DEF SetMaxStop
    <2>2. maxThreads' # 0
      BY <1>3, <2>1
    <2>3. \A b \in Activities : pc'[b] = "setMax" => b # a /\ pc[b] = "setMax"
      BY <1>1, <2>1
    <2>4. Installed'
      BY <1>2, <2>2, <2>3 DEF Installed
    <2>5. \A b \in Activities : pc'[b] \in {"setMax", "setMaxJoin"} => b = a
      BY <1>1, <1>2
    <2>6. (phase' = "destroy") => pc'[Main] = "setMaxJoin" /\ goal'[Main] = 0
      BY <1>1, <1>2, <2>1
    <2> QED
      BY <1>1, <1>2, <2>4, <2>5, <2>6 DEF QuietResize
  <1>6. CASE SetMaxInstalls(a)
    <2>1. maxThreads' = IF goal[a] > 1 THEN goal[a] ELSE 1
      BY <1>6 DEF SetMaxInstalls, InstallMax
    <2>2. pc'[a] = IF goal[a] > 1 /\ ~createOnDemand THEN "setMaxStarted" ELSE "app"
      BY <1>6 DEF SetMaxInstalls, InstallMax, AfterSetMax
    <2>3. maxThreads' # 0 /\ (phase = "destroy" => maxThreads' = 1 /\ pc'[a] = "app")
      BY <1>2, <1>3, <2>1, <2>2
    <2>4. pc'[a] \notin {"setMax", "setMaxJoin"}
      BY <2>2
    <2> QED
      BY <1>1, <1>2, <2>3, <2>4 DEF Installed, QuietResize
  <1>7. CASE SetMaxFails(a)
    <2>1. goal[a] > 1 /\ maxThreads' = goal[a] /\ pc'[a] \in {"setMaxThrew", "wild"}
      BY <1>7 DEF SetMaxFails
    <2>2. phase # "destroy" /\ maxThreads' # 0
      BY <1>2, <1>3, <2>1
    <2> QED
      BY <1>1, <1>2, <2>1, <2>2 DEF Installed, QuietResize
  <1> QED
    BY <1>4, <1>5, <1>6, <1>7 DEF SetMaxStep

LEMMA InitQuiet ==
  ASSUME Init
  PROVE  IdleHands /\ NoRing /\ Installed /\ QuietResize
  <1> USE CacheAssumption, ProgramAssumption
  <1>1. PICK onDemand \in OnDemand, mx \in NumPthreads : CacheInit(Main, onDemand, mx)
    BY DEF Init
  <1>2. mx > 0 /\ Main \in Activities /\ phase = "construct"
    BY DEF Slots, Activities, Init
  <1>3. \A a \in Activities : owned[a] = {}
    BY <1>1 DEF CacheInit
  <1>4. IdleHands /\ NoRing
    BY <1>3 DEF IdleHands, NoRing, Activities
  <1>5. /\ maxThreads = 0 /\ pc[Main] = "setMax"
        /\ \A a \in Activities : pc[a] = "setMax" => a = Main /\ goal[a] = mx
        /\ \A a \in Activities : pc[a] # "setMaxJoin"
    BY <1>1, <1>2 DEF CacheInit
  <1>6. Installed /\ QuietResize
    BY <1>2, <1>3, <1>5 DEF Installed, QuietResize
  <1> QED
    BY <1>4, <1>6

(* A program that resizes and destroys an idle cache only. *)
Quiet ==
  ProgramTypeOK /\ Bookkeeping /\ ThreadsKept /\ IdleHands /\ NoRing /\ Installed /\ QuietResize

LEMMA QuietHolds == ASSUME Disciplined PROVE Spec => []Quiet
  <1>1. Init => Quiet
    BY InitType, InitBooks, InitThreads, InitQuiet DEF Quiet
  <1>2. Quiet /\ [Next]_vars => Quiet'
    <2> SUFFICES ASSUME Quiet, [Next]_vars PROVE Quiet'
      OBVIOUS
    <2> USE DEF Quiet
    <2>1. ProgramTypeOK' /\ Bookkeeping' /\ ThreadsKept'
      BY NextBooks, NextThreads
    <2>2. IdleHands' /\ NoRing'
      BY NextOwned
    <2>3. CASE (\E c \in Callers : Resize(c)) \/ Destroy
      BY <2>1, <2>2, <2>3, CallsQuiet
    <2>4. CASE \E a \in Activities : SetMaxStep(a)
      BY <2>1, <2>2, <2>4, SetMaxQuiet
    <2>5. CASE ~Destroy /\ ResizesStay
      BY <2>1, <2>2, <2>5, OthersQuiet
    <2>6. \/ (\E c \in Callers : Resize(c)) \/ Destroy \/ \E a \in Activities : SetMaxStep(a)
          \/ ResizesStay
      BY SlaveResizes, AddResizes, OtherResizes DEF Next, CallStep, Wake, Stop
    <2> QED
      BY <2>3, <2>4, <2>5, <2>6
  <1> QED
    BY <1>1, <1>2, PTL DEF Spec

(* While set_max_threads joins the slaves of an idle cache, none of them has a task and none
   is queued: what it waits for needs no lock that it holds. *)
THEOREM IdleSlavesStopped ==
  ASSUME Disciplined
  PROVE  Spec => []StopsIdleSlaves
  <1>1. Quiet => StopsIdleSlaves
    <2> SUFFICES ASSUME Quiet, slavesQuit
                 PROVE  taskQueue = <<>> /\ \A s \in Slots : job[s] = NoTask
      BY DEF StopsIdleSlaves
    <2>1. \A b \in Activities : owned[b] = {}
      BY DEF Quiet, ThreadsKept, QuitReachesAll, QuietResize
    <2>2. taskQueue \in Seq(Tasks) /\ job \in [Slots -> Tasks \cup {NoTask}]
      BY DEF Quiet, ProgramTypeOK, TypeOK
    <2>3. \A t \in Tasks : t \notin owned[Parent[t]]
      BY <2>1, ProgramAssumption
    <2>4. \A s \in Slots : job[s] = NoTask
      BY <2>2, <2>3 DEF Quiet, Bookkeeping, Ownership
    <2>5. taskQueue = <<>>
      <3> SUFFICES ASSUME taskQueue # <<>> PROVE FALSE
        OBVIOUS
      <3>1. 1 \in DOMAIN taskQueue /\ taskQueue[1] \in Tasks
        BY <2>2, QueuePop
      <3> QED
        BY <2>3, <3>1 DEF Quiet, Bookkeeping, Ownership
    <2> QED
      BY <2>4, <2>5
  <1> QED
    BY <1>1, QuietHolds, PTL

(* The destructor of an idle cache leaves no thread, no counter and no task behind. *)
THEOREM NothingLeftBehind ==
  ASSUME Disciplined
  PROVE  Spec => []CleanEnd
  <1>1. Quiet => CleanEnd
    <2> SUFFICES ASSUME Quiet, Ended
                 PROVE  /\ totalThreads = 0 /\ activeThreads = 0
                        /\ \A s \in Slots : slave[s] = "none"
                        /\ taskQueue = <<>> /\ finishedTasks = {}
      BY DEF CleanEnd
    <2>1. maxThreads = 1 /\ \A b \in Activities : owned[b] = {}
      BY DEF Quiet, QuietResize, Ended
    <2>2. taskQueue \in Seq(Tasks) /\ finishedTasks \subseteq Tasks
      BY DEF Quiet, ProgramTypeOK, TypeOK
    <2>3. \A t \in Tasks : t \notin owned[Parent[t]]
      BY <2>1, ProgramAssumption
    <2>4. finishedTasks = {}
      BY <2>2, <2>3 DEF Quiet, Bookkeeping, Ownership
    <2>5. taskQueue = <<>>
      <3> SUFFICES ASSUME taskQueue # <<>> PROVE FALSE
        OBVIOUS
      <3>1. 1 \in DOMAIN taskQueue /\ taskQueue[1] \in Tasks
        BY <2>2, QueuePop
      <3> QED
        BY <2>3, <3>1 DEF Quiet, Bookkeeping, Ownership
    <2>6. \A s \in Slots : slave[s] = "none"
      BY <2>1 DEF Quiet, Bookkeeping, SlotsFit
    <2>7. Number(slave, CountedStates) = 0 /\ Number(slave, ActiveStates) = 0
      BY <2>6, NumberZero DEF CountedStates, ActiveStates
    <2>8. totalThreads = 0 /\ activeThreads = 0
      BY <2>7, CountsAreNumbers DEF Quiet, ThreadsKept
    <2> QED
      BY <2>4, <2>5, <2>6, <2>8
  <1> QED
    BY <1>1, QuietHolds, PTL

-----------------------------------------------------------------------------
(* The pool: a task goes from its owner to an executor, through exec(), to the finished tasks
   and back to its owner, and nothing else happens to it. *)

Books == ProgramTypeOK /\ Bookkeeping /\ IdleHands /\ NoRing

LEMMA BooksHold == Spec => []Books
  <1>1. Init => Books
    BY InitType, InitBooks, InitQuiet DEF Books
  <1>2. Books /\ [Next]_vars => Books'
    BY NextBooks, NextOwned DEF Books
  <1> QED
    BY <1>1, <1>2, PTL DEF Spec

(* A finished task is not running, and both are owned. *)
LEMMA StatusApart ==
  ASSUME Books, NEW t \in Tasks
  PROVE  /\ t \in finishedTasks => pc[t] = "idle" /\ t \in owned[Parent[t]]
         /\ pc[t] # "idle" => t \in owned[Parent[t]]
  <1>1. t # NoTask
    BY CacheAssumption DEF Activities
  <1>2. pc[t] # "idle" => t \notin finishedTasks
    BY <1>1 DEF Books, Bookkeeping, ExecutedByOne, Exclusive
  <1>3. t \in finishedTasks => t \in owned[Parent[t]]
    BY DEF Books, Bookkeeping, Ownership
  <1>4. pc[t] # "idle" => t \in owned[Parent[t]]
    BY RunningOwned DEF Books
  <1> QED
    BY <1>2, <1>3, <1>4

(* What a task's status says. *)
LEMMA StatusMeans ==
  ASSUME Books, NEW t \in Tasks
  PROVE  /\ Status(t) = "finished" <=> t \in finishedTasks
         /\ Status(t) = "running" <=> pc[t] # "idle"
         /\ Status(t) = "pending" <=>
              t \in owned[Parent[t]] /\ pc[t] = "idle" /\ t \notin finishedTasks
         /\ Status(t) = "out" <=> t \notin owned[Parent[t]]
  BY StatusApart DEF Status

(* Nothing that the status is made of changes for the task t. *)
TaskKept(t) ==
  /\ t \in finishedTasks' <=> t \in finishedTasks
  /\ pc'[t] = "idle" <=> pc[t] = "idle"
  /\ t \in owned'[Parent[t]] <=> t \in owned[Parent[t]]

LEMMA StatusKept ==
  ASSUME NEW t \in Tasks, TaskKept(t)
  PROVE  Status(t)' = Status(t)
  BY DEF TaskKept, Status

-----------------------------------------------------------------------------
(* The steps that the pool sees *)

LEMMA ScatterAdds ==
  ASSUME Books, NEW a \in Activities, Scatter(a)
  PROVE  \E t \in Tasks : Pool!Add(t)
  <1> USE DEF Books, ProgramTypeOK, TypeOK
  <1>1. PICK t \in todo[a] : CallAddTask(a, t)
    BY DEF Scatter
  <1>2. t \in Tasks /\ Parent[t] = a /\ t \notin owned[a]
    BY DEF Bookkeeping, Ownership, Children
  <1>3. /\ pc[a] = "app" /\ pc' = [pc EXCEPT ![a] = "addTotal"]
        /\ owned' = [owned EXCEPT ![a] = owned[a] \cup {t}] /\ finishedTasks' = finishedTasks
    BY <1>1 DEF CallAddTask, queues
  <1>4. Status(t) = "out" /\ pc[t] = "idle" /\ t \notin finishedTasks /\ t # a
    BY <1>2, StatusMeans, StatusApart, ProgramAssumption
  <1>5. Status(t)' = "pending"
    BY <1>2, <1>3, <1>4 DEF Status
  <1>6. ASSUME NEW u \in Tasks, u # t PROVE Status(u)' = Status(u)
    <2>1. TaskKept(u)
      BY <1>2, <1>3, <1>6, ProgramAssumption DEF TaskKept
    <2> QED
      BY <2>1, StatusKept
  <1>7. Parent[t] \in Tasks => Status(Parent[t]) = "running"
    BY <1>2, <1>3, StatusMeans
  <1>8. [u \in Tasks |-> Status(u)]' = [[u \in Tasks |-> Status(u)] EXCEPT ![t] = "pending"]
    BY <1>2, <1>5, <1>6
  <1> QED
    BY <1>2, <1>4, <1>7, <1>8 DEF Pool!Add

LEMMA ExecStarts ==
  ASSUME Books, NEW t \in Tasks, t \in owned[Parent[t]], pc[t] = "idle", t \notin finishedTasks,
         UNCHANGED <<owned, finishedTasks>>, pc'[t] = "app",
         \A u \in Tasks : u # t => (pc'[u] = "idle" <=> pc[u] = "idle")
  PROVE  Pool!Start(t)
  <1>1. Status(t) = "pending" /\ Status(t)' = "running"
    BY DEF Status
  <1>2. ASSUME NEW u \in Tasks, u # t PROVE Status(u)' = Status(u)
    BY <1>2, StatusKept DEF TaskKept
  <1>3. [u \in Tasks |-> Status(u)]' = [[u \in Tasks |-> Status(u)] EXCEPT ![t] = "running"]
    BY <1>1, <1>2
  <1> QED
    BY <1>1, <1>3 DEF Pool!Start

LEMMA SignalFinishes ==
  ASSUME Books, NEW t \in Tasks, pc[t] = "returned",
         owned' = owned, finishedTasks' = finishedTasks \cup {t}, pc'[t] = "idle",
         \A u \in Tasks : u # t => (pc'[u] = "idle" <=> pc[u] = "idle")
  PROVE  Pool!Finish(t)
  <1>1. Status(t) = "running" /\ Status(t)' = "finished"
    <2>1. t \notin finishedTasks
      BY StatusApart
    <2> QED
      BY <2>1 DEF Status
  <1>2. ASSUME NEW u \in Tasks, u # t PROVE Status(u)' = Status(u)
    BY <1>2, StatusKept DEF TaskKept
  <1>3. [u \in Tasks |-> Status(u)]' = [[u \in Tasks |-> Status(u)] EXCEPT ![t] = "finished"]
    BY <1>1, <1>2
  <1>4. ASSUME NEW u \in Tasks, Parent[u] = t PROVE Status(u) = "out"
    BY <1>4, StatusMeans DEF Books, IdleHands
  <1> QED
    BY <1>1, <1>3, <1>4 DEF Pool!Finish, Pool!Subtasks

LEMMA CollectCollects ==
  ASSUME Books, NEW a \in Activities, Collect(a)
  PROVE  a \in Pool!Owners /\ Pool!CollectAll(a)
  <1> USE DEF Books, ProgramTypeOK, TypeOK
  <1>1. /\ pc[a] \in {"app", "gather"} /\ pc' = [pc EXCEPT ![a] = "app"]
        /\ finishedTasks' = finishedTasks \ owned[a]
        /\ owned' = [owned EXCEPT ![a] = owned[a] \ finishedTasks]
    BY DEF Collect
  <1>2. PICK t \in Tasks : t \in owned[a] /\ t \in finishedTasks
    BY DEF Collect
  <1>3. \A b \in Activities : \A u \in owned[b] : Parent[u] = b
    BY DEF Bookkeeping, Ownership, Children
  <1>4. Parent[t] = a /\ Status(t) = "finished"
    BY <1>2, <1>3 DEF Status
  <1>5. ASSUME NEW u \in Tasks, Parent[u] = a, Status(u) = "finished" PROVE Status(u)' = "out"
    <2>1. u \in finishedTasks /\ pc[u] = "idle" /\ u \in owned[a] /\ u # a
      BY <1>5, StatusMeans, StatusApart, ProgramAssumption
    <2> QED
      BY <1>1, <1>5, <2>1 DEF Status
  <1>6. ASSUME NEW u \in Tasks, Parent[u] # a \/ Status(u) # "finished"
        PROVE  Status(u)' = Status(u)
    <2>1. u \notin finishedTasks \/ u \notin owned[a]
      BY <1>3, <1>6, StatusMeans
    <2>2. pc'[u] = "idle" <=> pc[u] = "idle"
      BY <1>1 DEF Activities
    <2>3. u \in owned'[Parent[u]] <=> u \in owned[Parent[u]]
      BY <1>1, <2>1, ProgramAssumption
    <2>4. TaskKept(u)
      BY <1>1, <2>1, <2>2, <2>3 DEF TaskKept
    <2> QED
      BY <2>4, StatusKept
  <1>7. [u \in Tasks |-> Status(u)]' =
          [u \in Tasks |-> IF Parent[u] = a /\ [v \in Tasks |-> Status(v)][u] = "finished"
                           THEN "out" ELSE [v \in Tasks |-> Status(v)][u]]
    BY <1>5, <1>6
  <1> QED
    BY <1>4, <1>7 DEF Pool!CollectAll, Pool!Owners

-----------------------------------------------------------------------------
(* The steps that it does not see *)

StatusStays == UNCHANGED [t \in Tasks |-> Status(t)]

LEMMA TasksKept ==
  ASSUME \A t \in Tasks : TaskKept(t)
  PROVE  StatusStays
  BY StatusKept DEF StatusStays

(* An activity in the middle of a call goes on with it. *)
LEMMA CallGoesOn ==
  ASSUME ProgramTypeOK, UNCHANGED <<finishedTasks, owned>>,
         NEW a \in Activities, NEW v, pc[a] # "idle" \/ a \notin Tasks, v # "idle",
         pc' = [pc EXCEPT ![a] = v]
  PROVE  StatusStays
  <1>1. ASSUME NEW t \in Tasks PROVE pc'[t] = "idle" <=> pc[t] = "idle"
    BY DEF ProgramTypeOK, TypeOK, Activities
  <1> QED
    BY <1>1, TasksKept DEF TaskKept

LEMMA SlaveSimulates ==
  ASSUME Books, NEW s \in Slots, SlaveStep(s) \/ SlaveWake(s)
  PROVE  Pool!PoolNext \/ StatusStays
  <1>0. /\ ProgramTypeOK /\ Bookkeeping /\ pc \in [Activities -> CallStates]
        /\ Tasks \subseteq Activities
    BY DEF Books, ProgramTypeOK, TypeOK, Activities
  <1>1. CASE SlaveExec(s)
    <2>1. job[s] \in Tasks /\ pc[job[s]] = "idle" /\ job[s] # NoTask
      BY <1>0, <1>1, TaskStates, CacheAssumption DEF SlaveExec, Activities
    <2>2. job[s] \in owned[Parent[job[s]]] /\ job[s] \notin finishedTasks
      BY <1>0, <2>1 DEF Bookkeeping, Ownership, Exclusive
    <2>3. Pool!Start(job[s])
      BY <1>0, <1>1, <2>1, <2>2, ExecStarts DEF SlaveExec, queues
    <2> QED
      BY <2>1, <2>3 DEF Pool!PoolNext
  <1>2. CASE SlaveSignal(s)
    <2>1. job[s] \in Tasks /\ pc[job[s]] = "returned"
      BY <1>0, <1>2, TaskStates DEF SlaveSignal
    <2>2. /\ pc' = [AllGatherers EXCEPT ![job[s]] = "idle"] /\ owned' = owned
          /\ finishedTasks' = finishedTasks \cup {job[s]}
      BY <1>2 DEF SlaveSignal
    <2>3. /\ pc'[job[s]] = "idle"
          /\ \A u \in Tasks : u # job[s] => (pc'[u] = "idle" <=> pc[u] = "idle")
      BY <1>0, <2>1, <2>2 DEF AllGatherers
    <2>4. Pool!Finish(job[s])
      BY <2>1, <2>2, <2>3, SignalFinishes
    <2> QED
      BY <2>1, <2>4 DEF Pool!PoolNext
  <1>3. CASE ~SlaveExec(s) /\ ~SlaveSignal(s)
    <2>1. UNCHANGED <<finishedTasks, owned, pc>>
      BY <1>3 DEF SlaveStep, SlaveStart, SlaveQuit, SlaveSleep, SlavePop, SlaveDone,
         SlaveExit, SlaveWake, calls, queues
    <2> QED
      BY <2>1, TasksKept DEF TaskKept
  <1> QED
    BY <1>1, <1>2, <1>3

LEMMA AddSimulates ==
  ASSUME Books, NEW a \in Activities, AddStep(a)
  PROVE  Pool!PoolNext \/ StatusStays
  <1>0. /\ ProgramTypeOK /\ Bookkeeping /\ pc \in [Activities -> CallStates]
        /\ Tasks \subseteq Activities
    BY DEF Books, ProgramTypeOK, TypeOK, Activities
  <1>1. ASSUME NEW self \in SelfIfNone, AddSerial(a, self) PROVE Pool!PoolNext
    <2>1. /\ arg[a] \in Tasks /\ pc[arg[a]] = "idle" /\ pc[a] = "addMax" /\ arg[a] # NoTask
      BY <1>0, <1>1, TaskStates, CacheAssumption DEF AddSerial, HoldsTotalGetsMax, Activities
    <2>2. arg[a] \in owned[Parent[arg[a]]] /\ arg[a] \notin finishedTasks
      <3>1. arg[a] \in owned[a] /\ owned[a] \subseteq Children(a)
        BY <1>0, <2>1 DEF Bookkeeping, Ownership
      <3> QED
        BY <1>0, <3>1 DEF Bookkeeping, Exclusive, Children
    <2>3. /\ pc' = [pc EXCEPT ![a] = "serial", ![arg[a]] = "app"]
          /\ UNCHANGED <<owned, finishedTasks>>
      BY <1>1 DEF AddSerial, queues
    <2>4. /\ pc'[arg[a]] = "app"
          /\ \A u \in Tasks : u # arg[a] => (pc'[u] = "idle" <=> pc[u] = "idle")
      BY <1>0, <2>1, <2>3
    <2>5. Pool!Start(arg[a])
      BY <2>1, <2>2, <2>3, <2>4, ExecStarts
    <2> QED
      BY <2>1, <2>5 DEF Pool!PoolNext
  <1>2. CASE SerialDone(a)
    <2>1. arg[a] \in Tasks /\ pc[arg[a]] = "returned" /\ arg[a] # a /\ pc[a] = "serial"
      BY <1>0, <1>2, TaskStates DEF SerialDone
    <2>2. /\ pc' = [AllGatherers EXCEPT ![a] = "app", ![arg[a]] = "idle"] /\ owned' = owned
          /\ finishedTasks' = finishedTasks \cup {arg[a]}
      BY <1>2 DEF SerialDone
    <2>3. /\ pc'[arg[a]] = "idle"
          /\ \A u \in Tasks : u # arg[a] => (pc'[u] = "idle" <=> pc[u] = "idle")
      BY <1>0, <2>1, <2>2 DEF AllGatherers
    <2>4. Pool!Finish(arg[a])
      BY <2>1, <2>2, <2>3, SignalFinishes
    <2> QED
      BY <2>1, <2>4 DEF Pool!PoolNext
  <1>3. CASE ~SerialDone(a) /\ ~ \E self \in SelfIfNone : AddSerial(a, self)
    <2>1. /\ UNCHANGED <<finishedTasks, owned>> /\ pc[a] # "idle"
          /\ \E v \in {"addMax", "addStarted", "app", "threw"} : pc' = [pc EXCEPT ![a] = v]
      BY <1>3 DEF AddStep, AddLockTotal, AddQueued, AddStarting, AddThrows, ThreadStarted,
         HoldsTotalGetsMax, queues
    <2> QED
      BY <1>0, <2>1, CallGoesOn
  <1> QED
    BY <1>1, <1>2, <1>3

LEMMA OtherSimulates ==
  ASSUME Books,
         \/ \E a \in Activities : GatherStep(a) \/ GatherWake(a) \/ SetMaxStep(a) \/ ProgramStep(a)
         \/ \E c \in Callers : NextRound(c) \/ Resize(c)
         \/ Constructed \/ Destroy \/ UNCHANGED vars
  PROVE  Pool!PoolNext \/ StatusStays
  <1>0. /\ ProgramTypeOK /\ pc \in [Activities -> CallStates] /\ Callers \cap Tasks = {}
        /\ Activities = Callers \cup Tasks /\ Main \in Callers
    BY CacheAssumption, ProgramAssumption DEF Books, ProgramTypeOK, TypeOK, Activities
  <1>1. ASSUME NEW a \in Activities, Collect(a) PROVE Pool!PoolNext
    BY <1>1, CollectCollects DEF Pool!PoolNext
  <1>2. ASSUME NEW a \in Activities, Scatter(a) PROVE Pool!PoolNext
    BY <1>2, ScatterAdds DEF Pool!PoolNext
  <1>3. ASSUME NEW a \in Activities, GatherSleep(a) \/ GatherWake(a) \/ SetMaxStep(a)
        PROVE  StatusStays
    <2>1. UNCHANGED <<finishedTasks, owned>> /\ pc[a] # "idle"
      BY <1>3 DEF GatherSleep, GatherWake, SetMaxStep, SetMaxSame, SetMaxStop, SetMaxInstalls,
         SetMaxFails, NoThreadsLeft, queues
    <2>2. \E v \in {"gatherSleeping", "gather", "setMaxJoin", "setMaxStarted", "app",
                    "setMaxThrew", "wild"} : pc' = [pc EXCEPT ![a] = v]
      BY <1>3 DEF GatherSleep, GatherWake, SetMaxStep, SetMaxSame, SetMaxStop, SetMaxInstalls,
         SetMaxFails, InstallMax, AfterSetMax
    <2> QED
      BY <1>0, <2>1, <2>2, CallGoesOn
  <1>4. ASSUME NEW t \in Tasks, Return(t) PROVE StatusStays
    BY <1>0, <1>4, CallGoesOn DEF Return, Finished, queues
  <1>5. ASSUME NEW c \in Callers, NEW mx, CallSetMaxThreads(c, mx) PROVE StatusStays
    <2>1. UNCHANGED <<finishedTasks, owned>> /\ pc' = [pc EXCEPT ![c] = "setMax"]
      BY <1>5 DEF CallSetMaxThreads, queues
    <2> QED
      BY <1>0, <2>1, CallGoesOn
  <1>6. CASE Constructed
    <2>1. UNCHANGED <<finishedTasks, owned>> /\ \A t \in Tasks : pc'[t] = pc[t]
      BY <1>0, <1>6 DEF Constructed, queues
    <2> QED
      BY <2>1, TasksKept DEF TaskKept
  <1>7. CASE UNCHANGED vars \/ \E c \in Callers : NextRound(c)
    <2>1. UNCHANGED <<finishedTasks, owned, pc>>
      BY <1>7 DEF NextRound, vars, cacheVars, queues, calls
    <2> QED
      BY <2>1, TasksKept DEF TaskKept
  <1> QED
    BY <1>0, <1>1, <1>2, <1>3, <1>4, <1>5, <1>6, <1>7 DEF GatherStep, ProgramStep, Resize, Destroy

(* Every step of the cache and its program is a step of the pool, or none. *)
THEOREM CacheIsPool == Spec => Pool!PoolSpec
  <1>1. Init => Pool!PoolInit
    <2> SUFFICES ASSUME Init PROVE Pool!PoolInit
      OBVIOUS
    <2>1. PICK onDemand \in OnDemand, mx \in NumPthreads : CacheInit(Main, onDemand, mx)
      BY DEF Init
    <2>2. ASSUME NEW t \in Tasks PROVE Status(t) = "out"
      <3>1. t \in Activities /\ t # Main /\ Parent[t] \in Activities
        BY CacheAssumption, ProgramAssumption DEF Activities
      <3> QED
        BY <2>1, <3>1 DEF CacheInit, Status
    <2> QED
      BY <2>2 DEF Pool!PoolInit
  <1>2. Books /\ [Next]_vars => [Pool!PoolNext]_([t \in Tasks |-> Status(t)])
    <2> SUFFICES ASSUME Books, [Next]_vars PROVE Pool!PoolNext \/ StatusStays
      BY DEF StatusStays
    <2> QED
      BY SlaveSimulates, AddSimulates, OtherSimulates DEF Next, CallStep, Wake, Stop
  <1> QED
    BY <1>1, <1>2, BooksHold, PTL DEF Spec, Pool!PoolSpec

(* The subtasks of a task are in the cache only while its exec() is running. *)
THEOREM SubtasksInside ==
  Spec => [](\A t \in Tasks : Parent[t] \in Tasks /\ Status(t) # "out" =>
               Status(Parent[t]) = "running")
  <1>1. Books => \A t \in Tasks : Parent[t] \in Tasks /\ Status(t) # "out" =>
                   Status(Parent[t]) = "running"
    BY StatusMeans DEF Books, IdleHands
  <1> QED
    BY <1>1, BooksHold, PTL

=============================================================================
