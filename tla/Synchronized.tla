----------------------------- MODULE Synchronized -----------------------------
(***************************************************************************)
(* src/xylose/SyncLock.h with threads (OpenMP or POSIX spin locks), and    *)
(* src/xylose/Singleton.hpp, whose functions the same threads call.        *)
(* Singleton has no lock of its own, and the library calls it without one; *)
(* which rules the threads keep is chosen with the lock:                   *)
(*   "lock"   they call the Singleton only while they hold the lock        *)
(*   "keep"   they leave the object to the end of the program              *)
(* With neither, one of them may get an object that another one deletes.   *)
(* In the record on the bench                                              *)
(*   holder   the thread the lock belongs to                               *)
(*   pc       where each thread is                                         *)
(*   got      what it was told last, ptr   the object it was given last    *)
(*   m_ptr    the singleton's object, heap   the objects that exist        *)
(***************************************************************************)
EXTENDS Workbench

CONSTANTS Lockers,   \* the threads
          Nobody,    \* no thread
          MaxObjects \* so many are made when instance() stops to begin another one

ASSUME NobodyAssumption == Nobody \notin Lockers

Unlocked(b) == b.holder = Nobody

(* pthread_spin_trylock and omp_test_lock: the lock if it is free. *)
Test(b, t) == IF Unlocked(b) THEN [b EXCEPT !.holder = t] ELSE b

Unlock(b) == [b EXCEPT !.holder = Nobody]

At(t, place) == On("sync") /\ bench.pc[t] = place

Told(b, t, place, answer) == [b EXCEPT !.pc[t] = place, !.got[t] = answer]

NewLock ==
  /\ Free
  /\ \E rules \in SUBSET {"lock", "keep"} :
       PutOn([is |-> "sync", rules |-> rules, holder |-> Nobody, pc |-> [t \in Lockers |-> "start"],
              got |-> [t \in Lockers |-> "nothing"], ptr |-> [t \in Lockers |-> 0],
              m_ptr |-> 0, heap |-> {}, made |-> 0])

(* lock(), as SyncKey, Synchronize and synchronize() call it first. *)
Lock(t) ==
  /\ At(t, "start") /\ Unlocked(bench)
  /\ bench' = Told(Test(bench, t), t, "inside", "key")

TryLock(t) ==
  /\ At(t, "start")
  /\ bench' = IF Unlocked(bench) THEN Told(Test(bench, t), t, "inside", "true")
              ELSE Told(bench, t, "end", "false")

(* isLocked() takes the lock to see that it can. *)
IsLocked(t) ==
  /\ At(t, "start")
  /\ bench' = IF Unlocked(bench) THEN Told(Test(bench, t), t, "testing", "nothing")
              ELSE Told(bench, t, "end", "locked")

IsLockedReturn(t) ==
  /\ At(t, "testing")
  /\ bench' = Told(Unlock(bench), t, "end", "unlocked")

(* Where a thread may call the Singleton. *)
MayCall(t) == At(t, "inside") \/ (At(t, "start") /\ "lock" \notin bench.rules)

(* Where it goes from there: to the end of the key's scope if it has one. *)
After(t) == IF bench.holder = t THEN "unlock" ELSE "end"

(* instance(): get(), and init() if there is no object. *)
Instance(t) ==
  /\ MayCall(t)
  /\ bench.m_ptr = 0 => bench.made < MaxObjects
  /\ bench' = [bench EXCEPT !.pc[t] = IF bench.m_ptr = 0 THEN "init" ELSE "get"]

(* init(): createObject(), past the assertion that there is none.  The     *)
(* object is not m_ptr yet.                                                *)
Create(t) ==
  /\ At(t, "init")
  /\ LET it == bench.made + 1
     IN bench' = [bench EXCEPT !.pc[t] = "assign", !.ptr[t] = it, !.made = it, !.heap = @ \cup {it}]

Assign(t) ==
  /\ At(t, "assign")
  /\ bench' = [bench EXCEPT !.pc[t] = "get", !.m_ptr = bench.ptr[t]]

(* instance() reads the pointer once more, and returns what it finds. *)
Get(t) ==
  /\ At(t, "get")
  /\ bench' = [bench EXCEPT !.pc[t] = After(t), !.ptr[t] = bench.m_ptr]

(* destroyInstance(): get(), and finalize() if there is an object. *)
DestroyInstance(t) ==
  /\ MayCall(t) /\ "keep" \notin bench.rules
  /\ bench' = [bench EXCEPT !.pc[t] = IF bench.m_ptr = 0 THEN After(t) ELSE "finalize"]

(* finalize(): deleteObject(), past the assertion that there is one. *)
Finalize(t) ==
  /\ At(t, "finalize")
  /\ bench' = [bench EXCEPT !.pc[t] = "forget", !.heap = @ \ {bench.m_ptr}]

(* Bug: the pointer to the deleted object stays. *)
ForgetNothing(t) ==
  /\ At(t, "forget")
  /\ bench' = [bench EXCEPT !.pc[t] = After(t)]

Forget(t) ==
  /\ At(t, "forget")
  /\ bench' = [bench EXCEPT !.pc[t] = After(t), !.m_ptr = 0]

(* A failing assertion, where they are compiled in, or the deletion of     *)
(* what was deleted before may end the program.                            *)
Abort(t) ==
  /\ \/ At(t, "init") /\ bench.m_ptr # 0
     \/ At(t, "finalize") /\ bench.m_ptr \notin bench.heap
  /\ bench' = NothingThere

(* The destructor of SyncKey. *)
Release(t) ==
  /\ At(t, "inside") \/ At(t, "unlock")
  /\ bench' = [Unlock(bench) EXCEPT !.pc[t] = "end"]

Again(t) ==
  /\ At(t, "end")
  /\ bench' = [bench EXCEPT !.pc[t] = "start", !.got[t] = "nothing", !.ptr[t] = 0]

(* The container's destructor at the end of the program. *)
EndOfProgram ==
  /\ On("sync") /\ (\A t \in Lockers : bench.pc[t] = "end")
  /\ bench' = [is |-> "ended", rules |-> bench.rules, holder |-> bench.holder,
                heap |-> bench.heap \ {bench.m_ptr}]

SingletonStep(t) ==
  \/ Instance(t) \/ Create(t) \/ Assign(t) \/ Get(t)
  \/ DestroyInstance(t) \/ Finalize(t) \/ Forget(t) \/ Abort(t)

SyncNext ==
  \/ NewLock \/ EndOfProgram \/ TakeOff("ended")
  \/ \E t \in Lockers :
       \/ Lock(t) \/ TryLock(t) \/ IsLocked(t) \/ IsLockedReturn(t)
       \/ SingletonStep(t) \/ Release(t) \/ Again(t)
-----------------------------------------------------------------------------
(* At any time the lock belongs to the one thread inside of it or testing  *)
(* it and to nobody when there is none, whichever of lock, tryLock and     *)
(* isLocked the others call.                                               *)
HolderAlone ==
  \A t \in Lockers :
    /\ bench.pc[t] \in {"inside", "testing", "unlock"} => bench.holder = t
    /\ bench.holder = t => bench.pc[t] \notin {"start", "end"}

(* So threads that take it to call the Singleton never have two objects:   *)
(* there is the one m_ptr, except in the middle of its creation and of its *)
(* deletion, and that is what they are given.                              *)
OneInstance ==
  /\ \A t \in Lockers : bench.pc[t] \notin {"start", "end"} => bench.holder = t
  /\ \A t \in Lockers : bench.pc[t] = "unlock" /\ bench.ptr[t] # 0 => bench.ptr[t] = bench.m_ptr
  /\ IF \E t \in Lockers : bench.pc[t] \in {"assign", "forget"}
     THEN Cardinality(bench.heap) <= 1
     ELSE bench.heap = {bench.m_ptr} \ {0}

(* Threads that do not take it, as Timing::registry() does not, may make   *)
(* several and be given different ones, but each exists as long as none of *)
(* them is destroyed, and instance() has one to return.                    *)
NoneLost ==
  /\ \A t \in Lockers : bench.ptr[t] \in bench.heap \cup {0}
  /\ \A t \in Lockers : bench.pc[t] = "get" => bench.m_ptr \in bench.heap

(* One thread at a time is inside of the lock; with it there is one        *)
(* singleton at a time and none is left at the end, and without it, unless *)
(* somebody destroys it, nobody is given one that does not exist.          *)
OneAtATime ==
  /\ On("sync") =>
       /\ HolderAlone
       /\ "lock" \in bench.rules => OneInstance
       /\ "keep" \in bench.rules => NoneLost
  /\ On("ended") => bench.holder = Nobody /\ ("lock" \in bench.rules => bench.heap = {})
=============================================================================
