---------------------------- MODULE LibraryProofs ----------------------------
(***************************************************************************)
(* Proofs about the parts of the library with locks, files or memory of    *)
(* their own that share the bench: SyncLock and the Singleton behind it,   *)
(* what owns memory, the logger with its mutex and the temporary files of  *)
(* the external programs.  Each specification leaves the rest of the       *)
(* library free to do anything on the bench that is not of its class.      *)
(***************************************************************************)
EXTENDS Synchronized, Ownership, Logging, Programs,
        FiniteSetTheorems, SequenceTheorems, WellFoundedInduction, TLAPS

(* A step of some other class. *)
Elsewhere(classes) == bench.is \notin classes /\ bench'.is \notin classes

-----------------------------------------------------------------------------
(* SyncLock and Singleton *)

(* SyncLock and the Singleton, in a library that does anything else as well. *)
SyncSpec == bench = NothingThere /\ [][SyncNext \/ Elsewhere({"sync", "ended"})]_bench

(* Where a thread is. *)
Places ==
  {"start", "inside", "testing", "init", "assign", "get", "finalize", "forget", "unlock", "end"}

(* What a thread was last told. *)
Answers == {"nothing", "key", "true", "false", "locked", "unlocked"}

(* The records of the lock and the singleton beside it. *)
Syncs ==
  [is : {"sync"}, rules : SUBSET {"lock", "keep"}, holder : Lockers \cup {Nobody},
   pc : [Lockers -> Places], got : [Lockers -> Answers], ptr : [Lockers -> Nat], m_ptr : Nat,
   heap : SUBSET Nat, made : Nat]

(* The type of the bench while the threads are about. *)
SyncType == bench \in Syncs

(* With the lock: the threads at the singleton one at a time, and what they find there. *)
OneObject ==
  /\ \A t \in Lockers : bench.pc[t] \notin {"start", "end"} => bench.holder = t
  /\ \A t \in Lockers : bench.pc[t] \notin {"assign", "get", "unlock", "end"} => bench.ptr[t] = 0
  /\ \A t \in Lockers :
       /\ bench.pc[t] = "init" => bench.m_ptr = 0
       /\ bench.pc[t] = "assign" => bench.m_ptr = 0 /\ bench.ptr[t] # 0 /\ bench.heap = {bench.ptr[t]}
       /\ bench.pc[t] = "get" => bench.m_ptr # 0
       /\ bench.pc[t] = "forget" => bench.heap = {}
       /\ bench.pc[t] = "unlock" /\ bench.ptr[t] # 0 => bench.ptr[t] = bench.m_ptr
  /\ (\A t \in Lockers : bench.pc[t] \notin {"assign", "forget"}) => bench.heap = {bench.m_ptr} \ {0}

(* Without anybody who destroys: everything a thread has or can find exists. *)
AllExist ==
  /\ bench.m_ptr \in bench.heap \cup {0}
  /\ \A t \in Lockers :
       /\ bench.ptr[t] \in bench.heap \cup {0}
       /\ bench.pc[t] \notin {"finalize", "forget"}
       /\ bench.pc[t] = "assign" => bench.ptr[t] \in bench.heap
       /\ bench.pc[t] = "get" => bench.m_ptr \in bench.heap

(* The inductive invariant; what stays when the program has ended is nothing. *)
SyncKept ==
  /\ On("sync") =>
       /\ SyncType /\ HolderAlone
       /\ "lock" \in bench.rules => OneObject
       /\ "keep" \in bench.rules => AllExist
  /\ On("ended") => bench.holder = Nobody /\ ("lock" \in bench.rules => bench.heap = {})

(* From b to c thread t got to place p with pointer q, and the holder became o, the singleton m
   and the objects h. *)
Moved(b, c, t, p, q, o, m, h) ==
  /\ c \in Syncs /\ c.rules = b.rules /\ c.holder = o /\ c.m_ptr = m /\ c.heap = h
  /\ c.pc[t] = p /\ c.ptr[t] = q
  /\ \A u \in Lockers : u # t => c.pc[u] = b.pc[u] /\ c.ptr[u] = b.ptr[u]

(* The places of a thread at the lock. *)
LEMMA PlacesNamed ==
  /\ "start" \in Places /\ "inside" \in Places /\ "testing" \in Places /\ "init" \in Places
  /\ "assign" \in Places /\ "get" \in Places /\ "finalize" \in Places /\ "forget" \in Places
  /\ "unlock" \in Places /\ "end" \in Places
  BY DEF Places

(* What a thread can be answered. *)
LEMMA AnswersNamed ==
  /\ "nothing" \in Answers /\ "key" \in Answers /\ "true" \in Answers
  /\ "false" \in Answers /\ "locked" \in Answers /\ "unlocked" \in Answers
  BY DEF Answers

(* The lock with another holder. *)
LEMMA HolderFields ==
  ASSUME NEW b \in Syncs, NEW o \in Lockers \cup {Nobody}
  PROVE  LET c == [b EXCEPT !.holder = o]
         IN /\ c \in Syncs /\ c.rules = b.rules /\ c.holder = o /\ c.pc = b.pc /\ c.ptr = b.ptr
            /\ c.m_ptr = b.m_ptr /\ c.heap = b.heap /\ c.made = b.made
  BY DEF Syncs

(* A thread that is told something. *)
LEMMA ToldFields ==
  ASSUME NEW b \in Syncs, NEW t \in Lockers, NEW p \in Places, NEW g \in Answers
  PROVE  Moved(b, Told(b, t, p, g), t, p, b.ptr[t], b.holder, b.m_ptr, b.heap)
  <1> DEFINE c == Told(b, t, p, g)
  <1>1. /\ c \in Syncs /\ c.rules = b.rules /\ c.holder = b.holder /\ c.ptr = b.ptr
        /\ c.pc = [b.pc EXCEPT ![t] = p] /\ c.m_ptr = b.m_ptr /\ c.heap = b.heap
    BY DEF Told, Syncs
  <1>2. b.pc \in [Lockers -> Places]
    BY DEF Syncs
  <1> HIDE DEF c
  <1> QED
    BY <1>1, <1>2 DEF Moved, c

(* A thread that goes on. *)
LEMMA PlacedFields ==
  ASSUME NEW b \in Syncs, NEW t \in Lockers, NEW p \in Places,
         NEW c, c = [b EXCEPT !.pc[t] = p]
  PROVE  Moved(b, c, t, p, b.ptr[t], b.holder, b.m_ptr, b.heap)
  <1>1. /\ c \in Syncs /\ c.rules = b.rules /\ c.holder = b.holder
        /\ c.pc = [b.pc EXCEPT ![t] = p] /\ c.ptr = b.ptr
        /\ c.m_ptr = b.m_ptr /\ c.heap = b.heap
    BY DEF Syncs
  <1>2. b.pc \in [Lockers -> Places] /\ b.ptr \in [Lockers -> Nat]
    BY DEF Syncs
  <1> QED
    BY <1>1, <1>2 DEF Moved

(* A thread that is given a pointer. *)
LEMMA GivenFields ==
  ASSUME NEW b \in Syncs, NEW t \in Lockers, NEW p \in Places, NEW q \in Nat,
         NEW c, c = [b EXCEPT !.pc[t] = p, !.ptr[t] = q]
  PROVE  Moved(b, c, t, p, q, b.holder, b.m_ptr, b.heap)
  <1>1. /\ c \in Syncs /\ c.rules = b.rules /\ c.holder = b.holder
        /\ c.pc = [b.pc EXCEPT ![t] = p] /\ c.ptr = [b.ptr EXCEPT ![t] = q]
        /\ c.m_ptr = b.m_ptr /\ c.heap = b.heap
    BY DEF Syncs
  <1>2. b.pc \in [Lockers -> Places] /\ b.ptr \in [Lockers -> Nat]
    BY DEF Syncs
  <1> QED
    BY <1>1, <1>2 DEF Moved

(* A thread that begins again. *)
LEMMA BegunFields ==
  ASSUME NEW b \in Syncs, NEW t \in Lockers, NEW p \in Places, NEW g \in Answers, NEW q \in Nat,
         NEW c, c = [b EXCEPT !.pc[t] = p, !.got[t] = g, !.ptr[t] = q]
  PROVE  Moved(b, c, t, p, q, b.holder, b.m_ptr, b.heap)
  <1>1. /\ c \in Syncs /\ c.rules = b.rules /\ c.holder = b.holder
        /\ c.pc = [b.pc EXCEPT ![t] = p] /\ c.ptr = [b.ptr EXCEPT ![t] = q]
        /\ c.m_ptr = b.m_ptr /\ c.heap = b.heap
    BY DEF Syncs
  <1>2. b.pc \in [Lockers -> Places] /\ b.ptr \in [Lockers -> Nat]
    BY DEF Syncs
  <1> QED
    BY <1>1, <1>2 DEF Moved

(* A thread that makes an object. *)
LEMMA ObjectFields ==
  ASSUME NEW b \in Syncs, NEW t \in Lockers, NEW p \in Places, NEW q \in Nat, NEW n \in Nat,
         NEW h \in SUBSET Nat,
         NEW c, c = [b EXCEPT !.pc[t] = p, !.ptr[t] = q, !.made = n, !.heap = h]
  PROVE  Moved(b, c, t, p, q, b.holder, b.m_ptr, h)
  <1>1. /\ c \in Syncs /\ c.rules = b.rules /\ c.holder = b.holder
        /\ c.pc = [b.pc EXCEPT ![t] = p] /\ c.ptr = [b.ptr EXCEPT ![t] = q]
        /\ c.m_ptr = b.m_ptr /\ c.heap = h
    BY DEF Syncs
  <1>2. b.pc \in [Lockers -> Places] /\ b.ptr \in [Lockers -> Nat]
    BY DEF Syncs
  <1> QED
    BY <1>1, <1>2 DEF Moved

(* One that sets m_ptr. *)
LEMMA AssignedFields ==
  ASSUME NEW b \in Syncs, NEW t \in Lockers, NEW p \in Places, NEW m \in Nat,
         NEW c, c = [b EXCEPT !.pc[t] = p, !.m_ptr = m]
  PROVE  Moved(b, c, t, p, b.ptr[t], b.holder, m, b.heap)
  <1>1. /\ c \in Syncs /\ c.rules = b.rules /\ c.holder = b.holder
        /\ c.pc = [b.pc EXCEPT ![t] = p] /\ c.ptr = b.ptr
        /\ c.m_ptr = m /\ c.heap = b.heap
    BY DEF Syncs
  <1>2. b.pc \in [Lockers -> Places] /\ b.ptr \in [Lockers -> Nat]
    BY DEF Syncs
  <1> QED
    BY <1>1, <1>2 DEF Moved

(* One that deletes. *)
LEMMA DeletedFields ==
  ASSUME NEW b \in Syncs, NEW t \in Lockers, NEW p \in Places, NEW h \in SUBSET Nat,
         NEW c, c = [b EXCEPT !.pc[t] = p, !.heap = h]
  PROVE  Moved(b, c, t, p, b.ptr[t], b.holder, b.m_ptr, h)
  <1>1. /\ c \in Syncs /\ c.rules = b.rules /\ c.holder = b.holder
        /\ c.pc = [b.pc EXCEPT ![t] = p] /\ c.ptr = b.ptr
        /\ c.m_ptr = b.m_ptr /\ c.heap = h
    BY DEF Syncs
  <1>2. b.pc \in [Lockers -> Places] /\ b.ptr \in [Lockers -> Nat]
    BY DEF Syncs
  <1> QED
    BY <1>1, <1>2 DEF Moved

(* lock, tryLock and isLocked: the lock is taken from nobody, or the thread goes away. *)
LEMMA SyncFinds ==
  ASSUME bench \in Syncs, NEW t \in Lockers, Lock(t) \/ TryLock(t) \/ IsLocked(t)
  PROVE  /\ bench.pc[t] = "start"
         /\ \/ /\ bench.holder = Nobody
               /\ \E p \in {"inside", "testing"} :
                    Moved(bench, bench', t, p, bench.ptr[t], t, bench.m_ptr, bench.heap)
            \/ Moved(bench, bench', t, "end", bench.ptr[t], bench.holder, bench.m_ptr, bench.heap)
  <1> DEFINE mine == [bench EXCEPT !.holder = t]
  <1>1. bench.pc[t] = "start"
    BY DEF Lock, TryLock, IsLocked, At
  <1>2. /\ mine \in Syncs /\ mine.rules = bench.rules /\ mine.holder = t /\ mine.pc = bench.pc
        /\ mine.ptr = bench.ptr /\ mine.m_ptr = bench.m_ptr /\ mine.heap = bench.heap
    BY HolderFields
  <1> HIDE DEF mine
  <1>3. ASSUME NEW p \in {"inside", "testing"}, NEW g \in Answers, bench' = Told(mine, t, p, g)
        PROVE  Moved(bench, bench', t, p, bench.ptr[t], t, bench.m_ptr, bench.heap)
    <2>1. p \in Places
      BY PlacesNamed
    <2>2. Moved(mine, bench', t, p, mine.ptr[t], mine.holder, mine.m_ptr, mine.heap)
      BY <1>2, <1>3, <2>1, ToldFields
    <2> QED
      BY <1>2, <2>2 DEF Moved
  <1>4. ASSUME NEW g \in Answers, bench' = Told(bench, t, "end", g)
        PROVE  Moved(bench, bench', t, "end", bench.ptr[t], bench.holder, bench.m_ptr, bench.heap)
    BY <1>4, ToldFields, PlacesNamed
  <1>5. CASE bench.holder = Nobody
    <2>1. Test(bench, t) = mine /\ Unlocked(bench)
      BY <1>5 DEF Test, Unlocked, mine
    <2>2. \E p \in {"inside", "testing"}, g \in Answers : bench' = Told(mine, t, p, g)
      <3>1. CASE Lock(t)
        BY <2>1, <3>1, AnswersNamed DEF Lock
      <3>2. CASE TryLock(t)
        <4>1. bench' = Told(mine, t, "inside", "true")
          BY <2>1, <3>2 DEF TryLock
        <4> QED
          BY <4>1, AnswersNamed
      <3>3. CASE IsLocked(t)
        <4>1. bench' = Told(mine, t, "testing", "nothing")
          BY <2>1, <3>3 DEF IsLocked
        <4> QED
          BY <4>1, AnswersNamed
      <3> QED
        BY <3>1, <3>2, <3>3
    <2> QED
      BY <1>1, <1>3, <1>5, <2>2
  <1>6. CASE bench.holder # Nobody
    <2>1. \E g \in Answers : bench' = Told(bench, t, "end", g)
      <3>1. CASE TryLock(t)
        <4>1. bench' = Told(bench, t, "end", "false")
          BY <1>6, <3>1 DEF TryLock, Unlocked
        <4> QED
          BY <4>1, AnswersNamed
      <3>2. CASE IsLocked(t)
        <4>1. bench' = Told(bench, t, "end", "locked")
          BY <1>6, <3>2 DEF IsLocked, Unlocked
        <4> QED
          BY <4>1, AnswersNamed
      <3> QED
        BY <1>6, <3>1, <3>2 DEF Lock, Unlocked
    <2> QED
      BY <1>1, <1>4, <2>1
  <1> QED
    BY <1>5, <1>6

(* The answer of isLocked, the unlock at the end of the scope, and the next round. *)
LEMMA SyncLeaves ==
  ASSUME bench \in Syncs, NEW t \in Lockers, IsLockedReturn(t) \/ Release(t) \/ Again(t)
  PROVE  \/ /\ bench.pc[t] \in {"inside", "testing", "unlock"}
            /\ Moved(bench, bench', t, "end", bench.ptr[t], Nobody, bench.m_ptr, bench.heap)
         \/ /\ bench.pc[t] = "end"
            /\ Moved(bench, bench', t, "start", 0, bench.holder, bench.m_ptr, bench.heap)
  <1> DEFINE free == [bench EXCEPT !.holder = Nobody]
  <1>1. /\ free \in Syncs /\ free.rules = bench.rules /\ free.holder = Nobody
        /\ free.pc = bench.pc /\ free.ptr = bench.ptr /\ free.m_ptr = bench.m_ptr
        /\ free.heap = bench.heap /\ Unlock(bench) = free
    BY HolderFields DEF Unlock
  <1> HIDE DEF free
  <1>2. ASSUME Moved(free, bench', t, "end", free.ptr[t], free.holder, free.m_ptr, free.heap)
        PROVE  Moved(bench, bench', t, "end", bench.ptr[t], Nobody, bench.m_ptr, bench.heap)
    BY <1>1, <1>2 DEF Moved
  <1>3. CASE IsLockedReturn(t)
    <2>1. bench.pc[t] = "testing" /\ bench' = Told(free, t, "end", "unlocked")
      BY <1>1, <1>3 DEF IsLockedReturn, At
    <2>2. Moved(free, bench', t, "end", free.ptr[t], free.holder, free.m_ptr, free.heap)
      BY <1>1, <2>1, ToldFields, PlacesNamed, AnswersNamed
    <2> QED
      BY <1>2, <2>1, <2>2
  <1>4. CASE Release(t)
    <2>1. bench.pc[t] \in {"inside", "unlock"} /\ bench' = [free EXCEPT !.pc[t] = "end"]
      BY <1>1, <1>4 DEF Release, At
    <2>2. Moved(free, bench', t, "end", free.ptr[t], free.holder, free.m_ptr, free.heap)
      BY <1>1, <2>1, PlacedFields, PlacesNamed
    <2> QED
      BY <1>2, <2>1, <2>2
  <1>5. CASE Again(t)
    <2>1. /\ bench.pc[t] = "end"
          /\ bench' = [bench EXCEPT !.pc[t] = "start", !.got[t] = "nothing", !.ptr[t] = 0]
      BY <1>5 DEF Again, At
    <2>2. Moved(bench, bench', t, "start", 0, bench.holder, bench.m_ptr, bench.heap)
      BY <2>1, BegunFields, PlacesNamed, AnswersNamed
    <2> QED
      BY <2>1, <2>2
  <1> QED
    BY <1>3, <1>4, <1>5

(* Thread t may begin a call of the singleton. *)
Begins(t) == bench.pc[t] = "inside" \/ (bench.pc[t] = "start" /\ "lock" \notin bench.rules)

(* What the steps of the singleton do to the thread, to m_ptr and to the objects. *)
LEMMA SyncUses ==
  ASSUME bench \in Syncs, NEW t \in Lockers, SingletonStep(t), bench' # NothingThere
  PROVE  LET Moves(p, q, m, h) == Moved(bench, bench', t, p, q, bench.holder, m, h)
             m_ptr == bench.m_ptr
             heap == bench.heap
             q0 == bench.ptr[t]
         IN \/ Begins(t) /\ m_ptr = 0 /\ Moves("init", q0, m_ptr, heap)
            \/ Begins(t) /\ m_ptr # 0 /\ Moves("get", q0, m_ptr, heap)
            \/ /\ bench.pc[t] = "init"
               /\ \E it \in Nat : it # 0 /\ Moves("assign", it, m_ptr, heap \cup {it})
            \/ bench.pc[t] = "assign" /\ Moves("get", q0, q0, heap)
            \/ bench.pc[t] = "get" /\ Moves(After(t), m_ptr, m_ptr, heap)
            \/ Begins(t) /\ "keep" \notin bench.rules /\ Moves(After(t), q0, m_ptr, heap)
            \/ Begins(t) /\ "keep" \notin bench.rules /\ m_ptr # 0 /\ Moves("finalize", q0, m_ptr, heap)
            \/ bench.pc[t] = "finalize" /\ Moves("forget", q0, m_ptr, heap \ {m_ptr})
            \/ bench.pc[t] = "forget" /\ Moves(After(t), q0, 0, heap)
  <1>0. /\ bench.ptr[t] \in Nat /\ bench.m_ptr \in Nat /\ bench.made \in Nat
        /\ bench.heap \in SUBSET Nat /\ After(t) \in Places
    BY PlacesNamed DEF Syncs, After
  <1>1. CASE Instance(t)
    <2>1. /\ Begins(t)
          /\ bench' = [bench EXCEPT !.pc[t] = IF bench.m_ptr = 0 THEN "init" ELSE "get"]
      BY <1>1 DEF Instance, MayCall, At, Begins
    <2>2. CASE bench.m_ptr = 0
      <3>1. bench' = [bench EXCEPT !.pc[t] = "init"]
        BY <2>1, <2>2
      <3> QED
        BY <2>1, <2>2, <3>1, PlacedFields, PlacesNamed
    <2>3. CASE bench.m_ptr # 0
      <3>1. bench' = [bench EXCEPT !.pc[t] = "get"]
        BY <2>1, <2>3
      <3> QED
        BY <2>1, <2>3, <3>1, PlacedFields, PlacesNamed
    <2> QED
      BY <2>2, <2>3
  <1>2. CASE Create(t)
    <2> DEFINE it == bench.made + 1
    <2>1. /\ bench.pc[t] = "init" /\ it \in Nat /\ it # 0 /\ bench.heap \cup {it} \in SUBSET Nat
          /\ bench' = [bench EXCEPT !.pc[t] = "assign", !.ptr[t] = it, !.made = it,
                                    !.heap = bench.heap \cup {it}]
      BY <1>0, <1>2 DEF Create, At
    <2> HIDE DEF it
    <2>2. Moved(bench, bench', t, "assign", it, bench.holder, bench.m_ptr, bench.heap \cup {it})
      BY <2>1, ObjectFields, PlacesNamed
    <2> QED
      BY <2>1, <2>2
  <1>3. CASE Assign(t)
    <2>1. bench.pc[t] = "assign" /\ bench' = [bench EXCEPT !.pc[t] = "get", !.m_ptr = bench.ptr[t]]
      BY <1>3 DEF Assign, At
    <2>2. Moved(bench, bench', t, "get", bench.ptr[t], bench.holder, bench.ptr[t], bench.heap)
      BY <1>0, <2>1, AssignedFields, PlacesNamed
    <2> QED
      BY <2>1, <2>2
  <1>4. CASE Get(t)
    <2>1. bench.pc[t] = "get" /\ bench' = [bench EXCEPT !.pc[t] = After(t), !.ptr[t] = bench.m_ptr]
      BY <1>4 DEF Get, At
    <2>2. Moved(bench, bench', t, After(t), bench.m_ptr, bench.holder, bench.m_ptr, bench.heap)
      BY <1>0, <2>1, GivenFields
    <2> QED
      BY <2>1, <2>2
  <1>5. CASE DestroyInstance(t)
    <2>1. /\ Begins(t) /\ "keep" \notin bench.rules
          /\ bench' = [bench EXCEPT !.pc[t] = IF bench.m_ptr = 0 THEN After(t) ELSE "finalize"]
      BY <1>5 DEF DestroyInstance, MayCall, At, Begins
    <2>2. CASE bench.m_ptr = 0
      <3>1. bench' = [bench EXCEPT !.pc[t] = After(t)]
        BY <2>1, <2>2
      <3>2. Moved(bench, bench', t, After(t), bench.ptr[t], bench.holder, bench.m_ptr, bench.heap)
        BY <1>0, <3>1, PlacedFields
      <3> QED
        BY <2>1, <3>2
    <2>3. CASE bench.m_ptr # 0
      <3>1. bench' = [bench EXCEPT !.pc[t] = "finalize"]
        BY <2>1, <2>3
      <3> QED
        BY <2>1, <2>3, <3>1, PlacedFields, PlacesNamed
    <2> QED
      BY <2>2, <2>3
  <1>6. CASE Finalize(t)
    <2>1. /\ bench.pc[t] = "finalize" /\ bench.heap \ {bench.m_ptr} \in SUBSET Nat
          /\ bench' = [bench EXCEPT !.pc[t] = "forget", !.heap = bench.heap \ {bench.m_ptr}]
      BY <1>0, <1>6 DEF Finalize, At
    <2>2. Moved(bench, bench', t, "forget", bench.ptr[t], bench.holder, bench.m_ptr,
                bench.heap \ {bench.m_ptr})
      BY <2>1, DeletedFields, PlacesNamed
    <2> QED
      BY <2>1, <2>2
  <1>7. CASE Forget(t)
    <2>1. bench.pc[t] = "forget" /\ bench' = [bench EXCEPT !.pc[t] = After(t), !.m_ptr = 0]
      BY <1>7 DEF Forget, At
    <2>2. Moved(bench, bench', t, After(t), bench.ptr[t], bench.holder, 0, bench.heap)
      BY <1>0, <2>1, AssignedFields
    <2> QED
      BY <2>1, <2>2
  <1> QED
    BY <1>1, <1>2, <1>3, <1>4, <1>5, <1>6, <1>7 DEF SingletonStep, Abort

(* A step of a thread keeps the lock with the one that is inside. *)
LEMMA SyncStep ==
  ASSUME On("sync"), SyncKept, NEW t \in Lockers, bench' # NothingThere,
         \/ Lock(t) \/ TryLock(t) \/ IsLocked(t) \/ IsLockedReturn(t)
         \/ SingletonStep(t) \/ Release(t) \/ Again(t)
  PROVE  SyncKept'
  <1>1. /\ bench \in Syncs /\ HolderAlone /\ Nobody \notin Lockers
        /\ "lock" \in bench.rules => OneObject
        /\ "keep" \in bench.rules => AllExist
    BY NobodyAssumption DEF SyncKept, SyncType
  <1>2. bench.m_ptr \in Nat /\ bench.heap \subseteq Nat /\ \A u \in Lockers : bench.ptr[u] \in Nat
    BY <1>1 DEF Syncs
  <1>3. CASE Lock(t) \/ TryLock(t) \/ IsLocked(t)
    <2>1. /\ bench.pc[t] = "start"
          /\ \/ /\ bench.holder = Nobody
                /\ \E p \in {"inside", "testing"} :
                     Moved(bench, bench', t, p, bench.ptr[t], t, bench.m_ptr, bench.heap)
             \/ Moved(bench, bench', t, "end", bench.ptr[t], bench.holder, bench.m_ptr, bench.heap)
      BY <1>1, <1>3, SyncFinds
    <2>2. bench' \in Syncs /\ bench'.rules = bench.rules
      BY <2>1 DEF Moved
    <2>3. HolderAlone'
      BY <1>1, <2>1 DEF HolderAlone, Moved
    <2>4. "lock" \in bench.rules => OneObject'
      BY <1>1, <2>1 DEF HolderAlone, OneObject, Moved
    <2>5. "keep" \in bench.rules => AllExist'
      BY <1>1, <2>1 DEF AllExist, Moved
    <2> QED
      BY <2>2, <2>3, <2>4, <2>5 DEF SyncKept, SyncType, On, Syncs
  <1>4. CASE IsLockedReturn(t) \/ Release(t) \/ Again(t)
    <2>1. \/ /\ bench.pc[t] \in {"inside", "testing", "unlock"}
             /\ Moved(bench, bench', t, "end", bench.ptr[t], Nobody, bench.m_ptr, bench.heap)
          \/ /\ bench.pc[t] = "end"
             /\ Moved(bench, bench', t, "start", 0, bench.holder, bench.m_ptr, bench.heap)
      BY <1>1, <1>4, SyncLeaves
    <2>2. bench' \in Syncs /\ bench'.rules = bench.rules
      BY <2>1 DEF Moved
    <2>3. HolderAlone'
      BY <1>1, <2>1 DEF HolderAlone, Moved
    <2>4. "lock" \in bench.rules => OneObject'
      BY <1>1, <2>1 DEF HolderAlone, OneObject, Moved
    <2>5. "keep" \in bench.rules => AllExist'
      BY <1>1, <2>1 DEF AllExist, Moved
    <2> QED
      BY <2>2, <2>3, <2>4, <2>5 DEF SyncKept, SyncType, On, Syncs
  <1>5. CASE SingletonStep(t)
    <2> DEFINE Moves(p, q, m, h) == Moved(bench, bench', t, p, q, bench.holder, m, h)
               Step == \/ Begins(t) /\ bench.m_ptr = 0 /\ Moves("init", bench.ptr[t], bench.m_ptr, bench.heap)
                       \/ Begins(t) /\ bench.m_ptr # 0 /\ Moves("get", bench.ptr[t], bench.m_ptr, bench.heap)
                       \/ /\ bench.pc[t] = "init"
                          /\ \E it \in Nat : it # 0 /\ Moves("assign", it, bench.m_ptr, bench.heap \cup {it})
                       \/ bench.pc[t] = "assign" /\ Moves("get", bench.ptr[t], bench.ptr[t], bench.heap)
                       \/ bench.pc[t] = "get" /\ Moves(After(t), bench.m_ptr, bench.m_ptr, bench.heap)
                       \/ /\ Begins(t) /\ "keep" \notin bench.rules
                          /\ Moves(After(t), bench.ptr[t], bench.m_ptr, bench.heap)
                       \/ /\ Begins(t) /\ "keep" \notin bench.rules /\ bench.m_ptr # 0
                          /\ Moves("finalize", bench.ptr[t], bench.m_ptr, bench.heap)
                       \/ /\ bench.pc[t] = "finalize"
                          /\ Moves("forget", bench.ptr[t], bench.m_ptr, bench.heap \ {bench.m_ptr})
                       \/ bench.pc[t] = "forget" /\ Moves(After(t), bench.ptr[t], 0, bench.heap)
    <2>1. Step
      BY <1>1, <1>5, SyncUses
    <2>2. bench' \in Syncs /\ bench'.rules = bench.rules /\ bench'.holder = bench.holder
      BY <2>1 DEF Moved
    <2>3. /\ bench.holder = t => After(t) = "unlock"
          /\ bench.holder # t => After(t) = "end"
      BY DEF After
    <2>4. HolderAlone'
      BY <1>1, <2>1, <2>3 DEF HolderAlone, Moved, Begins
    <2>5. "lock" \in bench.rules => OneObject'
      <3> SUFFICES ASSUME "lock" \in bench.rules PROVE OneObject'
        OBVIOUS
      <3>1. OneObject /\ bench.holder = t /\ After(t) = "unlock"
        <4>1. bench.pc[t] \notin {"start", "end"}
          BY <2>1 DEF Begins
        <4> QED
          BY <1>1, <2>3, <4>1 DEF OneObject
      <3>2. /\ \A u \in Lockers : u # t => bench.pc[u] \in {"start", "end"}
            /\ \A u \in Lockers : u # t => bench'.pc[u] = bench.pc[u] /\ bench'.ptr[u] = bench.ptr[u]
        BY <2>1, <3>1 DEF OneObject, Moved
      <3> QED
        BY <1>2, <2>1, <2>2, <3>1, <3>2 DEF OneObject, Moved, Begins
    <2>6. "keep" \in bench.rules => AllExist'
      BY <1>1, <1>2, <2>1, <2>3 DEF AllExist, Moved
    <2> QED
      BY <2>2, <2>4, <2>5, <2>6 DEF SyncKept, SyncType, On, Syncs
  <1> QED
    BY <1>3, <1>4, <1>5

(* Whichever of lock, tryLock, isLocked, instance and destroyInstance the threads call, one of
   them is inside of the lock at a time.  If they hold it when they call the singleton there is
   one object at most and none in the end; if they do not, but nobody destroys it, whatever
   they are given exists. *)
THEOREM OneThreadInside == SyncSpec => []OneAtATime
  <1>1. bench = NothingThere => SyncKept
    BY DEF NothingThere, SyncKept, On
  <1>2. SyncKept /\ [SyncNext \/ Elsewhere({"sync", "ended"})]_bench => SyncKept'
    <2> SUFFICES ASSUME SyncKept, SyncNext \/ Elsewhere({"sync", "ended"}) \/ UNCHANGED bench
                 PROVE  SyncKept'
      OBVIOUS
    <2>0. CASE bench' = NothingThere
      BY <2>0 DEF NothingThere, SyncKept, On
    <2>1. CASE NewLock
      <3>1. PICK rules \in SUBSET {"lock", "keep"} :
              bench' = [is |-> "sync", rules |-> rules, holder |-> Nobody,
                        pc |-> [t \in Lockers |-> "start"], got |-> [t \in Lockers |-> "nothing"],
                        ptr |-> [t \in Lockers |-> 0], m_ptr |-> 0, heap |-> {}, made |-> 0]
        BY <2>1 DEF NewLock, PutOn
      <3>2. bench' \in Syncs
        BY <3>1, PlacesNamed, AnswersNamed DEF Syncs
      <3>3. /\ \A t \in Lockers : bench'.pc[t] = "start" /\ bench'.ptr[t] = 0
            /\ bench'.m_ptr = 0 /\ bench'.heap = {} /\ bench'.holder = Nobody /\ bench'.is = "sync"
        BY <3>1
      <3>4. HolderAlone' /\ OneObject' /\ AllExist'
        BY <3>3, NobodyAssumption DEF HolderAlone, OneObject, AllExist
      <3> QED
        BY <3>2, <3>3, <3>4 DEF SyncKept, SyncType, On
    <2>2. CASE EndOfProgram
      <3>1. /\ bench' = [is |-> "ended", rules |-> bench.rules, holder |-> bench.holder,
                         heap |-> bench.heap \ {bench.m_ptr}]
            /\ SyncType /\ HolderAlone /\ ("lock" \in bench.rules => OneObject)
            /\ \A t \in Lockers : bench.pc[t] = "end"
        BY <2>2 DEF EndOfProgram, SyncKept
      <3>2. bench.holder = Nobody
        BY <3>1 DEF SyncType, Syncs, HolderAlone
      <3>3. "lock" \in bench.rules => bench.heap \ {bench.m_ptr} = {}
        BY <3>1 DEF OneObject
      <3> QED
        BY <3>1, <3>2, <3>3 DEF SyncKept, On
    <2>3. CASE TakeOff("ended")
      BY <2>0, <2>3 DEF TakeOff
    <2>4. ASSUME NEW t \in Lockers,
                 \/ Lock(t) \/ TryLock(t) \/ IsLocked(t) \/ IsLockedReturn(t)
                 \/ SingletonStep(t) \/ Release(t) \/ Again(t)
          PROVE  SyncKept'
      <3>1. On("sync")
        BY <2>4 DEF Lock, TryLock, IsLocked, IsLockedReturn, SingletonStep, Instance, Create, Assign,
           Get, DestroyInstance, Finalize, Forget, Abort, Release, Again, MayCall, At
      <3> QED
        BY <2>0, <2>4, <3>1, SyncStep
    <2>5. CASE Elsewhere({"sync", "ended"})
      BY <2>5 DEF Elsewhere, SyncKept, On
    <2>6. CASE UNCHANGED bench
      BY <2>6 DEF SyncKept, On, SyncType, HolderAlone, OneObject, AllExist
    <2> QED
      BY <2>1, <2>2, <2>3, <2>4, <2>5, <2>6 DEF SyncNext
  <1>3. SyncKept => OneAtATime
    <2> SUFFICES ASSUME SyncKept, On("sync")
                 PROVE  /\ HolderAlone
                        /\ "lock" \in bench.rules => OneInstance
                        /\ "keep" \in bench.rules => NoneLost
      BY DEF OneAtATime, SyncKept
    <2>1. HolderAlone
      BY DEF SyncKept
    <2>2. ASSUME "lock" \in bench.rules PROVE OneInstance
      <3>1. OneObject
        BY <2>2 DEF SyncKept
      <3>2. CASE \E t \in Lockers : bench.pc[t] \in {"assign", "forget"}
        <4>1. PICK t \in Lockers : bench.pc[t] \in {"assign", "forget"}
          BY <3>2
        <4>2. bench.heap = {} \/ bench.heap = {bench.ptr[t]}
          BY <3>1, <4>1 DEF OneObject
        <4>3. Cardinality(bench.heap) = 0 \/ Cardinality(bench.heap) = 1
          BY <4>2, FS_EmptySet, FS_Singleton
        <4>4. Cardinality(bench.heap) <= 1
          BY <4>3
        <4> QED
          BY <3>1, <3>2, <4>4 DEF OneObject, OneInstance
      <3>3. CASE ~\E t \in Lockers : bench.pc[t] \in {"assign", "forget"}
        BY <3>1, <3>3 DEF OneObject, OneInstance
      <3> QED
        BY <3>2, <3>3
    <2>3. ASSUME "keep" \in bench.rules PROVE NoneLost
      BY <2>3 DEF SyncKept, AllExist, NoneLost
    <2> QED
      BY <2>1, <2>2, <2>3
  <1> QED
    BY <1>1, <1>2, <1>3, PTL DEF SyncSpec

-----------------------------------------------------------------------------
(* Stack, Swap and the factories *)

(* The records of a Stack; what is pushed are numbers. *)
StackRecords == [mSize : Nat, mCapacity : Nat \ {0}, mData : Seq(Nat)]

(* The Stack s has the elements of e, in order. *)
Holds(s, e) ==
  /\ s \in StackRecords /\ e \in Seq(Nat)
  /\ s.mSize = Len(e) /\ s.mSize <= s.mCapacity /\ s.mSize <= Len(s.mData)
  /\ \A i \in 1 .. Len(e) : s.mData[i] = e[i]

(* Two Stacks, and the count of the elements that live. *)
StackPairs ==
  [is : {"stacks"}, s : [1 .. 2 -> StackRecords], expect : [1 .. 2 -> Seq(Nat)], pushed : Nat,
   live : Int, lost : Int]

(* How many elements the two Stacks have. *)
Total(e) == Len(e[1]) + Len(e[2])

(* Each has its elements, and those that live are theirs or were left behind by growing. *)
StacksKept(b) ==
  /\ b \in StackPairs /\ \A k \in 1 .. 2 : Holds(b.s[k], b.expect[k])
  /\ b.live = Total(b.expect) + b.lost

(* What create returns. *)
Objects == [type : {0}] \cup [type : Nat, parameter : FactoryKeys]

(* The maps from keys to factories. *)
Makers == UNION {[D -> Nat \ {0}] : D \in SUBSET FactoryKeys}

(* The records of an AbstractFactory. *)
FactoryMaps ==
  [is : {"factories"}, mFactories : Makers, alive : SUBSET Nat, made : Nat, last : [FactoryKeys -> Nat],
   object : Objects, asked : Seq(FactoryKeys), registered : Nat]

(* Each key has the factory last registered with it, and no other key has that one. *)
Registered(b) ==
  LET m == b.mFactories
  IN /\ b.alive = {m[k] : k \in DOMAIN m}
     /\ \A k \in DOMAIN m : m[k] <= b.made
     /\ \A k, l \in DOMAIN m : m[k] = m[l] => k = l
     /\ \A k \in FactoryKeys : b.last[k] = IF k \in DOMAIN m THEN m[k] ELSE 0

(* What create returned last is of the factory that was registered then. *)
MadeAsAsked(b) ==
  b.asked # <<>> =>
    /\ b.object.type = b.registered
    /\ b.object.type # 0 => b.object.parameter = b.asked[1]

(* The inductive invariant. *)
OwnedKept(b) ==
  /\ b.is = "stacks" => StacksKept(b)
  /\ b.is = "destroyed" => b.live = b.lost
  /\ b.is = "factories" => b \in FactoryMaps /\ Registered(b) /\ MadeAsAsked(b)
  /\ b.is = "deleted" => b.left = {}

(* A Stack with another buffer. *)
LEMMA DataSet ==
  ASSUME NEW q \in StackRecords, NEW d \in Seq(Nat), NEW r, r = [q EXCEPT !.mData = d]
  PROVE  r \in StackRecords /\ r.mData = d /\ r.mSize = q.mSize /\ r.mCapacity = q.mCapacity
  BY DEF StackRecords

(* A larger buffer has the same elements. *)
LEMMA ReserveHolds ==
  ASSUME NEW s, NEW e, Holds(s, e), NEW n \in Nat
  PROVE  /\ Holds(Reserve(s, n), e)
         /\ Reserve(s, n).mCapacity = IF s.mCapacity < n THEN n ELSE s.mCapacity
  <1>1. s \in StackRecords /\ s.mSize \in Nat /\ s.mCapacity \in Nat \ {0} /\ s.mData \in Seq(Nat)
    BY DEF Holds, StackRecords
  <1>2. CASE ~(s.mCapacity < n)
    BY <1>2 DEF Reserve
  <1>3. CASE s.mCapacity < n
    <2> DEFINE d == SubSeq(s.mData, 1, s.mSize)
               r == [s EXCEPT !.mCapacity = n, !.mData = d]
    <2>1. s.mSize \in 0 .. Len(s.mData) /\ s.mSize = Len(e)
      BY <1>1 DEF Holds
    <2>2. d \in Seq(Nat) /\ Len(d) = s.mSize /\ \A i \in 1 .. s.mSize : d[i] = s.mData[i]
      BY <1>1, <2>1, SubSeqProperties
    <2>3. Reserve(s, n) = r
      BY <1>1, <1>3 DEF Reserve, StackRecords
    <2> HIDE DEF d
    <2>0. n \in Nat \ {0}
      BY <1>1, <1>3
    <2>4. r \in StackRecords /\ r.mSize = s.mSize /\ r.mCapacity = n /\ r.mData = d
      <3> DEFINE q == [s EXCEPT !.mCapacity = n]
      <3>1. q \in StackRecords /\ q.mSize = s.mSize /\ q.mCapacity = n
        BY <1>1, <2>0 DEF StackRecords
      <3>2. r = [q EXCEPT !.mData = d]
        OBVIOUS
      <3> HIDE DEF q, r
      <3> QED
        BY <2>2, <3>1, <3>2, DataSet
    <2>5. s.mSize <= n
      BY <1>1, <1>3 DEF Holds
    <2> HIDE DEF r
    <2>6. e \in Seq(Nat) /\ \A i \in 1 .. Len(e) : s.mData[i] = e[i]
      BY DEF Holds
    <2>7. r.mSize = Len(e) /\ r.mSize <= r.mCapacity /\ r.mSize <= Len(r.mData)
      BY <1>1, <2>1, <2>2, <2>4, <2>5
    <2>8. \A i \in 1 .. Len(e) : r.mData[i] = e[i]
      BY <2>1, <2>2, <2>4, <2>6
    <2>9. Holds(r, e)
      BY <2>4, <2>6, <2>7, <2>8 DEF Holds
    <2> QED
      BY <1>3, <2>3, <2>4, <2>9
  <1> QED
    BY <1>2, <1>3

(* push_back appends, also when it has to grow. *)
LEMMA PushHolds ==
  ASSUME NEW s, NEW e, Holds(s, e), NEW x \in Nat
  PROVE  Holds(PushBack(s, x), Append(e, x))
  <1> DEFINE room == IF s.mSize = s.mCapacity THEN Reserve(s, s.mCapacity * 2) ELSE s
  <1>1. s \in StackRecords /\ s.mSize \in Nat /\ s.mCapacity \in Nat \ {0}
    BY DEF Holds, StackRecords
  <1>2. Holds(room, e) /\ room.mSize < room.mCapacity
    <2>1. CASE s.mSize = s.mCapacity
      <3>1. s.mCapacity * 2 \in Nat /\ s.mCapacity < s.mCapacity * 2
        BY <1>1
      <3>2. Holds(room, e) /\ room.mCapacity = s.mCapacity * 2
        BY <2>1, <3>1, ReserveHolds
      <3>3. room.mSize = s.mSize
        BY <3>2 DEF Holds
      <3> QED
        BY <2>1, <3>1, <3>2, <3>3
    <2>2. CASE s.mSize # s.mCapacity
      BY <1>1, <2>2 DEF Holds
    <2> QED
      BY <2>1, <2>2
  <1> DEFINE d == SubSeq(room.mData, 1, room.mSize)
             f == Append(d, x)
             p == [room EXCEPT !.mSize = room.mSize + 1, !.mData = f]
  <1>3. PushBack(s, x) = p
    <2>1. room \in StackRecords
      BY <1>2 DEF Holds
    <2> HIDE DEF room
    <2>2. [room EXCEPT !.mSize = @ + 1, !.mData = Append(SubSeq(@, 1, room.mSize), x)] = p
      BY <2>1 DEF StackRecords
    <2> QED
      BY <2>2 DEF PushBack, room
  <1> HIDE DEF room
  <1>4. /\ room \in StackRecords /\ room.mSize \in Nat /\ room.mCapacity \in Nat \ {0}
        /\ room.mData \in Seq(Nat) /\ room.mSize \in 0 .. Len(room.mData) /\ room.mSize = Len(e)
        /\ e \in Seq(Nat)
    BY <1>2 DEF Holds, StackRecords
  <1>5. d \in Seq(Nat) /\ Len(d) = room.mSize /\ \A i \in 1 .. room.mSize : d[i] = room.mData[i]
    BY <1>4, SubSeqProperties
  <1> HIDE DEF d
  <1>6. /\ f \in Seq(Nat) /\ Len(f) = room.mSize + 1 /\ f[room.mSize + 1] = x
        /\ \A i \in 1 .. room.mSize : f[i] = room.mData[i]
    BY <1>4, <1>5, AppendProperties
  <1> HIDE DEF f
  <1>7. p \in StackRecords /\ p.mSize = room.mSize + 1 /\ p.mCapacity = room.mCapacity /\ p.mData = f
    <2>1. room.mSize + 1 \in Nat
      BY <1>4
    <2> QED
      <3> DEFINE q == [room EXCEPT !.mSize = room.mSize + 1]
      <3>1. q \in StackRecords /\ q.mSize = room.mSize + 1 /\ q.mCapacity = room.mCapacity
        BY <1>4, <2>1 DEF StackRecords
      <3>2. p = [q EXCEPT !.mData = f]
        OBVIOUS
      <3> HIDE DEF q, p
      <3> QED
        BY <1>6, <3>1, <3>2, DataSet
  <1> HIDE DEF p
  <1> DEFINE g == Append(e, x)
  <1>8. g \in Seq(Nat) /\ Len(g) = Len(e) + 1 /\ g[Len(e) + 1] = x /\ \A i \in 1 .. Len(e) : g[i] = e[i]
    BY <1>4, AppendProperties
  <1> HIDE DEF g
  <1>9. \A i \in 1 .. Len(g) : p.mData[i] = g[i]
    <2> TAKE i \in 1 .. Len(g)
    <2>1. \A j \in 1 .. Len(e) : room.mData[j] = e[j]
      BY <1>2 DEF Holds
    <2>2. CASE i = Len(e) + 1
      BY <2>2, <1>4, <1>6, <1>7, <1>8
    <2>3. CASE i \in 1 .. Len(e)
      BY <2>1, <2>3, <1>4, <1>6, <1>7, <1>8
    <2> QED
      BY <1>4, <1>8, <2>2, <2>3
  <1>10. p.mSize = Len(g) /\ p.mSize <= p.mCapacity /\ p.mSize <= Len(p.mData)
    BY <1>2, <1>4, <1>6, <1>7, <1>8
  <1>11. Holds(p, g)
    BY <1>7, <1>8, <1>9, <1>10 DEF Holds
  <1> QED
    BY <1>3, <1>11 DEF g

(* pop_back drops the last element. *)
LEMMA PopHolds ==
  ASSUME NEW s, NEW e, Holds(s, e), s.mSize > 0
  PROVE  /\ Holds(PopBack(s), SubSeq(e, 1, Len(e) - 1))
         /\ Len(SubSeq(e, 1, Len(e) - 1)) = Len(e) - 1
  <1> DEFINE n == Len(e) - 1
             f == SubSeq(e, 1, n)
             p == [s EXCEPT !.mSize = s.mSize - 1]
  <1>1. s \in StackRecords /\ s.mSize \in Nat /\ e \in Seq(Nat) /\ s.mSize = Len(e) /\ s.mCapacity \in Nat \ {0}
        /\ s.mData \in Seq(Nat)
    BY DEF Holds, StackRecords
  <1>2. n \in 0 .. Len(e) /\ n = s.mSize - 1
    BY <1>1
  <1>3. f \in Seq(Nat) /\ Len(f) = n /\ \A i \in 1 .. n : f[i] = e[i]
    <2> HIDE DEF n
    <2>1. 1 \in 1 .. Len(e) + 1 /\ n - 1 + 1 = n
      BY <1>1, <1>2
    <2> QED
      BY <1>1, <1>2, <2>1, SubSeqProperties
  <1>4. PopBack(s) = p
    BY <1>1 DEF PopBack, StackRecords
  <1>5. p \in StackRecords /\ p.mSize = n /\ p.mCapacity = s.mCapacity /\ p.mData = s.mData
    <2>1. n \in Nat /\ p = [s EXCEPT !.mSize = n]
      BY <1>2
    <2> HIDE DEF p, n
    <2> QED
      BY <1>1, <2>1 DEF StackRecords
  <1> HIDE DEF f, p
  <1>6. Holds(p, f)
    <2> HIDE DEF n
    <2>1. s.mSize <= s.mCapacity /\ s.mSize <= Len(s.mData) /\ \A i \in 1 .. Len(e) : s.mData[i] = e[i]
      BY DEF Holds
    <2>2. /\ s.mCapacity \in Nat /\ Len(s.mData) \in Nat /\ s.mSize \in Nat /\ n \in Nat
          /\ n <= s.mSize /\ Len(f) = n /\ p.mSize = n /\ p.mCapacity = s.mCapacity
          /\ Len(p.mData) = Len(s.mData)
      BY <1>1, <1>2, <1>3, <1>5
    <2>3. p.mSize = Len(f) /\ p.mSize <= p.mCapacity /\ p.mSize <= Len(p.mData)
      BY <2>1, <2>2
    <2>4. \A i \in 1 .. Len(f) : p.mData[i] = f[i]
      BY <1>1, <1>2, <1>3, <1>5, <2>1
    <2> QED
      BY <1>3, <1>5, <2>3, <2>4 DEF Holds
  <1> QED
    BY <1>3, <1>4, <1>6 DEF f

(* A copy has the same elements. *)
LEMMA CopyHolds ==
  ASSUME NEW s, NEW e, Holds(s, e)
  PROVE  Holds(CopyOfStack(s), e)
  <1> DEFINE d == SubSeq(s.mData, 1, s.mSize)
             c == [mSize |-> s.mSize, mCapacity |-> s.mCapacity, mData |-> d]
  <1>1. s \in StackRecords /\ s.mSize \in Nat /\ s.mCapacity \in Nat \ {0} /\ s.mData \in Seq(Nat)
        /\ s.mSize \in 0 .. Len(s.mData) /\ s.mSize = Len(e)
    BY DEF Holds, StackRecords
  <1>2. d \in Seq(Nat) /\ Len(d) = s.mSize /\ \A i \in 1 .. s.mSize : d[i] = s.mData[i]
    BY <1>1, SubSeqProperties
  <1>3. CopyOfStack(s) = c
    BY DEF CopyOfStack
  <1> HIDE DEF d
  <1>4. c \in StackRecords /\ c.mSize = s.mSize /\ c.mCapacity = s.mCapacity /\ c.mData = d
    BY <1>1, <1>2 DEF StackRecords
  <1> HIDE DEF c
  <1>5. Holds(c, e)
    <2>1. e \in Seq(Nat) /\ s.mSize <= s.mCapacity /\ \A i \in 1 .. Len(e) : s.mData[i] = e[i]
      BY DEF Holds
    <2>2. c.mSize = Len(e) /\ c.mSize <= c.mCapacity /\ c.mSize <= Len(c.mData)
      BY <1>1, <1>2, <1>4, <2>1
    <2>3. \A i \in 1 .. Len(e) : c.mData[i] = e[i]
      BY <1>1, <1>2, <1>4, <2>1
    <2> QED
      BY <1>4, <2>1, <2>2, <2>3 DEF Holds
  <1> QED
    BY <1>3, <1>5

(* What Holds means for the property. *)
LEMMA HoldsIs ==
  ASSUME NEW s, NEW e, Holds(s, e)
  PROVE  /\ SubSeq(s.mData, 1, s.mSize) = e /\ s.mSize <= s.mCapacity
         /\ s.mSize > 0 => Back(s) = Last(e)
  <1>1. s \in StackRecords /\ s.mSize \in Nat /\ s.mData \in Seq(Nat) /\ e \in Seq(Nat)
        /\ s.mSize \in 0 .. Len(s.mData) /\ s.mSize = Len(e)
        /\ \A i \in 1 .. Len(e) : s.mData[i] = e[i]
    BY DEF Holds, StackRecords
  <1> DEFINE d == SubSeq(s.mData, 1, s.mSize)
  <1>2. d \in Seq(Nat) /\ Len(d) = s.mSize /\ \A i \in 1 .. s.mSize : d[i] = s.mData[i]
    BY <1>1, SubSeqProperties
  <1> HIDE DEF d
  <1>3. d = e
    BY <1>1, <1>2, SeqEqual
  <1>4. s.mSize > 0 => Back(s) = Last(e)
    BY <1>1 DEF Back, Last
  <1> QED
    BY <1>3, <1>4 DEF d, Holds

(* The parts of the invariant that tell of the Stacks. *)
LEMMA StacksAre ==
  ASSUME NEW b, b.is = "stacks", OwnedKept(b)
  PROVE  /\ b \in StackPairs /\ \A k \in 1 .. 2 : Holds(b.s[k], b.expect[k])
         /\ b.live = Total(b.expect) + b.lost
         /\ b.s \in [1 .. 2 -> StackRecords] /\ b.expect \in [1 .. 2 -> Seq(Nat)]
         /\ b.pushed \in Nat /\ b.live \in Int /\ b.lost \in Int
  BY DEF OwnedKept, StacksKept, StackPairs

(* They are enough. *)
LEMMA StacksStay ==
  ASSUME NEW b, b.is = "stacks",
         NEW s \in [1 .. 2 -> StackRecords], NEW e \in [1 .. 2 -> Seq(Nat)],
         NEW p \in Nat, NEW v \in Int, NEW l \in Int,
         b = [is |-> "stacks", s |-> s, expect |-> e, pushed |-> p, live |-> v, lost |-> l],
         \A k \in 1 .. 2 : Holds(s[k], e[k]), v = Total(e) + l
  PROVE  OwnedKept(b)
  <1>1. /\ b \in StackPairs /\ b.s = s /\ b.expect = e /\ b.live = v /\ b.lost = l
    BY DEF StackPairs
  <1> QED
    BY <1>1 DEF OwnedKept, StacksKept

(* Two empty Stacks. *)
LEMMA NewStacksKept ==
  ASSUME NewStacks
  PROVE  OwnedKept(bench')
  <1> DEFINE s == <<NewStack, NewStack>>
             none == <<>>
             e == <<none, none>>
  <1>1. bench' = [is |-> "stacks", s |-> s, expect |-> e, pushed |-> 0, live |-> 0, lost |-> 0]
    BY DEF NewStacks, PutOn
  <1>2. none \in Seq(Nat) /\ Len(none) = 0
    OBVIOUS
  <1> HIDE DEF none
  <1>3. NewStack = [mSize |-> 0, mCapacity |-> InitialSize, mData |-> none]
    BY DEF NewStack, none
  <1>4. Holds(NewStack, none) /\ NewStack \in StackRecords
    <2>1. NewStack \in StackRecords /\ NewStack.mSize = 0 /\ NewStack.mCapacity \in Nat /\ NewStack.mData = none
      BY <1>2, <1>3, InitialAssumption DEF StackRecords
    <2> QED
      BY <1>2, <2>1 DEF Holds
  <1>5. s \in [1 .. 2 -> StackRecords] /\ s[1] = NewStack /\ s[2] = NewStack
    BY <1>4
  <1>6. e \in [1 .. 2 -> Seq(Nat)] /\ e[1] = none /\ e[2] = none
    <2> DEFINE T == Seq(Nat)
    <2>1. none \in T
      BY <1>2
    <2> HIDE DEF T
    <2>2. e \in [1 .. 2 -> T] /\ e[1] = none /\ e[2] = none
      BY <2>1
    <2> QED
      BY <2>2 DEF T
  <1> HIDE DEF s, e
  <1>7. \A k \in 1 .. 2 : Holds(s[k], e[k])
    BY <1>4, <1>5, <1>6
  <1>8. bench' \in StackPairs /\ bench'.s = s /\ bench'.expect = e /\ bench'.live = 0 /\ bench'.lost = 0
    BY <1>1, <1>5, <1>6 DEF StackPairs
  <1>9. Total(e) = 0
    BY <1>2, <1>6 DEF Total
  <1>10. \A k \in 1 .. 2 : Holds(bench'.s[k], bench'.expect[k])
    BY <1>7, <1>8
  <1>11. bench'.live = Total(bench'.expect) + bench'.lost
    BY <1>8, <1>9
  <1>12. StacksKept(bench') /\ bench'.is = "stacks"
    BY <1>1, <1>8, <1>10, <1>11 DEF StacksKept
  <1> QED
    BY <1>12 DEF OwnedKept

(* The length of one of two sequences that changes. *)
LEMMA OneLength ==
  ASSUME NEW e \in [1 .. 2 -> Seq(Nat)], NEW k \in 1 .. 2, NEW f \in Seq(Nat), NEW g,
         \A n \in 1 .. 2 : g[n] = IF n = k THEN f ELSE e[n]
  PROVE  Total(g) = Total(e) + Len(f) - Len(e[k])
  <1> USE DEF Total
  <1>1. Len(e[1]) \in Nat /\ Len(e[2]) \in Nat /\ Len(f) \in Nat
    OBVIOUS
  <1>2. CASE k = 1
    <2>1. g[1] = f /\ g[2] = e[2]
      BY <1>2
    <2> QED
      BY <1>1, <1>2, <2>1
  <1>3. CASE k = 2
    <2>1. g[1] = e[1] /\ g[2] = f
      BY <1>3
    <2> QED
      BY <1>1, <1>3, <2>1
  <1>4. k = 1 \/ k = 2
    OBVIOUS
  <1> QED
    BY <1>2, <1>3, <1>4

(* The counts are numbers. *)
LEMMA TotalNat ==
  ASSUME NEW e \in [1 .. 2 -> Seq(Nat)]
  PROVE  Total(e) \in Nat /\ \A k \in 1 .. 2 : Len(e[k]) \in Nat
  BY DEF Total

(* From b to c the Stack k became r, with the elements of f. *)
Became(b, c, k, r, f, p, v, l) ==
  c = [is |-> "stacks", s |-> [b.s EXCEPT ![k] = r], expect |-> [b.expect EXCEPT ![k] = f],
       pushed |-> p, live |-> v, lost |-> l]

(* One Stack changes and the counts with it. *)
LEMMA OneStack ==
  ASSUME NEW b, b.is = "stacks", OwnedKept(b), NEW k \in 1 .. 2, NEW r, NEW f, Holds(r, f),
         NEW p \in Nat, NEW l \in Int, NEW v, v = b.live + Len(f) - Len(b.expect[k]) + l - b.lost,
         NEW c, Became(b, c, k, r, f, p, v, l)
  PROVE  OwnedKept(c)
  <1> DEFINE s == [b.s EXCEPT ![k] = r]
             e == [b.expect EXCEPT ![k] = f]
  <1>1. /\ \A n \in 1 .. 2 : Holds(b.s[n], b.expect[n])
        /\ b.live = Total(b.expect) + b.lost
        /\ b.s \in [1 .. 2 -> StackRecords] /\ b.expect \in [1 .. 2 -> Seq(Nat)]
        /\ b.live \in Int /\ b.lost \in Int
    BY StacksAre
  <1>2. r \in StackRecords /\ f \in Seq(Nat)
    BY DEF Holds
  <1>3. s \in [1 .. 2 -> StackRecords] /\ \A n \in 1 .. 2 : s[n] = IF n = k THEN r ELSE b.s[n]
    BY <1>1, <1>2
  <1>4. e \in [1 .. 2 -> Seq(Nat)] /\ \A n \in 1 .. 2 : e[n] = IF n = k THEN f ELSE b.expect[n]
    BY <1>1, <1>2
  <1>5. Total(e) = Total(b.expect) + Len(f) - Len(b.expect[k])
    <2> HIDE DEF e
    <2> QED
      BY <1>1, <1>2, <1>4, OneLength
  <1> HIDE DEF s, e
  <1>6. \A n \in 1 .. 2 : Holds(s[n], e[n])
    BY <1>1, <1>3, <1>4
  <1>7. /\ Len(f) \in Nat /\ Len(b.expect[k]) \in Nat /\ Total(b.expect) \in Nat /\ Total(e) \in Nat
    BY <1>1, <1>2, <1>4, TotalNat
  <1>8. v \in Int /\ v = Total(e) + l
    <2> DEFINE a == Total(e)
               h == Total(b.expect)
               g == Len(f)
               d == Len(b.expect[k])
               o == b.lost
               w == b.live
    <2>1. a \in Int /\ h \in Int /\ g \in Int /\ d \in Int /\ o \in Int
      BY <1>1, <1>7
    <2>2. a = h + g - d
      BY <1>5
    <2>3. w = h + o
      BY <1>1
    <2>4. v = w + g - d + l - o
      OBVIOUS
    <2> HIDE DEF a, h, g, d, o, w
    <2>5. v \in Int /\ v = a + l
      BY <2>1, <2>2, <2>3, <2>4
    <2> QED
      BY <2>5 DEF a
  <1>9. c = [is |-> "stacks", s |-> s, expect |-> e, pushed |-> p, live |-> v, lost |-> l]
    BY DEF s, e, Became
  <1>10. c.is = "stacks"
    BY <1>9
  <1> QED
    BY <1>3, <1>4, <1>6, <1>8, <1>9, <1>10, StacksStay

(* A push: growing leaves the elements of the old buffer behind. *)
LEMMA PushKept ==
  ASSUME OwnedKept(bench), NEW k \in 1 .. 2, Push(k)
  PROVE  OwnedKept(bench')
  <1> DEFINE s == bench.s[k]
             e == bench.expect[k]
             x == bench.pushed + 1
             n == IF s.mSize = s.mCapacity THEN LeftBehind(s, s.mCapacity * 2) ELSE 0
             v == bench.live + n + 1
             l == bench.lost + n
             r == PushBack(s, x)
             f == Append(e, x)
  <1>1. bench.is = "stacks"
    BY DEF Push, On
  <1>2. /\ bench \in StackPairs /\ Holds(s, e) /\ bench.expect \in [1 .. 2 -> Seq(Nat)]
        /\ bench.pushed \in Nat /\ bench.live \in Int /\ bench.lost \in Int
    BY <1>1, StacksAre
  <1>3. bench' = [bench EXCEPT !.s[k] = r, !.pushed = x, !.expect[k] = f, !.live = v, !.lost = l]
    BY <1>2 DEF Push, StackPairs
  <1>4. x \in Nat /\ Holds(r, f)
    BY <1>2, PushHolds
  <1>5. n \in Nat
    BY <1>2 DEF LeftBehind, Holds, StackRecords
  <1>6. e \in Seq(Nat) /\ Len(e) \in Nat /\ Len(f) = Len(e) + 1
    BY <1>2, <1>4
  <1> HIDE DEF s, e, n, r, f
  <1>7. Became(bench, bench', k, r, f, x, v, l)
    BY <1>2, <1>3 DEF Became, StackPairs
  <1>8. l \in Int /\ v = bench.live + Len(f) - Len(bench.expect[k]) + l - bench.lost
    BY <1>2, <1>5, <1>6 DEF e
  <1> HIDE DEF x, v, l
  <1> QED
    BY <1>1, <1>4, <1>7, <1>8, OneStack

(* A pop. *)
LEMMA PopKept ==
  ASSUME OwnedKept(bench), NEW k \in 1 .. 2, Pop(k)
  PROVE  OwnedKept(bench')
  <1> DEFINE s == bench.s[k]
             e == bench.expect[k]
             v == bench.live - 1
             r == PopBack(s)
             f == SubSeq(e, 1, Len(e) - 1)
  <1>1. bench.is = "stacks" /\ s.mSize > 0
    BY DEF Pop, On
  <1>2. /\ bench \in StackPairs /\ Holds(s, e) /\ bench.expect \in [1 .. 2 -> Seq(Nat)]
        /\ bench.pushed \in Nat /\ bench.live \in Int /\ bench.lost \in Int
    BY <1>1, StacksAre
  <1>3. bench' = [bench EXCEPT !.s[k] = r, !.expect[k] = f, !.live = v]
    BY <1>2 DEF Pop, StackPairs
  <1>4. Holds(r, f) /\ Len(f) = Len(e) - 1 /\ Len(e) \in Nat
    <2>1. Len(e) \in Nat
      BY <1>2 DEF Holds
    <2> HIDE DEF s, e
    <2> QED
      BY <1>1, <1>2, <2>1, PopHolds
  <1> HIDE DEF s, e, r, f
  <1>7. Became(bench, bench', k, r, f, bench.pushed, v, bench.lost)
    BY <1>2, <1>3 DEF Became, StackPairs
  <1>8. v = bench.live + Len(f) - Len(bench.expect[k]) + bench.lost - bench.lost
    BY <1>2, <1>4 DEF e
  <1> HIDE DEF v
  <1> QED
    BY <1>1, <1>2, <1>4, <1>7, <1>8, OneStack

(* A reserve: it leaves the elements of the old buffer behind as well. *)
LEMMA ReserveMoreKept ==
  ASSUME OwnedKept(bench), NEW k \in 1 .. 2, ReserveMore(k)
  PROVE  OwnedKept(bench')
  <1> DEFINE s == bench.s[k]
             e == bench.expect[k]
             m == s.mCapacity + 1
             n == LeftBehind(s, m)
             v == bench.live + n
             l == bench.lost + n
             r == Reserve(s, m)
  <1>1. bench.is = "stacks"
    BY DEF ReserveMore, On
  <1>2. /\ bench \in StackPairs /\ Holds(s, e) /\ bench.expect \in [1 .. 2 -> Seq(Nat)]
        /\ bench.pushed \in Nat /\ bench.live \in Int /\ bench.lost \in Int
    BY <1>1, StacksAre
  <1>3. bench' = [bench EXCEPT !.s[k] = r, !.live = v, !.lost = l]
    BY <1>2 DEF ReserveMore, StackPairs
  <1>4. m \in Nat /\ n \in Nat
    BY <1>2 DEF LeftBehind, Holds, StackRecords
  <1>5. Holds(r, e)
    BY <1>2, <1>4, ReserveHolds
  <1>6. Len(e) \in Nat
    BY <1>2 DEF Holds
  <1> HIDE DEF s, n, r
  <1>7. Became(bench, bench', k, r, e, bench.pushed, v, l)
    <2>1. [bench.expect EXCEPT ![k] = e] = bench.expect
      BY <1>2
    <2> HIDE DEF e
    <2>2. bench' = [is |-> "stacks", s |-> [bench.s EXCEPT ![k] = r], expect |-> bench.expect,
                    pushed |-> bench.pushed, live |-> v, lost |-> l]
      BY <1>2, <1>3 DEF StackPairs
    <2> QED
      BY <2>1, <2>2 DEF Became
  <1>8. l \in Int /\ v = bench.live + Len(e) - Len(bench.expect[k]) + l - bench.lost
    BY <1>2, <1>4, <1>6
  <1> HIDE DEF v, l, e
  <1> QED
    BY <1>1, <1>2, <1>5, <1>7, <1>8, OneStack

(* The Stacks are exchanged. *)
LEMMA SwapKept ==
  ASSUME OwnedKept(bench), Swap
  PROVE  OwnedKept(bench')
  <1> DEFINE s == SwapStacks(bench.s)
             e == <<bench.expect[2], bench.expect[1]>>
  <1>1. bench.is = "stacks"
    BY DEF Swap, On
  <1>2. /\ bench \in StackPairs /\ \A k \in 1 .. 2 : Holds(bench.s[k], bench.expect[k])
        /\ bench.s \in [1 .. 2 -> StackRecords] /\ bench.expect \in [1 .. 2 -> Seq(Nat)]
        /\ bench.live = Total(bench.expect) + bench.lost
    BY <1>1, StacksAre
  <1>3. bench' = [bench EXCEPT !.s = s, !.expect = e]
    BY <1>2 DEF Swap, StackPairs
  <1>4. s \in [1 .. 2 -> StackRecords] /\ s[1] = bench.s[2] /\ s[2] = bench.s[1]
    BY <1>2 DEF SwapStacks
  <1>5. e \in [1 .. 2 -> Seq(Nat)] /\ e[1] = bench.expect[2] /\ e[2] = bench.expect[1]
    <2> DEFINE T == Seq(Nat)
    <2>1. bench.expect[1] \in T /\ bench.expect[2] \in T
      BY <1>2
    <2> HIDE DEF T
    <2>2. e \in [1 .. 2 -> T] /\ e[1] = bench.expect[2] /\ e[2] = bench.expect[1]
      BY <2>1
    <2> QED
      BY <2>2 DEF T
  <1> HIDE DEF s, e
  <1>6. /\ bench' \in StackPairs /\ bench'.s = s /\ bench'.expect = e /\ bench'.live = bench.live
        /\ bench'.lost = bench.lost /\ bench'.is = "stacks"
    BY <1>2, <1>3, <1>4, <1>5 DEF StackPairs
  <1>7. Holds(s[1], e[1]) /\ Holds(s[2], e[2])
    BY <1>2, <1>4, <1>5
  <1>8. \A k \in 1 .. 2 : Holds(bench'.s[k], bench'.expect[k])
    <2> TAKE k \in 1 .. 2
    <2>1. k = 1 \/ k = 2
      OBVIOUS
    <2> QED
      BY <1>6, <1>7, <2>1
  <1>9. Total(e) = Total(bench.expect)
    <2>1. Len(bench.expect[1]) \in Nat /\ Len(bench.expect[2]) \in Nat
      BY <1>2
    <2>2. Len(e[1]) = Len(bench.expect[2]) /\ Len(e[2]) = Len(bench.expect[1])
      BY <1>5
    <2> DEFINE a == Len(bench.expect[1])
               c == Len(bench.expect[2])
    <2>3. Total(e) = c + a /\ Total(bench.expect) = a + c
      BY <2>2 DEF Total
    <2>4. a \in Nat /\ c \in Nat
      BY <2>1
    <2> HIDE DEF a, c
    <2> QED
      BY <2>3, <2>4
  <1>10. StacksKept(bench')
    BY <1>2, <1>6, <1>8, <1>9 DEF StacksKept
  <1> QED
    BY <1>6, <1>10 DEF OwnedKept

(* The second Stack becomes a copy of the first. *)
LEMMA CopyFirstKept ==
  ASSUME OwnedKept(bench), CopyFirst
  PROVE  OwnedKept(bench')
  <1> DEFINE r == CopyOfStack(bench.s[1])
             f == bench.expect[1]
             p == bench.pushed + 1
             v == bench.live + Len(bench.expect[1])
  <1>1. bench.is = "stacks" /\ bench.expect[2] = <<>>
    BY DEF CopyFirst, On
  <1>2. /\ bench \in StackPairs /\ Holds(bench.s[1], f) /\ bench.expect \in [1 .. 2 -> Seq(Nat)]
        /\ bench.pushed \in Nat /\ bench.live \in Int /\ bench.lost \in Int
    BY <1>1, StacksAre
  <1>3. bench' = [bench EXCEPT !.pushed = p, !.s[2] = r, !.expect[2] = f, !.live = v]
    BY <1>2 DEF CopyFirst, StackPairs
  <1>4. Holds(r, f)
    BY <1>2, CopyHolds
  <1>5. Len(f) \in Nat /\ Len(bench.expect[2]) = 0
    BY <1>1, <1>2 DEF Holds
  <1> HIDE DEF r, f
  <1>7. Became(bench, bench', 2, r, f, p, v, bench.lost)
    BY <1>2, <1>3 DEF Became, StackPairs
  <1>8. p \in Nat /\ v = bench.live + Len(f) - Len(bench.expect[2]) + bench.lost - bench.lost
    BY <1>2, <1>5 DEF f
  <1> HIDE DEF v, p
  <1>9. 2 \in 1 .. 2
    OBVIOUS
  <1> QED
    BY <1>1, <1>2, <1>4, <1>7, <1>8, <1>9, OneStack

(* Both are destroyed. *)
LEMMA DestroyStacksKept ==
  ASSUME OwnedKept(bench), DestroyStacks
  PROVE  OwnedKept(bench')
  <1>1. bench.is = "stacks"
    BY DEF DestroyStacks, On
  <1>2. /\ \A k \in 1 .. 2 : Holds(bench.s[k], bench.expect[k])
        /\ bench.expect \in [1 .. 2 -> Seq(Nat)] /\ bench.lost \in Int
        /\ bench.live = Total(bench.expect) + bench.lost
    BY <1>1, StacksAre
  <1>3. bench'.is = "destroyed" /\ bench'.lost = bench.lost
        /\ bench'.live = bench.live - bench.s[1].mSize - bench.s[2].mSize
    BY DEF DestroyStacks
  <1>4. bench.s[1].mSize = Len(bench.expect[1]) /\ bench.s[2].mSize = Len(bench.expect[2])
    BY <1>2 DEF Holds
  <1>5. Len(bench.expect[1]) \in Nat /\ Len(bench.expect[2]) \in Nat
    BY <1>2
  <1>6. bench'.live = bench'.lost
    <2> DEFINE a == Len(bench.expect[1])
               c == Len(bench.expect[2])
               o == bench.lost
               w == bench.live
               x == bench'.live
               y == bench'.lost
    <2>1. w = (a + c) + o /\ y = o /\ o \in Int
      BY <1>2, <1>3 DEF Total
    <2>2. x = w - a - c
      BY <1>3, <1>4
    <2>3. a \in Nat /\ c \in Nat
      BY <1>5
    <2> HIDE DEF a, c, o, w, x, y
    <2>4. x = y
      BY <2>1, <2>2, <2>3
    <2> QED
      BY <2>4 DEF x, y
  <1> QED
    BY <1>3, <1>6 DEF OwnedKept

(* An empty map. *)
LEMMA NewFactoriesKept ==
  ASSUME NewAbstractFactory
  PROVE  OwnedKept(bench')
  <1> DEFINE none == <<>>
             zero == [k \in FactoryKeys |-> 0]
             o == [type |-> 0]
  <1>1. bench' = [is |-> "factories", mFactories |-> none, alive |-> {}, made |-> 0, last |-> zero,
                  object |-> o, asked |-> none, registered |-> 0]
    BY DEF NewAbstractFactory, PutOn
  <1>2. none \in Makers /\ DOMAIN none = {} /\ none \in Seq(FactoryKeys)
    <2>1. none \in [{} -> Nat \ {0}] /\ DOMAIN none = {} /\ none \in Seq(FactoryKeys)
      OBVIOUS
    <2>2. {} \in SUBSET FactoryKeys
      OBVIOUS
    <2> HIDE DEF none
    <2> QED
      BY <2>1, <2>2 DEF Makers
  <1>3. zero \in [FactoryKeys -> Nat] /\ o \in Objects
    BY DEF Objects
  <1>4. \A k \in FactoryKeys : zero[k] = 0
    OBVIOUS
  <1>5. none = <<>>
    OBVIOUS
  <1> HIDE DEF none, zero, o
  <1>6. /\ bench' \in FactoryMaps /\ bench'.is = "factories" /\ bench'.mFactories = none
        /\ bench'.alive = {} /\ bench'.last = zero /\ bench'.asked = none
    BY <1>1, <1>2, <1>3 DEF FactoryMaps
  <1>7. Registered(bench')
    BY <1>2, <1>4, <1>6 DEF Registered
  <1>8. MadeAsAsked(bench')
    BY <1>5, <1>6 DEF MadeAsAsked
  <1> QED
    BY <1>6, <1>7, <1>8 DEF OwnedKept

(* The parts of the invariant that tell of the factories. *)
LEMMA FactoriesAre ==
  ASSUME NEW b, b.is = "factories", OwnedKept(b)
  PROVE  /\ b \in FactoryMaps /\ Registered(b) /\ MadeAsAsked(b)
         /\ b.mFactories \in Makers /\ DOMAIN b.mFactories \subseteq FactoryKeys
         /\ b.mFactories \in [DOMAIN b.mFactories -> Nat \ {0}]
         /\ b.alive \subseteq Nat /\ b.made \in Nat /\ b.last \in [FactoryKeys -> Nat]
  <1>1. b \in FactoryMaps /\ Registered(b) /\ MadeAsAsked(b)
    BY DEF OwnedKept
  <1>2. b.mFactories \in Makers /\ b.alive \subseteq Nat /\ b.made \in Nat /\ b.last \in [FactoryKeys -> Nat]
    BY <1>1 DEF FactoryMaps
  <1>3. PICK D \in SUBSET FactoryKeys : b.mFactories \in [D -> Nat \ {0}]
    BY <1>2 DEF Makers
  <1> QED
    BY <1>1, <1>2, <1>3

(* A factory is registered, the one before it with this key deleted. *)
LEMMA RegisterKept ==
  ASSUME OwnedKept(bench), NEW key \in FactoryKeys, Register(key)
  PROVE  OwnedKept(bench')
  <1> DEFINE m == bench.mFactories
             D == DOMAIN m
             n == bench.made + 1
             replaced == IF key \in D THEN {m[key]} ELSE {}
             w == RegisterFactory(m, key, n)
             a == (bench.alive \ replaced) \cup {n}
             l == [bench.last EXCEPT ![key] = n]
  <1>1. bench.is = "factories"
    BY DEF Register, On
  <1>2. /\ bench \in FactoryMaps /\ Registered(bench) /\ MadeAsAsked(bench)
        /\ m \in Makers /\ D \subseteq FactoryKeys /\ m \in [D -> Nat \ {0}]
        /\ bench.alive \subseteq Nat /\ bench.made \in Nat /\ bench.last \in [FactoryKeys -> Nat]
    BY <1>1, FactoriesAre
  <1>3. bench' = [bench EXCEPT !.mFactories = w, !.made = n, !.alive = a, !.last = l]
    BY <1>2 DEF Register, FactoryMaps
  <1>4. n \in Nat \ {0} /\ n > bench.made
    BY <1>2
  <1>5. /\ DOMAIN w = D \cup {key} /\ \A k \in D \cup {key} : w[k] = IF k = key THEN n ELSE m[k]
        /\ w = [k \in D \cup {key} |-> IF k = key THEN n ELSE m[k]]
    BY DEF RegisterFactory
  <1>6. /\ bench.alive = {m[k] : k \in D}
        /\ \A k \in D : m[k] <= bench.made /\ m[k] \in Nat \ {0}
        /\ \A k, j \in D : m[k] = m[j] => k = j
        /\ \A k \in FactoryKeys : bench.last[k] = IF k \in D THEN m[k] ELSE 0
    BY <1>2 DEF Registered
  <1>7. \A k \in FactoryKeys : l[k] = IF k = key THEN n ELSE bench.last[k]
    BY <1>2
  <1>8. l \in [FactoryKeys -> Nat]
    BY <1>2, <1>4
  <1>9. a \subseteq Nat
    BY <1>2, <1>4
  <1> HIDE DEF n
  <1>10. w \in Makers
    <2> DEFINE E == D \cup {key}
    <2>1. w \in [E -> Nat \ {0}]
      BY <1>4, <1>5, <1>6
    <2>2. E \in SUBSET FactoryKeys
      BY <1>2
    <2> HIDE DEF E, w
    <2> QED
      BY <2>1, <2>2 DEF Makers
  <1>11. \A k \in D : m[k] # n
    BY <1>2, <1>4, <1>6
  <1>12. a = {w[k] : k \in D \cup {key}}
    <2> HIDE DEF w
    <2>1. ASSUME NEW x \in a PROVE x \in {w[k] : k \in D \cup {key}}
      <3>1. CASE x = n
        BY <1>5, <3>1
      <3>2. CASE x # n
        <4>1. x \in bench.alive /\ x \notin replaced
          BY <2>1, <3>2
        <4>2. PICK k \in D : x = m[k]
          BY <1>6, <4>1
        <4>3. k # key
          BY <4>1, <4>2
        <4> QED
          BY <1>5, <4>2, <4>3
      <3> QED
        BY <3>1, <3>2
    <2>2. ASSUME NEW k \in D \cup {key} PROVE w[k] \in a
      <3>1. CASE k = key
        BY <1>5, <3>1
      <3>2. CASE k # key
        <4>1. k \in D /\ w[k] = m[k] /\ m[k] \in bench.alive
          BY <1>5, <1>6, <3>2
        <4>2. m[k] \notin replaced
          BY <1>6, <3>2, <4>1
        <4> QED
          BY <4>1, <4>2
      <3> QED
        BY <3>1, <3>2
    <2> HIDE DEF a, D
    <2> QED
      BY <2>1, <2>2
  <1> HIDE DEF m, D, w, a, l
  <1>13. /\ bench' \in FactoryMaps /\ bench'.is = "factories" /\ bench'.mFactories = w /\ bench'.made = n
         /\ bench'.alive = a /\ bench'.last = l /\ bench'.asked = bench.asked /\ bench'.object = bench.object
         /\ bench'.registered = bench.registered
    BY <1>2, <1>3, <1>4, <1>8, <1>9, <1>10 DEF FactoryMaps
  <1>14. \A k \in DOMAIN w : w[k] <= n
    BY <1>2, <1>4, <1>5, <1>6
  <1>15. \A k, j \in DOMAIN w : w[k] = w[j] => k = j
    BY <1>5, <1>6, <1>11
  <1>16. \A k \in FactoryKeys : l[k] = IF k \in DOMAIN w THEN w[k] ELSE 0
    BY <1>5, <1>6, <1>7
  <1>17. Registered(bench')
    <2>1. bench'.alive = {bench'.mFactories[k] : k \in DOMAIN bench'.mFactories}
      <3>1. DOMAIN w = D \cup {key}
        BY <1>5
      <3> QED
        BY <1>12, <1>13, <3>1
    <2>2. \A k \in DOMAIN bench'.mFactories : bench'.mFactories[k] <= bench'.made
      BY <1>13, <1>14
    <2>3. \A k, j \in DOMAIN bench'.mFactories : bench'.mFactories[k] = bench'.mFactories[j] => k = j
      BY <1>13, <1>15
    <2>4. \A k \in FactoryKeys :
            bench'.last[k] = IF k \in DOMAIN bench'.mFactories THEN bench'.mFactories[k] ELSE 0
      BY <1>13, <1>16
    <2> QED
      BY <2>1, <2>2, <2>3, <2>4 DEF Registered
  <1>18. MadeAsAsked(bench')
    BY <1>2, <1>13 DEF MadeAsAsked
  <1> QED
    BY <1>13, <1>17, <1>18 DEF OwnedKept

(* An object is asked for. *)
LEMMA MakeKept ==
  ASSUME OwnedKept(bench), NEW key \in FactoryKeys, Make(key)
  PROVE  OwnedKept(bench')
  <1> DEFINE m == bench.mFactories
             o == CreateObject(m, key, key)
             q == <<key>>
             x == bench.last[key]
  <1>1. bench.is = "factories"
    BY DEF Make, On
  <1>2. /\ bench \in FactoryMaps /\ Registered(bench) /\ m \in [DOMAIN m -> Nat \ {0}]
        /\ bench.last \in [FactoryKeys -> Nat]
    BY <1>1, FactoriesAre
  <1>3. bench' = [bench EXCEPT !.object = o, !.asked = q, !.registered = x]
    BY <1>2 DEF Make, FactoryMaps
  <1>4. x = (IF key \in DOMAIN m THEN m[key] ELSE 0) /\ x \in Nat
    BY <1>2 DEF Registered
  <1>5. o \in Objects /\ o.type = x /\ (o.type # 0 => o.parameter = key)
    <2>1. CASE key \in DOMAIN m
      <3>1. o = [type |-> m[key], parameter |-> key] /\ m[key] \in Nat
        BY <1>2, <2>1 DEF CreateObject
      <3> HIDE DEF o
      <3> QED
        BY <1>4, <2>1, <3>1 DEF Objects
    <2>2. CASE key \notin DOMAIN m
      <3>1. o = [type |-> 0]
        BY <2>2 DEF CreateObject
      <3> HIDE DEF o
      <3> QED
        BY <1>4, <2>2, <3>1 DEF Objects
    <2> QED
      BY <2>1, <2>2
  <1>6. q \in Seq(FactoryKeys) /\ q[1] = key
    OBVIOUS
  <1> HIDE DEF o, q, x, m
  <1>7. /\ bench' \in FactoryMaps /\ bench'.is = "factories" /\ bench'.mFactories = bench.mFactories
        /\ bench'.made = bench.made /\ bench'.alive = bench.alive /\ bench'.last = bench.last
        /\ bench'.asked = q /\ bench'.object = o /\ bench'.registered = x
    BY <1>2, <1>3, <1>4, <1>5, <1>6 DEF FactoryMaps
  <1>8. Registered(bench')
    BY <1>2, <1>7 DEF Registered
  <1>9. MadeAsAsked(bench')
    BY <1>5, <1>6, <1>7 DEF MadeAsAsked
  <1> QED
    BY <1>7, <1>8, <1>9 DEF OwnedKept

(* The map is destroyed with all its factories. *)
LEMMA DestroyFactoriesKept ==
  ASSUME OwnedKept(bench), DestroyFactories
  PROVE  OwnedKept(bench')
  <1>1. bench.is = "factories"
    BY DEF DestroyFactories, On
  <1>2. bench.alive = {bench.mFactories[k] : k \in DOMAIN bench.mFactories}
    BY <1>1, FactoriesAre DEF Registered
  <1>3. bench'.is = "deleted" /\ bench'.left = bench.alive \ Range(bench.mFactories)
    BY DEF DestroyFactories
  <1>4. bench'.left = {}
    BY <1>2, <1>3 DEF Range
  <1> QED
    BY <1>3, <1>4 DEF OwnedKept

(* Stacks and factories, in a library that does anything else as well. *)
OwnershipSpec ==
  bench = NothingThere /\ [][OwnershipNext \/ Elsewhere({"stacks", "destroyed", "factories", "deleted"})]_bench

(* The invariant holds throughout. *)
LEMMA OwnershipHolds == OwnershipSpec => []OwnedKept(bench)
  <1> DEFINE other == Elsewhere({"stacks", "destroyed", "factories", "deleted"})
  <1>1. bench = NothingThere => OwnedKept(bench)
    <2>1. ASSUME bench = NothingThere PROVE bench.is = "nothing"
      BY <2>1 DEF NothingThere
    <2> QED
      BY <2>1 DEF OwnedKept
  <1>2. OwnedKept(bench) /\ [OwnershipNext \/ other]_bench => OwnedKept(bench)'
    <2> SUFFICES ASSUME OwnedKept(bench), OwnershipNext \/ other \/ UNCHANGED bench
                 PROVE  OwnedKept(bench')
      OBVIOUS
    <2>1. CASE other
      BY <2>1 DEF Elsewhere, OwnedKept
    <2>2. CASE UNCHANGED bench
      BY <2>2
    <2>3. ASSUME TakeOff("destroyed") \/ TakeOff("deleted") PROVE OwnedKept(bench')
      <3>1. bench'.is = "nothing"
        BY <2>3 DEF TakeOff, NothingThere
      <3> QED
        BY <3>1 DEF OwnedKept
    <2> QED
      BY <2>1, <2>2, <2>3, NewStacksKept, SwapKept, CopyFirstKept, DestroyStacksKept, PushKept, PopKept,
         ReserveMoreKept, NewFactoriesKept, DestroyFactoriesKept, RegisterKept, MakeKept DEF OwnershipNext
  <1> QED
    BY <1>1, <1>2, PTL DEF OwnershipSpec

(* The stacks hold what was pushed and not popped, every element is destroyed once but for those
   that growing leaves behind, and the factories that exist are those the map can reach. *)
THEOREM OwnedOnce == OwnershipSpec => []EverythingOwned
  <1>1. OwnedKept(bench) => EverythingOwned
    <2> SUFFICES ASSUME OwnedKept(bench)
                 PROVE  EverythingOwned
      OBVIOUS
    <2>1. ASSUME bench.is = "stacks"
          PROVE  /\ \A k \in 1 .. 2 :
                       LET s == bench.s[k]
                       IN /\ SubSeq(s.mData, 1, s.mSize) = bench.expect[k] /\ s.mSize <= s.mCapacity
                          /\ s.mSize > 0 => Back(s) = Last(bench.expect[k])
                 /\ bench.live = Len(bench.expect[1]) + Len(bench.expect[2]) + bench.lost
      <3>1. \A k \in 1 .. 2 : Holds(bench.s[k], bench.expect[k])
        BY <2>1, StacksAre
      <3>2. bench.live = Total(bench.expect) + bench.lost
        BY <2>1, StacksAre
      <3> QED
        BY <3>1, <3>2, HoldsIs DEF Total
    <2>2. ASSUME bench.is = "factories"
          PROVE  /\ bench.alive = Range(bench.mFactories)
                 /\ \A k, l \in DOMAIN bench.mFactories :
                       bench.mFactories[k] = bench.mFactories[l] => k = l
                 /\ bench.asked # <<>> =>
                      /\ bench.object.type = bench.registered
                      /\ bench.object.type # 0 => bench.object.parameter = bench.asked[1]
      <3>1. Registered(bench) /\ MadeAsAsked(bench)
        BY <2>2, FactoriesAre
      <3> QED
        BY <3>1 DEF Registered, MadeAsAsked, Range
    <2> QED
      BY <2>1, <2>2 DEF EverythingOwned, OwnedKept, On
  <1> QED
    BY <1>1, OwnershipHolds, PTL

-----------------------------------------------------------------------------
(* The logger *)

(* Where a call of log is. *)
Stages ==
  {"idle", "check", "stamp", "localtime", "lock", "prefix", "message", "where", "which", "write",
   "unlock", "dropped", "written"}

(* Where a thread is between taking and giving back the mutex. *)
Within == {"localtime", "prefix", "message", "where", "which", "write", "unlock"}

(* Where log writes. *)
Kinds == {"local", "syslog", "null"}

(* Where a line goes: the kind and the file. *)
Targets == Kinds \X Nat

(* A call of log. *)
Calls == [pc : Stages, level : Int, to : Targets \cup {<<>>}, during : BOOLEAN, at : Targets \cup {<<>>}]

(* A line in a file or in the system log. *)
Written == [to : {"local", "LOG_ERR", "LOG_NOTICE", "LOG_INFO", "LOG_DEBUG"} \X Nat, by : Threads, text : Seq(Threads)]

(* The records of the logger. *)
Logs ==
  [is : {"logger"}, holder : SUBSET Threads, type : Kinds, file : Nat, open : SUBSET Nat,
   opened : Nat, msgBuf : Seq(Threads), lines : Seq(Written), call : [Threads -> Calls],
   set : [pc : {"idle", "close", "file", "type", "failed"}, to : {"nowhere", "null", "stderr", "syslog", "file"}, file : Nat],
   sets : Nat]

(* The lines of a thread. *)
Mine(b, t) == {k \in DOMAIN b.lines : b.lines[k].by = t}

(* What the line of a call has to say of its target. *)
Due(c) == IF c.at[1] = "syslog" THEN <<Priority(c.level), 0>> ELSE c.at

(* Who holds the mutex, and what the static buffer has for him. *)
OneWriter(b, t) ==
  LET c == b.call[t]
  IN /\ c.pc \in Within <=> b.holder = {t}
     /\ c.pc = "message" => b.msgBuf = <<t>>
     /\ c.pc \in {"where", "which", "write"} => b.msgBuf = <<t, t>>

(* A call that no setLogFile got in the way of still goes where it was sent to. *)
Undisturbed(b, t) ==
  LET c == b.call[t]
  IN c.pc \notin {"idle", "written"} /\ ~c.during =>
       /\ c.at = Configured(b) /\ b.set.pc \in {"idle", "failed"}
       /\ c.pc = "which" => c.at[1] = "local"
       /\ c.pc = "write" => c.to = c.at
       /\ c.pc = "dropped" => c.level > LogLevel \/ c.at[1] = "null"

(* The line of a call, from the moment it is written. *)
OneLine(b, t) ==
  LET c == b.call[t]
  IN /\ c.pc # "idle" => c.at \in Targets
     /\ c.pc = "write" => c.to \in Targets
     /\ c.pc \notin {"idle", "check", "dropped", "written"} => c.level <= LogLevel
     /\ c.pc \notin {"unlock", "written"} => Mine(b, t) = {}
     /\ \/ Mine(b, t) = {}
        \/ c.level <= LogLevel /\ \E k \in DOMAIN b.lines : Mine(b, t) = {k} /\ b.lines[k].text = <<t, t>>
     /\ c.pc \in {"unlock", "written"} /\ c.level <= LogLevel /\ ~c.during /\ c.at[1] # "null" =>
          \E k \in Mine(b, t) : b.lines[k].to = Due(c)

(* The file that is written to is open, except inside of setLogFile; no other one is, but
   for the one that is being set. *)
FilesOpen(b) ==
  /\ b.open \subseteq (1 .. b.opened) \cap {b.file, b.set.file} /\ b.file <= b.opened
  /\ b.set.pc \in {"idle", "close", "failed"} => b.file \in b.open \cup {0}
  /\ b.set.pc \in {"idle", "failed"} => b.set.file = 0
  /\ b.set.file \in b.open \cup {0}
  /\ b.set.pc = "close" => b.set.file = 0 \/ b.set.file > b.file
  /\ b.set.pc = "file" => b.open \subseteq {b.set.file}
  /\ b.set.pc = "type" => b.file = b.set.file

(* The inductive invariant: the parts above, of every thread. *)
LogKept(b) ==
  b.is = "logger" =>
    /\ b \in Logs /\ FilesOpen(b)
    /\ \A t \in Threads : OneWriter(b, t) /\ Undisturbed(b, t) /\ OneLine(b, t)

(* The places of a call of log. *)
LEMMA StagesNamed ==
  /\ "idle" \in Stages /\ "check" \in Stages /\ "stamp" \in Stages /\ "localtime" \in Stages
  /\ "lock" \in Stages /\ "prefix" \in Stages /\ "message" \in Stages /\ "where" \in Stages
  /\ "which" \in Stages
  /\ "write" \in Stages /\ "unlock" \in Stages /\ "dropped" \in Stages /\ "written" \in Stages
  BY DEF Stages

(* From b to c the call of thread t got to place p; the mutex, the buffer and the lines
   became h, m and l, and what setLogFile sets stayed. *)
Moves(b, c, t, p, h, m, l) ==
  /\ c \in Logs /\ c.holder = h /\ c.msgBuf = m /\ c.lines = l
  /\ c.type = b.type /\ c.file = b.file /\ c.open = b.open /\ c.opened = b.opened
  /\ c.set = b.set
  /\ \A u \in Threads : u # t => c.call[u] = b.call[u]
  /\ c.call[t].pc = p /\ c.call[t].level = b.call[t].level
  /\ c.call[t].during = b.call[t].during /\ c.call[t].at = b.call[t].at

(* Go moves one call on, and nothing else. *)
LEMMA GoFields ==
  ASSUME NEW b \in Logs, NEW t \in Threads, NEW p \in Stages
  PROVE  /\ Go(b, t, p) \in Logs
         /\ Moves(b, Go(b, t, p), t, p, b.holder, b.msgBuf, b.lines)
         /\ Go(b, t, p).call[t].to = b.call[t].to
  <1>1. b.call[t] \in Calls /\ b.call \in [Threads -> Calls]
    BY DEF Logs
  <1> DEFINE d == [b.call[t] EXCEPT !.pc = p]
  <1>2. /\ d \in Calls /\ d.pc = p /\ d.level = b.call[t].level /\ d.during = b.call[t].during
        /\ d.at = b.call[t].at /\ d.to = b.call[t].to
    BY <1>1 DEF Calls
  <1>3. Go(b, t, p) = [b EXCEPT !.call = [b.call EXCEPT ![t] = d]]
    BY <1>1 DEF Go, Logs, Calls
  <1> HIDE DEF d
  <1>4. [b.call EXCEPT ![t] = d] \in [Threads -> Calls]
    BY <1>1, <1>2
  <1>5. Go(b, t, p) \in Logs /\ Go(b, t, p).call = [b.call EXCEPT ![t] = d]
    BY <1>3, <1>4 DEF Logs
  <1>6. /\ Go(b, t, p).holder = b.holder /\ Go(b, t, p).msgBuf = b.msgBuf /\ Go(b, t, p).lines = b.lines
        /\ Go(b, t, p).type = b.type /\ Go(b, t, p).file = b.file /\ Go(b, t, p).open = b.open
        /\ Go(b, t, p).opened = b.opened /\ Go(b, t, p).set = b.set
    BY <1>3 DEF Logs
  <1> QED
    BY <1>1, <1>2, <1>5, <1>6 DEF Moves

(* The mutex taken or given back, on top of a move. *)
LEMMA HolderSet ==
  ASSUME NEW b, NEW c \in Logs, NEW t \in Threads, NEW p, NEW h \in SUBSET Threads,
         Moves(b, c, t, p, b.holder, b.msgBuf, b.lines)
  PROVE  Moves(b, [c EXCEPT !.holder = h], t, p, h, b.msgBuf, b.lines)
  BY DEF Moves, Logs

(* The static buffer written, on top of a move. *)
LEMMA BufferSet ==
  ASSUME NEW b, NEW c \in Logs, NEW t \in Threads, NEW p, NEW m \in Seq(Threads),
         Moves(b, c, t, p, b.holder, b.msgBuf, b.lines)
  PROVE  Moves(b, [c EXCEPT !.msgBuf = m], t, p, b.holder, m, b.lines)
  BY DEF Moves, Logs

(* A line written out, on top of a move. *)
LEMMA LinesSet ==
  ASSUME NEW b, NEW c \in Logs, NEW t \in Threads, NEW p, NEW l \in Seq(Written),
         Moves(b, c, t, p, b.holder, b.msgBuf, b.lines)
  PROVE  Moves(b, [c EXCEPT !.lines = l], t, p, b.holder, b.msgBuf, l)
  BY DEF Moves, Logs

(* The target of the call found, on top of a move. *)
LEMMA WhereSet ==
  ASSUME NEW b, NEW c \in Logs, NEW t \in Threads, NEW p, NEW q \in Targets,
         Moves(b, c, t, p, b.holder, b.msgBuf, b.lines)
  PROVE  /\ Moves(b, [c EXCEPT !.call[t].to = q], t, p, b.holder, b.msgBuf, b.lines)
         /\ [c EXCEPT !.call[t].to = q].call[t].to = q
  <1>1. c.call[t] \in Calls /\ c.call \in [Threads -> Calls]
    BY DEF Logs
  <1> DEFINE d == [c.call[t] EXCEPT !.to = q]
             e == [c EXCEPT !.call[t].to = q]
  <1>2. /\ d \in Calls /\ d.pc = c.call[t].pc /\ d.level = c.call[t].level /\ d.during = c.call[t].during
        /\ d.at = c.call[t].at /\ d.to = q
    BY <1>1 DEF Calls
  <1>3. e = [c EXCEPT !.call = [c.call EXCEPT ![t] = d]]
    BY <1>1 DEF Logs, Calls
  <1> HIDE DEF d, e
  <1>4. [c.call EXCEPT ![t] = d] \in [Threads -> Calls]
    BY <1>1, <1>2
  <1>5. e \in Logs /\ e.call = [c.call EXCEPT ![t] = d]
    BY <1>3, <1>4 DEF Logs
  <1>6. /\ e.holder = c.holder /\ e.msgBuf = c.msgBuf /\ e.lines = c.lines
        /\ e.type = c.type /\ e.file = c.file /\ e.open = c.open
        /\ e.opened = c.opened /\ e.set = c.set
    BY <1>3 DEF Logs
  <1>7. Moves(b, e, t, p, b.holder, b.msgBuf, b.lines) /\ e.call[t].to = q
    BY <1>1, <1>2, <1>5, <1>6 DEF Moves
  <1> QED
    BY <1>7 DEF e

(* What holds of another call holds after a move of t. *)
LEMMA OthersKept ==
  ASSUME NEW b \in Logs, NEW c \in Logs, NEW u \in Threads, c.call[u] = b.call[u],
         OneWriter(b, u), Undisturbed(b, u), OneLine(b, u),
         c.holder = {u} <=> b.holder = {u}, b.holder = {u} => c.msgBuf = b.msgBuf,
         Configured(c) = Configured(b), c.set = b.set,
         c.lines = b.lines \/ \E x \in Written : x.by # u /\ c.lines = Append(b.lines, x)
  PROVE  OneWriter(c, u) /\ Undisturbed(c, u) /\ OneLine(c, u)
  <1>1. OneWriter(c, u)
    BY DEF OneWriter, Within
  <1>2. Undisturbed(c, u)
    BY DEF Undisturbed
  <1>3. /\ Mine(c, u) = Mine(b, u)
        /\ \A k \in Mine(b, u) : c.lines[k] = b.lines[k] /\ k \in DOMAIN b.lines /\ k \in DOMAIN c.lines
    <2>1. CASE c.lines = b.lines
      BY <2>1 DEF Mine
    <2>2. ASSUME NEW x \in Written, x.by # u, c.lines = Append(b.lines, x)
          PROVE  <1>3!:
      <3>1. b.lines \in Seq(Written)
        BY DEF Logs
      <3>2. /\ DOMAIN c.lines = 1 .. Len(b.lines) + 1 /\ DOMAIN b.lines = 1 .. Len(b.lines)
            /\ Len(b.lines) \in Nat
            /\ \A k \in 1 .. Len(b.lines) : c.lines[k] = b.lines[k]
            /\ c.lines[Len(b.lines) + 1] = x
        BY <2>2, <3>1
      <3> QED
        BY <2>2, <3>2 DEF Mine
    <2> QED
      BY <2>1, <2>2
  <1>4. \A k \in DOMAIN b.lines : Mine(b, u) = {k} => k \in DOMAIN c.lines /\ c.lines[k] = b.lines[k]
    BY <1>3
  <1>5. Due(c.call[u]) = Due(b.call[u])
    OBVIOUS
  <1> HIDE DEF Mine, Due
  <1> QED
    BY <1>1, <1>2, <1>3, <1>4, <1>5 DEF OneLine

(* What holds of the configuration and of the files holds after a move of t. *)
LEMMA MoverKept ==
  ASSUME NEW b, b.is = "logger", LogKept(b), NEW c, NEW t \in Threads, NEW p, NEW h, NEW m, NEW l,
         Moves(b, c, t, p, h, m, l),
         h = b.holder \/ (b.holder = {} /\ h = {t}) \/ (b.holder = {t} /\ h = {}),
         m = b.msgBuf \/ b.holder = {t},
         l = b.lines \/ \E x \in Written : x.by = t /\ l = Append(b.lines, x),
         OneWriter(c, t), Undisturbed(c, t), OneLine(c, t)
  PROVE  LogKept(c)
  <1>1. b \in Logs /\ c \in Logs /\ FilesOpen(b)
    BY DEF LogKept, Moves
  <1>2. FilesOpen(c)
    BY <1>1 DEF Moves, FilesOpen
  <1>3. ASSUME NEW u \in Threads, u # t
        PROVE  OneWriter(c, u) /\ Undisturbed(c, u) /\ OneLine(c, u)
    <2>1. c.call[u] = b.call[u] /\ Configured(c) = Configured(b) /\ c.set = b.set
      BY <1>3 DEF Moves, Configured
    <2>2. (c.holder = {u} <=> b.holder = {u}) /\ (b.holder = {u} => c.msgBuf = b.msgBuf)
      BY <1>3 DEF Moves
    <2>3. c.lines = b.lines \/ \E x \in Written : x.by # u /\ c.lines = Append(b.lines, x)
      BY <1>3 DEF Moves
    <2>4. OneWriter(b, u) /\ Undisturbed(b, u) /\ OneLine(b, u)
      BY DEF LogKept
    <2> QED
      BY <1>1, <2>1, <2>2, <2>3, <2>4, OthersKept
  <1> QED
    BY <1>1, <1>2, <1>3 DEF LogKept

(* The parts of the invariant that tell of one thread. *)
LEMMA LoggerKept ==
  ASSUME NEW b, b.is = "logger", LogKept(b), NEW t \in Threads
  PROVE  /\ b \in Logs /\ b.call \in [Threads -> Calls] /\ b.call[t] \in Calls
         /\ b.holder \in SUBSET Threads /\ b.msgBuf \in Seq(Threads) /\ b.lines \in Seq(Written)
         /\ b.open \in SUBSET Nat /\ b.opened \in Nat /\ b.file \in Nat
         /\ OneWriter(b, t) /\ Undisturbed(b, t) /\ OneLine(b, t) /\ FilesOpen(b)
         /\ Configured(b) \in Targets
  <1>1. b \in Logs
    BY DEF LogKept
  <1>2. Configured(b) \in Targets
    BY <1>1 DEF Configured, Targets, Logs
  <1> QED
    BY <1>1, <1>2 DEF LogKept, Logs

(* The check of the level and the return from log do not need the mutex. *)
LEMMA BeforeMutex ==
  ASSUME LogKept(bench), NEW t \in Threads, Check(t) \/ LogReturn(t)
  PROVE  LogKept(bench')
  <1>0. bench.is = "logger"
    BY DEF Check, LogReturn, CallAt, On
  <1>1. /\ bench \in Logs /\ bench.call[t] \in Calls
        /\ OneWriter(bench, t) /\ Undisturbed(bench, t) /\ OneLine(bench, t)
    BY <1>0, LoggerKept
  <1>2. PICK p \in Stages :
          /\ bench' = Go(bench, t, p)
          /\ \/ /\ bench.call[t].pc = "check" /\ p = "dropped"
                /\ bench.call[t].level > LogLevel \/ bench.type = "null"
             \/ bench.call[t].pc = "check" /\ p \in {"stamp", "lock"} /\ ~(bench.call[t].level > LogLevel)
             \/ bench.call[t].pc = "dropped" /\ p = "written"
    BY StagesNamed DEF Check, LogReturn, CallAt
  <1>3. Moves(bench, bench', t, p, bench.holder, bench.msgBuf, bench.lines)
    BY <1>1, <1>2, GoFields
  <1>4. /\ Configured(bench') = Configured(bench) /\ bench'.set = bench.set
        /\ Configured(bench)[1] = bench.type /\ Mine(bench', t) = Mine(bench, t)
        /\ bench'.lines = bench.lines /\ bench'.call[t].pc = p
        /\ bench'.call[t].level = bench.call[t].level
        /\ bench'.call[t].during = bench.call[t].during /\ bench'.call[t].at = bench.call[t].at
        /\ bench'.holder = bench.holder
    BY <1>3 DEF Moves, Configured, Mine
  <1>5. bench.call[t].level \in Int
    BY <1>1 DEF Calls
  <1>6. Mine(bench, t) = {} /\ bench.call[t].at \in Targets
    BY <1>1, <1>2 DEF OneLine
  <1>7. OneWriter(bench', t)
    BY <1>1, <1>2, <1>4 DEF OneWriter, Within
  <1>8. Undisturbed(bench', t)
    BY <1>1, <1>2, <1>4 DEF Undisturbed
  <1>9. OneLine(bench', t)
    <2>1. p = "written" /\ bench.call[t].level <= LogLevel /\ ~bench.call[t].during => bench.call[t].at[1] = "null"
      BY <1>1, <1>2, <1>5, LevelAssumption DEF Undisturbed
    <2>2. p \in {"stamp", "lock"} => bench.call[t].level <= LogLevel
      BY <1>2, <1>5, LevelAssumption
    <2> QED
      BY <1>2, <1>4, <1>6, <2>1, <2>2 DEF OneLine
  <1> QED
    BY <1>0, <1>3, <1>7, <1>8, <1>9, MoverKept

(* The time stamp is taken, the mutex taken when nobody has it, and given back. *)
LEMMA MutexMoves ==
  ASSUME LogKept(bench), NEW t \in Threads,
         Timestamp(t) \/ TimestampReturn(t) \/ MutexLock(t) \/ MutexUnlock(t)
  PROVE  LogKept(bench')
  <1>0. bench.is = "logger"
    BY DEF Timestamp, TimestampReturn, MutexLock, MutexUnlock, CallAt, On
  <1>1. /\ bench \in Logs /\ bench.call[t] \in Calls
        /\ OneWriter(bench, t) /\ Undisturbed(bench, t) /\ OneLine(bench, t)
    BY <1>0, LoggerKept
  <1>2. PICK p \in Stages, h \in {{}, {t}} :
          /\ bench' = [Go(bench, t, p) EXCEPT !.holder = h]
          /\ \/ bench.call[t].pc = "stamp" /\ p = "localtime" /\ h = {t} /\ bench.holder = {}
             \/ bench.call[t].pc = "localtime" /\ p = "lock" /\ h = {}
             \/ bench.call[t].pc = "lock" /\ p = "prefix" /\ h = {t} /\ bench.holder = {}
             \/ bench.call[t].pc = "unlock" /\ p = "written" /\ h = {}
    BY StagesNamed DEF Timestamp, TimestampReturn, MutexLock, MutexUnlock, CallAt
  <1>3. Moves(bench, bench', t, p, h, bench.msgBuf, bench.lines)
    BY <1>1, <1>2, GoFields, HolderSet
  <1>4. /\ Configured(bench') = Configured(bench) /\ bench'.set = bench.set
        /\ Mine(bench', t) = Mine(bench, t)
        /\ bench'.lines = bench.lines /\ bench'.call[t].pc = p
        /\ bench'.call[t].level = bench.call[t].level
        /\ bench'.call[t].during = bench.call[t].during /\ bench'.call[t].at = bench.call[t].at
        /\ bench'.holder = h
    BY <1>3 DEF Moves, Configured, Mine
  <1>5. Due(bench'.call[t]) = Due(bench.call[t])
    BY <1>4 DEF Due
  <1>6. bench.holder = {t} \/ bench.holder = {}
    BY <1>1, <1>2 DEF OneWriter, Within
  <1>7. OneWriter(bench', t)
    BY <1>2, <1>4 DEF OneWriter, Within
  <1>8. Undisturbed(bench', t)
    BY <1>1, <1>2, <1>4 DEF Undisturbed
  <1>9. OneLine(bench', t)
    BY <1>1, <1>2, <1>4, <1>5 DEF OneLine
  <1>10. h = bench.holder \/ (bench.holder = {} /\ h = {t}) \/ (bench.holder = {t} /\ h = {})
    BY <1>2, <1>6
  <1> QED
    BY <1>0, <1>3, <1>7, <1>8, <1>9, <1>10, MoverKept

(* The prefix, then the message, fill the static buffer; the target is looked up. *)
LEMMA BufferMoves ==
  ASSUME LogKept(bench), NEW t \in Threads,
         Prefix(t) \/ Message(t) \/ Where(t) \/ WhichFile(t)
  PROVE  LogKept(bench')
  <1>0. bench.is = "logger"
    BY DEF Prefix, Message, Where, WhichFile, CallAt, On
  <1>1. /\ bench \in Logs /\ bench.call[t] \in Calls /\ bench.msgBuf \in Seq(Threads)
        /\ OneWriter(bench, t) /\ Undisturbed(bench, t) /\ OneLine(bench, t)
        /\ Configured(bench) \in Targets /\ bench.type \in Kinds /\ bench.file \in Nat
    BY <1>0, LoggerKept DEF Logs
  <1>2. \E p \in Stages, m \in Seq(Threads) :
          /\ Moves(bench, bench', t, p, bench.holder, m, bench.lines)
          /\ \/ bench.call[t].pc = "prefix" /\ p = "message" /\ m = <<t>>
             \/ bench.call[t].pc = "message" /\ p = "where" /\ m = <<t, t>>
             \/ /\ bench.call[t].pc = "where" /\ p = "which" /\ m = bench.msgBuf
                /\ bench.type = "local"
             \/ /\ bench.call[t].pc = "where" /\ p = "write" /\ m = bench.msgBuf
                /\ bench.type # "local" /\ bench'.call[t].to = <<bench.type, 0>>
             \/ /\ bench.call[t].pc = "which" /\ p = "write" /\ m = bench.msgBuf
                /\ bench'.call[t].to = <<"local", bench.file>>
    <2>0. <<t>> \in Seq(Threads) /\ <<t, t>> \in Seq(Threads) /\ Append(<<t>>, t) = <<t, t>>
      <3>1. <<t>> \in Seq(Threads)
        OBVIOUS
      <3>2. <<t, t>> \in Seq(Threads) /\ Append(<<t>>, t) \in Seq(Threads)
        BY <3>1, AppendProperties
      <3>3. Len(Append(<<t>>, t)) = 2 /\ \A k \in 1 .. 2 : Append(<<t>>, t)[k] = <<t, t>>[k]
        BY <3>1, AppendProperties
      <3> QED
        BY <3>1, <3>2, <3>3, SeqEqual
    <2>1. CASE Prefix(t)
      <3> DEFINE e == Go(bench, t, "message")
      <3>1. bench.call[t].pc = "prefix" /\ bench' = [e EXCEPT !.msgBuf = <<t>>]
        BY <2>1 DEF Prefix, CallAt
      <3>2. e \in Logs /\ Moves(bench, e, t, "message", bench.holder, bench.msgBuf, bench.lines)
        BY <1>1, GoFields, StagesNamed
      <3> HIDE DEF e
      <3>3. Moves(bench, bench', t, "message", bench.holder, <<t>>, bench.lines)
        BY <2>0, <3>1, <3>2, BufferSet
      <3> QED
        BY <2>0, <3>1, <3>3, StagesNamed
    <2>2. CASE Message(t)
      <3> DEFINE e == Go(bench, t, "where")
      <3>1. /\ bench.call[t].pc = "message" /\ bench.msgBuf = <<t>>
            /\ bench' = [e EXCEPT !.msgBuf = Append(e.msgBuf, t)]
        BY <1>1, <2>2 DEF Message, CallAt, OneWriter
      <3>2. e \in Logs /\ Moves(bench, e, t, "where", bench.holder, bench.msgBuf, bench.lines)
        BY <1>1, GoFields, StagesNamed
      <3> HIDE DEF e
      <3>3. Append(e.msgBuf, t) = <<t, t>>
        BY <2>0, <3>1, <3>2 DEF Moves
      <3>4. Moves(bench, bench', t, "where", bench.holder, <<t, t>>, bench.lines)
        BY <2>0, <3>1, <3>2, <3>3, BufferSet
      <3> QED
        BY <2>0, <3>1, <3>4, StagesNamed
    <2>3. ASSUME NEW p \in Stages, NEW q \in Targets,
                 bench' = [Go(bench, t, p) EXCEPT !.call[t].to = q]
          PROVE  /\ Moves(bench, bench', t, p, bench.holder, bench.msgBuf, bench.lines)
                 /\ bench'.call[t].to = q
      <3> DEFINE e == Go(bench, t, p)
      <3>1. e \in Logs /\ Moves(bench, e, t, p, bench.holder, bench.msgBuf, bench.lines)
        BY <1>1, GoFields
      <3> HIDE DEF e
      <3>2. bench' = [e EXCEPT !.call[t].to = q]
        BY <2>3 DEF e
      <3> QED
        BY <3>1, <3>2, WhereSet
    <2>4. CASE Where(t)
      <3>1. <<bench.type, 0>> \in Targets /\ bench.call[t].pc = "where"
        BY <1>1, <2>4 DEF Targets, Where, CallAt
      <3>2. CASE bench.type = "local"
        <4>1. bench' = [Go(bench, t, "which") EXCEPT !.call[t].to = <<bench.type, 0>>]
          BY <2>4, <3>2 DEF Where
        <4>2. Moves(bench, bench', t, "which", bench.holder, bench.msgBuf, bench.lines)
          BY <2>3, <3>1, <4>1, StagesNamed
        <4> QED
          BY <1>1, <3>1, <3>2, <4>2, StagesNamed
      <3>3. CASE bench.type # "local"
        <4>1. bench' = [Go(bench, t, "write") EXCEPT !.call[t].to = <<bench.type, 0>>]
          BY <2>4, <3>3 DEF Where
        <4>2. /\ Moves(bench, bench', t, "write", bench.holder, bench.msgBuf, bench.lines)
              /\ bench'.call[t].to = <<bench.type, 0>>
          BY <2>3, <3>1, <4>1, StagesNamed
        <4> QED
          BY <1>1, <3>1, <3>3, <4>2, StagesNamed
      <3> QED
        BY <3>2, <3>3
    <2>5. CASE WhichFile(t)
      <3>1. /\ <<"local", bench.file>> \in Targets /\ bench.call[t].pc = "which"
            /\ bench' = [Go(bench, t, "write") EXCEPT !.call[t].to = <<"local", bench.file>>]
        BY <1>1, <2>5 DEF Targets, Kinds, WhichFile, CallAt
      <3>2. /\ Moves(bench, bench', t, "write", bench.holder, bench.msgBuf, bench.lines)
            /\ bench'.call[t].to = <<"local", bench.file>>
        BY <2>3, <3>1, StagesNamed
      <3> QED
        BY <1>1, <3>1, <3>2, StagesNamed
    <2> QED
      BY <2>1, <2>2, <2>4, <2>5
  <1>3. PICK p \in Stages, m \in Seq(Threads) :
          /\ Moves(bench, bench', t, p, bench.holder, m, bench.lines)
          /\ \/ bench.call[t].pc = "prefix" /\ p = "message" /\ m = <<t>>
             \/ bench.call[t].pc = "message" /\ p = "where" /\ m = <<t, t>>
             \/ /\ bench.call[t].pc = "where" /\ p = "which" /\ m = bench.msgBuf
                /\ bench.type = "local"
             \/ /\ bench.call[t].pc = "where" /\ p = "write" /\ m = bench.msgBuf
                /\ bench.type # "local" /\ bench'.call[t].to = <<bench.type, 0>>
             \/ /\ bench.call[t].pc = "which" /\ p = "write" /\ m = bench.msgBuf
                /\ bench'.call[t].to = <<"local", bench.file>>
    BY <1>2
  <1>4. /\ Configured(bench') = Configured(bench) /\ bench'.set = bench.set
        /\ Mine(bench', t) = Mine(bench, t)
        /\ bench'.lines = bench.lines /\ bench'.call[t].pc = p /\ bench'.msgBuf = m
        /\ bench'.call[t].level = bench.call[t].level
        /\ bench'.call[t].during = bench.call[t].during /\ bench'.call[t].at = bench.call[t].at
        /\ bench'.holder = bench.holder
    BY <1>3 DEF Moves, Configured, Mine
  <1>5. Due(bench'.call[t]) = Due(bench.call[t])
    BY <1>4 DEF Due
  <1>6. bench.holder = {t}
    BY <1>1, <1>3 DEF OneWriter, Within
  <1>7. OneWriter(bench', t)
    BY <1>1, <1>3, <1>4, <1>6 DEF OneWriter, Within
  <1>8. Undisturbed(bench', t)
    BY <1>1, <1>3, <1>4 DEF Undisturbed, Configured
  <1>9. OneLine(bench', t)
    <2>1. p = "write" => bench'.call[t].to \in Targets
      BY <1>1, <1>3 DEF Targets, Kinds
    <2> QED
      BY <1>1, <1>3, <1>4, <1>5, <2>1 DEF OneLine
  <1> QED
    BY <1>0, <1>3, <1>6, <1>7, <1>8, <1>9, MoverKept

(* The buffer goes out as one line. *)
LEMMA WriteMoves ==
  ASSUME LogKept(bench), NEW t \in Threads, Write(t)
  PROVE  LogKept(bench')
  <1>0. bench.is = "logger"
    BY DEF Write, CallAt, On
  <1>1. /\ bench \in Logs /\ bench.call[t] \in Calls /\ bench.msgBuf \in Seq(Threads)
        /\ OneWriter(bench, t) /\ Undisturbed(bench, t) /\ OneLine(bench, t)
        /\ bench.lines \in Seq(Written) /\ FilesOpen(bench) /\ bench.call[t].pc = "write"
    BY <1>0, LoggerKept DEF Write, CallAt
  <1> DEFINE c == bench.call[t]
             to == c.to
             line == [to |-> IF to[1] = "syslog" THEN <<Priority(c.level), 0>> ELSE to,
                      by |-> t, text |-> bench.msgBuf]
             written == to[1] # "null" /\ to[2] \in {0} \cup bench.open
             l == IF written THEN Append(bench.lines, line) ELSE bench.lines
             e == Go(bench, t, "unlock")
  <1>2. to \in Targets /\ c.level <= LogLevel /\ Mine(bench, t) = {} /\ c.at \in Targets
    BY <1>1 DEF OneLine
  <1>3. bench.msgBuf = <<t, t>> /\ bench.holder = {t}
    BY <1>1 DEF OneWriter, Within
  <1>4. to[1] # "null" => line \in Written
    <2>1. to[1] \in {"local", "syslog", "null"} /\ to[2] \in Nat /\ to = <<to[1], to[2]>>
      BY <1>2 DEF Targets, Kinds
    <2>2. Priority(c.level) \in {"LOG_ERR", "LOG_NOTICE", "LOG_INFO", "LOG_DEBUG"}
      BY DEF Priority
    <2>3. to[1] # "null" =>
            (IF to[1] = "syslog" THEN <<Priority(c.level), 0>> ELSE to)
              \in {"local", "LOG_ERR", "LOG_NOTICE", "LOG_INFO", "LOG_DEBUG"} \X Nat
      BY <2>1, <2>2
    <2> QED
      BY <1>1, <2>3 DEF Written
  <1>5. line.to = (IF to[1] = "syslog" THEN <<Priority(c.level), 0>> ELSE to)
        /\ line.by = t /\ line.text = <<t, t>>
    BY <1>3
  <1>6. e \in Logs /\ Moves(bench, e, t, "unlock", bench.holder, bench.msgBuf, bench.lines)
    BY <1>1, GoFields, StagesNamed
  <1>7. bench' = [e EXCEPT !.lines = IF written THEN Append(e.lines, line) ELSE e.lines]
    BY DEF Write
  <1>8. written => line \in Written
    BY <1>4
  <1>9. ~c.during /\ c.at[1] # "null" => written /\ line.to = Due(c)
    <2>1. SUFFICES ASSUME ~c.during, c.at[1] # "null" PROVE written /\ line.to = Due(c)
      OBVIOUS
    <2>2. to = c.at /\ c.at = Configured(bench) /\ bench.set.pc \in {"idle", "failed"}
      BY <1>1, <2>1 DEF Undisturbed
    <2>3. to[2] \in {0} \cup bench.open
      BY <1>1, <2>2 DEF FilesOpen, Configured
    <2> QED
      BY <1>5, <2>1, <2>2, <2>3 DEF Due
  <1> HIDE DEF line, written, e
  <1>10. Moves(bench, bench', t, "unlock", bench.holder, bench.msgBuf, l)
    <2>1. e.lines = bench.lines
      BY <1>6 DEF Moves
    <2>2. l \in Seq(Written)
      BY <1>1, <1>8
    <2>3. bench' = [e EXCEPT !.lines = l]
      BY <1>7, <2>1
    <2> HIDE DEF l
    <2> QED
      BY <1>6, <2>2, <2>3, LinesSet
  <1>11. /\ Configured(bench') = Configured(bench) /\ bench'.set = bench.set
         /\ bench'.lines = l /\ bench'.call[t].pc = "unlock" /\ bench'.call[t].level = c.level
         /\ bench'.call[t].during = c.during /\ bench'.call[t].at = c.at
         /\ bench'.holder = bench.holder
    BY <1>10 DEF Moves, Configured
  <1>12. OneWriter(bench', t)
    BY <1>3, <1>11 DEF OneWriter, Within
  <1>13. Undisturbed(bench', t)
    BY <1>1, <1>11 DEF Undisturbed
  <1>14. Due(bench'.call[t]) = Due(c)
    BY <1>11 DEF Due
  <1>15. OneLine(bench', t)
    <2>1. CASE written
      <3>1. /\ DOMAIN l = 1 .. Len(bench.lines) + 1 /\ DOMAIN bench.lines = 1 .. Len(bench.lines)
            /\ Len(bench.lines) \in Nat
            /\ \A k \in 1 .. Len(bench.lines) : l[k] = bench.lines[k]
            /\ l[Len(bench.lines) + 1] = line
        BY <1>1, <1>8, <2>1
      <3>2. Mine(bench', t) = {Len(bench.lines) + 1}
        BY <1>2, <1>5, <1>11, <3>1 DEF Mine
      <3>3. Len(bench.lines) + 1 \in DOMAIN l
        BY <3>1
      <3> HIDE DEF l
      <3> QED
        BY <1>2, <1>5, <1>9, <1>11, <1>14, <3>1, <3>2, <3>3 DEF OneLine
    <2>2. CASE ~written
      <3>1. Mine(bench', t) = {}
        BY <1>2, <1>11, <2>2 DEF Mine
      <3> HIDE DEF l
      <3> QED
        BY <1>2, <1>9, <1>11, <2>2, <3>1 DEF OneLine
    <2> QED
      BY <2>1, <2>2
  <1>16. l = bench.lines \/ \E x \in Written : x.by = t /\ l = Append(bench.lines, x)
    BY <1>5, <1>8
  <1> HIDE DEF l
  <1> QED
    BY <1>0, <1>3, <1>10, <1>12, <1>13, <1>15, <1>16, MoverKept

(* From b to c something was set up, and of the calls only "during" may have changed. *)
Sets(b, c) ==
  /\ c \in Logs /\ c.holder = b.holder /\ c.msgBuf = b.msgBuf /\ c.lines = b.lines
  /\ \A t \in Threads :
       /\ c.call[t].pc = b.call[t].pc /\ c.call[t].level = b.call[t].level
       /\ c.call[t].to = b.call[t].to /\ c.call[t].at = b.call[t].at
       /\ b.call[t].during => c.call[t].during
       /\ c.call[t].pc \notin {"idle", "written"} /\ ~c.call[t].during =>
            Configured(c) = Configured(b) /\ c.set.pc \in {"idle", "failed"}

(* setLogFile disturbs the calls under way, and leaves their lines and the mutex alone. *)
LEMMA SetsKept ==
  ASSUME NEW b, b.is = "logger", LogKept(b), NEW c, Sets(b, c), FilesOpen(c)
  PROVE  LogKept(c)
  <1>1. ASSUME NEW t \in Threads PROVE OneWriter(c, t) /\ Undisturbed(c, t) /\ OneLine(c, t)
    <2>1. /\ OneWriter(b, t) /\ Undisturbed(b, t) /\ OneLine(b, t)
          /\ b.call[t] \in Calls /\ c.call[t] \in Calls
      BY LoggerKept DEF Sets, Logs
    <2>2. OneWriter(c, t)
      BY <2>1 DEF OneWriter, Sets
    <2>3. Undisturbed(c, t)
      BY <2>1 DEF Undisturbed, Sets, Calls
    <2>4. Mine(c, t) = Mine(b, t) /\ Due(c.call[t]) = Due(b.call[t]) /\ c.lines = b.lines
      BY DEF Sets, Mine, Due
    <2>5. OneLine(c, t)
      BY <2>1, <2>4 DEF OneLine, Sets, Calls
    <2> QED
      BY <2>2, <2>3, <2>5
  <1> QED
    BY <1>1 DEF LogKept, Sets

(* What setLogFile is setting. *)
SetPlaces == [pc : {"idle", "close", "file", "type", "failed"},
              to : {"nowhere", "null", "stderr", "syslog", "file"}, file : Nat]

(* Setting marks the calls under way as disturbed. *)
LEMMA SettingFields ==
  ASSUME NEW b, b.is = "logger", LogKept(b), NEW s \in SetPlaces, NEW e, e = Setting(b, s)
  PROVE  /\ Sets(b, e) /\ e \in Logs /\ e.set = s
         /\ e.type = b.type /\ e.file = b.file /\ e.open = b.open /\ e.opened = b.opened
  <1> DEFINE d(t) == [b.call[t] EXCEPT !.during = b.call[t].during \/ b.call[t].pc \notin {"idle", "written"}]
             f == [t \in Threads |-> d(t)]
  <1>1. b \in Logs /\ b.call \in [Threads -> Calls] /\ b.sets \in Nat
    BY DEF LogKept, Logs
  <1>2. \A t \in Threads :
          /\ d(t) \in Calls /\ d(t).pc = b.call[t].pc /\ d(t).level = b.call[t].level
          /\ d(t).to = b.call[t].to /\ d(t).at = b.call[t].at
          /\ d(t).during <=> b.call[t].during \/ b.call[t].pc \notin {"idle", "written"}
    <2> TAKE t \in Threads
    <2>1. b.call[t] \in Calls
      BY <1>1
    <2> QED
      BY <2>1 DEF Calls
  <1>3. e = [b EXCEPT !.set = s, !.sets = b.sets + 1, !.call = f]
    BY DEF Setting
  <1> HIDE DEF d
  <1>4. f \in [Threads -> Calls] /\ \A t \in Threads : f[t] = d(t)
    BY <1>2
  <1> HIDE DEF f
  <1>5. /\ e \in Logs /\ e.call = f /\ e.set = s
        /\ e.type = b.type /\ e.file = b.file /\ e.open = b.open /\ e.opened = b.opened
        /\ e.holder = b.holder /\ e.msgBuf = b.msgBuf /\ e.lines = b.lines
    <2>1. b.sets + 1 \in Nat
      BY <1>1
    <2>2. /\ e.call = f /\ e.set = s
          /\ e.type = b.type /\ e.file = b.file /\ e.open = b.open /\ e.opened = b.opened
          /\ e.holder = b.holder /\ e.msgBuf = b.msgBuf /\ e.lines = b.lines
      BY <1>1, <1>3 DEF Logs
    <2>3. e \in Logs
      BY <1>1, <1>3, <1>4, <2>1 DEF Logs, SetPlaces
    <2> QED
      BY <2>2, <2>3
  <1>6. Sets(b, e)
    BY <1>2, <1>4, <1>5 DEF Sets
  <1> QED
    BY <1>5, <1>6

(* A thread logs, or setLogFile does. *)
LEMMA CalledKept ==
  ASSUME NEW b, b.is = "logger", LogKept(b), NEW t \in Threads, NEW level \in Int,
         b.call[t].pc = "idle", t = Setter => b.set.pc = "failed"
  PROVE  LogKept(Called(b, t, level))
  <1> DEFINE late == t # Setter /\ b.set.pc # "idle"
             at == Configured(b)
             d == [pc |-> "check", level |-> level, to |-> <<>>, at |-> at, during |-> late]
             c == Called(b, t, level)
  <1>1. /\ b \in Logs /\ b.call \in [Threads -> Calls] /\ at \in Targets /\ FilesOpen(b)
        /\ OneWriter(b, t) /\ Undisturbed(b, t) /\ OneLine(b, t) /\ late \in BOOLEAN
    BY LoggerKept
  <1>2. c = [b EXCEPT !.call = [b.call EXCEPT ![t] = d]]
    BY DEF Called
  <1> HIDE DEF late, at
  <1>3. d \in Calls
    BY <1>1 DEF Calls, Stages
  <1>4. d.pc = "check" /\ d.at = at /\ d.during = late
    OBVIOUS
  <1> HIDE DEF d, c
  <1>5. [b.call EXCEPT ![t] = d] \in [Threads -> Calls]
    BY <1>1, <1>3
  <1>6. /\ c \in Logs /\ c.call = [b.call EXCEPT ![t] = d] /\ c.set = b.set
        /\ c.type = b.type /\ c.file = b.file /\ c.open = b.open /\ c.opened = b.opened
        /\ c.holder = b.holder /\ c.msgBuf = b.msgBuf /\ c.lines = b.lines
    BY <1>1, <1>2, <1>5 DEF Logs
  <1>7. c.call[t] = d /\ \A u \in Threads : u # t => c.call[u] = b.call[u]
    BY <1>1, <1>6
  <1>8. Configured(c) = Configured(b) /\ Mine(c, t) = Mine(b, t)
    BY <1>6 DEF Configured, Mine
  <1>9. OneWriter(c, t)
    BY <1>1, <1>4, <1>6, <1>7 DEF OneWriter, Within
  <1>10. Undisturbed(c, t)
    BY <1>4, <1>6, <1>7, <1>8 DEF Undisturbed, late, at
  <1>11. OneLine(c, t)
    BY <1>1, <1>4, <1>7, <1>8 DEF OneLine
  <1>12. ASSUME NEW u \in Threads, u # t
         PROVE  OneWriter(c, u) /\ Undisturbed(c, u) /\ OneLine(c, u)
    <2>1. OneWriter(b, u) /\ Undisturbed(b, u) /\ OneLine(b, u)
      BY LoggerKept
    <2> QED
      BY <1>1, <1>6, <1>7, <1>8, <1>12, <2>1, OthersKept
  <1>13. FilesOpen(c)
    BY <1>1, <1>6 DEF FilesOpen
  <1>14. LogKept(c)
    BY <1>6, <1>9, <1>10, <1>11, <1>12, <1>13 DEF LogKept
  <1> QED
    BY <1>14 DEF c

(* setLogFile opens the new file first, and logs when it cannot. *)
LEMMA SetLogFileKept ==
  ASSUME LogKept(bench), SetLogFile
  PROVE  LogKept(bench')
  <1>0. bench.is = "logger" /\ bench.set.pc = "idle"
    BY DEF SetLogFile, On
  <1>1. /\ bench \in Logs /\ FilesOpen(bench) /\ bench.opened \in Nat /\ bench.file \in Nat
        /\ bench.open \in SUBSET Nat
    BY <1>0 DEF LogKept, Logs
  <1>2. /\ bench.open \subseteq {bench.file} \cap (1 .. bench.opened) /\ bench.file \in bench.open \cup {0}
        /\ bench.file <= bench.opened
    BY <1>0, <1>1 DEF FilesOpen
  <1>3. ASSUME NEW to \in {"null", "stderr", "syslog"},
               bench' = Setting(bench, [pc |-> "close", to |-> to, file |-> 0])
        PROVE  LogKept(bench')
    <2> DEFINE s == [pc |-> "close", to |-> to, file |-> 0]
    <2>1. s \in SetPlaces /\ s.pc = "close" /\ s.file = 0
      BY DEF SetPlaces
    <2> HIDE DEF s
    <2>2. /\ Sets(bench, bench') /\ bench'.set = s /\ bench'.file = bench.file
          /\ bench'.open = bench.open /\ bench'.opened = bench.opened
      BY <1>0, <1>3, <2>1, SettingFields DEF s
    <2>3. FilesOpen(bench')
      BY <1>1, <1>2, <2>1, <2>2 DEF FilesOpen
    <2> QED
      BY <1>0, <2>2, <2>3, SetsKept
  <1>4. ASSUME bench' = [Setting(bench, [pc |-> "close", to |-> "file", file |-> bench.opened + 1])
                           EXCEPT !.opened = @ + 1, !.open = @ \cup {bench.opened + 1}]
        PROVE  LogKept(bench')
    <2> DEFINE s == [pc |-> "close", to |-> "file", file |-> bench.opened + 1]
               e == Setting(bench, s)
    <2>1. s \in SetPlaces /\ s.pc = "close" /\ s.file = bench.opened + 1
      BY <1>1 DEF SetPlaces
    <2>2. bench' = [e EXCEPT !.opened = e.opened + 1, !.open = e.open \cup {bench.opened + 1}]
      BY <1>4
    <2> HIDE DEF s
    <2>3. /\ Sets(bench, e) /\ e \in Logs /\ e.set = s /\ e.type = bench.type /\ e.file = bench.file
          /\ e.open = bench.open /\ e.opened = bench.opened
      BY <1>0, <2>1, SettingFields
    <2> HIDE DEF e
    <2>4. /\ bench' \in Logs /\ bench'.set = s /\ bench'.type = e.type /\ bench'.file = bench.file
          /\ bench'.open = bench.open \cup {bench.opened + 1} /\ bench'.opened = bench.opened + 1
          /\ bench'.holder = e.holder /\ bench'.msgBuf = e.msgBuf /\ bench'.lines = e.lines
          /\ bench'.call = e.call
      <3>1. e.opened + 1 \in Nat /\ e.open \cup {bench.opened + 1} \in SUBSET Nat
        BY <1>1, <2>3
      <3> QED
        BY <2>2, <2>3, <3>1 DEF Logs
    <2>5. Configured(bench') = Configured(e)
      BY <2>3, <2>4 DEF Configured
    <2>6. Sets(bench, bench')
      BY <2>3, <2>4, <2>5 DEF Sets
    <2>7. FilesOpen(bench')
      BY <1>1, <1>2, <2>1, <2>4 DEF FilesOpen
    <2> QED
      BY <1>0, <2>6, <2>7, SetsKept
  <1>5. ASSUME bench.call[Setter].pc = "idle",
               bench' = Called(Setting(bench, [pc |-> "failed", to |-> "nowhere", file |-> 0]), Setter, SEVERE)
        PROVE  LogKept(bench')
    <2> DEFINE s == [pc |-> "failed", to |-> "nowhere", file |-> 0]
               e == Setting(bench, s)
    <2>1. s \in SetPlaces /\ s.pc = "failed" /\ s.file = 0
      BY DEF SetPlaces
    <2>2. bench' = Called(e, Setter, SEVERE)
      BY <1>5
    <2> HIDE DEF s
    <2>3. /\ Sets(bench, e) /\ e \in Logs /\ e.set = s /\ e.file = bench.file
          /\ e.open = bench.open /\ e.opened = bench.opened
      BY <1>0, <2>1, SettingFields
    <2> HIDE DEF e
    <2>4. FilesOpen(e)
      BY <1>1, <1>2, <2>1, <2>3 DEF FilesOpen
    <2>5. LogKept(e) /\ e.is = "logger"
      BY <1>0, <2>3, <2>4, SetsKept DEF Logs
    <2>6. Setter \in Threads /\ SEVERE \in Int
      BY DEF Threads, SEVERE
    <2>7. e.call[Setter].pc = "idle"
      BY <1>5, <2>3, <2>6 DEF Sets
    <2> QED
      BY <2>1, <2>2, <2>3, <2>5, <2>6, <2>7, CalledKept
  <1> QED
    BY <1>3, <1>4, <1>5 DEF SetLogFile

(* setLogFile then closes the old file, sets the new one, then the type. *)
LEMMA SetStepsKept ==
  ASSUME LogKept(bench), CloseOld \/ SetFile \/ SetType \/ SetFailed
  PROVE  LogKept(bench')
  <1>0. bench.is = "logger"
    BY DEF CloseOld, SetFile, SetType, SetFailed, On
  <1>1. /\ bench \in Logs /\ FilesOpen(bench) /\ bench.opened \in Nat /\ bench.file \in Nat
        /\ bench.open \in SUBSET Nat /\ bench.set \in SetPlaces /\ bench.set.file \in Nat
    BY <1>0 DEF LogKept, Logs, SetPlaces
  <1>2. ASSUME bench.set.pc \notin {"idle", "failed"}, NEW t \in Threads,
               bench.call[t].pc \notin {"idle", "written"}
        PROVE  bench.call[t].during
    <2>1. Undisturbed(bench, t)
      BY <1>0, LoggerKept
    <2> QED
      BY <1>2, <2>1 DEF Undisturbed
  <1>3. CASE CloseOld
    <2>1. /\ bench.set.pc = "close" /\ bench' \in Logs /\ bench'.call = bench.call
          /\ bench'.holder = bench.holder /\ bench'.msgBuf = bench.msgBuf /\ bench'.lines = bench.lines
      BY <1>1, <1>3 DEF CloseOld, Logs
    <2>2. /\ bench'.set.pc = "file" /\ bench'.set.file = bench.set.file
          /\ bench'.open = bench.open \ {bench.file} /\ bench'.opened = bench.opened
          /\ bench'.file = bench.file
      BY <1>1, <1>3 DEF CloseOld, Logs, SetPlaces
    <2>3. Sets(bench, bench')
      BY <1>2, <2>1 DEF Sets
    <2>4. FilesOpen(bench')
      BY <1>1, <2>1, <2>2 DEF FilesOpen
    <2> QED
      BY <1>0, <2>3, <2>4, SetsKept
  <1>4. CASE SetFile
    <2>1. /\ bench.set.pc = "file" /\ bench' \in Logs /\ bench'.call = bench.call
          /\ bench'.holder = bench.holder /\ bench'.msgBuf = bench.msgBuf /\ bench'.lines = bench.lines
      BY <1>1, <1>4 DEF SetFile, Logs, SetPlaces
    <2>2. /\ bench'.set.pc = "type" /\ bench'.set.file = bench.set.file
          /\ bench'.open = bench.open /\ bench'.opened = bench.opened /\ bench'.file = bench.set.file
      BY <1>1, <1>4 DEF SetFile, Logs, SetPlaces
    <2>3. Sets(bench, bench')
      BY <1>2, <2>1 DEF Sets
    <2>4. FilesOpen(bench')
      BY <1>1, <2>1, <2>2 DEF FilesOpen
    <2> QED
      BY <1>0, <2>3, <2>4, SetsKept
  <1>5. CASE SetType
    <2> DEFINE s == [pc |-> "idle", to |-> "nowhere", file |-> 0]
               k == CASE bench.set.to = "null" -> "null" [] bench.set.to = "syslog" -> "syslog"
                      [] OTHER -> "local"
    <2>0. s \in SetPlaces /\ s.pc = "idle" /\ s.file = 0 /\ k \in Kinds
      BY DEF SetPlaces, Kinds
    <2>1. bench.set.pc = "type" /\ bench' = [bench EXCEPT !.set = s, !.type = k]
      BY <1>5 DEF SetType
    <2> HIDE DEF s, k
    <2>2. /\ bench' \in Logs /\ bench'.call = bench.call /\ bench'.set = s
          /\ bench'.holder = bench.holder /\ bench'.msgBuf = bench.msgBuf /\ bench'.lines = bench.lines
          /\ bench'.open = bench.open /\ bench'.opened = bench.opened /\ bench'.file = bench.file
      BY <1>1, <2>0, <2>1 DEF Logs, SetPlaces
    <2>3. Sets(bench, bench')
      BY <1>2, <2>1, <2>2 DEF Sets
    <2>4. FilesOpen(bench')
      BY <1>1, <2>0, <2>1, <2>2 DEF FilesOpen
    <2> QED
      BY <1>0, <2>3, <2>4, SetsKept
  <1>6. CASE SetFailed
    <2> DEFINE s == [pc |-> "idle", to |-> "nowhere", file |-> 0]
    <2>0. s \in SetPlaces /\ s.pc = "idle" /\ s.file = 0
      BY DEF SetPlaces
    <2>1. bench.set.pc = "failed" /\ bench' = [bench EXCEPT !.set = s]
      BY <1>6 DEF SetFailed
    <2> HIDE DEF s
    <2>2. /\ bench' \in Logs /\ bench'.call = bench.call /\ bench'.set = s
          /\ bench'.holder = bench.holder /\ bench'.msgBuf = bench.msgBuf /\ bench'.lines = bench.lines
          /\ bench'.open = bench.open /\ bench'.opened = bench.opened /\ bench'.file = bench.file
          /\ bench'.type = bench.type
      BY <1>1, <2>0, <2>1 DEF Logs, SetPlaces
    <2>3. Configured(bench') = Configured(bench)
      BY <2>2 DEF Configured
    <2>4. Sets(bench, bench')
      BY <2>0, <2>2, <2>3 DEF Sets
    <2>5. FilesOpen(bench')
      BY <1>1, <2>0, <2>1, <2>2 DEF FilesOpen
    <2> QED
      BY <1>0, <2>4, <2>5, SetsKept
  <1> QED
    BY <1>3, <1>4, <1>5, <1>6

(* A logger as a program starts with it. *)
LEMMA NewLoggerKept ==
  ASSUME NewLogger
  PROVE  LogKept(bench')
  <1> DEFINE idle == [pc |-> "idle", level |-> 0, to |-> <<>>, during |-> FALSE, at |-> <<>>]
             s == [pc |-> "idle", to |-> "nowhere", file |-> 0]
             calls == [t \in Threads |-> idle]
             none == <<>>
  <1>1. bench' = [is |-> "logger", holder |-> {}, type |-> "local", file |-> 0, open |-> {},
                  opened |-> 0, msgBuf |-> none, lines |-> none, call |-> calls, set |-> s, sets |-> 0]
    BY DEF NewLogger, PutOn
  <1>2. idle \in Calls /\ idle.pc = "idle" /\ ~idle.during
    BY StagesNamed DEF Calls
  <1>3. s \in SetPlaces /\ s.pc = "idle" /\ s.file = 0
    BY DEF SetPlaces
  <1>4. none \in Seq(Threads) /\ none \in Seq(Written) /\ DOMAIN none = {}
    OBVIOUS
  <1> HIDE DEF idle, s, none
  <1>5. calls \in [Threads -> Calls] /\ \A t \in Threads : calls[t] = idle
    BY <1>2
  <1> HIDE DEF calls
  <1>6. "local" \in Kinds /\ {} \in SUBSET Threads /\ {} \in SUBSET Nat /\ 0 \in Nat
    BY DEF Kinds
  <1>7. /\ bench'.is = "logger" /\ bench'.holder = {} /\ bench'.file = 0 /\ bench'.open = {}
        /\ bench'.opened = 0 /\ bench'.lines = none /\ bench'.call = calls /\ bench'.set = s
    BY <1>1
  <1>8. bench' \in Logs
    BY <1>1, <1>3, <1>4, <1>5, <1>6 DEF Logs, SetPlaces
  <1>9. FilesOpen(bench')
    BY <1>3, <1>7 DEF FilesOpen
  <1>10. ASSUME NEW t \in Threads
         PROVE  OneWriter(bench', t) /\ Undisturbed(bench', t) /\ OneLine(bench', t)
    <2>1. bench'.call[t] = idle /\ Mine(bench', t) = {}
      BY <1>4, <1>5, <1>7 DEF Mine
    <2>2. OneWriter(bench', t)
      BY <1>2, <1>7, <2>1 DEF OneWriter, Within
    <2> QED
      BY <1>2, <2>1, <2>2 DEF Undisturbed, OneLine
  <1> QED
    BY <1>8, <1>9, <1>10 DEF LogKept

(* The logger, in a library that does anything else as well. *)
LogSpec == bench = NothingThere /\ [][LoggingNext \/ Elsewhere({"logger"})]_bench

(* The parts of the invariant hold throughout. *)
LEMMA LogHolds == LogSpec => []LogKept(bench)
  <1>1. bench = NothingThere => LogKept(bench)
    BY DEF NothingThere, LogKept
  <1>2. LogKept(bench) /\ [LoggingNext \/ Elsewhere({"logger"})]_bench => LogKept(bench)'
    <2> SUFFICES ASSUME LogKept(bench), LoggingNext \/ Elsewhere({"logger"}) \/ UNCHANGED bench
                 PROVE  LogKept(bench')
      OBVIOUS
    <2>1. CASE UNCHANGED bench
      BY <2>1
    <2>2. CASE Elsewhere({"logger"})
      BY <2>2 DEF Elsewhere, LogKept
    <2>3. CASE Quiet
      <3>1. bench'.is = "nothing"
        BY <2>3 DEF Quiet, NothingThere
      <3> QED
        BY <3>1 DEF LogKept
    <2>4. ASSUME NEW t \in Threads, Log(t) PROVE LogKept(bench')
      <3>1. PICK level \in {LogLevel, LogLevel + 1} : bench' = Called(bench, t, level)
        BY <2>4 DEF Log
      <3>2. level \in Int /\ bench.is = "logger" /\ bench.call[t].pc = "idle" /\ t # Setter
        BY <2>4, LevelAssumption, SetterAssumption DEF Log, CallAt, On
      <3> QED
        BY <3>1, <3>2, CalledKept
    <2> QED
      BY <2>1, <2>2, <2>3, <2>4, NewLoggerKept, SetLogFileKept, SetStepsKept, BeforeMutex,
         MutexMoves, BufferMoves, WriteMoves DEF LoggingNext
  <1> QED
    BY <1>1, <1>2, PTL DEF LogSpec

(* What is written is whole messages of one thread each, at most one a call. *)
THEOREM LoggedWhole == LogSpec => []LinesWhole
  <1>1. LogKept(bench) => LinesWhole
    <2> SUFFICES ASSUME LogKept(bench), On("logger")
                 PROVE  LinesWhole
      BY DEF LinesWhole
    <2>1. bench.is = "logger"
      BY DEF On
    <2>2. FilesOpen(bench) /\ bench.opened \in Nat /\ bench.file \in Nat
      BY <2>1 DEF LogKept, Logs
    <2>3. bench.file = 0 \/ bench.file \in bench.open \/ bench.set.pc # "idle"
      BY <2>2 DEF FilesOpen
    <2>4. bench.open \subseteq {bench.file, bench.set.file}
      BY <2>2 DEF FilesOpen
    <2>5. ASSUME NEW t \in Threads
          PROVE  LET c == bench.call[t]
                     mine == {k \in DOMAIN bench.lines : bench.lines[k].by = t}
                     due == IF c.at[1] = "syslog" THEN <<Priority(c.level), 0>> ELSE c.at
                 IN /\ Cardinality(mine) <= 1
                    /\ \A k \in mine : bench.lines[k].text = <<t, t>> /\ c.level <= LogLevel
                    /\ c.pc = "written" /\ c.level <= LogLevel /\ ~c.during /\ c.at[1] # "null" =>
                         \E k \in mine : bench.lines[k].to = due
                    /\ c.pc \in {"localtime", "prefix", "message", "where", "which", "write", "unlock"} <=>
                         bench.holder = {t}
      <3>1. OneWriter(bench, t) /\ OneLine(bench, t)
        BY <2>1, LoggerKept
      <3>2. Cardinality(Mine(bench, t)) <= 1
        <4>1. Mine(bench, t) = {} \/ \E k \in DOMAIN bench.lines : Mine(bench, t) = {k}
          BY <3>1 DEF OneLine
        <4>2. ASSUME NEW k \in DOMAIN bench.lines, Mine(bench, t) = {k}
              PROVE  Cardinality(Mine(bench, t)) = 1
          BY <4>2, FS_Singleton
        <4>3. CASE Mine(bench, t) = {}
          <5>1. Cardinality(Mine(bench, t)) = 0
            BY <4>3, FS_EmptySet
          <5> QED
            BY <5>1
        <4>4. CASE \E k \in DOMAIN bench.lines : Mine(bench, t) = {k}
          <5>1. Cardinality(Mine(bench, t)) = 1
            BY <4>2, <4>4
          <5> QED
            BY <5>1
        <4> QED
          BY <4>1, <4>3, <4>4
      <3>3. \A k \in Mine(bench, t) : bench.lines[k].text = <<t, t>> /\ bench.call[t].level <= LogLevel
        BY <3>1 DEF OneLine
      <3>4. bench.call[t].pc = "written" /\ bench.call[t].level <= LogLevel
              /\ ~bench.call[t].during /\ bench.call[t].at[1] # "null" =>
                 \E k \in Mine(bench, t) : bench.lines[k].to = Due(bench.call[t])
        BY <3>1 DEF OneLine
      <3>5. bench.call[t].pc \in Within <=> bench.holder = {t}
        BY <3>1 DEF OneWriter
      <3> QED
        BY <3>2, <3>3, <3>4, <3>5 DEF Mine, Due, Within
    <2> QED
      BY <2>3, <2>4, <2>5 DEF LinesWhole
  <1> QED
    BY <1>1, LogHolds, PTL

-----------------------------------------------------------------------------
(* The temporary files and the pipes of the external programs *)

(* Where a call of exec_func is. *)
Stops ==
  {"idle", "mkstemp-in", "mkstemp-out", "write", "system", "read", "unlink-in", "unlink-out",
   "pipe", "read-pipe", "evaluated"}

(* As many names of temporary files as can ever be needed at a time. *)
TempNames == 1 .. 2 * Cardinality(Callers)

(* What can be in a file. *)
Texts == {<<"empty">>} \cup {<<"inputs", n>> : n \in Nat} \cup UNION {Lines(n) : n \in Nat}

(* The temporary files and their contents. *)
Filings == UNION {[D -> Texts] : D \in SUBSET TempNames}

(* What is in a pipe; nothing before the program has run. *)
Pipes == Texts \cup {<<>>}

(* How a program ended, and the line that it left. *)
ProgramEnds == (Statuses \X Texts) \cup {<<>>}

(* The value that was parsed, if any. *)
Values == {<<n>> : n \in Nat} \cup {<<>>}

(* What a call can tell. *)
Messages == {"none", "the-line", "note", "unknown-evaluation-failure", "unknown-error", "success"}

(* The records of the calls of external programs. *)
Progs ==
  [is : {"programs"}, files : Filings, calls : Nat, pc : [Callers -> Stops], x : [Callers -> Nat],
   infile : [Callers -> Nat], outfile : [Callers -> Nat], pipe : [Callers -> Pipes],
   ran : [Callers -> ProgramEnds], f : [Callers -> Values], msg : [Callers -> Messages]]

(* The temporary files of a call. *)
Having(b, t) ==
  CASE b.pc[t] \in {"write", "system", "read", "unlink-in"} -> {b.infile[t], b.outfile[t]}
    [] b.pc[t] = "mkstemp-out" -> {b.infile[t]}
    [] b.pc[t] = "unlink-out" -> {b.outfile[t]}
    [] OTHER -> {}

(* The program of t has ended, and left this line. *)
Ran(b, t) == b.ran[t][1] \in Statuses /\ b.ran[t][2] \in Lines(b.x[t])

(* What is to be parsed from the line of the program of t. *)
Answer(b, t) == Parsed(b.ran[t][2], StatusOf(b.ran[t][1]), <<>>)

(* What a call has got so far is of its own point. *)
OwnSoFar(b, t) ==
  /\ b.pc[t] \in {"write", "system", "read", "unlink-in"} => b.infile[t] # b.outfile[t]
  /\ b.pc[t] = "system" => b.files[b.infile[t]] = <<"inputs", b.x[t]>>
  /\ b.pc[t] \notin {"idle", "unlink-in", "unlink-out", "evaluated"} => b.f[t] = <<>>
  /\ b.pc[t] \in {"read", "read-pipe", "unlink-in", "unlink-out", "evaluated"} => Ran(b, t)
  /\ b.pc[t] = "read" => b.files[b.outfile[t]] = b.ran[t][2]
  /\ b.pc[t] = "read-pipe" => b.pipe[t] = b.ran[t][2]
  /\ b.pc[t] \in {"unlink-in", "unlink-out"} => b.f[t] = Answer(b, t)[1] /\ b.msg[t] = Answer(b, t)[2]
  /\ b.pc[t] = "evaluated" =>
       b.f[t] = Answer(b, t)[1] /\ b.msg[t] = ExecMsg(Answer(b, t)[1], Answer(b, t)[2])

(* The inductive invariant: no two calls have a file in common, and each is of its own point. *)
ProgramsKept(b) ==
  b.is = "programs" =>
    /\ b \in Progs
    /\ DOMAIN b.files = UNION {Having(b, t) : t \in Callers}
    /\ \A t, u \in Callers : t # u => Having(b, t) \cap Having(b, u) = {}
    /\ \A t \in Callers : OwnSoFar(b, t)

(* The places of a call of exec_func. *)
LEMMA StopsNamed ==
  /\ "idle" \in Stops /\ "mkstemp-in" \in Stops /\ "mkstemp-out" \in Stops /\ "write" \in Stops
  /\ "system" \in Stops /\ "read" \in Stops /\ "unlink-in" \in Stops /\ "unlink-out" \in Stops
  /\ "pipe" \in Stops /\ "read-pipe" \in Stops /\ "evaluated" \in Stops
  BY DEF Stops

(* The order of the naturals as a set of pairs, for the induction below. *)
Below == {p \in Nat \X Nat : p[1] < p[2]}

(* It is the relation that the library calls well-founded. *)
LEMMA BelowIs == Below = OpToRel(<, Nat)
  BY DEF Below, OpToRel

(* A set of naturals has a least member: mkstemp takes a name that is free. *)
LEMMA LeastIn ==
  ASSUME NEW T, T \subseteq Nat, T # {}
  PROVE  Min(T) \in T
  <1>1. IsWellFoundedOn(Below, Nat)
    BY NatLessThanWellFounded, BelowIs, Zenon
  <1>2. PICK m \in T : \A k \in T : ~(<<k, m>> \in Below)
    BY <1>1, WFMin
  <1>3. \A k \in T : ~(k < m)
    BY <1>2 DEF Below
  <1>4. \A k \in T : m <= k
    BY <1>3
  <1> QED
    BY <1>4 DEF Min

(* As many names as there are callers for f, at most. *)
LEMMA NamesOf ==
  ASSUME NEW S, IsFiniteSet(S), NEW g
  PROVE  /\ IsFiniteSet({g[u] : u \in S})
         /\ Cardinality({g[u] : u \in S}) <= Cardinality(S)
  <1> DEFINE T == {g[u] : u \in S}
             h == [u \in S |-> g[u]]
  <1>1. h \in Surjection(S, T)
    BY DEF Surjection
  <1> QED
    BY <1>1, FS_Surjection

(* Callers with at most two files each leave a name. *)
LEMMA FewNames ==
  ASSUME NEW A, NEW B, NEW n \in Nat, IsFiniteSet(A), IsFiniteSet(B),
         Cardinality(A) <= n, Cardinality(B) < n
  PROVE  (1 .. 2 * n) \ (A \cup B) # {}
  <1> DEFINE U == A \cup B
             S == 1 .. 2 * n
  <1>1. IsFiniteSet(U) /\ Cardinality(U) = Cardinality(A) + Cardinality(B) - Cardinality(A \cap B)
    BY FS_Union
  <1>2. IsFiniteSet(A \cap B)
    BY FS_Intersection
  <1>3. Cardinality(A \cap B) \in Nat
    BY <1>2, FS_CardinalityType
  <1>4. Cardinality(A) \in Nat /\ Cardinality(B) \in Nat
    BY FS_CardinalityType
  <1>5. Cardinality(U) < 2 * n /\ Cardinality(U) \in Int
    <2> HIDE DEF U
    <2> QED
      BY <1>1, <1>3, <1>4
  <1>6. IsFiniteSet(S) /\ Cardinality(S) = 2 * n
    <2>1. 1 \in Int /\ 2 * n \in Int
      OBVIOUS
    <2>2. IsFiniteSet(1 .. 2 * n) /\ Cardinality(1 .. 2 * n) = IF 1 > 2 * n THEN 0 ELSE 2 * n - 1 + 1
      BY <2>1, FS_Interval
    <2> QED
      BY <2>2
  <1> HIDE DEF S, U
  <1>7. S \in SUBSET U => Cardinality(S) <= Cardinality(U)
    BY <1>1, FS_Subset
  <1>8. ~(S \subseteq U)
    BY <1>5, <1>6, <1>7
  <1>9. S \ U # {}
    BY <1>8
  <1> QED
    BY <1>9 DEF S, U

(* mkstemp finds a name that no file has. *)
LEMMA NameLeft ==
  ASSUME NEW b, b.is = "programs", ProgramsKept(b), NEW t \in Callers,
         b.pc[t] \in {"mkstemp-in", "mkstemp-out"}
  PROVE  MkStemp(b.files) \in TempNames \ DOMAIN b.files
  <1> DEFINE In == {b.infile[u] : u \in Callers}
             Rest == Callers \ {t}
             Out == {b.outfile[u] : u \in Rest}
  <1>0. Cardinality(Callers) \in Nat
    BY CallersAssumption, FS_CardinalityType
  <1>1. PICK N \in Nat : N = Cardinality(Callers)
    BY <1>0
  <1>2. IsFiniteSet(Rest) /\ Cardinality(Rest) = N - 1
    BY <1>1, CallersAssumption, FS_RemoveElement
  <1>3. IsFiniteSet(In) /\ Cardinality(In) <= N
    BY <1>1, CallersAssumption, NamesOf
  <1>4. IsFiniteSet(Out) /\ Cardinality(Out) < N
    <2> HIDE DEF Rest
    <2>1. IsFiniteSet(Out) /\ Cardinality(Out) <= Cardinality(Rest)
      BY <1>2, NamesOf
    <2>2. IsFiniteSet(Out) => Cardinality(Out) \in Nat
      BY FS_CardinalityType
    <2> HIDE DEF Out, In
    <2>3. Cardinality(Rest) = N - 1 /\ Cardinality(Out) <= Cardinality(Rest) /\ Cardinality(Out) \in Nat
      BY <1>2, <2>1, <2>2
    <2>4. Cardinality(Out) < N
      BY <1>1, <2>3
    <2> QED
      BY <2>1, <2>4
  <1>5. DOMAIN b.files \subseteq In \cup Out
    <2>1. ASSUME NEW u \in Callers, NEW n \in Having(b, u) PROVE n \in In \cup Out
      <3>1. CASE u = t
        <4>1. n = b.infile[t]
          BY <2>1, <3>1 DEF Having
        <4> QED
          BY <4>1
      <3>2. CASE u # t
        <4>1. n \in {b.infile[u], b.outfile[u]}
          BY <2>1 DEF Having
        <4> QED
          BY <3>2, <4>1
      <3> QED
        BY <3>1, <3>2
    <2>2. DOMAIN b.files = UNION {Having(b, u) : u \in Callers}
      BY DEF ProgramsKept
    <2> HIDE DEF In, Out
    <2> QED
      BY <2>1, <2>2
  <1> HIDE DEF In, Out, Rest
  <1>6. (1 .. 2 * N) \ (In \cup Out) # {} /\ 1 .. 2 * N \subseteq Nat
    <2>1. (1 .. 2 * N) \ (In \cup Out) # {}
      BY <1>3, <1>4, FewNames
    <2>2. 1 .. 2 * N \subseteq Nat
      BY <1>1
    <2> QED
      BY <2>1, <2>2
  <1>7. TempNames = 1 .. 2 * N
    BY <1>1 DEF TempNames
  <1>8. TempNames \ DOMAIN b.files # {}
    BY <1>5, <1>6, <1>7
  <1>9. TempNames \subseteq Nat
    BY <1>6, <1>7
  <1>10. MkStemp(b.files) = Min(TempNames \ DOMAIN b.files)
    BY DEF MkStemp, TempNames
  <1> QED
    BY <1>8, <1>9, <1>10, LeastIn

(* A file more. *)
LEMMA FilingAdded ==
  ASSUME NEW g \in Filings, NEW n \in TempNames \ DOMAIN g
  PROVE  LET h == Created(g, n)
         IN /\ h \in Filings /\ DOMAIN h = DOMAIN g \cup {n}
            /\ \A k \in DOMAIN g : h[k] = g[k]
  <1>1. PICK D \in SUBSET TempNames : g \in [D -> Texts]
    BY DEF Filings
  <1> DEFINE e == <<"empty">>
             h == [k \in D \cup {n} |-> IF k = n THEN e ELSE g[k]]
  <1>2. e \in Texts
    BY DEF Texts
  <1>3. Created(g, n) = h
    BY <1>1 DEF Created
  <1> HIDE DEF e
  <1>4. h \in [D \cup {n} -> Texts] /\ D \cup {n} \in SUBSET TempNames
    BY <1>1, <1>2
  <1>5. h \in Filings
    BY <1>4 DEF Filings
  <1>6. DOMAIN h = DOMAIN g \cup {n} /\ \A k \in DOMAIN g : h[k] = g[k]
    BY <1>1
  <1> HIDE DEF h
  <1> QED
    BY <1>3, <1>5, <1>6

(* A file with another text. *)
LEMMA FilingSet ==
  ASSUME NEW g \in Filings, NEW n \in DOMAIN g, NEW x \in Texts
  PROVE  LET h == [g EXCEPT ![n] = x]
         IN h \in Filings /\ DOMAIN h = DOMAIN g /\ h[n] = x /\ \A k \in DOMAIN g \ {n} : h[k] = g[k]
  <1>1. PICK D \in SUBSET TempNames : g \in [D -> Texts]
    BY DEF Filings
  <1>2. [g EXCEPT ![n] = x] \in [D -> Texts]
    BY <1>1
  <1>3. [g EXCEPT ![n] = x] \in Filings
    BY <1>2 DEF Filings
  <1> QED
    BY <1>1, <1>2, <1>3

(* A file less. *)
LEMMA FilingRemoved ==
  ASSUME NEW g \in Filings, NEW n
  PROVE  LET h == [k \in DOMAIN g \ {n} |-> g[k]]
         IN h \in Filings /\ DOMAIN h = DOMAIN g \ {n} /\ \A k \in DOMAIN g \ {n} : h[k] = g[k]
  <1>1. PICK D \in SUBSET TempNames : g \in [D -> Texts]
    BY DEF Filings
  <1> DEFINE h == [k \in DOMAIN g \ {n} |-> g[k]]
  <1>2. h \in [D \ {n} -> Texts] /\ D \ {n} \in SUBSET TempNames
    BY <1>1
  <1>3. h \in Filings
    BY <1>2 DEF Filings
  <1> QED
    BY <1>3

(* From b to c only the call of t got on. *)
OnlyCall(b, c, t) ==
  /\ b.is = "programs" /\ b \in Progs /\ c \in Progs
  /\ \A u \in Callers : u # t =>
       /\ c.pc[u] = b.pc[u] /\ c.x[u] = b.x[u] /\ c.infile[u] = b.infile[u]
       /\ c.outfile[u] = b.outfile[u] /\ c.pipe[u] = b.pipe[u] /\ c.ran[u] = b.ran[u]
       /\ c.f[u] = b.f[u] /\ c.msg[u] = b.msg[u]

(* What holds of another call holds after a step of t that leaves its files alone. *)
LEMMA OtherCalls ==
  ASSUME NEW b, ProgramsKept(b), NEW c, NEW t \in Callers, OnlyCall(b, c, t), OwnSoFar(c, t),
         \A n \in DOMAIN b.files \ Having(b, t) : n \in DOMAIN c.files /\ c.files[n] = b.files[n],
         DOMAIN c.files = (DOMAIN b.files \ Having(b, t)) \cup Having(c, t),
         Having(c, t) \cap (DOMAIN b.files \ Having(b, t)) = {}
  PROVE  ProgramsKept(c)
  <1>1. /\ b.is = "programs" /\ b \in Progs /\ c \in Progs /\ DOMAIN b.files = UNION {Having(b, u) : u \in Callers}
        /\ \A u, v \in Callers : u # v => Having(b, u) \cap Having(b, v) = {}
        /\ \A u \in Callers : OwnSoFar(b, u)
    BY DEF ProgramsKept, OnlyCall
  <1>2. ASSUME NEW u \in Callers, u # t
        PROVE  /\ Having(c, u) = Having(b, u) /\ OwnSoFar(c, u)
               /\ Having(b, u) \subseteq DOMAIN b.files \ Having(b, t)
    <2>1. /\ c.pc[u] = b.pc[u] /\ c.x[u] = b.x[u] /\ c.infile[u] = b.infile[u]
          /\ c.outfile[u] = b.outfile[u] /\ c.pipe[u] = b.pipe[u] /\ c.ran[u] = b.ran[u]
          /\ c.f[u] = b.f[u] /\ c.msg[u] = b.msg[u]
      BY <1>2 DEF OnlyCall
    <2>2. Having(c, u) = Having(b, u)
      BY <2>1 DEF Having
    <2>3. Having(b, u) \subseteq DOMAIN b.files \ Having(b, t)
      BY <1>1, <1>2
    <2>4. \A n \in Having(b, u) : c.files[n] = b.files[n]
      BY <2>3
    <2>5. /\ b.pc[u] = "system" => b.infile[u] \in Having(b, u)
          /\ b.pc[u] = "read" => b.outfile[u] \in Having(b, u)
      BY DEF Having
    <2>6. Ran(c, u) <=> Ran(b, u)
      BY <2>1 DEF Ran
    <2>7. Answer(c, u) = Answer(b, u)
      BY <2>1 DEF Answer
    <2>8. OwnSoFar(b, u)
      BY <1>1
    <2>9. OwnSoFar(c, u)
      BY <2>1, <2>4, <2>5, <2>6, <2>7, <2>8 DEF OwnSoFar
    <2> QED
      BY <2>2, <2>3, <2>9
  <1> DEFINE Hb(u) == Having(b, u)
             Hc(u) == Having(c, u)
  <1>3. DOMAIN c.files = UNION {Hc(u) : u \in Callers}
    <2>1. \A n : n \in DOMAIN b.files \ Having(b, t) <=>
            \E u \in Callers : u # t /\ n \in Having(b, u)
      BY <1>1, <1>2
    <2>2. \A n : n \in DOMAIN c.files <=> \E u \in Callers : n \in Having(c, u)
      BY <1>2, <2>1
    <2> QED
      BY <2>2
  <1>4. ASSUME NEW u \in Callers, NEW v \in Callers, u # v
        PROVE  Having(c, u) \cap Having(c, v) = {}
    BY <1>1, <1>2, <1>4
  <1>5. \A u \in Callers : OwnSoFar(c, u)
    BY <1>2
  <1> QED
    BY <1>1, <1>3, <1>4, <1>5 DEF ProgramsKept

(* What the call of one thread is made of, in any record of the calls. *)
LEMMA CallFields ==
  ASSUME NEW b \in Progs, NEW t \in Callers
  PROVE  /\ b.files \in Filings /\ b.calls \in Nat /\ b.x[t] \in Nat /\ b.infile[t] \in Nat
         /\ b.outfile[t] \in Nat /\ b.f[t] \in Values /\ b.msg[t] \in Messages
         /\ DOMAIN b.files \subseteq TempNames
  <1>1. DOMAIN b.files \subseteq TempNames
    BY DEF Progs, Filings
  <1> QED
    BY <1>1 DEF Progs

(* A line is a text. *)
LEMMA LineTexts ==
  ASSUME NEW n \in Nat, NEW line \in Lines(n)
  PROVE  line \in Texts
  BY DEF Texts

(* What a call starts with. *)
LEMMA NothingYet == <<>> \in Pipes /\ <<>> \in ProgramEnds /\ <<>> \in Values /\ "none" \in Messages
  BY DEF Pipes, ProgramEnds, Values, Messages

(* From b to c thread t got to place, and was given n, v, m and r. *)
Given(b, c, t, place, n, v, m, r) ==
  /\ c \in Progs /\ c.files = b.files
  /\ c.pc = [b.pc EXCEPT ![t] = place] /\ c.x = [b.x EXCEPT ![t] = n]
  /\ c.f = [b.f EXCEPT ![t] = v] /\ c.msg = [b.msg EXCEPT ![t] = m]
  /\ c.ran = [b.ran EXCEPT ![t] = r] /\ c.infile = b.infile
  /\ c.outfile = b.outfile /\ c.pipe = b.pipe

(* A call that starts, as exec_func and pipe_func set it up. *)
Began(b, t, place, n, k, v, m, r) ==
  [b EXCEPT !.pc[t] = place, !.x[t] = n, !.calls = k, !.f[t] = v, !.msg[t] = m, !.ran[t] = r]

(* It is what Given says. *)
LEMMA BeganFields ==
  ASSUME NEW b \in Progs, NEW t \in Callers, NEW place \in Stops, NEW n \in Nat, NEW k \in Nat,
         NEW v \in Values, NEW m \in Messages, NEW r \in ProgramEnds
  PROVE  Given(b, Began(b, t, place, n, k, v, m, r), t, place, n, v, m, r)
  <1> DEFINE c == Began(b, t, place, n, k, v, m, r)
  <1>1. /\ c.files = b.files
        /\ c.pc = [b.pc EXCEPT ![t] = place] /\ c.x = [b.x EXCEPT ![t] = n]
        /\ c.f = [b.f EXCEPT ![t] = v] /\ c.msg = [b.msg EXCEPT ![t] = m]
        /\ c.ran = [b.ran EXCEPT ![t] = r] /\ c.infile = b.infile
        /\ c.outfile = b.outfile /\ c.pipe = b.pipe
    BY DEF Progs, Began
  <1>2. c \in Progs
    BY DEF Progs, Began
  <1> QED
    BY <1>1, <1>2 DEF Given

(* exec_func or pipe_func is called. *)
LEMMA CallKept ==
  ASSUME ProgramsKept(bench), NEW t \in Callers, ExecFunc(t) \/ PExecFunc(t)
  PROVE  ProgramsKept(bench')
  <1> DEFINE none == <<>>
             blank == "none"
             next == bench.calls + 1
  <1>1. PICK place \in {"mkstemp-in", "pipe"} : Call(t, place)
    BY DEF ExecFunc, PExecFunc
  <1>2. /\ bench.is = "programs" /\ bench \in Progs /\ bench.pc[t] = "idle"
        /\ bench' = [bench EXCEPT !.pc[t] = place, !.x[t] = next, !.calls = next,
                                  !.f[t] = none, !.msg[t] = blank, !.ran[t] = none]
    BY <1>1 DEF Call, CallerAt, On, ProgramsKept
  <1>3. next \in Nat /\ place \in Stops /\ none \in Values /\ none \in ProgramEnds /\ blank \in Messages
    BY <1>1, <1>2, CallFields, StopsNamed, NothingYet
  <1>4. none = <<>>
    OBVIOUS
  <1> HIDE DEF none, blank, next
  <1>5. /\ bench'.pc = [bench.pc EXCEPT ![t] = place] /\ bench'.x = [bench.x EXCEPT ![t] = next]
        /\ bench'.f = [bench.f EXCEPT ![t] = none] /\ bench'.msg = [bench.msg EXCEPT ![t] = blank]
        /\ bench'.ran = [bench.ran EXCEPT ![t] = none] /\ bench'.infile = bench.infile
        /\ bench'.outfile = bench.outfile /\ bench'.pipe = bench.pipe /\ bench'.files = bench.files
        /\ bench' \in Progs
    <2>1. bench' = Began(bench, t, place, next, next, none, blank, none)
      BY <1>2 DEF Began
    <2>2. bench \in Progs
      BY <1>2
    <2>3. next \in Nat /\ place \in Stops /\ none \in Values /\ none \in ProgramEnds /\ blank \in Messages
      BY <1>3
    <2> QED
      BY <2>1, <2>2, <2>3, BeganFields DEF Given
  <1>6. bench'.pc[t] = place /\ bench'.f[t] = none
    BY <1>2, <1>5 DEF Progs
  <1>7. OnlyCall(bench, bench', t)
    BY <1>2, <1>5 DEF OnlyCall
  <1>8. Having(bench, t) = {} /\ Having(bench', t) = {}
    BY <1>1, <1>2, <1>6 DEF Having
  <1>9. OwnSoFar(bench', t)
    BY <1>1, <1>4, <1>6 DEF OwnSoFar
  <1> QED
    BY <1>5, <1>7, <1>8, <1>9, OtherCalls

(* mkstemp makes the input file. *)
LEMMA MakeInfileKept ==
  ASSUME ProgramsKept(bench), NEW t \in Callers, MakeInfile(t)
  PROVE  ProgramsKept(bench')
  <1>1. bench.is = "programs" /\ bench \in Progs /\ bench.pc[t] = "mkstemp-in" /\ OwnSoFar(bench, t)
    BY DEF MakeInfile, CallerAt, On, ProgramsKept
  <1>2. PICK name \in TempNames \ DOMAIN bench.files :
          bench' = [bench EXCEPT !.files = Created(bench.files, name), !.infile[t] = name,
                                 !.pc[t] = "mkstemp-out"]
    BY <1>1, NameLeft DEF MakeInfile
  <1>3. /\ Created(bench.files, name) \in Filings
        /\ DOMAIN Created(bench.files, name) = DOMAIN bench.files \cup {name}
        /\ \A k \in DOMAIN bench.files : Created(bench.files, name)[k] = bench.files[k]
        /\ bench.files \in Filings
    BY <1>1, <1>2, FilingAdded, CallFields
  <1>4. name \in Nat /\ name \notin DOMAIN bench.files
    BY <1>2, CallersAssumption, FS_CardinalityType DEF TempNames
  <1>5. /\ bench'.pc = [bench.pc EXCEPT ![t] = "mkstemp-out"]
        /\ bench'.infile = [bench.infile EXCEPT ![t] = name] /\ bench'.files = Created(bench.files, name)
        /\ bench'.f = bench.f /\ bench'.x = bench.x /\ bench'.msg = bench.msg /\ bench'.ran = bench.ran
        /\ bench'.outfile = bench.outfile /\ bench'.pipe = bench.pipe /\ bench' \in Progs
    BY <1>1, <1>2, <1>3, <1>4, StopsNamed DEF Progs
  <1>6. bench'.pc[t] = "mkstemp-out" /\ bench'.infile[t] = name
    BY <1>1, <1>5 DEF Progs
  <1>7. OnlyCall(bench, bench', t)
    BY <1>1, <1>5 DEF OnlyCall, Progs
  <1>8. Having(bench, t) = {} /\ Having(bench', t) = {name}
    BY <1>1, <1>6 DEF Having
  <1>9. OwnSoFar(bench', t)
    BY <1>1, <1>5, <1>6 DEF OwnSoFar
  <1> QED
    BY <1>3, <1>4, <1>5, <1>7, <1>8, <1>9, OtherCalls

(* mkstemp makes the output file. *)
LEMMA MakeOutfileKept ==
  ASSUME ProgramsKept(bench), NEW t \in Callers, MakeOutfile(t)
  PROVE  ProgramsKept(bench')
  <1>1. /\ bench.is = "programs" /\ bench \in Progs /\ bench.pc[t] = "mkstemp-out" /\ OwnSoFar(bench, t)
        /\ DOMAIN bench.files = UNION {Having(bench, u) : u \in Callers}
    BY DEF MakeOutfile, CallerAt, On, ProgramsKept
  <1>2. PICK name \in TempNames \ DOMAIN bench.files :
          bench' = [bench EXCEPT !.files = Created(bench.files, name), !.outfile[t] = name,
                                 !.pc[t] = "write"]
    BY <1>1, NameLeft DEF MakeOutfile
  <1>3. /\ Created(bench.files, name) \in Filings
        /\ DOMAIN Created(bench.files, name) = DOMAIN bench.files \cup {name}
        /\ \A k \in DOMAIN bench.files : Created(bench.files, name)[k] = bench.files[k]
        /\ bench.files \in Filings
    BY <1>1, <1>2, FilingAdded, CallFields
  <1>4. name \in Nat /\ name \notin DOMAIN bench.files
    BY <1>2, CallersAssumption, FS_CardinalityType DEF TempNames
  <1>5. /\ bench'.pc = [bench.pc EXCEPT ![t] = "write"]
        /\ bench'.outfile = [bench.outfile EXCEPT ![t] = name] /\ bench'.files = Created(bench.files, name)
        /\ bench'.f = bench.f /\ bench'.x = bench.x /\ bench'.msg = bench.msg /\ bench'.ran = bench.ran
        /\ bench'.infile = bench.infile /\ bench'.pipe = bench.pipe /\ bench' \in Progs
    BY <1>1, <1>2, <1>3, <1>4, StopsNamed DEF Progs
  <1>6. bench'.pc[t] = "write" /\ bench'.outfile[t] = name /\ bench'.infile[t] = bench.infile[t]
    BY <1>1, <1>5 DEF Progs
  <1>7. OnlyCall(bench, bench', t)
    BY <1>1, <1>5 DEF OnlyCall, Progs
  <1>8. Having(bench, t) = {bench.infile[t]} /\ Having(bench', t) = {bench.infile[t], name}
    BY <1>1, <1>6 DEF Having
  <1>9. bench.infile[t] \in DOMAIN bench.files
    BY <1>1, <1>8
  <1>10. OwnSoFar(bench', t)
    BY <1>1, <1>4, <1>5, <1>6, <1>9 DEF OwnSoFar
  <1> QED
    BY <1>3, <1>4, <1>5, <1>7, <1>8, <1>9, <1>10, OtherCalls

(* The inputs are written into the input file. *)
LEMMA WriteInputsKept ==
  ASSUME ProgramsKept(bench), NEW t \in Callers, WriteInputs(t)
  PROVE  ProgramsKept(bench')
  <1> DEFINE n == bench.infile[t]
             text == <<"inputs", bench.x[t]>>
             files == [bench.files EXCEPT ![n] = text]
  <1>1. /\ bench.is = "programs" /\ bench \in Progs /\ bench.pc[t] = "write" /\ OwnSoFar(bench, t)
        /\ DOMAIN bench.files = UNION {Having(bench, u) : u \in Callers}
        /\ bench' = [bench EXCEPT !.files = files, !.pc[t] = "system"]
    BY DEF WriteInputs, CallerAt, On, ProgramsKept
  <1>2. Having(bench, t) = {bench.infile[t], bench.outfile[t]}
    BY <1>1 DEF Having
  <1>3. n \in DOMAIN bench.files /\ bench.files \in Filings /\ text \in Texts
    BY <1>1, <1>2, CallFields DEF Texts
  <1> HIDE DEF text
  <1>4. /\ files \in Filings /\ DOMAIN files = DOMAIN bench.files /\ files[n] = text
        /\ \A k \in DOMAIN bench.files \ {n} : files[k] = bench.files[k]
    BY <1>3, FilingSet
  <1> HIDE DEF files
  <1>5. /\ bench'.pc = [bench.pc EXCEPT ![t] = "system"]
        /\ bench'.outfile = bench.outfile /\ bench'.files = files
        /\ bench'.f = bench.f /\ bench'.x = bench.x /\ bench'.msg = bench.msg /\ bench'.ran = bench.ran
        /\ bench'.infile = bench.infile /\ bench'.pipe = bench.pipe /\ bench' \in Progs
    BY <1>1, <1>4, StopsNamed DEF Progs
  <1>6. bench'.pc[t] = "system"
    BY <1>1, <1>5 DEF Progs
  <1>7. OnlyCall(bench, bench', t)
    BY <1>1, <1>5 DEF OnlyCall, Progs
  <1>8. Having(bench', t) = Having(bench, t) /\ Having(bench, t) \subseteq DOMAIN bench.files
    BY <1>1, <1>2, <1>5, <1>6 DEF Having
  <1>9. bench'.files[bench'.infile[t]] = <<"inputs", bench'.x[t]>>
    BY <1>4, <1>5 DEF text
  <1>10. OwnSoFar(bench', t)
    BY <1>1, <1>5, <1>6, <1>9 DEF OwnSoFar
  <1> QED
    BY <1>2, <1>4, <1>5, <1>7, <1>8, <1>10, OtherCalls

(* system() runs the program on the two files. *)
LEMMA RunProgramKept ==
  ASSUME ProgramsKept(bench), NEW t \in Callers, NEW end \in Statuses, RunProgram(t, end)
  PROVE  ProgramsKept(bench')
  <1>1. /\ bench.is = "programs" /\ bench \in Progs /\ bench.pc[t] = "system" /\ OwnSoFar(bench, t)
        /\ DOMAIN bench.files = UNION {Having(bench, u) : u \in Callers}
    BY DEF RunProgram, CallerAt, On, ProgramsKept
  <1>2. Having(bench, t) = {bench.infile[t], bench.outfile[t]}
    BY <1>1 DEF Having
  <1>3. bench.files[bench.infile[t]][2] = bench.x[t]
    BY <1>1 DEF OwnSoFar
  <1>4. PICK line \in Lines(bench.x[t]) :
          bench' = [bench EXCEPT !.files[bench.outfile[t]] = line, !.ran[t] = <<end, line>>,
                                 !.pc[t] = "read"]
    BY <1>3 DEF RunProgram
  <1> DEFINE n == bench.outfile[t]
             files == [bench.files EXCEPT ![n] = line]
             r == <<end, line>>
  <1>5. line \in Texts /\ bench.files \in Filings /\ n \in DOMAIN bench.files
    BY <1>1, <1>2, <1>4, CallFields, LineTexts
  <1>6. bench' = [bench EXCEPT !.files = files, !.ran[t] = r, !.pc[t] = "read"]
    BY <1>1, <1>4 DEF Progs
  <1>7. r \in ProgramEnds /\ r[1] = end /\ r[2] = line
    BY <1>5 DEF ProgramEnds
  <1>8. /\ files \in Filings /\ DOMAIN files = DOMAIN bench.files /\ files[n] = line
        /\ \A k \in DOMAIN bench.files \ {n} : files[k] = bench.files[k]
    BY <1>5, FilingSet
  <1> HIDE DEF files, r
  <1>9. /\ bench'.pc = [bench.pc EXCEPT ![t] = "read"] /\ bench'.ran = [bench.ran EXCEPT ![t] = r]
        /\ bench'.outfile = bench.outfile /\ bench'.files = files
        /\ bench'.f = bench.f /\ bench'.x = bench.x /\ bench'.msg = bench.msg
        /\ bench'.infile = bench.infile /\ bench'.pipe = bench.pipe /\ bench' \in Progs
    BY <1>1, <1>6, <1>7, <1>8, StopsNamed DEF Progs
  <1>10. bench'.pc[t] = "read" /\ bench'.ran[t] = r
    BY <1>1, <1>9 DEF Progs
  <1>11. OnlyCall(bench, bench', t)
    BY <1>1, <1>9 DEF OnlyCall, Progs
  <1>12. Having(bench', t) = Having(bench, t) /\ Having(bench, t) \subseteq DOMAIN bench.files
    BY <1>1, <1>2, <1>9, <1>10 DEF Having
  <1>13. Ran(bench', t)
    BY <1>4, <1>7, <1>9, <1>10 DEF Ran
  <1>14. bench'.files[bench'.outfile[t]] = bench'.ran[t][2]
    BY <1>7, <1>8, <1>9, <1>10
  <1>15. OwnSoFar(bench', t)
    BY <1>1, <1>9, <1>10, <1>13, <1>14 DEF OwnSoFar
  <1> QED
    BY <1>2, <1>8, <1>9, <1>11, <1>12, <1>15, OtherCalls

(* popen() runs the program on the pipe. *)
LEMMA RunPipedKept ==
  ASSUME ProgramsKept(bench), NEW t \in Callers, NEW end \in Statuses, RunPiped(t, end)
  PROVE  ProgramsKept(bench')
  <1>1. /\ bench.is = "programs" /\ bench \in Progs /\ bench.pc[t] = "pipe" /\ OwnSoFar(bench, t)
    BY DEF RunPiped, CallerAt, On, ProgramsKept
  <1>2. PICK line \in Lines(bench.x[t]) :
          bench' = [bench EXCEPT !.pipe[t] = line, !.ran[t] = <<end, line>>, !.pc[t] = "read-pipe"]
    BY DEF RunPiped
  <1> DEFINE r == <<end, line>>
  <1>3. line \in Texts /\ line \in Pipes
    BY <1>1, <1>2, CallFields, LineTexts DEF Pipes
  <1>4. r \in ProgramEnds /\ r[1] = end /\ r[2] = line
    BY <1>3 DEF ProgramEnds
  <1>5. bench' = [bench EXCEPT !.pipe[t] = line, !.ran[t] = r, !.pc[t] = "read-pipe"]
    BY <1>2
  <1> HIDE DEF r
  <1>6. /\ bench'.pc = [bench.pc EXCEPT ![t] = "read-pipe"] /\ bench'.ran = [bench.ran EXCEPT ![t] = r]
        /\ bench'.outfile = bench.outfile /\ bench'.files = bench.files
        /\ bench'.f = bench.f /\ bench'.x = bench.x /\ bench'.msg = bench.msg
        /\ bench'.infile = bench.infile /\ bench'.pipe = [bench.pipe EXCEPT ![t] = line]
        /\ bench' \in Progs
    BY <1>1, <1>3, <1>4, <1>5, StopsNamed DEF Progs
  <1>7. bench'.pc[t] = "read-pipe" /\ bench'.ran[t] = r /\ bench'.pipe[t] = line
    BY <1>1, <1>6 DEF Progs
  <1>8. OnlyCall(bench, bench', t)
    BY <1>1, <1>6 DEF OnlyCall, Progs
  <1>9. Having(bench', t) = {} /\ Having(bench, t) = {}
    BY <1>1, <1>7 DEF Having
  <1>10. Ran(bench', t)
    BY <1>2, <1>4, <1>6, <1>7 DEF Ran
  <1>11. OwnSoFar(bench', t)
    BY <1>1, <1>4, <1>6, <1>7, <1>10 DEF OwnSoFar
  <1> QED
    BY <1>6, <1>8, <1>9, <1>11, OtherCalls

(* What is read from a line. *)
LEMMA ParsedIs ==
  ASSUME NEW n \in Nat, NEW line \in Lines(n), NEW end \in Statuses
  PROVE  LET r == Parsed(line, StatusOf(end), <<>>)
         IN /\ r = <<r[1], r[2]>> /\ r[1] = IF line[1] = "value" /\ end # "exit-1" THEN <<n>> ELSE <<>>
            /\ r[2] \in {"none", "the-line", "note", "unknown-evaluation-failure"} /\ r[1] \in Values
            /\ ExecMsg(r[1], r[2]) # "none" /\ ExecMsg(r[1], r[2]) \in Messages
            /\ ExecMsg(r[1], r[2]) = "success" => r[1] # <<>>
  <1> DEFINE r == Parsed(line, StatusOf(end), <<>>)
             none == <<>>
             val == <<n>>
  <1>0. val # none /\ val \in Values /\ none \in Values
    BY DEF Values
  <1>1. \/ line[1] = "empty" /\ r = <<none, "none">>
        \/ line[1] = "text" /\ r = <<none, "the-line">>
        \/ line[1] = "value" /\ end = "exit-1" /\ r = <<none, "unknown-evaluation-failure">>
        \/ line[1] = "value" /\ end # "exit-1" /\ r \in {<<val, "none">>, <<val, "note">>}
    <2>1. CASE line \in {<<"empty">>, <<"text">>}
      BY <2>1 DEF Parsed
    <2>2. CASE line \in {<<"value", n, "none">>, <<"value", n, "note">>}
      <3>1. line[1] = "value" /\ line[2] = n /\ line[3] \in {"none", "note"}
        BY <2>2
      <3>2. CASE end = "exit-1"
        BY <3>1, <3>2 DEF Parsed, StatusOf
      <3>3. CASE end # "exit-1"
        <4>1. r = <<<<line[2]>>, line[3]>>
          BY <3>1, <3>3 DEF Parsed, StatusOf
        <4> QED
          BY <3>1, <3>3, <4>1
      <3> QED
        BY <3>2, <3>3
    <2> QED
      BY <2>1, <2>2 DEF Lines
  <1> HIDE DEF r, none, val
  <1>2. /\ r = <<r[1], r[2]>> /\ r[1] \in {none, val}
        /\ r[2] \in {"none", "the-line", "note", "unknown-evaluation-failure"}
        /\ r[1] = IF line[1] = "value" /\ end # "exit-1" THEN val ELSE none
    BY <1>1
  <1>3. ExecMsg(r[1], r[2]) = IF r[2] # "none" THEN r[2] ELSE IF r[1] # none THEN "success" ELSE "unknown-error"
    BY DEF ExecMsg, none
  <1>4. /\ ExecMsg(r[1], r[2]) # "none" /\ ExecMsg(r[1], r[2]) \in Messages
        /\ ExecMsg(r[1], r[2]) = "success" => r[1] # none
    BY <1>2, <1>3 DEF Messages
  <1> QED
    BY <1>0, <1>2, <1>4 DEF r, none, val

(* The answer to a line and a status, as OwnAnswers states it. *)
LEMMA AnswerIs ==
  ASSUME NEW b \in Progs, NEW t \in Callers, Ran(b, t)
  PROVE  LET r == Answer(b, t)
         IN /\ r[1] = IF b.ran[t][2][1] = "value" /\ b.ran[t][1] # "exit-1" THEN <<b.x[t]>> ELSE <<>>
            /\ r[1] \in Values /\ r[2] \in Messages /\ ExecMsg(r[1], r[2]) \in Messages
            /\ ExecMsg(r[1], r[2]) # "none"
            /\ ExecMsg(r[1], r[2]) = "success" => r[1] # <<>>
  <1>1. b.x[t] \in Nat
    BY CallFields
  <1> QED
    BY <1>1, ParsedIs DEF Answer, Ran, Messages

(* From b to c thread t got to place with value v and message m, and the files became g. *)
GotTold(b, c, t, place, v, m, g) ==
  /\ c \in Progs /\ c.pc = [b.pc EXCEPT ![t] = place] /\ c.f = [b.f EXCEPT ![t] = v]
  /\ c.msg = [b.msg EXCEPT ![t] = m] /\ c.files = g
  /\ c.ran = b.ran /\ c.outfile = b.outfile /\ c.x = b.x /\ c.infile = b.infile /\ c.pipe = b.pipe

(* A call that has read its line. *)
Telling(b, t, place, v, m) == [b EXCEPT !.f[t] = v, !.msg[t] = m, !.pc[t] = place]

(* It is what GotTold says. *)
LEMMA TellingFields ==
  ASSUME NEW b \in Progs, NEW t \in Callers, NEW place \in Stops, NEW v \in Values, NEW m \in Messages
  PROVE  GotTold(b, Telling(b, t, place, v, m), t, place, v, m, b.files)
  BY DEF Progs, Telling, GotTold

(* A call that was told its own answer is kept. *)
LEMMA GotToldKept ==
  ASSUME NEW b, b.is = "programs", ProgramsKept(b), NEW c, NEW t \in Callers, NEW place, NEW v,
         NEW m, NEW g, GotTold(b, c, t, place, v, m, g), OwnSoFar(c, t),
         Having(c, t) \subseteq Having(b, t),
         DOMAIN g = (DOMAIN b.files \ Having(b, t)) \cup Having(c, t),
         \A n \in DOMAIN g : g[n] = b.files[n]
  PROVE  ProgramsKept(c)
  <1>1. OnlyCall(b, c, t)
    BY DEF OnlyCall, GotTold, Progs, ProgramsKept
  <1>2. c.files = g
    BY DEF GotTold
  <1>3. Having(c, t) \cap (DOMAIN b.files \ Having(b, t)) = {}
    OBVIOUS
  <1> QED
    BY <1>1, <1>2, <1>3, OtherCalls

(* The output file is read and parsed. *)
LEMMA ReadOutputKept ==
  ASSUME ProgramsKept(bench), NEW t \in Callers, ReadOutput(t)
  PROVE  ProgramsKept(bench')
  <1> DEFINE v == Answer(bench, t)[1]
             m == Answer(bench, t)[2]
  <1>1. /\ bench.is = "programs" /\ bench \in Progs /\ bench.pc[t] = "read" /\ OwnSoFar(bench, t)
        /\ DOMAIN bench.files = UNION {Having(bench, u) : u \in Callers}
    BY DEF ReadOutput, CallerAt, On, ProgramsKept
  <1>2. Ran(bench, t) /\ bench.files[bench.outfile[t]] = bench.ran[t][2] /\ bench.f[t] = <<>>
    BY <1>1 DEF OwnSoFar
  <1>3. bench' = [bench EXCEPT !.f[t] = v, !.msg[t] = m, !.pc[t] = "unlink-in"]
    BY <1>2 DEF ReadOutput, Answer
  <1>4. v \in Values /\ m \in Messages
    BY <1>1, <1>2, AnswerIs
  <1> HIDE DEF v, m
  <1>5. bench' = Telling(bench, t, "unlink-in", v, m)
    BY <1>3 DEF Telling
  <1>6. GotTold(bench, bench', t, "unlink-in", v, m, bench.files)
    BY <1>1, <1>4, <1>5, TellingFields, StopsNamed
  <1>7. /\ bench'.pc[t] = "unlink-in" /\ bench'.f[t] = v /\ bench'.msg[t] = m
        /\ bench'.ran = bench.ran /\ bench'.outfile = bench.outfile /\ bench'.x = bench.x
        /\ bench'.infile = bench.infile
    BY <1>1, <1>6 DEF GotTold, Progs
  <1>8. /\ Having(bench, t) = {bench.infile[t], bench.outfile[t]} /\ Having(bench', t) = Having(bench, t)
        /\ Having(bench, t) \subseteq DOMAIN bench.files
    BY <1>1, <1>7 DEF Having
  <1>9. Answer(bench', t) = Answer(bench, t) /\ Ran(bench', t)
    BY <1>2, <1>7 DEF Answer, Ran
  <1>10. OwnSoFar(bench', t)
    BY <1>1, <1>7, <1>9 DEF OwnSoFar, v, m
  <1> QED
    BY <1>1, <1>6, <1>8, <1>10, GotToldKept

(* The line of the pipe is parsed. *)
LEMMA ReadPipeKept ==
  ASSUME ProgramsKept(bench), NEW t \in Callers, ReadPipe(t)
  PROVE  ProgramsKept(bench')
  <1> DEFINE r == Answer(bench, t)
             v == r[1]
             m == ExecMsg(r[1], r[2])
  <1>1. /\ bench.is = "programs" /\ bench \in Progs /\ bench.pc[t] = "read-pipe" /\ OwnSoFar(bench, t)
    BY DEF ReadPipe, CallerAt, On, ProgramsKept
  <1>2. Ran(bench, t) /\ bench.pipe[t] = bench.ran[t][2] /\ bench.f[t] = <<>>
    BY <1>1 DEF OwnSoFar
  <1>3. bench' = [bench EXCEPT !.f[t] = v, !.msg[t] = m, !.pc[t] = "evaluated"]
    BY <1>2 DEF ReadPipe, Answer
  <1>4. v \in Values /\ m \in Messages
    BY <1>1, <1>2, AnswerIs
  <1> HIDE DEF v, m, r
  <1>5. bench' = Telling(bench, t, "evaluated", v, m)
    BY <1>3 DEF Telling
  <1>6. GotTold(bench, bench', t, "evaluated", v, m, bench.files)
    BY <1>1, <1>4, <1>5, TellingFields, StopsNamed
  <1>7. /\ bench'.pc[t] = "evaluated" /\ bench'.f[t] = v /\ bench'.msg[t] = m
        /\ bench'.ran = bench.ran /\ bench'.x = bench.x
    BY <1>1, <1>6 DEF GotTold, Progs
  <1>8. Having(bench, t) = {} /\ Having(bench', t) = {}
    BY <1>1, <1>7 DEF Having
  <1>9. Answer(bench', t) = Answer(bench, t) /\ Ran(bench', t)
    BY <1>2, <1>7 DEF Answer, Ran
  <1>10. OwnSoFar(bench', t)
    BY <1>7, <1>9 DEF OwnSoFar, v, m, r
  <1> QED
    BY <1>1, <1>6, <1>8, <1>10, GotToldKept

(* The input file is removed. *)
LEMMA UnlinkInfileKept ==
  ASSUME ProgramsKept(bench), NEW t \in Callers, UnlinkInfile(t)
  PROVE  ProgramsKept(bench')
  <1> DEFINE g == [n \in DOMAIN bench.files \ {bench.infile[t]} |-> bench.files[n]]
             v == bench.f[t]
             m == bench.msg[t]
  <1>1. /\ bench.is = "programs" /\ bench \in Progs /\ bench.pc[t] = "unlink-in" /\ OwnSoFar(bench, t)
        /\ DOMAIN bench.files = UNION {Having(bench, u) : u \in Callers}
        /\ bench' = [bench EXCEPT !.files = g, !.pc[t] = "unlink-out"]
    BY DEF UnlinkInfile, CallerAt, On, ProgramsKept
  <1>2. bench.infile[t] # bench.outfile[t] /\ Ran(bench, t)
    BY <1>1 DEF OwnSoFar
  <1>3. bench.files \in Filings /\ v \in Values /\ m \in Messages
    BY <1>1, CallFields
  <1>4. g \in Filings /\ DOMAIN g = DOMAIN bench.files \ {bench.infile[t]} /\ \A n \in DOMAIN g : g[n] = bench.files[n]
    BY <1>3, FilingRemoved
  <1> HIDE DEF g
  <1>5. /\ bench' \in Progs /\ bench'.pc = [bench.pc EXCEPT ![t] = "unlink-out"] /\ bench'.files = g
        /\ bench'.f = bench.f /\ bench'.msg = bench.msg /\ bench'.ran = bench.ran
        /\ bench'.outfile = bench.outfile /\ bench'.x = bench.x /\ bench'.infile = bench.infile
        /\ bench'.pipe = bench.pipe
    BY <1>1, <1>4, StopsNamed DEF Progs
  <1>6. GotTold(bench, bench', t, "unlink-out", v, m, g)
    BY <1>1, <1>5 DEF GotTold, Progs
  <1>7. bench'.pc[t] = "unlink-out"
    BY <1>1, <1>5 DEF Progs
  <1>8. /\ Having(bench, t) = {bench.infile[t], bench.outfile[t]} /\ Having(bench', t) = {bench.outfile[t]}
        /\ Having(bench, t) \subseteq DOMAIN bench.files
    BY <1>1, <1>5, <1>7 DEF Having
  <1>9. DOMAIN g = (DOMAIN bench.files \ Having(bench, t)) \cup Having(bench', t)
    BY <1>2, <1>4, <1>8
  <1>10. Answer(bench', t) = Answer(bench, t) /\ Ran(bench', t)
    BY <1>2, <1>5 DEF Answer, Ran
  <1>11. OwnSoFar(bench', t)
    BY <1>1, <1>5, <1>7, <1>10 DEF OwnSoFar
  <1> QED
    BY <1>1, <1>4, <1>6, <1>8, <1>9, <1>11, GotToldKept

(* The output file is removed, and the message is complete. *)
LEMMA UnlinkOutfileKept ==
  ASSUME ProgramsKept(bench), NEW t \in Callers, UnlinkOutfile(t)
  PROVE  ProgramsKept(bench')
  <1> DEFINE g == [n \in DOMAIN bench.files \ {bench.outfile[t]} |-> bench.files[n]]
             r == Answer(bench, t)
             v == bench.f[t]
             m == ExecMsg(bench.f[t], bench.msg[t])
  <1>1. /\ bench.is = "programs" /\ bench \in Progs /\ bench.pc[t] = "unlink-out" /\ OwnSoFar(bench, t)
        /\ DOMAIN bench.files = UNION {Having(bench, u) : u \in Callers}
        /\ bench' = [bench EXCEPT !.files = g, !.pc[t] = "evaluated", !.msg[t] = m]
    BY DEF UnlinkOutfile, CallerAt, On, ProgramsKept
  <1>2. Ran(bench, t) /\ v = r[1] /\ bench.msg[t] = r[2] /\ m = ExecMsg(r[1], r[2])
    BY <1>1 DEF OwnSoFar
  <1>3. bench.files \in Filings /\ v \in Values
    BY <1>1, CallFields
  <1>4. m \in Messages
    BY <1>1, <1>2, AnswerIs
  <1>5. g \in Filings /\ DOMAIN g = DOMAIN bench.files \ {bench.outfile[t]} /\ \A n \in DOMAIN g : g[n] = bench.files[n]
    BY <1>3, FilingRemoved
  <1> HIDE DEF g, m, r
  <1>6. /\ bench' \in Progs /\ bench'.pc = [bench.pc EXCEPT ![t] = "evaluated"] /\ bench'.files = g
        /\ bench'.f = bench.f /\ bench'.msg = [bench.msg EXCEPT ![t] = m] /\ bench'.ran = bench.ran
        /\ bench'.outfile = bench.outfile /\ bench'.x = bench.x /\ bench'.infile = bench.infile
        /\ bench'.pipe = bench.pipe
    BY <1>1, <1>4, <1>5, StopsNamed DEF Progs
  <1>7. GotTold(bench, bench', t, "evaluated", v, m, g)
    BY <1>1, <1>6 DEF GotTold, Progs
  <1>8. bench'.pc[t] = "evaluated" /\ bench'.msg[t] = m
    BY <1>1, <1>6 DEF Progs
  <1>9. /\ Having(bench, t) = {bench.outfile[t]} /\ Having(bench', t) = {}
        /\ Having(bench, t) \subseteq DOMAIN bench.files
    BY <1>1, <1>6, <1>8 DEF Having
  <1>10. DOMAIN g = (DOMAIN bench.files \ Having(bench, t)) \cup Having(bench', t)
    BY <1>5, <1>9
  <1>11. Answer(bench', t) = Answer(bench, t) /\ Ran(bench', t)
    BY <1>2, <1>6 DEF Answer, Ran
  <1>12. OwnSoFar(bench', t)
    BY <1>2, <1>6, <1>8, <1>11 DEF OwnSoFar, r
  <1> QED
    BY <1>1, <1>5, <1>7, <1>9, <1>10, <1>12, GotToldKept

(* The caller takes the value and is free for a next call. *)
LEMMA NextTaskKept ==
  ASSUME ProgramsKept(bench), NEW t \in Callers, NextTask(t)
  PROVE  ProgramsKept(bench')
  <1> DEFINE none == <<>>
  <1>1. /\ bench.is = "programs" /\ bench \in Progs /\ bench.pc[t] = "evaluated"
        /\ bench' = [bench EXCEPT !.pc[t] = "idle", !.x[t] = 0, !.f[t] = none, !.msg[t] = "none",
                                  !.ran[t] = none, !.infile[t] = 0, !.outfile[t] = 0, !.pipe[t] = none]
    BY DEF NextTask, CallerAt, On, ProgramsKept
  <1>2. none \in Values /\ none \in ProgramEnds /\ none \in Pipes /\ "none" \in Messages /\ bench.calls \in Nat
    BY <1>1, NothingYet, CallFields
  <1>3. none = <<>>
    OBVIOUS
  <1> HIDE DEF none
  <1>4. /\ bench'.pc = [bench.pc EXCEPT ![t] = "idle"] /\ bench'.x = [bench.x EXCEPT ![t] = 0]
        /\ bench'.f = [bench.f EXCEPT ![t] = none] /\ bench'.msg = [bench.msg EXCEPT ![t] = "none"]
        /\ bench'.ran = [bench.ran EXCEPT ![t] = none]
    BY <1>1 DEF Progs
  <1>5. /\ bench'.infile = [bench.infile EXCEPT ![t] = 0] /\ bench'.outfile = [bench.outfile EXCEPT ![t] = 0]
        /\ bench'.pipe = [bench.pipe EXCEPT ![t] = none] /\ bench'.files = bench.files
    BY <1>1 DEF Progs
  <1>6. bench' \in Progs
    <2>1. /\ bench.pc \in [Callers -> Stops] /\ bench.x \in [Callers -> Nat] /\ bench.f \in [Callers -> Values]
          /\ bench.msg \in [Callers -> Messages] /\ bench.ran \in [Callers -> ProgramEnds]
          /\ bench.infile \in [Callers -> Nat] /\ bench.outfile \in [Callers -> Nat]
          /\ bench.pipe \in [Callers -> Pipes] /\ bench.files \in Filings /\ bench.calls \in Nat
      BY <1>1 DEF Progs
    <2>2. /\ bench'.pc \in [Callers -> Stops] /\ bench'.x \in [Callers -> Nat]
          /\ bench'.f \in [Callers -> Values] /\ bench'.msg \in [Callers -> Messages]
          /\ bench'.ran \in [Callers -> ProgramEnds] /\ bench'.infile \in [Callers -> Nat]
          /\ bench'.outfile \in [Callers -> Nat] /\ bench'.pipe \in [Callers -> Pipes]
      BY <1>2, <1>4, <1>5, <2>1, StopsNamed
    <2>3. bench' = [is |-> "programs", files |-> bench'.files, calls |-> bench'.calls, pc |-> bench'.pc,
                    x |-> bench'.x, infile |-> bench'.infile, outfile |-> bench'.outfile,
                    pipe |-> bench'.pipe, ran |-> bench'.ran, f |-> bench'.f, msg |-> bench'.msg]
          /\ bench'.calls = bench.calls
      BY <1>1 DEF Progs
    <2> QED
      BY <1>5, <2>1, <2>2, <2>3 DEF Progs
  <1>7. bench'.pc[t] = "idle" /\ bench'.f[t] = none
    BY <1>1, <1>4 DEF Progs
  <1>8. OnlyCall(bench, bench', t)
    <2>1. ASSUME NEW u \in Callers, u # t
          PROVE  /\ bench'.pc[u] = bench.pc[u] /\ bench'.x[u] = bench.x[u]
                 /\ bench'.infile[u] = bench.infile[u] /\ bench'.outfile[u] = bench.outfile[u]
                 /\ bench'.pipe[u] = bench.pipe[u] /\ bench'.ran[u] = bench.ran[u]
                 /\ bench'.f[u] = bench.f[u] /\ bench'.msg[u] = bench.msg[u]
      <3>1. /\ bench.pc \in [Callers -> Stops] /\ bench.x \in [Callers -> Nat]
            /\ bench.f \in [Callers -> Values] /\ bench.msg \in [Callers -> Messages]
            /\ bench.ran \in [Callers -> ProgramEnds]
        BY <1>1 DEF Progs
      <3>2. /\ bench.infile \in [Callers -> Nat] /\ bench.outfile \in [Callers -> Nat]
            /\ bench.pipe \in [Callers -> Pipes]
        BY <1>1 DEF Progs
      <3>3. /\ bench'.pc[u] = bench.pc[u] /\ bench'.x[u] = bench.x[u] /\ bench'.ran[u] = bench.ran[u]
            /\ bench'.f[u] = bench.f[u] /\ bench'.msg[u] = bench.msg[u]
        BY <1>4, <2>1, <3>1
      <3>4. /\ bench'.infile[u] = bench.infile[u] /\ bench'.outfile[u] = bench.outfile[u]
            /\ bench'.pipe[u] = bench.pipe[u]
        BY <1>5, <2>1, <3>2
      <3> QED
        BY <3>3, <3>4
    <2> QED
      BY <1>1, <1>6, <2>1 DEF OnlyCall
  <1>9. Having(bench, t) = {} /\ Having(bench', t) = {}
    BY <1>1, <1>7 DEF Having
  <1>10. OwnSoFar(bench', t)
    BY <1>7 DEF OwnSoFar
  <1> QED
    BY <1>5, <1>8, <1>9, <1>10, OtherCalls

(* No call yet. *)
LEMMA NewProgramsKept ==
  ASSUME NewPrograms
  PROVE  ProgramsKept(bench')
  <1> DEFINE none == <<>>
             pc == [t \in Callers |-> "idle"]
             zero == [t \in Callers |-> 0]
             nones == [t \in Callers |-> none]
             msg == [t \in Callers |-> "none"]
  <1>1. bench' = [is |-> "programs", files |-> none, calls |-> 0, pc |-> pc, x |-> zero, infile |-> zero,
                  outfile |-> zero, pipe |-> nones, ran |-> nones, f |-> nones, msg |-> msg]
    BY DEF NewPrograms, PutOn
  <1>2. none \in Values /\ none \in ProgramEnds /\ none \in Pipes /\ "none" \in Messages
    BY NothingYet
  <1>3. none \in Filings /\ DOMAIN none = {}
    <2>1. none \in [{} -> Texts]
      OBVIOUS
    <2>2. none \in Filings
      BY <2>1 DEF Filings
    <2> QED
      BY <2>2
  <1> HIDE DEF none
  <1>4. /\ pc \in [Callers -> Stops] /\ zero \in [Callers -> Nat] /\ nones \in [Callers -> Pipes]
        /\ nones \in [Callers -> ProgramEnds] /\ nones \in [Callers -> Values] /\ msg \in [Callers -> Messages]
        /\ \A t \in Callers : pc[t] = "idle"
    BY <1>2, StopsNamed
  <1> HIDE DEF pc, zero, nones, msg
  <1>5. bench' \in Progs /\ bench'.files = none /\ bench'.pc = pc
    BY <1>1, <1>3, <1>4 DEF Progs
  <1>6. \A t \in Callers : Having(bench', t) = {}
    BY <1>4, <1>5 DEF Having
  <1>7. \A t \in Callers : OwnSoFar(bench', t)
    BY <1>4, <1>5 DEF OwnSoFar
  <1>8. DOMAIN bench'.files = UNION {Having(bench', t) : t \in Callers}
    BY <1>3, <1>5, <1>6
  <1> QED
    BY <1>5, <1>6, <1>7, <1>8 DEF ProgramsKept

(* The external programs, in a library that does anything else as well. *)
ProgramsSpec == bench = NothingThere /\ [][ProgramsNext \/ Elsewhere({"programs"})]_bench

(* The invariant holds throughout. *)
LEMMA ProgramsHold == ProgramsSpec => []ProgramsKept(bench)
  <1>1. bench = NothingThere => ProgramsKept(bench)
    BY DEF NothingThere, ProgramsKept
  <1>2. ProgramsKept(bench) /\ [ProgramsNext \/ Elsewhere({"programs"})]_bench => ProgramsKept(bench)'
    <2> SUFFICES ASSUME ProgramsKept(bench), ProgramsNext \/ Elsewhere({"programs"}) \/ UNCHANGED bench
                 PROVE  ProgramsKept(bench')
      OBVIOUS
    <2>1. CASE UNCHANGED bench
      BY <2>1
    <2>2. CASE Elsewhere({"programs"})
      BY <2>2 DEF Elsewhere, ProgramsKept
    <2>3. CASE TakeOff("programs")
      <3>1. bench'.is = "nothing"
        BY <2>3 DEF TakeOff, NothingThere
      <3> QED
        BY <3>1 DEF ProgramsKept
    <2>4. ASSUME NEW t \in Callers, NEW end \in Statuses, RunProgram(t, end) \/ RunPiped(t, end)
          PROVE  ProgramsKept(bench')
      BY <2>4, RunProgramKept, RunPipedKept
    <2> QED
      BY <2>1, <2>2, <2>3, <2>4, NewProgramsKept, CallKept, MakeInfileKept, MakeOutfileKept,
         WriteInputsKept, ReadOutputKept, UnlinkInfileKept, UnlinkOutfileKept, ReadPipeKept,
         NextTaskKept DEF ProgramsNext
  <1> QED
    BY <1>1, <1>2, PTL DEF ProgramsSpec

(* A task is told the value of its own point, and only calls under way leave files. *)
THEOREM AnsweredOwn == ProgramsSpec => []OwnAnswers
  <1>1. ProgramsKept(bench) => OwnAnswers
    <2> SUFFICES ASSUME ProgramsKept(bench), bench.is = "programs"
                 PROVE  OwnAnswers
      BY DEF OwnAnswers, On
    <2>1. /\ bench \in Progs /\ DOMAIN bench.files = UNION {Having(bench, t) : t \in Callers}
          /\ \A t, u \in Callers : t # u => Having(bench, t) \cap Having(bench, u) = {}
          /\ \A t \in Callers : OwnSoFar(bench, t)
      BY DEF ProgramsKept
    <2>2. ASSUME NEW t \in Callers, bench.pc[t] = "evaluated"
          PROVE  LET end == bench.ran[t][1]
                     line == bench.ran[t][2]
                 IN /\ bench.f[t] = IF line[1] = "value" /\ end # "exit-1" THEN <<bench.x[t]>> ELSE <<>>
                    /\ bench.msg[t] # "none"
                    /\ bench.msg[t] = "success" => bench.f[t] # <<>>
      <3>1. /\ Ran(bench, t) /\ bench.f[t] = Answer(bench, t)[1]
            /\ bench.msg[t] = ExecMsg(Answer(bench, t)[1], Answer(bench, t)[2])
        BY <2>1, <2>2 DEF OwnSoFar
      <3> QED
        BY <2>1, <3>1, AnswerIs
    <2> QED
      BY <2>1, <2>2 DEF OwnAnswers, Having
  <1> QED
    BY <1>1, ProgramsHold, PTL
==============================================================================
