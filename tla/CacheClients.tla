---------------------------- MODULE CacheClients ----------------------------
(***************************************************************************)
(* The two clients of the thread cache that xylose ships, sharing one      *)
(* cache: PThreadEval (src/xylose/PThreadEval.h), an eval/joinAll pair     *)
(* that hands each result to the functor's accept, and ThreadedExecutor    *)
(* (src/xylose/fit/appspack/ThreadedExecutor.hpp), a spawn/recv pair that  *)
(* APPSPACK drives.  Every client object is used by one thread.            *)
(***************************************************************************)
EXTENDS SharedCache, Integers, FiniteSets

CONSTANTS
  Evals, Executors,  \* client objects
  MaxTasks,          \* bound on the tasks of a client
  QuickReuse         \* whether new may return, in accept(), what joinAll has just deleted

Clients == Evals \cup Executors

ASSUME ClientAssumption ==
  Evals \cap Executors = {} /\ MaxTasks \in Nat /\ QuickReuse \in BOOLEAN

VARIABLES
  queued,     \* tasks of a PThreadEval, queued_tasks of a ThreadedExecutor
  collected,  \* the set finished of joinAll, finished_tasks of a ThreadedExecutor
  visited,    \* those of finished that for_each has been through
  at,         \* where joinAll is
  made,       \* tasks a client has made
  owner,      \* the client a task was made by
  received    \* results handed to accept, or returned by recv

clientVars == <<queued, collected, visited, at, made, owner, received>>
vars == <<cache, clientVars>>

TypeOK ==
  /\ CacheTypeOK
  /\ queued \in [Clients -> SUBSET Addresses]
  /\ collected \in [Clients -> SUBSET Addresses]
  /\ visited \in [Clients -> SUBSET Addresses]
  /\ at \in [Clients -> {"app", "join", "each", "joined"}]
  /\ made \in [Clients -> 0 .. MaxTasks]
  /\ owner \in [Addresses -> Clients]
  /\ received \in [Clients -> 0 .. MaxTasks]

Init ==
  /\ NewCache
  /\ queued = [c \in Clients |-> {}]
  /\ collected = [c \in Clients |-> {}]
  /\ visited = [c \in Clients |-> {}]
  /\ at = [c \in Clients |-> "app"]
  /\ made = [c \in Clients |-> 0]
  /\ owner \in [Addresses -> Clients]
  /\ received = [c \in Clients |-> 0]

(* new task, tasks.insert, addTask, for a task at one of the addresses new may return. *)
Submit(c, fresh) ==
  /\ made[c] < MaxTasks
  /\ \E a \in fresh :
       /\ AddNew(a)
       /\ queued' = [queued EXCEPT ![c] = @ \cup {a}]
       /\ owner' = [owner EXCEPT ![a] = c]
  /\ made' = [made EXCEPT ![c] = @ + 1]
  /\ UNCHANGED <<collected, visited, at, received>>

-----------------------------------------------------------------------------
(* PThreadEval *)

Eval(e) == at[e] \in {"app", "joined"} /\ Submit(e, Addresses)

(* The functor's accept() may ask for another evaluation of the same object. *)
EvalInAccept(e) ==
  /\ at[e] = "each" /\ visited[e] # collected[e]
  /\ Submit(e, IF QuickReuse THEN Addresses ELSE Addresses \ collected[e])

JoinAll(e) ==
  /\ at[e] \in {"app", "joined"}
  /\ at' = [at EXCEPT ![e] = "join"]
  /\ UNCHANGED <<cache, queued, collected, visited, made, owner, received>>

Gather(e) ==
  /\ at[e] = "join" /\ queued[e] # {}
  /\ WaitForTasks(queued[e])
  /\ collected' = [collected EXCEPT ![e] = FinishedAmong(queued[e])]
  /\ at' = [at EXCEPT ![e] = "each"]
  /\ UNCHANGED <<queued, visited, made, owner, received>>

(* Bug: a result that has been handed to accept() is handed to it again. *)
DeleteTaskAgain(e) ==
  /\ at[e] = "each"
  /\ \E a \in collected[e] :
       /\ Delete(a)
       /\ visited' = [visited EXCEPT ![e] = @ \cup {a}]
  /\ received' = [received EXCEPT ![e] = @ + 1]
  /\ UNCHANGED <<queued, collected, at, made, owner>>

(* Bug: the task is not deleted. *)
DeleteTaskLeaks(e) ==
  /\ at[e] = "each"
  /\ \E a \in collected[e] \ visited[e] :
       visited' = [visited EXCEPT ![e] = @ \cup {a}]
  /\ received' = [received EXCEPT ![e] = @ + 1]
  /\ UNCHANGED <<cache, queued, collected, at, made, owner>>

(* deleteTasks: accept() is called with the gatherer, then the task is deleted. *)
DeleteTask(e) ==
  /\ at[e] = "each"
  /\ \E a \in collected[e] \ visited[e] :
       /\ Delete(a)
       /\ visited' = [visited EXCEPT ![e] = @ \cup {a}]
  /\ received' = [received EXCEPT ![e] = @ + 1]
  /\ UNCHANGED <<queued, collected, at, made, owner>>

(* The set difference of tasks and finished, by address. *)
Gathered(e) ==
  /\ at[e] = "each" /\ visited[e] = collected[e]
  /\ queued' = [queued EXCEPT ![e] = @ \ collected[e]]
  /\ collected' = [collected EXCEPT ![e] = {}]
  /\ visited' = [visited EXCEPT ![e] = {}]
  /\ at' = [at EXCEPT ![e] = "join"]
  /\ UNCHANGED <<cache, made, owner, received>>

Joined(e) ==
  /\ at[e] = "join" /\ queued[e] = {}
  /\ at' = [at EXCEPT ![e] = "joined"]
  /\ UNCHANGED <<cache, queued, collected, visited, made, owner, received>>

-----------------------------------------------------------------------------
(* ThreadedExecutor *)

Spawn(x) == Submit(x, Addresses)

(* recv with results left over from an earlier call. *)
RecvLeftOver(x) ==
  /\ \E a \in collected[x] :
       /\ collected' = [collected EXCEPT ![x] = @ \ {a}]
       /\ Delete(a)
  /\ received' = [received EXCEPT ![x] = @ + 1]
  /\ UNCHANGED <<queued, visited, at, made, owner>>

(* Bug: the finished tasks stay in queued_tasks. *)
RecvWaitsRequeued(x) ==
  /\ collected[x] = {} /\ queued[x] # {}
  /\ LET finished == FinishedAmong(queued[x])
     IN \E a \in finished :
          /\ collected' = [collected EXCEPT ![x] = finished \ {a}]
          /\ queued' = [queued EXCEPT ![x] = @ \ {a}]
          /\ heap' = heap \ {a}
          /\ status' = [b \in Addresses |-> IF b \in finished THEN "out" ELSE status[b]]
  /\ received' = [received EXCEPT ![x] = @ + 1]
  /\ UNCHANGED <<visited, at, made, owner>>

(* Bug: every finished task is deleted, not only the one returned. *)
RecvWaitsFreed(x) ==
  /\ collected[x] = {} /\ queued[x] # {}
  /\ LET finished == FinishedAmong(queued[x])
     IN \E a \in finished :
          /\ collected' = [collected EXCEPT ![x] = finished \ {a}]
          /\ queued' = [queued EXCEPT ![x] = @ \ finished]
          /\ heap' = heap \ finished
          /\ status' = [b \in Addresses |-> IF b \in finished THEN "out" ELSE status[b]]
  /\ received' = [received EXCEPT ![x] = @ + 1]
  /\ UNCHANGED <<visited, at, made, owner>>

(* Bug: the other finished tasks are not kept for later calls. *)
RecvWaitsForgets(x) ==
  /\ collected[x] = {} /\ queued[x] # {}
  /\ LET finished == FinishedAmong(queued[x])
     IN \E a \in finished :
          /\ collected' = [collected EXCEPT ![x] = {}]
          /\ queued' = [queued EXCEPT ![x] = @ \ finished]
          /\ heap' = heap \ {a}
          /\ status' = [b \in Addresses |-> IF b \in finished THEN "out" ELSE status[b]]
  /\ received' = [received EXCEPT ![x] = @ + 1]
  /\ UNCHANGED <<visited, at, made, owner>>

(* recv that waits for the cache: the first task is returned, the others are kept. *)
RecvWaits(x) ==
  /\ collected[x] = {} /\ queued[x] # {}
  /\ LET finished == FinishedAmong(queued[x])
     IN \E a \in finished :
          /\ collected' = [collected EXCEPT ![x] = finished \ {a}]
          /\ queued' = [queued EXCEPT ![x] = @ \ finished]
          /\ heap' = heap \ {a}
          /\ status' = [b \in Addresses |-> IF b \in finished THEN "out" ELSE status[b]]
  /\ received' = [received EXCEPT ![x] = @ + 1]
  /\ UNCHANGED <<visited, at, made, owner>>

-----------------------------------------------------------------------------
CacheStep(a) == (Run(a) \/ Finish(a)) /\ UNCHANGED clientVars

JoinStep(e) == Gather(e) \/ DeleteTask(e) \/ Gathered(e) \/ Joined(e)

RecvStep(x) == RecvLeftOver(x) \/ RecvWaits(x)

Next ==
  \/ \E a \in Addresses : CacheStep(a)
  \/ \E e \in Evals : Eval(e) \/ EvalInAccept(e) \/ JoinAll(e) \/ JoinStep(e)
  \/ \E x \in Executors : Spawn(x) \/ RecvStep(x)

(* The cache works on (ProgramEnds of ScatterGather), a call that can go on goes on, and
   APPSPACK keeps receiving as long as there are points to receive. *)
Fairness ==
  /\ \A a \in Addresses : WF_vars(CacheStep(a))
  /\ \A e \in Evals : WF_vars(JoinStep(e))
  /\ \A x \in Executors : WF_vars(RecvStep(x))

Spec == Init /\ [][Next]_vars
FairSpec == Spec /\ Fairness

-----------------------------------------------------------------------------
(* joinAll "makes sure that all of this instance's tasks are completed before returning":
   once it has returned, and no eval follows, no task of the object is in the cache. *)
JoinsAll ==
  \A e \in Evals : at[e] = "joined" =>
    \A a \in Addresses : owner[a] = e /\ InCache(a) => a \in queued[e]

(* No client forgets a task or takes another client's: what the cache holds for a client
   is what the client will ask waitForTasks for, except in the middle of joinAll. *)
QueuedExact ==
  \A c \in Clients : at[c] # "each" =>
    queued[c] = {a \in Addresses : owner[a] = c /\ InCache(a)}

(* A task is deleted only after it has left the cache, and once. *)
NoDanglingTask ==
  /\ \A a \in Addresses : InCache(a) => a \in heap
  /\ \A c \in Clients : collected[c] \ visited[c] \subseteq heap
  /\ \A c, d \in Clients : c # d =>
       (collected[c] \ visited[c]) \cap (collected[d] \ visited[d]) = {}

(* The results received are as many as the tasks that were made and have been deleted. *)
OneResultEach ==
  \A c \in Clients :
    made[c] - received[c] = Cardinality({a \in heap : owner[a] = c})

(* joinAll returns, and every spawned point is received in the end: no result stays behind
   in finished_tasks or in the cache while APPSPACK keeps asking. *)
ClientsServed ==
  /\ \A e \in Evals : at[e] = "join" ~> at[e] = "joined"
  /\ \A x \in Executors, a \in Addresses :
       (a \in heap /\ owner[a] = x) ~> (a \notin heap \/ owner[a] # x)

=============================================================================
