---------------------------- MODULE SharedCache -----------------------------
(***************************************************************************)
(* The thread cache as its clients PThreadEval and ThreadedExecutor see    *)
(* it: the promises of TaskPool, for tasks that are named by their         *)
(* address.  Any client may own an address, one after the other: operator  *)
(* new returns an address again once delete has freed it.                  *)
(***************************************************************************)
CONSTANT Addresses

VARIABLES
  heap,      \* addresses of tasks that have not been deleted
  status     \* of the task at an address, in the cache

cache == <<heap, status>>

InCache(a) == status[a] # "out"

CacheTypeOK ==
  /\ heap \subseteq Addresses
  /\ status \in [Addresses -> {"out", "pending", "running", "finished"}]

NewCache == heap = {} /\ status = [a \in Addresses |-> "out"]

(* new Task, and addTask with its address. *)
AddNew(a) ==
  /\ a \notin heap
  /\ heap' = heap \cup {a}
  /\ status' = [status EXCEPT ![a] = "pending"]

(* exec() begins, with a slave or in addTask. *)
Run(a) ==
  /\ status[a] = "pending"
  /\ status' = [status EXCEPT ![a] = "running"]
  /\ UNCHANGED heap

(* exec() has returned: signalTaskFinished. *)
Finish(a) ==
  /\ status[a] = "running"
  /\ status' = [status EXCEPT ![a] = "finished"]
  /\ UNCHANGED heap

(* What waitForTasks(tasks) returns; it waits while this is empty. *)
FinishedAmong(tasks) == {a \in tasks : status[a] = "finished"}

WaitForTasks(tasks) ==
  /\ FinishedAmong(tasks) # {}
  /\ status' = [a \in Addresses |-> IF a \in FinishedAmong(tasks) THEN "out" ELSE status[a]]
  /\ UNCHANGED heap

Delete(a) == heap' = heap \ {a} /\ UNCHANGED status

=============================================================================
