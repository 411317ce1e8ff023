------------------------------ MODULE TaskPool ------------------------------
(***************************************************************************)
(* What the thread cache promises to the code that scatters tasks: an      *)
(* added task is executed once, shows up finished once, to its owner only, *)
(* and is never forgotten.  How many threads there are, and who runs what, *)
(* is not said.                                                            *)
(***************************************************************************)
CONSTANTS
  Tasks,
  Parent     \* the activity that adds and collects each task

VARIABLE status

States == {"out", "pending", "running", "finished"}

PoolTypeOK == status \in [Tasks -> States]

PoolInit == status = [t \in Tasks |-> "out"]

Subtasks(t) == {u \in Tasks : Parent[u] = t}

(* Only a running task may have tasks of its own in the pool. *)
Add(t) ==
  /\ status[t] = "out"
  /\ Parent[t] \in Tasks => status[Parent[t]] = "running"
  /\ status' = [status EXCEPT ![t] = "pending"]

Start(t) ==
  /\ status[t] = "pending"
  /\ status' = [status EXCEPT ![t] = "running"]

(* exec() has returned, and its own subtasks were collected before that. *)
Finish(t) ==
  /\ status[t] = "running"
  /\ \A u \in Subtasks(t) : status[u] = "out"
  /\ status' = [status EXCEPT ![t] = "finished"]

(* The owner gets all of its finished tasks at once. *)
CollectAll(p) ==
  /\ \E t \in Tasks : Parent[t] = p /\ status[t] = "finished"
  /\ status' = [t \in Tasks |->
                  IF Parent[t] = p /\ status[t] = "finished" THEN "out" ELSE status[t]]

Owners == {Parent[t] : t \in Tasks}

PoolNext ==
  \/ \E t \in Tasks : Add(t) \/ Start(t) \/ Finish(t)
  \/ \E p \in Owners : CollectAll(p)

PoolFairness ==
  /\ \A t \in Tasks : WF_status(Start(t)) /\ WF_status(Finish(t))
  /\ \A p \in Owners : WF_status(CollectAll(p))

PoolSpec == PoolInit /\ [][PoolNext]_status
PoolFairSpec == PoolSpec /\ PoolFairness

=============================================================================
