\* A PThreadEval and a ThreadedExecutor that share the cache and the heap.
SPECIFICATION FairSpec
CONSTANTS
  e1 = e1
  x1 = x1
  a1 = a1
  a2 = a2
  a3 = a3
  Evals = {e1}
  Executors = {x1}
  Addresses = {a1, a2, a3}
  MaxTasks = 3
  QuickReuse = FALSE
INVARIANTS TypeOK QueuedExact NoDanglingTask OneResultEach
PROPERTY ClientsServed
CHECK_DEADLOCK FALSE
