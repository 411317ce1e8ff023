\* accept() that evaluates again on the same PThreadEval.
SPECIFICATION Spec
CONSTANTS
  e1 = e1
  x1 = x1
  a1 = a1
  a2 = a2
  a3 = a3
  Evals = {e1}
  Executors = {}
  Addresses = {a1, a2, a3}
  MaxTasks = 3
  QuickReuse = TRUE
INVARIANT JoinsAll
CHECK_DEADLOCK FALSE
