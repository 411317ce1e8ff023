\* set_max_threads, or the destructor, while a slave executes a task.
SPECIFICATION FairSpec
CONSTANTS
  c1 = c1
  c2 = c2
  t1 = t1
  t2 = t2
  t3 = t3
  t4 = t4
  Faults = {}
  NoTask = NoTask
  Nobody = Nobody
  Callers = {c1}
  Main = c1
  Tasks = {t1, t2}
  Parent <- FlatParent
  MaxSlots = 2
  OnDemand = {TRUE, FALSE}
  NumPthreads = {2}
  Resizes = {1}
  SelfIfNone = {FALSE}
  MaxRounds = 0
  MaxResizes = 1
  Disciplined = FALSE
PROPERTY ResizeReturns
CHECK_DEADLOCK FALSE
