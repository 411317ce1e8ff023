\* Tasks that scatter tasks, all threads created eagerly, two callers.
SPECIFICATION FairSpec
CONSTANTS
  c1 = c1
  c2 = c2
  t1 = t1
  t2 = t2
  t3 = t3
  t4 = t4
  Faults = {}
  NoTask = NoTask
  Nobody = Nobody
  Callers = {c1, c2}
  Main = c1
  Tasks = {t1, t2, t3, t4}
  Parent <- NestedParent
  MaxSlots = 3
  OnDemand = {FALSE}
  NumPthreads = {2, 3}
  Resizes = {1}
  SelfIfNone = {TRUE}
  MaxRounds = 0
  MaxResizes = 0
  Disciplined = TRUE
PROPERTY ImplementsPool
