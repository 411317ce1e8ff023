\* Callers that share the cache without any discipline.
SPECIFICATION Spec
CONSTANTS
  c1 = c1
  c2 = c2
  t1 = t1
  t2 = t2
  t3 = t3
  t4 = t4
  Faults = {"create", "heap"}
  NoTask = NoTask
  Nobody = Nobody
  Callers = {c1, c2}
  Main = c1
  Tasks = {t1, t2, t3}
  Parent <- NestedParent
  MaxSlots = 3
  OnDemand = {TRUE, FALSE}
  NumPthreads = {3}
  Resizes = {1, 2}
  SelfIfNone = {TRUE, FALSE}
  MaxRounds = 0
  MaxResizes = 1
  Disciplined = FALSE
INVARIANTS ProgramTypeOK OneHome ExecutedByOne CountsExact NoLostWakeup QuitReachesAll
CHECK_DEADLOCK FALSE
