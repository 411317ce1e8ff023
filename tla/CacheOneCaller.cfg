\* One caller, both creation modes, resizing between the rounds.
SPECIFICATION FairSpec
CONSTANTS
  c1 = c1
  c2 = c2
  t1 = t1
  t2 = t2
  t3 = t3
  t4 = t4
  Faults = {}
  NoTask = NoTask
  Nobody = Nobody
  Callers = {c1}
  Main = c1
  Tasks = {t1, t2, t3}
  Parent <- FlatParent
  MaxSlots = 3
  OnDemand = {TRUE, FALSE}
  NumPthreads = {1, 2}
  Resizes = {1, 3}
  SelfIfNone = {TRUE, FALSE}
  MaxRounds = 1
  MaxResizes = 1
  Disciplined = TRUE
INVARIANTS StopsIdleSlaves EmptySlotFound EagerThreadsLive CleanEnd
PROPERTY ProgramEnds
