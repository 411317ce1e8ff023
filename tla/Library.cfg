\* Every class and function outside of the thread cache and the containers.
SPECIFICATION Spec
CONSTANTS
  MaxInts = 4
  MaxParticles = 2
  MaxParts = 4
  Precision = 5
  Shapes <- MCShapes
  MaxAdds = 2
  Tables <- MCTables
  Densities <- MCDensities
  Elements <- MCElements
  Coordinates <- MCCoordinates
  MaxExpansions = 2
  Tsz = 3
  MaxBits = 7
  MaxEdge = 3
  MaxText = 5
  Lockers = {t1, t2}
  Nobody = nobody
  MaxObjects = 2
  InitialSize = 2
  MaxPushes = 3
  FactoryKeys = {"a", "b"}
  MaxFactories = 3
  Schedules <- MCSchedules
  TimeRange <- MCTimes
  MaxTimes = 2
  Usecs = 3
  MaxStops = 3
  Loggers = {l1, l2}
  Setter = setter
  LogLevel = 2
  Stamped = TRUE
  MaxSets = 2
  Width = 12
  N = 4
  M = 2
  ScalarSeeds = {0, 5, 4095}
  MaxDraws = 4
  Burnt = 3
  Uniform = 3
  Sigmas = {1, 2}
  Intervals <- MCIntervals
  FirstSteps = {2, 9}
  MaxSolves = 2
  MaxStep = 6
  Share = 4
  MaxOpens = 2
  Inputs <- MCInputs
  DataSets <- MCDataSets
  NoNodeSet = {"Lower", "Constraints", "InitialStep", "param"}
  MaxCalls = 2
  Callers = {c1, c2}
INVARIANTS
  SortsByBucket BinsAccount GeometryHolds ResultsMatch OneAtATime EverythingOwned TimesKept LinesWhole
  Repeats StepsArrive Inverts DocumentsRead OwnAnswers
