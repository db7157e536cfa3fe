CONSTANTS
  g1 = g1
  g2 = g2
  w1 = w1
  Threads <- MCThreads
  Workers <- MCWorkers
  WorkerOf <- MCWorkerOf
  NoOne = NoOne
  TTL = 1
  Zones <- MCZones
  MaxTime = 3
  MaxMerges = 2
  MaxBuilds = 2
  Commands = {c1, c2}
  Pids = {1, 2, 3}
  NoPid = NoPid
  MaxCommands = 4
  Runners = {m1, m2}
  Servers = {s1}
  NoTable = NoTable
  Nobody = Nobody
  MaxDocs = 4
  MaxRuns = 4
SPECIFICATION MCFilesSpec
SYMMETRY MCSymmetry
INVARIANTS
  BuiltAtGrows
  FalseAlarmsAreBounded
  ReadyHidesNoMore
  NoLockLeftBehind
  FileNamesDaemon
PROPERTIES
  AnswersKnowOldBuilds
  MigrationComplete
CHECK_DEADLOCK FALSE
