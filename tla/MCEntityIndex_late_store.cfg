CONSTANTS
  g1 = g1
  g2 = g2
  w1 = w1
  Threads <- MCThreads
  Workers <- MCWorkers
  WorkerOf <- MCWorkerOf
  NoOne = NoOne
  TTL = 1
  Zones <- MCZones
  MaxTime = 3
  MaxMerges = 1
  MaxBuilds = 2
SPECIFICATION IndexSpec
INVARIANT
  CacheReflectsBuilds
