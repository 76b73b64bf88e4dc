SPECIFICATION TrafficSpec
CONSTANTS
  VipJobs = {x1}
  FreeJobs = {f1, f2}
  VipWorkers = {v1}
  SharedWorkers = {s1}
  Apis = {a1}
  NoJob = NoJob
  VipLimit = 1
  FreeLimit = 2
  MaxRetries = 2
  MaxFaults = 1
  MaxCrashes = 1
  BatchThresholds <- SmallBatch
  RatioThresholds <- TightRatio
INVARIANT ResultWithinTier
PROPERTY EveryJobLeaves
