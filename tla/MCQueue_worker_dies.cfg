SPECIFICATION Spec
CONSTANTS
  VipJobs = {}
  FreeJobs = {f1}
  VipWorkers = {}
  SharedWorkers = {s1}
  Apis = {a1}
  NoJob = NoJob
  VipLimit = 1
  FreeLimit = 1
  MaxRetries = 2
  MaxFaults = 1
  MaxCrashes = 0
  BatchThresholds <- SmallBatch
  RatioThresholds <- SmallRatio
INVARIANT WorkerSurvivesRedis
