SPECIFICATION Spec
CONSTANTS
  VipJobs = {}
  FreeJobs = {f1, f2}
  VipWorkers = {}
  SharedWorkers = {s1}
  Apis = {a1}
  NoJob = NoJob
  VipLimit = 1
  FreeLimit = 2
  MaxRetries = 2
  MaxFaults = 0
  MaxCrashes = 0
  BatchThresholds <- SmallBatch
  RatioThresholds <- SmallRatio
INVARIANT ResultIsOwn
