SPECIFICATION Spec
CONSTANTS
  VipJobs = {}
  FreeJobs = {f1, f2, f3, f4, f5}
  VipWorkers = {}
  SharedWorkers = {s1}
  Apis = {a1, a2}
  NoJob = NoJob
  VipLimit = 1
  FreeLimit = 1
  MaxRetries = 2
  MaxFaults = 0
  MaxCrashes = 0
  BatchThresholds <- SmallBatch
  RatioThresholds <- SmallRatio
SYMMETRY Symmetry
INVARIANT QueueDepthBounded
