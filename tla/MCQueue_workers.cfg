SPECIFICATION Spec
CONSTANTS
  VipJobs = {}
  FreeJobs = {f1, f2, f3}
  VipWorkers = {}
  SharedWorkers = {s1, s2}
  Apis = {a1}
  NoJob = NoJob
  VipLimit = 1
  FreeLimit = 2
  MaxRetries = 2
  MaxFaults = 1
  MaxCrashes = 1
  BatchThresholds <- SmallBatch
  RatioThresholds <- SmallRatio
SYMMETRY Symmetry
INVARIANTS TypeOK NoDuplicateDelivery AttemptsBounded OneOutcome BuriedAtMostTwice LossIsBounded RefusalsAreKept
PROPERTIES ResultIsFinal ImplementsLifecycle
