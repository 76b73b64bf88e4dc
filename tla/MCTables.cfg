SPECIFICATION Spec
CONSTANTS
  BatchThresholds <- ConfigBatch
  RatioThresholds <- ConfigRatio
  Bands <- ConfigBands
  MaxDepth = 205
INVARIANTS FreeShutOutExactly AlarmsOnlyAbove
PROPERTIES GrowthIsMonotone
CHECK_DEADLOCK FALSE
