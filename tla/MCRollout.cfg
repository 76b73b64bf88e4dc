SPECIFICATION LiveSpec
CONSTANTS
  Workers = {w1, w2}
  Versions <- ConfigVersions
  NoVersion = NoVersion
  Releases <- ConfigReleases
  MaxBatch = 2
  CountCap = 4
  MaxReleases = 2
INVARIANTS TypeOK ReturnsPick OnlyEligibleServe PredictionsAddUp
PROPERTIES ShadowIsHarmless ReleaseTakesHold ImplementsInference
