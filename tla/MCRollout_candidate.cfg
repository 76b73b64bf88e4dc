SPECIFICATION Spec
CONSTANTS
  Workers = {w1}
  Versions <- ConfigVersions
  NoVersion = NoVersion
  Releases <- VolumeReleases
  MaxBatch = 1
  CountCap = 2
  MaxReleases = 0
PROPERTY CandidateNeverAffects
