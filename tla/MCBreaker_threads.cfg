SPECIFICATION LiveSpec
CONSTANTS
  Threads = {t1, t2, t3}
  Operations = {lpop}
  FailureThreshold = 2
  RecoveryTimeout = 2
  CountCap = 3
INVARIANTS TypeOK OpenIsBacked TripIsNeverLost
PROPERTIES RecoversAfterOutage GaugeRecovers
