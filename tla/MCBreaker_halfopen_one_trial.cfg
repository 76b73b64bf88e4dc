SPECIFICATION Spec
CONSTANTS
  Threads = {t1, t2, t3}
  Operations = {lpop}
  FailureThreshold = 2
  RecoveryTimeout = 1
  CountCap = 2
PROPERTY OneTrialAtATime
