SPECIFICATION Spec
CONSTANTS
  Threads = {t1}
  Operations = {lpop, rpush}
  FailureThreshold = 3
  RecoveryTimeout = 3
  CountCap = 5
INVARIANTS TrialIsDecided
PROPERTIES ImplementsContract
