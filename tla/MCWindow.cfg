CONSTANTS
  a1 = a1  a2 = a2
  k1 = k1  k2 = k2  k3 = k3
  c1 = c1  c2 = c2
  Requests = {a1, a2}
  Readers = {r1}
  Batch <- MCBatch
  CustomerOf <- MCCustomerOf
  Window = 2
  MaxAttempts = 2
  MaxClock = 3
  MaxFaults = 1
SPECIFICATION Spec
INVARIANTS TypeOK KeptForTheWindow IndexedHasData NothingKeptForever CustomerWithinGlobal ReadIsComplete
CHECK_DEADLOCK FALSE
