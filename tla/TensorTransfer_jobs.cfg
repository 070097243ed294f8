CONSTANTS
  j1 = j1
  j2 = j2
  b1 = b1
  b2 = b2
  Jobs = {j1, j2}
  Blobs = {b1, b2}
  Large = {b1}
  Size = 2
  Concurrency = 2
  BodyConcurrency = 1
  MaxRetries = 2
  SlowRetries = 2
  MaxInitRetries = 2
  MaxPartRetries = 2
  Workloads <- Each
  None = None
SPECIFICATION TensorFairSpec
INVARIANTS TensorTypeOK PulledIsWhole PushedIsComplete DoneReportsAll TokensAreShared
PROPERTIES JobsEnd
CHECK_DEADLOCK FALSE
