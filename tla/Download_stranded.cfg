CONSTANTS
  NumCalls = 2
  BlobSize = 3
  PartSize = 2
  MaxRetries = 2
  MaxFaults = 1
  None = None
  Torn = Torn
SPECIFICATION Spec
INVARIANT NoStrandedCall
CHECK_DEADLOCK FALSE
