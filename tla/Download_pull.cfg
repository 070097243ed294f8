CONSTANTS
  NumCalls = 2
  BlobSize = 3
  PartSize = 2
  MaxRetries = 2
  MaxFaults = 1
  None = None
  Torn = Torn
SPECIFICATION Spec
INVARIANTS TypeOK OneWriter ProgressExact ResumeSkipsNothing PublishedIsWhole
CHECK_DEADLOCK FALSE
PROPERTY PullsAreAnswered
