CONSTANTS
  Requests = {r1, r2}
  Slots = 1
  None = None
  Limits <- PrintCloseServe
SPECIFICATION FairSpec
INVARIANTS ServerTypeOK OneProcess ClosedMeansStopped VerdictIsOwn ReportedMemoryIsCounted
PROPERTIES CallsReturn
CHECK_DEADLOCK FALSE
