CONSTANTS
  Requests = {r1, r2}
  Keys = {k1, k2}
  MLXKeys = {}
  KeepAlives = {0, 1}
  Forever = 9
  DefaultKeepAlive = 1
  MaxRunners = 1
  MaxQueue = 4
  RefMod = 8
  Workloads <- OwnModels
  MaxApiCalls = 0
  Signals = FALSE
  None = None
SPECIFICATION FairSpec
PROPERTIES RequestsAreAnswered ModelsAreUnloaded
CHECK_DEADLOCK FALSE
