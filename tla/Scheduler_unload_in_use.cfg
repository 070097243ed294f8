CONSTANTS
  Requests = {r1, r2, r3}
  Keys = {k1}
  MLXKeys = {}
  KeepAlives = {1}
  Forever = 9
  DefaultKeepAlive = 1
  MaxRunners = 1
  MaxQueue = 2
  RefMod = 8
  Workloads <- DefaultOnly
  MaxApiCalls = 0
  Signals = FALSE
  None = None
SPECIFICATION Spec
SYMMETRY RequestSymmetry
PROPERTIES ServedRequestsKeepTheirServer
CHECK_DEADLOCK FALSE
