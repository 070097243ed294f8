CONSTANTS
  Requests = {r1, r2, r3}
  Keys = {k1, k2}
  MLXKeys = {k2}
  KeepAlives = {1}
  Forever = 9
  DefaultKeepAlive = 1
  MaxRunners = 1
  MaxQueue = 1
  RefMod = 8
  Workloads <- TwoAndOne
  MaxApiCalls = 1
  Signals = FALSE
  None = None
SPECIFICATION Spec
SYMMETRY RequestSymmetry
INVARIANTS TypeOK RefCountExact HeldRunnerStaysLoaded IdleRunnerWillExpire OpenServersWithinLimit
CHECK_DEADLOCK FALSE
