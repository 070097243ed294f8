CONSTANTS
  Requests = {r1, r2}
  Keys = {k1, k2}
  MLXKeys = {k2}
  KeepAlives = {1}
  Forever = 9
  DefaultKeepAlive = 1
  MaxRunners = 2
  MaxQueue = 2
  RefMod = 8
  Workloads <- AnyWorkload
  MaxApiCalls = 0
  Signals = TRUE
  None = None
SPECIFICATION Spec
SYMMETRY RequestSymmetry
INVARIANTS LoadingIsExclusive NoOrphanServer WaitIsJustified
PROPERTIES AnsweredOnce
CHECK_DEADLOCK FALSE
