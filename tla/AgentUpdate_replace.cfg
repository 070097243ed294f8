CONSTANTS
  Mains = {m1, m2}
  Updaters = {u1, u2}
  Limits <- ActsAndFaults
SPECIFICATION FairSpec
INVARIANTS AgentTypeOK CanBeRestored InstalledIsWhole UpdateIsLeftAlone
PROPERTIES WatchdogRestarts
CHECK_DEADLOCK FALSE
