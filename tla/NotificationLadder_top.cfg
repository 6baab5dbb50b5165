SPECIFICATION FairSpec
CONSTANTS
  i1 = i1
  i2 = i2
  Items = {i1, i2}
  Severity <- MCSeverity
  Configs <- MCConfigsSure
  After <- MCAfter
  Budget = 1
  Hour = 2
  Cooldown = 1
  Stale = 2
  MaxPlan = 0
  MaxFaults = 1
PROPERTIES TopReached
CHECK_DEADLOCK FALSE
