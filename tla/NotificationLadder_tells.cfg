SPECIFICATION Spec
CONSTANTS
  i1 = i1
  i2 = i2
  Items = {i1, i2}
  Severity <- MCSeverity
  Configs <- MCConfigsAll
  After <- MCAfter
  Budget = 1
  Hour = 2
  Cooldown = 1
  Stale = 2
  MaxPlan = 1
  MaxFaults = 1
INVARIANTS BudgetKept
PROPERTIES NoEarlyRepeat
CHECK_DEADLOCK FALSE
