SPECIFICATION Spec
CONSTANTS
  good = good
  broken = broken
  p1 = p1
  p2 = p2
  None = None
  Torn = Torn
  Builds = {good, broken}
  Works = {good}
  First = good
  Procs = {p1, p2}
  Retention = 2
  MaxBackups = 4
  MaxFaults = 1
SYMMETRY Symmetry
INVARIANTS ListedIntact Recoverable SettledWorks
PROPERTIES NewestKept
CHECK_DEADLOCK FALSE
