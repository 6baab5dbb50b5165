SPECIFICATION Spec
CONSTANTS
  l1 = l1
  l2 = l2
  Logs = {l1, l2}
  Limit = 2
  MaxEntries = 4
  MaxFiles = 2
  MaxFaults = 2
SYMMETRY Symmetry
INVARIANTS AckedKept DamageBounded
CHECK_DEADLOCK FALSE
