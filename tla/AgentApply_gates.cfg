SPECIFICATION FairSpec
CONSTANTS
  p1 = p1
  p2 = p2
  user = user
  other = other
  NoAgent = NoAgent
  AnyStart = AnyStart
  Agents = {a1}
  Pids = {p1, p2}
  Uids = {user}
  Plan <- GatedPlan
  Invocations <- GateCommands
  MaxKills = 1
  MaxTotalBlast = 2
  Tol = 0
  IOFaults = TRUE
  MaxStart = 0
  MaxBoot = 1
  MaxRuns = 2
INVARIANTS
  OnlyPermittedActed
PROPERTIES
  LockFreed
CHECK_DEADLOCK FALSE
