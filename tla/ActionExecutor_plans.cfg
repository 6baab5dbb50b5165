SPECIFICATION FairExecSpec
CONSTANTS
  p1 = p1
  p2 = p2
  root = root
  user = user
  Pids = {p1, p2}
  Uids = {root, user}
  Root = root
  MaxClock = 2
  MaxInc = 2
  Tol = 0
  Grace = 1
  VerifyTimeout = 1
  Kinds = {"Kill", "Pause", "Restart", "Resume", "Keep"}
  Plans <- AllPlans
INVARIANTS
  SignalsOnlyCheckedOrNewer
  SuccessMeansDead
PROPERTIES
  PlanCompletes
CHECK_DEADLOCK FALSE
