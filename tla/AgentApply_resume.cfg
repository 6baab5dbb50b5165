SPECIFICATION Spec
CONSTANTS
  p1 = p1
  p2 = p2
  user = user
  other = other
  NoAgent = NoAgent
  AnyStart = AnyStart
  Agents = {a1, a2}
  Pids = {p1, p2}
  Uids = {user}
  Plan <- StagedPlan
  Invocations <- ApplyAndResume
  MaxKills = 1
  MaxTotalBlast = 2
  Tol = 0
  IOFaults = FALSE
  MaxStart = 1
  MaxBoot = 0
  MaxRuns = 2
INVARIANTS
  RecordedMeansDone
  KillBudgetPerRun
  SessionSettled
PROPERTIES
  ResumeSkipsRecorded
SYMMETRY AgentSymmetry
CHECK_DEADLOCK FALSE
