SPECIFICATION FairSpec
CONSTANTS
  Pids = {p1}
  Uids = {root, user}
  Root = root
  MaxClock = 4
  MaxInc = 3
  Tol = 1
  Grace = 2
  VerifyTimeout = 2
  Kinds = {"Kill", "Pause", "Resume", "Keep", "Restart"}
INVARIANTS
  KillsOnlyCheckedOrNewer
  StagedEscalation
  KillOkMeansDoomed
  VerifiedKillMeansDead
PROPERTIES
  CallReturns
  ImplementsContract
CHECK_DEADLOCK FALSE
