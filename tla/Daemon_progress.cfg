SPECIFICATION FairSpec
CONSTANTS
  d1 = d1
  d2 = d2
  Daemons = {d1, d2}
  Nobody = Nobody
  OtherRun = OtherRun
  Never = Never
  Kinds = {load}
  load = load
  Configs <- TwoConfigs
  MinInterval = 1
  Faults = FALSE
  MaxNow = 1
  MaxStarts = 2
  MaxSignals = 1
PROPERTIES StopHonoured LockReturned
CHECK_DEADLOCK FALSE
