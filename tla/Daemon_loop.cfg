SPECIFICATION Spec
CONSTANTS
  d1 = d1
  d2 = d2
  Daemons = {d1, d2}
  Nobody = Nobody
  OtherRun = OtherRun
  Never = Never
  Kinds = {load}
  load = load
  Configs <- TwoConfigs
  MinInterval = 1
  Faults = TRUE
  MaxNow = 2
  MaxStarts = 2
  MaxSignals = 1
SYMMETRY DaemonSymmetry
INVARIANTS TypeOK OneDaemon PlansUnderLock FiresOnlySustained
PROPERTIES ImplementsGate
CHECK_DEADLOCK FALSE
