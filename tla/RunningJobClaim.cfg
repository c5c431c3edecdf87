SPECIFICATION SweepSpec
CONSTANTS
  c1 = c1
  w1 = w1
  Instance = {c1, w1}
  ControlPlane = {c1}
  Worker = {w1}
  HA = FALSE
  Multinode = TRUE
  Modes = {"ci"}
  MaxRetries = 1
  DiskFaults = FALSE
  NameFits = TRUE
  LookupMayFail = TRUE
PROPERTY SweepSparesRunningJob
CHECK_DEADLOCK FALSE
