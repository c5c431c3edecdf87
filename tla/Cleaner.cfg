SPECIFICATION FairSweepSpec
CONSTANTS
  c1 = c1
  w1 = w1
  Instance = {c1, w1}
  ControlPlane = {c1}
  Worker = {w1}
  HA = TRUE
  Multinode = TRUE
  Modes = {"ci"}
  MaxRetries = 1
  DiskFaults = FALSE
  NameFits = TRUE
  LookupMayFail = FALSE
INVARIANTS
  SweptMeansGone
  SweepRespectsDependencies
PROPERTIES
  LeftoversAreSwept
CHECK_DEADLOCK FALSE
