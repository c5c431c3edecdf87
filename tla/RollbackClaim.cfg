SPECIFICATION InjectedSpec
CONSTANTS
  Instance = {i1}
  Multinode = FALSE
  Modes = {"cli", "ci"}
  MaxRetries = 2
  DiskFaults = FALSE
  NameFits = TRUE
INVARIANT RollbackLeavesNothing
CHECK_DEADLOCK FALSE
