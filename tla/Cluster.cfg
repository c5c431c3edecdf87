SPECIFICATION Spec
CONSTANTS
  c1 = c1
  c2 = c2
  w1 = w1
  Instance = {c1, c2, w1}
  ControlPlane = {c1, c2}
  Worker = {w1}
  HA = TRUE
  Multinode = TRUE
  Modes = {"cli", "ci"}
  MaxRetries = 2
  DiskFaults = TRUE
  NameFits = TRUE
INVARIANTS
  TypeOK
  InfraIsTracked
  TerminatedMeansNoNode
  AvailableMeansRecorded
  DeleteOrderRespectsDependencies
PROPERTIES
  KeepsPromise
  FileOutlivesCluster
CHECK_DEADLOCK FALSE
