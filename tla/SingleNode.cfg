SPECIFICATION FairSpec
CONSTANTS
  Instance = {i1}
  Multinode = FALSE
  Modes = {"cli", "ci"}
  MaxRetries = 2
  DiskFaults = TRUE
  NameFits = TRUE
INVARIANTS
  TypeOK
  UntrackedOnlyInFlight
  TerminatedMeansGone
  AvailableMeansIntact
  DeleteOrderRespectsDependencies
PROPERTIES
  FileOutlivesResources
  KeepsPromise
  DeletionCompletes
CHECK_DEADLOCK FALSE
