SPECIFICATION FairSpec
CONSTANTS
  First = c1
  OtherCP = {c2}
  Worker = {w1}
  HA = TRUE
  Docker = FALSE
INVARIANTS
  TypeOK
  KubernetesOnFullBase
  NeverInitialisedTwice
  SuccessMeansNetworked
PROPERTIES
  RepetitionCompletes
CHECK_DEADLOCK FALSE
