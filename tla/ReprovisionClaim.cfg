SPECIFICATION Spec
CONSTANTS
  First = c1
  OtherCP = {c2}
  Worker = {w1}
  HA = TRUE
  Docker = FALSE
INVARIANT SuccessMeansControlPlane
CHECK_DEADLOCK FALSE
