CONSTANTS
  old = old
  new = new
  c1 = c1
  c2 = c2
  Version = {old, new}
  Newest = new
  Legacy = {old}
  Commit = {c1, c2}
  GPU = TRUE
  PlainNames = FALSE
  Documents <- AllDocuments
  Faults = 1
  Edits = 1
SPECIFICATION FairSpec
CHECK_DEADLOCK FALSE
INVARIANTS
  TypeOK
  FirstRunServes
  SuccessMeansKubernetes
  SuccessMeansDriver
  KernelPromise
  UndisturbedRunSucceeds
PROPERTIES
  ClusterIsKept
  RepetitionCompletes
