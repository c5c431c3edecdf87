CONSTANTS
  Caller = {c1, c2}
  Calls = 2
SPECIFICATION FairSpec
CHECK_DEADLOCK FALSE
INVARIANTS
  TypeOK
  VerdictIsTheCallers
PROPERTIES
  WaitsEnd
