CONSTANTS
  old = old
  new = new
  c1 = c1
  c2 = c2
  Version = {old, new}
  Newest = new
  Legacy = {old}
  Commit = {c1, c2}
  GPU = TRUE
  PlainNames = FALSE
  Documents <- OneDocument
  Faults = 0
  Edits = 0
SPECIFICATION Spec
INVARIANT TemplatesAreIdempotent
CHECK_DEADLOCK FALSE
