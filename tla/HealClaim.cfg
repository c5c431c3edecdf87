CONSTANTS
  t1 = t1
  t2 = t2
  p1 = p1
  p2 = p2
  n1 = n1
  n2 = n2
  b = b
  a1 = a1
  a2 = a2
  q1 = q1
  q2 = q2
  Thread = {t1, t2}
  Process = {p1, p2}
  Placements <- OneOrTwo
  Host = {n1, n2, b}
  Address = {a1, a2, b}
  Bastion = b
  Policy = "accept-new"
  Setups <- OneBastion
  Port = {q1, q2}
  Attempts = 2
  Rounds = 2
  Scripts = 1
  Faults = 1
SPECIFICATION Spec
CHECK_DEADLOCK FALSE
INVARIANT DeadClientsAreReplaced
