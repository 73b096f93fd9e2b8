CONSTANTS
  t = t s = s r = r k = k p = p
  Calls <- PairCalls
  Roles <- PairRoles
  Conns = {c1}
  Backend = "oracle"
  BatchRows = 2
  JobsInOrder = TRUE
SPECIFICATION Spec
PROPERTY Atomicity
CHECK_DEADLOCK FALSE
