CONSTANTS
  t = t s = s r = r k = k p = p
  Calls <- PairCalls
  Roles <- PairRoles
  Conns = {c1}
  Backend = "sqlite"
  BatchRows = 2
  JobsInOrder = FALSE
SPECIFICATION Spec
INVARIANT OwnSession
CHECK_DEADLOCK FALSE
