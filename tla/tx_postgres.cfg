CONSTANTS
  t = t s = s r = r k = k p = p
  Calls <- OneTxCalls
  Roles <- OneTxRoles
  Conns = {c1}
  Backend = "postgres"
  BatchRows = 2
  JobsInOrder = TRUE
SPECIFICATION Spec
INVARIANTS OwnSession WritesAreWhole CommitIsTrue
CHECK_DEADLOCK FALSE
