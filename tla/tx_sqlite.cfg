CONSTANTS
  t = t s = s r = r k = k p = p
  Calls <- OneTxCalls
  Roles <- OneTxRoles
  Conns = {c1}
  Backend = "sqlite"
  BatchRows = 2
  JobsInOrder = TRUE
SPECIFICATION FairSpec
INVARIANT CleanPool
PROPERTIES Released AbandonedWorkEnds
CHECK_DEADLOCK FALSE
