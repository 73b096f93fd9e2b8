CONSTANTS
  main = main child = child
  Tasks <- TwoTasks
  Root = main
  MaxBlocks = 2
  Backend = "postgres"
SPECIFICATION Spec
INVARIANTS BlocksTellTrue OpenBlockHasSavepoint
PROPERTY OverIsOver
CHECK_DEADLOCK FALSE
