CONSTANTS
  main = main child = child
  Tasks <- OneTask
  Root = main
  MaxBlocks = 3
  Backend = "sqlite"
SPECIFICATION Spec
INVARIANT RefusedOnlyIfShared
CHECK_DEADLOCK FALSE
