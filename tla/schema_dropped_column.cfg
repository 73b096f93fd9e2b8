SPECIFICATION Spec
CONSTANTS
  NoTable = NoTable
  Declarations <- MCColumnAndIndex
  ByHand <- MCByHand
  Databases <- MCSQLite
  MaxFiles = 2
  MaxDowngrades = 1
CHECK_DEADLOCK FALSE
INVARIANT GeneratedFilesRun
