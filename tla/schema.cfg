SPECIFICATION Spec
CONSTANTS
  NoTable = NoTable
  Declarations <- MCDeclarations
  ByHand <- MCByHand
  Databases <- MCDatabases
  MaxFiles = 3
  MaxDowngrades = 1
CHECK_DEADLOCK FALSE
INVARIANTS SchemaIsRecorded GeneratedFilesRun
PROPERTIES NothingLeft DataIsKept
