CONSTANTS
  table = table data = data column = column index = index extra = extra
  Things = {table, data, column, index, extra}
  Files <- ThreeFiles
  Backend = "sqlite"
  MaxFaults = 2
  MaxDowngrades = 2
SPECIFICATION FairSpec
INVARIANTS RecordsAreTrue KeysAreSafe
PROPERTY Converges
CHECK_DEADLOCK FALSE
