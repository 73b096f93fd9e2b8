CONSTANTS
  table = table data = data column = column index = index extra = extra
  Things = {table, data, column, index, extra}
  Files <- ThreeFiles
  Backend = "sqlite"
  MaxFaults = 1
  MaxDowngrades = 0
SPECIFICATION Spec
INVARIANT PoolEnforcesKeys
CHECK_DEADLOCK FALSE
