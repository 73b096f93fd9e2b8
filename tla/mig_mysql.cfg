CONSTANTS
  table = table data = data column = column index = index extra = extra
  Things = {table, data, column, index, extra}
  Files <- OneFile
  Backend = "mysql"
  MaxFaults = 1
  MaxDowngrades = 0
SPECIFICATION Spec
INVARIANT AllOrNothing
CHECK_DEADLOCK FALSE
