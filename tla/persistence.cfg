SPECIFICATION Spec
CONSTANTS
  t1 = t1 t2 = t2 k1 = k1 k2 = k2 a1 = a1 a2 = a2
  Tasks = {t1, t2}
  Keys = {k1, k2}
  Authors = {a1, a2}
  None = None
  OwnId = 2
  Serials = {0}
  Partial <- MCPartial
  Declarations <- MCDeclarations
  NewRecords <- MCNewRecords
  Lookups <- MCLookups
  Batches <- MCBatches
  MaxObjs = 3
  MaxCalls = 3
SYMMETRY Symmetry
CHECK_DEADLOCK FALSE
INVARIANTS OneRowEach MemoryIsStored AloneNeverFails 
PROPERTIES AutomaticKept CacheFollows BulkAnswers
