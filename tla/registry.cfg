SPECIFICATION Spec
CONSTANTS
  t1 = t1 t2 = t2
  Tasks <- MCTasks
  Callers <- MCTasks
  Workers <- MCWorkers
  Names <- MCNames
  Dialects = {postgres, sqlite}
  Routers <- MCRouters
  Models <- MCModels
  References <- MCReferences
  Joins <- MCJoins
  Meta <- MCMeta
  Zones = {rome, lima}
  None = None
  MaxEngines = 3
  MaxCalls = 3
SYMMETRY Symmetry
INVARIANTS OpenIffRegistered DefaultIsWhole ConfigIsWhole RenderedForExecutor ReferencedFirst
