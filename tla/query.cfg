SPECIFICATION Spec
CONSTANTS
  Null = Null
  Raised = Raised
  Columns <- MCColumns
  Relations <- MCRelations
  Ordering <- MCOrdering
  NullsFirst = TRUE
  Worlds <- MCWorlds
  FilterCalls <- MCFilterCalls
  OrderCalls <- MCOrderCalls
  AnnotateCalls <- MCAnnotateCalls
  GroupCalls <- MCGroupCalls
  RelatedCalls <- MCRelatedCalls
  Slices <- MCSlices
  Updates <- MCUpdates
  CreateCalls <- MCCreateCalls
  LinksCascade = FALSE
  MaxCalls = 3
CHECK_DEADLOCK FALSE
INVARIANTS ConditionsMeanTheCalls CountsAreTrue TerminalsMatchFetch SubqueryIsNullSafe PrefetchIsPerOwner RelationsAgree CreatedIsFound
PROPERTIES WritesMatchFetch
