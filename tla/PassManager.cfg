CONSTANTS
  Funcs <- MCFuncs
  Calls <- MCCalls
  function_list_ <- MCFunctionList
  Pipeline <- buildArm64Pipeline
  MaxChanges = 2
SPECIFICATION FairSpec
INVARIANTS
  TypeOK
  NoDangling
  QueriesAreCurrent
  CacheIsCurrent
  RequiredFormHolds
PROPERTIES
  GroupsAreFixedPoints
  RunComesNearer
  PipelineEnds
CHECK_DEADLOCK FALSE
