CONSTANTS
  Funcs <- MCFuncs
  Calls <- MCCalls
  function_list_ <- MCFunctionList
  Pipeline <- buildArm64Pipeline
  MaxChanges = 2
SPECIFICATION Spec
INVARIANT SingleProducer
CHECK_DEADLOCK FALSE
