CONSTANTS
  Bound = 3
  HASH_SLOTS = 2
  Programs <- ParallelCaller
  Args <- NonNegativeArgs
  Layouts <- Dense
SPECIFICATION Spec
INVARIANTS
  CallsReturnValue
CHECK_DEADLOCK FALSE
