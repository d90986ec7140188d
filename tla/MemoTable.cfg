CONSTANTS
  Bound = 3
  HASH_SLOTS = 2
  Programs <- SoundPrograms
  Args <- MCArgs
  Layouts <- BothLayouts
SPECIFICATION Spec
INVARIANTS
  TypeOK
  CallsReturnValue
  ComputedOnce
CHECK_DEADLOCK FALSE
