CONSTANTS
  Cases <- BitTestCases
  Inputs <- MCInputs
SPECIFICATION Spec
INVARIANTS
  EdgesMatchTerminators
