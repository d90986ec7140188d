CONSTANTS
  Bits = 4
  Cases <- UnwindingCases
  Inputs <- MCInputs
SPECIFICATION Spec
INVARIANTS
  BehavesAsWritten
