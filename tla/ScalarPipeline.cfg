CONSTANTS
  Bits = 4
  Cases <- MCCases
  Inputs <- MCInputs
SPECIFICATION Spec
INVARIANTS
  TypeOK
  BehavesAsWritten
  VerifiedBetweenPasses
PROPERTIES
  GroupsShrink
