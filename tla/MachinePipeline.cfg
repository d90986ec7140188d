CONSTANTS
  Cases <- MCCases
  Inputs <- MCInputs
SPECIFICATION Spec
INVARIANTS
  NeverAborts
  GroupIsSimultaneous
  VerifiedBetweenPasses
  EdgesMatchTerminators
  BehavesAsSelected
  AllocationEnds
  GraphStaysWhole
  CopiesRunOnTheirEdge
PROPERTIES
  OrderingEnds
  CopySpec
  PhiSpec
