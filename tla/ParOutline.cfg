CONSTANTS
  IntMax = 7
  Modulus = 5
  Cases <- SoundCases
  Ranges <- MCRanges
  Terms <- OneSignTerms
SPECIFICATION Spec
INVARIANTS
  TypeOK
  IterationsMatch
  ResultsMatch
  ModuloMatches
  SlotsApart
