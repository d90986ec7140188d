CONSTANTS
  IntMax = 7
  Modulus = 5
  Cases <- OneBlockSum
  Ranges <- OneBlockRanges
  Terms <- OneSignTerms
SPECIFICATION Spec
INVARIANTS
  ResultsMatch
