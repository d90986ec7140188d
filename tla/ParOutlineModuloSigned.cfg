CONSTANTS
  IntMax = 7
  Modulus = 5
  Cases <- WhileModulo
  Ranges <- ModuloRanges
  Terms <- TwoSignTerms
SPECIFICATION Spec
INVARIANTS
  ModuloMatches
