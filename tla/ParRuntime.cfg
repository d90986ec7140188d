CONSTANTS
  IntMax = 3
  Ids = {b1, b2}
  Ranges <- MCRanges
  Masks <- TwoMasks
SPECIFICATION FairSpec
INVARIANTS
  TypeOK
  JobIsWhole
  ReturnIsComplete
  SpinnersApart
  NeverWaitsInVain
PROPERTIES
  PublishAfterCompletion
  ReturnComesNearer
  KeepsPromise
  EveryCallReturns
