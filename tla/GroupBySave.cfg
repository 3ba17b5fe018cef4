CONSTANTS
  Id = {1, 2, 3}
  U32 = 4
  Weights = {1, 3}
  MaxFiles = 3
  MaxMessages = 4
  Msg <- MCMsg
  Rank <- MCRank
  Inputs <- MCInputs
SPECIFICATION GSpec
INVARIANTS YieldedSorted ShownExactlyOnce OutStrictlySorted WeightsAccounted
PROPERTY ImplementsSortedTotals
