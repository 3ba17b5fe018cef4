CONSTANTS
  Word = {1, 2}
  ChunkDocs = 2
  U32 = 4
  MaxDocs = 4
  MaxRuns = 2
  Corpora <- MCCorpora
  Reruns <- AnyCorpus
  Places <- PairPlaces
  KeyAt <- PairAt
  Rank <- PairRank
SPECIFICATION Spec
INVARIANTS PartsHoldWindows ResultIsOwnPlusStale FailsOnlyOnStale
