CONSTANTS
  ChunkDocs = 1
  Threshold = 0
  Th1 = 1
  MinDocs = 1
  Scale = 4
  MaxRuns = 2
  MaxLosses = 1
  Garbage = {0, 9}
  Texts <- MCTexts
  Dictionary <- MCDictionary
  Orders <- MCOrders
  Th2 <- MCTh2
SPECIFICATION Spec
INVARIANTS TableIsOfTheText CountsAreTrue LossOnlyRemoves ShiftNeverExported FailsOnlyOnFaults SameCorpusRecovers
