CONSTANTS
  Term = {"a", "b", "c"}
  MaxWords = 4
  ChunkWords = 2
  Dictionaries <- MCDictionaries
SPECIFICATION LemSpec
INVARIANTS ChunksLandOnTheirWords LemmasOfEveryWord ShiftIsNoticed
