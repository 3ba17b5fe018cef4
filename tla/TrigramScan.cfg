CONSTANTS
  Vocabulary = {1, 2}
  MaxPhrases = 2
  MaxLen = 5
  Texts <- MCTexts
SPECIFICATION ScanSpec
INVARIANTS CountsOccurrences CountsWanted
