CONSTANTS
  Letter = {"a", "b", "c", "x", "y", "z", "0", "1"}
  MinDocs = 2
  MinLetters = 3
  Garbage = {0, 7}
  Tables <- MCTables
SPECIFICATION Spec
INVARIANTS EntriesAreWhole LongestWins NothingLost StopsOnMissing
