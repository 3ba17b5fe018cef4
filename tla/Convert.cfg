CONSTANTS
  Word = {"a", "b", "c"}
  Junk = Junk
  Unreadable = Unreadable
  Froms = {0, 1}
  Limits = {0, 1, 2}
  Trees <- MCTrees
  ZipContents <- MCContents
SPECIFICATION CSpec
INVARIANTS CallsWindow IdsDense NothingElseLost TotalCountsDocuments
