CONSTANTS
  Source = {0, 1, 2}
  MaxStream = 4
  Limits = {0, 1, 2, 3}
  Msg <- MCMsg
  Rank <- MCRank
  Expand <- MCExpand
  Streams <- MCStreams
  OldDirs <- MCOldDirs
SPECIFICATION Spec
INVARIANTS SplitKeepsAll SortsTheStream
