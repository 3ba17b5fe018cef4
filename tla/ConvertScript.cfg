CONSTANTS
  b1 = b1
  b2 = b2
  Names <- MCNames
  Books <- MCBooks
  Contents <- MCContents
  Glob <- MCGlob
  Workers = 2
  MaxRuns = 3
SPECIFICATION Spec
INVARIANTS EveryZipOneWorker NothingLost AsksAfterDeath
PROPERTIES Ends
