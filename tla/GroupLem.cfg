CONSTANTS
  Words = {1, 2, 3}
  Lem = {1, 2, 3}
  Scale = 8
  Jobs <- MCJobs
  LemLists <- MCLemLists
SPECIFICATION Spec
INVARIANTS GroupedOnce ThresholdOnWhole HomonymsShareCounts GroupWithinLemmas
