CONSTANTS
  MaxDocs = 3
  Word = {1, 2}
  Lemma = {1, 2, 3}
  Arities = {2, 3}
  Th1 = 1
  Th2 = 2
  Corpora <- MCCorpora
  LemLists <- MCLemLists
  Strangers <- MCStrangers
  Score <- MCScore
SPECIFICATION Spec
INVARIANTS FrequenciesAreDocuments StopsOnStrangers KeepsFrequentStable
