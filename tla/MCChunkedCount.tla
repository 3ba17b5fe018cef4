--------------------------- MODULE MCChunkedCount ---------------------------
(***************************************************************************)
(* bigram_stat over every corpus of at most MaxDocs documents; one has a   *)
(* pair twice, one has two phrases, the first of them without a pair.      *)
(* Counts wrap at 4: to 0 within a chunk, and in the sum of chunks.        *)
(***************************************************************************)
EXTENDS ChunkedCount
LOCAL INSTANCE SequencesExt

CONSTANTS MaxDocs

(* it runs from begin() + 1: adjacent words.                               *)
PairPlaces(ph) == 1..(Len(ph) - 1)
PairAt(ph, p) == <<ph[p], ph[p + 1]>>
PairRank(g) == 10 * g[1] + g[2]

Docs == {<<<<1, 2>>, <<>>>>, <<<<1, 1, 1, 2>>, <<>>>>, <<<<1>>, <<2, 1>>, <<>>>>}

MCCorpora == {FlattenSeq(docs) : docs \in UNION {[1..n -> Docs] : n \in 0..MaxDocs}}

AnyCorpus(c) == MCCorpora

=============================================================================
