----------------------------- MODULE MCDocFreq -----------------------------
(***************************************************************************)
(* Every corpus of at most MaxDocs of the documents below, every           *)
(* assignment of the lists to two words, and group files with any of the   *)
(* tuples of the corpus and perhaps a stranger.                            *)
(***************************************************************************)
EXTENDS DocFreq
LOCAL INSTANCE SequencesExt

CONSTANTS MaxDocs

Docs ==
  {<<<<1>>, <<>>>>,
   <<<<1>>, <<2, 1>>, <<>>>>,
   <<<<2, 2, 1>>, <<>>>>,
   <<<<1, 2, 1, 2>>, <<1, 2>>, <<>>>>}

MCCorpora == {FlattenSeq(docs) : docs \in UNION {[1..n -> Docs] : n \in 0..MaxDocs}}

MCLemLists == [Word -> {<<1>>, <<2>>, <<1, 2>>}]

MCStrangers(n) == {[p \in 1..n |-> 3]}

MCScore(g) == g[1] + g[2]

=============================================================================
