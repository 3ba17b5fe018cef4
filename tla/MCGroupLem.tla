----------------------------- MODULE MCGroupLem -----------------------------
(***************************************************************************)
(* Calls of group_lem2 and group_lem3 on the tables of every corpus of two *)
(* phrases, with and without a threshold, and every assignment of lists to *)
(* the words.  trigram_stat counts the triples with a stable pair only, so *)
(* tri.bin is made for every set of stable pairs.                          *)
(***************************************************************************)
EXTENDS GroupLem

CONSTANTS Words

Occurrences(c, n) ==
  {x \in (DOMAIN c) \X (1..4) : x[2] + n - 1 <= Len(c[x[1]])}

TupleAt(c, x, n) == SubSeq(c[x[1]], x[2], x[2] + n - 1)

Counts(c, n) ==
  [g \in {TupleAt(c, x, n) : x \in Occurrences(c, n)} |->
     Cardinality({x \in Occurrences(c, n) : TupleAt(c, x, n) = g})]

UniOf(c) == [w \in {g[1] : g \in DOMAIN Counts(c, 1)} |-> Counts(c, 1)[<<w>>]]

HasStable(g, biwids) == {SubSeq(g, 1, 2), SubSeq(g, 2, 3)} \cap biwids # {}

PairJob(c, th) ==
  [arity |-> 2, threshold |-> th, uni |-> UniOf(c), grams |-> Counts(c, 2)]

TripleJob(c, th, biwids) ==
  [arity |-> 3, threshold |-> th, uni |-> UniOf(c),
   grams |-> [g \in {h \in DOMAIN Counts(c, 3) : HasStable(h, biwids)} |-> Counts(c, 3)[g]]]

(* The phrases of the corpora: for pairs with a threshold, with words that *)
(* share lemmas; short ones where every group is kept; for triples.        *)
PairPhrases == {<<1>>, <<1, 2>>, <<2, 1>>, <<2, 2, 1>>, <<1, 2, 3>>}
ShortPhrases == {<<1, 2>>, <<1, 2, 1>>, <<2, 2, 1>>}
TriplePhrases == {<<1, 2>>, <<1, 2, 1>>, <<2, 2, 1>>, <<1, 2, 2, 1>>}

MCJobs ==
  {PairJob(c, 1) : c \in [1..2 -> PairPhrases]}
    \cup {PairJob(c, 0) : c \in [1..2 -> ShortPhrases]}
    \cup UNION {{TripleJob(c, 1, biwids) : biwids \in SUBSET DOMAIN Counts(c, 2)} :
                   c \in [1..2 -> TriplePhrases]}

MCLemLists == UNION {[W -> {<<1>>, <<2>>, <<1, 2>>, <<3, 1>>}] : W \in SUBSET Words}

=============================================================================
