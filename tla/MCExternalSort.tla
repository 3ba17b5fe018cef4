--------------------------- MODULE MCExternalSort ---------------------------
(***************************************************************************)
(* Streams of at most MaxStream messages, each expanded to at most two.    *)
(* Messages <<key, tag>> with equal keys tie in the order.                 *)
(***************************************************************************)
EXTENDS ExternalSort

CONSTANT MaxStream

MCMsg == {<<1, "a">>, <<1, "b">>, <<2, "c">>}
MCRank(m) == m[1]

(* A word with one lemma, one with two, and one that has none.             *)
MCExpand(n) ==
  CASE n = 0 -> <<>>
    [] n = 1 -> <<<<1, "a">>>>
    [] n = 2 -> <<<<2, "c">>, <<1, "b">>>>

MCStreams == UNION {[1..n -> Source] : n \in 0..MaxStream}

(* An empty directory, and one with the parts of a longer earlier run.     *)
MCOldDirs == {<<>>, [n \in 0..5 |-> <<<<2, "c">>>>]}

=============================================================================
