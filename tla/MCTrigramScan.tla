--------------------------- MODULE MCTrigramScan ---------------------------
(***************************************************************************)
(* The scan on every corpus of MaxPhrases phrases of at most MaxLen words, *)
(* for every set of stable pairs.                                          *)
(***************************************************************************)
EXTENDS TrigramScan

CONSTANTS MaxPhrases, MaxLen

MCPhrases == UNION {[1..n -> Vocabulary] : n \in 0..MaxLen}
MCTexts == [1..MaxPhrases -> MCPhrases]

=============================================================================
