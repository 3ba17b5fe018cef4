--------------------------- MODULE MCGroupBySave ---------------------------
(***************************************************************************)
(* groupby_save on every list of at most MaxFiles part files and           *)
(* MaxMessages messages, as save_bi and save_tri write them: from a        *)
(* std::map, so strictly sorted.                                           *)
(***************************************************************************)
EXTENDS GroupBySave, FiniteSetsExt, SequencesExt

CONSTANTS MaxFiles, MaxMessages, Weights

MCMsg == [id : Id, weight : 0..(U32 - 1)]

MCRank(m) == m.id

PartOf(S) ==
  {f \in [1..Cardinality(S) -> [id : S, weight : Weights]] :
     \A a, b \in DOMAIN f : a < b => f[a].id < f[b].id}

MCInputs ==
  {fs \in UNION {[1..n -> UNION {PartOf(S) : S \in SUBSET Id}] : n \in 0..MaxFiles} :
     Len(FlattenSeq(fs)) <= MaxMessages}

=============================================================================
