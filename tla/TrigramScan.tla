---------------------------- MODULE TrigramScan ----------------------------
(***************************************************************************)
(* The loop of trigram_stat over the phrases of the corpus: which          *)
(* occurrences of word triples are counted, given the stable word pairs    *)
(* biwids.  Saving chunks to disk is the business of ChunkedCount, whose   *)
(* names this module leaves free.                                          *)
(***************************************************************************)
EXTENDS Integers, Sequences, FiniteSets

CONSTANTS
  Vocabulary,  (* word identifiers                                         *)
  Texts        (* the corpora: sequences of phrases, <<>> ends a document  *)

ASSUME TextsAssumption == Texts \subseteq Seq(Seq(Vocabulary))

VARIABLES
  text,      (* the corpus read_fn reads                                   *)
  biwids,    (* load_filtered_bigrams: the pairs of words to look for      *)
  phrase,    (* the phrase under the loop                                  *)
  it1,       (* the loop's iterator; it2 is always it1 + 1                 *)
  found,     (* the previous pair was one of biwids                        *)
  triples,   (* how often each triple was counted (an absent key is 0)     *)
  counted    (* history: <<phrase, place>> of the occurrences counted      *)

scanVars == <<text, biwids, phrase, it1, found, triples, counted>>

-----------------------------------------------------------------------------
Triple == Vocabulary \X Vocabulary \X Vocabulary

(* The pair at place p of phrase a, and the triple that starts there.      *)
IsStable(a, p) == <<text[a][p], text[a][p + 1]>> \in biwids
TripleAt(a, p) == <<text[a][p], text[a][p + 1], text[a][p + 2]>>

(* try_emplace(.., 0) and ++, for the triples at the places xs.            *)
CountAt(xs) ==
  /\ counted' = counted \cup xs
  /\ triples' = [t \in Triple |->
                   triples[t] + Cardinality({x \in xs : TripleAt(x[1], x[2]) = t})]

ScanInit ==
  /\ text \in Texts
  /\ biwids \in SUBSET (Vocabulary \X Vocabulary)
  /\ phrase = 1
  /\ it1 = 1
  /\ found = FALSE
  /\ triples = [t \in Triple |-> 0]
  /\ counted = {}

(* it2 < wids.end()                                                        *)
InLoop == phrase <= Len(text) /\ it1 + 1 <= Len(text[phrase])

(* As a bug would have it: `found' is not reset.                           *)
SkipKeepsFound ==
  /\ InLoop
  /\ ~IsStable(phrase, it1)
  /\ it1' = it1 + 1
  /\ UNCHANGED <<text, biwids, phrase, found, triples, counted>>

Skip ==
  /\ InLoop
  /\ ~IsStable(phrase, it1)
  /\ found' = FALSE
  /\ it1' = it1 + 1
  /\ UNCHANGED <<text, biwids, phrase, triples, counted>>

(* As a bug would have it: the triple to the left is counted although the  *)
(* pair before it was found and has counted it already.                    *)
HitAlways ==
  /\ InLoop
  /\ IsStable(phrase, it1)
  /\ CountAt({<<phrase, p>> : p \in {n \in {it1 - 1, it1} : n >= 1 /\ n + 2 <= Len(text[phrase])}})
  /\ found' = TRUE
  /\ it1' = it1 + 1
  /\ UNCHANGED <<text, biwids, phrase>>

(* The triple that ends with the pair, unless the previous pair has        *)
(* counted it, and the triple that starts with the pair.                   *)
ToTheLeft == IF ~found /\ it1 # 1 THEN {<<phrase, it1 - 1>>} ELSE {}
ToTheRight == IF it1 + 2 <= Len(text[phrase]) THEN {<<phrase, it1>>} ELSE {}

Hit ==
  /\ InLoop
  /\ IsStable(phrase, it1)
  /\ CountAt(ToTheLeft \cup ToTheRight)
  /\ found' = TRUE
  /\ it1' = it1 + 1
  /\ UNCHANGED <<text, biwids, phrase>>

(* The callback returns and read_fn calls it for the next phrase.          *)
NextPhrase ==
  /\ phrase <= Len(text)
  /\ ~InLoop
  /\ phrase' = phrase + 1
  /\ it1' = 1
  /\ found' = FALSE
  /\ UNCHANGED <<text, biwids, triples, counted>>

AtEnd == phrase > Len(text)

ScanTerminated == AtEnd /\ UNCHANGED scanVars

ScanNext == Skip \/ Hit \/ NextPhrase \/ ScanTerminated

ScanSpec == ScanInit /\ [][ScanNext]_scanVars

-----------------------------------------------------------------------------
ScanTypeOK ==
  /\ text \in Seq(Seq(Vocabulary))
  /\ biwids \subseteq Vocabulary \X Vocabulary
  /\ phrase \in Nat \ {0} /\ phrase <= Len(text) + 1
  /\ it1 \in Nat \ {0} /\ (phrase <= Len(text) => it1 = 1 \/ it1 <= Len(text[phrase]))
  /\ found \in BOOLEAN
  /\ triples \in [Triple -> Nat]
  /\ counted \subseteq Nat \X Nat

(* The occurrences worth counting: triples with a stable pair on the left  *)
(* or on the right.                                                        *)
WantedIn(a) ==
  {p \in 1..(Len(text[a]) - 2) : IsStable(a, p) \/ IsStable(a, p + 1)}

Wanted == UNION {{a} \X WantedIn(a) : a \in DOMAIN text}

(* Every triple's count is the number of its counted occurrences: no       *)
(* occurrence is counted twice, by its left pair and by its right one.     *)
CountsOccurrences ==
  \A t \in Triple :
    triples[t] = Cardinality({x \in counted : TripleAt(x[1], x[2]) = t})

(* The whole corpus read, the occurrences counted are those with a stable  *)
(* pair, the first and the last of a phrase included.                      *)
CountsWanted == AtEnd => counted = Wanted

=============================================================================
