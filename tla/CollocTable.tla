---------------------------- MODULE CollocTable ----------------------------
(***************************************************************************)
(* What colloc promises to extract from a corpus, said of the text alone:  *)
(* no ids, no files, no stages, no order.  A lemma is exported with its    *)
(* documents when it has more than MinDocs; a pair or a triple of lemmas   *)
(* when it is frequent and stable, with its documents and the words it is  *)
(* mostly made of.  A triple is looked at where a word pair of a kept pair *)
(* of lemmas stands in it.                                                 *)
(***************************************************************************)
EXTENDS Integers, Sequences, FiniteSets
LOCAL INSTANCE FiniteSetsExt
LOCAL INSTANCE SequencesExt
LOCAL INSTANCE Functions
LOCAL INSTANCE TLC

CONSTANTS
  Text,        (* documents: sequences of phrases, sequences of words      *)
  Dictionary,  (* the lemmas of each word                                  *)
  Threshold, Th1, Th2, MinDocs,
  Scale        (* weights are multiples of 1 / Scale                       *)

-----------------------------------------------------------------------------
Phrases == {<<d, p>> \in (DOMAIN Text) \X (1..Max({Len(Text[d]) : d \in DOMAIN Text})) : p \in DOMAIN Text[d]}

(* Where a sequence of words stands: document, phrase, place.              *)
Occurrences(seq) ==
  UNION {LET ph == Text[x[1]][x[2]]
         IN  {<<x[1], x[2], i>> : i \in {j \in 1..(Len(ph) - Len(seq) + 1) :
                                           SubSeq(ph, j, j + Len(seq) - 1) = seq}} : x \in Phrases}

Times(seq) == Cardinality(Occurrences(seq))

Vocabulary == UNION {ToSet(Text[x[1]][x[2]]) : x \in Phrases}
LemmasOf(w) == ToSet(Dictionary[w])
LemmaSet == UNION {LemmasOf(w) : w \in Vocabulary}

Tuples(S, a) == [1..a -> S]
Matches(seq, t) == \A p \in DOMAIN t : t[p] \in LemmasOf(seq[p])

(* How often the word tuples of S are read as t, homonyms sharing.         *)
Homonyms(seq) == FoldFunction(LAMBDA w, n : n * Cardinality(LemmasOf(w)), 1, seq)

Weight(S, t) ==
  MapThenSumSet(LAMBDA s : (Scale * Times(s)) \div Homonyms(s), {s \in S : Matches(s, t)})

Df(t) ==
  Cardinality({x[1] : x \in UNION {Occurrences(s) : s \in {w \in Tuples(Vocabulary, Len(t)) : Matches(w, t)}}})

(* The formula of README.md: (Wij - threshold) / (Wi * Wj), normalised.    *)
LemmaWeight == [l \in LemmaSet |-> Weight(Tuples(Vocabulary, 1), <<l>>)]

IsStable(t, w) ==
  (Cardinality(LemmaSet) * Scale)^(Len(t) - 1) * (w - Threshold * Scale) * Th2[Len(t)][2]
    > Th2[Len(t)][1] * FoldFunction(LAMBDA l, r : LemmaWeight[l] * r, 1, t)

(* The lemma tuples to export, if the word tuples of S are counted.        *)
Kept(S, a) ==
  {t \in Tuples(LemmaSet, a) :
     /\ Weight(S, t) > Threshold * Scale
     /\ IsStable(t, Weight(S, t))
     /\ Df(t) > Th1}

Rows(S, kept) ==
  [t \in kept |->
     LET cases == {s \in S : Matches(s, t)}
     IN  [dc |-> Df(t), txt |-> {s \in cases : \A r \in cases : Times(r) <= Times(s)}]]

Met(a) == {s \in Tuples(Vocabulary, a) : Occurrences(s) # {}}

Table ==
  LET keptPairs == Kept(Met(2), 2)
      InKept(s) == \E t \in keptPairs : Matches(s, t)
      triples == {s \in Met(3) : InKept(<<s[1], s[2]>>) \/ InKept(<<s[2], s[3]>>)}
      singles == {t \in Tuples(LemmaSet, 1) : Df(t) > MinDocs}
  IN  [t \in singles |-> [dc |-> Df(t), txt |-> {}]]
        @@ Rows(Met(2), keptPairs) @@ Rows(triples, Kept(triples, 3))

=============================================================================
