--------------------------- MODULE DocFreqProofs ---------------------------
(***************************************************************************)
(* The document frequencies are counts of documents, the checks stop on    *)
(* strangers only, and the filter keeps what it should, for any corpus,    *)
(* any lemmas, any group file and any thresholds.                          *)
(***************************************************************************)
EXTENDS DocFreq, FiniteSetTheorems, TLAPS

TypeOK ==
  /\ arity \in Arities
  /\ corpus \in Seq(Seq(Word))
  /\ corpus # <<>> => corpus[Len(corpus)] = <<>>
  /\ lems \in [Word -> Seq(Lemma)]
  /\ extended \subseteq Groups(arity)
  /\ next \in 1..(Len(corpus) + 1)
  /\ freq \in [extended -> Nat]
  /\ pc \in {"count", "filter", "failed"}

(* The phrases of the document that ends after phrase n or later, as far   *)
(* as they precede n; and the finished documents with a phrase of S.       *)
CurrentAt(n) == {i \in 1..(n - 1) : DocOf(i) = DocOf(n)}

DocsOf(S, n) == {d \in 1..(DocOf(n) - 1) : \E i \in S : DocOf(i) = d}

PhrasesWith(g) == {i \in DOMAIN corpus : OccursIn(g, corpus[i])}
PhrasesOf(l) == {i \in DOMAIN corpus : LemmaIn(l, corpus[i])}

(* The two sets are those of the current document.                         *)
SetsAreCurrent ==
  /\ set = {g \in extended : PhrasesWith(g) \cap CurrentAt(next) # {}}
  /\ uniset = {l \in LemIds : arity = 2 /\ PhrasesOf(l) \cap CurrentAt(next) # {}}

(* A lemma is in the table from its first document on.                     *)
UniIsSeen ==
  arity = 2 => DOMAIN uni = {l \in LemIds : DocsOf(PhrasesOf(l), next) # {}}

AllRead == pc # "count" => next = Len(corpus) + 1

(* The filter has written what passes of the groups it has taken, in       *)
(* order, and none of those is below a group it has still to take.         *)
FilterOK ==
  /\ todo \subseteq extended
  /\ pc = "count" => todo = extended /\ filtered = <<>>
  /\ filtered \in Seq(extended)
  /\ {filtered[i] : i \in DOMAIN filtered} = {g \in extended \ todo : Passes(g)}
  /\ \A i \in DOMAIN filtered : \A h \in todo : Score(h) <= Score(filtered[i])
  /\ \A i, j \in DOMAIN filtered :
       i < j => filtered[i] # filtered[j] /\ Score(filtered[i]) >= Score(filtered[j])

(* The inductive invariant.                                                *)
IInv ==
  /\ TypeOK
  /\ SetsAreCurrent
  /\ UniIsSeen
  /\ AllRead
  /\ FilterOK
  /\ FrequenciesAreDocuments
  /\ StopsOnStrangers

-----------------------------------------------------------------------------
(* The number of a phrase's document: one more after every empty phrase.   *)
LEMMA DocOfIsNat ==
  ASSUME TypeOK, NEW n \in 1..(Len(corpus) + 1)
  PROVE  DocOf(n) \in Nat \ {0}
<1> DEFINE E == {j \in 1..(n - 1) : corpus[j] = <<>>}
<1>1. IsFiniteSet(1..(n - 1))
  BY FS_Interval, Len(corpus) \in Nat DEF TypeOK
<1>2. Cardinality(E) \in Nat
  BY <1>1, FS_Subset, FS_CardinalityType
<1> QED
  BY <1>2 DEF DocOf

LEMMA DocOfStep ==
  ASSUME TypeOK, NEW n \in DOMAIN corpus
  PROVE  DocOf(n + 1) = IF corpus[n] = <<>> THEN DocOf(n) + 1 ELSE DocOf(n)
<1> DEFINE E(m) == {j \in 1..(m - 1) : corpus[j] = <<>>}
<1>1. n \in Nat /\ n >= 1
  BY DEF TypeOK
<1>2. IsFiniteSet(1..(n - 1))
  BY <1>1, FS_Interval
<1>3. IsFiniteSet(E(n)) /\ Cardinality(E(n)) \in Nat
  BY <1>2, FS_Subset, FS_CardinalityType
<1>4. E(n + 1) = IF corpus[n] = <<>> THEN E(n) \cup {n} ELSE E(n)
  BY <1>1
<1>5. n \notin E(n)
  BY <1>1
<1>6. Cardinality(E(n) \cup {n}) = Cardinality(E(n)) + 1
  BY <1>3, <1>5, FS_AddElement
<1>7. DocOf(n) = Cardinality(E(n)) + 1 /\ DocOf(n + 1) = Cardinality(E(n + 1)) + 1
  BY DEF DocOf
<1> HIDE DEF E
<1> QED
  BY <1>3, <1>4, <1>6, <1>7

LEMMA DocOfGrows ==
  ASSUME TypeOK, NEW m \in 1..(Len(corpus) + 1), NEW n \in 1..(Len(corpus) + 1), m <= n
  PROVE  DocOf(m) <= DocOf(n)
<1> DEFINE E(k) == {j \in 1..(k - 1) : corpus[j] = <<>>}
<1>1. m \in Int /\ n \in Int /\ Len(corpus) \in Nat
  BY DEF TypeOK
<1>2. IsFiniteSet(1..(n - 1))
  BY <1>1, FS_Interval
<1>3. IsFiniteSet(E(n))
  BY <1>2, FS_Subset
<1>4. E(m) \subseteq E(n)
  BY <1>1
<1>5. /\ Cardinality(E(m)) <= Cardinality(E(n))
      /\ Cardinality(E(m)) \in Nat /\ Cardinality(E(n)) \in Nat
  <2> HIDE DEF E
  <2> QED
    BY <1>3, <1>4, FS_Subset, FS_CardinalityType
<1>6. DocOf(m) = Cardinality(E(m)) + 1 /\ DocOf(n) = Cardinality(E(n)) + 1
  BY DEF DocOf
<1> HIDE DEF E
<1> QED
  BY <1>5, <1>6

LEMMA DocsOfIsFinite ==
  ASSUME TypeOK, NEW S, NEW n \in 1..(Len(corpus) + 1)
  PROVE  /\ IsFiniteSet(DocsOf(S, n)) /\ Cardinality(DocsOf(S, n)) \in Nat
         /\ Cardinality(DocsOf(S, n)) = 0 <=> DocsOf(S, n) = {}
<1>1. DocOf(n) \in Nat \ {0}
  BY DocOfIsNat
<1>2. IsFiniteSet(1..(DocOf(n) - 1))
  BY <1>1, FS_Interval
<1>3. IsFiniteSet(DocsOf(S, n))
  BY <1>2, FS_Subset DEF DocsOf
<1> QED
  BY <1>3, FS_CardinalityType, FS_EmptySet

(* A phrase with words joins the current document.                         *)
LEMMA PhraseExtends ==
  ASSUME TypeOK, NEW n \in DOMAIN corpus, corpus[n] # <<>>
  PROVE  /\ CurrentAt(n + 1) = CurrentAt(n) \cup {n}
         /\ \A S : DocsOf(S, n + 1) = DocsOf(S, n)
<1>1. DocOf(n + 1) = DocOf(n)
  BY DocOfStep
<1>2. n \in Nat \ {0}
  <2>1. corpus \in Seq(Seq(Word))
    BY DEF TypeOK
  <2> QED
    BY <2>1
<1> QED
  BY <1>1, <1>2 DEF CurrentAt, DocsOf

(* An empty phrase makes the current document a finished one, which has a  *)
(* phrase of S when the current one had, and leaves the next one empty.    *)
LEMMA EmptyPhraseEnds ==
  ASSUME TypeOK, NEW n \in DOMAIN corpus, corpus[n] = <<>>,
         NEW S \in SUBSET DOMAIN corpus, n \notin S
  PROVE  /\ CurrentAt(n + 1) = {}
         /\ DocsOf(S, n + 1) = IF S \cap CurrentAt(n) # {} THEN DocsOf(S, n) \cup {DocOf(n)}
                                                            ELSE DocsOf(S, n)
         /\ Cardinality(DocsOf(S, n + 1)) =
              Cardinality(DocsOf(S, n)) + (IF S \cap CurrentAt(n) # {} THEN 1 ELSE 0)
<1> DEFINE L == 1..(Len(corpus) + 1)
<1>1. /\ Len(corpus) \in Nat /\ DOMAIN corpus = 1..Len(corpus)
      /\ n \in L /\ n + 1 \in L /\ n \in Int
  BY DEF TypeOK
<1>2. \A k \in L : DocOf(k) \in Nat \ {0}
  BY DocOfIsNat
<1>3. DocOf(n + 1) = DocOf(n) + 1
  BY DocOfStep
<1>4. \A k \in L : (k <= n => DocOf(k) <= DocOf(n)) /\ (k > n => DocOf(k) > DocOf(n))
  <2> SUFFICES ASSUME NEW k \in L
               PROVE  (k <= n => DocOf(k) <= DocOf(n)) /\ (k > n => DocOf(k) > DocOf(n))
    OBVIOUS
  <2>1. k <= n => DocOf(k) <= DocOf(n)
    BY <1>1, DocOfGrows
  <2>2. k > n => DocOf(n + 1) <= DocOf(k)
    BY <1>1, DocOfGrows
  <2> QED
    BY <1>1, <1>2, <1>3, <2>1, <2>2
<1>5. CurrentAt(n + 1) = {}
  <2>1. \A k \in 1..n : DocOf(k) <= DocOf(n) /\ DocOf(k) \in Nat
    BY <1>1, <1>2, <1>4
  <2> QED
    BY <1>1, <1>2, <1>3, <2>1 DEF CurrentAt
<1>6. (\E i \in S : DocOf(i) = DocOf(n)) <=> S \cap CurrentAt(n) # {}
  <2>1. ASSUME NEW i \in S, DocOf(i) = DocOf(n) PROVE i \in CurrentAt(n)
    <3>1. i \in L /\ i # n /\ i \in Int
      BY <1>1
    <3>2. ~(i > n)
      BY <1>2, <1>4, <2>1, <3>1, <1>1
    <3> QED
      BY <1>1, <2>1, <3>1, <3>2 DEF CurrentAt
  <2> QED
    BY <2>1 DEF CurrentAt
<1>7. 1..(DocOf(n + 1) - 1) = 1..(DocOf(n) - 1) \cup {DocOf(n)}
  BY <1>1, <1>2, <1>3
<1>8. DocsOf(S, n + 1) = IF S \cap CurrentAt(n) # {} THEN DocsOf(S, n) \cup {DocOf(n)}
                                                     ELSE DocsOf(S, n)
  BY <1>6, <1>7 DEF DocsOf
<1>9. DocOf(n) \notin DocsOf(S, n)
  BY <1>1, <1>2 DEF DocsOf
<1>10. IsFiniteSet(DocsOf(S, n)) /\ Cardinality(DocsOf(S, n)) \in Nat
  BY <1>1, DocsOfIsFinite
<1>11. Cardinality(DocsOf(S, n) \cup {DocOf(n)}) = Cardinality(DocsOf(S, n)) + 1
  BY <1>9, <1>10, FS_AddElement
<1> QED
  BY <1>5, <1>8, <1>10, <1>11

-----------------------------------------------------------------------------
(* The documents of the properties, in the terms of the lemmas above.      *)
LEMMA DocsAreDocsOf ==
  /\ \A g : DocsWith(OccursIn, g) = DocsOf(PhrasesWith(g), next)
  /\ \A l : DocsWith(LemmaIn, l) = DocsOf(PhrasesOf(l), next)
BY DEF DocsWith, DocsOf, PhrasesWith, PhrasesOf

LEMMA TuplesAreOccurrences ==
  ASSUME TypeOK, NEW g \in extended, NEW ph \in Seq(Word)
  PROVE  g \in TuplesIn(ph) <=> OccursIn(g, ph)
<1>1. Len(ph) \in Nat /\ DOMAIN ph = 1..Len(ph)
  OBVIOUS
<1>2. CASE arity = 2
  <2>1. g \in Lemma \X Lemma /\ 1..2 = {1, 2}
    BY <1>2 DEF TypeOK, Groups
  <2>2. ASSUME NEW A, NEW B PROVE g \in A \X B <=> g[1] \in A /\ g[2] \in B
    BY <2>1
  <2>3. g \in TuplesIn(ph) <=>
          \E i \in 1..(Len(ph) - 1) : g[1] \in LemsOf(ph[i]) /\ g[2] \in LemsOf(ph[i + 1])
    <3>1. g \in TuplesIn(ph) <=>
            \E i \in 1..(Len(ph) - 1) : g \in LemsOf(ph[i]) \X LemsOf(ph[i + 1])
      BY <1>2 DEF TuplesIn
    <3> QED
      BY <2>2, <3>1
  <2>4. OccursIn(g, ph) <=>
          \E i \in 0..(Len(ph) - 2) : g[1] \in LemsOf(ph[i + 1]) /\ g[2] \in LemsOf(ph[i + 2])
    BY <1>2, <2>1 DEF OccursIn
  <2>5. ASSUME NEW i \in 1..(Len(ph) - 1), g[1] \in LemsOf(ph[i]), g[2] \in LemsOf(ph[i + 1])
        PROVE  OccursIn(g, ph)
    <3>1. i - 1 \in 0..(Len(ph) - 2) /\ i - 1 + 1 = i /\ i - 1 + 2 = i + 1
      BY <1>1
    <3> QED
      BY <2>4, <2>5, <3>1
  <2>6. ASSUME NEW i \in 0..(Len(ph) - 2), g[1] \in LemsOf(ph[i + 1]), g[2] \in LemsOf(ph[i + 2])
        PROVE  g \in TuplesIn(ph)
    <3>1. i + 1 \in 1..(Len(ph) - 1) /\ i + 1 + 1 = i + 2
      BY <1>1
    <3> QED
      BY <2>3, <2>6, <3>1
  <2> QED
    BY <2>3, <2>4, <2>5, <2>6
<1>3. CASE arity = 3
  <2>1. g \in Lemma \X Lemma \X Lemma /\ 1..3 = {1, 2, 3}
    BY <1>3 DEF TypeOK, Groups
  <2>2. ASSUME NEW A, NEW B, NEW C
        PROVE  g \in A \X B \X C <=> g[1] \in A /\ g[2] \in B /\ g[3] \in C
    BY <2>1
  <2>3. g \in TuplesIn(ph) <=>
          \E i \in 1..(Len(ph) - 2) :
            g[1] \in LemsOf(ph[i]) /\ g[2] \in LemsOf(ph[i + 1]) /\ g[3] \in LemsOf(ph[i + 2])
    <3>1. TuplesIn(ph) =
            UNION {LemsOf(ph[i]) \X LemsOf(ph[i + 1]) \X LemsOf(ph[i + 2]) : i \in 1..(Len(ph) - 2)}
      BY <1>3 DEF TuplesIn
    <3>2. ASSUME NEW i \in 1..(Len(ph) - 2)
          PROVE  g \in LemsOf(ph[i]) \X LemsOf(ph[i + 1]) \X LemsOf(ph[i + 2])
                   <=> /\ g[1] \in LemsOf(ph[i]) /\ g[2] \in LemsOf(ph[i + 1])
                       /\ g[3] \in LemsOf(ph[i + 2])
      BY <2>2
    <3> QED
      BY <3>1, <3>2
  <2>4. OccursIn(g, ph) <=>
          \E i \in 0..(Len(ph) - 3) :
            g[1] \in LemsOf(ph[i + 1]) /\ g[2] \in LemsOf(ph[i + 2]) /\ g[3] \in LemsOf(ph[i + 3])
    BY <1>3, <2>1 DEF OccursIn
  <2>5. ASSUME NEW i \in 1..(Len(ph) - 2),
               g[1] \in LemsOf(ph[i]), g[2] \in LemsOf(ph[i + 1]), g[3] \in LemsOf(ph[i + 2])
        PROVE  OccursIn(g, ph)
    <3>1. i - 1 \in 0..(Len(ph) - 3) /\ i - 1 + 1 = i /\ i - 1 + 2 = i + 1 /\ i - 1 + 3 = i + 2
      BY <1>1
    <3> QED
      BY <2>4, <2>5, <3>1
  <2>6. ASSUME NEW i \in 0..(Len(ph) - 3),
               g[1] \in LemsOf(ph[i + 1]), g[2] \in LemsOf(ph[i + 2]), g[3] \in LemsOf(ph[i + 3])
        PROVE  g \in TuplesIn(ph)
    <3>1. i + 1 \in 1..(Len(ph) - 2) /\ i + 1 + 1 = i + 2 /\ i + 1 + 2 = i + 3
      BY <1>1
    <3> QED
      BY <2>3, <2>6, <3>1
  <2> QED
    BY <2>3, <2>4, <2>5, <2>6
<1> QED
  BY <1>2, <1>3, DocFreqAssumption DEF TypeOK

LEMMA LemmasAreOccurrences ==
  \A l, ph : l \in LemmasIn(ph) <=> LemmaIn(l, ph)
BY DEF LemmasIn, LemmaIn

(* An empty phrase holds neither a group nor a lemma.                      *)
LEMMA EmptyHoldsNothing ==
  ASSUME TypeOK
  PROVE  /\ \A g : ~OccursIn(g, <<>>)
         /\ \A l : ~LemmaIn(l, <<>>)
<1>1. arity \in {2, 3} /\ Len(<<>>) = 0
  BY DocFreqAssumption DEF TypeOK
<1>2. 0..(0 - 2) = {} /\ 0..(0 - 3) = {}
  OBVIOUS
<1>3. \A g : ~OccursIn(g, <<>>)
  BY <1>1, <1>2 DEF OccursIn
<1> QED
  BY <1>3 DEF LemmaIn

(* The groups of Init's extended2.bin are tuples of lemma ids.             *)
LEMMA TuplesAreTyped ==
  ASSUME arity \in {2, 3}, lems \in [Word -> Seq(Lemma)], NEW ph \in Seq(Word)
  PROVE  TuplesIn(ph) \subseteq Groups(arity)
<1>1. \A w \in Word : LemsOf(w) \subseteq Lemma
  BY DEF LemsOf
<1>2. \A i \in 1..Len(ph) : LemsOf(ph[i]) \subseteq Lemma
  BY <1>1
<1>3. CASE arity = 2
  <2>1. \A i \in 1..(Len(ph) - 1) : i \in 1..Len(ph) /\ i + 1 \in 1..Len(ph)
    OBVIOUS
  <2>2. ASSUME NEW i \in 1..(Len(ph) - 1)
        PROVE  LemsOf(ph[i]) \X LemsOf(ph[i + 1]) \subseteq Lemma \X Lemma
    BY <1>2, <2>1
  <2>3. TuplesIn(ph) \subseteq Lemma \X Lemma
    BY <1>3, <2>2 DEF TuplesIn
  <2> QED
    BY <1>3, <2>3 DEF Groups
<1>4. CASE arity = 3
  <2>1. \A i \in 1..(Len(ph) - 2) :
          i \in 1..Len(ph) /\ i + 1 \in 1..Len(ph) /\ i + 2 \in 1..Len(ph)
    OBVIOUS
  <2>2. ASSUME NEW i \in 1..(Len(ph) - 2)
        PROVE  LemsOf(ph[i]) \X LemsOf(ph[i + 1]) \X LemsOf(ph[i + 2])
                 \subseteq Lemma \X Lemma \X Lemma
    BY <1>2, <2>1
  <2>3. TuplesIn(ph) \subseteq Lemma \X Lemma \X Lemma
    <3>1. TuplesIn(ph) =
            UNION {LemsOf(ph[i]) \X LemsOf(ph[i + 1]) \X LemsOf(ph[i + 2]) : i \in 1..(Len(ph) - 2)}
      BY <1>4 DEF TuplesIn
    <3> QED
      BY <2>2, <3>1
  <2> QED
    BY <1>4, <2>3 DEF Groups
<1> QED
  BY <1>3, <1>4

-----------------------------------------------------------------------------
LEMMA InitInv == Init => IInv
<1> SUFFICES ASSUME Init PROVE IInv
  OBVIOUS
<1>1. /\ arity \in Arities /\ arity \in {2, 3} /\ corpus \in Corpora /\ lems \in LemLists
      /\ extended \in SUBSET ((UNION {TuplesIn(corpus[i]) : i \in DOMAIN corpus}) \cup Strangers(arity))
      /\ next = 1 /\ uniset = {} /\ set = {} /\ uni = <<>> /\ freq = [g \in extended |-> 0]
      /\ pc = "count" /\ todo = extended /\ filtered = <<>>
  BY DocFreqAssumption DEF Init
<1>2. /\ corpus \in Seq(Seq(Word)) /\ (corpus # <<>> => corpus[Len(corpus)] = <<>>)
      /\ Len(corpus) \in Nat /\ DOMAIN corpus = 1..Len(corpus)
  BY <1>1, CorporaAssumption
<1>3. lems \in [Word -> Seq(Lemma)]
  BY <1>1, DocFreqAssumption
<1>4. extended \subseteq Groups(arity)
  <2>1. ASSUME NEW i \in DOMAIN corpus PROVE TuplesIn(corpus[i]) \subseteq Groups(arity)
    BY <1>1, <1>2, <1>3, TuplesAreTyped
  <2>2. Strangers(arity) \subseteq Groups(arity)
    BY <1>1, DocFreqAssumption
  <2>3. UNION {TuplesIn(corpus[i]) : i \in DOMAIN corpus} \subseteq Groups(arity)
    BY <2>1
  <2> QED
    BY <1>1, <2>2, <2>3
<1>5. TypeOK
  BY <1>1, <1>2, <1>3, <1>4 DEF TypeOK
<1>6. DocOf(next) = 1
  <2>1. {j \in 1..(1 - 1) : corpus[j] = <<>>} = {}
    OBVIOUS
  <2> QED
    BY <1>1, <2>1, FS_EmptySet DEF DocOf
<1>7. CurrentAt(next) = {} /\ \A S : DocsOf(S, next) = {}
  BY <1>1, <1>6 DEF CurrentAt, DocsOf
<1>8. SetsAreCurrent /\ UniIsSeen /\ AllRead
  BY <1>1, <1>7 DEF SetsAreCurrent, UniIsSeen, AllRead
<1>9. FilterOK
  BY <1>1 DEF FilterOK
<1>10. FrequenciesAreDocuments
  <2>1. Cardinality({}) = 0
    BY FS_EmptySet
  <2>2. \A g : Cardinality(DocsWith(OccursIn, g)) = 0 /\ Cardinality(DocsWith(LemmaIn, g)) = 0
    BY <1>7, <2>1, DocsAreDocsOf
  <2>3. DOMAIN uni = {}
    BY <1>1
  <2>4. \A g \in extended : freq[g] = 0
    BY <1>1
  <2> QED
    BY <2>2, <2>3, <2>4 DEF FrequenciesAreDocuments
<1> QED
  BY <1>1, <1>5, <1>8, <1>9, <1>10 DEF IInv, StopsOnStrangers

(* What depends on the inputs alone does not change.                       *)
LEMMA InputsStay ==
  ASSUME UNCHANGED inputs
  PROVE  /\ LemIds' = LemIds
         /\ \A g : PhrasesWith(g)' = PhrasesWith(g) /\ PhrasesOf(g)' = PhrasesOf(g)
         /\ CurrentAt(next)' = CurrentAt(next')
         /\ \A S : DocsOf(S, next)' = DocsOf(S, next')
<1>1. arity' = arity /\ corpus' = corpus /\ lems' = lems /\ extended' = extended
  BY DEF inputs
<1>2. LemIds' = LemIds
  BY <1>1 DEF LemIds, LemmasIn, LemsOf
<1>3. \A g : PhrasesWith(g)' = PhrasesWith(g)
  BY <1>1 DEF PhrasesWith, OccursIn, LemsOf
<1>4. \A g : PhrasesOf(g)' = PhrasesOf(g)
  BY <1>1 DEF PhrasesOf, LemmaIn, LemsOf
<1>5. \A n : DocOf(n)' = DocOf(n)
  BY <1>1 DEF DocOf
<1>6. DocOf(next)' = DocOf(next')
  BY <1>1 DEF DocOf
<1>7. CurrentAt(next)' = CurrentAt(next')
  BY <1>5, <1>6 DEF CurrentAt
<1>8. \A S : DocsOf(S, next)' = DocsOf(S, next')
  BY <1>5, <1>6 DEF DocsOf
<1> QED
  BY <1>2, <1>3, <1>4, <1>7, <1>8

(* The properties in terms of the phrases alone.                           *)
Frequencies ==
  /\ \A g \in extended : freq[g] = Cardinality(DocsOf(PhrasesWith(g), next))
  /\ arity = 2 =>
       \A l \in LemIds :
         (IF l \in DOMAIN uni THEN uni[l] ELSE 0) = Cardinality(DocsOf(PhrasesOf(l), next))

LEMMA FrequenciesRestated == FrequenciesAreDocuments <=> Frequencies
BY DocsAreDocsOf DEF FrequenciesAreDocuments, Frequencies

(* What the counting steps leave alone.                                    *)
LEMMA CountingKeeps ==
  ASSUME IInv, UNCHANGED <<inputs, pc, todo, filtered>>, pc = "count",
         DOMAIN freq' = DOMAIN freq
  PROVE  FilterOK' /\ AllRead' /\ StopsOnStrangers'
<1>1. /\ arity' = arity /\ corpus' = corpus /\ lems' = lems /\ extended' = extended
      /\ pc' = pc /\ todo' = todo /\ filtered' = filtered /\ pc = "count"
  BY DEF inputs
<1>2. todo = extended /\ filtered = <<>>
  BY <1>1 DEF IInv, FilterOK
<1>3. FilterOK'
  BY <1>1, <1>2 DEF FilterOK
<1> QED
  BY <1>1, <1>3 DEF AllRead, StopsOnStrangers

(* A phrase with words: its groups and lemmas join those of its document.  *)
LEMMA PhraseInv == IInv /\ Phrase => IInv'
<1> SUFFICES ASSUME IInv, Phrase PROVE IInv'
  OBVIOUS
<1> DEFINE ph == corpus[next]
<1>1. /\ pc = "count" /\ next \in DOMAIN corpus /\ ph # <<>> /\ ph \in Seq(Word)
      /\ next' = next + 1 /\ UNCHANGED <<inputs, uni, freq, pc, todo, filtered>>
      /\ uniset' = IF arity = 2 THEN uniset \cup LemmasIn(ph) ELSE {}
      /\ set' = set \cup (TuplesIn(ph) \cap DOMAIN freq)
      /\ TypeOK /\ arity' = arity /\ extended' = extended
  BY DEF Phrase, Reading, IInv, TypeOK, inputs
<1>2. TypeOK'
  <2>1. next' \in 1..(Len(corpus) + 1)
    <3>1. corpus \in Seq(Seq(Word))
      BY <1>1 DEF TypeOK
    <3>2. next \in 1..Len(corpus) /\ Len(corpus) \in Nat /\ next' = next + 1
      BY <1>1, <3>1
    <3> QED
      BY <3>2
  <2> QED
    BY <1>1, <2>1 DEF TypeOK, inputs
<1>3. FilterOK' /\ AllRead' /\ StopsOnStrangers'
  BY <1>1, CountingKeeps
<1>4. CurrentAt(next)' = CurrentAt(next) \cup {next} /\ \A S : DocsOf(S, next)' = DocsOf(S, next)
  BY <1>1, InputsStay, PhraseExtends
<1>5. \A g : PhrasesWith(g)' = PhrasesWith(g) /\ PhrasesOf(g)' = PhrasesOf(g)
  BY <1>1, InputsStay
<1>6. \A g \in extended : g \in TuplesIn(ph) <=> next \in PhrasesWith(g)
  BY <1>1, TuplesAreOccurrences DEF PhrasesWith
<1>7. \A l : l \in LemmasIn(ph) <=> next \in PhrasesOf(l)
  BY <1>1, LemmasAreOccurrences DEF PhrasesOf
<1>8. LemmasIn(ph) \subseteq LemIds /\ LemIds' = LemIds
  BY <1>1, InputsStay DEF LemIds
<1>9. SetsAreCurrent'
  <2>1. DOMAIN freq = extended
    BY <1>1 DEF TypeOK
  <2>2. set' = {g \in extended : PhrasesWith(g) \cap CurrentAt(next)' # {}}
    BY <1>1, <1>4, <1>6, <2>1 DEF IInv, SetsAreCurrent
  <2>3. uniset' = {l \in LemIds : arity = 2 /\ PhrasesOf(l) \cap CurrentAt(next)' # {}}
    BY <1>1, <1>4, <1>7, <1>8 DEF IInv, SetsAreCurrent
  <2> QED
    BY <1>1, <1>5, <1>8, <2>2, <2>3 DEF SetsAreCurrent
<1>10. UniIsSeen'
  BY <1>1, <1>4, <1>5, <1>8 DEF IInv, UniIsSeen
<1>11. FrequenciesAreDocuments'
  <2>1. Frequencies
    BY FrequenciesRestated DEF IInv
  <2>2. Frequencies'
    BY <1>1, <1>4, <1>5, <1>8, <2>1 DEF Frequencies
  <2> QED
    BY <2>2, FrequenciesRestated, PTL
<1> QED
  BY <1>2, <1>3, <1>9, <1>10, <1>11 DEF IInv

(* The end of a document: it counts once for everything it holds.          *)
LEMMA EndDocumentInv == IInv /\ EndDocument => IInv'
<1> SUFFICES ASSUME IInv, EndDocument PROVE IInv'
  OBVIOUS
<1>1. /\ pc = "count" /\ next \in DOMAIN corpus /\ corpus[next] = <<>>
      /\ next' = next + 1 /\ UNCHANGED <<inputs, pc, todo, filtered>>
      /\ uni' = Increment(uni, uniset) /\ freq' = Increment(freq, set)
      /\ uniset' = {} /\ set' = {}
      /\ TypeOK /\ arity' = arity /\ extended' = extended
  BY DEF EndDocument, Reading, IInv, TypeOK, inputs
<1>2. DOMAIN freq = extended /\ set \subseteq extended /\ Frequencies
  BY <1>1, FrequenciesRestated DEF IInv, TypeOK, SetsAreCurrent
<1>3. /\ DOMAIN freq' = extended
      /\ \A g \in extended : freq'[g] = freq[g] + (IF g \in set THEN 1 ELSE 0)
  BY <1>1, <1>2 DEF Increment
<1>4. TypeOK'
  <2>1. next' \in 1..(Len(corpus) + 1)
    BY <1>1 DEF TypeOK
  <2>2. freq' \in [extended -> Nat]
    <3>1. ASSUME NEW g \in extended PROVE freq'[g] \in Nat
      <4>1. freq[g] \in Nat
        BY <1>1 DEF TypeOK
      <4> QED
        BY <1>3, <4>1
    <3>2. freq' = [g \in extended |-> freq'[g]]
      BY <1>1, <1>2 DEF Increment
    <3> QED
      BY <3>1, <3>2
  <2> QED
    BY <1>1, <2>1, <2>2 DEF TypeOK, inputs
<1>5. FilterOK' /\ AllRead' /\ StopsOnStrangers'
  BY <1>1, <1>2, <1>3, CountingKeeps
<1>6. /\ \A g : PhrasesWith(g)' = PhrasesWith(g) /\ PhrasesOf(g)' = PhrasesOf(g)
      /\ \A g : PhrasesWith(g) \in SUBSET DOMAIN corpus /\ next \notin PhrasesWith(g)
      /\ \A l : PhrasesOf(l) \in SUBSET DOMAIN corpus /\ next \notin PhrasesOf(l)
      /\ LemIds' = LemIds
  <2>1. \A g : ~OccursIn(g, corpus[next]) /\ ~LemmaIn(g, corpus[next])
    BY <1>1, EmptyHoldsNothing
  <2> QED
    BY <1>1, <2>1, InputsStay DEF PhrasesWith, PhrasesOf
<1>7. \A S \in SUBSET DOMAIN corpus : next \notin S =>
        /\ CurrentAt(next)' = {}
        /\ DocsOf(S, next)' = IF S \cap CurrentAt(next) # {} THEN DocsOf(S, next) \cup {DocOf(next)}
                                                            ELSE DocsOf(S, next)
        /\ Cardinality(DocsOf(S, next)') =
             Cardinality(DocsOf(S, next)) + (IF S \cap CurrentAt(next) # {} THEN 1 ELSE 0)
  <2> SUFFICES ASSUME NEW S \in SUBSET DOMAIN corpus, next \notin S
               PROVE  /\ CurrentAt(next + 1) = {}
                      /\ DocsOf(S, next + 1) =
                           IF S \cap CurrentAt(next) # {} THEN DocsOf(S, next) \cup {DocOf(next)}
                                                          ELSE DocsOf(S, next)
                      /\ Cardinality(DocsOf(S, next + 1)) =
                           Cardinality(DocsOf(S, next)) + (IF S \cap CurrentAt(next) # {} THEN 1 ELSE 0)
    BY <1>1, InputsStay
  <2> QED
    BY <1>1, EmptyPhraseEnds
<1>8. CurrentAt(next)' = {}
  <2>1. {} \in SUBSET DOMAIN corpus /\ next \notin {}
    OBVIOUS
  <2> QED
    BY <1>7, <2>1
<1>9. SetsAreCurrent'
  BY <1>1, <1>8 DEF SetsAreCurrent
<1>10. ASSUME NEW l \in LemIds, arity = 2
       PROVE  (IF l \in DOMAIN uni' THEN uni'[l] ELSE 0) = Cardinality(DocsOf(PhrasesOf(l), next)')
  <2>1. (IF l \in DOMAIN uni THEN uni[l] ELSE 0) = Cardinality(DocsOf(PhrasesOf(l), next))
    BY <1>2, <1>10 DEF Frequencies
  <2>2. Cardinality(DocsOf(PhrasesOf(l), next)) \in Nat
    BY <1>1, DocsOfIsFinite DEF TypeOK
  <2>3. l \in uniset <=> PhrasesOf(l) \cap CurrentAt(next) # {}
    BY <1>10 DEF IInv, SetsAreCurrent
  <2>4. Cardinality(DocsOf(PhrasesOf(l), next)') =
          Cardinality(DocsOf(PhrasesOf(l), next)) + (IF l \in uniset THEN 1 ELSE 0)
    BY <1>6, <1>7, <2>3
  <2>5. (IF l \in DOMAIN uni' THEN uni'[l] ELSE 0) =
          (IF l \in DOMAIN uni THEN uni[l] ELSE 0) + (IF l \in uniset THEN 1 ELSE 0)
    BY <1>1 DEF Increment
  <2> QED
    BY <2>1, <2>4, <2>5
<1>11. FrequenciesAreDocuments'
  <2>1. ASSUME NEW g \in extended
        PROVE  freq'[g] = Cardinality(DocsOf(PhrasesWith(g), next)')
    <3>1. g \in set <=> PhrasesWith(g) \cap CurrentAt(next) # {}
      BY DEF IInv, SetsAreCurrent
    <3>2. freq[g] = Cardinality(DocsOf(PhrasesWith(g), next))
      BY <1>2 DEF Frequencies
    <3> QED
      BY <1>3, <1>6, <1>7, <3>1, <3>2
  <2>2. Frequencies'
    BY <1>1, <1>6, <1>10, <2>1 DEF Frequencies
  <2> QED
    BY <2>2, FrequenciesRestated, PTL
<1>12. UniIsSeen'
  <2> SUFFICES ASSUME arity = 2
               PROVE  DOMAIN uni' = {l \in LemIds : DocsOf(PhrasesOf(l), next)' # {}}
    BY <1>1, <1>6 DEF UniIsSeen
  <2>1. DOMAIN uni' = DOMAIN uni \cup uniset
    BY <1>1 DEF Increment
  <2>2. DOMAIN uni = {l \in LemIds : DocsOf(PhrasesOf(l), next) # {}}
    BY DEF IInv, UniIsSeen
  <2>3. uniset = {l \in LemIds : PhrasesOf(l) \cap CurrentAt(next) # {}}
    BY DEF IInv, SetsAreCurrent
  <2>4. \A l \in LemIds : DocsOf(PhrasesOf(l), next)' # {}
                           <=> DocsOf(PhrasesOf(l), next) # {} \/ PhrasesOf(l) \cap CurrentAt(next) # {}
    BY <1>6, <1>7
  <2> QED
    BY <2>1, <2>2, <2>3, <2>4
<1> QED
  BY <1>4, <1>5, <1>9, <1>11, <1>12 DEF IInv

(* When the corpus is read, every phrase is one of a finished document.    *)
LEMMA AllDocumentsEnded ==
  ASSUME TypeOK, next = Len(corpus) + 1, NEW S \in SUBSET DOMAIN corpus
  PROVE  DocsOf(S, next) = {} <=> S = {}
<1>1. Len(corpus) \in Nat /\ DOMAIN corpus = 1..Len(corpus)
  BY DEF TypeOK
<1>2. ASSUME NEW i \in S PROVE DocOf(i) \in 1..(DocOf(next) - 1)
  <2>1. i \in 1..Len(corpus) /\ Len(corpus) \in 1..(Len(corpus) + 1) /\ Len(corpus) >= 1
    BY <1>1
  <2>2. DocOf(i) \in Nat \ {0} /\ DocOf(Len(corpus)) \in Nat \ {0}
    BY <1>1, <2>1, DocOfIsNat
  <2>3. DocOf(i) <= DocOf(Len(corpus))
    BY <1>1, <2>1, DocOfGrows
  <2>4. corpus[Len(corpus)] = <<>>
    BY <2>1 DEF TypeOK
  <2>5. DocOf(next) = DocOf(Len(corpus)) + 1
    BY <1>1, <2>1, <2>4, DocOfStep
  <2> QED
    BY <2>2, <2>3, <2>5
<1> QED
  BY <1>2 DEF DocsOf

(* The checks pass exactly when every group occurs somewhere.              *)
LEMMA FinishInv == IInv /\ Finish => IInv'
<1> SUFFICES ASSUME IInv, Finish PROVE IInv'
  OBVIOUS
<1>1. /\ pc = "count" /\ next > Len(corpus)
      /\ pc' = IF NoneIsZero /\ SizesAgree THEN "filter" ELSE "failed"
      /\ UNCHANGED <<inputs, next, uniset, set, uni, freq, todo, filtered>>
      /\ arity' = arity /\ corpus' = corpus /\ lems' = lems /\ extended' = extended
  BY DEF Finish, inputs
<1>2. TypeOK /\ next = Len(corpus) + 1
  BY <1>1 DEF IInv, TypeOK
<1>3. /\ \A g : PhrasesWith(g)' = PhrasesWith(g) /\ PhrasesOf(g)' = PhrasesOf(g)
      /\ LemIds' = LemIds /\ CurrentAt(next)' = CurrentAt(next)
      /\ \A S : DocsOf(S, next)' = DocsOf(S, next)
  BY <1>1, InputsStay
<1>4. TypeOK'
  BY <1>1, <1>2 DEF TypeOK
<1>5. SetsAreCurrent' /\ UniIsSeen' /\ AllRead'
  BY <1>1, <1>2, <1>3 DEF IInv, SetsAreCurrent, UniIsSeen, AllRead
<1>6. FrequenciesAreDocuments'
  <2>1. Frequencies
    BY FrequenciesRestated DEF IInv
  <2>2. Frequencies'
    BY <1>1, <1>3, <2>1 DEF Frequencies
  <2> QED
    BY <2>2, FrequenciesRestated, PTL
<1>7. FilterOK'
  <2>1. todo = extended /\ filtered = <<>>
    BY <1>1 DEF IInv, FilterOK
  <2> QED
    BY <1>1, <2>1 DEF FilterOK
<1>8. NoneIsZero <=> \A g \in extended : PhrasesWith(g) # {}
  <2>1. ASSUME NEW g \in extended PROVE freq[g] # 0 <=> PhrasesWith(g) # {}
    <3>1. freq[g] = Cardinality(DocsOf(PhrasesWith(g), next))
      BY FrequenciesRestated DEF IInv, Frequencies
    <3>2. freq[g] = 0 <=> DocsOf(PhrasesWith(g), next) = {}
      BY <1>2, <3>1, DocsOfIsFinite DEF TypeOK
    <3>3. PhrasesWith(g) \in SUBSET DOMAIN corpus
      BY DEF PhrasesWith
    <3> QED
      BY <1>2, <3>2, <3>3, AllDocumentsEnded
  <2>2. DOMAIN freq = extended
    BY <1>2 DEF TypeOK
  <2> QED
    BY <2>1, <2>2 DEF NoneIsZero
(* merge_unifreq finds as many lemmas as lemid.bin holds, in every run.    *)
<1>9. SizesAgree
  <2> SUFFICES ASSUME arity = 2 PROVE DOMAIN uni = LemIds
    BY DEF SizesAgree
  <2>1. ASSUME NEW l \in LemIds PROVE DocsOf(PhrasesOf(l), next) # {}
    <3>1. PhrasesOf(l) # {}
      BY LemmasAreOccurrences DEF LemIds, PhrasesOf
    <3>2. PhrasesOf(l) \in SUBSET DOMAIN corpus
      BY DEF PhrasesOf
    <3> QED
      BY <1>2, <3>1, <3>2, AllDocumentsEnded
  <2> QED
    BY <2>1 DEF IInv, UniIsSeen
<1>10. StopsOnStrangers'
  <2>1. pc' = "failed" <=> \E g \in extended : PhrasesWith(g) = {}
    BY <1>1, <1>8, <1>9
  <2>2. \A g \in extended : PhrasesWith(g) = {} <=> \A i \in DOMAIN corpus : ~OccursIn(g, corpus[i])
    BY DEF PhrasesWith
  <2>3. \A g, i : OccursIn(g, corpus[i])' <=> OccursIn(g, corpus[i])
    BY <1>1 DEF OccursIn, LemsOf
  <2> QED
    BY <1>1, <2>1, <2>2, <2>3 DEF StopsOnStrangers
<1> QED
  BY <1>4, <1>5, <1>6, <1>7, <1>10 DEF IInv

(* What the filter leaves alone.                                           *)
LEMMA FilteringKeeps ==
  ASSUME IInv, UNCHANGED <<inputs, next, uniset, set, uni, freq, pc>>
  PROVE  /\ TypeOK' /\ SetsAreCurrent' /\ UniIsSeen' /\ AllRead'
         /\ FrequenciesAreDocuments' /\ StopsOnStrangers'
<1>1. /\ arity' = arity /\ corpus' = corpus /\ lems' = lems /\ extended' = extended
      /\ UNCHANGED <<inputs, next, uniset, set, uni, freq, pc>>
  BY DEF inputs
<1>2. /\ \A g : PhrasesWith(g)' = PhrasesWith(g) /\ PhrasesOf(g)' = PhrasesOf(g)
      /\ LemIds' = LemIds /\ CurrentAt(next)' = CurrentAt(next)
      /\ \A S : DocsOf(S, next)' = DocsOf(S, next)
  BY <1>1, InputsStay
<1>3. TypeOK' /\ AllRead'
  BY <1>1 DEF IInv, TypeOK, AllRead
<1>4. SetsAreCurrent' /\ UniIsSeen'
  BY <1>1, <1>2 DEF IInv, SetsAreCurrent, UniIsSeen
<1>5. FrequenciesAreDocuments'
  <2>1. Frequencies
    BY FrequenciesRestated DEF IInv
  <2>2. Frequencies'
    BY <1>1, <1>2, <2>1 DEF Frequencies
  <2> QED
    BY <2>2, FrequenciesRestated, PTL
<1>6. StopsOnStrangers'
  <2>1. \A g, i : OccursIn(g, corpus[i])' <=> OccursIn(g, corpus[i])
    BY <1>1 DEF OccursIn, LemsOf
  <2> QED
    BY <1>1, <2>1 DEF IInv, StopsOnStrangers
<1> QED
  BY <1>3, <1>4, <1>5, <1>6

(* One group is taken: it is not above the ones written, and it is not     *)
(* below the ones still to take.                                           *)
LEMMA FilterInv == ASSUME IInv, NEW g \in todo, Filter(g) PROVE IInv'
<1>1. /\ pc = "filter" /\ g \in extended /\ todo' = todo \ {g} /\ todo \subseteq extended
      /\ \A h \in todo : Score(h) <= Score(g)
      /\ filtered' = IF Passes(g) THEN Append(filtered, g) ELSE filtered
      /\ UNCHANGED <<inputs, next, uniset, set, uni, freq, pc>>
      /\ extended' = extended
  BY DEF Filter, Tops, IInv, FilterOK, inputs
<1>2. /\ TypeOK' /\ SetsAreCurrent' /\ UniIsSeen' /\ AllRead'
      /\ FrequenciesAreDocuments' /\ StopsOnStrangers'
  BY <1>1, FilteringKeeps
<1>3. \A h \in extended : Score(h) \in Int
  <2>1. arity \in Arities /\ extended \subseteq Groups(arity)
    BY DEF IInv, TypeOK
  <2> QED
    BY <2>1, DocFreqAssumption
<1>4. \A h : Passes(h)' <=> Passes(h)
  BY <1>1 DEF Passes
<1>5. /\ filtered \in Seq(extended)
      /\ {filtered[i] : i \in DOMAIN filtered} = {h \in extended \ todo : Passes(h)}
      /\ \A i \in DOMAIN filtered : \A h \in todo : Score(h) <= Score(filtered[i])
      /\ \A i, j \in DOMAIN filtered :
           i < j => filtered[i] # filtered[j] /\ Score(filtered[i]) >= Score(filtered[j])
  BY DEF IInv, FilterOK
<1>6. CASE ~Passes(g)
  BY <1>1, <1>2, <1>4, <1>5, <1>6 DEF IInv, FilterOK
<1>7. CASE Passes(g)
  <2> DEFINE l == Len(filtered) + 1
  <2>1. /\ DOMAIN filtered' = DOMAIN filtered \cup {l} /\ filtered'[l] = g
        /\ \A i \in DOMAIN filtered : filtered'[i] = filtered[i] /\ i < l /\ filtered[i] \in extended
        /\ filtered' \in Seq(extended)
    BY <1>1, <1>5, <1>7
  <2> HIDE DEF l
  <2>2. {filtered'[i] : i \in DOMAIN filtered'} = {h \in extended \ todo' : Passes(h)}
    <3>1. {filtered'[i] : i \in DOMAIN filtered'} = {filtered[i] : i \in DOMAIN filtered} \cup {g}
      BY <2>1
    <3> QED
      BY <1>1, <1>5, <1>7, <3>1
  <2>3. \A i \in DOMAIN filtered' : \A h \in todo' : Score(h) <= Score(filtered'[i])
    BY <1>1, <1>5, <2>1
  <2>4. \A i \in DOMAIN filtered : filtered[i] # g /\ Score(filtered[i]) >= Score(g)
    <3>1. ASSUME NEW i \in DOMAIN filtered PROVE filtered[i] # g /\ Score(filtered[i]) >= Score(g)
      <4>1. filtered[i] \in extended \ todo
        BY <1>5
      <4>2. Score(g) <= Score(filtered[i]) /\ Score(g) \in Int /\ Score(filtered[i]) \in Int
        BY <1>1, <1>3, <1>5, <4>1
      <4> QED
        BY <4>1, <4>2
    <3> QED
      BY <3>1
  <2>5. ASSUME NEW i \in DOMAIN filtered', NEW j \in DOMAIN filtered', i < j
        PROVE  filtered'[i] # filtered'[j] /\ Score(filtered'[i]) >= Score(filtered'[j])
    <3>1. i \in DOMAIN filtered
      BY <1>5, <2>1, <2>5 DEF l
    <3> QED
      BY <1>5, <2>1, <2>4, <2>5, <3>1
  <2> QED
    BY <1>1, <1>2, <1>4, <2>1, <2>2, <2>3, <2>5 DEF IInv, FilterOK
<1> QED
  BY <1>6, <1>7

LEMMA StutterInv == IInv /\ UNCHANGED vars => IInv'
<1> SUFFICES ASSUME IInv, UNCHANGED vars PROVE IInv'
  OBVIOUS
<1>1. /\ UNCHANGED <<inputs, next, uniset, set, uni, freq, pc>>
      /\ extended' = extended /\ todo' = todo /\ filtered' = filtered
      /\ pc' = pc /\ freq' = freq
  BY DEF vars, inputs
<1>2. FilterOK'
  BY <1>1 DEF IInv, FilterOK, Passes
<1> QED
  BY <1>1, <1>2, FilteringKeeps DEF IInv

THEOREM Invariance == Spec => []IInv
<1>1. IInv /\ [Next]_vars => IInv'
  <2> SUFFICES ASSUME IInv, [Next]_vars PROVE IInv'
    OBVIOUS
  <2>1. CASE Phrase
    BY <2>1, PhraseInv
  <2>2. CASE EndDocument
    BY <2>2, EndDocumentInv
  <2>3. CASE Finish
    BY <2>3, FinishInv
  <2>4. ASSUME NEW g \in todo, Filter(g) PROVE IInv'
    BY <2>4, FilterInv
  <2>5. CASE UNCHANGED vars
    BY <2>5, StutterInv
  <2> QED
    BY <2>1, <2>2, <2>3, <2>4, <2>5 DEF Next, Terminated
<1> QED
  BY InitInv, <1>1, PTL DEF Spec

-----------------------------------------------------------------------------
(* At every phrase the tables hold the documents finished so far in which  *)
(* a group or a lemma occurs, whatever the documents repeat.               *)
THEOREM CountsAreDocuments == Spec => []FrequenciesAreDocuments
<1>1. IInv => FrequenciesAreDocuments
  BY DEF IInv
<1> QED
  BY Invariance, <1>1, PTL

(* The checks after the count stop the run for a group that the corpus     *)
(* does not hold, and for nothing else.                                    *)
THEOREM ChecksFindStrangers == Spec => []StopsOnStrangers
<1>1. IInv => StopsOnStrangers
  BY DEF IInv
<1> QED
  BY Invariance, <1>1, PTL

(* The filtered file holds the frequent and stable groups, each once, the  *)
(* most stable first.                                                      *)
THEOREM FilterKeeps == Spec => []KeepsFrequentStable
<1>1. IInv => KeepsFrequentStable
  <2> SUFFICES ASSUME IInv, Filtered PROVE KeepsFrequentStable
    BY DEF KeepsFrequentStable
  <2>1. todo = {}
    BY DEF Filtered
  <2>2. \A g \in extended : freq[g] = Cardinality(DocsWith(OccursIn, g))
    BY DEF IInv, FrequenciesAreDocuments
  <2>3. {filtered[i] : i \in DOMAIN filtered} = {g \in extended : freq[g] > Th1 /\ Score(g) > Th2}
    BY <2>1 DEF IInv, FilterOK, Passes
  <2>4. {filtered[i] : i \in DOMAIN filtered}
          = {g \in extended : Cardinality(DocsWith(OccursIn, g)) > Th1 /\ Score(g) > Th2}
    BY <2>2, <2>3
  <2> QED
    BY <2>4 DEF IInv, FilterOK, KeepsFrequentStable
<1> QED
  BY Invariance, <1>1, PTL

=============================================================================
