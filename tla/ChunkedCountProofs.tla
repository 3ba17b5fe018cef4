------------------------- MODULE ChunkedCountProofs -------------------------
(***************************************************************************)
(* The chunks of bigram_stat and trigram_stat neither lose nor repeat an   *)
(* occurrence, and the merge adds only what former runs left behind, for   *)
(* any corpora, any places and grams, any size of a chunk and any number   *)
(* of crashes and further runs.  trigram_stat counts every occurrence of a *)
(* triple with a stable pair once, for any vocabulary, any corpus and any  *)
(* set of stable pairs.                                                    *)
(***************************************************************************)
EXTENDS ChunkedCount, TrigramScan, FiniteSetTheorems, TLAPS

(* The grams of a corpus: sums of disjoint sets of places are bag sums.    *)
At(c, x) == KeyAt(c[x[1]], x[2])
PlacesWith(c, ps, g) == {x \in ps : At(c, x) = g}

LEMMA GramsAre ==
  ASSUME NEW c, NEW ps
  PROVE  /\ DOMAIN GramsOf(c, ps) = {At(c, x) : x \in ps}
         /\ \A g \in DOMAIN GramsOf(c, ps) : GramsOf(c, ps)[g] = Cardinality(PlacesWith(c, ps, g))
         /\ GramsOf(c, ps) = [g \in {At(c, x) : x \in ps} |-> Cardinality(PlacesWith(c, ps, g))]
<1> DEFINE D == {At(c, x) : x \in ps}
           n(g) == Cardinality(PlacesWith(c, ps, g))
<1>1. GramsOf(c, ps) = [g \in D |-> n(g)]
  BY DEF GramsOf, At, PlacesWith
<1> HIDE DEF D
<1>2. DOMAIN GramsOf(c, ps) = D /\ \A g \in D : GramsOf(c, ps)[g] = n(g)
  BY <1>1
<1> QED
  BY <1>1, <1>2 DEF D

(* Counts: as those of a bag, but one may have wrapped to 0.               *)
IsTally(B) == B = [g \in DOMAIN B |-> B[g]] /\ \A g \in DOMAIN B : B[g] \in Nat

LEMMA GramsAreTally ==
  ASSUME NEW c, NEW ps, IsFiniteSet(ps)
  PROVE  IsTally(GramsOf(c, ps))
<1>1. ASSUME NEW g \in DOMAIN GramsOf(c, ps) PROVE GramsOf(c, ps)[g] \in Nat
  <2>1. IsFiniteSet(PlacesWith(c, ps, g))
    BY FS_Subset DEF PlacesWith
  <2>2. GramsOf(c, ps)[g] = Cardinality(PlacesWith(c, ps, g))
    BY GramsAre
  <2> QED
    BY <2>1, <2>2, FS_CardinalityType
<1>2. GramsOf(c, ps) = [g \in DOMAIN GramsOf(c, ps) |-> GramsOf(c, ps)[g]]
  BY GramsAre
<1> QED
  BY <1>1, <1>2 DEF IsTally

LEMMA NoGrams == \A c : GramsOf(c, {}) = EmptyBag
<1> SUFFICES ASSUME NEW c PROVE GramsOf(c, {}) = EmptyBag
  OBVIOUS
<1>1. {At(c, x) : x \in {}} = {}
  OBVIOUS
<1> DEFINE f == GramsOf(c, {})
<1>2. DOMAIN f = {}
  BY <1>1, GramsAre
<1>3. f = [g \in {At(c, x) : x \in {}} |-> Cardinality(PlacesWith(c, {}, g))]
  BY GramsAre
<1>4. f = [g \in DOMAIN f |-> f[g]]
  BY <1>3
<1> HIDE DEF f
<1>5. f = [g \in {} |-> 1]
  BY <1>2, <1>4
<1> QED
  BY <1>5 DEF EmptyBag, SetToBag, f

LEMMA CardinalityAdds ==
  ASSUME NEW S, NEW T, IsFiniteSet(S), IsFiniteSet(T), S \cap T = {}
  PROVE  /\ Cardinality(S \cup T) = Cardinality(S) + Cardinality(T)
         /\ Cardinality(S) \in Nat /\ Cardinality(T) \in Nat /\ IsFiniteSet(S \cup T)
<1>1. /\ IsFiniteSet(S \cup T)
      /\ Cardinality(S \cup T) = Cardinality(S) + Cardinality(T) - Cardinality(S \cap T)
  BY FS_Union
<1>2. Cardinality(S \cap T) = 0
  BY FS_EmptySet
<1>3. Cardinality(S) \in Nat /\ Cardinality(T) \in Nat
  BY FS_CardinalityType
<1> QED
  BY <1>1, <1>2, <1>3

LEMMA GramsAdd ==
  ASSUME NEW c, NEW P, NEW Q, IsFiniteSet(P), IsFiniteSet(Q), P \cap Q = {}
  PROVE  GramsOf(c, P \cup Q) = GramsOf(c, P) (+) GramsOf(c, Q)
<1> DEFINE G(R) == GramsOf(c, R)
           D(R) == {At(c, x) : x \in R}
           n(R, g) == Cardinality(PlacesWith(c, R, g))
<1>1. D(P \cup Q) = D(P) \cup D(Q)
  OBVIOUS
<1>2. ASSUME NEW g
      PROVE  /\ n(P \cup Q, g) = n(P, g) + n(Q, g)
             /\ g \notin D(P) => n(P, g) = 0
             /\ g \notin D(Q) => n(Q, g) = 0
             /\ n(P, g) \in Nat /\ n(Q, g) \in Nat
  <2>1. PlacesWith(c, P \cup Q, g) = PlacesWith(c, P, g) \cup PlacesWith(c, Q, g)
    BY DEF PlacesWith
  <2>2. PlacesWith(c, P, g) \cap PlacesWith(c, Q, g) = {}
    BY DEF PlacesWith
  <2>3. IsFiniteSet(PlacesWith(c, P, g)) /\ IsFiniteSet(PlacesWith(c, Q, g))
    BY FS_Subset DEF PlacesWith
  <2>4. g \notin D(P) => PlacesWith(c, P, g) = {}
    BY DEF PlacesWith
  <2>5. g \notin D(Q) => PlacesWith(c, Q, g) = {}
    BY DEF PlacesWith
  <2> QED
    BY <2>1, <2>2, <2>3, <2>4, <2>5, CardinalityAdds, FS_EmptySet
<1>3. \A R : DOMAIN G(R) = D(R) /\ \A g \in D(R) : G(R)[g] = n(R, g)
  BY GramsAre
<1>4. G(P \cup Q) = [g \in D(P \cup Q) |-> n(P \cup Q, g)]
  BY GramsAre
<1>5. G(P) (+) G(Q) = [g \in D(P) \cup D(Q) |->
                         (IF g \in D(P) THEN G(P)[g] ELSE 0) + (IF g \in D(Q) THEN G(Q)[g] ELSE 0)]
  BY <1>3 DEF (+)
<1>6. ASSUME NEW g \in D(P) \cup D(Q)
      PROVE  n(P \cup Q, g)
               = (IF g \in D(P) THEN G(P)[g] ELSE 0) + (IF g \in D(Q) THEN G(Q)[g] ELSE 0)
  <2>1. (IF g \in D(P) THEN G(P)[g] ELSE 0) = n(P, g)
    BY <1>2, <1>3
  <2>2. (IF g \in D(Q) THEN G(Q)[g] ELSE 0) = n(Q, g)
    BY <1>2, <1>3
  <2> QED
    BY <1>2, <2>1, <2>2
<1> HIDE DEF G, D, n
<1>7. [g \in D(P) \cup D(Q) |-> n(P \cup Q, g)]
        = [g \in D(P) \cup D(Q) |->
             (IF g \in D(P) THEN G(P)[g] ELSE 0) + (IF g \in D(Q) THEN G(Q)[g] ELSE 0)]
  BY <1>6
<1> QED
  BY <1>1, <1>4, <1>5, <1>7 DEF G

-----------------------------------------------------------------------------
(* The part files: the sum of two disjoint sets of them is a bag sum.      *)
FilesOK(ps) ==
  /\ IsFiniteSet(DOMAIN ps) /\ DOMAIN ps \subseteq Nat \ {0}
  /\ \A c \in DOMAIN ps : ps[c].header \in BOOLEAN /\ IsTally(ps[c].grams)

(* The grams of some of the files.                                         *)
Held(ps, C) == UNION {DOMAIN ps[c].grams : c \in C}

LEMMA CopiesAreFinite ==
  ASSUME NEW ps, FilesOK(ps), NEW C \in SUBSET DOMAIN ps, NEW g
  PROVE  IsFiniteSet(Copies(ps, C, g))
<1> DEFINE E == {d \in C : g \in DOMAIN ps[d].grams}
           row == [c \in E |-> {c} \X (1..ps[c].grams[g])]
           rows == {{c} \X (1..ps[c].grams[g]) : c \in E}
<1>1. IsFiniteSet(E)
  BY FS_Subset DEF FilesOK
<1>2. row \in Surjection(E, rows)
  BY DEF Surjection
<1>3. IsFiniteSet(rows)
  <2> HIDE DEF E, row, rows
  <2> QED
    BY <1>1, <1>2, FS_Surjection
<1>4. ASSUME NEW c \in E PROVE IsFiniteSet({c} \X (1..ps[c].grams[g]))
  <2>1. ps[c].grams[g] \in Nat
    BY DEF FilesOK, IsTally
  <2>2. IsFiniteSet(1..ps[c].grams[g])
    <3> DEFINE k == ps[c].grams[g]
    <3> HIDE DEF k
    <3>1. k \in Nat => IsFiniteSet(1..k)
      BY FS_Interval
    <3> QED
      BY <2>1, <3>1 DEF k
  <2> QED
    BY <2>2, FS_Singleton, FS_Product
<1>5. \A R \in rows : IsFiniteSet(R)
  BY <1>4
<1>6. IsFiniteSet(UNION rows)
  <2> HIDE DEF rows
  <2> QED
    BY <1>3, <1>5, FS_UNION
<1> QED
  BY <1>6 DEF Copies

LEMMA SumsAre ==
  ASSUME NEW ps, NEW C
  PROVE  /\ SumOf(ps, C) = [g \in Held(ps, C) |-> Cardinality(Copies(ps, C, g))]
         /\ DOMAIN SumOf(ps, C) = Held(ps, C)
         /\ \A g \in Held(ps, C) : SumOf(ps, C)[g] = Cardinality(Copies(ps, C, g))
<1>1. SumOf(ps, C) = [g \in Held(ps, C) |-> Cardinality(Copies(ps, C, g))]
  BY DEF SumOf, Held
<1> QED
  BY <1>1

LEMMA SumsAdd ==
  ASSUME NEW ps, FilesOK(ps), NEW C \in SUBSET DOMAIN ps, NEW D \in SUBSET DOMAIN ps,
         C \cap D = {}
  PROVE  SumOf(ps, C \cup D) = SumOf(ps, C) (+) SumOf(ps, D)
<1> DEFINE n(B, g) == Cardinality(Copies(ps, B, g))
           both(g) == (IF g \in Held(ps, C) THEN SumOf(ps, C)[g] ELSE 0)
                        + (IF g \in Held(ps, D) THEN SumOf(ps, D)[g] ELSE 0)
<1>1. Held(ps, C \cup D) = Held(ps, C) \cup Held(ps, D)
  BY DEF Held
<1>2. ASSUME NEW g
      PROVE  /\ n(C \cup D, g) = n(C, g) + n(D, g)
             /\ g \notin Held(ps, C) => n(C, g) = 0
             /\ g \notin Held(ps, D) => n(D, g) = 0
             /\ n(C, g) \in Nat /\ n(D, g) \in Nat
  <2>1. Copies(ps, C \cup D, g) = Copies(ps, C, g) \cup Copies(ps, D, g)
    BY DEF Copies
  <2>2. Copies(ps, C, g) \cap Copies(ps, D, g) = {}
    BY DEF Copies
  <2>3. IsFiniteSet(Copies(ps, C, g)) /\ IsFiniteSet(Copies(ps, D, g))
    BY CopiesAreFinite
  <2>4. g \notin Held(ps, C) => Copies(ps, C, g) = {}
    BY DEF Copies, Held
  <2>5. g \notin Held(ps, D) => Copies(ps, D, g) = {}
    BY DEF Copies, Held
  <2> QED
    BY <2>1, <2>2, <2>3, <2>4, <2>5, CardinalityAdds, FS_EmptySet
<1>3. SumOf(ps, C) (+) SumOf(ps, D) = [g \in Held(ps, C) \cup Held(ps, D) |-> both(g)]
  BY SumsAre DEF (+)
<1>4. ASSUME NEW g \in Held(ps, C) \cup Held(ps, D) PROVE n(C \cup D, g) = both(g)
  <2>1. (IF g \in Held(ps, C) THEN SumOf(ps, C)[g] ELSE 0) = n(C, g)
    BY <1>2, SumsAre
  <2>2. (IF g \in Held(ps, D) THEN SumOf(ps, D)[g] ELSE 0) = n(D, g)
    BY <1>2, SumsAre
  <2> QED
    BY <1>2, <2>1, <2>2
<1>5. SumOf(ps, C \cup D) = [g \in Held(ps, C \cup D) |-> n(C \cup D, g)]
  BY SumsAre
<1> HIDE DEF n, both
<1>6. [g \in Held(ps, C) \cup Held(ps, D) |-> n(C \cup D, g)]
        = [g \in Held(ps, C) \cup Held(ps, D) |-> both(g)]
  BY <1>4
<1> QED
  BY <1>1, <1>3, <1>5, <1>6

LEMMA NoFiles == \A ps : SumOf(ps, {}) = EmptyBag
<1> SUFFICES ASSUME NEW ps PROVE SumOf(ps, {}) = EmptyBag
  OBVIOUS
<1>1. Held(ps, {}) = {}
  BY DEF Held
<1> QED
  BY <1>1, SumsAre DEF EmptyBag, SetToBag

LEMMA OneFile ==
  ASSUME NEW ps, FilesOK(ps), NEW c \in DOMAIN ps
  PROVE  SumOf(ps, {c}) = ps[c].grams
<1> DEFINE B == ps[c].grams
<1>1. Held(ps, {c}) = DOMAIN B
  BY DEF Held
<1>2. B = [g \in DOMAIN B |-> B[g]] /\ \A g \in DOMAIN B : B[g] \in Nat
  BY DEF FilesOK, IsTally
<1>3. ASSUME NEW g \in DOMAIN B PROVE Cardinality(Copies(ps, {c}, g)) = B[g]
  <2>1. Copies(ps, {c}, g) = {c} \X (1..B[g])
    BY DEF Copies
  <2>2. B[g] \in Nat
    BY <1>2
  <2> DEFINE k == B[g]
  <2> HIDE DEF k
  <2>3. IsFiniteSet({c}) /\ Cardinality({c}) = 1
    BY FS_Singleton
  <2>4. k \in Nat => IsFiniteSet(1..k) /\ Cardinality(1..k) = k
    BY FS_Interval
  <2>5. k \in Nat => Cardinality({c} \X (1..k)) = Cardinality({c}) * Cardinality(1..k)
    <3> DEFINE R == 1..k
               S == {c}
    <3>1. k \in Nat => IsFiniteSet(R) /\ IsFiniteSet(S)
      BY <2>3, <2>4
    <3> HIDE DEF R, S
    <3> QED
      BY <3>1, FS_Product DEF R, S
  <2>6. k \in Nat => Cardinality({c} \X (1..k)) = k
    BY <2>3, <2>4, <2>5
  <2> QED
    BY <2>1, <2>2, <2>6 DEF k
<1>4. SumOf(ps, {c}) = [g \in DOMAIN B |-> Cardinality(Copies(ps, {c}, g))]
  BY <1>1, SumsAre
<1>5. [g \in DOMAIN B |-> Cardinality(Copies(ps, {c}, g))] = [g \in DOMAIN B |-> B[g]]
  BY <1>3
<1> QED
  BY <1>2, <1>4, <1>5

LEMMA SameFiles ==
  ASSUME NEW ps, NEW qs, NEW C, \A c \in C : qs[c] = ps[c]
  PROVE  SumOf(qs, C) = SumOf(ps, C)
<1>1. Held(qs, C) = Held(ps, C)
  BY DEF Held
<1>2. ASSUME NEW g PROVE Copies(qs, C, g) = Copies(ps, C, g)
  BY DEF Copies
<1>3. /\ SumOf(qs, C) = [g \in Held(qs, C) |-> Cardinality(Copies(qs, C, g))]
      /\ SumOf(ps, C) = [g \in Held(ps, C) |-> Cardinality(Copies(ps, C, g))]
  BY SumsAre
<1> QED
  BY <1>1, <1>2, <1>3

-----------------------------------------------------------------------------
(* The chunk of a phrase: it changes after every ChunkDocs documents.      *)
TypeOK ==
  /\ corpus \in Corpora
  /\ next \in 1..(Len(corpus) + 1)
  /\ docid \in Nat \ {0} /\ chunk \in Nat \ {0}
  /\ pc \in {"read", "merge", "done", "failed", "down"}
  /\ FilesOK(parts)

EmptyBefore(i) == {j \in 1..(i - 1) : corpus[j] = <<>>}
Ends(i) == Cardinality(EmptyBefore(i))

LEMMA CorpusFacts ==
  ASSUME TypeOK
  PROVE  /\ corpus \in Seq(Seq(Word)) /\ Len(corpus) \in Nat /\ DOMAIN corpus = 1..Len(corpus)
         /\ next \in Nat \ {0} /\ next <= Len(corpus) + 1
BY CorporaAssumption DEF TypeOK

LEMMA Quotient ==
  ASSUME NEW m \in Nat \ {0}, NEW x \in Nat, NEW k \in Nat, NEW r \in 0..(m - 1), x = m * k + r
  PROVE  x \div m = k /\ x % m = r
OBVIOUS

LEMMA Division ==
  ASSUME NEW m \in Nat \ {0}, NEW x \in Nat
  PROVE  x = m * (x \div m) + (x % m) /\ x % m \in 0..(m - 1) /\ x \div m \in Nat
OBVIOUS

LEMMA DivStep ==
  ASSUME NEW m \in Nat \ {0}, NEW x \in Nat
  PROVE  (x + 1) \div m = IF (x + 1) % m = 0 THEN x \div m + 1 ELSE x \div m
<1> DEFINE k == x \div m
           r == x % m
<1>1. x = m * k + r /\ r \in 0..(m - 1) /\ k \in Nat
  BY Division
<1> HIDE DEF k, r
<1>2. m * (k + 1) = m * k + m /\ m * k \in Nat
  BY <1>1
<1>3. CASE r = m - 1
  <2>1. x + 1 = m * (k + 1) + 0 /\ k + 1 \in Nat /\ x + 1 \in Nat /\ 0 \in 0..(m - 1)
    BY <1>1, <1>2, <1>3
  <2>2. (x + 1) \div m = k + 1 /\ (x + 1) % m = 0
    BY <2>1, Quotient
  <2> QED
    BY <2>2 DEF k
<1>4. CASE r # m - 1
  <2>1. x + 1 = m * k + (r + 1) /\ r + 1 \in 0..(m - 1) /\ x + 1 \in Nat
    BY <1>1, <1>2, <1>4
  <2>2. (x + 1) \div m = k /\ (x + 1) % m = r + 1
    BY <1>1, <2>1, Quotient
  <2>3. r + 1 # 0
    BY <1>1
  <2> QED
    BY <2>2, <2>3 DEF k
<1> QED
  BY <1>3, <1>4

LEMMA DivGrows ==
  ASSUME NEW m \in Nat \ {0}, NEW x \in Nat, NEW y \in Nat, x <= y
  PROVE  x \div m <= y \div m /\ x \div m \in Nat /\ y \div m \in Nat
<1> DEFINE k == x \div m
           r == x % m
           l == y \div m
           s == y % m
<1>1. /\ x = m * k + r /\ r \in 0..(m - 1) /\ k \in Nat
      /\ y = m * l + s /\ s \in 0..(m - 1) /\ l \in Nat
  BY Division
<1> HIDE DEF k, r, l, s
<1>2. ASSUME k > l PROVE FALSE
  <2>1. m * (l + 1) = m * l + m /\ m * l \in Nat
    BY <1>1
  <2>2. m * k >= m * (l + 1)
    <3>1. k - (l + 1) \in Nat
      BY <1>1, <1>2
    <3>2. m * (k - (l + 1)) \in Nat /\ m * (k - (l + 1)) = m * k - m * (l + 1)
      BY <1>1, <3>1
    <3> QED
      BY <1>1, <2>1, <3>2
  <2> QED
    BY <1>1, <2>1, <2>2
<1> QED
  BY <1>1, <1>2 DEF k, l

LEMMA EndsFacts ==
  ASSUME TypeOK, NEW i \in 1..(Len(corpus) + 1)
  PROVE  IsFiniteSet(EmptyBefore(i)) /\ Ends(i) \in Nat
<1>1. IsFiniteSet(1..(i - 1))
  BY CorpusFacts, FS_Interval
<1> QED
  BY <1>1, FS_Subset, FS_CardinalityType DEF EmptyBefore, Ends

LEMMA EndsStep ==
  ASSUME TypeOK, NEW n \in DOMAIN corpus
  PROVE  Ends(n + 1) = IF corpus[n] = <<>> THEN Ends(n) + 1 ELSE Ends(n)
<1>1. n \in Nat /\ n >= 1 /\ n \in 1..(Len(corpus) + 1)
  BY CorpusFacts
<1>2. IsFiniteSet(EmptyBefore(n)) /\ n \notin EmptyBefore(n)
  BY <1>1, EndsFacts DEF EmptyBefore
<1>3. EmptyBefore(n + 1) = IF corpus[n] = <<>> THEN EmptyBefore(n) \cup {n} ELSE EmptyBefore(n)
  BY <1>1 DEF EmptyBefore
<1> QED
  BY <1>2, <1>3, FS_AddElement DEF Ends

LEMMA EndsGrow ==
  ASSUME TypeOK, NEW i \in 1..(Len(corpus) + 1), NEW j \in 1..(Len(corpus) + 1), i <= j
  PROVE  Ends(i) <= Ends(j)
<1>1. EmptyBefore(i) \subseteq EmptyBefore(j)
  BY CorpusFacts DEF EmptyBefore
<1> QED
  BY <1>1, EndsFacts, FS_Subset DEF Ends

LEMMA ChunkIs == \A i : ChunkOf(i) = Ends(i) \div ChunkDocs + 1
BY DEF ChunkOf, Ends, EmptyBefore

LEMMA ChunkStep ==
  ASSUME TypeOK, NEW n \in DOMAIN corpus
  PROVE  /\ ChunkOf(n + 1) = IF corpus[n] = <<>> /\ (Ends(n) + 1) % ChunkDocs = 0
                               THEN ChunkOf(n) + 1 ELSE ChunkOf(n)
         /\ ChunkOf(n) \in Nat
<1>1. n \in 1..(Len(corpus) + 1)
  BY CorpusFacts
<1>2. Ends(n) \in Nat /\ ChunkDocs \in Nat \ {0}
  BY <1>1, EndsFacts, ChunkDocsAssumption
<1>3. Ends(n) \div ChunkDocs \in Nat
  BY <1>2, Division
<1>4. (Ends(n) + 1) \div ChunkDocs
        = IF (Ends(n) + 1) % ChunkDocs = 0 THEN Ends(n) \div ChunkDocs + 1 ELSE Ends(n) \div ChunkDocs
  BY <1>2, DivStep
<1> QED
  BY <1>3, <1>4, ChunkIs, EndsStep

LEMMA ChunkGrows ==
  ASSUME TypeOK, NEW i \in 1..(Len(corpus) + 1), NEW j \in 1..(Len(corpus) + 1), i <= j
  PROVE  ChunkOf(i) <= ChunkOf(j) /\ ChunkOf(i) \in Nat \ {0} /\ ChunkOf(j) \in Nat \ {0}
<1>1. Ends(i) \in Nat /\ Ends(j) \in Nat /\ Ends(i) <= Ends(j) /\ ChunkDocs \in Nat \ {0}
  BY EndsFacts, EndsGrow, ChunkDocsAssumption
<1>2. /\ Ends(i) \div ChunkDocs <= Ends(j) \div ChunkDocs
      /\ Ends(i) \div ChunkDocs \in Nat /\ Ends(j) \div ChunkDocs \in Nat
  BY <1>1, DivGrows
<1> QED
  BY <1>2, ChunkIs

-----------------------------------------------------------------------------
(* The places of phrases.                                                  *)
LEMMA PlacesAreFinite ==
  ASSUME TypeOK, NEW I \in SUBSET DOMAIN corpus
  PROVE  IsFiniteSet(PlacesOf(corpus, I))
<1> DEFINE row == [i \in I |-> {i} \X Places(corpus[i])]
           rows == {{i} \X Places(corpus[i]) : i \in I}
<1>1. IsFiniteSet(1..Len(corpus))
  BY CorpusFacts, FS_Interval
<1>2. IsFiniteSet(I)
  BY <1>1, CorpusFacts, FS_Subset
<1>3. row \in Surjection(I, rows)
  BY DEF Surjection
<1>4. IsFiniteSet(rows)
  <2> HIDE DEF row, rows
  <2> QED
    BY <1>2, <1>3, FS_Surjection
<1>5. ASSUME NEW i \in I PROVE IsFiniteSet({i} \X Places(corpus[i]))
  <2>1. IsFiniteSet(Places(corpus[i]))
    BY CorporaAssumption DEF TypeOK
  <2> QED
    BY <2>1, FS_Singleton, FS_Product
<1>6. \A R \in rows : IsFiniteSet(R)
  BY <1>5
<1>7. IsFiniteSet(UNION rows)
  <2> HIDE DEF rows
  <2> QED
    BY <1>4, <1>6, FS_UNION
<1> QED
  BY <1>7 DEF PlacesOf

LEMMA PlacesAdd ==
  ASSUME NEW c, NEW I, NEW J
  PROVE  /\ PlacesOf(c, I \cup J) = PlacesOf(c, I) \cup PlacesOf(c, J)
         /\ I \cap J = {} => PlacesOf(c, I) \cap PlacesOf(c, J) = {}
BY DEF PlacesOf

(* The grams of the phrases of a set.                                      *)
GramsIn(I) == GramsOf(corpus, PlacesOf(corpus, I))

LEMMA GramsInAdd ==
  ASSUME TypeOK, NEW I \in SUBSET DOMAIN corpus, NEW J \in SUBSET DOMAIN corpus, I \cap J = {}
  PROVE  GramsIn(I \cup J) = GramsIn(I) (+) GramsIn(J)
<1>1. IsFiniteSet(PlacesOf(corpus, I)) /\ IsFiniteSet(PlacesOf(corpus, J))
  BY PlacesAreFinite
<1>2. /\ PlacesOf(corpus, I \cup J) = PlacesOf(corpus, I) \cup PlacesOf(corpus, J)
      /\ PlacesOf(corpus, I) \cap PlacesOf(corpus, J) = {}
  BY PlacesAdd
<1> QED
  BY <1>1, <1>2, GramsAdd DEF GramsIn

LEMMA GramsInAreTally ==
  ASSUME TypeOK, NEW I \in SUBSET DOMAIN corpus
  PROVE  IsTally(GramsIn(I))
BY PlacesAreFinite, GramsAreTally DEF GramsIn

LEMMA NoPhrases == GramsIn({}) = EmptyBag
<1>1. PlacesOf(corpus, {}) = {}
  BY DEF PlacesOf
<1> QED
  BY <1>1, NoGrams DEF GramsIn

(* An empty phrase has no grams.                                           *)
LEMMA EmptyPhrase ==
  ASSUME NEW n, corpus[n] = <<>>, NEW I
  PROVE  GramsIn(I \cup {n}) = GramsIn(I)
<1>1. PlacesOf(corpus, {n}) = {}
  BY CorporaAssumption DEF PlacesOf
<1>2. PlacesOf(corpus, I \cup {n}) = PlacesOf(corpus, I)
  BY <1>1, PlacesAdd
<1> QED
  BY <1>2 DEF GramsIn

-----------------------------------------------------------------------------
(* Counts modulo U32: it is the same whether one wraps the numbers that    *)
(* are added, their sum, or both.                                          *)
LEMMA WrappedIs ==
  ASSUME NEW B
  PROVE  /\ DOMAIN Wrapped(B) = DOMAIN B
         /\ \A g \in DOMAIN B : Wrapped(B)[g] = B[g] % U32
         /\ Wrapped(B) = [g \in DOMAIN B |-> B[g] % U32]
BY DEF Wrapped

LEMMA PlusIs == \A A, B : Plus(A, B) = Wrapped(A (+) B)
BY DEF Plus, (+)

LEMMA SumIs ==
  ASSUME NEW A, NEW B
  PROVE  /\ DOMAIN (A (+) B) = DOMAIN A \cup DOMAIN B
         /\ \A g \in DOMAIN A \cup DOMAIN B :
              (A (+) B)[g] = (IF g \in DOMAIN A THEN A[g] ELSE 0) + (IF g \in DOMAIN B THEN B[g] ELSE 0)
BY DEF (+)

LEMMA NoneWrapped == Wrapped(EmptyBag) = EmptyBag
<1>1. DOMAIN EmptyBag = {}
  BY DEF EmptyBag, SetToBag
<1>2. Wrapped(EmptyBag) = [g \in {} |-> 1]
  BY <1>1, WrappedIs
<1> QED
  BY <1>2 DEF EmptyBag, SetToBag

LEMMA ModAdds ==
  ASSUME NEW m \in Nat \ {0}, NEW a \in Nat, NEW b \in Nat
  PROVE  (a + b) % m = ((a % m) + (b % m)) % m
<1> DEFINE k == a \div m
           r == a % m
           l == b \div m
           s == b % m
           e == (r + s) \div m
           t == (r + s) % m
<1>1. /\ a = m * k + r /\ r \in 0..(m - 1) /\ k \in Nat
      /\ b = m * l + s /\ s \in 0..(m - 1) /\ l \in Nat
  BY Division
<1>2. r + s \in Nat
  BY <1>1
<1>3. r + s = m * e + t /\ t \in 0..(m - 1) /\ e \in Nat
  BY <1>2, Division
<1> HIDE DEF k, r, l, s, e, t
<1>4. m * (k + l + e) = m * k + m * l + m * e /\ k + l + e \in Nat
  BY <1>1, <1>3
<1>5. a + b = m * (k + l + e) + t /\ a + b \in Nat
  <2>1. m * k \in Nat /\ m * l \in Nat /\ m * e \in Nat
    BY <1>1, <1>3
  <2> QED
    BY <1>1, <1>3, <1>4, <2>1
<1>6. (a + b) % m = t
  BY <1>3, <1>4, <1>5, Quotient
<1> QED
  BY <1>6 DEF r, s, t

LEMMA ModTwice ==
  ASSUME NEW m \in Nat \ {0}, NEW a \in Nat
  PROVE  a % m \in Nat /\ (a % m) % m = a % m /\ 0 % m = 0
<1>1. a % m \in 0..(m - 1)
  BY Division
<1>2. \A r \in 0..(m - 1) : r = m * 0 + r /\ r \in Nat
  OBVIOUS
<1>3. \A r \in 0..(m - 1) : r % m = r
  BY <1>2, Quotient
<1> QED
  BY <1>1, <1>3

LEMMA WrappedTwice ==
  ASSUME NEW B, IsTally(B)
  PROVE  IsTally(Wrapped(B)) /\ Wrapped(Wrapped(B)) = Wrapped(B)
<1>1. \A g \in DOMAIN B : B[g] % U32 \in Nat /\ (B[g] % U32) % U32 = B[g] % U32
  BY ModTwice, ChunkDocsAssumption DEF IsTally
<1>2. IsTally(Wrapped(B))
  BY <1>1, WrappedIs DEF IsTally
<1>3. /\ DOMAIN Wrapped(Wrapped(B)) = DOMAIN B
      /\ Wrapped(Wrapped(B)) = [g \in DOMAIN Wrapped(B) |-> Wrapped(B)[g] % U32]
  BY WrappedIs
<1>4. \A g \in DOMAIN B : Wrapped(B)[g] % U32 = B[g] % U32
  BY <1>1, WrappedIs
<1> QED
  BY <1>2, <1>3, <1>4, WrappedIs

(* Only what is left of the numbers matters for what is left of the sum.   *)
LEMMA WrapAdds ==
  ASSUME NEW A, NEW B, NEW C, NEW D, IsTally(A), IsTally(B), IsTally(C), IsTally(D),
         Wrapped(A) = Wrapped(C), Wrapped(B) = Wrapped(D)
  PROVE  Wrapped(A (+) B) = Wrapped(C (+) D)
<1> DEFINE Of(X, g) == IF g \in DOMAIN X THEN X[g] ELSE 0
<1>1. DOMAIN A = DOMAIN C /\ DOMAIN B = DOMAIN D
  BY WrappedIs
<1>2. ASSUME NEW g
      PROVE  /\ Of(A, g) \in Nat /\ Of(B, g) \in Nat /\ Of(C, g) \in Nat /\ Of(D, g) \in Nat
             /\ Of(A, g) % U32 = Of(C, g) % U32 /\ Of(B, g) % U32 = Of(D, g) % U32
  <2>1. \A x \in DOMAIN A : A[x] % U32 = C[x] % U32
    BY <1>1, WrappedIs
  <2>2. \A x \in DOMAIN B : B[x] % U32 = D[x] % U32
    BY <1>1, WrappedIs
  <2> QED
    BY <1>1, <2>1, <2>2 DEF IsTally
<1>3. ASSUME NEW g PROVE (Of(A, g) + Of(B, g)) % U32 = (Of(C, g) + Of(D, g)) % U32
  <2> HIDE DEF Of
  <2>1. /\ (Of(A, g) + Of(B, g)) % U32 = ((Of(A, g) % U32) + (Of(B, g) % U32)) % U32
        /\ (Of(C, g) + Of(D, g)) % U32 = ((Of(C, g) % U32) + (Of(D, g) % U32)) % U32
    BY <1>2, ModAdds, ChunkDocsAssumption
  <2> QED
    BY <1>2, <2>1
<1>4. \A X, Y : /\ DOMAIN (X (+) Y) = DOMAIN X \cup DOMAIN Y
               /\ \A g \in DOMAIN X \cup DOMAIN Y : (X (+) Y)[g] = Of(X, g) + Of(Y, g)
  BY SumIs
<1> HIDE DEF Of
<1>5. \A g \in DOMAIN A \cup DOMAIN B : (A (+) B)[g] % U32 = (C (+) D)[g] % U32
  BY <1>1, <1>3, <1>4
<1> DEFINE X == A (+) B
           Y == C (+) D
<1>6. DOMAIN X = DOMAIN Y /\ \A g \in DOMAIN X : X[g] % U32 = Y[g] % U32
  <2>1. DOMAIN X = DOMAIN A \cup DOMAIN B
    BY SumIs
  <2>2. DOMAIN Y = DOMAIN C \cup DOMAIN D
    BY SumIs
  <2>3. \A g \in DOMAIN A \cup DOMAIN B : X[g] % U32 = Y[g] % U32
    BY <1>5
  <2> HIDE DEF X, Y
  <2> QED
    BY <1>1, <2>1, <2>2, <2>3
<1> HIDE DEF X, Y
<1>7. Wrapped(X) = Wrapped(Y)
  BY <1>6 DEF Wrapped
<1> QED
  BY <1>7 DEF X, Y

LEMMA SumsAreTally ==
  ASSUME NEW ps, FilesOK(ps), NEW C \in SUBSET DOMAIN ps
  PROVE  IsTally(SumOf(ps, C))
<1>1. \A g : Cardinality(Copies(ps, C, g)) \in Nat
  BY CopiesAreFinite, FS_CardinalityType
<1> QED
  BY <1>1, SumsAre DEF IsTally

-----------------------------------------------------------------------------
(* docid counts the ends of documents, and chunk is that of the phrase     *)
(* next; after the last chunk is saved no phrase is of chunk or later.     *)
PositionOK ==
  pc # "down" =>
    /\ docid = Ends(next) + 1
    /\ pc = "read" => chunk = ChunkOf(next)
    /\ pc # "read" => next = Len(corpus) + 1 /\ chunk = ChunkOf(next) + 1

(* The phrases of the chunks this run has saved, and its part files.       *)
Closed == {i \in 1..(next - 1) : ChunkOf(i) < chunk}
Own == 1..(chunk - 1)

OwnPartsSum == pc # "down" => Wrapped(SumOf(parts, Own)) = Wrapped(GramsIn(Closed))

(* The inductive invariant.                                                *)
IInv ==
  /\ TypeOK
  /\ PositionOK
  /\ PartsHoldWindows
  /\ OwnPartsSum
  /\ ResultIsOwnPlusStale
  /\ FailsOnlyOnStale

(* What PartsHoldWindows says, in the terms of these proofs.               *)
OwnPartsHold ==
  pc # "down" =>
    \A c \in Own : c \in DOMAIN parts /\ parts[c] = Whole(Wrapped(GramsIn(Window(c))))

MemoryHolds == pc # "down" => counts = Wrapped(GramsIn(Window(chunk)))

LEMMA PartsRestated == PartsHoldWindows <=> OwnPartsHold /\ MemoryHolds
BY DEF PartsHoldWindows, OwnPartsHold, MemoryHolds, Own, GramsIn

(* Every phrase read is of a saved chunk or of the one in memory.          *)
LEMMA WindowFacts ==
  ASSUME TypeOK, PositionOK, pc # "down"
  PROVE  /\ Closed \subseteq DOMAIN corpus /\ \A c : Window(c) \subseteq DOMAIN corpus
         /\ Closed \cap Window(chunk) = {}
         /\ 1..(next - 1) = Closed \cup Window(chunk)
         /\ pc # "read" => Window(chunk) = {}
<1>1. ASSUME NEW i \in 1..(next - 1) PROVE /\ i \in DOMAIN corpus
                                           /\ ChunkOf(i) \in Nat
                                           /\ ChunkOf(i) <= ChunkOf(next)
  <2>1. /\ i \in 1..(Len(corpus) + 1) /\ next \in 1..(Len(corpus) + 1)
        /\ i <= next /\ i \in DOMAIN corpus
    BY CorpusFacts
  <2> QED
    BY <2>1, ChunkGrows
<1>2. next \in 1..(Len(corpus) + 1)
  BY DEF TypeOK
<1>3. ChunkOf(next) \in Nat
  BY <1>2, ChunkGrows, CorpusFacts
<1>4. chunk = ChunkOf(next) \/ (pc # "read" /\ chunk = ChunkOf(next) + 1)
  BY DEF PositionOK
<1>5. pc # "read" => chunk = ChunkOf(next) + 1
  BY DEF PositionOK
<1>6. \A i \in 1..(next - 1) : ChunkOf(i) < chunk \/ ChunkOf(i) = chunk
  BY <1>1, <1>3, <1>4
<1>7. \A i \in 1..(next - 1) : ChunkOf(i) < chunk => ChunkOf(i) # chunk
  BY <1>1, <1>3, <1>4
<1>8. pc # "read" => \A i \in 1..(next - 1) : ChunkOf(i) # chunk
  BY <1>1, <1>3, <1>5
<1> QED
  BY <1>1, <1>6, <1>7, <1>8 DEF Closed, Window

-----------------------------------------------------------------------------
(* A run begins, the first one or a further one: whatever the directory    *)
(* holds, none of it is this run's.                                        *)
Fresh ==
  /\ corpus \in Corpora /\ FilesOK(parts)
  /\ next = 1 /\ counts = EmptyBag /\ docid = 1 /\ chunk = 1 /\ pc = "read"

LEMMA FreshInv == Fresh => IInv
<1> SUFFICES ASSUME Fresh PROVE IInv
  OBVIOUS
<1>1. TypeOK
  <2>1. Len(corpus) \in Nat
    BY CorporaAssumption DEF Fresh
  <2> QED
    BY <2>1 DEF Fresh, TypeOK
<1>2. Ends(1) = 0
  <2>1. EmptyBefore(1) = {}
    BY DEF EmptyBefore
  <2> QED
    BY <2>1, FS_EmptySet DEF Ends
<1>3. ChunkOf(1) = 1
  <2>1. 0 \div ChunkDocs = 0
    BY ChunkDocsAssumption
  <2> QED
    BY <1>2, <2>1, ChunkIs
<1>4. PositionOK
  BY <1>2, <1>3 DEF PositionOK, Fresh
<1>5. Closed = {} /\ Own = {} /\ Window(1) = {}
  BY DEF Closed, Own, Window, Fresh
<1>6. OwnPartsHold
  BY <1>5 DEF OwnPartsHold
<1>7. MemoryHolds
  BY <1>5, NoPhrases, NoneWrapped DEF MemoryHolds, Fresh
<1>8. OwnPartsSum
  BY <1>5, NoPhrases, NoFiles DEF OwnPartsSum
<1>9. ResultIsOwnPlusStale /\ FailsOnlyOnStale
  BY DEF ResultIsOwnPlusStale, FailsOnlyOnStale, Fresh
<1> QED
  BY <1>1, <1>4, <1>6, <1>7, <1>8, <1>9, PartsRestated DEF IInv

LEMMA InitInv == Init => IInv
<1> SUFFICES ASSUME Init PROVE Fresh
  BY FreshInv
<1>1. DOMAIN parts = {}
  BY DEF Init
<1>2. FilesOK(parts)
  BY <1>1, FS_EmptySet DEF FilesOK
<1> QED
  BY <1>2 DEF Init, Fresh

LEMMA RestartInv == IInv /\ Restart => IInv'
<1> SUFFICES ASSUME IInv, Restart PROVE Fresh'
  <2>1. Fresh' => IInv'
    BY FreshInv, PTL
  <2> QED
    BY <2>1
<1>1. corpus' \in Corpora
  BY CorporaAssumption DEF Restart, IInv, TypeOK
<1>2. FilesOK(parts')
  BY DEF Restart, IInv, TypeOK
<1> QED
  BY <1>1, <1>2 DEF Restart, Fresh

(* The process is down: nothing is said but that the directory holds files. *)
LEMMA DownInv ==
  ASSUME IInv, Dies, FilesOK(parts')
  PROVE  IInv'
<1>1. TypeOK'
  BY DEF IInv, TypeOK, Dies
<1>2. pc' = "down"
  BY DEF Dies
<1> QED
  BY <1>1, <1>2
  DEF IInv, PositionOK, PartsHoldWindows, OwnPartsSum, ResultIsOwnPlusStale, FailsOnlyOnStale

(* A part file replaced or added.                                          *)
LEMMA OneMoreFile ==
  ASSUME NEW ps, FilesOK(ps), NEW c \in Nat \ {0}, NEW qs,
         DOMAIN qs = DOMAIN ps \cup {c}, qs[c].header \in BOOLEAN, IsTally(qs[c].grams),
         \A d \in DOMAIN ps \ {c} : qs[d] = ps[d]
  PROVE  FilesOK(qs)
<1>1. IsFiniteSet(DOMAIN ps \cup {c})
  BY FS_AddElement DEF FilesOK
<1>2. DOMAIN qs \subseteq Nat \ {0}
  BY DEF FilesOK
<1>3. ASSUME NEW d \in DOMAIN qs PROVE qs[d].header \in BOOLEAN /\ IsTally(qs[d].grams)
  <2>1. CASE d = c
    BY <2>1
  <2>2. CASE d # c
    BY <2>2 DEF FilesOK
  <2> QED
    BY <2>1, <2>2
<1> QED
  BY <1>1, <1>2, <1>3 DEF FilesOK

LEMMA CrashReadingInv == IInv /\ CrashReading => IInv'
BY DownInv DEF CrashReading, IInv, TypeOK

LEMMA CrashMergingInv == IInv /\ CrashMerging => IInv'
BY DownInv DEF CrashMerging, IInv, TypeOK

LEMMA CrashSavingInv == IInv /\ CrashSaving => IInv'
<1> SUFFICES ASSUME IInv, CrashSaving PROVE FilesOK(parts')
  BY DownInv DEF CrashSaving
<1>1. FilesOK(parts) /\ chunk \in Nat \ {0} /\ Dies /\ pc = "read"
  BY DEF IInv, TypeOK, CrashSaving
<1>2. PICK f \in Torn(counts) : parts' = WithPart(chunk, f)
  BY DEF CrashSaving
<1>3. IsTally(counts)
  <2>1. TypeOK /\ PositionOK /\ counts = Wrapped(GramsIn(Window(chunk)))
    BY <1>1, PartsRestated DEF IInv, MemoryHolds
  <2>2. Window(chunk) \subseteq DOMAIN corpus
    BY <1>1, <2>1, WindowFacts
  <2> QED
    BY <2>1, <2>2, GramsInAreTally, WrappedTwice
<1>4. f.header \in BOOLEAN /\ IsTally(f.grams)
  <2>1. IsTally(EmptyBag)
    BY DEF IsTally, EmptyBag, SetToBag
  <2>2. ASSUME NEW n PROVE IsTally(UpTo(counts, n))
    BY <1>3 DEF IsTally, UpTo
  <2>3. CASE f = Headless
    BY <2>1, <2>3 DEF Headless
  <2>4. CASE \E n : f = Whole(UpTo(counts, n))
    BY <2>2, <2>4 DEF Whole
  <2> QED
    BY <1>2, <2>3, <2>4 DEF Torn
<1>5. /\ DOMAIN parts' = DOMAIN parts \cup {chunk} /\ parts'[chunk] = f
      /\ \A d \in DOMAIN parts \ {chunk} : parts'[d] = parts[d]
  BY <1>2 DEF WithPart
<1> QED
  BY <1>1, <1>4, <1>5, OneMoreFile

-----------------------------------------------------------------------------
(* Reading: phrase next joins the chunk in memory.                         *)
LEMMA CorpusStays ==
  ASSUME corpus' = corpus
  PROVE  /\ \A I : GramsIn(I)' = GramsIn(I)
         /\ \A i : Ends(i)' = Ends(i)
         /\ \A i : ChunkOf(i)' = ChunkOf(i)
BY DEF GramsIn, Ends, EmptyBefore, ChunkOf

LEMMA Advance ==
  ASSUME TypeOK, PositionOK, Reading, corpus' = corpus, next' = next + 1
  PROVE  /\ next \in DOMAIN corpus /\ next' \in 1..(Len(corpus) + 1)
         /\ next \notin Window(chunk)
         /\ \A c : Window(c)' = IF c = chunk THEN Window(c) \cup {next} ELSE Window(c)
         /\ 1..(next' - 1) = 1..(next - 1) \cup {next}
         /\ ChunkOf(next) = chunk
         /\ Ends(next') = IF EndOfDocument THEN docid ELSE docid - 1
         /\ ChunkOf(next') = IF EndOfDocument /\ ChunkFull THEN chunk + 1 ELSE chunk
<1>1. /\ next \in DOMAIN corpus /\ next' \in 1..(Len(corpus) + 1)
      /\ next \in Nat \ {0} /\ pc = "read"
  BY CorpusFacts DEF Reading
<1>2. ChunkOf(next) = chunk /\ Ends(next) + 1 = docid
  BY <1>1 DEF PositionOK
<1>3. 1..(next' - 1) = 1..(next - 1) \cup {next} /\ next \notin 1..(next - 1)
  BY <1>1
<1>4. \A i : ChunkOf(i)' = ChunkOf(i)
  BY CorpusStays
<1>5. ASSUME NEW c
      PROVE  Window(c)' = IF c = chunk THEN Window(c) \cup {next} ELSE Window(c)
  <2>1. Window(c)' = {i \in 1..(next - 1) \cup {next} : ChunkOf(i) = c}
    BY <1>3, <1>4 DEF Window
  <2> QED
    BY <1>2, <2>1 DEF Window
<1>6. next \notin Window(chunk)
  BY <1>3 DEF Window
<1>7. Ends(next + 1) = IF corpus[next] = <<>> THEN Ends(next) + 1 ELSE Ends(next)
  BY <1>1, EndsStep
<1>8. ChunkOf(next + 1) = IF corpus[next] = <<>> /\ (Ends(next) + 1) % ChunkDocs = 0
                            THEN ChunkOf(next) + 1 ELSE ChunkOf(next)
  BY <1>1, ChunkStep
<1>9. Ends(next) \in Nat
  BY <1>1, EndsFacts DEF TypeOK
<1>10. Ends(next') = IF EndOfDocument THEN docid ELSE docid - 1
  BY <1>2, <1>7, <1>9 DEF EndOfDocument
<1>11. ChunkOf(next') = IF EndOfDocument /\ ChunkFull THEN chunk + 1 ELSE chunk
  BY <1>2, <1>8 DEF EndOfDocument, ChunkFull
<1> QED
  BY <1>1, <1>2, <1>3, <1>4, <1>5, <1>6, <1>10, <1>11

(* Position and grams while the chunk in memory goes on.                   *)
LEMMA ChunkGoesOn ==
  ASSUME IInv, Reading, corpus' = corpus, next' = next + 1, chunk' = chunk, parts' = parts,
         pc' = pc, docid' \in Nat \ {0}, docid' = Ends(next') + 1, ChunkOf(next') = chunk,
         counts' = Wrapped(GramsIn(Window(chunk) \cup {next}))
  PROVE  IInv'
<1>1. TypeOK /\ PositionOK /\ OwnPartsHold /\ OwnPartsSum /\ pc = "read"
  BY PartsRestated DEF IInv, Reading
<1>2. /\ next' \in 1..(Len(corpus) + 1) /\ next \in DOMAIN corpus
      /\ \A c : Window(c)' = IF c = chunk THEN Window(c) \cup {next} ELSE Window(c)
      /\ 1..(next' - 1) = 1..(next - 1) \cup {next}
      /\ ChunkOf(next) = chunk
  BY <1>1, Advance
<1>3. /\ \A I : GramsIn(I)' = GramsIn(I)
      /\ \A i : Ends(i)' = Ends(i)
      /\ \A i : ChunkOf(i)' = ChunkOf(i)
  BY CorpusStays
<1>4. TypeOK'
  BY <1>1, <1>2 DEF TypeOK
<1>5. PositionOK'
  <2>1. Ends(next)' = Ends(next') /\ ChunkOf(next)' = ChunkOf(next')
    BY DEF Ends, EmptyBefore, ChunkOf
  <2> QED
    BY <1>1, <2>1 DEF PositionOK
<1>6. chunk \in Nat \ {0}
  BY <1>1 DEF TypeOK
<1>7. Own' = Own /\ chunk \notin Own
  BY <1>6 DEF Own
<1>8. Closed' = Closed
  <2>1. Closed' = {i \in 1..(next - 1) \cup {next} : ChunkOf(i) < chunk}
    BY <1>2, <1>3 DEF Closed
  <2>2. ~(ChunkOf(next) < chunk)
    BY <1>2, <1>3, <1>6
  <2> QED
    BY <2>1, <2>2 DEF Closed
<1>9. OwnPartsHold'
  BY <1>1, <1>2, <1>3, <1>7 DEF OwnPartsHold
<1>10. MemoryHolds'
  <2>1. Wrapped(GramsIn(Window(chunk)))' = Wrapped(GramsIn(Window(chunk) \cup {next}))
    BY <1>2, <1>3 DEF Wrapped
  <2> QED
    BY <2>1 DEF MemoryHolds
<1>11. OwnPartsSum'
  BY <1>1, <1>3, <1>7, <1>8 DEF OwnPartsSum
<1>12. (ResultIsOwnPlusStale /\ FailsOnlyOnStale)'
  BY <1>1 DEF ResultIsOwnPlusStale, FailsOnlyOnStale
<1>13. PartsHoldWindows' <=> OwnPartsHold' /\ MemoryHolds'
  BY PartsRestated, PTL
<1> QED
  BY <1>4, <1>5, <1>9, <1>10, <1>11, <1>12, <1>13 DEF IInv

LEMMA CountInv == IInv /\ Count => IInv'
<1> SUFFICES ASSUME IInv, Count PROVE IInv'
  OBVIOUS
<1>1. TypeOK /\ PositionOK /\ MemoryHolds /\ Reading /\ ~EndOfDocument /\ pc # "down"
  BY PartsRestated DEF IInv, Count, Reading
<1>2. /\ corpus' = corpus /\ next' = next + 1 /\ chunk' = chunk /\ parts' = parts /\ pc' = pc
      /\ docid' = docid
      /\ counts' = Wrapped(counts (+) GramsIn({next}))
  BY PlusIs DEF Count, GramsIn
<1>3. /\ next \in DOMAIN corpus /\ next \notin Window(chunk)
      /\ Ends(next') = docid - 1 /\ ChunkOf(next') = chunk
  BY <1>1, <1>2, Advance
<1>4. docid' \in Nat \ {0} /\ docid' = Ends(next') + 1
  BY <1>1, <1>2, <1>3 DEF TypeOK
<1>5. Window(chunk) \subseteq DOMAIN corpus
  BY <1>1, WindowFacts
<1>6. GramsIn(Window(chunk) \cup {next}) = GramsIn(Window(chunk)) (+) GramsIn({next})
  BY <1>1, <1>3, <1>5, GramsInAdd
<1>7. counts = Wrapped(GramsIn(Window(chunk)))
  BY <1>1 DEF MemoryHolds
<1>8. counts' = Wrapped(GramsIn(Window(chunk) \cup {next}))
  <2>1. IsTally(GramsIn(Window(chunk))) /\ IsTally(GramsIn({next}))
    BY <1>1, <1>3, <1>5, GramsInAreTally
  <2>2. IsTally(counts) /\ Wrapped(counts) = Wrapped(GramsIn(Window(chunk)))
    BY <1>7, <2>1, WrappedTwice
  <2> QED
    BY <1>2, <1>6, <2>1, <2>2, WrapAdds
<1> QED
  BY <1>1, <1>2, <1>3, <1>4, <1>8, ChunkGoesOn

LEMMA EndDocumentInv == IInv /\ EndDocument => IInv'
<1> SUFFICES ASSUME IInv, EndDocument PROVE IInv'
  OBVIOUS
<1>1. /\ TypeOK /\ PositionOK /\ MemoryHolds /\ pc # "down"
      /\ Reading /\ EndOfDocument /\ ~ChunkFull
  BY PartsRestated DEF IInv, EndDocument, Reading
<1>2. /\ corpus' = corpus /\ next' = next + 1 /\ chunk' = chunk /\ parts' = parts /\ pc' = pc
      /\ docid' = docid + 1 /\ counts' = counts
  BY DEF EndDocument
<1>3. Ends(next') = docid /\ ChunkOf(next') = chunk
  BY <1>1, <1>2, Advance
<1>4. docid' \in Nat \ {0} /\ docid' = Ends(next') + 1
  BY <1>1, <1>2, <1>3 DEF TypeOK
<1>5. counts' = Wrapped(GramsIn(Window(chunk) \cup {next}))
  BY <1>1, <1>2, EmptyPhrase DEF MemoryHolds, EndOfDocument
<1> QED
  BY <1>1, <1>2, <1>3, <1>4, <1>5, ChunkGoesOn

-----------------------------------------------------------------------------
(* A chunk is saved: the part files of the run now hold every phrase read. *)
LEMMA SaveFacts ==
  ASSUME IInv, pc = "read", SaveChunk
  PROVE  /\ FilesOK(parts')
         /\ Own' = Own \cup {chunk} /\ chunk' \in Nat \ {0}
         /\ \A c \in Own' : c \in DOMAIN parts' /\ parts'[c] = Whole(Wrapped(GramsIn(Window(c))))
         /\ Wrapped(SumOf(parts', Own')) = Wrapped(GramsIn(1..(next - 1)))
<1>1. /\ TypeOK /\ PositionOK /\ MemoryHolds /\ OwnPartsHold /\ OwnPartsSum /\ pc # "down"
      /\ FilesOK(parts) /\ chunk \in Nat \ {0}
  BY PartsRestated DEF IInv, TypeOK
<1>2. /\ Closed \subseteq DOMAIN corpus /\ Window(chunk) \subseteq DOMAIN corpus
      /\ Closed \cap Window(chunk) = {} /\ 1..(next - 1) = Closed \cup Window(chunk)
  BY <1>1, WindowFacts
<1>3. /\ counts = Wrapped(GramsIn(Window(chunk)))
      /\ Wrapped(SumOf(parts, Own)) = Wrapped(GramsIn(Closed))
      /\ \A c \in Own : c \in DOMAIN parts /\ parts[c] = Whole(Wrapped(GramsIn(Window(c))))
  BY <1>1 DEF MemoryHolds, OwnPartsSum, OwnPartsHold
<1>4. /\ IsTally(counts) /\ Wrapped(counts) = Wrapped(GramsIn(Window(chunk)))
      /\ IsTally(GramsIn(Window(chunk))) /\ IsTally(GramsIn(Closed))
  BY <1>1, <1>2, <1>3, GramsInAreTally, WrappedTwice
<1>5. /\ DOMAIN parts' = DOMAIN parts \cup {chunk} /\ parts'[chunk] = Whole(counts)
      /\ \A d \in DOMAIN parts \ {chunk} : parts'[d] = parts[d]
      /\ chunk' = chunk + 1
  BY DEF SaveChunk, WithPart
<1>6. parts'[chunk].header \in BOOLEAN /\ parts'[chunk].grams = counts
  BY <1>5 DEF Whole
<1>7. FilesOK(parts')
  BY <1>1, <1>4, <1>5, <1>6, OneMoreFile
<1>8. Own' = Own \cup {chunk} /\ chunk' \in Nat \ {0} /\ chunk \notin Own
  BY <1>1, <1>5 DEF Own
<1>9. \A c \in Own : c \in DOMAIN parts' /\ parts'[c] = parts[c]
  BY <1>3, <1>5, <1>8
<1>10. \A c \in Own' : c \in DOMAIN parts' /\ parts'[c] = Whole(Wrapped(GramsIn(Window(c))))
  BY <1>3, <1>5, <1>8, <1>9
<1>11. SumOf(parts', Own') = SumOf(parts', Own) (+) SumOf(parts', {chunk})
  <2>1. Own \subseteq DOMAIN parts' /\ {chunk} \subseteq DOMAIN parts' /\ Own \cap {chunk} = {}
    BY <1>5, <1>8, <1>9
  <2>2. SumOf(parts', Own \cup {chunk}) = SumOf(parts', Own) (+) SumOf(parts', {chunk})
    BY <1>7, <2>1, SumsAdd
  <2> QED
    BY <1>8, <2>2
<1>12. SumOf(parts', {chunk}) = counts
  BY <1>5, <1>6, <1>7, OneFile
<1>13. SumOf(parts', Own) = SumOf(parts, Own)
  BY <1>9, SameFiles
<1>14. GramsIn(Closed \cup Window(chunk)) = GramsIn(Closed) (+) GramsIn(Window(chunk))
  BY <1>1, <1>2, GramsInAdd
<1>15. Wrapped(SumOf(parts', Own')) = Wrapped(GramsIn(1..(next - 1)))
  <2>1. IsTally(SumOf(parts, Own))
    <3>1. Own \subseteq DOMAIN parts
      BY <1>3
    <3> QED
      BY <1>1, <3>1, SumsAreTally
  <2>2. SumOf(parts', Own') = SumOf(parts, Own) (+) counts
    BY <1>11, <1>12, <1>13
  <2>3. Wrapped(SumOf(parts, Own) (+) counts) = Wrapped(GramsIn(Closed) (+) GramsIn(Window(chunk)))
    BY <1>3, <1>4, <2>1, WrapAdds
  <2> QED
    BY <1>2, <1>14, <2>2, <2>3
<1> QED
  BY <1>7, <1>8, <1>10, <1>15

LEMMA FinishInv == IInv /\ Finish => IInv'
<1> SUFFICES ASSUME IInv, Finish PROVE IInv'
  OBVIOUS
<1>1. /\ TypeOK /\ PositionOK /\ pc = "read" /\ SaveChunk
      /\ next > Len(corpus)
      /\ corpus' = corpus /\ next' = next /\ docid' = docid /\ pc' = "merge"
      /\ counts' = EmptyBag /\ chunk' = chunk + 1
  BY DEF IInv, Finish, SaveChunk
<1>2. /\ FilesOK(parts') /\ chunk' \in Nat \ {0}
      /\ \A c \in Own' : c \in DOMAIN parts' /\ parts'[c] = Whole(Wrapped(GramsIn(Window(c))))
      /\ Wrapped(SumOf(parts', Own')) = Wrapped(GramsIn(1..(next - 1)))
  BY <1>1, SaveFacts
<1>3. /\ \A I : GramsIn(I)' = GramsIn(I)
      /\ \A i : Ends(i)' = Ends(i)
      /\ \A i : ChunkOf(i)' = ChunkOf(i)
  BY <1>1, CorpusStays
<1>4. TypeOK'
  BY <1>1, <1>2 DEF TypeOK
<1>5. next = Len(corpus) + 1
  BY <1>1, CorpusFacts
<1>6. PositionOK'
  <2>1. Ends(next)' = Ends(next) /\ ChunkOf(next)' = ChunkOf(next)
    BY <1>1 DEF Ends, EmptyBefore, ChunkOf
  <2> QED
    BY <1>1, <1>5, <2>1 DEF PositionOK
<1>7. \A c : Window(c)' = Window(c)
  BY <1>1, <1>3 DEF Window
<1>8. OwnPartsHold'
  BY <1>2, <1>3, <1>7 DEF OwnPartsHold
<1>9. Window(chunk)' = {} /\ Closed' = 1..(next - 1)
  <2>1. PositionOK' /\ TypeOK' /\ (pc # "down")' /\ (pc # "read")'
    BY <1>1, <1>4, <1>6
  <2>2. (TypeOK /\ PositionOK /\ pc # "down"
           => /\ 1..(next - 1) = Closed \cup Window(chunk)
              /\ pc # "read" => Window(chunk) = {})'
    BY WindowFacts, PTL
  <2> QED
    BY <1>1, <2>1, <2>2
<1>10. GramsIn({}) = EmptyBag
  BY NoPhrases
<1>11. MemoryHolds'
  <2>1. Wrapped(GramsIn(Window(chunk)))' = Wrapped(GramsIn({}))
    BY <1>1, <1>9 DEF GramsIn, Wrapped
  <2> QED
    BY <1>1, <1>10, <2>1, NoneWrapped DEF MemoryHolds
<1>12. OwnPartsSum'
  <2>1. Wrapped(GramsIn(Closed))' = Wrapped(GramsIn(1..(next - 1)))
    BY <1>1, <1>9 DEF GramsIn, Wrapped
  <2> QED
    BY <1>2, <2>1 DEF OwnPartsSum
<1>13. (ResultIsOwnPlusStale /\ FailsOnlyOnStale)'
  BY <1>1 DEF ResultIsOwnPlusStale, FailsOnlyOnStale
<1>14. PartsHoldWindows' <=> OwnPartsHold' /\ MemoryHolds'
  BY PartsRestated, PTL
<1> QED
  BY <1>4, <1>6, <1>8, <1>11, <1>12, <1>13, <1>14 DEF IInv

LEMMA EndChunkInv == IInv /\ EndChunk => IInv'
<1> SUFFICES ASSUME IInv, EndChunk PROVE IInv'
  OBVIOUS
<1>1. /\ TypeOK /\ PositionOK /\ pc = "read" /\ SaveChunk /\ Reading /\ EndOfDocument /\ ChunkFull
      /\ corpus' = corpus /\ next' = next + 1 /\ docid' = docid + 1 /\ pc' = pc
      /\ counts' = EmptyBag /\ chunk' = chunk + 1
  BY DEF IInv, EndChunk, SaveChunk, Reading
<1>2. /\ FilesOK(parts') /\ chunk' \in Nat \ {0} /\ Own' = Own \cup {chunk}
      /\ \A c \in Own' : c \in DOMAIN parts' /\ parts'[c] = Whole(Wrapped(GramsIn(Window(c))))
      /\ Wrapped(SumOf(parts', Own')) = Wrapped(GramsIn(1..(next - 1)))
  BY <1>1, SaveFacts
<1>3. /\ next \in DOMAIN corpus /\ next' \in 1..(Len(corpus) + 1)
      /\ \A c : Window(c)' = IF c = chunk THEN Window(c) \cup {next} ELSE Window(c)
      /\ 1..(next' - 1) = 1..(next - 1) \cup {next}
      /\ Ends(next') = docid /\ ChunkOf(next') = chunk + 1
  BY <1>1, Advance
<1>4. /\ \A I : GramsIn(I)' = GramsIn(I)
      /\ \A I : GramsIn(I \cup {next}) = GramsIn(I)
  BY <1>1, CorpusStays, EmptyPhrase DEF EndOfDocument
<1>5. TypeOK'
  BY <1>1, <1>2, <1>3 DEF TypeOK
<1>6. PositionOK'
  <2>1. Ends(next)' = Ends(next') /\ ChunkOf(next)' = ChunkOf(next')
    BY <1>1 DEF Ends, EmptyBefore, ChunkOf
  <2> QED
    BY <1>1, <1>3, <2>1 DEF PositionOK
<1>7. \A c : GramsIn(Window(c))' = GramsIn(Window(c))
  <2> SUFFICES ASSUME NEW c PROVE GramsIn(Window(c)') = GramsIn(Window(c))
    BY <1>1 DEF GramsIn
  <2>1. CASE c = chunk
    <3>1. Window(c)' = Window(c) \cup {next}
      BY <1>3, <2>1
    <3> QED
      BY <1>4, <3>1
  <2>2. CASE c # chunk
    <3>1. Window(c)' = Window(c)
      BY <1>3, <2>2
    <3> QED
      BY <3>1
  <2> QED
    BY <2>1, <2>2
<1>8. OwnPartsHold'
  BY <1>2, <1>7 DEF OwnPartsHold
<1>9. Window(chunk)' = {} /\ Closed' = 1..(next - 1) \cup {next}
  <2>1. ASSUME NEW i \in 1..(next - 1) \cup {next} PROVE ChunkOf(i) < chunk + 1
    <3>1. /\ i \in 1..(Len(corpus) + 1) /\ next \in 1..(Len(corpus) + 1) /\ i <= next
      BY CorpusFacts, <1>1
    <3>2. ChunkOf(i) <= ChunkOf(next) /\ ChunkOf(i) \in Nat /\ ChunkOf(next) \in Nat
      BY <1>1, <3>1, ChunkGrows
    <3>3. ChunkOf(next) = chunk
      BY <1>1 DEF PositionOK
    <3> QED
      BY <3>2, <3>3
  <2>2. \A i : ChunkOf(i)' = ChunkOf(i)
    BY <1>1, CorpusStays
  <2>3. Closed' = {i \in 1..(next - 1) \cup {next} : ChunkOf(i) < chunk + 1}
    BY <1>1, <1>3, <2>2 DEF Closed
  <2>4. (TypeOK /\ PositionOK /\ pc # "down" => Closed \cap Window(chunk) = {})'
    BY WindowFacts, PTL
  <2>5. Closed' \cap Window(chunk)' = {}
    BY <1>1, <1>5, <1>6, <2>4
  <2>6. Window(chunk)' \subseteq 1..(next' - 1)
    BY DEF Window
  <2> QED
    BY <1>3, <2>1, <2>3, <2>5, <2>6
<1>10. GramsIn({}) = EmptyBag
  BY NoPhrases
<1>11. MemoryHolds'
  <2>1. Wrapped(GramsIn(Window(chunk)))' = Wrapped(GramsIn({}))
    BY <1>1, <1>9 DEF GramsIn, Wrapped
  <2> QED
    BY <1>1, <1>10, <2>1, NoneWrapped DEF MemoryHolds
<1>12. OwnPartsSum'
  <2>1. Wrapped(GramsIn(Closed))' = Wrapped(GramsIn(1..(next - 1) \cup {next}))
    BY <1>1, <1>9 DEF GramsIn, Wrapped
  <2> QED
    BY <1>2, <1>4, <2>1 DEF OwnPartsSum
<1>13. (ResultIsOwnPlusStale /\ FailsOnlyOnStale)'
  BY <1>1 DEF ResultIsOwnPlusStale, FailsOnlyOnStale
<1>14. PartsHoldWindows' <=> OwnPartsHold' /\ MemoryHolds'
  BY PartsRestated, PTL
<1> QED
  BY <1>5, <1>6, <1>8, <1>11, <1>12, <1>13, <1>14 DEF IInv

-----------------------------------------------------------------------------
(* The merge: the run's own parts are whole and hold the corpus; any other *)
(* part of the directory has a higher number.                              *)
LEMMA MergedIs ==
  ASSUME IInv, pc = "merge"
  PROVE  /\ DOMAIN parts = Own \cup Stale
         /\ \A c \in Own : parts[c].header
         /\ Merged = Plus(GramsIn(DOMAIN corpus), SumOf(parts, Stale))
<1>1. /\ TypeOK /\ PositionOK /\ OwnPartsHold /\ OwnPartsSum /\ pc # "down"
      /\ FilesOK(parts) /\ chunk \in Nat \ {0}
  BY PartsRestated DEF IInv, TypeOK
<1>2. /\ Own \subseteq DOMAIN parts
      /\ \A c \in Own : parts[c].header
  <2>1. \A c \in Own : c \in DOMAIN parts /\ parts[c] = Whole(Wrapped(GramsIn(Window(c))))
    BY <1>1 DEF OwnPartsHold
  <2>2. \A B : Whole(B).header
    BY DEF Whole
  <2> QED
    BY <2>1, <2>2
<1>3. DOMAIN parts = Own \cup Stale /\ Own \cap Stale = {}
  <2>1. DOMAIN parts \subseteq Nat \ {0}
    BY <1>1 DEF FilesOK
  <2> QED
    BY <1>1, <1>2, <2>1 DEF Own, Stale
<1>4. SumOf(parts, Own \cup Stale) = SumOf(parts, Own) (+) SumOf(parts, Stale)
  BY <1>1, <1>3, SumsAdd
<1>5. Closed = DOMAIN corpus
  <2>1. 1..(next - 1) = Closed \cup Window(chunk) /\ Window(chunk) = {}
    BY <1>1, WindowFacts
  <2>2. next = Len(corpus) + 1
    BY <1>1 DEF PositionOK
  <2> QED
    BY <1>1, <2>1, <2>2, CorpusFacts
<1>6. Wrapped(SumOf(parts, Own)) = Wrapped(GramsIn(DOMAIN corpus))
  BY <1>1, <1>5 DEF OwnPartsSum
<1>7. IsTally(SumOf(parts, Own)) /\ IsTally(SumOf(parts, Stale)) /\ IsTally(GramsIn(DOMAIN corpus))
  BY <1>1, <1>3, SumsAreTally, GramsInAreTally
<1>8. Wrapped(SumOf(parts, Own) (+) SumOf(parts, Stale))
        = Wrapped(GramsIn(DOMAIN corpus) (+) SumOf(parts, Stale))
  BY <1>6, <1>7, WrapAdds
<1>9. Merged = Plus(GramsIn(DOMAIN corpus), SumOf(parts, Stale))
  BY <1>3, <1>4, <1>8, PlusIs DEF Merged
<1> QED
  BY <1>2, <1>3, <1>9

(* What is the same when nothing but result and pc changes.                *)
LEMMA RunStays ==
  ASSUME IInv, pc # "down", pc # "read", UNCHANGED <<corpus, next, counts, docid, chunk, parts>>,
         pc' \in {"merge", "done", "failed"}
  PROVE  TypeOK' /\ PositionOK' /\ PartsHoldWindows' /\ OwnPartsSum' /\ Stale' = Stale
<1>1. TypeOK'
  BY DEF IInv, TypeOK
<1>2. PositionOK'
  BY DEF IInv, PositionOK, Ends, EmptyBefore, ChunkOf
<1>3. PartsHoldWindows'
  <2>1. \A c : Window(c)' = Window(c)
    BY DEF Window, ChunkOf
  <2>2. PartsHoldWindows
    BY DEF IInv
  <2> QED
    BY <2>1, <2>2 DEF PartsHoldWindows
<1>4. OwnPartsSum'
  BY DEF IInv, OwnPartsSum, Own, GramsIn, Closed, ChunkOf
<1> QED
  BY <1>1, <1>2, <1>3, <1>4 DEF Stale

LEMMA MergeInv == IInv /\ Merge => IInv'
<1> SUFFICES ASSUME IInv, Merge PROVE IInv'
  OBVIOUS
<1>1. TypeOK' /\ PositionOK' /\ PartsHoldWindows' /\ OwnPartsSum' /\ Stale' = Stale
  BY RunStays DEF Merge
<1>2. result' = Whole(Plus(GramsIn(DOMAIN corpus), SumOf(parts, Stale)))
  BY MergedIs DEF Merge
<1>3. ResultIsOwnPlusStale'
  <2>1. corpus' = corpus /\ parts' = parts
    BY DEF Merge
  <2>2. SumOf(parts', Stale') = SumOf(parts, Stale)
    BY <1>1, <2>1
  <2>3. result' = Whole(Plus(GramsOf(corpus', PlacesOf(corpus', DOMAIN corpus')), SumOf(parts', Stale')))
    BY <1>2, <2>1, <2>2 DEF GramsIn
  <2> QED
    BY <2>3 DEF ResultIsOwnPlusStale
<1>4. FailsOnlyOnStale'
  BY DEF FailsOnlyOnStale, Merge
<1> QED
  BY <1>1, <1>3, <1>4 DEF IInv

LEMMA MergeThrowsInv == IInv /\ MergeThrows => IInv'
<1> SUFFICES ASSUME IInv, MergeThrows PROVE IInv'
  OBVIOUS
<1>1. TypeOK' /\ PositionOK' /\ PartsHoldWindows' /\ OwnPartsSum' /\ Stale' = Stale
  BY RunStays DEF MergeThrows
<1>2. PICK c \in DOMAIN parts : ~parts[c].header
  BY DEF MergeThrows
<1>3. c \in Stale
  BY <1>2, MergedIs DEF MergeThrows
<1>4. FailsOnlyOnStale'
  BY <1>1, <1>2, <1>3 DEF FailsOnlyOnStale, MergeThrows
<1>5. ResultIsOwnPlusStale'
  BY DEF ResultIsOwnPlusStale, MergeThrows
<1> QED
  BY <1>1, <1>4, <1>5 DEF IInv

LEMMA StutterInv == IInv /\ UNCHANGED vars => IInv'
<1> SUFFICES ASSUME IInv, UNCHANGED vars PROVE IInv'
  OBVIOUS
<1>1. UNCHANGED <<corpus, next, counts, docid, chunk, parts, result, pc>>
  BY DEF vars
<1>2. TypeOK' /\ PositionOK'
  BY <1>1 DEF IInv, TypeOK, PositionOK, Ends, EmptyBefore, ChunkOf
<1>3. PartsHoldWindows'
  <2>1. \A c : Window(c)' = Window(c)
    BY <1>1 DEF Window, ChunkOf
  <2>2. PartsHoldWindows
    BY DEF IInv
  <2> QED
    BY <1>1, <2>1, <2>2 DEF PartsHoldWindows
<1>4. OwnPartsSum'
  <2>1. Own' = Own /\ Closed' = Closed
    BY <1>1 DEF Own, Closed, ChunkOf
  <2>2. SumOf(parts', Own') = SumOf(parts, Own) /\ GramsIn(Closed)' = GramsIn(Closed)
    BY <1>1, <2>1 DEF GramsIn
  <2> QED
    BY <1>1, <2>2 DEF IInv, OwnPartsSum
<1>5. ResultIsOwnPlusStale' /\ FailsOnlyOnStale'
  BY <1>1 DEF IInv, ResultIsOwnPlusStale, FailsOnlyOnStale, Stale
<1> QED
  BY <1>2, <1>3, <1>4, <1>5 DEF IInv

-----------------------------------------------------------------------------
(* The inductive invariant holds in every state, of every run.             *)
THEOREM Invariance == Spec => []IInv
<1>1. IInv /\ [Next]_vars => IInv'
  <2> SUFFICES ASSUME IInv, [Next]_vars PROVE IInv'
    OBVIOUS
  <2>1. CASE Count
    BY <2>1, CountInv
  <2>2. CASE EndDocument
    BY <2>2, EndDocumentInv
  <2>3. CASE EndChunk
    BY <2>3, EndChunkInv
  <2>4. CASE Finish
    BY <2>4, FinishInv
  <2>5. CASE Merge
    BY <2>5, MergeInv
  <2>6. CASE MergeThrows
    BY <2>6, MergeThrowsInv
  <2>7. CASE CrashReading
    BY <2>7, CrashReadingInv
  <2>8. CASE CrashSaving
    BY <2>8, CrashSavingInv
  <2>9. CASE CrashMerging
    BY <2>9, CrashMergingInv
  <2>10. CASE Restart
    BY <2>10, RestartInv
  <2>11. CASE UNCHANGED vars
    BY <2>11, StutterInv
  <2> QED
    BY <2>1, <2>2, <2>3, <2>4, <2>5, <2>6, <2>7, <2>8, <2>9, <2>10, <2>11 DEF Next, Terminated
<1> QED
  BY InitInv, <1>1, PTL DEF Spec

(* Part c holds the grams of its ChunkDocs documents, and the map in       *)
(* memory those of the documents read since, modulo 2^32: no phrase is     *)
(* counted in two chunks or in none.                                       *)
THEOREM ChunksAreWindows == Spec => []PartsHoldWindows
<1>1. IInv => PartsHoldWindows
  BY DEF IInv
<1> QED
  BY Invariance, <1>1, PTL

(* bigram_stat and trigram_stat compute the frequencies of the grams of    *)
(* their corpus and what parts of higher numbers, left by former runs, add *)
(* to them, whenever and however often those runs died, wrapped as if only *)
(* the whole sum were.                                                     *)
THEOREM ResultsAreOwnPlusStale == Spec => []ResultIsOwnPlusStale
<1>1. IInv => ResultIsOwnPlusStale
  BY DEF IInv
<1> QED
  BY Invariance, <1>1, PTL

(* The merge fails on a part without a header only if this run did not     *)
(* reach its number.                                                       *)
THEOREM FailuresAreStale == Spec => []FailsOnlyOnStale
<1>1. IInv => FailsOnlyOnStale
  BY DEF IInv
<1> QED
  BY Invariance, <1>1, PTL

(* The frequencies are those of the corpus alone when no part of a higher  *)
(* number is in the directory: the finding of the run chunks_stale needs a *)
(* former run with more chunks.                                            *)
NothingStale == Stale = {} => ResultIsCorpusCounts

THEOREM CleanDirectoryIsExact == Spec => []NothingStale
<1>1. IInv => NothingStale
  <2> SUFFICES ASSUME IInv, Stale = {}, pc = "done" PROVE result = Whole(Wrapped(GramsIn(DOMAIN corpus)))
    BY DEF NothingStale, ResultIsCorpusCounts, GramsIn
  <2> DEFINE B == GramsIn(DOMAIN corpus)
  <2>1. result = Whole(Wrapped(B (+) EmptyBag))
    BY NoFiles, PlusIs DEF IInv, ResultIsOwnPlusStale, GramsIn
  <2>2. IsTally(B)
    BY GramsInAreTally DEF IInv
  <2> HIDE DEF B
  <2>3. B (+) EmptyBag = B
    <3>1. B (+) EmptyBag = [g \in DOMAIN B |-> B[g] + 0]
      BY DEF (+), EmptyBag, SetToBag
    <3>2. [g \in DOMAIN B |-> B[g] + 0] = [g \in DOMAIN B |-> B[g]] /\ B = [g \in DOMAIN B |-> B[g]]
      BY <2>2 DEF IsTally
    <3> QED
      BY <3>1, <3>2
  <2> QED
    BY <2>1, <2>3 DEF B
<1> QED
  BY Invariance, <1>1, PTL

-----------------------------------------------------------------------------
(* trigram_stat: the places it counts at (TrigramScan).                    *)

(* `found' says whether the pair before it1 was stable.                    *)
FoundOK ==
  phrase <= Len(text) => (found <=> it1 >= 2 /\ IsStable(phrase, it1 - 1))

(* Both pairs of the triple at p have been looked at, or its left one has  *)
(* and was stable.                                                         *)
PassedAt(a, p) ==
  \/ a < phrase
  \/ a = phrase /\ p + 2 <= it1
  \/ a = phrase /\ p + 1 = it1 /\ found

CountedOK ==
  /\ counted \subseteq (DOMAIN text) \X Nat
  /\ \A a \in DOMAIN text : \A p \in Nat :
       <<a, p>> \in counted <=> p \in WantedIn(a) /\ PassedAt(a, p)

(* The inductive invariant.                                                *)
ScanIInv ==
  /\ ScanTypeOK
  /\ FoundOK
  /\ CountedOK
  /\ IsFiniteSet(counted)
  /\ CountsOccurrences

OccurrencesOf(xs, t) == {x \in xs : TripleAt(x[1], x[2]) = t}

-----------------------------------------------------------------------------
(* Counting places that were not counted before keeps counts and history   *)
(* in step.                                                                *)
LEMMA CountAtOK ==
  ASSUME ScanIInv, text' = text, NEW xs, IsFiniteSet(xs), xs \cap counted = {}, CountAt(xs)
  PROVE  /\ IsFiniteSet(counted')
         /\ CountsOccurrences'
         /\ triples' \in [Triple -> Nat]
<1>1. /\ counted' = counted \cup xs
      /\ triples' = [t \in Triple |-> triples[t] + Cardinality(OccurrencesOf(xs, t))]
  BY DEF CountAt, OccurrencesOf
<1>2. IsFiniteSet(counted) /\ triples \in [Triple -> Nat]
      /\ \A t \in Triple : triples[t] = Cardinality(OccurrencesOf(counted, t))
  BY DEF ScanIInv, ScanTypeOK, CountsOccurrences, OccurrencesOf
<1>3. IsFiniteSet(counted')
  BY <1>1, <1>2, FS_Union
<1>4. ASSUME NEW t \in Triple
      PROVE  /\ Cardinality(OccurrencesOf(xs, t)) \in Nat
             /\ Cardinality(OccurrencesOf(counted', t))
                  = Cardinality(OccurrencesOf(counted, t)) + Cardinality(OccurrencesOf(xs, t))
  <2> DEFINE A == OccurrencesOf(counted, t)
             B == OccurrencesOf(xs, t)
  <2>1. A \subseteq counted /\ B \subseteq xs
    BY DEF OccurrencesOf
  <2>2. IsFiniteSet(A) /\ IsFiniteSet(B)
    BY <1>2, <2>1, FS_Subset
  <2>3. A \cap B = {} /\ OccurrencesOf(counted', t) = A \cup B
    BY <1>1 DEF OccurrencesOf
  <2>4. Cardinality(A) \in Nat /\ Cardinality(B) \in Nat
    BY <2>2, FS_CardinalityType
  <2>5. Cardinality(A \cup B) = Cardinality(A) + Cardinality(B) - Cardinality({})
    BY <2>2, <2>3, FS_Union
  <2> QED
    BY <2>3, <2>4, <2>5, FS_EmptySet
<1>5. triples' \in [Triple -> Nat]
  BY <1>1, <1>2, <1>4
<1>6. \A t \in Triple : triples'[t] = Cardinality(OccurrencesOf(counted', t))
  BY <1>1, <1>2, <1>4
<1>7. CountsOccurrences'
  BY <1>6 DEF CountsOccurrences, OccurrencesOf, TripleAt
<1> QED
  BY <1>3, <1>5, <1>7

LEMMA ScanInitIInv == ScanInit => ScanIInv
<1> SUFFICES ASSUME ScanInit PROVE ScanIInv
  OBVIOUS
<1>1. text \in Seq(Seq(Vocabulary)) /\ Len(text) \in Nat /\ biwids \subseteq Vocabulary \X Vocabulary
  BY TextsAssumption DEF ScanInit
<1>2. ScanTypeOK
  <2>1. triples \in [Triple -> Nat] /\ counted \subseteq Nat \X Nat
    BY DEF ScanInit
  <2>2. phrase \in Nat \ {0} /\ phrase <= Len(text) + 1 /\ it1 \in Nat \ {0} /\ it1 = 1
    BY <1>1 DEF ScanInit
  <2>3. found \in BOOLEAN
    BY DEF ScanInit
  <2> QED
    BY <1>1, <2>1, <2>2, <2>3 DEF ScanTypeOK
<1>3. FoundOK
  BY DEF ScanInit, FoundOK
<1>4. CountedOK
  <2>1. ASSUME NEW a \in DOMAIN text, NEW p \in Nat, p \in WantedIn(a)
        PROVE  ~PassedAt(a, p)
    <3>1. a \in Nat /\ a >= 1 /\ p >= 1
      BY <1>1, <2>1 DEF WantedIn
    <3> QED
      BY <3>1 DEF ScanInit, PassedAt
  <2> QED
    BY <2>1 DEF ScanInit, CountedOK
<1>5. IsFiniteSet(counted) /\ CountsOccurrences
  <2>1. \A t : OccurrencesOf({}, t) = {}
    BY DEF OccurrencesOf
  <2>2. Cardinality({}) = 0 /\ IsFiniteSet({})
    BY FS_EmptySet
  <2> QED
    BY <2>1, <2>2 DEF ScanInit, CountsOccurrences, OccurrencesOf
<1> QED
  BY <1>2, <1>3, <1>4, <1>5 DEF ScanIInv

(* What InLoop says about the place it1.                                   *)
LEMMA LoopFacts ==
  ASSUME ScanIInv, InLoop
  PROVE  /\ phrase \in DOMAIN text /\ phrase \in Nat /\ it1 \in Nat /\ it1 >= 1
         /\ Len(text[phrase]) \in Nat /\ it1 + 1 <= Len(text[phrase])
         /\ \A a \in DOMAIN text : a \in Nat /\ Len(text[a]) \in Nat
BY DEF ScanIInv, ScanTypeOK, InLoop

(* What has been passed when the iterator moves on by one: the triple that *)
(* ends with the pair at it1 too, and the one that starts there if the     *)
(* pair is stable.                                                         *)
LEMMA PassedAfterStep ==
  ASSUME ScanIInv, InLoop, text' = text, phrase' = phrase, it1' = it1 + 1, found' \in BOOLEAN,
         NEW a \in DOMAIN text, NEW p \in Nat
  PROVE  PassedAt(a, p)' <=>
           \/ PassedAt(a, p)
           \/ a = phrase /\ p + 1 = it1
           \/ a = phrase /\ p = it1 /\ found'
BY LoopFacts DEF PassedAt

LEMMA SkipIInv == ScanIInv /\ Skip => ScanIInv'
<1> SUFFICES ASSUME ScanIInv, Skip PROVE ScanIInv'
  OBVIOUS
<1>1. InLoop /\ ~IsStable(phrase, it1) /\ found' = FALSE /\ it1' = it1 + 1
      /\ text' = text /\ biwids' = biwids /\ phrase' = phrase
      /\ triples' = triples /\ counted' = counted
  BY DEF Skip
<1>2. /\ phrase \in DOMAIN text /\ phrase \in Nat /\ it1 \in Nat /\ it1 >= 1
      /\ Len(text[phrase]) \in Nat /\ it1 + 1 <= Len(text[phrase])
      /\ \A a \in DOMAIN text : a \in Nat /\ Len(text[a]) \in Nat
  BY <1>1, LoopFacts
<1>3. ScanTypeOK'
  <2>1. it1' \in Nat \ {0} /\ (phrase' <= Len(text) => it1' = 1 \/ it1' <= Len(text[phrase']))
    BY <1>1, <1>2
  <2>2. phrase' \in Nat \ {0} /\ phrase' <= Len(text) + 1
    BY <1>1, <1>2 DEF ScanIInv, ScanTypeOK
  <2>3. found' \in BOOLEAN
    BY <1>1
  <2> QED
    BY <1>1, <2>1, <2>2, <2>3 DEF ScanIInv, ScanTypeOK
<1>4. FoundOK'
  <2>1. it1' >= 2 /\ it1' - 1 = it1
    BY <1>1, <1>2
  <2> QED
    BY <1>1, <2>1 DEF FoundOK, IsStable
<1>5. CountedOK'
  <2>1. ASSUME NEW a \in DOMAIN text, NEW p \in Nat, p \in WantedIn(a)
        PROVE  PassedAt(a, p)' <=> PassedAt(a, p)
    <3>1. PassedAt(a, p)' <=> PassedAt(a, p) \/ (a = phrase /\ p + 1 = it1)
      BY <1>1, PassedAfterStep
    <3>2. CASE a = phrase /\ p + 1 = it1
      <4>1. IsStable(phrase, p) \/ IsStable(phrase, p + 1)
        BY <2>1, <3>2 DEF WantedIn
      <4>2. IsStable(phrase, p)
        BY <1>1, <3>2, <4>1
      <4>3. it1 >= 2 /\ it1 - 1 = p
        BY <2>1, <3>2 DEF WantedIn
      <4>4. found
        BY <1>2, <4>2, <4>3 DEF ScanIInv, ScanTypeOK, FoundOK
      <4> QED
        BY <3>1, <3>2, <4>4 DEF PassedAt
    <3> QED
      BY <3>1, <3>2
  <2>2. \A a : WantedIn(a)' = WantedIn(a)
    BY <1>1 DEF WantedIn, IsStable
  <2> QED
    BY <1>1, <2>1, <2>2 DEF ScanIInv, CountedOK
<1>6. CountsOccurrences'
  BY <1>1 DEF ScanIInv, CountsOccurrences, TripleAt
<1> QED
  BY <1>1, <1>3, <1>4, <1>5, <1>6 DEF ScanIInv

LEMMA HitIInv == ScanIInv /\ Hit => ScanIInv'
<1> SUFFICES ASSUME ScanIInv, Hit PROVE ScanIInv'
  OBVIOUS
<1> DEFINE xs == ToTheLeft \cup ToTheRight
<1>1. InLoop /\ IsStable(phrase, it1) /\ found' = TRUE /\ it1' = it1 + 1
      /\ text' = text /\ biwids' = biwids /\ phrase' = phrase /\ CountAt(xs)
  BY DEF Hit
<1>2. /\ phrase \in DOMAIN text /\ phrase \in Nat /\ it1 \in Nat /\ it1 >= 1
      /\ Len(text[phrase]) \in Nat /\ it1 + 1 <= Len(text[phrase])
      /\ \A a \in DOMAIN text : a \in Nat /\ Len(text[a]) \in Nat
  BY <1>1, LoopFacts
<1>3. \A x : x \in xs <=> \/ x = <<phrase, it1 - 1>> /\ ~found /\ it1 # 1
                          \/ x = <<phrase, it1>> /\ it1 + 2 <= Len(text[phrase])
  <2>1. \A x : x \in ToTheLeft <=> x = <<phrase, it1 - 1>> /\ ~found /\ it1 # 1
    BY DEF ToTheLeft
  <2>2. \A x : x \in ToTheRight <=> x = <<phrase, it1>> /\ it1 + 2 <= Len(text[phrase])
    BY DEF ToTheRight
  <2> QED
    BY <2>1, <2>2
<1>4. IsFiniteSet(xs)
  <2>1. IsFiniteSet({<<phrase, it1 - 1>>}) /\ IsFiniteSet({<<phrase, it1>>}) /\ IsFiniteSet({})
    BY FS_Singleton, FS_EmptySet
  <2>2. IsFiniteSet(ToTheLeft) /\ IsFiniteSet(ToTheRight)
    BY <2>1 DEF ToTheLeft, ToTheRight
  <2> QED
    BY <2>2, FS_Union
<1>5. /\ ~found => ~PassedAt(phrase, it1 - 1)
      /\ ~PassedAt(phrase, it1)
  BY <1>2 DEF PassedAt
<1>6. xs \cap counted = {}
  <2>1. it1 # 1 => it1 - 1 \in Nat
    BY <1>2
  <2> QED
    BY <1>2, <1>3, <1>5, <2>1 DEF ScanIInv, CountedOK
<1>7. /\ IsFiniteSet(counted') /\ CountsOccurrences'
      /\ triples' \in [Triple -> Nat] /\ counted' = counted \cup xs
  BY <1>1, <1>4, <1>6, CountAtOK DEF CountAt
<1>8. ScanTypeOK'
  <2>1. xs \subseteq Nat \X Nat
    BY <1>2, <1>3
  <2> QED
    BY <1>1, <1>2, <1>7, <2>1 DEF ScanIInv, ScanTypeOK
<1>9. FoundOK'
  <2>1. it1' >= 2 /\ it1' - 1 = it1
    BY <1>1, <1>2
  <2> QED
    BY <1>1, <2>1 DEF FoundOK, IsStable
<1>10. CountedOK'
  <2>1. ASSUME NEW a \in DOMAIN text, NEW p \in Nat
        PROVE  <<a, p>> \in counted' <=> p \in WantedIn(a) /\ PassedAt(a, p)'
    <3>1. PassedAt(a, p)' <=> PassedAt(a, p) \/ (a = phrase /\ p + 1 = it1) \/ (a = phrase /\ p = it1)
      BY <1>1, PassedAfterStep
    <3>2. <<a, p>> \in counted <=> p \in WantedIn(a) /\ PassedAt(a, p)
      BY DEF ScanIInv, CountedOK
    <3>3. <<a, p>> \in xs <=> \/ a = phrase /\ p + 1 = it1 /\ ~found /\ it1 # 1
                              \/ a = phrase /\ p = it1 /\ it1 + 2 <= Len(text[phrase])
      <4>1. <<a, p>> = <<phrase, it1 - 1>> <=> a = phrase /\ p = it1 - 1
        OBVIOUS
      <4>2. <<a, p>> = <<phrase, it1>> <=> a = phrase /\ p = it1
        OBVIOUS
      <4>3. p = it1 - 1 <=> p + 1 = it1
        BY <1>2
      <4> HIDE DEF xs
      <4> QED
        BY <1>3, <4>1, <4>2, <4>3
    <3>4. CASE a = phrase /\ p + 1 = it1
      <4>1. p >= 1 => p \in WantedIn(a)
        BY <1>1, <1>2, <3>4 DEF WantedIn
      <4>2. p \in WantedIn(a) => p >= 1
        BY <3>4 DEF WantedIn
      <4>3. PassedAt(a, p) <=> found
        BY <1>2, <3>4 DEF PassedAt
      <4> QED
        BY <1>2, <1>7, <3>1, <3>2, <3>3, <3>4, <4>1, <4>2, <4>3
    <3>5. CASE a = phrase /\ p = it1
      <4>1. p \in WantedIn(a) <=> it1 + 2 <= Len(text[phrase])
        BY <1>1, <1>2, <3>5 DEF WantedIn
      <4> QED
        BY <1>2, <1>5, <1>7, <3>1, <3>2, <3>3, <3>5, <4>1
    <3>6. CASE ~(a = phrase /\ p + 1 = it1) /\ ~(a = phrase /\ p = it1)
      BY <1>7, <3>1, <3>2, <3>3, <3>6
    <3> QED
      BY <3>4, <3>5, <3>6
  <2>2. \A a : WantedIn(a)' = WantedIn(a)
    BY <1>1 DEF WantedIn, IsStable
  <2>3. xs \subseteq (DOMAIN text) \X Nat
    BY <1>2, <1>3
  <2> QED
    BY <1>1, <1>7, <2>1, <2>2, <2>3 DEF ScanIInv, CountedOK
<1> QED
  BY <1>7, <1>8, <1>9, <1>10 DEF ScanIInv

LEMMA NextPhraseIInv == ScanIInv /\ NextPhrase => ScanIInv'
<1> SUFFICES ASSUME ScanIInv, NextPhrase PROVE ScanIInv'
  OBVIOUS
<1>1. phrase <= Len(text) /\ ~InLoop /\ phrase' = phrase + 1 /\ it1' = 1 /\ found' = FALSE
      /\ text' = text /\ biwids' = biwids /\ triples' = triples /\ counted' = counted
  BY DEF NextPhrase
<1>2. /\ phrase \in DOMAIN text /\ phrase \in Nat /\ it1 \in Nat /\ it1 >= 1 /\ Len(text) \in Nat
      /\ Len(text[phrase]) \in Nat /\ Len(text[phrase]) <= it1
      /\ \A a \in DOMAIN text : a \in Nat
  BY <1>1 DEF ScanIInv, ScanTypeOK, InLoop
<1>3. ScanTypeOK'
  <2>1. it1' \in Nat \ {0} /\ (phrase' <= Len(text) => it1' = 1 \/ it1' <= Len(text[phrase']))
    BY <1>1, <1>2
  <2>2. phrase' \in Nat \ {0} /\ phrase' <= Len(text) + 1
    BY <1>1, <1>2 DEF ScanIInv, ScanTypeOK
  <2>3. found' \in BOOLEAN
    BY <1>1
  <2> QED
    BY <1>1, <2>1, <2>2, <2>3 DEF ScanIInv, ScanTypeOK
<1>4. FoundOK'
  BY <1>1 DEF FoundOK
<1>5. CountedOK'
  <2>1. ASSUME NEW a \in DOMAIN text, NEW p \in Nat, p \in WantedIn(a)
        PROVE  PassedAt(a, p)' <=> PassedAt(a, p)
    <3>1. p >= 1
      BY <2>1 DEF WantedIn
    <3>2. PassedAt(a, p)' <=> a <= phrase
      BY <1>1, <1>2, <3>1 DEF PassedAt
    <3>3. a = phrase => p + 2 <= it1
      BY <1>2, <2>1 DEF WantedIn
    <3> QED
      BY <1>2, <3>2, <3>3 DEF PassedAt
  <2>2. \A a : WantedIn(a)' = WantedIn(a)
    BY <1>1 DEF WantedIn, IsStable
  <2> QED
    BY <1>1, <2>1, <2>2 DEF ScanIInv, CountedOK
<1>6. CountsOccurrences'
  BY <1>1 DEF ScanIInv, CountsOccurrences, TripleAt
<1> QED
  BY <1>1, <1>3, <1>4, <1>5, <1>6 DEF ScanIInv

THEOREM ScanInvariance == ScanSpec => []ScanIInv
<1>1. ScanIInv /\ [ScanNext]_scanVars => ScanIInv'
  <2> SUFFICES ASSUME ScanIInv, [ScanNext]_scanVars PROVE ScanIInv'
    OBVIOUS
  <2>1. CASE Skip
    BY <2>1, SkipIInv
  <2>2. CASE Hit
    BY <2>2, HitIInv
  <2>3. CASE NextPhrase
    BY <2>3, NextPhraseIInv
  <2>4. CASE UNCHANGED scanVars
    BY <2>4 DEF scanVars, ScanIInv, ScanTypeOK, FoundOK, CountedOK, PassedAt,
       WantedIn, IsStable, CountsOccurrences, TripleAt
  <2> QED
    BY <2>1, <2>2, <2>3, <2>4 DEF ScanNext, ScanTerminated
<1> QED
  BY ScanInitIInv, <1>1, PTL DEF ScanSpec

-----------------------------------------------------------------------------
(* No occurrence of a triple is counted twice.                             *)
THEOREM CountedOnce == ScanSpec => []CountsOccurrences
<1>1. ScanIInv => CountsOccurrences
  BY DEF ScanIInv
<1> QED
  BY ScanInvariance, <1>1, PTL

(* Every occurrence with a stable pair, and no other, has been counted     *)
(* when the text has been read.                                          *)
THEOREM AllWantedCounted == ScanSpec => []CountsWanted
<1>1. ScanIInv => CountsWanted
  <2> SUFFICES ASSUME ScanIInv, AtEnd PROVE counted = Wanted
    BY DEF CountsWanted
  <2>1. \A a \in DOMAIN text : a \in Nat /\ a < phrase
    BY DEF ScanIInv, ScanTypeOK, AtEnd
  <2>2. \A a \in DOMAIN text : \A p \in Nat : <<a, p>> \in counted <=> p \in WantedIn(a)
    BY <2>1 DEF ScanIInv, CountedOK, PassedAt
  <2>3. counted \subseteq (DOMAIN text) \X Nat
    BY DEF ScanIInv, CountedOK
  <2>4. \A a : WantedIn(a) \subseteq Nat
    BY DEF WantedIn
  <2>5. counted \subseteq Wanted
    <3> SUFFICES ASSUME NEW x \in counted PROVE x \in Wanted
      OBVIOUS
    <3>1. PICK a \in DOMAIN text, p \in Nat : x = <<a, p>>
      BY <2>3
    <3>2. p \in WantedIn(a)
      BY <2>2, <3>1
    <3> QED
      BY <3>1, <3>2 DEF Wanted
  <2>6. Wanted \subseteq counted
    <3> SUFFICES ASSUME NEW x \in Wanted PROVE x \in counted
      OBVIOUS
    <3>1. PICK a \in DOMAIN text : x \in {a} \X WantedIn(a)
      BY DEF Wanted
    <3>2. PICK p \in WantedIn(a) : x = <<a, p>>
      BY <3>1
    <3> QED
      BY <2>2, <2>4, <3>2
  <2> QED
    BY <2>5, <2>6
<1> QED
  BY ScanInvariance, <1>1, PTL

=============================================================================
