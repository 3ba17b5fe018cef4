------------------------- MODULE ExternalSortProofs -------------------------
(***************************************************************************)
(* ExternalSorter over a Transformer: no message is lost or added on the   *)
(* way through the Transformer's queue, the buffer and the part files, and *)
(* the merge shows them sorted, for streams of any length, any limit and   *)
(* any old part files.  The merge is KMerge, and its invariant is taken    *)
(* from KMergeProofs.                                                      *)
(***************************************************************************)
EXTENDS ExternalSort, FiniteSetTheorems, TLAPS

M == INSTANCE KMergeProofs WITH Inputs <- {}

-----------------------------------------------------------------------------
(* Copies and how they add up.                                             *)
In(s, m) == {i \in DOMAIN s : s[i] = m}
PlacesIn(f, m) ==
  {p \in UNION {{c} \X DOMAIN f[c] : c \in DOMAIN f} : f[p[1]][p[2]] = m}

LEMMA PlaceIs ==
  ASSUME NEW f, NEW m
  PROVE  /\ Copies(f, m) = Cardinality(PlacesIn(f, m))
         /\ \A p : p \in PlacesIn(f, m) <=>
                     \E c \in DOMAIN f : \E i \in DOMAIN f[c] : p = <<c, i>> /\ f[c][i] = m
<1>1. Copies(f, m) = Cardinality(PlacesIn(f, m))
  BY DEF Copies, PlacesIn
<1>2. ASSUME NEW p
      PROVE  p \in PlacesIn(f, m) <=>
               \E c \in DOMAIN f : \E i \in DOMAIN f[c] : p = <<c, i>> /\ f[c][i] = m
  BY DEF PlacesIn
<1> QED
  BY <1>1, <1>2

LEMMA SeqIs ==
  ASSUME NEW S, NEW s \in Seq(S)
  PROVE  Len(s) \in Nat /\ DOMAIN s = 1..Len(s) /\ \A i \in 1..Len(s) : s[i] \in S
OBVIOUS

LEMMA InFinite ==
  ASSUME NEW S, NEW s \in Seq(S), NEW m
  PROVE  IsFiniteSet(In(s, m)) /\ Cardinality(In(s, m)) \in Nat
<1> DEFINE k == Len(s)
<1>1. k \in Nat /\ DOMAIN s = 1..k
  BY SeqIs
<1> HIDE DEF k
<1>2. IsFiniteSet(1..k)
  BY <1>1, FS_Interval
<1>3. In(s, m) \in SUBSET (1..k)
  BY <1>1 DEF In
<1> QED
  BY <1>2, <1>3, FS_Subset, FS_CardinalityType

LEMMA PlacesFinite ==
  ASSUME NEW S, NEW f \in Seq(Seq(S)), NEW m
  PROVE  IsFiniteSet(PlacesIn(f, m)) /\ Copies(f, m) \in Nat
<1> DEFINE k == Len(f)
           Row(c) == {c} \X DOMAIN f[c]
           Rows == {Row(c) : c \in DOMAIN f}
           h == [c \in DOMAIN f |-> Row(c)]
<1>1. k \in Nat /\ DOMAIN f = 1..k
  BY SeqIs
<1>2. IsFiniteSet(DOMAIN f)
  <2> HIDE DEF k
  <2> QED
    BY <1>1, FS_Interval
<1>3. h \in Surjection(DOMAIN f, Rows)
  BY DEF Surjection
<1>4. IsFiniteSet(Rows)
  <2> HIDE DEF h, Rows
  <2> QED
    BY <1>2, <1>3, FS_Surjection
<1>5. \A R \in Rows : IsFiniteSet(R)
  <2> SUFFICES ASSUME NEW c \in DOMAIN f PROVE IsFiniteSet(Row(c))
    OBVIOUS
  <2> DEFINE l == Len(f[c])
  <2>1. l \in Nat /\ DOMAIN f[c] = 1..l
    BY <1>1, SeqIs
  <2>2. IsFiniteSet(DOMAIN f[c])
    <3> HIDE DEF l
    <3> QED
      BY <2>1, FS_Interval
  <2> QED
    BY <2>2, FS_Singleton, FS_Product
<1>6. IsFiniteSet(UNION Rows)
  <2> HIDE DEF Rows
  <2> QED
    BY <1>4, <1>5, FS_UNION
<1>7. PlacesIn(f, m) \in SUBSET (UNION Rows)
  BY DEF PlacesIn
<1>8. IsFiniteSet(PlacesIn(f, m))
  <2> HIDE DEF Rows
  <2> QED
    BY <1>6, <1>7, FS_Subset
<1> QED
  BY <1>8, FS_CardinalityType, PlaceIs

LEMMA CopiesOfOne ==
  ASSUME NEW S, NEW s \in Seq(S), NEW m
  PROVE  Copies(<<s>>, m) = Cardinality(In(s, m))
<1> DEFINE h == [i \in In(s, m) |-> <<1, i>>]
           P == PlacesIn(<<s>>, m)
<1>1. DOMAIN <<s>> = {1} /\ <<s>>[1] = s
  OBVIOUS
<1>2. \A p : p \in P <=> \E i \in DOMAIN s : p = <<1, i>> /\ s[i] = m
  <2> TAKE p
  <2>1. p \in P <=> \E c \in DOMAIN <<s>> : \E i \in DOMAIN <<s>>[c] : p = <<c, i>> /\ <<s>>[c][i] = m
    BY PlaceIs
  <2> HIDE DEF P
  <2> QED
    BY <1>1, <2>1
<1>3. h \in Bijection(In(s, m), P)
  <2>1. h \in [In(s, m) -> P]
    BY <1>2 DEF In
  <2>2. \A i, j \in In(s, m) : h[i] = h[j] => i = j
    OBVIOUS
  <2>3. \A p \in P : \E i \in In(s, m) : h[i] = p
    BY <1>2 DEF In
  <2> HIDE DEF h, P
  <2>4. DOMAIN h = In(s, m)
    BY <2>1
  <2> QED
    BY <2>1, <2>2, <2>3, <2>4 DEF Bijection, Injection, Surjection, IsInjective
<1>4. Cardinality(P) = Cardinality(In(s, m))
  <2> HIDE DEF h, P
  <2> QED
    BY <1>3, InFinite, FS_Bijection DEF ExistsBijection
<1> QED
  BY <1>4, PlaceIs

LEMMA CopiesOfAppend ==
  ASSUME NEW S, NEW f \in Seq(Seq(S)), NEW s \in Seq(S), NEW m
  PROVE  Copies(Append(f, s), m) = Copies(f, m) + Cardinality(In(s, m))
<1> DEFINE k == Len(f)
           g == Append(f, s)
           A == PlacesIn(f, m)
           B == {k + 1} \X In(s, m)
           P == PlacesIn(g, m)
<1>1. /\ k \in Nat /\ DOMAIN f = 1..k /\ DOMAIN g = 1..(k + 1)
      /\ g[k + 1] = s /\ \A c \in 1..k : g[c] = f[c]
  OBVIOUS
<1>2. P = A \cup B
  <2>1. \A p : p \in P <=> \E c \in DOMAIN g : \E i \in DOMAIN g[c] : p = <<c, i>> /\ g[c][i] = m
    <3> HIDE DEF g
    <3> QED
      BY PlaceIs
  <2>2. \A p : p \in A <=> \E c \in DOMAIN f : \E i \in DOMAIN f[c] : p = <<c, i>> /\ f[c][i] = m
    BY PlaceIs
  <2>3. \A p : p \in B <=> \E i \in DOMAIN s : p = <<k + 1, i>> /\ s[i] = m
    BY DEF In
  <2>4. \A c : c \in DOMAIN g <=> c \in DOMAIN f \/ c = k + 1
    BY <1>1
  <2>5. \A c \in DOMAIN f : g[c] = f[c]
    BY <1>1
  <2> HIDE DEF g, A, B, P, k
  <2>6. \A p : p \in P <=> p \in A \/ p \in B
    BY <1>1, <2>1, <2>2, <2>3, <2>4, <2>5
  <2> QED
    BY <2>6
<1>3. A \cap B = {}
  <2>1. \A p \in A : p[1] \in 1..k
    BY <1>1, PlaceIs
  <2>2. \A p \in B : p[1] = k + 1
    OBVIOUS
  <2> HIDE DEF A, B, k
  <2>3. k + 1 \notin 1..k
    BY <1>1
  <2> QED
    BY <2>1, <2>2, <2>3
<1>4. IsFiniteSet(A) /\ IsFiniteSet(In(s, m)) /\ Cardinality(In(s, m)) \in Nat
  BY PlacesFinite, InFinite
<1>5. IsFiniteSet(B) /\ Cardinality(B) = Cardinality(In(s, m))
  <2> DEFINE x == k + 1
             T == In(s, m)
  <2>1. IsFiniteSet({x}) /\ Cardinality({x}) = 1
    BY FS_Singleton
  <2>2. IsFiniteSet(T) /\ Cardinality(T) \in Nat
    BY <1>4
  <2>3. B = {x} \X T
    OBVIOUS
  <2> HIDE DEF x, T, B
  <2>4. IsFiniteSet({x} \X T) /\ Cardinality({x} \X T) = Cardinality({x}) * Cardinality(T)
    BY <2>1, <2>2, FS_Product
  <2> QED
    BY <2>1, <2>2, <2>3, <2>4 DEF T
<1>6. Cardinality(P) = Cardinality(A) + Cardinality(B)
  <2> HIDE DEF A, B, P
  <2>1. Cardinality(A \cup B) = Cardinality(A) + Cardinality(B) - Cardinality(A \cap B)
    BY <1>4, <1>5, FS_Union
  <2>2. Cardinality(A \cap B) = 0
    BY <1>3, FS_EmptySet
  <2>3. Cardinality(A) \in Nat /\ Cardinality(B) \in Nat
    BY <1>4, <1>5, FS_CardinalityType
  <2> QED
    BY <1>2, <2>1, <2>2, <2>3
<1>7. Copies(g, m) = Cardinality(P) /\ Copies(f, m) = Cardinality(A)
  BY PlaceIs
<1> QED
  BY <1>5, <1>6, <1>7

(* The same for one sequence.                                              *)
One(x, m) == IF x = m THEN 1 ELSE 0

LEMMA InAppend ==
  ASSUME NEW S, NEW s \in Seq(S), NEW x \in S, NEW m
  PROVE  Cardinality(In(Append(s, x), m)) = Cardinality(In(s, m)) + One(x, m)
<1> DEFINE k == Len(s)
           t == Append(s, x)
<1>1. /\ k \in Nat /\ DOMAIN s = 1..k /\ DOMAIN t = 1..(k + 1)
      /\ t[k + 1] = x /\ \A i \in 1..k : t[i] = s[i]
  OBVIOUS
<1>2. IsFiniteSet(In(s, m)) /\ Cardinality(In(s, m)) \in Nat
  BY InFinite
<1> HIDE DEF k, t
<1>3. k + 1 \notin 1..k /\ \A i : i \in 1..(k + 1) <=> i \in 1..k \/ i = k + 1
  BY <1>1
<1>4. CASE x = m
  <2>1. In(t, m) = In(s, m) \cup {k + 1} /\ k + 1 \notin In(s, m)
    BY <1>1, <1>3, <1>4 DEF In
  <2>2. Cardinality(In(s, m) \cup {k + 1}) = Cardinality(In(s, m)) + 1
    BY <1>2, <2>1, FS_AddElement
  <2> QED
    BY <1>4, <2>1, <2>2 DEF One, t
<1>5. CASE x # m
  <2>1. In(t, m) = In(s, m)
    BY <1>1, <1>3, <1>5 DEF In
  <2> QED
    BY <1>2, <1>5, <2>1 DEF One, t
<1> QED
  BY <1>4, <1>5

LEMMA InTail ==
  ASSUME NEW S, NEW s \in Seq(S), s # <<>>, NEW m
  PROVE  /\ Head(s) \in S /\ Tail(s) \in Seq(S)
         /\ Cardinality(In(s, m)) = One(Head(s), m) + Cardinality(In(Tail(s), m))
<1> DEFINE k == Len(s)
           t == Tail(s)
           T == In(t, m)
           h == [i \in T |-> i + 1]
           U == {i + 1 : i \in T}
<1>1. /\ k \in Nat \ {0} /\ DOMAIN s = 1..k /\ t \in Seq(S) /\ DOMAIN t = 1..(k - 1)
      /\ Head(s) = s[1] /\ s[1] \in S
      /\ \A i \in 1..(k - 1) : t[i] = s[i + 1]
  OBVIOUS
<1>2. IsFiniteSet(T) /\ Cardinality(T) \in Nat
  BY <1>1, InFinite
<1>3. T \subseteq 1..(k - 1) /\ \A i \in 1..(k - 1) : i \in T <=> t[i] = m
  BY <1>1 DEF In
<1> HIDE DEF t, T, k
<1>4. h \in Bijection(T, U)
  <2>1. h \in [T -> U] /\ \A u \in U : \E i \in T : h[i] = u
    OBVIOUS
  <2>2. \A i, j \in T : h[i] = h[j] => i = j
    BY <1>1, <1>3
  <2> HIDE DEF h, U
  <2>3. DOMAIN h = T
    BY <2>1
  <2> QED
    BY <2>1, <2>2, <2>3 DEF Bijection, Injection, Surjection, IsInjective
<1>5. IsFiniteSet(U) /\ Cardinality(U) = Cardinality(T)
  <2> HIDE DEF h, U
  <2> QED
    BY <1>2, <1>4, FS_Bijection DEF ExistsBijection
<1>6. \A i \in 2..k : i \in U <=> s[i] = m
  <2> TAKE i \in 2..k
  <2>1. i - 1 \in 1..(k - 1) /\ (i - 1) + 1 = i
    BY <1>1
  <2>2. i \in U <=> i - 1 \in T
    BY <1>1, <1>3, <2>1
  <2> QED
    BY <1>1, <1>3, <2>1, <2>2
<1>7. U \subseteq 2..k
  BY <1>1, <1>3
<1>8. 1 \notin 2..k /\ \A i : i \in 1..k <=> i = 1 \/ i \in 2..k
  BY <1>1
<1> HIDE DEF h, U
<1>9. CASE s[1] = m
  <2>1. In(s, m) = U \cup {1} /\ 1 \notin U
    BY <1>1, <1>6, <1>7, <1>8, <1>9 DEF In
  <2>2. Cardinality(U \cup {1}) = Cardinality(U) + 1
    BY <1>5, <2>1, FS_AddElement
  <2> QED
    BY <1>1, <1>2, <1>5, <1>9, <2>1, <2>2 DEF One, t, T
<1>10. CASE s[1] # m
  <2>1. \A i : i \in U => i \in 1..k /\ s[i] = m
    BY <1>6, <1>7, <1>8
  <2>2. \A i \in 1..k : s[i] = m => i \in U
    BY <1>6, <1>8, <1>10
  <2>3. In(s, m) = U
    BY <1>1, <2>1, <2>2 DEF In
  <2> QED
    BY <1>1, <1>2, <1>5, <1>10, <2>3 DEF One, t, T
<1> QED
  BY <1>9, <1>10

LEMMA InEmpty ==
  ASSUME NEW m
  PROVE  Cardinality(In(<<>>, m)) = 0
<1>1. In(<<>>, m) = {}
  BY DEF In
<1> QED
  BY <1>1, FS_EmptySet

-----------------------------------------------------------------------------
(* The inductive invariant.                                                *)
Ascending(t) == \A a, b \in DOMAIN t : a <= b => Rank(t[a]) <= Rank(t[b])

TypeOK ==
  /\ stream \in Seq(Source) /\ taken \in 0..Len(stream)
  /\ tq \in Seq(Msg) /\ buf \in Seq(Msg)
  /\ max_elems \in Nat /\ nChunks \in Nat
  /\ phase \in {"new", "split", "merge"}

(* The part files written so far: old files in the directory have been     *)
(* overwritten where a number is reused.                                   *)
DirOK ==
  \A c \in 0..(nChunks - 1) : c \in DOMAIN dir /\ dir[c] \in Seq(Msg) /\ Ascending(dir[c])

(* SplitKeepsAll as a sum.                                                 *)
NothingAstray ==
  \A m \in Msg :
    Copies(Parts, m) + Cardinality(In(buf, m)) + Cardinality(In(tq, m))
      = Copies(Expanded(taken), m)

NoneBarren(n) == \A i \in 1..n : Expand(stream[i]) # <<>>

(* While the stream is split the Transformer goes on and the merge is as   *)
(* it was created.                                                         *)
Splitting ==
  phase # "merge" =>
    /\ keep = TRUE /\ NoneBarren(taken)
    /\ phase = "new" => nChunks = 0
    /\ q = {} /\ begun = FALSE /\ yielded = <<>>

(* The Transformer has stopped, at the end of the stream or at a message   *)
(* that fn makes nothing of, and everything is in the part files.          *)
Merging ==
  phase = "merge" =>
    /\ \/ taken = Len(stream) /\ NoneBarren(taken)
       \/ taken >= 1 /\ Expand(stream[taken]) = <<>> /\ NoneBarren(taken - 1)
    /\ files = Parts /\ buf = <<>> /\ tq = <<>>
    /\ M!IInv

IInv == TypeOK /\ DirOK /\ NothingAstray /\ Splitting /\ Merging

-----------------------------------------------------------------------------
(* What KMergeProofs says of this merge.                                   *)
FreshMerge ==
  /\ files \in Seq(Seq(Msg)) /\ M!SortedFiles(files)
  /\ pos = [i \in DOMAIN files |-> 0] /\ q = {} /\ begun = FALSE /\ yielded = <<>>

LEMMA MergerFresh == FreshMerge => M!IInv
BY M!FreshIInv, SortAssumption DEF FreshMerge, M!SortedFiles

LEMMA MergerStep == M!IInv /\ [M!Next]_M!vars => M!IInv'
BY M!StepIInv, SortAssumption DEF M!SortedFiles

LEMMA MergerEnd == M!IInv => M!MergeComplete
BY M!EndIsComplete, SortAssumption DEF M!SortedFiles

-----------------------------------------------------------------------------
(* The part files and what the Transformer made, as sequences.             *)
LEMMA PartsAre ==
  ASSUME TypeOK, DirOK
  PROVE  /\ Parts \in Seq(Seq(Msg)) /\ Len(Parts) = nChunks
         /\ \A c \in DOMAIN Parts : Ascending(Parts[c])
<1>1. nChunks \in Nat
  BY DEF TypeOK
<1>2. \A i \in 1..nChunks : dir[i - 1] \in Seq(Msg) /\ Ascending(dir[i - 1])
  BY <1>1 DEF DirOK
<1>3. Parts \in [1..nChunks -> Seq(Msg)]
  BY <1>2 DEF Parts
<1>4. Parts \in Seq(Seq(Msg)) /\ Len(Parts) = nChunks /\ DOMAIN Parts = 1..nChunks
  BY <1>1, <1>3
<1>5. \A c \in 1..nChunks : Ascending(Parts[c])
  BY <1>2 DEF Parts
<1> QED
  BY <1>4, <1>5

LEMMA ExpandedIs ==
  ASSUME stream \in Seq(Source), NEW n \in 0..Len(stream)
  PROVE  /\ Expanded(n) \in Seq(Seq(Msg))
         /\ n < Len(stream) =>
              /\ stream[n + 1] \in Source /\ Expand(stream[n + 1]) \in Seq(Msg)
              /\ Expanded(n + 1) = Append(Expanded(n), Expand(stream[n + 1]))
<1>1. n \in Nat /\ Len(stream) \in Nat /\ \A i \in 1..Len(stream) : stream[i] \in Source
  OBVIOUS
<1>2. \A i \in 1..Len(stream) : Expand(stream[i]) \in Seq(Msg)
  BY <1>1, SortAssumption
<1>3. Expanded(n) \in [1..n -> Seq(Msg)]
  BY <1>1, <1>2 DEF Expanded
<1>4. Expanded(n) \in Seq(Seq(Msg)) /\ Len(Expanded(n)) = n
  BY <1>1, <1>3
<1>5. ASSUME n < Len(stream)
      PROVE  Expanded(n + 1) = Append(Expanded(n), Expand(stream[n + 1]))
  <2> DEFINE e == Expand(stream[n + 1])
             f == Expanded(n)
             g == Append(f, e)
             h == Expanded(n + 1)
  <2>1. e \in Seq(Msg)
    BY <1>1, <1>2, <1>5
  <2>2. \A i \in 1..n : f[i] = Expand(stream[i])
    BY DEF Expanded
  <2>3. DOMAIN h = 1..(n + 1) /\ \A i \in 1..(n + 1) : h[i] = Expand(stream[i])
    BY DEF Expanded
  <2>4. h \in [1..(n + 1) -> Seq(Msg)]
    BY <1>1, <1>2, <1>5, <2>3 DEF Expanded
  <2>5. h \in Seq(Seq(Msg)) /\ Len(h) = n + 1
    BY <1>1, <2>4
  <2> HIDE DEF f, h
  <2>6. f \in Seq(Seq(Msg)) /\ Len(f) = n
    BY <1>4 DEF f
  <2>7. h = g
    <3> HIDE DEF e
    <3>1. g \in Seq(Seq(Msg)) /\ Len(g) = n + 1 /\ g[n + 1] = e /\ \A i \in 1..n : g[i] = f[i]
      BY <2>1, <2>6, <1>1
    <3>2. \A i \in 1..(n + 1) : h[i] = g[i]
      BY <1>1, <2>2, <2>3, <3>1 DEF e
    <3> QED
      BY <2>5, <3>1, <3>2
  <2> QED
    BY <2>7 DEF f, h
<1> QED
  BY <1>1, <1>2, <1>4, <1>5

(* What the refill adds to the queue is what it adds to the expansion.     *)
LEMMA RefillKeeps ==
  ASSUME TypeOK, Refill
  PROVE  /\ taken' \in 0..Len(stream) /\ Refilled \in Seq(Msg)
         /\ \A m : Copies(Expanded(taken'), m) + Cardinality(In(tq, m))
                     = Copies(Expanded(taken), m) + Cardinality(In(Refilled, m))
<1>1. stream \in Seq(Source) /\ taken \in 0..Len(stream) /\ tq \in Seq(Msg)
      /\ Len(stream) \in Nat /\ taken \in Nat
  BY DEF TypeOK
<1>2. Expanded(taken) \in Seq(Seq(Msg))
  BY <1>1, ExpandedIs
<1>3. \A m : Copies(Expanded(taken), m) \in Nat /\ Cardinality(In(tq, m)) \in Nat
  BY <1>1, <1>2, PlacesFinite, InFinite
<1>4. CASE Fetching /\ MoreInput
  <2> DEFINE e == Expand(stream[taken + 1])
  <2>1. taken' = taken + 1 /\ Refilled = e /\ taken < Len(stream) /\ tq = <<>>
    BY <1>4 DEF Refill, Refilled, MoreInput, Fetching
  <2>2. e \in Seq(Msg) /\ Expanded(taken + 1) = Append(Expanded(taken), e)
    BY <1>1, <2>1, ExpandedIs
  <2> HIDE DEF e
  <2>3. \A m : Copies(Expanded(taken'), m) = Copies(Expanded(taken), m) + Cardinality(In(e, m))
    <3> TAKE m
    <3>1. Copies(Append(Expanded(taken), e), m) = Copies(Expanded(taken), m) + Cardinality(In(e, m))
      BY <1>2, <2>2, CopiesOfAppend
    <3> QED
      BY <2>1, <2>2, <3>1
  <2>4. \A m : Cardinality(In(tq, m)) = 0
    BY <2>1, InEmpty
  <2>5. \A m : Cardinality(In(e, m)) \in Nat
    BY <2>2, InFinite
  <2>6. taken' \in 0..Len(stream)
    BY <1>1, <2>1
  <2> QED
    BY <1>3, <2>1, <2>2, <2>3, <2>4, <2>5, <2>6
<1>5. CASE ~(Fetching /\ MoreInput)
  <2>1. taken' = taken /\ Refilled = tq
    BY <1>5 DEF Refill, Refilled
  <2> QED
    BY <1>1, <1>3, <2>1
<1> QED
  BY <1>4, <1>5

(* sort_save adds the buffer to the part files.                            *)
LEMMA SaveAdds ==
  ASSUME TypeOK, DirOK, NEW s \in Seq(Msg), SortSave(s)
  PROVE  /\ nChunks' = nChunks + 1 /\ DirOK'
         /\ \A m \in Msg : Copies(Parts', m) = Copies(Parts, m) + Cardinality(In(s, m))
<1>1. nChunks \in Nat /\ nChunks' = nChunks + 1
  BY DEF TypeOK, SortSave
<1>2. PICK t \in SortedCopies(s) :
        dir' = [n \in DOMAIN dir \cup {nChunks} |-> IF n = nChunks THEN t ELSE dir[n]]
  BY DEF SortSave
<1>3. t \in Seq(Msg) /\ Ascending(t)
  <2>1. t \in [DOMAIN s -> {s[i] : i \in DOMAIN s}]
    BY DEF SortedCopies
  <2>2. DOMAIN s = 1..Len(s) /\ Len(s) \in Nat /\ \A i \in DOMAIN s : s[i] \in Msg
    OBVIOUS
  <2>3. t \in [1..Len(s) -> Msg]
    BY <2>1, <2>2
  <2>4. t \in Seq(Msg)
    BY <2>2, <2>3
  <2>5. DOMAIN t = DOMAIN s
    BY <2>1
  <2> QED
    BY <2>4, <2>5 DEF SortedCopies, Ascending
<1>4. \A m \in Msg : Cardinality(In(t, m)) = Cardinality(In(s, m))
  <2>1. \A m \in Msg : Copies(<<t>>, m) = Copies(<<s>>, m)
    BY DEF SortedCopies, SameBag
  <2> QED
    BY <1>3, <2>1, CopiesOfOne
<1>5. \A c \in DOMAIN dir : c # nChunks => c \in DOMAIN dir' /\ dir'[c] = dir[c]
  BY <1>2
<1>6. nChunks \in DOMAIN dir' /\ dir'[nChunks] = t
  BY <1>2
<1>7. \A c \in 0..(nChunks - 1) : c # nChunks /\ c \in DOMAIN dir
  BY <1>1 DEF DirOK
<1>8. DirOK'
  <2> SUFFICES ASSUME NEW c \in 0..nChunks
               PROVE  c \in DOMAIN dir' /\ dir'[c] \in Seq(Msg) /\ Ascending(dir'[c])
    BY <1>1 DEF DirOK, Ascending
  <2>1. CASE c = nChunks
    BY <1>3, <1>6, <2>1
  <2>2. CASE c # nChunks
    <3>1. c \in 0..(nChunks - 1)
      BY <1>1, <2>2
    <3>2. dir[c] \in Seq(Msg) /\ Ascending(dir[c])
      BY <3>1 DEF DirOK
    <3> QED
      BY <1>5, <1>7, <3>1, <3>2
  <2> QED
    BY <2>1, <2>2
<1>9. Parts \in Seq(Seq(Msg)) /\ Len(Parts) = nChunks
  BY PartsAre
<1>10. Parts' = Append(Parts, t)
  <2> DEFINE f == Parts
             g == Parts'
  <2>1. DOMAIN f = 1..nChunks /\ \A i \in 1..nChunks : f[i] = dir[i - 1]
    BY DEF Parts
  <2>2. DOMAIN g = 1..(nChunks + 1) /\ \A i \in 1..(nChunks + 1) : g[i] = dir'[i - 1]
    BY <1>1 DEF Parts
  <2>3. \A i \in 1..nChunks : g[i] = f[i]
    <3> TAKE i \in 1..nChunks
    <3>1. i - 1 \in 0..(nChunks - 1) /\ i \in 1..(nChunks + 1)
      BY <1>1
    <3> QED
      BY <1>5, <1>7, <2>1, <2>2, <3>1
  <2>4. g[nChunks + 1] = t
    BY <1>1, <1>6, <2>2
  <2>5. g = [i \in 1..(nChunks + 1) |-> dir'[i - 1]]
    BY <1>1 DEF Parts
  <2> HIDE DEF f, g
  <2>6. f \in Seq(Seq(Msg)) /\ Len(f) = nChunks
    BY <1>9 DEF f
  <2>7. g = Append(f, t)
    <3> DEFINE h == Append(f, t)
    <3>0. h \in Seq(Seq(Msg)) /\ Len(h) = nChunks + 1 /\ h[nChunks + 1] = t /\ \A i \in 1..nChunks : h[i] = f[i]
      BY <1>1, <1>3, <2>6
    <3> HIDE DEF h
    <3>1. h \in [1..(nChunks + 1) -> Seq(Msg)] /\ h[nChunks + 1] = t /\ \A i \in 1..nChunks : h[i] = f[i]
      BY <1>1, <3>0
    <3>2. \A i \in 1..(nChunks + 1) : g[i] = h[i]
      <4>1. \A i \in 1..(nChunks + 1) : i \in 1..nChunks \/ i = nChunks + 1
        BY <1>1
      <4>2. \A i \in 1..nChunks : g[i] = h[i]
        BY <2>3, <3>1
      <4>3. g[nChunks + 1] = h[nChunks + 1]
        BY <2>4, <3>1
      <4> QED
        BY <4>1, <4>2, <4>3
    <3>3. g = [i \in 1..(nChunks + 1) |-> g[i]]
      BY <2>2, <2>5
    <3>4. h = [i \in 1..(nChunks + 1) |-> h[i]]
      BY <3>1
    <3> QED
      BY <3>2, <3>3, <3>4 DEF h
  <2> QED
    BY <2>7 DEF f, g
<1>11. \A m \in Msg : Copies(Parts', m) = Copies(Parts, m) + Cardinality(In(t, m))
  BY <1>3, <1>9, <1>10, CopiesOfAppend
<1> QED
  BY <1>1, <1>4, <1>8, <1>11

-----------------------------------------------------------------------------
(* The steps.                                                              *)
LEMMA NothingYet == ASSUME NEW m PROVE Copies(<<>>, m) = 0
<1> DEFINE P == PlacesIn(<<>>, m)
<1>1. \A p : p \in P <=> \E c \in DOMAIN <<>> : \E i \in DOMAIN <<>>[c] : p = <<c, i>> /\ <<>>[c][i] = m
  BY PlaceIs
<1>2. DOMAIN <<>> = {}
  OBVIOUS
<1>3. P = {}
  BY <1>1, <1>2
<1> QED
  BY <1>3, PlaceIs, FS_EmptySet

LEMMA InitIInv == Init => IInv
<1> SUFFICES ASSUME Init PROVE IInv
  OBVIOUS
<1>1. /\ stream \in Streams /\ taken = 0 /\ tq = <<>> /\ keep = TRUE
      /\ max_elems \in Limits /\ buf = <<>> /\ nChunks = 0 /\ phase = "new"
      /\ q = {} /\ begun = FALSE /\ yielded = <<>>
  BY DEF Init
<1>2. TypeOK
  BY <1>1, SortAssumption DEF TypeOK
<1>3. DirOK
  BY <1>1 DEF DirOK
<1>4. Parts = <<>> /\ Expanded(taken) = <<>>
  BY <1>1 DEF Parts, Expanded
<1>5. NothingAstray
  BY <1>1, <1>4, NothingYet, InEmpty DEF NothingAstray
<1>6. Splitting /\ Merging
  BY <1>1 DEF Splitting, Merging, NoneBarren
<1> QED
  BY <1>2, <1>3, <1>5, <1>6 DEF IInv

LEMMA ConstructIInv == IInv /\ Construct => IInv'
<1> SUFFICES ASSUME IInv, Construct PROVE IInv'
  OBVIOUS
<1>1. /\ phase = "new" /\ phase' = "split" /\ nChunks = 0
      /\ UNCHANGED <<stream, taken, tq, keep, max_elems, buf, nChunks>>
      /\ UNCHANGED <<q, begun, yielded>>
  BY DEF Construct, IInv, Splitting, mergeVars
<1>2. TypeOK'
  BY <1>1 DEF IInv, TypeOK
<1>3. DirOK'
  BY <1>1 DEF DirOK
<1>4. Parts = <<>> /\ Parts' = <<>> /\ Expanded(taken)' = Expanded(taken)
  BY <1>1 DEF Parts, Expanded
<1>5. NothingAstray'
  BY <1>1, <1>4 DEF IInv, NothingAstray
<1>6. Splitting' /\ Merging'
  BY <1>1 DEF IInv, Splitting, Merging, NoneBarren
<1> QED
  BY <1>2, <1>3, <1>5, <1>6 DEF IInv

LEMMA KeepIInv == IInv /\ Keep => IInv'
<1> SUFFICES ASSUME IInv, Keep PROVE IInv'
  OBVIOUS
<1> DEFINE r == Refilled
           b == Append(buf, Head(r))
<1>1. /\ phase = "split" /\ r # <<>> /\ Refill /\ tq' = Tail(r)
      /\ stream' = stream /\ max_elems' = max_elems /\ phase' = phase
      /\ UNCHANGED <<q, begun, yielded>>
  BY DEF Keep, mergeVars
<1>2. \/ SortSave(b) /\ buf' = <<>>
      \/ buf' = b /\ dir' = dir /\ nChunks' = nChunks
  BY DEF Keep
<1>3. TypeOK /\ DirOK /\ NothingAstray /\ keep = TRUE /\ NoneBarren(taken)
      /\ q = {} /\ begun = FALSE /\ yielded = <<>>
  BY <1>1 DEF IInv, Splitting
<1>4. /\ taken' \in 0..Len(stream) /\ r \in Seq(Msg)
      /\ \A m : Copies(Expanded(taken'), m) + Cardinality(In(tq, m))
                  = Copies(Expanded(taken), m) + Cardinality(In(r, m))
  BY <1>1, <1>3, RefillKeeps
<1>5. Expanded(taken)' = Expanded(taken')
  BY <1>1 DEF Expanded
<1>6. /\ Head(r) \in Msg /\ Tail(r) \in Seq(Msg)
      /\ \A m : Cardinality(In(r, m)) = One(Head(r), m) + Cardinality(In(Tail(r), m))
  <2> HIDE DEF r
  <2> QED
    BY <1>1, <1>4, InTail
<1>7. stream \in Seq(Source) /\ taken \in 0..Len(stream) /\ Len(stream) \in Nat
      /\ buf \in Seq(Msg) /\ tq \in Seq(Msg)
      /\ max_elems \in Nat /\ nChunks \in Nat
  BY <1>3 DEF TypeOK
<1> HIDE DEF r
<1>8. b \in Seq(Msg) /\ \A m : Cardinality(In(b, m)) = Cardinality(In(buf, m)) + One(Head(r), m)
  BY <1>6, <1>7, InAppend
<1>9. /\ nChunks' \in Nat /\ buf' \in Seq(Msg) /\ DirOK'
      /\ \A m \in Msg : Copies(Parts', m) + Cardinality(In(buf', m))
                          = Copies(Parts, m) + Cardinality(In(b, m))
  <2>1. Parts \in Seq(Seq(Msg))
    BY <1>3, PartsAre
  <2>2. \A m : Copies(Parts, m) \in Nat /\ Cardinality(In(b, m)) \in Nat
    BY <1>8, <2>1, PlacesFinite, InFinite
  <2> HIDE DEF b
  <2>3. CASE SortSave(b) /\ buf' = <<>>
    <3>1. nChunks' = nChunks + 1 /\ DirOK'
          /\ \A m \in Msg : Copies(Parts', m) = Copies(Parts, m) + Cardinality(In(b, m))
      BY <1>3, <1>8, <2>3, SaveAdds
    <3>2. \A m : Cardinality(In(buf', m)) = 0
      BY <2>3, InEmpty
    <3>3. buf' \in Seq(Msg)
      BY <2>3
    <3> QED
      BY <1>7, <2>2, <3>1, <3>2, <3>3
  <2>4. CASE buf' = b /\ dir' = dir /\ nChunks' = nChunks
    <3>1. DirOK' /\ Parts' = Parts
      BY <1>3, <2>4 DEF DirOK, Parts, Ascending
    <3> QED
      BY <1>7, <1>8, <2>4, <3>1
  <2> QED
    BY <1>2, <2>3, <2>4
<1>10. TypeOK'
  BY <1>1, <1>4, <1>6, <1>7, <1>9 DEF TypeOK
<1>11. NothingAstray'
  <2> SUFFICES ASSUME NEW m \in Msg
               PROVE  Copies(Parts', m) + Cardinality(In(buf', m)) + Cardinality(In(tq', m))
                        = Copies(Expanded(taken'), m)
    BY <1>5 DEF NothingAstray
  <2> HIDE DEF b
  <2>1. Parts \in Seq(Seq(Msg)) /\ Parts' \in Seq(Seq(Msg))
    <3>1. TypeOK /\ DirOK => Parts \in Seq(Seq(Msg))
      BY PartsAre
    <3>2. (TypeOK /\ DirOK => Parts \in Seq(Seq(Msg)))'
      BY PartsAre, PTL
    <3> QED
      BY <1>3, <1>9, <1>10, <3>1, <3>2
  <2>2. Expanded(taken) \in Seq(Seq(Msg)) /\ Expanded(taken') \in Seq(Seq(Msg))
    BY <1>4, <1>7, ExpandedIs
  <2>3. /\ Copies(Parts, m) \in Nat /\ Copies(Parts', m) \in Nat
        /\ Copies(Expanded(taken), m) \in Nat /\ Copies(Expanded(taken'), m) \in Nat
    BY <2>1, <2>2, PlacesFinite
  <2>4. /\ Cardinality(In(buf, m)) \in Nat /\ Cardinality(In(buf', m)) \in Nat
        /\ Cardinality(In(tq, m)) \in Nat /\ Cardinality(In(r, m)) \in Nat
        /\ Cardinality(In(Tail(r), m)) \in Nat /\ Cardinality(In(b, m)) \in Nat
    BY <1>4, <1>6, <1>7, <1>8, <1>9, InFinite
  <2>5. Copies(Parts, m) + Cardinality(In(buf, m)) + Cardinality(In(tq, m))
          = Copies(Expanded(taken), m)
    BY <1>3 DEF NothingAstray
  <2>6. Copies(Expanded(taken'), m) + Cardinality(In(tq, m))
          = Copies(Expanded(taken), m) + Cardinality(In(r, m))
    BY <1>4
  <2>7. Cardinality(In(r, m)) = One(Head(r), m) + Cardinality(In(Tail(r), m))
    BY <1>6
  <2>8. Cardinality(In(b, m)) = Cardinality(In(buf, m)) + One(Head(r), m)
    BY <1>8
  <2>9. Copies(Parts', m) + Cardinality(In(buf', m)) = Copies(Parts, m) + Cardinality(In(b, m))
    BY <1>9
  <2>10. Cardinality(In(tq', m)) = Cardinality(In(Tail(r), m))
    BY <1>1
  <2>11. One(Head(r), m) \in Int
    BY DEF One
  <2> QED
    BY <2>3, <2>4, <2>5, <2>6, <2>7, <2>8, <2>9, <2>10, <2>11
<1>12. keep' = TRUE /\ NoneBarren(taken)'
  <2>1. CASE Fetching /\ MoreInput
    <3>1. keep' = TRUE /\ taken' = taken + 1 /\ Expand(stream[taken + 1]) # <<>>
      BY <1>1, <2>1 DEF Refill, r, Refilled
    <3>2. \A i \in 1..(taken + 1) : i \in 1..taken \/ i = taken + 1
      BY <1>7
    <3> QED
      BY <1>1, <1>3, <3>1, <3>2 DEF NoneBarren
  <2>2. CASE ~(Fetching /\ MoreInput)
    <3>1. taken' = taken /\ tq # <<>>
      BY <1>1, <1>3, <2>2 DEF Refill, r, Refilled, Fetching
    <3>2. ~Fetching /\ keep' = TRUE
      BY <1>1, <1>3, <3>1 DEF Refill, Fetching
    <3> QED
      BY <1>1, <1>3, <3>1, <3>2 DEF NoneBarren
  <2> QED
    BY <2>1, <2>2
<1>13. Splitting' /\ Merging'
  BY <1>1, <1>3, <1>12 DEF Splitting, Merging
<1> QED
  BY <1>9, <1>10, <1>11, <1>13 DEF IInv

LEMMA StopIInv == IInv /\ Stop => IInv'
<1> SUFFICES ASSUME IInv, Stop PROVE IInv'
  OBVIOUS
<1>1. /\ phase = "split" /\ Refilled = <<>> /\ Refill /\ buf' = <<>> /\ phase' = "merge"
      /\ files' = [i \in 1..nChunks' |-> dir'[i - 1]] /\ pos' = [i \in 1..nChunks' |-> 0]
      /\ UNCHANGED <<stream, tq, max_elems, q, begun, yielded>>
  BY DEF Stop
<1>2. \/ buf # <<>> /\ SortSave(buf)
      \/ buf = <<>> /\ dir' = dir /\ nChunks' = nChunks
  BY DEF Stop
<1>3. TypeOK /\ DirOK /\ NothingAstray /\ keep = TRUE /\ NoneBarren(taken)
      /\ q = {} /\ begun = FALSE /\ yielded = <<>>
  BY <1>1 DEF IInv, Splitting
<1>4. stream \in Seq(Source) /\ taken \in 0..Len(stream) /\ Len(stream) \in Nat
      /\ buf \in Seq(Msg) /\ max_elems \in Nat /\ nChunks \in Nat
  BY <1>3 DEF TypeOK
<1>5. /\ taken' \in 0..Len(stream)
      /\ \A m : Copies(Expanded(taken'), m) + Cardinality(In(tq, m))
                  = Copies(Expanded(taken), m) + Cardinality(In(<<>>, m))
  BY <1>1, <1>3, RefillKeeps
<1>6. Expanded(taken)' = Expanded(taken')
  BY <1>1 DEF Expanded
<1>7. \/ taken' = Len(stream) /\ NoneBarren(taken)'
      \/ taken' >= 1 /\ Expand(stream[taken']) = <<>> /\ NoneBarren(taken - 1)'
  <2>1. CASE Fetching /\ MoreInput
    <3>1. taken' = taken + 1 /\ Expand(stream[taken + 1]) = <<>>
      BY <1>1, <2>1 DEF Refill, Refilled
    <3>2. taken' - 1 = taken /\ taken' >= 1
      BY <1>4, <3>1
    <3> QED
      BY <1>1, <1>3, <3>1, <3>2 DEF NoneBarren
  <2>2. CASE ~(Fetching /\ MoreInput)
    <3>1. taken' = taken /\ tq = <<>>
      BY <1>1, <2>2 DEF Refill, Refilled
    <3>2. Fetching
      BY <1>3, <3>1 DEF Fetching
    <3>3. ~(taken < Len(stream))
      BY <2>2, <3>2 DEF MoreInput
    <3>4. taken' = Len(stream)
      BY <1>4, <3>1, <3>3
    <3> QED
      BY <1>1, <1>3, <3>1, <3>4 DEF NoneBarren
  <2> QED
    BY <2>1, <2>2
<1>8. tq = <<>>
  <2>1. CASE Fetching
    BY <2>1 DEF Fetching
  <2>2. CASE ~Fetching
    BY <1>1, <2>2 DEF Refilled
  <2> QED
    BY <2>1, <2>2
<1>9. /\ nChunks' \in Nat /\ DirOK'
      /\ \A m \in Msg : Copies(Parts', m) = Copies(Parts, m) + Cardinality(In(buf, m))
  <2>1. Parts \in Seq(Seq(Msg))
    BY <1>3, PartsAre
  <2>2. \A m : Copies(Parts, m) \in Nat
    BY <2>1, PlacesFinite
  <2>3. CASE SortSave(buf)
    BY <1>3, <1>4, <2>3, SaveAdds
  <2>4. CASE buf = <<>> /\ dir' = dir /\ nChunks' = nChunks
    <3>1. DirOK' /\ Parts' = Parts
      BY <1>3, <2>4 DEF DirOK, Parts, Ascending
    <3>2. \A m : Cardinality(In(buf, m)) = 0
      BY <2>4, InEmpty
    <3> QED
      BY <1>4, <2>2, <2>4, <3>1, <3>2
  <2> QED
    BY <1>2, <2>3, <2>4
<1>10. TypeOK'
  BY <1>1, <1>3, <1>5, <1>9 DEF TypeOK
<1>11. NothingAstray'
  <2> SUFFICES ASSUME NEW m \in Msg
               PROVE  Copies(Parts', m) + Cardinality(In(buf', m)) + Cardinality(In(tq', m))
                        = Copies(Expanded(taken'), m)
    BY <1>6 DEF NothingAstray
  <2>1. Parts \in Seq(Seq(Msg)) /\ Expanded(taken) \in Seq(Seq(Msg)) /\ Expanded(taken') \in Seq(Seq(Msg))
    BY <1>3, <1>4, <1>5, PartsAre, ExpandedIs
  <2>2. /\ Copies(Parts, m) \in Nat /\ Cardinality(In(buf, m)) \in Nat
        /\ Copies(Expanded(taken), m) \in Nat /\ Copies(Expanded(taken'), m) \in Nat
    BY <1>4, <2>1, PlacesFinite, InFinite
  <2>3. Cardinality(In(<<>>, m)) = 0
    BY InEmpty
  <2>4. Copies(Parts, m) + Cardinality(In(buf, m)) + Cardinality(In(tq, m)) = Copies(Expanded(taken), m)
    BY <1>3 DEF NothingAstray
  <2>5. Copies(Expanded(taken'), m) = Copies(Expanded(taken), m)
    BY <1>5, <1>8, <2>2, <2>3
  <2>6. Copies(Parts', m) = Copies(Parts, m) + Cardinality(In(buf, m))
    BY <1>9
  <2>7. Cardinality(In(buf', m)) = 0 /\ Cardinality(In(tq', m)) = 0 /\ Cardinality(In(tq, m)) = 0
    BY <1>1, <1>8, <2>3
  <2> QED
    BY <2>2, <2>4, <2>5, <2>6, <2>7
<1>12. M!IInv'
  <2>1. files' = Parts'
    BY <1>1 DEF Parts
  <2>2. (TypeOK /\ DirOK => Parts \in Seq(Seq(Msg)) /\ Len(Parts) = nChunks
            /\ \A c \in DOMAIN Parts : Ascending(Parts[c]))'
    BY PartsAre, PTL
  <2>3. files' \in Seq(Seq(Msg)) /\ DOMAIN files' = 1..nChunks'
        /\ \A c \in DOMAIN files' : Ascending(files'[c])
    BY <1>1, <1>9, <1>10, <2>1, <2>2 DEF Ascending
  <2>4. M!SortedFiles(files')
    BY <2>3 DEF M!SortedFiles, Ascending
  <2>5. pos' = [i \in DOMAIN files' |-> 0] /\ q' = {} /\ begun' = FALSE /\ yielded' = <<>>
    BY <1>1, <1>3, <2>3
  <2>6. FreshMerge'
    BY <2>3, <2>4, <2>5 DEF FreshMerge, M!SortedFiles
  <2>7. FreshMerge' => M!IInv'
    BY MergerFresh, PTL
  <2> QED
    BY <2>6, <2>7
<1>13. Splitting' /\ Merging'
  <2>1. files' = Parts' /\ tq' = <<>>
    BY <1>1, <1>8 DEF Parts
  <2> QED
    BY <1>1, <1>7, <1>12, <2>1 DEF Splitting, Merging
<1> QED
  BY <1>9, <1>10, <1>11, <1>13 DEF IInv

(* A step of the merge leaves the sorter's own state alone.                *)
LEMMA MergeIInv ==
  ASSUME IInv, sorterVars' = sorterVars,
         phase = "merge" => files' = files /\ M!IInv',
         phase # "merge" => UNCHANGED mergeVars
  PROVE  IInv'
<1>1. UNCHANGED <<stream, taken, tq, keep, max_elems, buf, dir, nChunks, phase>>
  BY DEF sorterVars
<1>2. TypeOK' /\ DirOK'
  BY <1>1 DEF IInv, TypeOK, DirOK, Ascending
<1>3. Parts' = Parts /\ Expanded(taken)' = Expanded(taken)
  BY <1>1 DEF Parts, Expanded
<1>4. NothingAstray'
  BY <1>1, <1>3 DEF IInv, NothingAstray
<1>5. Splitting'
  BY <1>1 DEF IInv, Splitting, NoneBarren, mergeVars
<1>6. Merging'
  BY <1>1, <1>3 DEF IInv, Merging, NoneBarren
<1> QED
  BY <1>2, <1>4, <1>5, <1>6 DEF IInv

LEMMA ConsumeIInv == IInv /\ Consume => IInv'
<1> SUFFICES ASSUME IInv, Consume PROVE IInv'
  OBVIOUS
<1>1. phase = "merge" /\ sorterVars' = sorterVars /\ M!IInv
  BY DEF Consume, IInv, Merging
<1>2. [M!Next]_M!vars /\ files' = files
  <2>1. CASE Merger!Begin
    <3>1. M!Begin /\ files' = files
      BY <2>1 DEF Merger!Begin, M!Begin, Merger!InitQueue, M!InitQueue,
         Merger!Unread, M!Unread, Merger!ReadFrom, M!ReadFrom
    <3> QED
      BY <3>1 DEF M!Next
  <2>2. ASSUME NEW i \in q, Merger!Visit(i)
        PROVE  [M!Next]_M!vars /\ files' = files
    <3>1. M!Visit(i) /\ files' = files
      BY <2>2 DEF Merger!Visit, M!Visit, Merger!Advance, M!Advance, Merger!InitQueue, M!InitQueue,
         Merger!Unread, M!Unread, Merger!ReadFrom, M!ReadFrom, Merger!Tops, M!Tops, Merger!Cur, M!Cur
    <3> QED
      BY <3>1 DEF M!Next
  <2> QED
    BY <2>1, <2>2 DEF Consume
<1>3. M!IInv'
  BY <1>1, <1>2, MergerStep
<1> QED
  BY <1>1, <1>2, <1>3, MergeIInv

(* The inductive invariant of the sorter and its merge.                    *)
THEOREM Invariance == Spec => []IInv
<1>1. IInv /\ [Next]_vars => IInv'
  <2> SUFFICES ASSUME IInv, [Next]_vars PROVE IInv'
    OBVIOUS
  <2>1. CASE Construct
    BY <2>1, ConstructIInv
  <2>2. CASE Keep
    BY <2>2, KeepIInv
  <2>3. CASE Stop
    BY <2>3, StopIInv
  <2>4. CASE Consume
    BY <2>4, ConsumeIInv
  <2>5. CASE UNCHANGED vars
    <3>1. sorterVars' = sorterVars /\ mergeVars' = mergeVars
      BY <2>5 DEF vars
    <3>2. UNCHANGED M!vars /\ files' = files
      BY <3>1 DEF mergeVars, M!vars
    <3>3. phase = "merge" => M!IInv'
      BY <3>2, MergerStep DEF IInv, Merging
    <3> QED
      BY <3>1, <3>2, <3>3, MergeIInv
  <2> QED
    BY <2>1, <2>2, <2>3, <2>4, <2>5 DEF Next, Terminated
<1> QED
  BY InitIInv, <1>1, PTL DEF Spec

-----------------------------------------------------------------------------
(* Where read stopped is before the first message that fn makes nothing of.*)
LEMMA StoppedAt ==
  ASSUME IInv, phase = "merge"
  PROVE  \A m : Copies(Expanded(BeforeBarren), m) = Copies(Expanded(taken), m)
<1> DEFINE Good(n) == /\ \A i \in 1..n : Expand(stream[i]) # <<>>
                      /\ n < Len(stream) => Expand(stream[n + 1]) = <<>>
<1>1. stream \in Seq(Source) /\ Len(stream) \in Nat /\ taken \in 0..Len(stream)
  BY DEF IInv, TypeOK
<1>2. ASSUME NEW n \in 0..Len(stream), Good(n) PROVE BeforeBarren = n
  <2>1. \A k \in 0..Len(stream) : Good(k) => ~(k < n)
    <3> SUFFICES ASSUME NEW k \in 0..Len(stream), Good(k), k < n PROVE FALSE
      OBVIOUS
    <3>1. k < Len(stream) /\ k + 1 \in 1..n
      BY <1>1
    <3> QED
      BY <1>2, <3>1
  <2>2. \A k \in 0..Len(stream) : Good(k) => ~(n < k)
    <3> SUFFICES ASSUME NEW k \in 0..Len(stream), Good(k), n < k PROVE FALSE
      OBVIOUS
    <3>1. n < Len(stream) /\ n + 1 \in 1..k
      BY <1>1
    <3> QED
      BY <1>2, <3>1
  <2>3. \A k \in 0..Len(stream) : Good(k) => k = n
    BY <1>1, <2>1, <2>2
  <2>4. BeforeBarren = CHOOSE k \in 0..Len(stream) : Good(k)
    BY DEF BeforeBarren
  <2> HIDE DEF Good
  <2> QED
    BY <1>2, <2>3, <2>4
<1>3. CASE taken = Len(stream) /\ NoneBarren(taken)
  <2>1. Good(taken)
    BY <1>1, <1>3 DEF NoneBarren
  <2> QED
    BY <1>1, <1>2, <2>1
<1>4. CASE taken >= 1 /\ Expand(stream[taken]) = <<>> /\ NoneBarren(taken - 1)
  <2> DEFINE n == taken - 1
  <2>1. n \in 0..Len(stream) /\ n + 1 = taken /\ n < Len(stream)
    BY <1>1, <1>4
  <2>2. Good(n)
    BY <1>4, <2>1 DEF NoneBarren
  <2>3. BeforeBarren = n
    BY <1>2, <2>1, <2>2
  <2> HIDE DEF n
  <2>4. Expanded(n) \in Seq(Seq(Msg)) /\ Expanded(taken) = Append(Expanded(n), <<>>)
    BY <1>1, <1>4, <2>1, ExpandedIs
  <2>5. <<>> \in Seq(Msg)
    OBVIOUS
  <2>6. \A m : Copies(Append(Expanded(n), <<>>), m)
                 = Copies(Expanded(n), m) + Cardinality(In(<<>>, m))
    BY <2>4, <2>5, CopiesOfAppend
  <2>7. \A m : Copies(Expanded(n), m) \in Nat /\ Cardinality(In(<<>>, m)) = 0
    BY <2>4, PlacesFinite, InEmpty
  <2> QED
    BY <2>3, <2>4, <2>6, <2>7
<1> QED
  BY <1>3, <1>4 DEF IInv, Merging

(* The history of a finished merge numbers the places of its files.        *)
LEMMA ShownIsFiles ==
  ASSUME IInv, phase = "merge", Merger!AtEnd
  PROVE  /\ Shown \in Seq(Msg)
         /\ \A m : Cardinality(In(Shown, m)) = Copies(files, m)
<1>1. M!IInv /\ M!MergeComplete /\ M!AtEnd
  BY MergerEnd DEF IInv, Merging, Merger!AtEnd, M!AtEnd
<1>2. files \in Seq(Seq(Msg)) /\ yielded \in Seq((DOMAIN files) \X Nat)
  BY <1>1 DEF M!IInv, M!TypeOK
<1>3. \A a \in DOMAIN yielded :
        \E c \in DOMAIN files : \E i \in DOMAIN files[c] : yielded[a] = <<c, i>>
  <2> TAKE a \in DOMAIN yielded
  <2>1. yielded[a] \in (DOMAIN files) \X Nat
    BY <1>2
  <2>2. yielded[a][1] \in DOMAIN files /\ yielded[a][2] \in 1..Len(files[yielded[a][1]])
    BY <1>1 DEF M!IInv, M!ShownArePlaces
  <2>3. yielded[a] = <<yielded[a][1], yielded[a][2]>>
    BY <2>1
  <2>4. DOMAIN files[yielded[a][1]] = 1..Len(files[yielded[a][1]])
    BY <1>2, <2>2
  <2> QED
    BY <2>2, <2>3, <2>4
<1>4. \A a, b \in DOMAIN yielded : yielded[a] = yielded[b] => a = b
  BY <1>1 DEF M!IInv, M!ShownExactlyOnce
<1>5. \A c \in DOMAIN files : \A i \in DOMAIN files[c] :
        \E a \in DOMAIN yielded : yielded[a] = <<c, i>>
  <2>1. \A c \in DOMAIN files : DOMAIN files[c] = 1..Len(files[c])
    BY <1>2
  <2> QED
    BY <1>1, <2>1 DEF M!MergeComplete
<1>6. DOMAIN Shown = DOMAIN yielded
      /\ \A a \in DOMAIN yielded : \A c, i : yielded[a] = <<c, i>> => Shown[a] = files[c][i]
  BY DEF Shown
<1>7. Shown \in Seq(Msg)
  <2> DEFINE k == Len(yielded)
  <2>1. k \in Nat /\ DOMAIN yielded = 1..k
    BY <1>2
  <2> HIDE DEF k
  <2>2. \A c \in DOMAIN files : \A i \in DOMAIN files[c] : files[c][i] \in Msg
    BY <1>2
  <2>3. \A a \in DOMAIN yielded : Shown[a] \in Msg
    BY <1>3, <1>6, <2>2
  <2>4. Shown \in [1..k -> Msg]
    BY <1>6, <2>1, <2>3 DEF Shown
  <2> QED
    BY <2>1, <2>4
<1>8. ASSUME NEW m PROVE Cardinality(In(Shown, m)) = Copies(files, m)
  <2> DEFINE A == In(Shown, m)
             P == PlacesIn(files, m)
             h == [a \in A |-> yielded[a]]
  <2>1. \A a : a \in A <=> a \in DOMAIN yielded /\ Shown[a] = m
    BY <1>6 DEF In
  <2>2. \A p : p \in P <=> \E c \in DOMAIN files : \E i \in DOMAIN files[c] : p = <<c, i>> /\ files[c][i] = m
    BY PlaceIs
  <2>3. IsFiniteSet(A) /\ IsFiniteSet(P)
    BY <1>2, <1>7, InFinite, PlacesFinite
  <2>4. Copies(files, m) = Cardinality(P)
    BY PlaceIs
  <2> HIDE DEF A, P
  <2>5. \A a \in A : yielded[a] \in P
    BY <1>3, <1>6, <2>1, <2>2
  <2>6. \A p \in P : \E a \in A : yielded[a] = p
    <3> TAKE p \in P
    <3>0. PICK c \in DOMAIN files : \E i \in DOMAIN files[c] : p = <<c, i>> /\ files[c][i] = m
      BY <2>2
    <3>1. PICK i \in DOMAIN files[c] : p = <<c, i>> /\ files[c][i] = m
      BY <3>0
    <3>2. PICK a \in DOMAIN yielded : yielded[a] = <<c, i>>
      BY <1>5
    <3>3. Shown[a] = m
      BY <1>6, <3>1, <3>2
    <3> QED
      BY <2>1, <3>1, <3>2, <3>3
  <2>7. h \in [A -> P] /\ DOMAIN h = A
    BY <2>5
  <2>8. \A a, b \in A : h[a] = h[b] => a = b
    BY <1>4, <2>1
  <2>9. \A p \in P : \E a \in A : h[a] = p
    BY <2>6
  <2> HIDE DEF h
  <2>10. h \in Bijection(A, P)
    BY <2>7, <2>8, <2>9 DEF Bijection, Injection, Surjection, IsInjective
  <2>11. Cardinality(P) = Cardinality(A)
    BY <2>3, <2>10, FS_Bijection DEF ExistsBijection
  <2> QED
    BY <2>4, <2>11 DEF A
<1> QED
  BY <1>7, <1>8

-----------------------------------------------------------------------------
(* Nothing is lost or added between the stream and the part files: not by  *)
(* a refill of the Transformer's queue, by a full or a last buffer, or by  *)
(* old part files in save_dir.                                             *)
THEOREM SplitLosesNothing == Spec => []SplitKeepsAll
<1>1. IInv => SplitKeepsAll
  <2> SUFFICES ASSUME IInv, NEW m \in Msg
               PROVE  Copies(Parts \o <<buf, tq>>, m) = Copies(Expanded(taken), m)
    BY DEF SplitKeepsAll, SameBag
  <2>1. Parts \in Seq(Seq(Msg)) /\ buf \in Seq(Msg) /\ tq \in Seq(Msg)
    BY PartsAre DEF IInv, TypeOK
  <2> DEFINE f == Parts
             g == Append(f, buf)
             h == Append(g, tq)
  <2>2. f \in Seq(Seq(Msg))
    BY <2>1
  <2>3. f \o <<buf, tq>> = h
    <3> HIDE DEF f
    <3> QED
      BY <2>1, <2>2
  <2> HIDE DEF f
  <2>4. g \in Seq(Seq(Msg))
    BY <2>1, <2>2
  <2>5. Copies(g, m) = Copies(f, m) + Cardinality(In(buf, m))
    BY <2>1, <2>2, CopiesOfAppend
  <2> HIDE DEF g
  <2>6. Copies(h, m) = Copies(g, m) + Cardinality(In(tq, m))
    BY <2>1, <2>4, CopiesOfAppend
  <2> HIDE DEF h
  <2>7. Copies(f, m) + Cardinality(In(buf, m)) + Cardinality(In(tq, m)) = Copies(Expanded(taken), m)
    BY DEF f, IInv, NothingAstray
  <2> QED
    BY <2>3, <2>5, <2>6, <2>7 DEF f
<1> QED
  BY Invariance, <1>1, PTL

(* The consumer of the sorter sees the whole transformed stream up to the  *)
(* first message that fn makes nothing of, in order, whatever the limit    *)
(* max_elems and however the ties fall.                                    *)
THEOREM StreamIsSorted == Spec => []SortsTheStream
<1>1. IInv => SortsTheStream
  <2> SUFFICES ASSUME IInv, phase = "merge", Merger!AtEnd
               PROVE  /\ SameBag(<<Shown>>, Expanded(BeforeBarren))
                      /\ \A a, b \in DOMAIN Shown : a <= b => Rank(Shown[a]) <= Rank(Shown[b])
    BY DEF SortsTheStream
  <2>1. Shown \in Seq(Msg) /\ \A m : Cardinality(In(Shown, m)) = Copies(files, m)
    BY ShownIsFiles
  <2>2. \A m : Copies(<<Shown>>, m) = Copies(files, m)
    BY <2>1, CopiesOfOne
  <2>3. \A m \in Msg : Copies(files, m) = Copies(Expanded(taken), m)
    <3> TAKE m \in Msg
    <3>1. files = Parts /\ buf = <<>> /\ tq = <<>>
      BY DEF IInv, Merging
    <3>2. Copies(Parts, m) + Cardinality(In(buf, m)) + Cardinality(In(tq, m)) = Copies(Expanded(taken), m)
      BY DEF IInv, NothingAstray
    <3>3. Cardinality(In(buf, m)) = 0 /\ Cardinality(In(tq, m)) = 0
      BY <3>1, InEmpty
    <3>4. Parts \in Seq(Seq(Msg))
      BY PartsAre DEF IInv
    <3>5. Copies(Parts, m) \in Nat
      BY <3>4, PlacesFinite
    <3> QED
      BY <3>1, <3>2, <3>3, <3>5
  <2>4. SameBag(<<Shown>>, Expanded(BeforeBarren))
    BY <2>2, <2>3, StoppedAt DEF SameBag
  <2>5. \A a, b \in DOMAIN yielded : a <= b =>
          Rank(files[yielded[a][1]][yielded[a][2]]) <= Rank(files[yielded[b][1]][yielded[b][2]])
    BY DEF IInv, Merging, M!IInv, M!YieldedSorted
  <2>6. \A a, b \in DOMAIN Shown : a <= b => Rank(Shown[a]) <= Rank(Shown[b])
    BY <2>5 DEF Shown
  <2> QED
    BY <2>4, <2>6
<1> QED
  BY Invariance, <1>1, PTL

=============================================================================
