--------------------------- MODULE GroupLemProofs ---------------------------
(***************************************************************************)
(* group_lem2 and group_lem3 make one group of every lemma tuple and apply *)
(* the threshold to its whole weight, for any tables and any lists of      *)
(* lemmas.                                                                 *)
(***************************************************************************)
EXTENDS GroupLem, FiniteSetTheorems, TLAPS

(* What the files hold.                                                    *)
InputsOK ==
  /\ arity \in {2, 3} /\ threshold \in Nat
  /\ IsFiniteSet(DOMAIN uni) /\ IsFiniteSet(DOMAIN grams)
  /\ DOMAIN lems = DOMAIN uni
  /\ \A w \in DOMAIN uni : uni[w] \in Nat \ {0} /\ lems[w] \in Seq(Lem) \ {<<>>}
  /\ \A g \in DOMAIN grams : g \in [1..arity -> DOMAIN uni] /\ grams[g] \in Nat \ {0}
  /\ \A a, b, c \in DOMAIN lems :
       \E k \in 1..Scale : Scale = k * (Len(lems[a]) * Len(lems[b]) * Len(lems[c]))
  /\ lid_w = LemWeights(uni, lems)

Msgs == Extended(DOMAIN grams, lems)
LidsSet == [1..arity -> Lem]
CaseSet == [wids : DOMAIN grams, count : Nat]

TypeOK ==
  /\ todo \subseteq Msgs
  /\ msg \in [lids : [1..arity -> Nat], cases : Seq(CaseSet)]
  /\ msg.cases # <<>> => msg.lids \in LidsSet
  /\ weight \in Nat
  /\ out \in Seq([group : [lids : LidsSet, cases : Seq(CaseSet)], weight : Nat])
  /\ finished \in BOOLEAN
  /\ finished => todo = {} /\ msg.cases = <<>>

(* What has been shown does not come after what has not.                   *)
InOrder == \A s \in Shown, n \in todo : ~Precedes(Lids(n), Lids(s))

(* The group being built is the last one shown.                            *)
Current ==
  /\ msg.cases = <<>> /\ ~finished => Shown = {} /\ out = <<>>
  /\ msg.cases # <<>> =>
       /\ HoldsCasesOf(msg, msg.lids)
       /\ ShownAs(msg.lids) # {}
       /\ \A s \in Shown : Lids(s) = msg.lids \/ Precedes(Lids(s), msg.lids)

(* The groups written come before it.                                      *)
Before ==
  msg.cases # <<>> => \A a \in DOMAIN out : Precedes(out[a].group.lids, msg.lids)

IInv == InputsOK /\ TypeOK /\ InOrder /\ Current /\ Before /\ GroupedOnce

-----------------------------------------------------------------------------
(* The order of the tuples is total.                                       *)
LEMMA PrecedesIs ==
  ASSUME arity \in {2, 3}, NEW s, NEW t
  PROVE  Precedes(s, t) <=>
           \/ s[1] < t[1]
           \/ s[1] = t[1] /\ s[2] < t[2]
           \/ arity = 3 /\ s[1] = t[1] /\ s[2] = t[2] /\ s[3] < t[3]
<1>1. CASE arity = 2
  <2>1. 1..arity = {1, 2} /\ 1..(1 - 1) = {} /\ 1..(2 - 1) = {1}
    BY <1>1
  <2> QED
    BY <1>1, <2>1 DEF Precedes
<1>2. CASE arity = 3
  <2>1. 1..arity = {1, 2, 3} /\ 1..(1 - 1) = {} /\ 1..(2 - 1) = {1} /\ 1..(3 - 1) = {1, 2}
    BY <1>2
  <2> QED
    BY <1>2, <2>1 DEF Precedes
<1> QED
  BY <1>1, <1>2

LEMMA PrecedesOrder ==
  ASSUME arity \in {2, 3}, NEW s \in [1..arity -> Nat], NEW t \in [1..arity -> Nat]
  PROVE  /\ ~Precedes(s, s)
         /\ s # t => Precedes(s, t) \/ Precedes(t, s)
         /\ Precedes(s, t) => ~Precedes(t, s)
         /\ \A u \in [1..arity -> Nat] : Precedes(s, t) /\ Precedes(t, u) => Precedes(s, u)
<1>1. \A f \in [1..arity -> Nat] :
        f[1] \in Nat /\ f[2] \in Nat /\ (arity = 3 => f[3] \in Nat)
  <2> TAKE f \in [1..arity -> Nat]
  <2>1. 1 \in 1..arity /\ 2 \in 1..arity /\ (arity = 3 => 3 \in 1..arity)
    OBVIOUS
  <2> QED
    BY <2>1
<1>2. s[1] = t[1] /\ s[2] = t[2] /\ (arity = 3 => s[3] = t[3]) => s = t
  <2> SUFFICES ASSUME s[1] = t[1], s[2] = t[2], arity = 3 => s[3] = t[3] PROVE s = t
    OBVIOUS
  <2>1. \A p \in 1..arity : p = 1 \/ p = 2 \/ (arity = 3 /\ p = 3)
    OBVIOUS
  <2>2. \A p \in 1..arity : s[p] = t[p]
    BY <2>1
  <2> QED
    BY <2>2
<1>3. /\ Precedes(s, t) <=> (\/ s[1] < t[1]
                             \/ s[1] = t[1] /\ s[2] < t[2]
                             \/ arity = 3 /\ s[1] = t[1] /\ s[2] = t[2] /\ s[3] < t[3])
      /\ Precedes(t, s) <=> (\/ t[1] < s[1]
                             \/ t[1] = s[1] /\ t[2] < s[2]
                             \/ arity = 3 /\ t[1] = s[1] /\ t[2] = s[2] /\ t[3] < s[3])
      /\ Precedes(s, s) <=> (\/ s[1] < s[1]
                             \/ s[1] = s[1] /\ s[2] < s[2]
                             \/ arity = 3 /\ s[1] = s[1] /\ s[2] = s[2] /\ s[3] < s[3])
  BY PrecedesIs
<1>n. /\ s[1] \in Nat /\ s[2] \in Nat /\ (arity = 3 => s[3] \in Nat)
      /\ t[1] \in Nat /\ t[2] \in Nat /\ (arity = 3 => t[3] \in Nat)
  BY <1>1
<1>4. ASSUME s # t PROVE Precedes(s, t) \/ Precedes(t, s)
  <2>1. CASE s[1] # t[1]
    BY <1>3, <1>n, <2>1
  <2>2. CASE s[1] = t[1] /\ s[2] # t[2]
    BY <1>3, <1>n, <2>2
  <2>3. CASE s[1] = t[1] /\ s[2] = t[2]
    <3>1. arity = 3 /\ s[3] # t[3]
      BY <1>2, <1>4, <2>3
    <3> QED
      BY <1>3, <1>n, <2>3, <3>1
  <2> QED
    BY <2>1, <2>2, <2>3
<1>5. ASSUME Precedes(s, t), Precedes(t, s) PROVE FALSE
  <2>1. CASE s[1] < t[1]
    BY <1>3, <1>n, <1>5, <2>1
  <2>2. CASE s[1] = t[1] /\ s[2] < t[2]
    BY <1>3, <1>n, <1>5, <2>2
  <2>3. CASE arity = 3 /\ s[1] = t[1] /\ s[2] = t[2] /\ s[3] < t[3]
    BY <1>3, <1>n, <1>5, <2>3
  <2> QED
    BY <1>3, <1>5, <2>1, <2>2, <2>3
<1>6. ASSUME NEW u \in [1..arity -> Nat], Precedes(s, t), Precedes(t, u) PROVE Precedes(s, u)
  <2>1. \/ s[1] < t[1]
        \/ s[1] = t[1] /\ s[2] < t[2]
        \/ arity = 3 /\ s[1] = t[1] /\ s[2] = t[2] /\ s[3] < t[3]
    BY <1>6, PrecedesIs
  <2>2. \/ t[1] < u[1]
        \/ t[1] = u[1] /\ t[2] < u[2]
        \/ arity = 3 /\ t[1] = u[1] /\ t[2] = u[2] /\ t[3] < u[3]
    BY <1>6, PrecedesIs
  <2>3. \/ s[1] < u[1]
        \/ s[1] = u[1] /\ s[2] < u[2]
        \/ arity = 3 /\ s[1] = u[1] /\ s[2] = u[2] /\ s[3] < u[3]
    BY <1>1, <2>1, <2>2
  <2> QED
    BY <2>3, PrecedesIs
<1>7. ~Precedes(s, s)
  BY <1>1, <1>3
<1> QED
  BY <1>4, <1>5, <1>6, <1>7

-----------------------------------------------------------------------------
LEMMA Triples ==
  ASSUME NEW A, NEW B, NEW C, IsFiniteSet(A), IsFiniteSet(B), IsFiniteSet(C)
  PROVE  /\ IsFiniteSet(A \X B \X C)
         /\ Cardinality(A \X B \X C) = Cardinality(A) * Cardinality(B) * Cardinality(C)
<1> DEFINE D == A \X B
           P == D \X C
           T == A \X B \X C
           h == [x \in P |-> <<x[1][1], x[1][2], x[2]>>]
<1>1. IsFiniteSet(D) /\ Cardinality(D) = Cardinality(A) * Cardinality(B)
  BY FS_Product
<1>2. h \in [P -> T]
  OBVIOUS
<1>3. \A x, y \in P : h[x] = h[y] => x = y
  OBVIOUS
<1>4. \A z \in T : \E x \in P : h[x] = z
  <2> TAKE z \in T
  <2>1. <<<<z[1], z[2]>>, z[3]>> \in P /\ h[<<<<z[1], z[2]>>, z[3]>>] = z
    OBVIOUS
  <2> QED
    BY <2>1
<1> HIDE DEF D
<1>5. IsFiniteSet(P) /\ Cardinality(P) = Cardinality(D) * Cardinality(C)
  BY <1>1, FS_Product
<1> HIDE DEF h, P, T
<1>6. h \in Surjection(P, T)
  BY <1>2, <1>4 DEF Surjection
<1>7. h \in Injection(P, T)
  BY <1>2, <1>3 DEF Injection, IsInjective
<1>8. IsFiniteSet(T) /\ Cardinality(T) = Cardinality(P)
  BY <1>5, <1>6, <1>7, FS_Surjection
<1> QED
  BY <1>1, <1>5, <1>8 DEF T

(* The extended messages.                                                  *)
LEMMA ReadingsAre ==
  ASSUME InputsOK, NEW g \in DOMAIN grams
  PROVE  /\ IsFiniteSet(Readings(g, lems))
         /\ \A c \in Readings(g, lems) : \A p \in 1..arity : c[p] \in DOMAIN lems[g[p]]
         /\ \A p \in 1..arity : g[p] \in DOMAIN uni
<1>1. arity \in {2, 3} /\ \A p \in 1..arity : g[p] \in DOMAIN uni
  BY DEF InputsOK
<1>2. \A w \in DOMAIN uni : IsFiniteSet(DOMAIN lems[w])
  <2> TAKE w \in DOMAIN uni
  <2> DEFINE k == Len(lems[w])
  <2>1. k \in Nat /\ DOMAIN lems[w] = 1..k
    BY DEF InputsOK
  <2> HIDE DEF k
  <2> QED
    BY <2>1, FS_Interval
<1>3. g[1] \in DOMAIN uni /\ g[2] \in DOMAIN uni /\ (arity = 3 => g[3] \in DOMAIN uni)
  <2>1. 1 \in 1..arity /\ 2 \in 1..arity /\ (arity = 3 => 3 \in 1..arity)
    BY <1>1
  <2> QED
    BY <1>1, <2>1
<1> DEFINE A == DOMAIN lems[g[1]]
           B == DOMAIN lems[g[2]]
           C == DOMAIN lems[g[3]]
<1>4. IsFiniteSet(A) /\ IsFiniteSet(B) /\ (arity = 3 => IsFiniteSet(C))
  BY <1>2, <1>3
<1>5. CASE arity = 2
  <2>1. Readings(g, lems) = A \X B
    BY <1>5 DEF Readings
  <2>2. IsFiniteSet(A \X B)
    <3> HIDE DEF A, B
    <3> QED
      BY <1>4, FS_Product
  <2>3. \A p \in 1..arity : p = 1 \/ p = 2
    BY <1>5
  <2>4. \A c \in A \X B : c[1] \in A /\ c[2] \in B
    OBVIOUS
  <2> QED
    BY <1>1, <2>1, <2>2, <2>3, <2>4
<1>6. CASE arity = 3
  <2>1. Readings(g, lems) = A \X B \X C
    BY <1>6 DEF Readings
  <2>2. IsFiniteSet(A \X B \X C)
    <3> HIDE DEF A, B, C
    <3> QED
      BY <1>4, <1>6, Triples
  <2>3. \A p \in 1..arity : p = 1 \/ p = 2 \/ p = 3
    BY <1>6
  <2>4. \A c \in A \X B \X C : c[1] \in A /\ c[2] \in B /\ c[3] \in C
    OBVIOUS
  <2> QED
    BY <1>1, <2>1, <2>2, <2>3, <2>4
<1> QED
  BY <1>1, <1>5, <1>6

LEMMA MessagesAre ==
  ASSUME InputsOK
  PROVE  /\ IsFiniteSet(Msgs)
         /\ \A m \in Msgs : /\ m[1] \in DOMAIN grams /\ m[2] \in Readings(m[1], lems)
                            /\ m = <<m[1], m[2]>>
                            /\ Lids(m) \in LidsSet /\ Lids(m) \in [1..arity -> Nat]
                            /\ Case(m) \in CaseSet
         /\ \A g \in DOMAIN grams : \A c \in Readings(g, lems) : <<g, c>> \in Msgs
<1> DEFINE Row(g) == {g} \X Readings(g, lems)
           Rows == {Row(g) : g \in DOMAIN grams}
           h == [g \in DOMAIN grams |-> Row(g)]
<1>1. Msgs = UNION Rows
  BY DEF Msgs, Extended
<1>2. \A g \in DOMAIN grams : IsFiniteSet(Row(g))
  BY ReadingsAre, FS_Singleton, FS_Product
<1>3. h \in Surjection(DOMAIN grams, Rows)
  BY DEF Surjection
<1>4. IsFiniteSet(Rows)
  <2>1. IsFiniteSet(DOMAIN grams)
    BY DEF InputsOK
  <2> HIDE DEF h, Rows
  <2> QED
    BY <2>1, <1>3, FS_Surjection
<1>5. \A R \in Rows : IsFiniteSet(R)
  BY <1>2
<1>6. IsFiniteSet(Msgs)
  <2> HIDE DEF Rows
  <2> QED
    BY <1>1, <1>4, <1>5, FS_UNION
<1>7. ASSUME NEW m \in Msgs
      PROVE  m[1] \in DOMAIN grams /\ m[2] \in Readings(m[1], lems) /\ m = <<m[1], m[2]>>
  <2>1. PICK g \in DOMAIN grams : m \in {g} \X Readings(g, lems)
    BY <1>1, <1>7
  <2> QED
    BY <2>1
<1>8. \A g \in DOMAIN grams : \A c \in Readings(g, lems) : <<g, c>> \in Msgs
  BY <1>1
<1>9. ASSUME NEW m \in Msgs PROVE Lids(m) \in LidsSet /\ Case(m) \in CaseSet
  <2>1. m[1] \in DOMAIN grams /\ m[2] \in Readings(m[1], lems)
    BY <1>7
  <2>2. \A p \in 1..arity : m[1][p] \in DOMAIN uni /\ m[2][p] \in DOMAIN lems[m[1][p]]
    BY <2>1, ReadingsAre
  <2>3. \A w \in DOMAIN uni : \A i \in DOMAIN lems[w] : lems[w][i] \in Lem
    BY DEF InputsOK
  <2>4. \A p \in 1..arity : lems[m[1][p]][m[2][p]] \in Lem
    BY <2>2, <2>3
  <2>5. grams[m[1]] \in Nat
    BY <2>1 DEF InputsOK
  <2> QED
    BY <2>1, <2>4, <2>5 DEF Lids, LidsSet, Case, CaseSet
<1>10. \A m \in Msgs : Lids(m) \in [1..arity -> Nat]
  BY <1>9, GroupLemAssumption DEF LidsSet
<1> QED
  BY <1>6, <1>7, <1>8, <1>9, <1>10

-----------------------------------------------------------------------------
(* The cases of a group match a set of messages: adding a message to both  *)
(* keeps the match.                                                        *)
Match(gr, cases, S) ==
  /\ Len(cases) = Cardinality(S)
  /\ \A g \in DOMAIN gr :
       Cardinality({i \in DOMAIN cases : cases[i] = [wids |-> g, count |-> gr[g]]})
         = Cardinality({m \in S : m[1] = g})

LEMMA OneMore ==
  ASSUME NEW S, IsFiniteSet(S), NEW x, x \notin S
  PROVE  /\ IsFiniteSet(S \cup {x}) /\ Cardinality(S) \in Nat
         /\ Cardinality(S \cup {x}) = Cardinality(S) + 1
  BY FS_AddElement, FS_CardinalityType

LEMMA MatchOne ==
  ASSUME NEW gr, NEW cases \in Seq(CaseSet), NEW S, IsFiniteSet(S),
         Match(gr, cases, S),
         NEW m, m \notin S, NEW case \in CaseSet, case = [wids |-> m[1], count |-> gr[m[1]]]
  PROVE  Match(gr, Append(cases, case), S \cup {m})
<1> DEFINE k == Len(cases)
           more == Append(cases, case)
           At(c, g) == {i \in DOMAIN c : c[i] = [wids |-> g, count |-> gr[g]]}
           Of(T, g) == {x \in T : x[1] = g}
<1>1. /\ k \in Nat /\ DOMAIN cases = 1..k /\ Len(more) = k + 1 /\ DOMAIN more = 1..(k + 1)
      /\ \A i \in 1..k : more[i] = cases[i]
      /\ more[k + 1] = case
  OBVIOUS
<1>2. Len(more) = Cardinality(S \cup {m})
  BY <1>1, OneMore DEF Match
<1>3. ASSUME NEW g \in DOMAIN gr PROVE Cardinality(At(more, g)) = Cardinality(Of(S \cup {m}, g))
  <2>1. IsFiniteSet(At(cases, g)) /\ k + 1 \notin At(cases, g)
    <3>1. IsFiniteSet(1..k) /\ At(cases, g) \subseteq 1..k
      BY <1>1, FS_Interval
    <3> HIDE DEF k, At
    <3>2. k + 1 \notin 1..k
      BY <1>1
    <3> QED
      BY <3>1, <3>2, FS_Subset
  <2>2. IsFiniteSet(Of(S, g)) /\ m \notin Of(S, g)
    BY FS_Subset
  <2>3. Cardinality(At(cases, g)) = Cardinality(Of(S, g))
    BY DEF Match
  <2>4. CASE m[1] = g
    <3>1. At(more, g) = At(cases, g) \cup {k + 1}
      <4> HIDE DEF k, more
      <4> QED
        BY <1>1, <2>4
    <3>2. Of(S \cup {m}, g) = Of(S, g) \cup {m}
      BY <2>4
    <3> HIDE DEF At, Of, k, more
    <3>3. Cardinality(At(cases, g) \cup {k + 1}) = Cardinality(At(cases, g)) + 1
      BY <2>1, OneMore
    <3>4. Cardinality(Of(S, g) \cup {m}) = Cardinality(Of(S, g)) + 1
      BY <2>2, OneMore
    <3> QED
      BY <2>3, <3>1, <3>2, <3>3, <3>4
  <2>5. CASE m[1] # g
    <3>1. At(more, g) = At(cases, g)
      <4>1. case # [wids |-> g, count |-> gr[g]]
        BY <2>5
      <4> HIDE DEF k, more
      <4> QED
        BY <1>1, <4>1
    <3>2. Of(S \cup {m}, g) = Of(S, g)
      BY <2>5
    <3> QED
      BY <2>3, <3>1, <3>2
  <2> QED
    BY <2>4, <2>5
<1> QED
  BY <1>2, <1>3 DEF Match

LEMMA MatchFirst ==
  ASSUME NEW gr, NEW m, NEW case \in CaseSet, case = [wids |-> m[1], count |-> gr[m[1]]]
  PROVE  Match(gr, <<case>>, {m})
<1> DEFINE At(c, g) == {i \in DOMAIN c : c[i] = [wids |-> g, count |-> gr[g]]}
           none == << >>
<1>1. none \in Seq(CaseSet) /\ Append(none, case) = <<case>> /\ Len(none) = 0 /\ DOMAIN none = {}
  OBVIOUS
<1>2. Match(gr, none, {})
  <2>1. \A g \in DOMAIN gr : At(none, g) = {} /\ {x \in {} : x[1] = g} = {}
    BY <1>1
  <2> QED
    BY <1>1, <2>1, FS_EmptySet DEF Match
<1> HIDE DEF none
<1>3. Match(gr, Append(none, case), {} \cup {m})
  <2>1. IsFiniteSet({}) /\ m \notin {}
    BY FS_EmptySet
  <2> QED
    BY <1>1, <1>2, <2>1, MatchOne
<1>4. {} \cup {m} = {m}
  OBVIOUS
<1> QED
  BY <1>1, <1>3, <1>4

-----------------------------------------------------------------------------
(* The parts of the invariant in the next state of a step that leaves the  *)
(* inputs alone.                                                           *)
AsOf(t, td) == {m \in Msgs \ td : Lids(m) = t}

LEMMA Frame ==
  ASSUME UNCHANGED inputs
  PROVE  /\ InputsOK => InputsOK'
         /\ Msgs' = Msgs /\ LidsSet' = LidsSet /\ CaseSet' = CaseSet
         /\ InOrder' <=> \A s \in Msgs \ todo', n \in todo' : ~Precedes(Lids(n), Lids(s))
         /\ Before' <=> (msg'.cases # <<>> =>
                           \A a \in DOMAIN out' : Precedes(out'[a].group.lids, msg'.lids))
<1> USE DEF inputs
<1>1. InputsOK => InputsOK'
  BY DEF InputsOK, LemWeights, Times
<1>2. Msgs' = Msgs /\ LidsSet' = LidsSet /\ CaseSet' = CaseSet
  BY DEF Msgs, Extended, Readings, LidsSet, CaseSet
<1>3. Shown' = Msgs \ todo'
  BY DEF Shown, Msgs, Extended, Readings
<1>4. InOrder' <=> \A s \in Msgs \ todo', n \in todo' : ~Precedes(Lids(n), Lids(s))
  BY <1>3 DEF InOrder, Precedes, Lids
<1>5. Before' <=> (msg'.cases # <<>> =>
                     \A a \in DOMAIN out' : Precedes(out'[a].group.lids, msg'.lids))
  BY DEF Before, Precedes
<1> QED
  BY <1>1, <1>2, <1>4, <1>5

LEMMA FrameGroups ==
  ASSUME UNCHANGED inputs
  PROVE  /\ GroupedOnce' <=>
              /\ \A a, b \in DOMAIN out' :
                   a < b => Precedes(out'[a].group.lids, out'[b].group.lids)
              /\ \A a \in DOMAIN out' :
                   Match(grams, out'[a].group.cases, AsOf(out'[a].group.lids, todo'))
              /\ msg'.cases # <<>> => Match(grams, msg'.cases, AsOf(msg'.lids, todo'))
         /\ Current' <=>
              /\ msg'.cases = <<>> /\ ~finished' => Msgs \ todo' = {} /\ out' = <<>>
              /\ msg'.cases # <<>> =>
                   /\ Match(grams, msg'.cases, AsOf(msg'.lids, todo'))
                   /\ AsOf(msg'.lids, todo') # {}
                   /\ \A s \in Msgs \ todo' : Lids(s) = msg'.lids \/ Precedes(Lids(s), msg'.lids)
<1> USE DEF inputs
<1>1. Shown' = Msgs \ todo'
  BY DEF Shown, Msgs, Extended, Readings
<1>2. \A t : AsOf(t, todo') = {m \in Msgs \ todo' : Lids(m) = t}
  BY DEF AsOf
<1>3. \A group, t : HoldsCasesOf(group, t)' <=> Match(grams, group.cases, AsOf(t, todo'))
  <2> TAKE group, t
  <2>1. ShownAs(t)' = AsOf(t, todo')
    BY <1>1, <1>2 DEF ShownAs, Lids
  <2>2. /\ ShownAs(t)' = AsOf(t, todo') /\ grams' = grams
        /\ HoldsCasesOf(group, t)' <=>
             /\ Len(group.cases) = Cardinality(ShownAs(t)')
             /\ \A g \in DOMAIN grams' :
                  Cardinality({i \in DOMAIN group.cases :
                                 group.cases[i] = [wids |-> g, count |-> grams'[g]]})
                    = Cardinality({m \in ShownAs(t)' : m[1] = g})
    BY <2>1 DEF HoldsCasesOf
  <2> QED
    BY <2>2 DEF Match
<1>4. \A s, t : Precedes(s, t)' <=> Precedes(s, t)
  BY DEF Precedes
<1>5. \A m : Lids(m)' = Lids(m)
  BY DEF Lids
<1>6. GroupedOnce' <=>
         /\ \A a, b \in DOMAIN out' :
              a < b => Precedes(out'[a].group.lids, out'[b].group.lids)
         /\ \A a \in DOMAIN out' :
              Match(grams, out'[a].group.cases, AsOf(out'[a].group.lids, todo'))
         /\ msg'.cases # <<>> => Match(grams, msg'.cases, AsOf(msg'.lids, todo'))
  BY <1>3, <1>4 DEF GroupedOnce
<1>7. Current' <=>
         /\ msg'.cases = <<>> /\ ~finished' => Msgs \ todo' = {} /\ out' = <<>>
         /\ msg'.cases # <<>> =>
              /\ Match(grams, msg'.cases, AsOf(msg'.lids, todo'))
              /\ AsOf(msg'.lids, todo') # {}
              /\ \A s \in Msgs \ todo' : Lids(s) = msg'.lids \/ Precedes(Lids(s), msg'.lids)
  BY <1>1, <1>2, <1>3, <1>4, <1>5 DEF Current, ShownAs
<1> QED
  BY <1>6, <1>7

(* The same in the state itself.                                           *)
LEMMA GroupsNow ==
  /\ \A t : ShownAs(t) = AsOf(t, todo)
  /\ GroupedOnce <=>
       /\ \A a, b \in DOMAIN out : a < b => Precedes(out[a].group.lids, out[b].group.lids)
       /\ \A a \in DOMAIN out : Match(grams, out[a].group.cases, AsOf(out[a].group.lids, todo))
       /\ msg.cases # <<>> => Match(grams, msg.cases, AsOf(msg.lids, todo))
  /\ Shown = Msgs \ todo
<1>1. Shown = Msgs \ todo /\ \A t : ShownAs(t) = AsOf(t, todo)
  BY DEF ShownAs, Shown, Msgs, AsOf
<1> QED
  BY <1>1 DEF GroupedOnce, HoldsCasesOf, Match

-----------------------------------------------------------------------------
(* A share is exact: Scale is a multiple of every product of homonym       *)
(* counts.                                                                 *)
LEMMA ExactQuotient ==
  ASSUME NEW a \in Nat, NEW b \in Nat \ {0}
  PROVE  (a * b) \div b = a
<1>1. (a * b) \div b \in Nat /\ b * ((a * b) \div b) <= a * b /\ a * b < b * ((a * b) \div b) + b
  <2>1. a * b \in Nat
    OBVIOUS
  <2> DEFINE c == a * b
  <2> HIDE DEF c
  <2>2. c \in Nat => c \div b \in Nat /\ b * (c \div b) <= c /\ c < b * (c \div b) + b
    BY SMT
  <2> QED
    BY <2>1, <2>2 DEF c
<1> DEFINE q == (a * b) \div b
<1> HIDE DEF q
<1>2. q \in Nat /\ b * q <= a * b /\ a * b < b * q + b
  BY <1>1 DEF q
<1>3. q = a
  BY <1>2, SMT
<1> QED
  BY <1>3 DEF q

Lengths(g) == [p \in 1..arity |-> Len(lems[g[p]])]

LEMMA LengthsAre ==
  ASSUME InputsOK, NEW g \in DOMAIN grams
  PROVE  /\ g[1] \in DOMAIN uni /\ g[2] \in DOMAIN uni /\ (arity = 3 => g[3] \in DOMAIN uni)
         /\ \A p \in 1..arity : Lengths(g)[p] = Len(lems[g[p]]) /\ Lengths(g)[p] \in Nat \ {0}
         /\ Product(Lengths(g)) \in Nat \ {0}
         /\ \E k \in Nat \ {0} : Scale = k * Product(Lengths(g))
<1>1. arity \in {2, 3} /\ 1 \in 1..arity /\ 2 \in 1..arity /\ (arity = 3 => 3 \in 1..arity)
  BY DEF InputsOK
<1>2. \A p \in 1..arity : g[p] \in DOMAIN uni
  BY ReadingsAre
<1>3. \A w \in DOMAIN uni : Len(lems[w]) \in Nat \ {0}
  BY DEF InputsOK
<1>4. \A p \in 1..arity : Lengths(g)[p] = Len(lems[g[p]]) /\ Lengths(g)[p] \in Nat \ {0}
  BY <1>2, <1>3 DEF Lengths
<1> DEFINE a == Len(lems[g[1]])
           b == Len(lems[g[2]])
           c == IF arity = 3 THEN Len(lems[g[3]]) ELSE b
<1>5. a \in Nat \ {0} /\ b \in Nat \ {0} /\ c \in Nat \ {0}
  BY <1>1, <1>2, <1>3
<1>6. \E k \in 1..Scale : Scale = k * (a * b * c)
  <2>1. g[1] \in DOMAIN lems /\ g[2] \in DOMAIN lems /\ (arity = 3 => g[3] \in DOMAIN lems)
    BY <1>1, <1>2 DEF InputsOK
  <2>2. \A x, y, z \in DOMAIN lems :
          \E k \in 1..Scale : Scale = k * (Len(lems[x]) * Len(lems[y]) * Len(lems[z]))
    BY DEF InputsOK
  <2> DEFINE z == IF arity = 3 THEN g[3] ELSE g[2]
  <2>3. z \in DOMAIN lems /\ Len(lems[z]) = c
    BY <1>1, <2>1
  <2>4. \E k \in 1..Scale : Scale = k * (Len(lems[g[1]]) * Len(lems[g[2]]) * Len(lems[z]))
    <3> HIDE DEF z
    <3> QED
      BY <2>1, <2>2, <2>3
  <2> QED
    BY <2>3, <2>4
<1>7. Product(Lengths(g)) = IF arity = 2 THEN a * b ELSE a * b * c
  BY <1>1, <1>4 DEF Product
<1> HIDE DEF a, b, c
<1>8. PICK k \in 1..Scale : Scale = k * (a * b * c)
  BY <1>6
<1>9. k \in Nat \ {0}
  BY GroupLemAssumption
<1>10. a * b \in Nat \ {0} /\ a * b * c \in Nat \ {0} /\ k * c \in Nat \ {0}
  <2>1. \A x, y \in Nat \ {0} : x * y \in Nat \ {0}
    BY SMT
  <2> QED
    BY <2>1, <1>5, <1>9
<1>11. k * (a * b * c) = (k * c) * (a * b)
  BY <1>5, <1>9, SMT
<1>12. Product(Lengths(g)) \in Nat \ {0}
  BY <1>7, <1>10
<1>13. \E d \in Nat \ {0} : Scale = d * Product(Lengths(g))
  BY <1>7, <1>8, <1>9, <1>10, <1>11
<1> QED
  BY <1>1, <1>2, <1>4, <1>12, <1>13

(* What one message of a word tuple weighs.                                *)
Unit(g) == (Scale * grams[g]) \div Product(Lengths(g))

LEMMA SharesAre ==
  ASSUME InputsOK, NEW g \in DOMAIN grams
  PROVE  /\ Unit(g) \in Nat \ {0}
         /\ Unit(g) * Product(Lengths(g)) = Scale * grams[g]
         /\ \A n \in Nat : (Scale * grams[g] * n) \div Product(Lengths(g)) = Unit(g) * n
         /\ \A m \in Msgs : m[1] = g => Share(m) = Unit(g)
<1> DEFINE L == Product(Lengths(g))
           n == grams[g]
<1>1. L \in Nat \ {0}
  BY LengthsAre
<1>2. PICK k \in Nat \ {0} : Scale = k * L
  BY LengthsAre
<1>3. n \in Nat \ {0}
  BY DEF InputsOK
<1>4. \A m \in Msgs : m[1] = g => Share(m) = Unit(g)
  BY DEF Share, Unit, Lengths
<1>5. Unit(g) = (Scale * n) \div L
  BY DEF Unit
<1> HIDE DEF L, n
<1>6. k * n \in Nat \ {0} /\ Scale * n = (k * n) * L
  BY <1>1, <1>2, <1>3, SMT
<1>7. Unit(g) = k * n
  BY <1>1, <1>5, <1>6, ExactQuotient
<1>8. ASSUME NEW i \in Nat PROVE (Scale * n * i) \div L = Unit(g) * i
  <2>1. k * n * i \in Nat /\ Scale * n * i = (k * n * i) * L
    BY <1>1, <1>2, <1>3, SMT
  <2> QED
    BY <1>1, <1>7, <2>1, ExactQuotient
<1> QED
  BY <1>4, <1>6, <1>7, <1>8 DEF L, n

-----------------------------------------------------------------------------
(* The message m that a turn takes from the queue.                         *)
LEMMA Taken ==
  ASSUME IInv, UNCHANGED inputs, NEW m \in Tops, todo' = todo \ {m}
  PROVE  /\ m \in todo /\ m \in Msgs /\ m \notin Shown /\ ~finished
         /\ Msgs \ todo' = Shown \cup {m} /\ todo' \subseteq Msgs'
         /\ InOrder'
         /\ \A s \in Shown : ~Precedes(Lids(m), Lids(s))
         /\ \A t : t # Lids(m) => AsOf(t, todo') = AsOf(t, todo)
         /\ AsOf(Lids(m), todo') = AsOf(Lids(m), todo) \cup {m}
         /\ m \notin AsOf(Lids(m), todo)
         /\ \A t : IsFiniteSet(AsOf(t, todo))
<1>1. m \in todo /\ todo \subseteq Msgs /\ ~finished
  BY DEF IInv, TypeOK, Tops
<1>2. Shown = Msgs \ todo /\ Msgs' = Msgs
  BY GroupsNow, Frame
<1>3. m \notin Shown /\ Msgs \ todo' = Shown \cup {m} /\ todo' \subseteq Msgs'
  BY <1>1, <1>2
<1>4. \A s \in Shown : ~Precedes(Lids(m), Lids(s))
  BY <1>1 DEF IInv, InOrder
<1>5. InOrder'
  <2>1. \A n \in todo' : ~Precedes(Lids(n), Lids(m))
    BY DEF Tops
  <2>2. \A s \in Shown, n \in todo' : ~Precedes(Lids(n), Lids(s))
    BY DEF IInv, InOrder
  <2>3. \A s \in Msgs \ todo', n \in todo' : ~Precedes(Lids(n), Lids(s))
    BY <1>3, <2>1, <2>2
  <2> QED
    BY <2>3, Frame
<1>6. \A t : t # Lids(m) => AsOf(t, todo') = AsOf(t, todo)
  BY <1>1 DEF AsOf
<1>7. AsOf(Lids(m), todo') = AsOf(Lids(m), todo) \cup {m} /\ m \notin AsOf(Lids(m), todo)
  BY <1>1 DEF AsOf
<1>8. \A t : IsFiniteSet(AsOf(t, todo))
  BY MessagesAre, FS_Subset DEF AsOf, IInv
<1> QED
  BY <1>1, <1>3, <1>4, <1>5, <1>6, <1>7, <1>8

(* A case is added to the group of its tuple, which is above all groups    *)
(* written; only the first message of the loop comes to an empty msg.      *)
LEMMA AddedTo ==
  ASSUME IInv, NEW m \in todo, AddCase(m)
  PROVE  /\ \/ msg.cases # <<>> /\ msg.lids = Lids(m)
            \/ msg.cases = <<>> /\ Shown = {} /\ out = <<>> /\ AsOf(Lids(m), todo) = {}
         /\ \A a \in DOMAIN out : /\ Precedes(out[a].group.lids, Lids(m))
                                 /\ out[a].group.lids # Lids(m)
<1>1. UNCHANGED inputs /\ m \in Tops /\ todo' = todo \ {m} /\ (SameGroup(m) \/ msg.cases = <<>>)
  BY DEF AddCase
<1>2. m \in Msgs /\ ~finished
  BY <1>1, Taken
<1>3. \/ msg.cases # <<>> /\ msg.lids = Lids(m)
      \/ msg.cases = <<>> /\ Shown = {} /\ out = <<>> /\ AsOf(Lids(m), todo) = {}
  BY <1>1, <1>2, GroupsNow DEF SameGroup, IInv, Current, AsOf
<1>4. \A a \in DOMAIN out : Precedes(out[a].group.lids, Lids(m))
  BY <1>3 DEF IInv, Before
<1>5. ~Precedes(Lids(m), Lids(m))
  BY <1>2, MessagesAre, PrecedesOrder DEF IInv, InputsOK
<1> QED
  BY <1>3, <1>4, <1>5

LEMMA AddCaseStep ==
  ASSUME IInv, NEW m \in todo, AddCase(m)
  PROVE  IInv'
<1> DEFINE t == Lids(m)
<1>1. /\ UNCHANGED inputs /\ m \in Tops /\ todo' = todo \ {m}
      /\ msg' = [lids |-> t, cases |-> Append(msg.cases, Case(m))]
      /\ weight' = weight + Share(m) /\ out' = out /\ finished' = finished
      /\ SameGroup(m) \/ msg.cases = <<>>
  BY DEF AddCase
<1>2. /\ m \in Msgs /\ m \notin Shown /\ ~finished
      /\ Msgs \ todo' = Shown \cup {m} /\ todo' \subseteq Msgs'
      /\ InOrder'
      /\ \A u : u # t => AsOf(u, todo') = AsOf(u, todo)
      /\ AsOf(t, todo') = AsOf(t, todo) \cup {m} /\ m \notin AsOf(t, todo)
      /\ \A u : IsFiniteSet(AsOf(u, todo))
  BY <1>1, Taken
<1>3. /\ t \in LidsSet /\ t \in [1..arity -> Nat] /\ Case(m) \in CaseSet
      /\ m[1] \in DOMAIN grams /\ Case(m) = [wids |-> m[1], count |-> grams[m[1]]]
  BY <1>2, MessagesAre DEF IInv, Case
<1>4. InputsOK' /\ LidsSet' = LidsSet /\ CaseSet' = CaseSet
  BY <1>1, Frame DEF IInv
<1>5. msg \in [lids : [1..arity -> Nat], cases : Seq(CaseSet)] /\ arity' = arity
  BY <1>1 DEF IInv, TypeOK, inputs
<1>6. /\ msg.cases \in Seq(CaseSet) /\ msg'.cases \in Seq(CaseSet)
      /\ msg'.cases # <<>> /\ msg'.lids = t
      /\ msg' \in [lids : [1..arity -> Nat], cases : Seq(CaseSet)]
  <2> DEFINE cs == Append(msg.cases, Case(m))
  <2>1. msg.cases \in Seq(CaseSet)
    BY <1>5
  <2>2. cs \in Seq(CaseSet) /\ cs # <<>>
    BY <1>3, <2>1
  <2>3. msg' = [lids |-> t, cases |-> cs]
    BY <1>1
  <2> HIDE DEF cs, t
  <2>4. msg'.lids = t /\ msg'.cases = cs
    BY <2>3
  <2>5. msg' \in [lids : [1..arity -> Nat], cases : Seq(CaseSet)]
    BY <1>3, <2>2, <2>3
  <2> QED
    BY <2>1, <2>2, <2>4, <2>5
<1>7. TypeOK'
  <2>1. weight' \in Nat
    <3>1. Share(m) \in Nat
      BY <1>2, <1>3, SharesAre DEF IInv
    <3> QED
      BY <1>1, <3>1 DEF IInv, TypeOK
  <2>2. out' \in Seq([group : [lids : LidsSet', cases : Seq(CaseSet')], weight : Nat])
    BY <1>1, <1>4 DEF IInv, TypeOK
  <2>3. msg' \in [lids : [1..arity' -> Nat], cases : Seq(CaseSet')] /\ msg'.lids \in LidsSet'
    BY <1>3, <1>4, <1>5, <1>6
  <2>4. finished' \in BOOLEAN /\ ~finished'
    BY <1>1, <1>2 DEF IInv, TypeOK
  <2> QED
    BY <1>2, <2>1, <2>2, <2>3, <2>4 DEF TypeOK
<1>8. \/ msg.cases # <<>> /\ msg.lids = t
      \/ msg.cases = <<>> /\ Shown = {} /\ out = <<>> /\ AsOf(t, todo) = {}
  BY AddedTo
<1>9. Match(grams, msg'.cases, AsOf(t, todo'))
  <2>1. Match(grams, msg.cases, AsOf(t, todo))
    <3>1. CASE msg.cases # <<>> /\ msg.lids = t
      BY <3>1, GroupsNow DEF IInv
    <3>2. CASE msg.cases = <<>> /\ AsOf(t, todo) = {}
      <4>1. \A g : {i \in DOMAIN msg.cases : msg.cases[i] = [wids |-> g, count |-> grams[g]]} = {}
        BY <3>2
      <4>2. \A g : {n \in AsOf(t, todo) : n[1] = g} = {}
        BY <3>2
      <4>3. Len(msg.cases) = 0 /\ Cardinality(AsOf(t, todo)) = 0
        BY <3>2, FS_EmptySet
      <4> QED
        BY <4>1, <4>2, <4>3 DEF Match
    <3> QED
      BY <1>8, <3>1, <3>2
  <2>2. Match(grams, Append(msg.cases, Case(m)), AsOf(t, todo) \cup {m})
    <3> HIDE DEF t
    <3> QED
      BY <1>2, <1>3, <1>6, <2>1, MatchOne
  <2> QED
    BY <1>1, <1>2, <2>2
<1>10. \A a \in DOMAIN out : Precedes(out[a].group.lids, t) /\ out[a].group.lids # t
  BY AddedTo
<1>11. Before'
  BY <1>1, <1>6, <1>10, Frame
<1>12. Current'
  <2>1. AsOf(t, todo') # {}
    BY <1>2
  <2>2. \A s \in Shown : Lids(s) = t \/ Precedes(Lids(s), t)
    BY <1>8 DEF IInv, Current
  <2>3. \A s \in Msgs \ todo' : Lids(s) = t \/ Precedes(Lids(s), t)
    BY <1>2, <2>2
  <2> QED
    BY <1>1, <1>6, <1>9, <2>1, <2>3, FrameGroups
<1>13. GroupedOnce'
  <2>1. \A a \in DOMAIN out : Match(grams, out[a].group.cases, AsOf(out[a].group.lids, todo'))
    <3> TAKE a \in DOMAIN out
    <3> QED
      BY <1>2, <1>10, GroupsNow DEF IInv
  <2>2. \A a, b \in DOMAIN out : a < b => Precedes(out[a].group.lids, out[b].group.lids)
    BY DEF IInv, GroupedOnce
  <2> QED
    BY <1>1, <1>6, <1>9, <2>1, <2>2, FrameGroups
<1> QED
  BY <1>2, <1>4, <1>7, <1>11, <1>12, <1>13 DEF IInv

(* write_one appends msg, which is above all the groups in the file.       *)
LEMMA WrittenIs ==
  ASSUME IInv, msg.cases # <<>>
  PROVE  /\ Written \in Seq([group : [lids : LidsSet, cases : Seq(CaseSet)], weight : Nat])
         /\ \A a, b \in DOMAIN Written :
              a < b => Precedes(Written[a].group.lids, Written[b].group.lids)
         /\ \A a \in DOMAIN Written :
              Match(grams, Written[a].group.cases, AsOf(Written[a].group.lids, todo))
         /\ \A a \in DOMAIN Written : \/ Written[a].group.lids = msg.lids
                                      \/ Precedes(Written[a].group.lids, msg.lids)
<1> DEFINE r == [group |-> msg, weight |-> weight]
           k == Len(out)
           w == Append(out, r)
           R == [group : [lids : LidsSet, cases : Seq(CaseSet)], weight : Nat]
<1>1. r \in R
  BY DEF IInv, TypeOK
<1>2. /\ out \in Seq(R)
      /\ \A a, b \in DOMAIN out : a < b => Precedes(out[a].group.lids, out[b].group.lids)
      /\ \A a \in DOMAIN out : Match(grams, out[a].group.cases, AsOf(out[a].group.lids, todo))
      /\ Match(grams, msg.cases, AsOf(msg.lids, todo))
      /\ \A a \in DOMAIN out : Precedes(out[a].group.lids, msg.lids)
  BY GroupsNow DEF IInv, TypeOK, Before
<1>3. r.group = msg
  OBVIOUS
<1> HIDE DEF r, R
<1>4. /\ k \in Nat /\ DOMAIN out = 1..k /\ DOMAIN w = 1..(k + 1) /\ w[k + 1] = r
      /\ \A a \in 1..k : w[a] = out[a]
      /\ w \in Seq(R)
  BY <1>1, <1>2
<1>5. Written = out \/ Written = w
  BY DEF Written, r
<1>6. CASE Written = out
  BY <1>2, <1>6 DEF R
<1>7. CASE Written = w
  <2> HIDE DEF w, k
  <2>1. \A a \in DOMAIN w : a \in 1..k \/ a = k + 1
    BY <1>4
  <2>2. ASSUME NEW a \in DOMAIN w, NEW b \in DOMAIN w, a < b
        PROVE  Precedes(w[a].group.lids, w[b].group.lids)
    <3>1. a \in 1..k
      BY <1>4, <2>2
    <3>2. CASE b \in 1..k
      BY <1>2, <1>4, <2>2, <3>1, <3>2
    <3>3. CASE b = k + 1
      BY <1>2, <1>3, <1>4, <3>1, <3>3
    <3> QED
      BY <2>1, <3>2, <3>3
  <2>3. ASSUME NEW a \in DOMAIN w
        PROVE  /\ Match(grams, w[a].group.cases, AsOf(w[a].group.lids, todo))
               /\ w[a].group.lids = msg.lids \/ Precedes(w[a].group.lids, msg.lids)
    <3>1. CASE a \in 1..k
      BY <1>2, <1>4, <3>1
    <3>2. CASE a = k + 1
      BY <1>2, <1>3, <1>4, <3>2
    <3> QED
      BY <2>1, <3>1, <3>2
  <2> QED
    BY <1>4, <1>7, <2>2, <2>3 DEF R
<1> QED
  BY <1>5, <1>6, <1>7

(* A message of another tuple comes after the group being built, and no    *)
(* message of that group is left.                                          *)
LEMMA NextTuple ==
  ASSUME IInv, NEW m \in Tops, msg.cases # <<>>, ~SameGroup(m)
  PROVE  /\ Precedes(msg.lids, Lids(m))
         /\ \A s \in Shown : Precedes(Lids(s), Lids(m))
         /\ \A n \in todo : Lids(n) # msg.lids
<1>1. m \in todo /\ todo \subseteq Msgs /\ Shown = Msgs \ todo
  BY GroupsNow DEF IInv, TypeOK, Tops
<1>2. /\ \A n \in Msgs : Lids(n) \in [1..arity -> Nat]
      /\ msg.lids \in [1..arity -> Nat] /\ arity \in {2, 3}
  BY MessagesAre DEF IInv, InputsOK, TypeOK
<1>3. PICK s \in Shown : Lids(s) = msg.lids
  BY DEF IInv, Current, ShownAs
<1>4. ~Precedes(Lids(m), msg.lids)
  BY <1>1, <1>3 DEF IInv, InOrder
<1>5. Precedes(msg.lids, Lids(m))
  BY <1>1, <1>2, <1>4, PrecedesOrder DEF SameGroup
<1>6. ASSUME NEW x \in Shown PROVE Precedes(Lids(x), Lids(m))
  <2>1. Lids(x) = msg.lids \/ Precedes(Lids(x), msg.lids)
    BY DEF IInv, Current
  <2>2. Lids(x) \in [1..arity -> Nat] /\ Lids(m) \in [1..arity -> Nat]
    BY <1>1, <1>2
  <2>3. CASE Precedes(Lids(x), msg.lids)
    BY <1>2, <1>5, <2>2, <2>3, PrecedesOrder
  <2> QED
    BY <1>5, <2>1, <2>3
<1>7. \A n \in todo : Lids(n) # msg.lids
  <2>1. \A n \in todo : ~Precedes(Lids(n), Lids(m))
    BY DEF Tops
  <2> QED
    BY <1>5, <2>1
<1> QED
  BY <1>5, <1>6, <1>7

LEMMA NewGroupStep ==
  ASSUME IInv, NEW m \in todo, NewGroup(m)
  PROVE  IInv'
<1> DEFINE t == Lids(m)
<1>1. /\ UNCHANGED inputs /\ m \in Tops /\ todo' = todo \ {m}
      /\ msg' = [lids |-> t, cases |-> <<Case(m)>>]
      /\ weight' = Share(m) /\ out' = Written /\ finished' = finished
      /\ ~SameGroup(m) /\ msg.cases # <<>>
  BY DEF NewGroup
<1>2. /\ m \in Msgs /\ m \notin Shown /\ ~finished
      /\ Msgs \ todo' = Shown \cup {m} /\ todo' \subseteq Msgs'
      /\ InOrder'
      /\ \A u : u # t => AsOf(u, todo') = AsOf(u, todo)
      /\ AsOf(t, todo') = AsOf(t, todo) \cup {m}
  BY <1>1, Taken
<1>3. /\ t \in LidsSet /\ t \in [1..arity -> Nat] /\ Case(m) \in CaseSet
      /\ m[1] \in DOMAIN grams /\ Case(m) = [wids |-> m[1], count |-> grams[m[1]]]
  BY <1>2, MessagesAre DEF IInv, Case
<1>4. InputsOK' /\ LidsSet' = LidsSet /\ CaseSet' = CaseSet /\ arity' = arity
  BY <1>1, Frame DEF IInv, inputs
<1>5. /\ Precedes(msg.lids, t)
      /\ \A s \in Shown : Precedes(Lids(s), t)
      /\ ~Precedes(t, t)
  BY <1>1, <1>3, NextTuple, PrecedesOrder DEF IInv, InputsOK
<1>6. msg'.lids = t /\ msg'.cases = <<Case(m)>> /\ msg'.cases # <<>>
  BY <1>1
<1>7. TypeOK'
  <2>1. weight' \in Nat
    BY <1>1, <1>2, <1>3, SharesAre DEF IInv
  <2>2. out' \in Seq([group : [lids : LidsSet', cases : Seq(CaseSet')], weight : Nat])
    BY <1>1, <1>4, WrittenIs
  <2>3. msg' \in [lids : [1..arity' -> Nat], cases : Seq(CaseSet')] /\ msg'.lids \in LidsSet'
    BY <1>1, <1>3, <1>4, <1>6
  <2>4. finished' \in BOOLEAN /\ ~finished'
    BY <1>1, <1>2 DEF IInv, TypeOK
  <2> QED
    BY <1>2, <2>1, <2>2, <2>3, <2>4 DEF TypeOK
<1>8. AsOf(t, todo') = {m}
  <2>1. AsOf(t, todo) = {}
    BY <1>5, GroupsNow DEF AsOf
  <2> QED
    BY <1>2, <2>1
<1>9. Match(grams, msg'.cases, AsOf(t, todo'))
  <2>1. Match(grams, <<Case(m)>>, {m})
    BY <1>3, MatchFirst
  <2> QED
    BY <1>6, <1>8, <2>1
<1>10. \A a \in DOMAIN out' : Precedes(out'[a].group.lids, t)
  <2> SUFFICES ASSUME NEW a \in DOMAIN Written PROVE Precedes(Written[a].group.lids, t)
    BY <1>1
  <2> DEFINE u == Written[a].group.lids
  <2>1. u = msg.lids \/ Precedes(u, msg.lids)
    BY <1>1, WrittenIs
  <2>2. u \in [1..arity -> Nat] /\ msg.lids \in [1..arity -> Nat]
    <3> DEFINE W == Written
               R == [group : [lids : LidsSet, cases : Seq(CaseSet)], weight : Nat]
    <3>0. \A r \in R : r.group.lids \in LidsSet
      OBVIOUS
    <3>1. W \in Seq(R) /\ a \in DOMAIN W
      BY <1>1, WrittenIs
    <3> HIDE DEF W, R
    <3>2. W[a] \in R
      BY <3>1
    <3>3. u \in LidsSet
      BY <3>0, <3>2 DEF W
    <3> QED
      BY <3>3, GroupLemAssumption DEF LidsSet, IInv, TypeOK
  <2> HIDE DEF u
  <2>3. Precedes(u, t)
    BY <1>3, <1>5, <2>1, <2>2, PrecedesOrder DEF IInv, InputsOK
  <2> QED
    BY <2>3 DEF u
<1>11. Before'
  BY <1>1, <1>6, <1>10, Frame
<1>12. Current'
  <2>1. \A s \in Msgs \ todo' : Lids(s) = t \/ Precedes(Lids(s), t)
    BY <1>2, <1>5
  <2> QED
    BY <1>1, <1>6, <1>8, <1>9, <2>1, FrameGroups
<1>13. GroupedOnce'
  <2>1. \A a \in DOMAIN out' : Match(grams, out'[a].group.cases, AsOf(out'[a].group.lids, todo'))
    <3> TAKE a \in DOMAIN out'
    <3>1. out'[a].group.lids # t
      BY <1>5, <1>10
    <3>2. Match(grams, out'[a].group.cases, AsOf(out'[a].group.lids, todo))
      BY <1>1, WrittenIs
    <3> QED
      BY <1>2, <3>1, <3>2
  <2>2. \A a, b \in DOMAIN out' : a < b => Precedes(out'[a].group.lids, out'[b].group.lids)
    BY <1>1, WrittenIs
  <2> QED
    BY <1>1, <1>6, <1>9, <2>1, <2>2, FrameGroups
<1> QED
  BY <1>2, <1>4, <1>7, <1>11, <1>12, <1>13 DEF IInv

LEMMA FinishStep ==
  ASSUME IInv, Finish
  PROVE  IInv'
<1>1. /\ UNCHANGED inputs /\ todo = {} /\ todo' = todo /\ finished' = TRUE
      /\ out' = IF msg.cases = <<>> THEN out ELSE Written
      /\ msg' = [lids |-> [p \in 1..arity |-> 0], cases |-> <<>>] /\ weight' = 0
  BY DEF Finish, NoMsg
<1>2. InputsOK' /\ LidsSet' = LidsSet /\ CaseSet' = CaseSet /\ arity' = arity
  BY <1>1, Frame DEF IInv, inputs
<1>3. msg'.cases = <<>>
  BY <1>1
<1>4. /\ out' \in Seq([group : [lids : LidsSet, cases : Seq(CaseSet)], weight : Nat])
      /\ \A a, b \in DOMAIN out' : a < b => Precedes(out'[a].group.lids, out'[b].group.lids)
      /\ \A a \in DOMAIN out' :
           Match(grams, out'[a].group.cases, AsOf(out'[a].group.lids, todo'))
  <2>1. CASE msg.cases = <<>>
    BY <1>1, <2>1, GroupsNow DEF IInv, TypeOK
  <2>2. CASE msg.cases # <<>>
    BY <1>1, <2>2, WrittenIs
  <2> QED
    BY <2>1, <2>2
<1>5. TypeOK'
  <2>1. msg' \in [lids : [1..arity' -> Nat], cases : Seq(CaseSet')]
    BY <1>1, <1>2
  <2>2. todo' = {}
    BY <1>1
  <2> QED
    BY <1>1, <1>2, <1>3, <1>4, <2>1, <2>2 DEF TypeOK
<1>6. InOrder' /\ Before' /\ Current' /\ GroupedOnce'
  BY <1>1, <1>3, <1>4, Frame, FrameGroups
<1> QED
  BY <1>2, <1>5, <1>6 DEF IInv

LEMMA InitHolds ==
  ASSUME Init
  PROVE  IInv
<1>1. InputsOK
  <2>1. PICK job \in Jobs : /\ arity = job.arity /\ threshold = job.threshold
                            /\ uni = job.uni /\ grams = job.grams
    BY DEF Init
  <2>2. lems \in LemLists /\ DOMAIN lems = DOMAIN uni /\ lid_w = LemWeights(uni, lems)
    BY DEF Init
  <2> QED
    BY <2>1, <2>2, GroupLemAssumption, TablesAssumption, ScaleAssumption DEF InputsOK
<1>2. todo = Msgs /\ msg = NoMsg /\ weight = 0 /\ out = <<>> /\ finished = FALSE
  BY DEF Init, Msgs
<1>3. Shown = {}
  BY <1>2, GroupsNow
<1>4. TypeOK
  <2>1. msg \in [lids : [1..arity -> Nat], cases : Seq(CaseSet)] /\ msg.cases = <<>>
    BY <1>2 DEF NoMsg
  <2>2. out \in Seq([group : [lids : LidsSet, cases : Seq(CaseSet)], weight : Nat])
    BY <1>2
  <2> QED
    BY <1>2, <2>1, <2>2 DEF TypeOK
<1> QED
  BY <1>1, <1>2, <1>3, <1>4 DEF IInv, InOrder, Current, Before, GroupedOnce, NoMsg

LEMMA StutterStep ==
  ASSUME IInv, UNCHANGED vars
  PROVE  IInv'
<1>1. UNCHANGED inputs /\ todo' = todo /\ msg' = msg /\ weight' = weight /\ out' = out
      /\ finished' = finished
  BY DEF vars
<1>2. InputsOK' /\ LidsSet' = LidsSet /\ CaseSet' = CaseSet /\ Msgs' = Msgs /\ arity' = arity
  BY <1>1, Frame DEF IInv, inputs
<1>3. TypeOK'
  BY <1>1, <1>2 DEF IInv, TypeOK
<1>4. Shown = Msgs \ todo /\ \A t : ShownAs(t) = AsOf(t, todo)
  BY GroupsNow
<1>5. InOrder' /\ Before'
  BY <1>1, <1>4, Frame DEF IInv, InOrder, Before
<1>6. Current'
  <2>1. msg.cases # <<>> => /\ Match(grams, msg.cases, AsOf(msg.lids, todo))
                            /\ AsOf(msg.lids, todo) # {}
    BY <1>4, GroupsNow DEF IInv, Current
  <2> QED
    BY <1>1, <1>4, <2>1, FrameGroups DEF IInv, Current
<1>7. GroupedOnce'
  BY <1>1, FrameGroups, GroupsNow DEF IInv
<1> QED
  BY <1>2, <1>3, <1>5, <1>6, <1>7 DEF IInv

(* The inductive invariant holds throughout.                               *)
THEOREM Invariance == Spec => []IInv
<1>1. Init => IInv
  BY InitHolds
<1>2. IInv /\ [Next]_vars => IInv'
  <2> SUFFICES ASSUME IInv, [Next]_vars PROVE IInv'
    OBVIOUS
  <2>1. CASE \E m \in todo : AddCase(m)
    BY <2>1, AddCaseStep
  <2>2. CASE \E m \in todo : NewGroup(m)
    BY <2>2, NewGroupStep
  <2>3. CASE Finish
    BY <2>3, FinishStep
  <2>4. CASE UNCHANGED vars
    BY <2>4, StutterStep
  <2> QED
    BY <2>1, <2>2, <2>3, <2>4 DEF Next, Terminated
<1> QED
  BY <1>1, <1>2, PTL DEF Spec

(* A lemma tuple has one group, in the order of the tuples, with every     *)
(* word tuple that was read as it, each as often as it was.                *)
THEOREM NoGroupIsSplit == Spec => []GroupedOnce
<1>1. IInv => GroupedOnce
  BY DEF IInv
<1> QED
  BY <1>1, Invariance, PTL

-----------------------------------------------------------------------------
(* Sums.  The elements of disjoint sets are as many as their sizes' sum.   *)
LEMMA RowSize ==
  ASSUME NEW x, NEW k \in Nat
  PROVE  IsFiniteSet({x} \X (1..k)) /\ Cardinality({x} \X (1..k)) = k
<1> DEFINE S == {x}
           T == 1..k
<1>1. IsFiniteSet(S) /\ Cardinality(S) = 1
  BY FS_Singleton
<1>2. IsFiniteSet(T) /\ Cardinality(T) = k
  BY FS_Interval
<1> HIDE DEF S, T
<1>3. IsFiniteSet(S \X T) /\ Cardinality(S \X T) = Cardinality(S) * Cardinality(T)
  BY <1>1, <1>2, FS_Product
<1>4. Cardinality(S \X T) = k
  BY <1>1, <1>2, <1>3
<1> QED
  BY <1>3, <1>4 DEF S, T

LEMMA UnionFinite ==
  ASSUME NEW X, IsFiniteSet(DOMAIN X), \A g \in DOMAIN X : IsFiniteSet(X[g])
  PROVE  IsFiniteSet(UNION {X[g] : g \in DOMAIN X})
<1> DEFINE D == DOMAIN X
           P == {X[g] : g \in D}
           h == [g \in D |-> X[g]]
<1>1. h \in Surjection(D, P)
  BY DEF Surjection
<1>2. \A S \in P : IsFiniteSet(S)
  OBVIOUS
<1>3. IsFiniteSet(D)
  OBVIOUS
<1> HIDE DEF D, P, h
<1>4. IsFiniteSet(P)
  BY <1>1, <1>3, FS_Surjection
<1>5. IsFiniteSet(UNION P)
  BY <1>2, <1>4, FS_UNION
<1> QED
  BY <1>5 DEF P, D

LEMMA SumOfParts ==
  ASSUME NEW X, IsFiniteSet(DOMAIN X), \A g \in DOMAIN X : IsFiniteSet(X[g]),
         \A g, h \in DOMAIN X : g # h => X[g] \cap X[h] = {},
         NEW f, DOMAIN f = DOMAIN X, \A g \in DOMAIN X : f[g] = Cardinality(X[g])
  PROVE  /\ IsFiniteSet(UNION {X[g] : g \in DOMAIN X})
         /\ Cardinality(UNION {X[g] : g \in DOMAIN X}) = Sum(f)
<1> DEFINE D == DOMAIN X
           A == UNION {X[g] : g \in D}
           B == UNION {{g} \X (1..f[g]) : g \in D}
           N(g) == CHOOSE b : b \in Bijection(X[g], 1..f[g])
           own(x) == CHOOSE g \in D : x \in X[g]
           H == [x \in A |-> <<own(x), N(own(x))[x]>>]
<1>1. IsFiniteSet(A)
  BY UnionFinite
<1>2. \A g \in D : N(g) \in Bijection(X[g], 1..f[g])
  <2> TAKE g \in D
  <2> DEFINE S == X[g]
             k == f[g]
             T == 1..k
  <2>1. IsFiniteSet(S) /\ Cardinality(S) = k /\ k \in Nat
    BY FS_CardinalityType
  <2> HIDE DEF S, k
  <2>2. IsFiniteSet(T) /\ Cardinality(T) = k
    BY <2>1, FS_Interval
  <2> HIDE DEF T
  <2>3. ExistsBijection(S, T)
    BY <2>1, <2>2, FS_SameCardinalityBij
  <2> QED
    BY <2>3 DEF ExistsBijection, S, k, T
<1>3. \A g \in D : \A x \in X[g] : own(x) = g
  OBVIOUS
<1>4. \A x \in A : own(x) \in D /\ x \in X[own(x)]
  BY <1>3
<1> HIDE DEF N, own
<1>5. H \in [A -> B]
  <2> SUFFICES ASSUME NEW x \in A PROVE H[x] \in B
    OBVIOUS
  <2>1. own(x) \in D /\ N(own(x))[x] \in 1..f[own(x)]
    BY <1>2, <1>4 DEF Bijection, Injection, Surjection
  <2> QED
    BY <2>1
<1>6. ASSUME NEW x \in A, NEW y \in A, H[x] = H[y] PROVE x = y
  <2>1. own(x) = own(y) /\ N(own(x))[x] = N(own(x))[y]
    BY <1>6
  <2>2. own(x) \in D /\ x \in X[own(x)] /\ y \in X[own(x)]
    BY <1>4, <2>1
  <2> DEFINE g == own(x)
  <2>3. g \in D /\ x \in X[g] /\ y \in X[g] /\ N(g)[x] = N(g)[y]
    BY <2>1, <2>2
  <2> DEFINE b == N(g)
             S == X[g]
             T == 1..f[g]
  <2>4. b \in Bijection(S, T)
    BY <1>2, <2>3
  <2>5. x \in S /\ y \in S /\ b[x] = b[y]
    BY <2>3
  <2> HIDE DEF b, S, T
  <2> QED
    BY <2>4, <2>5 DEF Bijection, Injection, IsInjective
<1>7. ASSUME NEW z \in B PROVE \E x \in A : H[x] = z
  <2>1. PICK g \in D : z \in {g} \X (1..f[g])
    BY <1>7
  <2>2. z = <<g, z[2]>> /\ z[2] \in 1..f[g]
    BY <2>1
  <2>3. PICK x \in X[g] : N(g)[x] = z[2]
    BY <1>2, <2>2 DEF Bijection, Surjection
  <2>4. x \in A /\ own(x) = g
    BY <1>3, <2>3
  <2>5. H[x] = <<g, z[2]>>
    BY <2>3, <2>4
  <2> QED
    BY <2>2, <2>4, <2>5
<1>8. Sum(f) = Cardinality(B)
  BY DEF Sum
<1> HIDE DEF A, B, H, D
<1>9. H \in Bijection(A, B)
  <2>1. H \in Injection(A, B)
    BY <1>5, <1>6 DEF Injection, IsInjective
  <2>2. H \in Surjection(A, B)
    BY <1>5, <1>7 DEF Surjection
  <2> QED
    BY <2>1, <2>2 DEF Bijection
<1>10. ExistsBijection(A, B)
  BY <1>9 DEF ExistsBijection
<1>11. Cardinality(B) = Cardinality(A)
  BY <1>1, <1>10, FS_Bijection
<1> QED
  BY <1>1, <1>8, <1>11 DEF A, D

(* A sum is a number, and above zero when one of its terms is.             *)
LEMMA SumType ==
  ASSUME NEW f, IsFiniteSet(DOMAIN f), \A g \in DOMAIN f : f[g] \in Nat
  PROVE  /\ Sum(f) \in Nat
         /\ \A g \in DOMAIN f : f[g] > 0 => Sum(f) > 0
<1> DEFINE X == [g \in DOMAIN f |-> {g} \X (1..f[g])]
           A == UNION {X[g] : g \in DOMAIN X}
<1>1. \A g \in DOMAIN f : IsFiniteSet(X[g]) /\ Cardinality(X[g]) = f[g]
  BY RowSize
<1>2. \A g, h \in DOMAIN f : g # h => X[g] \cap X[h] = {}
  OBVIOUS
<1>3. DOMAIN X = DOMAIN f
  OBVIOUS
<1>4. \A g \in DOMAIN f : f[g] > 0 => <<g, 1>> \in X[g]
  OBVIOUS
<1> HIDE DEF X
<1>5. IsFiniteSet(A) /\ Cardinality(A) = Sum(f)
  BY <1>1, <1>2, <1>3, SumOfParts
<1>6. \A g \in DOMAIN f : f[g] > 0 => A # {}
  BY <1>3, <1>4
<1> HIDE DEF A
<1> QED
  BY <1>5, <1>6, FS_CardinalityType, FS_EmptySet

-----------------------------------------------------------------------------
(* The weight of a set of messages, counted in units.                      *)
UnitsOf(S) == UNION {{m} \X (1..Share(m)) : m \in S}
WeightOf(S) == Cardinality(UnitsOf(S))

(* All messages of a lemma tuple, and those of them that word tuple g has. *)
All(t) == {m \in Msgs : Lids(m) = t}
Of(t, g) == {m \in All(t) : m[1] = g}

LEMMA ShareType ==
  ASSUME InputsOK, NEW m \in Msgs
  PROVE  Share(m) \in Nat \ {0}
  BY MessagesAre, SharesAre

LEMMA UnitsFinite ==
  ASSUME InputsOK, NEW S \in SUBSET Msgs
  PROVE  /\ IsFiniteSet(UnitsOf(S)) /\ WeightOf(S) \in Nat
         /\ S # {} => WeightOf(S) > 0
<1> DEFINE X == [m \in S |-> {m} \X (1..Share(m))]
<1>1. \A m \in S : IsFiniteSet(X[m])
  <2> TAKE m \in S
  <2> DEFINE k == Share(m)
  <2>1. k \in Nat /\ X[m] = {m} \X (1..k)
    BY ShareType
  <2> HIDE DEF k, X
  <2>2. IsFiniteSet({m} \X (1..k))
    BY <2>1, RowSize
  <2> QED
    BY <2>1, <2>2
<1>2. IsFiniteSet(DOMAIN X) /\ DOMAIN X = S
  BY MessagesAre, FS_Subset
<1>3. UnitsOf(S) = UNION {X[m] : m \in DOMAIN X}
  BY DEF UnitsOf
<1>4. S # {} => UnitsOf(S) # {}
  <2> SUFFICES ASSUME NEW m \in S PROVE <<m, 1>> \in UnitsOf(S)
    OBVIOUS
  <2>1. 1 \in 1..Share(m)
    BY ShareType
  <2> QED
    BY <2>1 DEF UnitsOf
<1> HIDE DEF X
<1>5. IsFiniteSet(UnitsOf(S))
  BY <1>1, <1>2, <1>3, UnionFinite
<1> QED
  BY <1>4, <1>5, FS_CardinalityType, FS_EmptySet DEF WeightOf

LEMMA OneMoreShare ==
  ASSUME InputsOK, NEW S \in SUBSET Msgs, NEW m \in Msgs \ S
  PROVE  WeightOf(S \cup {m}) = WeightOf(S) + Share(m)
<1> DEFINE k == Share(m)
           new == {m} \X (1..k)
           old == UnitsOf(S)
<1>1. k \in Nat
  BY ShareType
<1>2. IsFiniteSet(old) /\ Cardinality(old) = WeightOf(S) /\ WeightOf(S) \in Nat
  BY UnitsFinite DEF WeightOf
<1>3. UnitsOf(S \cup {m}) = old \cup new
  BY DEF UnitsOf
<1>4. old \cap new = {}
  BY DEF UnitsOf
<1>5. IsFiniteSet(new) /\ Cardinality(new) = k
  <2> HIDE DEF k
  <2> QED
    BY <1>1, RowSize
<1>8. WeightOf(S \cup {m}) = Cardinality(old \cup new)
  BY <1>3 DEF WeightOf
<1> HIDE DEF old, new, k
<1>6. Cardinality(old \cup new) = Cardinality(old) + Cardinality(new) - Cardinality(old \cap new)
  BY <1>2, <1>5, FS_Union
<1>7. Cardinality(old \cap new) = 0
  BY <1>4, FS_EmptySet
<1> QED
  BY <1>1, <1>2, <1>5, <1>6, <1>7, <1>8 DEF k

-----------------------------------------------------------------------------
(* How many readings of word tuple g give the lemma tuple t.               *)
Ways(t, g) == Product([p \in 1..arity |-> Times(t[p], lems[g[p]])])

LEMMA TimesType ==
  ASSUME InputsOK, NEW w \in DOMAIN uni, NEW l
  PROVE  /\ IsFiniteSet({i \in DOMAIN lems[w] : lems[w][i] = l})
         /\ Times(l, lems[w]) = Cardinality({i \in DOMAIN lems[w] : lems[w][i] = l})
         /\ Times(l, lems[w]) \in Nat
<1> DEFINE k == Len(lems[w])
<1>1. k \in Nat /\ DOMAIN lems[w] = 1..k
  BY DEF InputsOK
<1> HIDE DEF k
<1>2. IsFiniteSet(DOMAIN lems[w])
  BY <1>1, FS_Interval
<1> QED
  BY <1>2, FS_Subset, FS_CardinalityType DEF Times

LEMMA WaysAre ==
  ASSUME InputsOK, NEW t \in LidsSet, NEW g \in DOMAIN grams
  PROVE  /\ IsFiniteSet(Of(t, g)) /\ Cardinality(Of(t, g)) = Ways(t, g) /\ Ways(t, g) \in Nat
<1> DEFINE I(p) == {i \in DOMAIN lems[g[p]] : lems[g[p]][i] = t[p]}
           ts == [p \in 1..arity |-> Times(t[p], lems[g[p]])]
<1>1. arity \in {2, 3} /\ 1 \in 1..arity /\ 2 \in 1..arity /\ (arity = 3 => 3 \in 1..arity)
  BY DEF InputsOK
<1>2. \A p \in 1..arity : /\ IsFiniteSet(I(p)) /\ Cardinality(I(p)) = ts[p] /\ ts[p] \in Nat
  BY ReadingsAre, TimesType
<1>3. \A c : <<g, c>> \in Of(t, g) <=> c \in Readings(g, lems) /\ \A p \in 1..arity : c[p] \in I(p)
  <2> TAKE c
  <2>1. <<g, c>> \in Msgs <=> c \in Readings(g, lems)
    BY MessagesAre
  <2>2. ASSUME c \in Readings(g, lems)
        PROVE  Lids(<<g, c>>) = t <=> \A p \in 1..arity : c[p] \in I(p)
    <3>1. \A p \in 1..arity : c[p] \in DOMAIN lems[g[p]]
      BY <2>2, ReadingsAre
    <3>2. Lids(<<g, c>>) = [p \in 1..arity |-> lems[g[p]][c[p]]]
      BY DEF Lids
    <3>3. t = [p \in 1..arity |-> t[p]]
      BY DEF LidsSet
    <3> QED
      BY <3>1, <3>2, <3>3
  <2> QED
    BY <2>1, <2>2 DEF Of, All
<1>4. \A m \in Of(t, g) : m = <<g, m[2]>>
  BY MessagesAre DEF Of, All
<1>5. Ways(t, g) = Product(ts)
  BY DEF Ways
<1>6. CASE arity = 2
  <2> DEFINE A == I(1)
             B == I(2)
             P == A \X B
             G == {g}
  <2>1. Of(t, g) = G \X P
    <3>1. \A c : c \in Readings(g, lems) /\ (\A p \in 1..arity : c[p] \in I(p)) <=> c \in P
      <4>1. Readings(g, lems) = (DOMAIN lems[g[1]]) \X (DOMAIN lems[g[2]])
        BY <1>6 DEF Readings
      <4>2. \A p \in 1..arity : p = 1 \/ p = 2
        BY <1>6
      <4> QED
        BY <1>1, <4>1, <4>2
    <3> HIDE DEF P, I
    <3> QED
      BY <1>3, <1>4, <3>1
  <2>2. IsFiniteSet(A) /\ IsFiniteSet(B) /\ Cardinality(A) = ts[1] /\ Cardinality(B) = ts[2]
        /\ ts[1] \in Nat /\ ts[2] \in Nat
    BY <1>1, <1>2
  <2>3. IsFiniteSet(G) /\ Cardinality(G) = 1
    BY FS_Singleton
  <2> HIDE DEF A, B, ts, G
  <2>4. IsFiniteSet(P) /\ Cardinality(P) = ts[1] * ts[2]
    BY <2>2, FS_Product
  <2> HIDE DEF P
  <2>5. IsFiniteSet(G \X P) /\ Cardinality(G \X P) = 1 * Cardinality(P)
    BY <2>3, <2>4, FS_Product
  <2>6. ts[1] * ts[2] \in Nat /\ 1 * (ts[1] * ts[2]) = ts[1] * ts[2]
    BY <2>2
  <2> QED
    BY <1>5, <1>6, <2>1, <2>4, <2>5, <2>6 DEF Product
<1>7. CASE arity = 3
  <2> DEFINE A == I(1)
             B == I(2)
             C == I(3)
             P == A \X B \X C
             G == {g}
  <2>1. Of(t, g) = G \X P
    <3>1. \A c : c \in Readings(g, lems) /\ (\A p \in 1..arity : c[p] \in I(p)) <=> c \in P
      <4>1. Readings(g, lems) = (DOMAIN lems[g[1]]) \X (DOMAIN lems[g[2]]) \X (DOMAIN lems[g[3]])
        BY <1>7 DEF Readings
      <4>2. \A p \in 1..arity : p = 1 \/ p = 2 \/ p = 3
        BY <1>7
      <4> QED
        BY <1>1, <1>7, <4>1, <4>2
    <3> HIDE DEF P, I
    <3> QED
      BY <1>3, <1>4, <3>1
  <2>2. /\ IsFiniteSet(A) /\ Cardinality(A) = ts[1] /\ ts[1] \in Nat
        /\ IsFiniteSet(B) /\ Cardinality(B) = ts[2] /\ ts[2] \in Nat
        /\ IsFiniteSet(C) /\ Cardinality(C) = ts[3] /\ ts[3] \in Nat
    BY <1>1, <1>2, <1>7
  <2>3. IsFiniteSet(G) /\ Cardinality(G) = 1
    BY FS_Singleton
  <2> HIDE DEF A, B, C, ts, G
  <2>4. IsFiniteSet(P) /\ Cardinality(P) = ts[1] * ts[2] * ts[3]
    <3>0. IsFiniteSet(A) /\ IsFiniteSet(B) /\ IsFiniteSet(C)
      BY <2>2
    <3>1. IsFiniteSet(P) /\ Cardinality(P) = Cardinality(A) * Cardinality(B) * Cardinality(C)
      BY <3>0, Triples
    <3> HIDE DEF P
    <3> QED
      BY <2>2, <3>1
  <2> HIDE DEF P
  <2>5. IsFiniteSet(G \X P) /\ Cardinality(G \X P) = 1 * Cardinality(P)
    BY <2>3, <2>4, FS_Product
  <2>6. ts[1] * ts[2] * ts[3] \in Nat
    BY <2>2
  <2>7. 1 * (ts[1] * ts[2] * ts[3]) = ts[1] * ts[2] * ts[3]
    BY <2>6
  <2> QED
    BY <1>5, <1>7, <2>1, <2>4, <2>5, <2>6, <2>7 DEF Product
<1> QED
  BY <1>1, <1>6, <1>7

LEMMA OfIs ==
  ASSUME InputsOK, NEW t \in LidsSet, NEW g \in DOMAIN grams
  PROVE  /\ IsFiniteSet(UnitsOf(Of(t, g)))
         /\ Cardinality(UnitsOf(Of(t, g))) = Unit(g) * Ways(t, g)
<1> DEFINE O == Of(t, g)
           k == Unit(g)
           T == 1..k
<1>1. k \in Nat /\ \A m \in O : Share(m) = k
  BY SharesAre DEF Of, All
<1>2. IsFiniteSet(O) /\ Cardinality(O) = Ways(t, g) /\ Ways(t, g) \in Nat
  BY WaysAre
<1>3. UnitsOf(O) = O \X T
  <2> HIDE DEF O, k
  <2>1. UnitsOf(O) = UNION {{m} \X T : m \in O}
    BY <1>1 DEF UnitsOf
  <2> QED
    BY <2>1
<1> HIDE DEF k
<1>4. IsFiniteSet(T) /\ Cardinality(T) = k
  BY <1>1, FS_Interval
<1> HIDE DEF O, T
<1>5. IsFiniteSet(O \X T) /\ Cardinality(O \X T) = Cardinality(O) * Cardinality(T)
  BY <1>2, <1>4, FS_Product
<1>6. Cardinality(O \X T) = k * Ways(t, g)
  BY <1>1, <1>2, <1>4, <1>5
<1> QED
  BY <1>3, <1>5, <1>6 DEF O, k

(* The joint weight is the weight of all messages of the tuple.            *)
LEMMA JointIs ==
  ASSUME InputsOK, NEW t \in LidsSet
  PROVE  Joint(t) = WeightOf(All(t))
<1> DEFINE X == [g \in DOMAIN grams |-> UnitsOf(Of(t, g))]
           f == [g \in DOMAIN grams |-> (Scale * grams[g] * Ways(t, g)) \div Product(Lengths(g))]
<1>1. Joint(t) = Sum(f)
  BY DEF Joint, Ways, Lengths
<1>2. DOMAIN X = DOMAIN grams /\ DOMAIN f = DOMAIN grams /\ IsFiniteSet(DOMAIN grams)
  BY DEF InputsOK
<1>3. ASSUME NEW g \in DOMAIN grams PROVE IsFiniteSet(X[g]) /\ f[g] = Cardinality(X[g])
  <2>1. f[g] = Unit(g) * Ways(t, g)
    BY SharesAre, WaysAre
  <2> QED
    BY <2>1, OfIs
<1>4. ASSUME NEW g \in DOMAIN grams, NEW h \in DOMAIN grams, g # h PROVE X[g] \cap X[h] = {}
  <2>1. \A u \in UnitsOf(Of(t, g)) : u[1][1] = g
    BY DEF UnitsOf, Of
  <2>2. \A u \in UnitsOf(Of(t, h)) : u[1][1] = h
    BY DEF UnitsOf, Of
  <2> QED
    BY <1>4, <2>1, <2>2
<1>5. UNION {X[g] : g \in DOMAIN X} = UnitsOf(All(t))
  <2>1. \A m \in All(t) : m[1] \in DOMAIN grams /\ m \in Of(t, m[1])
    BY MessagesAre DEF All, Of
  <2>2. \A g \in DOMAIN grams : Of(t, g) \subseteq All(t)
    BY DEF Of
  <2> QED
    BY <2>1, <2>2 DEF UnitsOf
<1> HIDE DEF X, f
<1>6. Cardinality(UNION {X[g] : g \in DOMAIN X}) = Sum(f)
  BY <1>2, <1>3, <1>4, SumOfParts
<1> QED
  BY <1>1, <1>5, <1>6 DEF WeightOf

-----------------------------------------------------------------------------
(* What one lemma in the list of a word adds to its own weight.            *)
PerLemma(w) == (Scale * uni[w]) \div Len(lems[w])

LEMMA PerLemmaIs ==
  ASSUME InputsOK, NEW w \in DOMAIN uni
  PROVE  /\ PerLemma(w) \in Nat \ {0}
         /\ PerLemma(w) * Len(lems[w]) = Scale * uni[w]
         /\ \A n \in Nat : (Scale * uni[w] * n) \div Len(lems[w]) = PerLemma(w) * n
<1> DEFINE L == Len(lems[w])
           u == uni[w]
<1>1. L \in Nat \ {0} /\ u \in Nat \ {0}
  BY DEF InputsOK
<1>2. PICK j \in 1..Scale : Scale = j * (L * L * L)
  BY DEF InputsOK
<1> HIDE DEF L, u
<1>3. j \in Nat \ {0}
  BY GroupLemAssumption
<1> DEFINE k == j * (L * L)
<1>4. k \in Nat \ {0} /\ Scale = k * L
  <2>1. \A x, y \in Nat \ {0} : x * y \in Nat \ {0}
    BY SMT
  <2>2. L * L \in Nat \ {0} /\ j * (L * L) \in Nat \ {0}
    BY <1>1, <1>3, <2>1
  <2>3. j * (L * L * L) = (j * (L * L)) * L
    BY <1>1, <1>3, SMT
  <2> QED
    BY <1>2, <2>2, <2>3
<1> HIDE DEF k
<1>5. k * u \in Nat \ {0} /\ Scale * u = (k * u) * L
  BY <1>1, <1>4, SMT
<1>6. PerLemma(w) = (Scale * u) \div L
  BY DEF PerLemma, L, u
<1>7. PerLemma(w) = k * u
  BY <1>1, <1>5, <1>6, ExactQuotient
<1>8. ASSUME NEW i \in Nat PROVE (Scale * u * i) \div L = PerLemma(w) * i
  <2>1. k * u * i \in Nat /\ Scale * u * i = (k * u * i) * L
    BY <1>1, <1>4, SMT
  <2> QED
    BY <1>1, <1>7, <2>1, ExactQuotient
<1> QED
  BY <1>5, <1>7, <1>8 DEF L, u

(* The lemmas that have a weight, and what they weigh.                     *)
LEMMA LemWeightsAre ==
  ASSUME InputsOK
  PROVE  /\ DOMAIN lid_w = UNION {{lems[w][i] : i \in DOMAIN lems[w]} : w \in DOMAIN uni}
         /\ \A l \in DOMAIN lid_w :
              lid_w[l] = Sum([w \in DOMAIN uni |-> PerLemma(w) * Times(l, lems[w])])
<1>1. lid_w = LemWeights(uni, lems)
  BY DEF InputsOK
<1>2. \A l : \A w \in DOMAIN uni :
        (Scale * uni[w] * Times(l, lems[w])) \div Len(lems[w]) = PerLemma(w) * Times(l, lems[w])
  BY PerLemmaIs, TimesType
<1>3. ASSUME NEW l
      PROVE  [w \in DOMAIN uni |-> (Scale * uni[w] * Times(l, lems[w])) \div Len(lems[w])]
               = [w \in DOMAIN uni |-> PerLemma(w) * Times(l, lems[w])]
  BY <1>2
<1> DEFINE D == UNION {{lems[w][i] : i \in DOMAIN lems[w]} : w \in DOMAIN uni}
           F(l) == [w \in DOMAIN uni |-> (Scale * uni[w] * Times(l, lems[w])) \div Len(lems[w])]
           G(l) == [w \in DOMAIN uni |-> PerLemma(w) * Times(l, lems[w])]
<1>4. lid_w = [l \in D |-> Sum(F(l))]
  BY <1>1 DEF LemWeights
<1>5. \A l : F(l) = G(l)
  BY <1>3
<1> HIDE DEF F, G, D
<1>6. DOMAIN lid_w = D /\ \A l \in D : lid_w[l] = Sum(G(l))
  BY <1>4, <1>5
<1> QED
  BY <1>6 DEF D, G

(* A lemma of a message has a weight.                                      *)
LEMMA LemmasWeigh ==
  ASSUME InputsOK, NEW m \in Msgs, NEW p \in 1..arity
  PROVE  lid_w[Lids(m)[p]] # 0
<1> DEFINE w == m[1][p]
           i == m[2][p]
           l == lems[w][i]
           f == [v \in DOMAIN uni |-> PerLemma(v) * Times(l, lems[v])]
<1>1. w \in DOMAIN uni /\ i \in DOMAIN lems[w] /\ Lids(m)[p] = l
  BY MessagesAre, ReadingsAre DEF Lids
<1>2. l \in DOMAIN lid_w /\ lid_w[l] = Sum(f)
  <2>1. l \in UNION {{lems[v][j] : j \in DOMAIN lems[v]} : v \in DOMAIN uni}
    BY <1>1
  <2> HIDE DEF l, w, i
  <2> QED
    BY <2>1, LemWeightsAre
<1>3. \A v \in DOMAIN uni : f[v] \in Nat
  <2> TAKE v \in DOMAIN uni
  <2>1. f[v] = PerLemma(v) * Times(l, lems[v])
    OBVIOUS
  <2>2. PerLemma(v) \in Nat /\ Times(l, lems[v]) \in Nat
    BY PerLemmaIs, TimesType
  <2> QED
    BY <2>1, <2>2
<1>4. Times(l, lems[w]) > 0
  <2>1. i \in {j \in DOMAIN lems[w] : lems[w][j] = l}
    BY <1>1
  <2> DEFINE S == {j \in DOMAIN lems[w] : lems[w][j] = l}
  <2>2. IsFiniteSet(S) /\ Times(l, lems[w]) = Cardinality(S) /\ Times(l, lems[w]) \in Nat
    BY <1>1, TimesType
  <2> HIDE DEF S
  <2>3. Cardinality(S) # 0
    BY <2>1, <2>2, FS_EmptySet DEF S
  <2> QED
    BY <2>2, <2>3
<1>5. f[w] > 0
  <2>1. f[w] = PerLemma(w) * Times(l, lems[w])
    BY <1>1
  <2>2. PerLemma(w) \in Nat \ {0} /\ Times(l, lems[w]) \in Nat
    BY <1>1, PerLemmaIs, TimesType
  <2>3. \A x \in Nat \ {0}, y \in Nat : y > 0 => x * y > 0
    BY SMT
  <2> QED
    BY <1>4, <2>1, <2>2, <2>3
<1>6. DOMAIN f = DOMAIN uni /\ IsFiniteSet(DOMAIN uni)
  BY DEF InputsOK
<1> HIDE DEF f, l, w
<1>7. Sum(f) > 0
  BY <1>1, <1>3, <1>5, <1>6, SumType
<1> QED
  BY <1>1, <1>2, <1>7

-----------------------------------------------------------------------------
(* The weight of the group being built, and of every group written, is     *)
(* that of its messages; the closed groups in the file are those above the *)
(* threshold, and no others are.                                           *)
WeightOK == weight = IF msg.cases = <<>> THEN 0 ELSE WeightOf(ShownAs(msg.lids))

OutWeights ==
  \A a \in DOMAIN out : /\ out[a].weight = WeightOf(ShownAs(out[a].group.lids))
                        /\ out[a].weight > threshold * Scale

Sifted ==
  \A t \in LidsSet :
    Closed(t) =>
      ((\E a \in DOMAIN out : out[a].group.lids = t) <=> WeightOf(ShownAs(t)) > threshold * Scale)

WInv == WeightOK /\ OutWeights /\ Sifted

LEMMA FrameWeights ==
  ASSUME UNCHANGED inputs
  PROVE  /\ WeightOK' <=> weight' = IF msg'.cases = <<>> THEN 0
                                    ELSE WeightOf(AsOf(msg'.lids, todo'))
         /\ OutWeights' <=> \A a \in DOMAIN out' :
                              /\ out'[a].weight = WeightOf(AsOf(out'[a].group.lids, todo'))
                              /\ out'[a].weight > threshold * Scale
         /\ Sifted' <=>
              \A t \in LidsSet :
                AsOf(t, todo') # {} /\ (msg'.cases # <<>> => t # msg'.lids) =>
                  ((\E a \in DOMAIN out' : out'[a].group.lids = t)
                     <=> WeightOf(AsOf(t, todo')) > threshold * Scale)
<1> USE DEF inputs
<1>1. Shown' = Msgs \ todo' /\ LidsSet' = LidsSet /\ threshold' = threshold
  BY DEF Shown, Msgs, Extended, Readings, LidsSet
<1>2. \A t : ShownAs(t)' = AsOf(t, todo')
  BY <1>1 DEF ShownAs, Lids, AsOf
<1>3. \A m : Share(m)' = Share(m)
  BY DEF Share, Product
<1>4. \A t : WeightOf(ShownAs(t))' = WeightOf(AsOf(t, todo'))
  BY <1>2, <1>3 DEF WeightOf, UnitsOf
<1>5. WeightOK' <=> weight' = IF msg'.cases = <<>> THEN 0
                               ELSE WeightOf(AsOf(msg'.lids, todo'))
  BY <1>4 DEF WeightOK
<1>6. OutWeights' <=> \A a \in DOMAIN out' :
                         /\ out'[a].weight = WeightOf(AsOf(out'[a].group.lids, todo'))
                         /\ out'[a].weight > threshold * Scale
  BY <1>1, <1>4 DEF OutWeights
<1>7. Sifted' <=>
         \A t \in LidsSet :
           AsOf(t, todo') # {} /\ (msg'.cases # <<>> => t # msg'.lids) =>
             ((\E a \in DOMAIN out' : out'[a].group.lids = t)
                <=> WeightOf(AsOf(t, todo')) > threshold * Scale)
  BY <1>1, <1>2, <1>4 DEF Sifted, Closed
<1> QED
  BY <1>5, <1>6, <1>7

LEMMA NoWeight == WeightOf({}) = 0
<1>1. UnitsOf({}) = {}
  BY DEF UnitsOf
<1> QED
  BY <1>1, FS_EmptySet DEF WeightOf

(* write_one sifts: what is in the file after it are the groups shown that *)
(* are above the threshold, the last one included.                         *)
LEMMA WrittenSifts ==
  ASSUME IInv, WInv, msg.cases # <<>>
  PROVE  /\ \A a \in DOMAIN Written :
              /\ Written[a].weight = WeightOf(AsOf(Written[a].group.lids, todo))
              /\ Written[a].weight > threshold * Scale
         /\ \A t \in LidsSet : AsOf(t, todo) # {} =>
              ((\E a \in DOMAIN Written : Written[a].group.lids = t)
                 <=> WeightOf(AsOf(t, todo)) > threshold * Scale)
<1> DEFINE r == [group |-> msg, weight |-> weight]
           k == Len(out)
           w == Append(out, r)
           R == [group : [lids : LidsSet, cases : Seq(CaseSet)], weight : Nat]
<1>1. \A t : ShownAs(t) = AsOf(t, todo)
  BY GroupsNow
<1>2. r \in R /\ out \in Seq(R) /\ r.group.lids = msg.lids /\ r.weight = weight
  BY DEF IInv, TypeOK
<1>3. weight = WeightOf(AsOf(msg.lids, todo))
  BY <1>1 DEF WInv, WeightOK
<1>4. \A p \in 1..arity : lid_w[msg.lids[p]] # 0
  <2>1. PICK s \in Shown : Lids(s) = msg.lids
    BY DEF IInv, Current, ShownAs
  <2>2. s \in Msgs
    BY <2>1, GroupsNow
  <2> QED
    BY <2>1, <2>2, LemmasWeigh DEF IInv
<1>5. Scored <=> weight > threshold * Scale
  BY <1>4 DEF Scored
<1> HIDE DEF r, R
<1>6. /\ k \in Nat /\ DOMAIN out = 1..k /\ DOMAIN w = 1..(k + 1) /\ w[k + 1] = r
      /\ \A a \in 1..k : w[a] = out[a]
  BY <1>2
<1>7. Written = IF Scored THEN w ELSE out
  BY DEF Written, r
<1> HIDE DEF w, k
<1>8. \A a \in DOMAIN out : out[a].group.lids # msg.lids
  <2>1. ~Precedes(msg.lids, msg.lids)
    BY PrecedesOrder DEF IInv, TypeOK, InputsOK
  <2> QED
    BY <2>1 DEF IInv, Before
<1>9. \A a \in DOMAIN w : a \in DOMAIN out \/ a = k + 1
  BY <1>6
<1>10. ASSUME NEW a \in DOMAIN Written
       PROVE  /\ Written[a].weight = WeightOf(AsOf(Written[a].group.lids, todo))
              /\ Written[a].weight > threshold * Scale
  <2>1. CASE a \in DOMAIN out
    <3>1. Written[a] = out[a]
      BY <1>6, <1>7, <2>1
    <3> QED
      BY <1>1, <2>1, <3>1 DEF WInv, OutWeights
  <2>2. CASE a = k + 1 /\ Scored
    <3>1. Written[a] = r
      BY <1>6, <1>7, <2>2
    <3> QED
      BY <1>2, <1>3, <1>5, <2>2, <3>1
  <2> QED
    BY <1>7, <1>9, <1>10, <2>1, <2>2
<1>11. ASSUME NEW t \in LidsSet, AsOf(t, todo) # {}
       PROVE  (\E a \in DOMAIN Written : Written[a].group.lids = t)
                <=> WeightOf(AsOf(t, todo)) > threshold * Scale
  <2>1. CASE t = msg.lids
    <3>1. (\E a \in DOMAIN Written : Written[a].group.lids = t) <=> Scored
      <4>1. ASSUME Scored PROVE \E a \in DOMAIN Written : Written[a].group.lids = t
        <5>1. k + 1 \in DOMAIN Written /\ Written[k + 1] = r
          BY <1>6, <1>7, <4>1
        <5> QED
          BY <1>2, <2>1, <5>1
      <4>2. ASSUME ~Scored PROVE ~ \E a \in DOMAIN Written : Written[a].group.lids = t
        BY <1>7, <1>8, <2>1, <4>2
      <4> QED
        BY <4>1, <4>2
    <3> QED
      BY <1>3, <1>5, <2>1, <3>1
  <2>2. CASE t # msg.lids
    <3>1. (\E a \in DOMAIN Written : Written[a].group.lids = t)
            <=> (\E a \in DOMAIN out : out[a].group.lids = t)
      <4>1. ASSUME NEW a \in DOMAIN Written, Written[a].group.lids = t
            PROVE  a \in DOMAIN out /\ out[a].group.lids = t
        <5>1. a # k + 1 \/ ~Scored
          BY <1>2, <1>6, <1>7, <2>2, <4>1
        <5> QED
          BY <1>6, <1>7, <1>9, <4>1, <5>1
      <4>2. ASSUME NEW a \in DOMAIN out, out[a].group.lids = t
            PROVE  a \in DOMAIN Written /\ Written[a].group.lids = t
        <5>1. a \in DOMAIN w /\ w[a] = out[a]
          BY <1>6
        <5> QED
          BY <1>7, <4>2, <5>1
      <4> QED
        BY <4>1, <4>2
    <3>2. Closed(t)
      BY <1>1, <1>11, <2>2 DEF Closed
    <3> QED
      BY <1>1, <3>1, <3>2 DEF WInv, Sifted
  <2> QED
    BY <2>1, <2>2
<1> QED
  BY <1>10, <1>11

LEMMA AddCaseWeighs ==
  ASSUME IInv, WInv, NEW m \in todo, AddCase(m)
  PROVE  WInv'
<1> DEFINE t == Lids(m)
<1>1. /\ UNCHANGED inputs /\ m \in Tops /\ todo' = todo \ {m}
      /\ msg' = [lids |-> t, cases |-> Append(msg.cases, Case(m))]
      /\ weight' = weight + Share(m) /\ out' = out
  BY DEF AddCase
<1>2. /\ m \in Msgs
      /\ \A u : u # t => AsOf(u, todo') = AsOf(u, todo)
      /\ AsOf(t, todo') = AsOf(t, todo) \cup {m} /\ m \notin AsOf(t, todo)
  BY <1>1, Taken
<1>3. msg'.lids = t /\ msg'.cases # <<>>
  <2>1. msg.cases \in Seq(CaseSet)
    BY DEF IInv, TypeOK
  <2> DEFINE c == Case(m)
  <2> HIDE DEF c
  <2>2. Append(msg.cases, c) # <<>>
    BY <2>1
  <2> QED
    BY <1>1, <2>2 DEF c
<1>4. /\ \/ msg.cases # <<>> /\ msg.lids = t
         \/ msg.cases = <<>> /\ Shown = {} /\ out = <<>> /\ AsOf(t, todo) = {}
      /\ \A a \in DOMAIN out : out[a].group.lids # t
  BY AddedTo
<1>5. \A u : ShownAs(u) = AsOf(u, todo) /\ AsOf(u, todo) \subseteq Shown
  BY GroupsNow DEF AsOf
<1>6. weight' = WeightOf(AsOf(t, todo'))
  <2>1. weight = WeightOf(AsOf(t, todo))
    BY <1>4, <1>5, NoWeight DEF WInv, WeightOK
  <2>2. WeightOf(AsOf(t, todo) \cup {m}) = WeightOf(AsOf(t, todo)) + Share(m)
    <3> DEFINE S == AsOf(t, todo)
    <3>1. S \in SUBSET Msgs /\ m \in Msgs \ S /\ InputsOK
      BY <1>2 DEF AsOf, IInv
    <3> HIDE DEF S
    <3>2. WeightOf(S \cup {m}) = WeightOf(S) + Share(m)
      BY <3>1, OneMoreShare
    <3> QED
      BY <3>2 DEF S
  <2> QED
    BY <1>1, <1>2, <2>1, <2>2
<1>7. \A a \in DOMAIN out' : /\ out'[a].weight = WeightOf(AsOf(out'[a].group.lids, todo'))
                             /\ out'[a].weight > threshold * Scale
  BY <1>1, <1>2, <1>4, <1>5 DEF WInv, OutWeights
<1>8. ASSUME NEW u \in LidsSet, AsOf(u, todo') # {}, u # t
      PROVE  (\E a \in DOMAIN out' : out'[a].group.lids = u)
               <=> WeightOf(AsOf(u, todo')) > threshold * Scale
  <2>1. AsOf(u, todo') = AsOf(u, todo) /\ ShownAs(u) = AsOf(u, todo)
    BY <1>2, <1>5, <1>8
  <2>2. Closed(u)
    BY <1>4, <1>5, <1>8, <2>1 DEF Closed
  <2> QED
    BY <1>1, <2>1, <2>2 DEF WInv, Sifted
<1> QED
  BY <1>1, <1>3, <1>6, <1>7, <1>8, FrameWeights DEF WInv

LEMMA NewGroupWeighs ==
  ASSUME IInv, IInv', WInv, NEW m \in todo, NewGroup(m)
  PROVE  WInv'
<1> DEFINE t == Lids(m)
<1>1. /\ UNCHANGED inputs /\ m \in Tops /\ todo' = todo \ {m}
      /\ msg' = [lids |-> t, cases |-> <<Case(m)>>]
      /\ weight' = Share(m) /\ out' = Written
      /\ ~SameGroup(m) /\ msg.cases # <<>>
  BY DEF NewGroup
<1>2. /\ m \in Msgs
      /\ \A u : u # t => AsOf(u, todo') = AsOf(u, todo)
      /\ AsOf(t, todo') = AsOf(t, todo) \cup {m} /\ m \notin AsOf(t, todo)
  BY <1>1, Taken
<1>3. msg'.lids = t /\ msg'.cases # <<>>
  BY <1>1
<1>4. AsOf(t, todo) = {}
  <2>1. ~Precedes(t, t)
    BY <1>2, MessagesAre, PrecedesOrder DEF IInv, InputsOK
  <2> QED
    BY <1>1, <2>1, NextTuple, GroupsNow DEF AsOf
<1>5. weight' = WeightOf(AsOf(t, todo'))
  <2>1. WeightOf({} \cup {m}) = WeightOf({}) + Share(m)
    BY <1>2, OneMoreShare DEF IInv
  <2>2. Share(m) \in Nat
    BY <1>2, ShareType DEF IInv
  <2> DEFINE k == Share(m)
  <2>3. weight' = k /\ AsOf(t, todo') = {} \cup {m}
    BY <1>1, <1>2, <1>4
  <2>4. k \in Nat /\ WeightOf({} \cup {m}) = 0 + k
    BY <2>1, <2>2, NoWeight
  <2> HIDE DEF k, t
  <2>5. 0 + k = k
    BY <2>4
  <2> QED
    BY <2>3, <2>4, <2>5
<1>6. \A a \in DOMAIN Written : Written[a].group.lids # t
  <2>1. ~Precedes(t, t)
    BY <1>2, MessagesAre, PrecedesOrder DEF IInv, InputsOK
  <2>2. \A a \in DOMAIN out' : Precedes(out'[a].group.lids, t)
    BY <1>1, <1>3, Frame DEF IInv
  <2> QED
    BY <1>1, <2>1, <2>2
<1>7. \A a \in DOMAIN out' : /\ out'[a].weight = WeightOf(AsOf(out'[a].group.lids, todo'))
                             /\ out'[a].weight > threshold * Scale
  BY <1>1, <1>2, <1>6, WrittenSifts
<1>8. ASSUME NEW u \in LidsSet, AsOf(u, todo') # {}, u # t
      PROVE  (\E a \in DOMAIN out' : out'[a].group.lids = u)
               <=> WeightOf(AsOf(u, todo')) > threshold * Scale
  <2>1. AsOf(u, todo') = AsOf(u, todo)
    BY <1>2, <1>8
  <2> QED
    BY <1>1, <1>8, <2>1, WrittenSifts
<1> QED
  BY <1>1, <1>3, <1>5, <1>7, <1>8, FrameWeights DEF WInv

LEMMA FinishWeighs ==
  ASSUME IInv, WInv, Finish
  PROVE  WInv'
<1>1. /\ UNCHANGED inputs /\ todo' = todo /\ ~finished
      /\ out' = IF msg.cases = <<>> THEN out ELSE Written
      /\ msg' = [lids |-> [p \in 1..arity |-> 0], cases |-> <<>>] /\ weight' = 0
  BY DEF Finish, NoMsg
<1>2. msg'.cases = <<>>
  BY <1>1
<1>3. CASE msg.cases = <<>>
  <2>1. Shown = {} /\ out' = <<>>
    BY <1>1, <1>3 DEF IInv, Current
  <2>2. \A u : AsOf(u, todo') = {}
    BY <1>1, <2>1, GroupsNow DEF AsOf
  <2> QED
    BY <1>1, <1>2, <2>1, <2>2, FrameWeights DEF WInv
<1>4. CASE msg.cases # <<>>
  BY <1>1, <1>2, <1>4, WrittenSifts, FrameWeights DEF WInv
<1> QED
  BY <1>3, <1>4

LEMMA StutterWeighs ==
  ASSUME WInv, UNCHANGED vars
  PROVE  WInv'
<1>1. UNCHANGED inputs /\ todo' = todo /\ msg' = msg /\ weight' = weight /\ out' = out
  BY DEF vars
<1>2. \A u : ShownAs(u) = AsOf(u, todo)
  BY GroupsNow
<1>3. WeightOK' /\ OutWeights'
  BY <1>1, <1>2, FrameWeights DEF WInv, WeightOK, OutWeights
<1>4. Sifted'
  <2>1. \A t \in LidsSet :
          AsOf(t, todo) # {} /\ (msg.cases # <<>> => t # msg.lids) =>
            ((\E a \in DOMAIN out : out[a].group.lids = t)
               <=> WeightOf(AsOf(t, todo)) > threshold * Scale)
    BY <1>2 DEF WInv, Sifted, Closed
  <2> QED
    BY <1>1, <2>1, FrameWeights
<1> QED
  BY <1>3, <1>4 DEF WInv

THEOREM WeightsInvariance == Spec => [](IInv /\ WInv)
<1>1. Init => IInv /\ WInv
  <2> SUFFICES ASSUME Init PROVE WInv
    BY InitHolds
  <2>1. msg.cases = <<>> /\ weight = 0 /\ out = <<>> /\ todo = Msgs
    BY DEF Init, NoMsg, Msgs
  <2>2. \A t : ShownAs(t) = {}
    BY <2>1 DEF ShownAs, Shown, Msgs
  <2> QED
    BY <2>1, <2>2 DEF WInv, WeightOK, OutWeights, Sifted, Closed
<1>2. IInv /\ IInv' /\ WInv /\ [Next]_vars => WInv'
  <2> SUFFICES ASSUME IInv, IInv', WInv, [Next]_vars PROVE WInv'
    OBVIOUS
  <2>1. CASE \E m \in todo : AddCase(m)
    BY <2>1, AddCaseWeighs
  <2>2. CASE \E m \in todo : NewGroup(m)
    BY <2>2, NewGroupWeighs
  <2>3. CASE Finish
    BY <2>3, FinishWeighs
  <2>4. CASE UNCHANGED vars
    BY <2>4, StutterWeighs
  <2> QED
    BY <2>1, <2>2, <2>3, <2>4 DEF Next, Terminated
<1> QED
  BY <1>1, <1>2, Invariance, PTL DEF Spec

(* A closed tuple has been shown whole.                                    *)
LEMMA ClosedIsWhole ==
  ASSUME IInv, NEW t \in LidsSet, Closed(t)
  PROVE  ShownAs(t) = All(t)
<1>1. Shown = Msgs \ todo /\ ShownAs(t) # {}
  BY GroupsNow DEF Closed
<1>2. ASSUME NEW n \in todo, n \in Msgs PROVE Lids(n) # t
  <2>1. msg.cases # <<>>
    BY <1>2 DEF IInv, Current, TypeOK, Closed, ShownAs
  <2>2. PICK s \in Shown : Lids(s) = msg.lids
    BY <2>1 DEF IInv, Current, ShownAs
  <2>3. ~Precedes(Lids(n), msg.lids)
    BY <2>2 DEF IInv, InOrder
  <2>4. Precedes(t, msg.lids)
    BY <1>1, <2>1 DEF IInv, Current, Closed, ShownAs
  <2> QED
    BY <2>3, <2>4
<1> QED
  BY <1>1, <1>2 DEF ShownAs, All

(* Whatever the order of the ties: the threshold is applied to the whole   *)
(* joint weight Wij of a lemma tuple, never to a part of it.               *)
THEOREM ThresholdSeesAll == Spec => []ThresholdOnWhole
<1>1. IInv /\ WInv => ThresholdOnWhole
  <2> SUFFICES ASSUME IInv, WInv, NEW t \in [1..arity -> Lem], Closed(t)
               PROVE  (\E a \in DOMAIN out : out[a].group.lids = t) <=> Joint(t) > threshold * Scale
    BY DEF ThresholdOnWhole
  <2>1. t \in LidsSet
    BY DEF LidsSet
  <2>2. ShownAs(t) = All(t)
    BY <2>1, ClosedIsWhole
  <2>3. Joint(t) = WeightOf(All(t))
    BY <2>1, JointIs DEF IInv
  <2>4. (\E a \in DOMAIN out : out[a].group.lids = t) <=> WeightOf(ShownAs(t)) > threshold * Scale
    BY <2>1 DEF WInv, Sifted
  <2> QED
    BY <2>2, <2>3, <2>4
<1> QED
  BY <1>1, WeightsInvariance, PTL

-----------------------------------------------------------------------------
(* Without a threshold nothing of a count is lost and nothing multiplied.  *)
LEMMA SumScaled ==
  ASSUME NEW f, IsFiniteSet(DOMAIN f), \A g \in DOMAIN f : f[g] \in Nat, NEW k \in Nat
  PROVE  Sum([g \in DOMAIN f |-> k * f[g]]) = k * Sum(f)
<1> DEFINE K == 1..k
           row(g) == {g} \X (1..f[g])
           A == UNION {row(g) : g \in DOMAIN f}
           X == [g \in DOMAIN f |-> K \X row(g)]
           h == [g \in DOMAIN f |-> k * f[g]]
<1>1. IsFiniteSet(K) /\ Cardinality(K) = k
  BY FS_Interval
<1>2. \A g \in DOMAIN f : IsFiniteSet(row(g)) /\ Cardinality(row(g)) = f[g]
  BY RowSize
<1>3. IsFiniteSet(A) /\ Cardinality(A) = Sum(f)
  <2> DEFINE R == [g \in DOMAIN f |-> row(g)]
  <2>1. DOMAIN R = DOMAIN f /\ \A g \in DOMAIN R : IsFiniteSet(R[g]) /\ f[g] = Cardinality(R[g])
    BY <1>2
  <2>2. \A g, i \in DOMAIN R : g # i => R[g] \cap R[i] = {}
    OBVIOUS
  <2>3. A = UNION {R[g] : g \in DOMAIN R}
    OBVIOUS
  <2> HIDE DEF R, A
  <2> QED
    BY <2>1, <2>2, <2>3, SumOfParts
<1>4. UNION {X[g] : g \in DOMAIN X} = K \X A
  OBVIOUS
<1>5. \A g, i \in DOMAIN X : g # i => X[g] \cap X[i] = {}
  OBVIOUS
<1> HIDE DEF K, row
<1>6. \A g \in DOMAIN f : IsFiniteSet(K \X row(g)) /\ Cardinality(K \X row(g)) = k * f[g]
  BY <1>1, <1>2, FS_Product
<1>7. DOMAIN X = DOMAIN f /\ DOMAIN h = DOMAIN f
      /\ \A g \in DOMAIN X : IsFiniteSet(X[g]) /\ h[g] = Cardinality(X[g])
  BY <1>6
<1> HIDE DEF A, X
<1>8. IsFiniteSet(K \X A) /\ Cardinality(K \X A) = k * Sum(f)
  BY <1>1, <1>3, FS_Product
<1> HIDE DEF h
<1>9. Cardinality(UNION {X[g] : g \in DOMAIN X}) = Sum(h)
  BY <1>5, <1>7, SumOfParts
<1> QED
  BY <1>4, <1>8, <1>9 DEF h

LEMMA ReadingsCount ==
  ASSUME InputsOK, NEW g \in DOMAIN grams
  PROVE  Cardinality(Readings(g, lems)) = Product(Lengths(g))
<1> DEFINE I(p) == DOMAIN lems[g[p]]
           ts == Lengths(g)
<1>1. /\ arity \in {2, 3} /\ 1 \in 1..arity /\ 2 \in 1..arity /\ (arity = 3 => 3 \in 1..arity)
      /\ \A p \in 1..arity : g[p] \in DOMAIN uni
  <2>1. arity \in {2, 3}
    BY DEF InputsOK
  <2>2. \A p \in 1..arity : g[p] \in DOMAIN uni
    BY ReadingsAre
  <2> QED
    BY <2>1, <2>2
<1>2. \A p \in 1..arity : /\ IsFiniteSet(I(p)) /\ Cardinality(I(p)) = ts[p] /\ ts[p] \in Nat
  <2> TAKE p \in 1..arity
  <2> DEFINE k == Len(lems[g[p]])
  <2>1. k \in Nat /\ I(p) = 1..k /\ ts[p] = k
    <3>1. g[p] \in DOMAIN uni /\ ts[p] = k /\ ts[p] \in Nat
      BY <1>1, LengthsAre
    <3>2. lems[g[p]] \in Seq(Lem)
      BY <3>1 DEF InputsOK
    <3> QED
      BY <3>1, <3>2
  <2> HIDE DEF k
  <2>2. IsFiniteSet(1..k) /\ Cardinality(1..k) = k
    BY <2>1, FS_Interval
  <2> QED
    BY <2>1, <2>2
<1>3. CASE arity = 2
  <2> DEFINE A == I(1)
             B == I(2)
  <2>1. Readings(g, lems) = A \X B
    BY <1>3 DEF Readings
  <2>2. IsFiniteSet(A) /\ IsFiniteSet(B) /\ Cardinality(A) = ts[1] /\ Cardinality(B) = ts[2]
    BY <1>1, <1>2
  <2> HIDE DEF A, B, ts
  <2>3. Cardinality(A \X B) = ts[1] * ts[2]
    BY <2>2, FS_Product
  <2> QED
    BY <1>3, <2>1, <2>3 DEF Product, ts
<1>4. CASE arity = 3
  <2> DEFINE A == I(1)
             B == I(2)
             C == I(3)
             P == A \X B \X C
  <2>1. Readings(g, lems) = P
    BY <1>4 DEF Readings
  <2>2. IsFiniteSet(A) /\ IsFiniteSet(B) /\ IsFiniteSet(C)
    BY <1>1, <1>2, <1>4
  <2>3. Cardinality(A) = ts[1] /\ Cardinality(B) = ts[2] /\ Cardinality(C) = ts[3]
    BY <1>1, <1>2, <1>4
  <2> HIDE DEF A, B, C, ts
  <2>4. Cardinality(P) = Cardinality(A) * Cardinality(B) * Cardinality(C)
    BY <2>2, Triples
  <2> HIDE DEF P
  <2> QED
    BY <1>4, <2>1, <2>3, <2>4 DEF Product, ts
<1> QED
  BY <1>1, <1>3, <1>4

(* The messages of a word tuple weigh its count, so all messages weigh the *)
(* counts of all.                                                          *)
LEMMA AllWeigh ==
  ASSUME InputsOK
  PROVE  WeightOf(Msgs) = Scale * Sum(grams)
<1> DEFINE X == [g \in DOMAIN grams |-> UnitsOf({g} \X Readings(g, lems))]
           f == [g \in DOMAIN grams |-> Scale * grams[g]]
<1>1. DOMAIN X = DOMAIN grams /\ DOMAIN f = DOMAIN grams /\ IsFiniteSet(DOMAIN grams)
  BY DEF InputsOK
<1>2. ASSUME NEW g \in DOMAIN grams PROVE IsFiniteSet(X[g]) /\ f[g] = Cardinality(X[g])
  <2> DEFINE G == {g}
             R == Readings(g, lems)
             k == Unit(g)
             T == 1..k
             W == G \X R
  <2>1. k \in Nat /\ \A m \in W : Share(m) = k
    <3>1. \A m \in W : m \in Msgs /\ m[1] = g
      BY MessagesAre
    <3> QED
      BY <3>1, SharesAre
  <2>2. IsFiniteSet(R) /\ Cardinality(R) = Product(Lengths(g))
    BY ReadingsAre, ReadingsCount
  <2>3. IsFiniteSet(G) /\ Cardinality(G) = 1
    BY FS_Singleton
  <2>4. k * Product(Lengths(g)) = Scale * grams[g] /\ Product(Lengths(g)) \in Nat
    BY SharesAre, LengthsAre
  <2>5. X[g] = UnitsOf(W)
    OBVIOUS
  <2> HIDE DEF G, R, k
  <2>6. IsFiniteSet(W) /\ Cardinality(W) = Product(Lengths(g))
    <3>1. IsFiniteSet(W) /\ Cardinality(W) = Cardinality(G) * Cardinality(R)
      BY <2>2, <2>3, FS_Product
    <3> QED
      BY <2>2, <2>3, <2>4, <3>1
  <2>7. IsFiniteSet(T) /\ Cardinality(T) = k
    BY <2>1, FS_Interval
  <2> HIDE DEF W
  <2>8. UnitsOf(W) = W \X T
    <3>1. UnitsOf(W) = UNION {{m} \X T : m \in W}
      BY <2>1 DEF UnitsOf
    <3> QED
      BY <3>1
  <2> HIDE DEF T
  <2>9. IsFiniteSet(W \X T) /\ Cardinality(W \X T) = Cardinality(W) * Cardinality(T)
    BY <2>6, <2>7, FS_Product
  <2>10. Cardinality(W \X T) = Scale * grams[g]
    BY <2>1, <2>4, <2>6, <2>7, <2>9
  <2> QED
    BY <2>5, <2>8, <2>9, <2>10
<1>3. ASSUME NEW g \in DOMAIN grams, NEW h \in DOMAIN grams, g # h PROVE X[g] \cap X[h] = {}
  <2>1. \A i \in DOMAIN grams : \A u \in X[i] : u[1][1] = i
    BY DEF UnitsOf
  <2> QED
    BY <1>3, <2>1
<1>4. UNION {X[g] : g \in DOMAIN X} = UnitsOf(Msgs)
  <2>1. \A m : m \in Msgs <=> \E g \in DOMAIN grams : m \in {g} \X Readings(g, lems)
    BY DEF Msgs, Extended
  <2> QED
    BY <2>1 DEF UnitsOf
<1>5. Sum(f) = Scale * Sum(grams)
  <2>1. (\A g \in DOMAIN grams : grams[g] \in Nat) /\ Scale \in Nat
    BY GroupLemAssumption DEF InputsOK
  <2> QED
    BY <1>1, <2>1, SumScaled
<1> HIDE DEF X, f
<1>6. Cardinality(UNION {X[g] : g \in DOMAIN X}) = Sum(f)
  BY <1>1, <1>2, <1>3, SumOfParts
<1> QED
  BY <1>4, <1>5, <1>6 DEF WeightOf

(* The lemma weights add up to the counts of all words.                    *)
LEMMA AllLemmasWeigh ==
  ASSUME InputsOK
  PROVE  Sum(lid_w) = Scale * Sum(uni)
<1> DEFINE I(l, w) == {i \in DOMAIN lems[w] : lems[w][i] = l}
           K(w) == 1..PerLemma(w)
           Y(l) == [w \in DOMAIN uni |-> {w} \X (I(l, w) \X K(w))]
           X == [l \in DOMAIN lid_w |-> UNION {Y(l)[w] : w \in DOMAIN uni}]
           Z == [w \in DOMAIN uni |-> {w} \X ((DOMAIN lems[w]) \X K(w))]
           G(l) == [w \in DOMAIN uni |-> PerLemma(w) * Times(l, lems[w])]
           f == [w \in DOMAIN uni |-> Scale * uni[w]]
<1>1. IsFiniteSet(DOMAIN uni)
  BY DEF InputsOK
<1>2. \A w \in DOMAIN uni : IsFiniteSet(K(w)) /\ Cardinality(K(w)) = PerLemma(w)
  <2> TAKE w \in DOMAIN uni
  <2> DEFINE k == PerLemma(w)
  <2>1. k \in Nat
    BY PerLemmaIs
  <2> HIDE DEF k
  <2>2. IsFiniteSet(1..k) /\ Cardinality(1..k) = k
    BY <2>1, FS_Interval
  <2> QED
    BY <2>2 DEF k
<1>3. ASSUME NEW w \in DOMAIN uni, NEW S, IsFiniteSet(S)
      PROVE  /\ IsFiniteSet({w} \X (S \X K(w)))
             /\ Cardinality({w} \X (S \X K(w))) = PerLemma(w) * Cardinality(S)
  <2> DEFINE T == K(w)
             W == {w}
             P == S \X T
  <2>1. IsFiniteSet(T) /\ Cardinality(T) = PerLemma(w) /\ PerLemma(w) \in Nat
    BY <1>2, PerLemmaIs
  <2>2. IsFiniteSet(W) /\ Cardinality(W) = 1
    BY FS_Singleton
  <2> HIDE DEF T, W
  <2>3. IsFiniteSet(P) /\ Cardinality(P) = Cardinality(S) * Cardinality(T)
    BY <1>3, <2>1, FS_Product
  <2>4. Cardinality(S) \in Nat
    BY <1>3, FS_CardinalityType
  <2>5. Cardinality(S) * Cardinality(T) \in Nat
        /\ Cardinality(S) * Cardinality(T) = PerLemma(w) * Cardinality(S)
    BY <2>1, <2>4
  <2> HIDE DEF P
  <2>6. IsFiniteSet(W \X P) /\ Cardinality(W \X P) = Cardinality(W) * Cardinality(P)
    BY <2>2, <2>3, FS_Product
  <2>7. Cardinality(W \X P) = PerLemma(w) * Cardinality(S)
    BY <2>2, <2>3, <2>5, <2>6
  <2> QED
    BY <2>6, <2>7 DEF W, P, T
<1>4. ASSUME NEW l \in DOMAIN lid_w PROVE IsFiniteSet(X[l]) /\ lid_w[l] = Cardinality(X[l])
  <2>1. ASSUME NEW w \in DOMAIN uni
        PROVE  IsFiniteSet(Y(l)[w]) /\ G(l)[w] = Cardinality(Y(l)[w])
    <3> DEFINE S == I(l, w)
    <3>1. IsFiniteSet(S) /\ Cardinality(S) = Times(l, lems[w])
      BY TimesType
    <3>2. Y(l)[w] = {w} \X (S \X K(w)) /\ G(l)[w] = PerLemma(w) * Times(l, lems[w])
      OBVIOUS
    <3> HIDE DEF S, Y, G, K
    <3> QED
      BY <1>3, <3>1, <3>2
  <2>2. \A w, v \in DOMAIN uni : w # v => Y(l)[w] \cap Y(l)[v] = {}
    OBVIOUS
  <2> DEFINE y == Y(l)
             s == G(l)
  <2>3. DOMAIN y = DOMAIN uni /\ DOMAIN s = DOMAIN uni /\ X[l] = UNION {y[w] : w \in DOMAIN y}
    OBVIOUS
  <2>4. lid_w[l] = Sum(s)
    BY LemWeightsAre
  <2>5. \A w \in DOMAIN uni : IsFiniteSet(y[w]) /\ s[w] = Cardinality(y[w])
    BY <2>1
  <2> HIDE DEF y, s, X
  <2>6. IsFiniteSet(UNION {y[w] : w \in DOMAIN y}) /\ Cardinality(UNION {y[w] : w \in DOMAIN y}) = Sum(s)
    <3>1. \A w, v \in DOMAIN y : w # v => y[w] \cap y[v] = {}
      BY <2>2, <2>3 DEF y
    <3> QED
      BY <1>1, <2>3, <2>5, <3>1, SumOfParts
  <2> QED
    BY <2>3, <2>4, <2>6
<1>5. ASSUME NEW l \in DOMAIN lid_w, NEW m \in DOMAIN lid_w, l # m PROVE X[l] \cap X[m] = {}
  <2>1. \A n \in DOMAIN lid_w : \A x \in X[n] : lems[x[1]][x[2][1]] = n
    OBVIOUS
  <2> HIDE DEF X
  <2> QED
    BY <1>5, <2>1
<1>6. ASSUME NEW w \in DOMAIN uni PROVE IsFiniteSet(Z[w]) /\ f[w] = Cardinality(Z[w])
  <2> DEFINE S == DOMAIN lems[w]
             k == Len(lems[w])
  <2>1. k \in Nat /\ S = 1..k
    BY DEF InputsOK
  <2>2. Z[w] = {w} \X (S \X K(w)) /\ f[w] = PerLemma(w) * k
    BY PerLemmaIs
  <2> HIDE DEF k, S
  <2>3. IsFiniteSet(S) /\ Cardinality(S) = k
    <3>1. IsFiniteSet(1..k) /\ Cardinality(1..k) = k
      BY <2>1, FS_Interval
    <3> QED
      BY <2>1, <3>1
  <2> HIDE DEF Z, f, K
  <2> QED
    BY <1>3, <2>2, <2>3
<1>7. \A w, v \in DOMAIN uni : w # v => Z[w] \cap Z[v] = {}
  OBVIOUS
<1>8. UNION {X[l] : l \in DOMAIN X} = UNION {Z[w] : w \in DOMAIN Z}
  <2>1. DOMAIN lid_w = UNION {{lems[w][i] : i \in DOMAIN lems[w]} : w \in DOMAIN uni}
    BY LemWeightsAre
  <2>2. ASSUME NEW l \in DOMAIN lid_w, NEW x \in X[l] PROVE \E w \in DOMAIN uni : x \in Z[w]
    <3>1. PICK w \in DOMAIN uni : x \in Y(l)[w]
      BY <2>2
    <3>2. Y(l)[w] \subseteq Z[w]
      OBVIOUS
    <3> QED
      BY <3>1, <3>2
  <2>3. ASSUME NEW w \in DOMAIN uni, NEW x \in Z[w] PROVE \E l \in DOMAIN lid_w : x \in X[l]
    <3> DEFINE i == x[2][1]
               l == lems[w][i]
    <3>1. x = <<w, x[2]>> /\ i \in DOMAIN lems[w] /\ x[2] = <<i, x[2][2]>> /\ x[2][2] \in K(w)
      BY <2>3
    <3>2. l \in DOMAIN lid_w
      BY <2>1, <3>1
    <3>3. x \in Y(l)[w]
      BY <3>1
    <3> QED
      BY <3>2, <3>3
  <2> HIDE DEF X, Z
  <2> QED
    BY <2>2, <2>3 DEF X, Z
<1>9. IsFiniteSet(DOMAIN lid_w)
  <2> DEFINE C == [w \in DOMAIN uni |-> {lems[w][i] : i \in DOMAIN lems[w]}]
  <2>1. \A w \in DOMAIN uni : IsFiniteSet(C[w])
    <3> TAKE w \in DOMAIN uni
    <3> DEFINE k == Len(lems[w])
               D == DOMAIN lems[w]
               h == [i \in D |-> lems[w][i]]
               E == {lems[w][i] : i \in D}
    <3>1. k \in Nat /\ D = 1..k
      BY DEF InputsOK
    <3>2. h \in Surjection(D, E)
      BY DEF Surjection
    <3> HIDE DEF k
    <3>3. IsFiniteSet(D)
      BY <3>1, FS_Interval
    <3>4. C[w] = E
      OBVIOUS
    <3> HIDE DEF D, h, E
    <3>5. IsFiniteSet(E)
      BY <3>2, <3>3, FS_Surjection
    <3> QED
      BY <3>4, <3>5
  <2>2. DOMAIN C = DOMAIN uni /\ DOMAIN lid_w = UNION {C[w] : w \in DOMAIN C}
    BY LemWeightsAre
  <2> HIDE DEF C
  <2> QED
    BY <1>1, <2>1, <2>2, UnionFinite
<1>10. Sum(f) = Scale * Sum(uni)
  <2>1. (\A w \in DOMAIN uni : uni[w] \in Nat) /\ Scale \in Nat
    BY GroupLemAssumption DEF InputsOK
  <2> QED
    BY <1>1, <2>1, SumScaled
<1>11. DOMAIN X = DOMAIN lid_w /\ DOMAIN Z = DOMAIN uni /\ DOMAIN f = DOMAIN uni
  OBVIOUS
<1> HIDE DEF X, Z, f
<1>12. Cardinality(UNION {X[l] : l \in DOMAIN X}) = Sum(lid_w)
  BY <1>4, <1>5, <1>9, <1>11, SumOfParts
<1>13. Cardinality(UNION {Z[w] : w \in DOMAIN Z}) = Sum(f)
  BY <1>1, <1>6, <1>7, <1>11, SumOfParts
<1> QED
  BY <1>8, <1>10, <1>12, <1>13

(* Every message belongs to a group of the file when there is no threshold.*)
THEOREM SharesAddUp == Spec => []HomonymsShareCounts
<1>1. IInv /\ WInv => HomonymsShareCounts
  <2> SUFFICES ASSUME IInv, WInv, finished, threshold = 0
               PROVE  Sum([a \in DOMAIN out |-> out[a].weight]) = Scale * Sum(grams)
    BY AllLemmasWeigh DEF HomonymsShareCounts, IInv
  <2>1. /\ todo = {} /\ msg.cases = <<>> /\ Shown = Msgs /\ \A t : ShownAs(t) = All(t)
        /\ InputsOK /\ Scale \in Nat
    BY GroupsNow, GroupLemAssumption DEF IInv, TypeOK, ShownAs, All
  <2> DEFINE u(a) == out[a].group.lids
             X == [a \in DOMAIN out |-> UnitsOf(All(u(a)))]
             f == [a \in DOMAIN out |-> out[a].weight]
  <2>2. IsFiniteSet(DOMAIN out) /\ \A a \in DOMAIN out : u(a) \in LidsSet /\ a \in Nat
    <3> DEFINE k == Len(out)
               R == [group : [lids : LidsSet, cases : Seq(CaseSet)], weight : Nat]
    <3>1. out \in Seq(R) /\ \A r \in R : r.group.lids \in LidsSet
      BY DEF IInv, TypeOK
    <3> HIDE DEF R
    <3>2. k \in Nat /\ DOMAIN out = 1..k /\ \A a \in DOMAIN out : out[a] \in R
      BY <3>1
    <3> HIDE DEF k
    <3> QED
      BY <3>1, <3>2, FS_Interval
  <2>3. \A a \in DOMAIN out : IsFiniteSet(X[a]) /\ f[a] = Cardinality(X[a])
    <3> TAKE a \in DOMAIN out
    <3>1. out[a].weight = WeightOf(All(u(a)))
      BY <2>1 DEF WInv, OutWeights
    <3>2. All(u(a)) \in SUBSET Msgs
      BY DEF All
    <3> QED
      BY <2>1, <3>1, <3>2, UnitsFinite DEF WeightOf
  <2>4. ASSUME NEW a \in DOMAIN out, NEW b \in DOMAIN out, a # b PROVE X[a] \cap X[b] = {}
    <3>1. u(a) # u(b)
      <4>1. u(a) \in [1..arity -> Nat] /\ ~Precedes(u(a), u(a))
        <5>1. u(a) \in [1..arity -> Nat]
          BY <2>2, GroupLemAssumption DEF LidsSet
        <5> HIDE DEF u
        <5> QED
          BY <2>1, <5>1, PrecedesOrder DEF InputsOK
      <4>2. a < b \/ b < a
        BY <2>2, <2>4
      <4>3. Precedes(u(a), u(b)) \/ Precedes(u(b), u(a))
        BY <4>2 DEF IInv, GroupedOnce
      <4> QED
        BY <4>1, <4>3
    <3>2. \A x \in X[a] : Lids(x[1]) = u(a)
      BY DEF UnitsOf, All
    <3>3. \A x \in X[b] : Lids(x[1]) = u(b)
      BY DEF UnitsOf, All
    <3> HIDE DEF u, X
    <3> QED
      BY <3>1, <3>2, <3>3
  <2>5. UNION {X[a] : a \in DOMAIN X} = UnitsOf(Msgs)
    <3>1. ASSUME NEW m \in Msgs PROVE \E a \in DOMAIN out : m \in All(u(a))
      <4> DEFINE t == Lids(m)
      <4>1. t \in LidsSet /\ m \in All(t) /\ All(t) \in SUBSET Msgs
        BY <2>1, MessagesAre DEF All
      <4>2. Closed(t)
        BY <2>1, <4>1 DEF Closed
      <4>3. WeightOf(ShownAs(t)) > threshold * Scale
        <5>1. WeightOf(ShownAs(t)) > 0
          BY <2>1, <4>1, UnitsFinite
        <5> QED
          BY <2>1, <5>1
      <4>4. PICK a \in DOMAIN out : u(a) = t
        BY <4>1, <4>2, <4>3 DEF WInv, Sifted
      <4> QED
        BY <4>1, <4>4
    <3>2. \A a \in DOMAIN out : All(u(a)) \subseteq Msgs
      BY DEF All
    <3> HIDE DEF u
    <3> QED
      BY <3>1, <3>2 DEF UnitsOf
  <2>6. DOMAIN X = DOMAIN out /\ DOMAIN f = DOMAIN out
    OBVIOUS
  <2> HIDE DEF X, f
  <2>7. Cardinality(UNION {X[a] : a \in DOMAIN X}) = Sum(f)
    BY <2>2, <2>3, <2>4, <2>6, SumOfParts
  <2>8. WeightOf(Msgs) = Scale * Sum(grams)
    BY <2>1, AllWeigh
  <2> QED
    BY <2>5, <2>7, <2>8 DEF f, WeightOf
<1> QED
  BY <1>1, WeightsInvariance, PTL

-----------------------------------------------------------------------------
(* A group does not outweigh its lemmas.                                   *)
CountsOK ==
  \A p \in 1..arity : \A w \in DOMAIN uni :
    Sum([g \in {h \in DOMAIN grams : h[p] = w} |-> grams[g]]) <= uni[w]

LEMMA SumMono ==
  ASSUME NEW D, IsFiniteSet(D), NEW f, NEW h, DOMAIN f = D, DOMAIN h = D,
         \A x \in D : f[x] \in Nat /\ h[x] \in Nat /\ f[x] <= h[x]
  PROVE  Sum(f) <= Sum(h)
<1> DEFINE A == UNION {{x} \X (1..f[x]) : x \in D}
           X == [x \in D |-> {x} \X (1..h[x])]
           B == UNION {X[x] : x \in DOMAIN X}
<1>1. \A x \in D : IsFiniteSet(X[x])
  BY RowSize
<1>2. B = UNION {{x} \X (1..h[x]) : x \in D} /\ DOMAIN X = D
  OBVIOUS
<1>3. A \subseteq B
  <2>1. \A x \in D : 1..f[x] \subseteq 1..h[x]
    OBVIOUS
  <2> QED
    BY <1>2, <2>1
<1> HIDE DEF X
<1>4. IsFiniteSet(B)
  BY <1>1, <1>2, UnionFinite
<1>5. Sum(f) = Cardinality(A) /\ Sum(h) = Cardinality(B)
  BY <1>2 DEF Sum
<1> HIDE DEF A, B
<1> QED
  BY <1>3, <1>4, <1>5, FS_Subset

(* The factors of a product but one, and the arithmetic of a share.        *)
LEMMA ShareBound ==
  ASSUME NEW u \in Nat, NEW L \in Nat \ {0}, NEW M \in Nat, NEW T \in Nat, NEW N \in Nat,
         NEW c \in Nat, NEW n \in Nat, N <= M, u * (L * M) = (c * L) * n
  PROVE  u * (T * N) <= (c * T) * n
<1>1. u * M = c * n
  <2>1. L * (u * M) = L * (c * n)
    BY SMT
  <2>2. u * M \in Nat /\ c * n \in Nat
    BY SMT
  <2>3. \A x, y \in Nat : L * x = L * y => x = y
    BY SMT
  <2> QED
    BY <2>1, <2>2, <2>3
<1>2. u * N <= u * M
  BY SMT
<1>3. u * N \in Nat /\ c * n \in Nat
  BY SMT
<1>4. \A x, y \in Nat : x <= y => T * x <= T * y
  BY SMT
<1>5. T * (u * N) <= T * (c * n)
  BY <1>1, <1>2, <1>3, <1>4
<1>6. T * (u * N) = u * (T * N) /\ T * (c * n) = (c * T) * n
  BY SMT
<1> QED
  BY <1>5, <1>6

(* Scale, divided by the number of homonyms of w.                          *)
PerHomonym(w) == Scale \div Len(lems[w])

LEMMA PerHomonymIs ==
  ASSUME InputsOK, NEW w \in DOMAIN uni
  PROVE  /\ PerHomonym(w) \in Nat /\ Len(lems[w]) \in Nat \ {0}
         /\ Scale = PerHomonym(w) * Len(lems[w])
         /\ PerLemma(w) = PerHomonym(w) * uni[w]
<1> DEFINE L == Len(lems[w])
<1>1. L \in Nat \ {0} /\ uni[w] \in Nat
  BY DEF InputsOK
<1>2. PICK j \in 1..Scale : Scale = j * (L * L * L)
  BY DEF InputsOK
<1> HIDE DEF L
<1>3. j \in Nat
  BY GroupLemAssumption
<1> DEFINE c == j * (L * L)
<1>4. c \in Nat /\ Scale = c * L
  <2>1. L * L \in Nat /\ j * (L * L) \in Nat
    BY <1>1, <1>3, SMT
  <2>2. j * (L * L * L) = (j * (L * L)) * L
    BY <1>1, <1>3, SMT
  <2> QED
    BY <1>2, <2>1, <2>2
<1> HIDE DEF c
<1>5. PerHomonym(w) = c
  BY <1>1, <1>4, ExactQuotient DEF PerHomonym, L
<1>6. PerLemma(w) = c * uni[w]
  <2>1. c * uni[w] \in Nat /\ Scale * uni[w] = (c * uni[w]) * L
    BY <1>1, <1>4, SMT
  <2>2. PerLemma(w) = (Scale * uni[w]) \div L
    BY DEF PerLemma, L
  <2> QED
    BY <1>1, <2>1, <2>2, ExactQuotient
<1> QED
  BY <1>1, <1>4, <1>5, <1>6 DEF L

(* The readings of a word tuple as t weigh no more than the share of its   *)
(* count that the p-th word has for t[p].                                  *)
LEMMA GramWithin ==
  ASSUME InputsOK, NEW t \in LidsSet, NEW g \in DOMAIN grams, NEW p \in 1..arity
  PROVE  Unit(g) * Ways(t, g) <= (PerHomonym(g[p]) * Times(t[p], lems[g[p]])) * grams[g]
<1> DEFINE Ls == Lengths(g)
           Ts == [q \in 1..arity |-> Times(t[q], lems[g[q]])]
           w == g[p]
<1>1. /\ arity \in {2, 3} /\ 1 \in 1..arity /\ 2 \in 1..arity /\ (arity = 3 => 3 \in 1..arity)
      /\ \A q \in 1..arity : g[q] \in DOMAIN uni
  <2>1. arity \in {2, 3}
    BY DEF InputsOK
  <2>2. \A q \in 1..arity : g[q] \in DOMAIN uni
    BY ReadingsAre
  <2> QED
    BY <2>1, <2>2
<1>2. \A q \in 1..arity : Ls[q] = Len(lems[g[q]]) /\ Ls[q] \in Nat \ {0}
  BY LengthsAre
<1>3. \A q \in 1..arity : Ts[q] \in Nat /\ Ts[q] <= Ls[q]
  <2> TAKE q \in 1..arity
  <2> DEFINE S == {i \in DOMAIN lems[g[q]] : lems[g[q]][i] = t[q]}
             D == DOMAIN lems[g[q]]
             k == Ls[q]
  <2>1. k \in Nat /\ D = 1..k
    <3>1. lems[g[q]] \in Seq(Lem)
      BY <1>1 DEF InputsOK
    <3> QED
      BY <1>2, <3>1
  <2>2. Ts[q] = Cardinality(S) /\ S \subseteq D /\ Ts[q] \in Nat
    BY <1>1, TimesType
  <2> HIDE DEF S, D, k, Ts
  <2>3. IsFiniteSet(D) /\ Cardinality(D) = k
    <3>1. IsFiniteSet(1..k) /\ Cardinality(1..k) = k
      BY <2>1, FS_Interval
    <3> QED
      BY <2>1, <3>1
  <2>4. Cardinality(S) <= Cardinality(D)
    BY <2>2, <2>3, FS_Subset
  <2> QED
    BY <2>2, <2>3, <2>4 DEF k
<1>4. \A a, b, c, d \in Nat : a <= c /\ b <= d => a * b <= c * d
  <2> SUFFICES ASSUME NEW a \in Nat, NEW b \in Nat, NEW c \in Nat, NEW d \in Nat, a <= c, b <= d
               PROVE  a * b <= c * d
    OBVIOUS
  <2>1. a * b <= c * b
    BY SMT
  <2>2. c * b <= c * d
    BY SMT
  <2>3. a * b \in Nat /\ c * b \in Nat /\ c * d \in Nat
    BY SMT
  <2> QED
    BY <2>1, <2>2, <2>3
<1>5. Product(Ls) = IF arity = 2 THEN Ls[1] * Ls[2] ELSE Ls[1] * Ls[2] * Ls[3]
  BY DEF Product
<1>6. Ways(t, g) = IF arity = 2 THEN Ts[1] * Ts[2] ELSE Ts[1] * Ts[2] * Ts[3]
  BY DEF Ways, Product
<1>7. \A a, b, c \in Nat : /\ a * b \in Nat /\ a * b = b * a
                           /\ a * b * c = a * (b * c) /\ a * b * c = b * (a * c)
                           /\ a * b * c = c * (a * b)
  BY SMT
<1>8. \E M, N \in Nat : N <= M /\ Product(Ls) = Ls[p] * M /\ Ways(t, g) = Ts[p] * N
  <2> HIDE DEF Ls, Ts
  <2>1. CASE arity = 2
    <3>1. \A q \in {1, 2} : Ts[q] \in Nat /\ Ls[q] \in Nat /\ Ts[q] <= Ls[q]
      BY <1>1, <1>2, <1>3
    <3>2. CASE p = 1
      BY <1>5, <1>6, <2>1, <3>1, <3>2
    <3>3. CASE p = 2
      <4>1. Ls[1] * Ls[2] = Ls[2] * Ls[1] /\ Ts[1] * Ts[2] = Ts[2] * Ts[1]
        BY <1>7, <3>1
      <4> QED
        BY <1>5, <1>6, <2>1, <3>1, <3>3, <4>1
    <3> QED
      BY <2>1, <3>2, <3>3
  <2>2. CASE arity = 3
    <3> DEFINE l1 == Ls[1]
               l2 == Ls[2]
               l3 == Ls[3]
               t1 == Ts[1]
               t2 == Ts[2]
               t3 == Ts[3]
    <3>1. /\ l1 \in Nat /\ l2 \in Nat /\ l3 \in Nat /\ t1 \in Nat /\ t2 \in Nat /\ t3 \in Nat
          /\ t1 <= l1 /\ t2 <= l2 /\ t3 <= l3
      BY <1>1, <1>2, <1>3, <2>2
    <3>2. Product(Ls) = l1 * l2 * l3 /\ Ways(t, g) = t1 * t2 * t3
      BY <1>5, <1>6, <2>2
    <3>3. /\ p = 1 => Ls[p] = l1 /\ Ts[p] = t1
          /\ p = 2 => Ls[p] = l2 /\ Ts[p] = t2
          /\ p = 3 => Ls[p] = l3 /\ Ts[p] = t3
          /\ p = 1 \/ p = 2 \/ p = 3
      BY <2>2
    <3> HIDE DEF l1, l2, l3, t1, t2, t3
    <3>4. CASE p = 1
      <4>1. t2 * t3 <= l2 * l3 /\ t2 * t3 \in Nat /\ l2 * l3 \in Nat
        BY <1>4, <1>7, <3>1
      <4>2. l1 * l2 * l3 = l1 * (l2 * l3) /\ t1 * t2 * t3 = t1 * (t2 * t3)
        BY <1>7, <3>1
      <4> QED
        BY <3>2, <3>3, <3>4, <4>1, <4>2
    <3>5. CASE p = 2
      <4>1. t1 * t3 <= l1 * l3 /\ t1 * t3 \in Nat /\ l1 * l3 \in Nat
        BY <1>4, <1>7, <3>1
      <4>2. l1 * l2 * l3 = l2 * (l1 * l3) /\ t1 * t2 * t3 = t2 * (t1 * t3)
        BY <1>7, <3>1
      <4> QED
        BY <3>2, <3>3, <3>5, <4>1, <4>2
    <3>6. CASE p = 3
      <4>1. t1 * t2 <= l1 * l2 /\ t1 * t2 \in Nat /\ l1 * l2 \in Nat
        BY <1>4, <1>7, <3>1
      <4>2. l1 * l2 * l3 = l3 * (l1 * l2) /\ t1 * t2 * t3 = t3 * (t1 * t2)
        BY <1>7, <3>1
      <4> QED
        BY <3>2, <3>3, <3>6, <4>1, <4>2
    <3> QED
      BY <3>3, <3>4, <3>5, <3>6
  <2> QED
    BY <1>1, <2>1, <2>2
<1>9. PICK M \in Nat : \E N \in Nat : N <= M /\ Product(Ls) = Ls[p] * M /\ Ways(t, g) = Ts[p] * N
  BY <1>8
<1>10. PICK N \in Nat : N <= M /\ Product(Ls) = Ls[p] * M /\ Ways(t, g) = Ts[p] * N
  BY <1>9
<1> DEFINE L == Ls[p]
           T == Ts[p]
           u == Unit(g)
           n == grams[g]
           c == PerHomonym(w)
<1>11. /\ L \in Nat \ {0} /\ T \in Nat /\ u \in Nat /\ n \in Nat /\ c \in Nat
       /\ Scale = c * L /\ T = Times(t[p], lems[w])
  <2>1. Ls[p] = Len(lems[w]) /\ Ls[p] \in Nat \ {0} /\ Ts[p] \in Nat /\ w \in DOMAIN uni
    BY <1>1, <1>2, <1>3
  <2>2. Unit(g) \in Nat /\ grams[g] \in Nat
    BY SharesAre DEF InputsOK
  <2>3. PerHomonym(w) \in Nat /\ Scale = PerHomonym(w) * Len(lems[w])
    BY <2>1, PerHomonymIs
  <2> HIDE DEF Ls
  <2> QED
    BY <2>1, <2>2, <2>3
<1>12. u * (L * M) = (c * L) * n
  <2>1. u * Product(Ls) = Scale * n
    BY SharesAre
  <2> HIDE DEF Ls, L, u, n, c
  <2> QED
    BY <1>10, <1>11, <2>1 DEF L
<1>13. Ways(t, g) = T * N
  BY <1>10
<1> HIDE DEF L, T, u, n, c
<1>14. u * (T * N) <= (c * T) * n
  BY <1>10, <1>11, <1>12, ShareBound
<1> QED
  BY <1>11, <1>13, <1>14 DEF u, c, n

LEMMA GroupWithin ==
  ASSUME InputsOK, CountsOK, NEW t \in LidsSet, NEW p \in 1..arity, All(t) # {}
  PROVE  WeightOf(All(t)) <= lid_w[t[p]] /\ lid_w[t[p]] \in Nat
<1> DEFINE D == DOMAIN grams
           U == DOMAIN uni
           T(w) == Times(t[p], lems[w])
           k(w) == PerHomonym(w) * T(w)
           f == [g \in D |-> Unit(g) * Ways(t, g)]
           h == [g \in D |-> k(g[p]) * grams[g]]
           G == [w \in U |-> PerLemma(w) * T(w)]
           row(g) == {g} \X (1..h[g])
           At(w) == {g \in D : g[p] = w}
           X == [w \in U |-> UNION {row(g) : g \in At(w)}]
           s == [w \in U |-> Cardinality(X[w])]
<1>1. IsFiniteSet(D) /\ IsFiniteSet(U) /\ \A w \in U : IsFiniteSet(At(w))
  BY FS_Subset DEF InputsOK
<1>2. WeightOf(All(t)) = Sum(f)
  <2> DEFINE e == [g \in D |-> (Scale * grams[g] * Ways(t, g)) \div Product(Lengths(g))]
  <2>1. Joint(t) = Sum(e)
    BY DEF Joint, Ways, Lengths
  <2>2. e = f
    BY SharesAre, WaysAre
  <2> QED
    BY <2>1, <2>2, JointIs
<1>3. lid_w[t[p]] = Sum(G)
  <2>1. PICK m \in Msgs : Lids(m) = t
    BY DEF All
  <2>2. m[1][p] \in U /\ m[2][p] \in DOMAIN lems[m[1][p]] /\ t[p] = lems[m[1][p]][m[2][p]]
    BY <2>1, MessagesAre, ReadingsAre DEF Lids
  <2>3. t[p] \in UNION {{lems[w][i] : i \in DOMAIN lems[w]} : w \in U}
    BY <2>2
  <2> QED
    BY <2>3, LemWeightsAre
<1>4. \A w \in U : k(w) \in Nat /\ k(w) * uni[w] = G[w] /\ G[w] \in Nat
  <2> TAKE w \in U
  <2>1. PerHomonym(w) \in Nat /\ PerLemma(w) = PerHomonym(w) * uni[w] /\ T(w) \in Nat /\ uni[w] \in Nat
    BY PerHomonymIs, TimesType DEF InputsOK
  <2>2. G[w] = PerLemma(w) * T(w)
    OBVIOUS
  <2> HIDE DEF T, G
  <2>3. \A a, b, c \in Nat : (a * b) * c = (a * c) * b /\ a * b \in Nat /\ (a * b) * c \in Nat
    BY SMT
  <2> QED
    BY <2>1, <2>2, <2>3
<1>5. \A g \in D : g[p] \in U /\ grams[g] \in Nat
  BY ReadingsAre DEF InputsOK
<1>6. \A g \in D : f[g] \in Nat /\ h[g] \in Nat /\ f[g] <= h[g]
  <2> TAKE g \in D
  <2>1. f[g] <= h[g]
    BY GramWithin
  <2>2. Unit(g) \in Nat /\ Ways(t, g) \in Nat
    BY SharesAre, WaysAre
  <2>3. k(g[p]) \in Nat /\ grams[g] \in Nat
    BY <1>4, <1>5
  <2>4. h[g] = k(g[p]) * grams[g] /\ f[g] = Unit(g) * Ways(t, g)
    OBVIOUS
  <2> HIDE DEF h, f, k
  <2>5. \A a, b \in Nat : a * b \in Nat
    BY SMT
  <2> QED
    BY <2>1, <2>2, <2>3, <2>4, <2>5
<1>7. Sum(f) <= Sum(h)
  <2>1. DOMAIN f = D /\ DOMAIN h = D
    OBVIOUS
  <2> HIDE DEF f, h, D
  <2> QED
    BY <1>1, <1>6, <2>1, SumMono
(* The rows of h, sorted by the p-th word.                                 *)
<1>8. ASSUME NEW w \in U PROVE IsFiniteSet(X[w]) /\ s[w] <= G[w] /\ s[w] \in Nat
  <2> DEFINE A == At(w)
             c == [g \in A |-> grams[g]]
             d == [g \in A |-> k(w) * c[g]]
             R == [g \in A |-> row(g)]
  <2>1. \A g \in A : d[g] = h[g] /\ d[g] \in Nat /\ c[g] \in Nat
    BY <1>5, <1>6
  <2>2. X[w] = UNION {R[g] : g \in DOMAIN R} /\ X[w] = UNION {{g} \X (1..d[g]) : g \in DOMAIN d}
    <3>1. X[w] = UNION {row(g) : g \in A}
      OBVIOUS
    <3>2. DOMAIN R = A /\ DOMAIN d = A /\ \A g \in A : R[g] = row(g)
      OBVIOUS
    <3>3. \A g \in A : row(g) = {g} \X (1..d[g])
      BY <2>1
    <3> HIDE DEF X, A, R, d, row
    <3>4. {R[g] : g \in DOMAIN R} = {row(g) : g \in A}
      BY <3>2
    <3>5. {{g} \X (1..d[g]) : g \in DOMAIN d} = {row(g) : g \in A}
      BY <3>2, <3>3
    <3> QED
      BY <3>1, <3>4, <3>5
  <2>3. IsFiniteSet(A) /\ DOMAIN R = A /\ DOMAIN c = A
    BY <1>1
  <2>4. \A g \in A : IsFiniteSet(R[g])
    BY <2>1, RowSize
  <2>5. IsFiniteSet(X[w])
    <3> HIDE DEF R, X, A
    <3> QED
      BY <2>2, <2>3, <2>4, UnionFinite
  <2>6. s[w] = Sum(d)
    BY <2>2 DEF Sum
  <2>7. k(w) \in Nat
    BY <1>4
  <2>8. Sum(c) <= uni[w]
    BY DEF CountsOK
  <2>9. d = [g \in DOMAIN c |-> k(w) * c[g]]
    OBVIOUS
  <2>10. G[w] = k(w) * uni[w] /\ uni[w] \in Nat
    BY <1>4 DEF InputsOK
  <2> DEFINE kw == k(w)
  <2> HIDE DEF A, c, k, G, s, X
  <2>11. Sum(d) = kw * Sum(c)
    <3> HIDE DEF d
    <3>1. \A g \in DOMAIN c : c[g] \in Nat
      BY <2>1, <2>3
    <3> HIDE DEF kw
    <3>2. Sum([g \in DOMAIN c |-> kw * c[g]]) = kw * Sum(c)
      BY <2>3, <2>7, <3>1, SumScaled DEF kw
    <3> QED
      BY <2>9, <3>2 DEF kw
  <2>12. Sum(c) \in Nat
    BY <2>1, <2>3, SumType
  <2> HIDE DEF kw, d
  <2>13. \A a, b, e \in Nat : a <= b => e * a <= e * b /\ e * a \in Nat
    BY SMT
  <2>14. kw \in Nat /\ G[w] = kw * uni[w]
    BY <2>7, <2>10 DEF kw
  <2> QED
    BY <2>5, <2>6, <2>8, <2>10, <2>11, <2>12, <2>13, <2>14
<1>9. Sum(h) = Sum(s)
  <2>1. UNION {X[w] : w \in DOMAIN X} = UNION {row(g) : g \in D}
    BY <1>5
  <2>2. Sum(h) = Cardinality(UNION {row(g) : g \in D})
    BY DEF Sum
  <2>3. \A w, v \in U : w # v => X[w] \cap X[v] = {}
    <3>1. \A w \in U : \A x \in X[w] : x[1][p] = w
      OBVIOUS
    <3> HIDE DEF X
    <3> QED
      BY <3>1
  <2>4. DOMAIN X = U /\ DOMAIN s = U /\ \A w \in U : s[w] = Cardinality(X[w])
    OBVIOUS
  <2>5. \A w \in U : IsFiniteSet(X[w])
    BY <1>8
  <2> HIDE DEF X, s, U
  <2>6. Cardinality(UNION {X[w] : w \in DOMAIN X}) = Sum(s)
    BY <1>1, <2>3, <2>4, <2>5, SumOfParts
  <2> QED
    BY <2>1, <2>2, <2>6
<1>10. Sum(s) <= Sum(G)
  <2>1. DOMAIN s = U /\ DOMAIN G = U
    OBVIOUS
  <2>2. \A w \in U : s[w] \in Nat /\ G[w] \in Nat /\ s[w] <= G[w]
    BY <1>4, <1>8
  <2> HIDE DEF s, G, U
  <2> QED
    BY <1>1, <2>1, <2>2, SumMono
<1>11. Sum(f) \in Nat /\ Sum(h) \in Nat /\ Sum(G) \in Nat
  <2>1. DOMAIN f = D /\ DOMAIN h = D /\ DOMAIN G = U /\ \A w \in U : G[w] \in Nat
    BY <1>4
  <2> HIDE DEF f, h, G, D, U
  <2> QED
    BY <1>1, <1>6, <2>1, SumType
<1> HIDE DEF f, h, G, s
<1> QED
  BY <1>2, <1>3, <1>7, <1>9, <1>10, <1>11

(* What a word tuple counts its words count too, so no group of lemmas     *)
(* weighs more than one of its lemmas.                                     *)
THEOREM GroupsWithinLemmas == Spec => []GroupWithinLemmas
<1>1. Init => CountsOK
  <2> SUFFICES ASSUME Init PROVE CountsOK
    OBVIOUS
  <2>1. PICK job \in Jobs : arity = job.arity /\ uni = job.uni /\ grams = job.grams
    BY DEF Init
  <2> QED
    BY <2>1, CountsAssumption DEF CountsOK
<1>2. CountsOK /\ [Next]_vars => CountsOK'
  <2> SUFFICES ASSUME CountsOK, [Next]_vars PROVE CountsOK'
    OBVIOUS
  <2>1. UNCHANGED inputs
    BY DEF Next, AddCase, NewGroup, Finish, Terminated, vars
  <2> QED
    BY <2>1 DEF CountsOK, inputs
<1>3. IInv /\ WInv /\ CountsOK => GroupWithinLemmas
  <2> SUFFICES ASSUME IInv, WInv, CountsOK, NEW a \in DOMAIN out, NEW p \in 1..arity
               PROVE  out[a].weight <= lid_w[out[a].group.lids[p]]
    BY DEF GroupWithinLemmas
  <2> DEFINE t == out[a].group.lids
  <2>1. t \in LidsSet /\ out[a].weight \in Nat
    <3> DEFINE R == [group : [lids : LidsSet, cases : Seq(CaseSet)], weight : Nat]
    <3>1. out \in Seq(R) /\ \A r \in R : r.group.lids \in LidsSet /\ r.weight \in Nat
      BY DEF IInv, TypeOK
    <3> HIDE DEF R
    <3> QED
      BY <3>1
  <2>2. out[a].weight = WeightOf(ShownAs(t))
    BY DEF WInv, OutWeights
  <2>3. ShownAs(t) \subseteq All(t) /\ All(t) \in SUBSET Msgs /\ InputsOK
    BY GroupsNow DEF ShownAs, All, IInv
  <2>4. UnitsOf(ShownAs(t)) \subseteq UnitsOf(All(t))
    BY <2>3 DEF UnitsOf
  <2>5. WeightOf(ShownAs(t)) <= WeightOf(All(t)) /\ WeightOf(All(t)) \in Nat
    <3>1. IsFiniteSet(UnitsOf(All(t))) /\ WeightOf(All(t)) \in Nat
      BY <2>3, UnitsFinite
    <3> QED
      BY <2>4, <3>1, FS_Subset DEF WeightOf
  <2>6. All(t) # {}
    <3>1. threshold \in Nat /\ Scale \in Nat
      BY GroupLemAssumption DEF IInv, InputsOK
    <3>2. threshold * Scale \in Nat
      BY <3>1
    <3>3. out[a].weight > threshold * Scale
      BY DEF WInv, OutWeights
    <3>4. WeightOf(ShownAs(t)) # 0
      BY <2>1, <2>2, <3>2, <3>3
    <3>5. ShownAs(t) # {}
      BY <3>4, NoWeight
    <3> QED
      BY <2>3, <3>5
  <2>7. WeightOf(All(t)) <= lid_w[t[p]] /\ lid_w[t[p]] \in Nat
    <3> HIDE DEF t
    <3> QED
      BY <2>1, <2>3, <2>6, GroupWithin
  <2> QED
    BY <2>1, <2>2, <2>5, <2>7
<1> QED
  BY <1>1, <1>2, <1>3, WeightsInvariance, PTL DEF Spec

=============================================================================
