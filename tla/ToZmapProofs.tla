---------------------------- MODULE ToZmapProofs ----------------------------
(***************************************************************************)
(* The map to_zmap writes: its entries are whole, a longer tuple hides a   *)
(* shorter one and never the other way round, a missing string or count    *)
(* stops the export, and self-delimiting lemma strings lose nothing, for   *)
(* any well-formed files.                                                  *)
(***************************************************************************)
EXTENDS ToZmap, WellFoundedInduction, FiniteSetTheorems, TLAPS

(* Induction on the natural numbers, for a set of them.                    *)
LEMMA Least ==
  ASSUME NEW T, T \subseteq Nat, T # {}
  PROVE  \E x \in T : \A m \in T : x <= m
<1> DEFINE R == {ss \in Nat \X Nat : ss[1] < ss[2]}
<1>1. IsWellFoundedOn(R, Nat)
  BY NatLessThanWellFounded DEF OpToRel
<1> HIDE DEF R
<1>2. \E x \in T : \A m \in T : ~(<<m, x>> \in R)
  BY <1>1, WFMin
<1>3. \E x \in T : \A m \in T : ~(m < x)
  BY <1>2 DEF R
<1> QED
  BY <1>3

-----------------------------------------------------------------------------
LEMMA CasesFacts ==
  ASSUME NEW k, NEW cases \in CasesOf(k)
  PROVE  /\ Len(cases) \in Nat \ {0} /\ DOMAIN cases = 1..Len(cases)
         /\ \A i \in DOMAIN cases : cases[i].count \in Nat /\ cases[i].wids \in [1..k -> Nat]
<1> DEFINE C == [wids : [1..k -> Nat], count : Nat]
<1>1. cases \in Seq(C) /\ cases # <<>>
  BY DEF CasesOf
<1>2. \A c \in C : c.count \in Nat /\ c.wids \in [1..k -> Nat]
  OBVIOUS
<1> HIDE DEF C
<1> QED
  BY <1>1, <1>2

(* std::max_element returns an element no other exceeds and none before it *)
(* equals.                                                                 *)
MostOf(cases, m) == {i \in 1..m : \A j \in 1..m : cases[j].count <= cases[i].count}

LEMMA MostExists ==
  ASSUME NEW k, NEW cases \in CasesOf(k), NEW m \in 1..Len(cases)
  PROVE  MostOf(cases, m) # {}
<1> DEFINE T == {l \in 1..Len(cases) : MostOf(cases, l) = {}}
<1>1. /\ Len(cases) \in Nat /\ DOMAIN cases = 1..Len(cases)
      /\ \A i \in 1..Len(cases) : cases[i].count \in Nat
  BY CasesFacts
<1> SUFFICES ASSUME T # {} PROVE FALSE
  OBVIOUS
<1>a. T \subseteq Nat
  OBVIOUS
<1>2. PICK l \in T : \A i \in T : l <= i
  <2> HIDE DEF T
  <2> QED
    BY <1>a, Least
<1>3. l \in 1..Len(cases) /\ MostOf(cases, l) = {}
  OBVIOUS
<1>4. CASE l = 1
  <2>1. 1 \in MostOf(cases, 1)
    BY <1>1, <1>3, <1>4 DEF MostOf
  <2> QED
    BY <1>3, <1>4, <2>1
<1>5. CASE l # 1
  <2>1. l - 1 \in 1..Len(cases) /\ l - 1 < l
    BY <1>1, <1>3, <1>5
  <2>2. l - 1 \notin T
    <3> HIDE DEF T
    <3> QED
      BY <1>2, <1>3, <2>1
  <2>3. PICK i \in 1..(l - 1) : \A j \in 1..(l - 1) : cases[j].count <= cases[i].count
    BY <2>1, <2>2 DEF MostOf
  <2>4. i \in 1..l /\ i \in 1..Len(cases) /\ l \in 1..Len(cases)
        /\ (\A j \in 1..l : j \in 1..(l - 1) \/ j = l)
        /\ \A j \in 1..l : j \in 1..Len(cases)
    BY <1>1, <1>3, <2>3
  <2>5. CASE cases[l].count <= cases[i].count
    <3>1. i \in MostOf(cases, l)
      BY <2>3, <2>4, <2>5 DEF MostOf
    <3> QED
      BY <1>3, <3>1
  <2>6. CASE ~(cases[l].count <= cases[i].count)
    <3>1. \A j \in 1..l : cases[j].count <= cases[l].count
      BY <1>1, <2>3, <2>4, <2>6
    <3>2. l \in MostOf(cases, l)
      BY <2>4, <3>1 DEF MostOf
    <3> QED
      BY <1>3, <3>2
  <2> QED
    BY <2>5, <2>6
<1> QED
  BY <1>4, <1>5

LEMMA FirstOfMostIsText ==
  ASSUME NEW k, NEW cases \in CasesOf(k), NEW g, g.cases = cases
  PROVE  /\ FirstOfMost(cases) \in DOMAIN cases
         /\ IsText(g, FirstOfMost(cases))
         /\ \A i \in DOMAIN cases : IsText(g, i) => i = FirstOfMost(cases)
<1> DEFINE last == Len(cases)
           First(i) == \A j \in DOMAIN cases : \/ cases[j].count < cases[i].count
                                               \/ cases[j].count = cases[i].count /\ i <= j
<1>1. /\ last \in Nat \ {0} /\ DOMAIN cases = 1..last
      /\ \A i \in 1..last : cases[i].count \in Nat
  BY CasesFacts
<1>2. \E i \in DOMAIN cases : First(i)
  <2>1. MostOf(cases, last) # {} /\ MostOf(cases, last) \subseteq Nat
    BY <1>1, MostExists DEF MostOf
  <2>2. PICK i \in MostOf(cases, last) : \A j \in MostOf(cases, last) : i <= j
    BY <2>1, Least
  <2>3. i \in 1..last /\ \A j \in 1..last : cases[j].count <= cases[i].count
    BY DEF MostOf
  <2>4. ASSUME NEW j \in 1..last, cases[j].count = cases[i].count PROVE i <= j
    <3>1. j \in MostOf(cases, last)
      BY <2>3, <2>4 DEF MostOf
    <3> QED
      BY <2>2, <3>1
  <2>5. First(i)
    BY <1>1, <2>3, <2>4
  <2> QED
    BY <1>1, <2>3, <2>5
<1> DEFINE f == FirstOfMost(cases)
<1>3. f \in DOMAIN cases /\ First(f)
  BY <1>2 DEF FirstOfMost
<1>4. ASSUME NEW i \in DOMAIN cases PROVE IsText(g, i) <=> First(i)
  <2> DEFINE c(j) == cases[j].count
  <2>1. i \in 1..last /\ i \in Nat /\ \A j \in 1..last : c(j) \in Nat /\ j \in Nat
    BY <1>1
  <2>2. IsText(g, i) <=> (\A j \in 1..last : c(j) <= c(i)) /\ (\A j \in 1..(i - 1) : c(j) < c(i))
    BY <1>1 DEF IsText
  <2>3. First(i) <=> \A j \in 1..last : c(j) < c(i) \/ (c(j) = c(i) /\ i <= j)
    BY <1>1
  <2>4. \A j \in 1..(i - 1) : j \in 1..last /\ ~(i <= j)
    BY <2>1, <1>1
  <2>5. \A j \in 1..last : j \in 1..(i - 1) \/ i <= j
    BY <2>1
  <2> HIDE DEF c, First, last
  <2> QED
    BY <2>1, <2>2, <2>3, <2>4, <2>5
<1>5. ASSUME NEW i \in DOMAIN cases, NEW j \in DOMAIN cases, First(i), First(j) PROVE i = j
  <2>1. cases[i].count \in Nat /\ cases[j].count \in Nat /\ i \in Nat /\ j \in Nat
    BY <1>1
  <2>2. cases[j].count < cases[i].count \/ (cases[j].count = cases[i].count /\ i <= j)
    BY <1>5
  <2>3. cases[i].count < cases[j].count \/ (cases[i].count = cases[j].count /\ j <= i)
    BY <1>5
  <2> QED
    BY <2>1, <2>2, <2>3
<1>6. f \in DOMAIN cases /\ IsText(g, f) /\ \A i \in DOMAIN cases : IsText(g, i) => i = f
  <2> HIDE DEF f, First
  <2> QED
    BY <1>3, <1>4, <1>5
<1> QED
  BY <1>6

-----------------------------------------------------------------------------
(* What the assumptions say of the files.                                  *)
LEMMA LenIs ==
  ASSUME NEW k \in Nat, NEW f \in [1..k -> Nat]
  PROVE  f \in Seq(Nat) /\ Len(f) = k /\ DOMAIN f = 1..k
OBVIOUS

LEMMA ConcatIs ==
  ASSUME NEW S, NEW T, NEW s \in Seq(S), NEW t \in Seq(T)
  PROVE  /\ Len(s) \in Nat /\ DOMAIN s = 1..Len(s) /\ Len(t) \in Nat /\ DOMAIN t = 1..Len(t)
         /\ Len(s \o t) = Len(s) + Len(t) /\ DOMAIN (s \o t) = 1..(Len(s) + Len(t))
         /\ \A x \in 1..(Len(s) + Len(t)) :
              (s \o t)[x] = IF x <= Len(s) THEN s[x] ELSE t[x - Len(s)]
OBVIOUS

LEMMA GroupsIsSeq ==
  ASSUME files \in Tables
  PROVE  Len(Groups) \in Nat /\ DOMAIN Groups = 1..Len(Groups)
<1> DEFINE B == files.bifiltered
           T == files.trifiltered
<1>1. Groups = B \o T /\ B \in Seq(GroupsOf(2)) /\ T \in Seq(GroupsOf(3))
  BY TablesAssumption DEF Groups
<1> HIDE DEF B, T
<1>2. /\ DOMAIN (B \o T) = 1..(Len(B) + Len(T)) /\ Len(B) \in Nat /\ Len(T) \in Nat
      /\ Len(B \o T) = Len(B) + Len(T)
  BY <1>1, ConcatIs
<1> QED
  BY <1>1, <1>2

LEMMA GroupFacts ==
  ASSUME files \in Tables, NEW i \in DOMAIN Groups
  PROVE  /\ Len(Groups[i].lids) \in {2, 3}
         /\ Groups[i].lids \in [1..Len(Groups[i].lids) -> Nat]
         /\ Groups[i].cases \in CasesOf(Len(Groups[i].lids))
         /\ DOMAIN Groups[i].lids = 1..Len(Groups[i].lids)
<1> DEFINE g == Groups[i]
<1>1. files.bifiltered \in Seq(GroupsOf(2)) /\ files.trifiltered \in Seq(GroupsOf(3))
  BY TablesAssumption
<1>2. g \in GroupsOf(2) \/ g \in GroupsOf(3)
  <2>1. ASSUME NEW S, NEW T, NEW s \in Seq(S), NEW t \in Seq(T), NEW x \in DOMAIN (s \o t)
        PROVE  (s \o t)[x] \in S \/ (s \o t)[x] \in T
    <3>1. /\ DOMAIN (s \o t) = 1..(Len(s) + Len(t)) /\ Len(s) \in Nat /\ Len(t) \in Nat
          /\ (s \o t)[x] = IF x <= Len(s) THEN s[x] ELSE t[x - Len(s)]
      BY ConcatIs
    <3>2. x \in Int /\ (x <= Len(s) => x \in 1..Len(s))
          /\ (~(x <= Len(s)) => x - Len(s) \in 1..Len(t))
      BY <3>1
    <3> QED
      BY <3>1, <3>2
  <2> QED
    BY <1>1, <2>1 DEF Groups
<1>3. ASSUME NEW k \in {2, 3}, g \in GroupsOf(k)
      PROVE  /\ Len(g.lids) = k /\ g.lids \in [1..k -> Nat] /\ g.cases \in CasesOf(k)
             /\ DOMAIN g.lids = 1..k
  <2>1. g.lids \in [1..k -> Nat] /\ g.cases \in CasesOf(k) /\ k \in Nat
    BY <1>3 DEF GroupsOf
  <2> QED
    BY <2>1, LenIs
<1> HIDE DEF g
<1>4. Len(g.lids) \in {2, 3} /\ g.lids \in [1..Len(g.lids) -> Nat]
      /\ g.cases \in CasesOf(Len(g.lids)) /\ DOMAIN g.lids = 1..Len(g.lids)
  BY <1>2, <1>3
<1> QED
  BY <1>4 DEF g

LEMMA GroupsAreUnique ==
  ASSUME files \in Tables, NEW i \in DOMAIN Groups, NEW j \in DOMAIN Groups,
         Groups[i].lids = Groups[j].lids
  PROVE  i = j
<1> DEFINE B == files.bifiltered
           T == files.trifiltered
<1>1. B \in Seq(GroupsOf(2)) /\ T \in Seq(GroupsOf(3))
  BY TablesAssumption
<1>2. /\ \A a, b \in DOMAIN B : B[a].lids = B[b].lids => a = b
      /\ \A a, b \in DOMAIN T : T[a].lids = T[b].lids => a = b
  BY UniqueAssumption
<1>3. \A a \in DOMAIN B, b \in DOMAIN T : B[a].lids # T[b].lids
  <2> SUFFICES ASSUME NEW a \in DOMAIN B, NEW b \in DOMAIN T, B[a].lids = T[b].lids PROVE FALSE
    OBVIOUS
  <2>1. B[a] \in GroupsOf(2) /\ T[b] \in GroupsOf(3)
    BY <1>1
  <2>2. B[a].lids \in [1..2 -> Nat] /\ T[b].lids \in [1..3 -> Nat]
    BY <2>1 DEF GroupsOf
  <2>3. Len(B[a].lids) = 2
    BY <2>2, LenIs
  <2>4. Len(T[b].lids) = 3
    BY <2>2, LenIs
  <2> QED
    BY <2>3, <2>4
<1>4. /\ Len(B) \in Nat /\ DOMAIN B = 1..Len(B) /\ Len(T) \in Nat /\ DOMAIN T = 1..Len(T)
      /\ DOMAIN Groups = 1..(Len(B) + Len(T))
      /\ \A a \in DOMAIN Groups : Groups[a] = IF a <= Len(B) THEN B[a] ELSE T[a - Len(B)]
  <2>1. Groups = B \o T
    BY DEF Groups
  <2> HIDE DEF B, T
  <2>2. /\ Len(B) \in Nat /\ DOMAIN B = 1..Len(B) /\ Len(T) \in Nat /\ DOMAIN T = 1..Len(T)
        /\ DOMAIN (B \o T) = 1..(Len(B) + Len(T))
        /\ \A x \in 1..(Len(B) + Len(T)) : (B \o T)[x] = IF x <= Len(B) THEN B[x] ELSE T[x - Len(B)]
    BY <1>1, ConcatIs
  <2> QED
    BY <2>1, <2>2
<1> HIDE DEF B, T
<1>5. \A a \in DOMAIN Groups : /\ a <= Len(B) => a \in DOMAIN B
                               /\ ~(a <= Len(B)) => a - Len(B) \in DOMAIN T
                               /\ a \in Int
  BY <1>4
<1>6. CASE i <= Len(B) /\ j <= Len(B)
  BY <1>2, <1>4, <1>5, <1>6
<1>7. CASE ~(i <= Len(B)) /\ ~(j <= Len(B))
  <2>1. i - Len(B) = j - Len(B)
    BY <1>2, <1>4, <1>5, <1>7
  <2> QED
    BY <1>4, <1>5, <2>1
<1>8. CASE i <= Len(B) /\ ~(j <= Len(B))
  BY <1>3, <1>4, <1>5, <1>8
<1>9. CASE ~(i <= Len(B)) /\ j <= Len(B)
  BY <1>3, <1>4, <1>5, <1>9
<1> QED
  BY <1>6, <1>7, <1>8, <1>9

LEMMA StringFacts ==
  ASSUME files \in Tables
  PROVE  /\ \A l : LemStr(l) \in Seq(Letter)
         /\ \A l : LemStr(l) = <<>> <=> l \notin DOMAIN files.lemid
         /\ \A l : l \in DOMAIN files.lemid => LemStr(l) = files.lemid[l]
         /\ \A w : WordStr(w) \in Seq(Letter) /\ Len(WordStr(w)) \in Nat
         /\ \A w : WordStr(w) = <<>> <=> w \notin DOMAIN files.uni
<1>1. \A s \in Range(files.lemid) \cup Range(files.uni) : s \in Strings
  BY TablesAssumption
<1>2. \A l \in DOMAIN files.lemid : files.lemid[l] \in Seq(Letter) /\ files.lemid[l] # <<>>
  BY <1>1 DEF Range, Strings
<1>3. \A w \in DOMAIN files.uni : files.uni[w] \in Seq(Letter) /\ files.uni[w] # <<>>
  BY <1>1 DEF Range, Strings
<1>4. <<>> \in Seq(Letter)
  OBVIOUS
<1>5. \A l : LemStr(l) \in Seq(Letter) /\ (LemStr(l) = <<>> <=> l \notin DOMAIN files.lemid)
  BY <1>2, <1>4 DEF LemStr
<1>6. \A w : WordStr(w) \in Seq(Letter) /\ (WordStr(w) = <<>> <=> w \notin DOMAIN files.uni)
  BY <1>3, <1>4 DEF WordStr
<1>7. \A l : l \in DOMAIN files.lemid => LemStr(l) = files.lemid[l]
  BY DEF LemStr
<1>8. \A s \in Seq(Letter) : Len(s) \in Nat
  OBVIOUS
<1> QED
  BY <1>5, <1>6, <1>7, <1>8

LEMMA SingleFacts ==
  ASSUME files \in Tables
  PROVE  /\ Len(files.lemfreq) \in Nat /\ DOMAIN files.lemfreq = 1..Len(files.lemfreq)
         /\ \A i \in DOMAIN files.lemfreq :
              files.lemfreq[i].str \in Seq(Letter) /\ files.lemfreq[i].weight \in Nat
<1> DEFINE C == [str : Seq(Letter), weight : Nat]
<1>1. files.lemfreq \in Seq(C)
  BY TablesAssumption
<1>2. \A c \in C : c.str \in Seq(Letter) /\ c.weight \in Nat
  OBVIOUS
<1> HIDE DEF C
<1> QED
  BY <1>1, <1>2

-----------------------------------------------------------------------------
(* Where the loops stand.                                                  *)
PhaseOK ==
  /\ files \in Tables /\ n \in Nat \ {0}
  /\ pc \in {"load", "singles", "pairs", "triples", "saved", "threw", "crashed"}
  /\ pc \in {"load", "singles", "saved"} => todo = {}
  /\ pc = "pairs" => todo \subseteq Tuples(2)
  /\ pc = "triples" => todo \subseteq Tuples(3)
  /\ pc = "saved" => stat.terms = termstat /\ files.total_count # <<>>
  /\ IsFiniteSet(DOMAIN termstat)

(* bifreqs and trifreqs hold what their groups and count files say.        *)
FreqsFrom ==
  \A t \in DOMAIN freqs :
    /\ freqs[t].dc \in CountsOf(t)
    /\ \E i \in DOMAIN Groups :
         t = Groups[i].lids /\ freqs[t].wids = Groups[i].cases[FirstOfMost(Groups[i].cases)].wids

(* A loop that is over has visited everything.                             *)
AllLoaded ==
  \A i \in DOMAIN Groups :
    (IF pc = "load" THEN i < n ELSE pc # "crashed") => Groups[i].lids \in DOMAIN freqs

AllSingles ==
  \A i \in DOMAIN files.lemfreq :
    /\ files.lemfreq[i].weight > MinDocs
    /\ IF pc = "singles" THEN i < n ELSE pc \in {"pairs", "triples", "saved", "threw"}
    => files.lemfreq[i].str \in DOMAIN termstat

(* The tuples the loops have written or left out.                          *)
Visited ==
  {t \in DOMAIN freqs :
     /\ t \notin todo
     /\ \/ Len(t) = 2 /\ pc \in {"pairs", "triples", "saved"}
        \/ Len(t) = 3 /\ pc \in {"triples", "saved"}}

(* A written tuple has an entry, its own or that of a tuple no shorter;    *)
(* its own if strings can be told apart.                                   *)
WrittenHasEntry ==
  \A t \in Visited :
    ~TooShort(t) =>
      /\ ~Wrong(t)
      /\ Key(t) \in DOMAIN termstat
      /\ Len(termstat[Key(t)].txt) >= Len(t)

WrittenStays ==
  PrefixFree =>
    \A t \in Visited :
      ~TooShort(t) => termstat[Key(t)] = [dc |-> freqs[t].dc, txt |-> Txt(freqs[t].wids)]

ThrewRightly ==
  pc = "threw" => files.total_count = <<>> \/ \E t \in DOMAIN freqs : ~TooShort(t) /\ Wrong(t)

IInv ==
  /\ PhaseOK /\ FreqsFrom /\ AllLoaded /\ AllSingles /\ EntriesAreWhole
  /\ WrittenHasEntry /\ WrittenStays /\ ThrewRightly

(* A tuple's sources and the tuple.                                        *)
LEMMA TupleFacts ==
  ASSUME files \in Tables, FreqsFrom, NEW t \in DOMAIN freqs
  PROVE  /\ Len(t) \in {2, 3} /\ DOMAIN t = 1..Len(t)
         /\ DOMAIN freqs[t].wids = 1..Len(t) /\ DOMAIN LemStrs(t) = 1..Len(t)
         /\ Len(LemStrs(t)) = Len(t) /\ Len(Txt(freqs[t].wids)) = Len(t)
         /\ \E i \in DOMAIN Groups :
              /\ t = Groups[i].lids
              /\ <<LemStrs(t), freqs[t].dc, Txt(freqs[t].wids)>> \in SourcesOf(Groups[i])
<1>1. PICK i \in DOMAIN Groups :
        t = Groups[i].lids /\ freqs[t].wids = Groups[i].cases[FirstOfMost(Groups[i].cases)].wids
  BY DEF FreqsFrom
<1> DEFINE g == Groups[i]
           f == FirstOfMost(g.cases)
           k == Len(t)
<1>2. k \in {2, 3} /\ t \in [1..k -> Nat] /\ g.cases \in CasesOf(k) /\ DOMAIN t = 1..k
  BY <1>1, GroupFacts
<1>3. f \in DOMAIN g.cases /\ IsText(g, f)
  BY <1>2, FirstOfMostIsText
<1>4. freqs[t].wids = g.cases[f].wids /\ g.cases[f].wids \in [1..k -> Nat]
  BY <1>1, <1>2, <1>3, CasesFacts
<1>5. DOMAIN freqs[t].wids = 1..k
  BY <1>4
<1>6. DOMAIN LemStrs(t) = 1..k /\ Len(LemStrs(t)) = k
  BY <1>2 DEF LemStrs
<1>7. Txt(freqs[t].wids) = [p \in DOMAIN t |-> WordStr(g.cases[f].wids[p])]
  BY <1>2, <1>4, <1>5 DEF Txt
<1>8. Len(Txt(freqs[t].wids)) = k
  BY <1>2, <1>7
<1>9. freqs[t].dc \in CountsOf(t)
  BY DEF FreqsFrom
<1>10. <<LemStrs(t), freqs[t].dc, Txt(freqs[t].wids)>> \in SourcesOf(g)
  BY <1>1, <1>3, <1>7, <1>9 DEF SourcesOf
<1> QED
  BY <1>1, <1>2, <1>5, <1>6, <1>8, <1>10

(* Every source of a group is the tuple's.                                 *)
LEMMA SourceFacts ==
  ASSUME files \in Tables, FreqsFrom, NEW i \in DOMAIN Groups, NEW s \in SourcesOf(Groups[i]),
         Groups[i].lids \in DOMAIN freqs
  PROVE  s[1] = LemStrs(Groups[i].lids) /\ s[3] = Txt(freqs[Groups[i].lids].wids)
<1> DEFINE g == Groups[i]
           t == g.lids
           f == FirstOfMost(g.cases)
<1>1. freqs[t].wids = g.cases[f].wids
  <2>1. PICK j \in DOMAIN Groups :
          t = Groups[j].lids /\ freqs[t].wids = Groups[j].cases[FirstOfMost(Groups[j].cases)].wids
    BY DEF FreqsFrom
  <2>2. i = j
    BY <2>1, GroupsAreUnique
  <2> QED
    BY <2>1, <2>2
<1>2. PICK dc \in CountsOf(t), c \in {j \in DOMAIN g.cases : IsText(g, j)} :
        s = <<LemStrs(t), dc, [p \in DOMAIN t |-> WordStr(g.cases[c].wids[p])]>>
  BY DEF SourcesOf
<1>3. g.cases \in CasesOf(Len(t)) /\ Len(t) \in Nat /\ DOMAIN t = 1..Len(t)
  BY GroupFacts
<1>4. c = f
  BY <1>2, <1>3, FirstOfMostIsText
<1>5. DOMAIN freqs[t].wids = 1..Len(t)
  BY TupleFacts
<1>6. [p \in DOMAIN t |-> WordStr(g.cases[c].wids[p])] = Txt(freqs[t].wids)
  BY <1>1, <1>3, <1>4, <1>5 DEF Txt
<1> QED
  BY <1>2, <1>6

(* A source is exported if its tuple is not too short.                     *)
LEMMA ExportedIs ==
  ASSUME files \in Tables, FreqsFrom, NEW t \in DOMAIN freqs, NEW s,
         s[1] = LemStrs(t), s[3] = Txt(freqs[t].wids)
  PROVE  Exported(s) <=> ~TooShort(t)
<1>1. /\ Len(t) \in {2, 3} /\ DOMAIN freqs[t].wids = 1..Len(t) /\ Len(LemStrs(t)) = Len(t)
  BY TupleFacts
<1>2. Len(t) = 2 => \A p \in 1..2 : s[3][p] = WordStr(freqs[t].wids[p])
  BY <1>1 DEF Txt
<1>3. \A w : Len(WordStr(w)) \in Nat
  BY StringFacts
<1>4. MinLetters \in Nat
  BY ToZmapAssumption
<1> QED
  BY <1>1, <1>2, <1>3, <1>4 DEF Exported, TooShort

-----------------------------------------------------------------------------
(* Strings of which none begins another can be told apart in their joined  *)
(* string.                                                                 *)
NonePrefix(Q) == \A a, b \in Q : IsPrefix(a, b) => a = b

LEMMA SameSeq ==
  ASSUME NEW S, NEW s \in Seq(S), NEW t \in Seq(S), Len(s) = Len(t),
         \A i \in 1..Len(s) : s[i] = t[i]
  PROVE  s = t
OBVIOUS

LEMMA PrefixIs ==
  ASSUME NEW S, NEW s \in Seq(S), NEW t \in Seq(S), Len(s) <= Len(t),
         \A i \in 1..Len(s) : s[i] = t[i]
  PROVE  IsPrefix(s, t)
<1>1. Len(s) \in Nat /\ Len(t) \in Nat
  OBVIOUS
<1>2. SubSeq(s, 1, Len(s)) = SubSeq(t, 1, Len(s))
  <2>1. SubSeq(s, 1, Len(s)) = [i \in 1..Len(s) |-> s[i]]
    BY <1>1
  <2>2. SubSeq(t, 1, Len(s)) = [i \in 1..Len(s) |-> t[i]]
    BY <1>1
  <2> QED
    BY <2>1, <2>2
<1> QED
  BY <1>2 DEF IsPrefix

LEMMA SameHead ==
  ASSUME NEW Q, Q \subseteq Seq(Letter), NonePrefix(Q), NEW a \in Q, NEW b \in Q,
         NEW x \in Seq(Letter), NEW y \in Seq(Letter), a \o x = b \o y
  PROVE  a = b /\ x = y
<1>1. /\ a \in Seq(Letter) /\ b \in Seq(Letter)
      /\ Len(a) \in Nat /\ Len(b) \in Nat /\ Len(x) \in Nat /\ Len(y) \in Nat
  OBVIOUS
<1>2. /\ Len(a \o x) = Len(a) + Len(x)
      /\ \A i \in 1..(Len(a) + Len(x)) : (a \o x)[i] = IF i <= Len(a) THEN a[i] ELSE x[i - Len(a)]
  BY <1>1, ConcatIs
<1>3. /\ Len(b \o y) = Len(b) + Len(y)
      /\ \A i \in 1..(Len(b) + Len(y)) : (b \o y)[i] = IF i <= Len(b) THEN b[i] ELSE y[i - Len(b)]
  BY <1>1, ConcatIs
<1>4. Len(a) + Len(x) = Len(b) + Len(y)
  BY <1>2, <1>3
<1>5. a = b
  <2>1. CASE Len(a) <= Len(b)
    <3>1. ASSUME NEW i \in 1..Len(a) PROVE a[i] = b[i]
      <4>1. i \in 1..(Len(a) + Len(x)) /\ i <= Len(a) /\ i <= Len(b)
        BY <1>1, <2>1
      <4> QED
        BY <1>2, <1>3, <1>4, <4>1
    <3>2. IsPrefix(a, b)
      BY <1>1, <2>1, <3>1, PrefixIs
    <3> QED
      BY <3>2 DEF NonePrefix
  <2>2. CASE ~(Len(a) <= Len(b))
    <3>1. ASSUME NEW i \in 1..Len(b) PROVE b[i] = a[i]
      <4>1. i \in 1..(Len(a) + Len(x)) /\ i <= Len(a) /\ i <= Len(b)
        BY <1>1, <2>2
      <4> QED
        BY <1>2, <1>3, <1>4, <4>1
    <3>2. IsPrefix(b, a)
      BY <1>1, <2>2, <3>1, PrefixIs
    <3> QED
      BY <3>2 DEF NonePrefix
  <2> QED
    BY <2>1, <2>2
<1>6. Len(x) = Len(y)
  BY <1>1, <1>4, <1>5
<1>7. ASSUME NEW i \in 1..Len(x) PROVE x[i] = y[i]
  <2>1. i + Len(a) \in 1..(Len(a) + Len(x)) /\ ~(i + Len(a) <= Len(a)) /\ (i + Len(a)) - Len(a) = i
    BY <1>1
  <2> QED
    BY <1>2, <1>3, <1>4, <1>5, <2>1
<1>8. x = y
  BY <1>6, <1>7, SameSeq
<1> QED
  BY <1>5, <1>8

(* One to three strings; of two or more none is empty.                     *)
StringsOf(Q) ==
  {ss \in Seq(Q) :
     Len(ss) \in {1, 2, 3} /\ (Len(ss) # 1 => \A p \in 1..Len(ss) : ss[p] # <<>>)}

(* What follows the first string, and the second.                          *)
Third(ss) == IF Len(ss) = 3 THEN ss[3] ELSE <<>>
Second(ss) == IF Len(ss) = 1 THEN <<>> ELSE ss[2] \o Third(ss)

LEMMA EmptyIsUnit ==
  ASSUME NEW s \in Seq(Letter)
  PROVE  s \o <<>> = s
<1>1. <<>> \in Seq(Letter) /\ Len(<<>>) = 0
  OBVIOUS
<1>2. /\ Len(s) \in Nat /\ DOMAIN s = 1..Len(s) /\ Len(s \o <<>>) = Len(s) + 0
      /\ \A x \in 1..(Len(s) + 0) : (s \o <<>>)[x] = IF x <= Len(s) THEN s[x] ELSE <<>>[x - Len(s)]
  BY <1>1, ConcatIs
<1>3. \A x \in 1..Len(s) : (s \o <<>>)[x] = s[x]
  BY <1>2
<1>4. s \o <<>> \in Seq(Letter) /\ Len(s \o <<>>) = Len(s)
  BY <1>1, <1>2
<1> QED
  BY <1>3, <1>4

LEMMA ConcatAssociates ==
  ASSUME NEW r \in Seq(Letter), NEW s \in Seq(Letter), NEW t \in Seq(Letter)
  PROVE  r \o s \o t = r \o (s \o t)
OBVIOUS

LEMMA JoinedParts ==
  ASSUME NEW Q, Q \subseteq Seq(Letter), NEW ss \in StringsOf(Q)
  PROVE  /\ ss \in Seq(Q) /\ Len(ss) \in {1, 2, 3} /\ ss[1] \in Q /\ (Len(ss) # 1 => ss[2] \in Q)
         /\ Third(ss) \in Seq(Letter) /\ Second(ss) \in Seq(Letter)
         /\ Len(ss) = 3 <=> Third(ss) # <<>>
         /\ Len(ss) = 1 <=> Second(ss) = <<>>
         /\ Joined(ss) = ss[1] \o Second(ss)
<1>1. ss \in Seq(Q) /\ Len(ss) \in {1, 2, 3}
  BY DEF StringsOf
<1>2. \A p \in 1..Len(ss) : ss[p] \in Q /\ ss[p] \in Seq(Letter)
  BY <1>1
<1>3. Len(ss) # 1 => \A p \in 1..Len(ss) : ss[p] # <<>>
  BY DEF StringsOf
<1>4. Third(ss) \in Seq(Letter) /\ (Len(ss) = 3 <=> Third(ss) # <<>>)
  <2>1. <<>> \in Seq(Letter)
    OBVIOUS
  <2> QED
    BY <1>1, <1>2, <1>3, <2>1 DEF Third
<1>5. Second(ss) \in Seq(Letter) /\ (Len(ss) = 1 <=> Second(ss) = <<>>)
  <2>1. CASE Len(ss) = 1
    BY <2>1 DEF Second
  <2>2. CASE Len(ss) # 1
    <3>1. ss[2] \in Seq(Letter) /\ ss[2] # <<>> /\ Second(ss) = ss[2] \o Third(ss)
      BY <1>1, <1>2, <1>3, <2>2 DEF Second
    <3> QED
      BY <1>4, <2>2, <3>1
  <2> QED
    BY <2>1, <2>2
<1>a. ss[1] \in Q /\ (Len(ss) # 1 => ss[2] \in Q)
  BY <1>1, <1>2
<1>6. Joined(ss) = ss[1] \o Second(ss)
  <2>1. CASE Len(ss) = 1
    <3>1. ss[1] \in Seq(Letter) /\ Joined(ss) = ss[1] /\ Second(ss) = <<>>
      BY <1>2, <2>1 DEF Joined, Second
    <3> QED
      BY <3>1, EmptyIsUnit
  <2>2. CASE Len(ss) = 2
    <3>1. /\ ss[2] \in Seq(Letter) /\ Joined(ss) = ss[1] \o ss[2] /\ Second(ss) = ss[2] \o <<>>
      BY <1>2, <2>2 DEF Joined, Second, Third
    <3> QED
      BY <3>1, EmptyIsUnit
  <2>3. CASE Len(ss) = 3
    <3>1. ss[1] \in Seq(Letter) /\ ss[2] \in Seq(Letter) /\ ss[3] \in Seq(Letter)
      BY <1>2, <2>3
    <3>2. Joined(ss) = ss[1] \o ss[2] \o ss[3] /\ Second(ss) = ss[2] \o ss[3]
      BY <2>3 DEF Joined, Second, Third
    <3>3. ss[1] \o ss[2] \o ss[3] = ss[1] \o (ss[2] \o ss[3])
      BY <3>1, ConcatAssociates
    <3> QED
      BY <3>2, <3>3, Zenon
  <2> QED
    BY <1>1, <2>1, <2>2, <2>3
<1> QED
  BY <1>1, <1>a, <1>4, <1>5, <1>6

LEMMA JoinedApart ==
  ASSUME NEW Q, Q \subseteq Seq(Letter), NonePrefix(Q),
         NEW ss \in StringsOf(Q), NEW tt \in StringsOf(Q), Joined(ss) = Joined(tt)
  PROVE  ss = tt
<1>1. /\ ss \in Seq(Q) /\ Len(ss) \in {1, 2, 3} /\ ss[1] \in Q /\ (Len(ss) # 1 => ss[2] \in Q)
      /\ Third(ss) \in Seq(Letter) /\ Second(ss) \in Seq(Letter)
      /\ Len(ss) = 3 <=> Third(ss) # <<>>
      /\ Len(ss) = 1 <=> Second(ss) = <<>>
      /\ Joined(ss) = ss[1] \o Second(ss)
  BY JoinedParts
<1>2. /\ tt \in Seq(Q) /\ Len(tt) \in {1, 2, 3} /\ tt[1] \in Q /\ (Len(tt) # 1 => tt[2] \in Q)
      /\ Third(tt) \in Seq(Letter) /\ Second(tt) \in Seq(Letter)
      /\ Len(tt) = 3 <=> Third(tt) # <<>>
      /\ Len(tt) = 1 <=> Second(tt) = <<>>
      /\ Joined(tt) = tt[1] \o Second(tt)
  BY JoinedParts
<1> DEFINE SameJoin(a, b, x, y) == a \o x = b \o y
<1>a. ASSUME NEW a \in Q, NEW b \in Q, NEW x \in Seq(Letter), NEW y \in Seq(Letter), SameJoin(a, b, x, y)
      PROVE  a = b /\ x = y
  BY <1>a, SameHead
<1>3. ss[1] = tt[1] /\ Second(ss) = Second(tt)
  <2>1. ss[1] \in Q /\ tt[1] \in Q
    BY <1>1, <1>2
  <2>2. SameJoin(ss[1], tt[1], Second(ss), Second(tt))
    BY <1>1, <1>2, Zenon
  <2> HIDE DEF SameJoin
  <2> QED
    BY <1>1, <1>2, <1>a, <2>1, <2>2
<1>4. Len(ss) = 1 <=> Len(tt) = 1
  BY <1>1, <1>2, <1>3
<1>5. Len(ss) # 1 => ss[2] = tt[2] /\ Third(ss) = Third(tt)
  <2> SUFFICES ASSUME Len(ss) # 1 PROVE ss[2] = tt[2] /\ Third(ss) = Third(tt)
    OBVIOUS
  <2>1. ss[2] \in Q /\ tt[2] \in Q
    BY <1>1, <1>2, <1>4
  <2>2. Second(ss) = ss[2] \o Third(ss) /\ Second(tt) = tt[2] \o Third(tt)
    BY <1>4 DEF Second
  <2>3. SameJoin(ss[2], tt[2], Third(ss), Third(tt))
    BY <1>3, <2>2, Zenon
  <2> HIDE DEF SameJoin
  <2> QED
    BY <1>1, <1>2, <1>a, <2>1, <2>3
<1>6. Len(ss) = 3 <=> Len(tt) = 3
  BY <1>1, <1>2, <1>4, <1>5
<1>7. Len(ss) = 3 => ss[3] = tt[3]
  BY <1>5, <1>6 DEF Third
<1>8. Len(ss) = Len(tt)
  BY <1>1, <1>2, <1>4, <1>6
<1>9. ASSUME NEW i \in 1..Len(ss) PROVE ss[i] = tt[i]
  <2> DEFINE k == Len(ss)
  <2>1. k \in {1, 2, 3} /\ i \in 1..k
    BY <1>1
  <2>2. i = 1 \/ (i = 2 /\ k # 1) \/ (i = 3 /\ k = 3)
    <3> HIDE DEF k
    <3> QED
      BY <2>1
  <2> QED
    BY <1>3, <1>5, <1>7, <2>2
<1>10. ss \in Seq(Q) /\ tt \in Seq(Q)
  BY <1>1, <1>2
<1> QED
  BY <1>8, <1>9, <1>10, SameSeq

-----------------------------------------------------------------------------
(* to_zmap writes no file it reads, and what the files say stays.          *)
LEMMA FilesStay ==
  ASSUME [Next]_vars
  PROVE  files' = files
BY DEF Next, vars, LoadGroup, LoadCrashes, Loaded, AddSingle, SinglesDone, SkipTuple, AddTuple,
       TupleThrows, PairsDone, Save, SaveThrows, Terminated

LEMMA SameFiles ==
  ASSUME files' = files
  PROVE  /\ Groups' = Groups /\ Sources' = Sources /\ PrefixFree' = PrefixFree
         /\ \A w : (WordStr(w))' = WordStr(w)
         /\ \A t : (Key(t))' = Key(t) /\ (Txt(t))' = Txt(t) /\ (CountsOf(t))' = CountsOf(t)
<1>1. Groups' = Groups
  BY DEF Groups
<1>2. Sources' = Sources
  BY DEF Sources, Singles, SourcesOf, Exported, Groups, LemStrs, LemStr, WordStr, CountsOf,
         CountFile, IsText
<1>3. PrefixFree' = PrefixFree
  BY DEF PrefixFree
<1>4. \A w : (WordStr(w))' = WordStr(w)
  BY DEF WordStr
<1>5. \A t : (Key(t))' = Key(t) /\ (Txt(t))' = Txt(t) /\ (CountsOf(t))' = CountsOf(t)
  BY DEF Key, LemStrs, LemStr, Txt, WordStr, CountsOf, CountFile
<1> QED
  BY <1>1, <1>2, <1>3, <1>4, <1>5

LEMMA SameTuples ==
  ASSUME files' = files, freqs' = freqs
  PROVE  \A t : (TooShort(t))' = TooShort(t) /\ (Wrong(t))' = Wrong(t)
BY DEF TooShort, Wrong, WordStr, LemStr

LEMMA InitIInv == Init => IInv
<1> SUFFICES ASSUME Init PROVE IInv
  OBVIOUS
<1> USE DEF Init
<1>1. PhaseOK
  BY FS_EmptySet DEF PhaseOK
<1>2. FreqsFrom
  BY DEF FreqsFrom
<1>3. AllLoaded
  <2>1. \A i \in DOMAIN Groups : ~(i < 1)
    BY GroupsIsSeq
  <2> QED
    BY <2>1 DEF AllLoaded
<1>4. AllSingles
  BY DEF AllSingles
<1>5. EntriesAreWhole
  BY DEF EntriesAreWhole
<1>6. WrittenHasEntry /\ WrittenStays
  BY DEF WrittenHasEntry, WrittenStays, Visited
<1>7. ThrewRightly
  BY DEF ThrewRightly
<1> QED
  BY <1>1, <1>2, <1>3, <1>4, <1>5, <1>6, <1>7 DEF IInv

LEMMA PhaseStep == IInv /\ [Next]_vars => PhaseOK'
<1> SUFFICES ASSUME IInv, [Next]_vars PROVE PhaseOK'
  OBVIOUS
<1>0. IsFiniteSet(DOMAIN termstat)
  BY DEF PhaseOK, IInv
<1> USE DEF PhaseOK, IInv
<1>1. CASE LoadGroup
  BY <1>1 DEF LoadGroup
<1>2. CASE LoadCrashes
  BY <1>2 DEF LoadCrashes
<1>3. CASE Loaded
  BY <1>3 DEF Loaded
<1>4. CASE AddSingle
  <2> DEFINE m == files.lemfreq[n]
  <2>1. IsFiniteSet(DOMAIN termstat')
    <3>1. CASE m.weight > MinDocs
      <4>1. DOMAIN termstat' = DOMAIN termstat \cup {m.str}
        BY <1>4, <3>1 DEF AddSingle, Put, With
      <4> HIDE DEF PhaseOK, IInv, m
      <4> QED
        BY <1>0, <4>1, FS_AddElement
    <3>2. CASE ~(m.weight > MinDocs)
      BY <1>4, <3>2 DEF AddSingle
    <3> QED
      BY <3>1, <3>2
  <2> QED
    BY <1>4, <2>1 DEF AddSingle
<1>5. CASE SinglesDone
  BY <1>5 DEF SinglesDone, Tuples
<1>6. ASSUME NEW t \in todo, SkipTuple(t) PROVE PhaseOK'
  BY <1>6 DEF SkipTuple, Tuples
<1>7. ASSUME NEW t \in todo, AddTuple(t) PROVE PhaseOK'
  <2>1. DOMAIN termstat' = DOMAIN termstat \cup {Key(t)}
    BY <1>7 DEF AddTuple, Put, With
  <2>2. IsFiniteSet(DOMAIN termstat')
    BY <2>1, FS_AddElement
  <2> QED
    BY <1>7, <2>2 DEF AddTuple, Tuples
<1>8. ASSUME NEW t \in todo, TupleThrows(t) PROVE PhaseOK'
  BY <1>8 DEF TupleThrows
<1>9. CASE PairsDone
  BY <1>9 DEF PairsDone, Tuples
<1>10. CASE Save
  BY <1>10 DEF Save
<1>11. CASE SaveThrows
  BY <1>11 DEF SaveThrows
<1>12. CASE Terminated \/ UNCHANGED vars
  BY <1>12 DEF Terminated, vars, Tuples
<1> QED
  BY <1>1, <1>2, <1>3, <1>4, <1>5, <1>6, <1>7, <1>8, <1>9, <1>10, <1>11, <1>12 DEF Next

LEMMA FreqsStep == IInv /\ [Next]_vars => FreqsFrom' /\ AllLoaded'
<1> SUFFICES ASSUME IInv, [Next]_vars PROVE FreqsFrom' /\ AllLoaded'
  OBVIOUS
<1>1. files' = files /\ Groups' = Groups /\ \A t : (CountsOf(t))' = CountsOf(t)
  BY FilesStay, SameFiles
<1>2. n \in Nat /\ FreqsFrom /\ AllLoaded
  BY DEF IInv, PhaseOK
<1>3. Len(Groups) \in Nat /\ DOMAIN Groups = 1..Len(Groups)
  BY GroupsIsSeq DEF IInv, PhaseOK
<1>4. CASE LoadGroup
  <2> DEFINE g == Groups[n]
             w == g.cases[FirstOfMost(g.cases)].wids
  <2>1. PICK dc \in CountsOf(g.lids) :
          freqs' = IF g.lids \in DOMAIN freqs THEN freqs ELSE With(freqs, g.lids, [dc |-> dc, wids |-> w])
    BY <1>4 DEF LoadGroup
  <2>2. n \in DOMAIN Groups /\ pc = "load" /\ pc' = "load" /\ n' = n + 1
    BY <1>3, <1>4 DEF LoadGroup, IInv, PhaseOK
  <2>3. /\ DOMAIN freqs' = DOMAIN freqs \cup {g.lids}
        /\ \A t \in DOMAIN freqs : freqs'[t] = freqs[t]
        /\ g.lids \notin DOMAIN freqs => freqs'[g.lids] = [dc |-> dc, wids |-> w]
    BY <2>1 DEF With
  <2>4. FreqsFrom'
    <3> SUFFICES ASSUME NEW t \in DOMAIN freqs'
                 PROVE  /\ freqs'[t].dc \in CountsOf(t)
                        /\ \E i \in DOMAIN Groups :
                             t = Groups[i].lids /\ freqs'[t].wids = Groups[i].cases[FirstOfMost(Groups[i].cases)].wids
      BY <1>1 DEF FreqsFrom
    <3>1. CASE t \in DOMAIN freqs
      BY <1>2, <2>3, <3>1 DEF FreqsFrom
    <3>2. CASE t \notin DOMAIN freqs
      BY <2>2, <2>3, <3>2
    <3> QED
      BY <3>1, <3>2
  <2>5. AllLoaded'
    <3> SUFFICES ASSUME NEW i \in DOMAIN Groups, i < n + 1 PROVE Groups[i].lids \in DOMAIN freqs'
      BY <1>1, <2>2 DEF AllLoaded
    <3>1. i < n \/ i = n
      BY <1>2, <1>3
    <3> QED
      BY <1>2, <2>2, <2>3, <3>1 DEF AllLoaded
  <2> QED
    BY <2>4, <2>5
<1>5. CASE UNCHANGED freqs
  <2>1. FreqsFrom'
    BY <1>1, <1>2, <1>5 DEF FreqsFrom
  <2>2. CASE Loaded
    <3>1. \A i \in DOMAIN Groups : i < n
      BY <1>2, <1>3, <2>2 DEF Loaded
    <3>2. pc = "load"
      BY <2>2 DEF Loaded
    <3> QED
      BY <1>1, <1>2, <1>5, <2>1, <3>1, <3>2 DEF AllLoaded
  <2>3. CASE pc' # "crashed" /\ (pc = "load" <=> pc' = "load") /\ (pc = "load" => n' = n) /\ pc # "crashed"
    BY <1>1, <1>2, <1>5, <2>1, <2>3 DEF AllLoaded
  <2>4. CASE pc' = "crashed"
    BY <2>1, <2>4 DEF AllLoaded
  <2>5. CASE UNCHANGED <<n, pc>>
    BY <1>1, <1>2, <1>5, <2>1, <2>5 DEF AllLoaded
  <2>6. \/ LoadGroup \/ Loaded \/ UNCHANGED <<n, pc>> \/ pc' = "crashed"
        \/ pc' # "crashed" /\ (pc = "load" <=> pc' = "load") /\ (pc = "load" => n' = n) /\ pc # "crashed"
    BY DEF Next, vars, LoadCrashes, AddSingle, SinglesDone, SkipTuple, AddTuple,
           TupleThrows, PairsDone, Save, SaveThrows, Terminated
  <2> QED
    BY <1>4, <2>1, <2>2, <2>3, <2>4, <2>5, <2>6
<1>6. LoadGroup \/ UNCHANGED freqs
  BY DEF Next, vars, LoadCrashes, Loaded, AddSingle, SinglesDone, SkipTuple, AddTuple,
         TupleThrows, PairsDone, Save, SaveThrows, Terminated
<1> QED
  BY <1>4, <1>5, <1>6

(* No step takes an entry away.                                            *)
LEMMA KeysStay ==
  ASSUME [Next]_vars
  PROVE  DOMAIN termstat \subseteq DOMAIN termstat'
<1>1. CASE AddSingle
  BY <1>1 DEF AddSingle, Put, With
<1>2. ASSUME NEW t \in todo, AddTuple(t) PROVE DOMAIN termstat \subseteq DOMAIN termstat'
  BY <1>2 DEF AddTuple, Put, With
<1>3. CASE UNCHANGED termstat
  BY <1>3
<1> QED
  BY <1>1, <1>2, <1>3 DEF Next, vars, LoadGroup, LoadCrashes, Loaded, SinglesDone, SkipTuple,
     TupleThrows, PairsDone, Save, SaveThrows, Terminated

LEMMA SinglesStep == IInv /\ [Next]_vars => AllSingles'
<1> SUFFICES ASSUME IInv, [Next]_vars PROVE AllSingles'
  OBVIOUS
<1>1. files' = files /\ DOMAIN termstat \subseteq DOMAIN termstat' /\ AllSingles
  BY FilesStay, KeysStay DEF IInv
<1>2. n \in Nat /\ Len(files.lemfreq) \in Nat /\ DOMAIN files.lemfreq = 1..Len(files.lemfreq)
  BY SingleFacts DEF IInv, PhaseOK
<1> DEFINE Late == {"pairs", "triples", "saved", "threw"}
<1>3. CASE AddSingle
  <2>1. pc = "singles" /\ pc' = "singles" /\ n' = n + 1 /\ n \in DOMAIN files.lemfreq
    BY <1>2, <1>3 DEF AddSingle, IInv, PhaseOK
  <2>2. files.lemfreq[n].weight > MinDocs => files.lemfreq[n].str \in DOMAIN termstat'
    BY <1>3 DEF AddSingle, Put, With
  <2> SUFFICES ASSUME NEW i \in DOMAIN files.lemfreq, files.lemfreq[i].weight > MinDocs, i < n + 1
               PROVE  files.lemfreq[i].str \in DOMAIN termstat'
    BY <1>1, <2>1 DEF AllSingles
  <2>3. i < n \/ i = n
    BY <1>2
  <2> QED
    BY <1>1, <2>1, <2>2, <2>3 DEF AllSingles
<1>4. CASE SinglesDone
  <2>1. \A i \in DOMAIN files.lemfreq : i < n
    BY <1>2, <1>4 DEF SinglesDone
  <2> QED
    BY <1>1, <1>4, <2>1 DEF SinglesDone, AllSingles
<1>5. CASE Loaded
  <2>1. pc' = "singles" /\ n' = 1 /\ \A i \in DOMAIN files.lemfreq : ~(i < 1)
    BY <1>2, <1>5 DEF Loaded
  <2> QED
    BY <1>1, <2>1 DEF AllSingles
<1>6. CASE pc' \in {"load", "crashed"}
  BY <1>6 DEF AllSingles
<1>7. CASE pc \in Late
  BY <1>1, <1>7 DEF AllSingles
<1>8. CASE UNCHANGED <<n, pc>>
  BY <1>1, <1>8 DEF AllSingles
<1>9. AddSingle \/ SinglesDone \/ Loaded \/ pc' \in {"load", "crashed"} \/ pc \in Late \/ UNCHANGED <<n, pc>>
  BY DEF Next, vars, LoadGroup, LoadCrashes, SkipTuple, AddTuple,
         TupleThrows, PairsDone, Save, SaveThrows, Terminated
<1> QED
  BY <1>3, <1>4, <1>5, <1>6, <1>7, <1>8, <1>9

(* What the loops write comes from the files.                              *)
LEMMA TupleIsSource ==
  ASSUME files \in Tables, FreqsFrom, NEW t \in DOMAIN freqs, ~TooShort(t)
  PROVE  <<LemStrs(t), freqs[t].dc, Txt(freqs[t].wids)>> \in Sources
<1> DEFINE s == <<LemStrs(t), freqs[t].dc, Txt(freqs[t].wids)>>
<1>1. PICK i \in DOMAIN Groups : s \in SourcesOf(Groups[i])
  BY TupleFacts
<1>2. Groups[i] \in ToSet(Groups)
  BY DEF ToSet
<1>3. s[1] = LemStrs(t) /\ s[3] = Txt(freqs[t].wids)
  OBVIOUS
<1>4. Exported(s)
  BY <1>3, ExportedIs
<1> HIDE DEF s
<1>5. s \in Sources
  BY <1>1, <1>2, <1>4 DEF Sources
<1> QED
  BY <1>5 DEF s

LEMMA EntriesStep == IInv /\ [Next]_vars => EntriesAreWhole'
<1> SUFFICES ASSUME IInv, [Next]_vars PROVE EntriesAreWhole'
  OBVIOUS
<1>1. files' = files /\ Sources' = Sources
  BY FilesStay, SameFiles
<1>2. EntriesAreWhole /\ FreqsFrom /\ files \in Tables
  BY DEF IInv, PhaseOK
<1>3. ASSUME NEW s \in Sources, NEW key, key = Joined(s[1]),
             termstat' = With(termstat, key, [dc |-> s[2], txt |-> s[3]])
      PROVE  EntriesAreWhole'
  <2> SUFFICES ASSUME NEW k \in DOMAIN termstat'
               PROVE  \E r \in Sources : k = Joined(r[1]) /\ termstat'[k] = [dc |-> r[2], txt |-> r[3]]
    BY <1>1 DEF EntriesAreWhole
  <2>1. CASE k = key
    BY <1>3, <2>1 DEF With
  <2>2. CASE k # key
    <3>1. k \in DOMAIN termstat /\ termstat'[k] = termstat[k]
      BY <1>3, <2>2 DEF With
    <3> QED
      BY <1>2, <3>1 DEF EntriesAreWhole
  <2> QED
    BY <2>1, <2>2
<1>4. CASE UNCHANGED termstat
  BY <1>1, <1>2, <1>4 DEF EntriesAreWhole
<1>5. CASE AddSingle
  <2> DEFINE m == files.lemfreq[n]
             s == <<<<m.str>>, m.weight, <<>>>>
  <2>1. n \in DOMAIN files.lemfreq
    <3>1. n \in Nat \ {0} /\ n <= Len(files.lemfreq)
      BY <1>5 DEF AddSingle, IInv, PhaseOK
    <3> QED
      BY <1>2, <3>1, SingleFacts
  <2>2. CASE m.weight > MinDocs
    <3>1. m \in {x \in ToSet(files.lemfreq) : x.weight > MinDocs}
      BY <2>1, <2>2 DEF ToSet
    <3>2. s \in Sources
      BY <3>1 DEF Sources, Singles
    <3>3. Joined(s[1]) = m.str
      BY DEF Joined
    <3>4. termstat' = With(termstat, m.str, [dc |-> s[2], txt |-> s[3]])
      BY <1>5, <2>2 DEF AddSingle, Put
    <3> HIDE DEF s
    <3> QED
      BY <1>3, <3>2, <3>3, <3>4
  <2>3. CASE ~(m.weight > MinDocs)
    BY <1>4, <1>5, <2>3 DEF AddSingle
  <2> QED
    BY <2>2, <2>3
<1>6. ASSUME NEW t \in todo, AddTuple(t) PROVE EntriesAreWhole'
  <2> DEFINE s == <<LemStrs(t), freqs[t].dc, Txt(freqs[t].wids)>>
  <2>1. t \in DOMAIN freqs
    BY <1>6 DEF AddTuple, IInv, PhaseOK, Tuples
  <2>2. s \in Sources
    BY <1>2, <1>6, <2>1, TupleIsSource DEF AddTuple
  <2>3. termstat' = With(termstat, Key(t), [dc |-> s[2], txt |-> s[3]])
    BY <1>6 DEF AddTuple, Put
  <2>4. Joined(s[1]) = Key(t)
    BY DEF Key
  <2> HIDE DEF s
  <2> QED
    BY <1>3, <2>2, <2>3, <2>4
<1> QED
  BY <1>4, <1>5, <1>6 DEF Next, vars, LoadGroup, LoadCrashes, Loaded, SinglesDone, SkipTuple,
     TupleThrows, PairsDone, Save, SaveThrows, Terminated

LEMMA ThrewStep == IInv /\ [Next]_vars => ThrewRightly'
<1> SUFFICES ASSUME IInv, [Next]_vars, pc' = "threw", files.total_count # <<>>
             PROVE  (\E t \in DOMAIN freqs : ~TooShort(t) /\ Wrong(t))'
  BY FilesStay DEF ThrewRightly
<1>1. files' = files
  BY FilesStay
<1>2. freqs' = freqs
  BY DEF Next, vars, LoadGroup, LoadCrashes, Loaded, AddSingle, SinglesDone, SkipTuple, AddTuple,
         TupleThrows, PairsDone, Save, SaveThrows, Terminated
<1>3. \A t : (TooShort(t))' = TooShort(t) /\ (Wrong(t))' = Wrong(t)
  BY <1>1, <1>2, SameTuples
<1>4. \E t \in DOMAIN freqs : ~TooShort(t) /\ Wrong(t)
  <2>1. ASSUME NEW t \in todo, TupleThrows(t) PROVE \E u \in DOMAIN freqs : ~TooShort(u) /\ Wrong(u)
    BY <2>1 DEF TupleThrows, IInv, PhaseOK, Tuples
  <2>2. CASE pc = "threw"
    BY <2>2 DEF IInv, ThrewRightly
  <2> QED
    BY <2>1, <2>2 DEF Next, vars, LoadGroup, LoadCrashes, Loaded, AddSingle, SinglesDone, SkipTuple,
       AddTuple, PairsDone, Save, SaveThrows, Terminated
<1> QED
  BY <1>2, <1>3, <1>4

-----------------------------------------------------------------------------
(* The lemma strings of the files; PrefixFree is about these.              *)
AllStrs == Range(files.lemid) \cup {m.str : m \in ToSet(files.lemfreq)}

LEMMA AllStrsFacts ==
  ASSUME files \in Tables
  PROVE  AllStrs \subseteq Seq(Letter) /\ (PrefixFree <=> NonePrefix(AllStrs))
<1>1. \A l \in DOMAIN files.lemid : files.lemid[l] \in Seq(Letter)
  BY StringFacts
<1>2. \A i \in DOMAIN files.lemfreq : files.lemfreq[i].str \in Seq(Letter)
  BY SingleFacts
<1>3. AllStrs \subseteq Seq(Letter)
  BY <1>1, <1>2 DEF AllStrs, Range, ToSet
<1>4. PrefixFree <=> NonePrefix(AllStrs)
  BY DEF PrefixFree, NonePrefix, AllStrs
<1> QED
  BY <1>3, <1>4

LEMMA RightTuple ==
  ASSUME files \in Tables, FreqsFrom, NEW t \in DOMAIN freqs, ~Wrong(t)
  PROVE  LemStrs(t) \in StringsOf(AllStrs) /\ \A p \in 1..Len(t) : t[p] \in DOMAIN files.lemid
<1> DEFINE k == Len(t)
<1>1. k \in {2, 3} /\ DOMAIN t = 1..k /\ DOMAIN LemStrs(t) = 1..k /\ Len(LemStrs(t)) = k
  BY TupleFacts
<1>2. \A p \in 1..k : LemStr(t[p]) # <<>> /\ LemStrs(t)[p] = LemStr(t[p])
  BY <1>1 DEF Wrong, LemStrs
<1>3. \A p \in 1..k : t[p] \in DOMAIN files.lemid /\ LemStr(t[p]) = files.lemid[t[p]]
  BY <1>2, StringFacts
<1>4. \A p \in 1..k : LemStrs(t)[p] \in AllStrs /\ LemStrs(t)[p] # <<>>
  BY <1>2, <1>3 DEF AllStrs, Range
<1>5. LemStrs(t) \in Seq(AllStrs)
  <2>1. k \in Nat /\ LemStrs(t) = [p \in 1..k |-> LemStrs(t)[p]]
    BY <1>1 DEF LemStrs
  <2> HIDE DEF k
  <2>2. [p \in 1..k |-> LemStrs(t)[p]] \in [1..k -> AllStrs]
    BY <1>4
  <2>3. \A f \in [1..k -> AllStrs] : f \in Seq(AllStrs)
    BY <2>1
  <2> QED
    BY <2>1, <2>2, <2>3
<1>6. LemStrs(t) \in StringsOf(AllStrs)
  BY <1>1, <1>4, <1>5 DEF StringsOf
<1> QED
  BY <1>3, <1>6

LEMMA KeysApart ==
  ASSUME files \in Tables, FreqsFrom, PrefixFree,
         NEW t \in DOMAIN freqs, NEW u \in DOMAIN freqs, ~Wrong(t), ~Wrong(u), Key(t) = Key(u)
  PROVE  t = u
<1>1. LemStrs(t) \in StringsOf(AllStrs) /\ \A p \in 1..Len(t) : t[p] \in DOMAIN files.lemid
  BY RightTuple
<1>2. LemStrs(u) \in StringsOf(AllStrs) /\ \A p \in 1..Len(u) : u[p] \in DOMAIN files.lemid
  BY RightTuple
<1>3. LemStrs(t) = LemStrs(u)
  <2>1. Joined(LemStrs(t)) = Joined(LemStrs(u))
    BY DEF Key
  <2> QED
    BY <1>1, <1>2, <2>1, AllStrsFacts, JoinedApart
<1>4. /\ DOMAIN t = 1..Len(t) /\ DOMAIN u = 1..Len(u) /\ Len(t) \in Nat /\ Len(u) \in Nat
      /\ Len(t) = Len(u)
  <2>1. Len(t) \in {2, 3} /\ DOMAIN t = 1..Len(t) /\ Len(LemStrs(t)) = Len(t)
    BY TupleFacts
  <2>2. Len(u) \in {2, 3} /\ DOMAIN u = 1..Len(u) /\ Len(LemStrs(u)) = Len(u)
    BY TupleFacts
  <2>3. Len(LemStrs(t)) = Len(LemStrs(u))
    BY <1>3
  <2>4. Len(t) = Len(u)
    BY <2>1, <2>2, <2>3, Zenon
  <2>5. \A k \in {2, 3} : k \in Nat
    OBVIOUS
  <2> QED
    BY <2>1, <2>2, <2>4, <2>5, Zenon
<1>5. ASSUME NEW p \in 1..Len(t) PROVE t[p] = u[p]
  <2>1. LemStrs(t)[p] = LemStr(t[p]) /\ LemStrs(u)[p] = LemStr(u[p])
    BY <1>4 DEF LemStrs
  <2>2. LemStr(t[p]) = files.lemid[t[p]] /\ LemStr(u[p]) = files.lemid[u[p]]
    BY <1>1, <1>2, <1>4, StringFacts
  <2> QED
    BY <1>1, <1>2, <1>3, <1>4, <2>1, <2>2, UniqueAssumption
<1>6. t \in Seq(Nat) /\ u \in Seq(Nat)
  <2>1. ASSUME NEW v \in DOMAIN freqs PROVE v \in Seq(Nat)
    <3>1. PICK i \in DOMAIN Groups : v = Groups[i].lids
      BY TupleFacts
    <3>2. Len(v) \in {2, 3} /\ v \in [1..Len(v) -> Nat]
      BY <3>1, GroupFacts
    <3> DEFINE k == Len(v)
    <3>3. k \in Nat /\ v \in [1..k -> Nat]
      BY <3>2
    <3> HIDE DEF k
    <3> QED
      BY <3>3, LenIs
  <2> QED
    BY <2>1
<1> QED
  BY <1>4, <1>5, <1>6, SameSeq

(* How a step changes what has been visited.                               *)
LEMMA VisitedStep ==
  ASSUME IInv, [Next]_vars
  PROVE  \/ Visited' = {}
         \/ Visited' \subseteq Visited /\ UNCHANGED <<freqs, termstat>>
         \/ \E t \in todo : SkipTuple(t) /\ Visited' \subseteq Visited \cup {t}
         \/ \E t \in todo : /\ AddTuple(t) /\ Visited' \subseteq Visited \cup {t}
                            /\ t \in DOMAIN freqs /\ t \notin Visited
                            /\ \A u \in Visited : Len(u) <= Len(t)
<1> DEFINE Goal == \/ Visited' = {}
                   \/ Visited' \subseteq Visited /\ UNCHANGED <<freqs, termstat>>
                   \/ \E t \in todo : SkipTuple(t) /\ Visited' \subseteq Visited \cup {t}
                   \/ \E t \in todo : /\ AddTuple(t) /\ Visited' \subseteq Visited \cup {t}
                                      /\ t \in DOMAIN freqs /\ t \notin Visited
                                      /\ \A u \in Visited : Len(u) <= Len(t)
<1>1. CASE pc' \in {"load", "singles", "threw", "crashed"}
  BY <1>1 DEF Visited
<1>2. CASE SinglesDone
  BY <1>2 DEF SinglesDone, Visited, Tuples
<1>3. CASE PairsDone
  BY <1>3 DEF PairsDone, Visited, Tuples
<1>4. CASE Save
  BY <1>4 DEF Save, Visited
<1>5. CASE UNCHANGED vars
  BY <1>5 DEF Visited, vars
<1>6. ASSUME NEW t \in todo, SkipTuple(t) PROVE Goal
  <2>1. Visited' \subseteq Visited \cup {t}
    BY <1>6 DEF SkipTuple, Visited
  <2> QED
    BY <1>6, <2>1
<1>7. ASSUME NEW t \in todo, AddTuple(t) PROVE Goal
  <2>1. Visited' \subseteq Visited \cup {t}
    BY <1>7 DEF AddTuple, Visited
  <2>2. t \in DOMAIN freqs /\ t \notin Visited
    BY <1>7 DEF AddTuple, Visited, IInv, PhaseOK, Tuples
  <2>3. \A u \in Visited : Len(u) <= Len(t)
    <3>1. pc = "pairs" \/ pc = "triples"
      BY <1>7 DEF AddTuple
    <3>2. pc = "pairs" => Len(t) = 2 /\ \A u \in Visited : Len(u) = 2
      BY <1>7 DEF Visited, IInv, PhaseOK, Tuples
    <3>3. pc = "triples" => Len(t) = 3 /\ \A u \in Visited : Len(u) = 2 \/ Len(u) = 3
      BY <1>7 DEF Visited, IInv, PhaseOK, Tuples
    <3>4. CASE pc = "pairs"
      BY <3>2, <3>4
    <3>5. CASE pc = "triples"
      BY <3>3, <3>5
    <3> QED
      BY <3>1, <3>4, <3>5
  <2> QED
    BY <1>7, <2>1, <2>2, <2>3
<1> QED
  BY <1>1, <1>2, <1>3, <1>4, <1>5, <1>6, <1>7 DEF Next, LoadGroup, LoadCrashes, Loaded, AddSingle,
     TupleThrows, SaveThrows, Terminated, PairsDone, IInv, PhaseOK

LEMMA WrittenStep == IInv /\ [Next]_vars => WrittenHasEntry' /\ WrittenStays'
<1> SUFFICES ASSUME IInv, [Next]_vars PROVE WrittenHasEntry' /\ WrittenStays'
  OBVIOUS
<1>1. /\ files' = files /\ PrefixFree' = PrefixFree
      /\ \A t : (Key(t))' = Key(t) /\ (Txt(t))' = Txt(t)
  BY FilesStay, SameFiles
<1>2. freqs' = freqs => \A t : (TooShort(t))' = TooShort(t) /\ (Wrong(t))' = Wrong(t)
  BY <1>1, SameTuples
<1>3. WrittenHasEntry /\ WrittenStays /\ FreqsFrom /\ files \in Tables
  BY DEF IInv, PhaseOK
<1>4. \A t \in Visited : t \in DOMAIN freqs
  BY DEF Visited
<1>5. CASE Visited' = {}
  BY <1>5 DEF WrittenHasEntry, WrittenStays
<1>6. ASSUME Visited' \subseteq Visited, UNCHANGED <<freqs, termstat>>
      PROVE  WrittenHasEntry' /\ WrittenStays'
  <2>1. \A t : (TooShort(t))' = TooShort(t) /\ (Wrong(t))' = Wrong(t)
    BY <1>2, <1>6
  <2> QED
    BY <1>1, <1>3, <1>6, <2>1 DEF WrittenHasEntry, WrittenStays
<1>7. ASSUME NEW t \in todo, SkipTuple(t), Visited' \subseteq Visited \cup {t}
      PROVE  WrittenHasEntry' /\ WrittenStays'
  <2>1. freqs' = freqs /\ termstat' = termstat /\ TooShort(t)
    BY <1>7 DEF SkipTuple
  <2>2. \A u : (TooShort(u))' = TooShort(u) /\ (Wrong(u))' = Wrong(u)
    BY <1>2, <2>1
  <2> QED
    BY <1>1, <1>3, <1>7, <2>1, <2>2 DEF WrittenHasEntry, WrittenStays
<1>8. ASSUME NEW t \in todo, AddTuple(t), Visited' \subseteq Visited \cup {t}, t \in DOMAIN freqs,
             t \notin Visited, \A u \in Visited : Len(u) <= Len(t)
      PROVE  WrittenHasEntry' /\ WrittenStays'
  <2> DEFINE e == [dc |-> freqs[t].dc, txt |-> Txt(freqs[t].wids)]
  <2>1. freqs' = freqs /\ ~TooShort(t) /\ ~Wrong(t) /\ termstat' = With(termstat, Key(t), e)
    BY <1>8 DEF AddTuple, Put
  <2>2. \A u : (TooShort(u))' = TooShort(u) /\ (Wrong(u))' = Wrong(u)
    BY <1>2, <2>1
  <2>3. /\ DOMAIN termstat' = DOMAIN termstat \cup {Key(t)} /\ termstat'[Key(t)] = e
        /\ \A key \in DOMAIN termstat : key # Key(t) => termstat'[key] = termstat[key]
    BY <2>1 DEF With
  <2>4. Len(e.txt) = Len(t) /\ Len(t) \in Nat
    <3>1. Len(t) \in {2, 3} /\ Len(Txt(freqs[t].wids)) = Len(t)
      BY <1>3, <1>8, TupleFacts
    <3> QED
      BY <3>1
  <2> HIDE DEF e
  <2>5. ASSUME NEW u \in Visited', ~TooShort(u)
        PROVE  /\ ~Wrong(u) /\ Key(u) \in DOMAIN termstat'
               /\ Len(termstat'[Key(u)].txt) >= Len(u)
               /\ PrefixFree => termstat'[Key(u)] = [dc |-> freqs[u].dc, txt |-> Txt(freqs[u].wids)]
    <3>1. CASE u = t
      BY <2>1, <2>3, <2>4, <3>1 DEF e
    <3>2. CASE u # t
      <4>1. u \in Visited /\ Len(u) <= Len(t) /\ u \in DOMAIN freqs
        BY <1>4, <1>8, <2>5, <3>2
      <4>2. ~Wrong(u) /\ Key(u) \in DOMAIN termstat /\ Len(termstat[Key(u)].txt) >= Len(u)
        BY <1>3, <2>5, <4>1 DEF WrittenHasEntry
      <4>3. Len(u) \in Nat
        BY <1>3, <4>1, TupleFacts
      <4>4. Len(termstat'[Key(u)].txt) >= Len(u)
        BY <2>3, <2>4, <4>1, <4>2, <4>3
      <4>5. ASSUME PrefixFree
            PROVE  termstat'[Key(u)] = [dc |-> freqs[u].dc, txt |-> Txt(freqs[u].wids)]
        <5>1. Key(u) # Key(t)
          BY <1>3, <1>8, <2>1, <3>2, <4>1, <4>2, <4>5, KeysApart
        <5>2. termstat[Key(u)] = [dc |-> freqs[u].dc, txt |-> Txt(freqs[u].wids)]
          BY <1>3, <2>5, <4>1, <4>5 DEF WrittenStays
        <5> QED
          BY <2>3, <4>2, <5>1, <5>2
      <4> QED
        BY <2>3, <4>2, <4>4, <4>5
    <3> QED
      BY <3>1, <3>2
  <2> QED
    BY <1>1, <2>1, <2>2, <2>5 DEF WrittenHasEntry, WrittenStays
<1> QED
  BY <1>5, <1>6, <1>7, <1>8, VisitedStep

(* The loops of to_zmap keep their invariant.                              *)
THEOREM Invariance == Spec => []IInv
<1>1. IInv /\ [Next]_vars => IInv'
  BY PhaseStep, FreqsStep, SinglesStep, EntriesStep, WrittenStep, ThrewStep DEF IInv
<1> QED
  BY <1>1, InitIInv, PTL DEF Spec

-----------------------------------------------------------------------------
(* Once the map is saved, every source has been written.                   *)
LEMMA SavedSources ==
  ASSUME IInv, pc = "saved", NEW s \in Sources
  PROVE  \/ s \in Singles /\ Len(s[1]) = 1 /\ Joined(s[1]) \in DOMAIN termstat
            /\ s[1] \in StringsOf(AllStrs)
         \/ \E t \in Visited :
              /\ t \in DOMAIN freqs /\ ~TooShort(t) /\ ~Wrong(t)
              /\ s[1] = LemStrs(t) /\ s[3] = Txt(freqs[t].wids)
              /\ Joined(s[1]) = Key(t) /\ Len(s[1]) = Len(t) /\ Len(t) \in {2, 3}
              /\ s[1] \in StringsOf(AllStrs)
<1>1. files \in Tables /\ FreqsFrom /\ AllLoaded /\ AllSingles /\ WrittenHasEntry /\ todo = {}
  BY DEF IInv, PhaseOK
<1>2. CASE s \in Singles
  <2>1. PICK m \in {x \in ToSet(files.lemfreq) : x.weight > MinDocs} :
          s = <<<<m.str>>, m.weight, <<>>>>
    BY <1>2 DEF Singles
  <2>2. PICK i \in DOMAIN files.lemfreq : m = files.lemfreq[i]
    BY DEF ToSet
  <2>3. m.str \in DOMAIN termstat
    BY <1>1, <2>1, <2>2 DEF AllSingles
  <2>4. m.str \in AllStrs
    BY DEF AllStrs
  <2>5. Len(<<m.str>>) = 1 /\ Joined(<<m.str>>) = m.str
    BY DEF Joined
  <2>6. <<m.str>> \in StringsOf(AllStrs)
    BY <2>4, <2>5 DEF StringsOf
  <2>7. s[1] = <<m.str>>
    BY <2>1
  <2> QED
    BY <1>2, <2>3, <2>5, <2>6, <2>7
<1>3. CASE s \notin Singles
  <2>1. PICK g \in ToSet(Groups) : s \in SourcesOf(g) /\ Exported(s)
    BY <1>3 DEF Sources
  <2>2. PICK i \in DOMAIN Groups : g = Groups[i]
    BY DEF ToSet
  <2> DEFINE t == g.lids
  <2>3. t \in DOMAIN freqs
    BY <1>1, <2>2 DEF AllLoaded
  <2>4. s[1] = LemStrs(t) /\ s[3] = Txt(freqs[t].wids)
    BY <1>1, <2>1, <2>2, <2>3, SourceFacts
  <2> HIDE DEF t
  <2>5. ~TooShort(t)
    BY <1>1, <2>1, <2>3, <2>4, ExportedIs
  <2>6. Len(t) \in {2, 3} /\ Len(LemStrs(t)) = Len(t)
    BY <1>1, <2>3, TupleFacts
  <2>7. t \in Visited
    BY <1>1, <2>3, <2>6 DEF Visited
  <2>8. ~Wrong(t)
    BY <1>1, <2>5, <2>7 DEF WrittenHasEntry
  <2>9. LemStrs(t) \in StringsOf(AllStrs)
    BY <1>1, <2>3, <2>8, RightTuple
  <2> QED
    BY <2>3, <2>4, <2>5, <2>6, <2>7, <2>8, <2>9 DEF Key
<1> QED
  BY <1>2, <1>3

LEMMA LongestIsLeft == IInv => LongestWins
<1> SUFFICES ASSUME IInv, pc = "saved", NEW s \in Sources
             PROVE  /\ Joined(s[1]) \in DOMAIN stat.terms
                    /\ Len(stat.terms[Joined(s[1])].txt) >= (IF Len(s[1]) = 1 THEN 0 ELSE Len(s[1]))
  BY DEF LongestWins
<1>1. stat.terms = termstat /\ EntriesAreWhole /\ WrittenHasEntry
  BY DEF IInv, PhaseOK
<1>2. \A r \in Sources : Len(r[3]) \in Nat
  <2> TAKE r \in Sources
  <2>1. CASE r \in Singles
    <3>1. r[3] = <<>>
      BY <2>1 DEF Singles
    <3> QED
      BY <3>1
  <2>2. CASE r \notin Singles
    <3>1. PICK t \in DOMAIN freqs : r[3] = Txt(freqs[t].wids)
      BY <2>2, SavedSources
    <3>2. files \in Tables /\ FreqsFrom
      BY DEF IInv, PhaseOK
    <3>3. Len(t) \in {2, 3} /\ Len(Txt(freqs[t].wids)) = Len(t)
      BY <3>2, TupleFacts
    <3>4. \A k \in {2, 3} : k \in Nat
      OBVIOUS
    <3> QED
      BY <3>1, <3>3, <3>4
  <2> QED
    BY <2>1, <2>2
<1>3. CASE Len(s[1]) = 1 /\ Joined(s[1]) \in DOMAIN termstat
  <2>1. PICK r \in Sources : termstat[Joined(s[1])] = [dc |-> r[2], txt |-> r[3]]
    BY <1>1, <1>3 DEF EntriesAreWhole
  <2>2. Len(termstat[Joined(s[1])].txt) \in Nat
    BY <1>2, <2>1
  <2> QED
    BY <1>1, <1>3, <2>2
<1>4. CASE \E t \in Visited : /\ ~TooShort(t) /\ Joined(s[1]) = Key(t) /\ Len(s[1]) = Len(t)
                              /\ Len(t) \in {2, 3}
  BY <1>1, <1>4 DEF WrittenHasEntry
<1> QED
  BY <1>3, <1>4, SavedSources

LEMMA MissingIsSeen == IInv => StopsOnMissing
<1> SUFFICES ASSUME IInv, pc \in {"saved", "threw"}
             PROVE  pc = "threw" <=>
                      \/ files.total_count = <<>>
                      \/ \E t \in DOMAIN freqs :
                           /\ Len(t) = 3 \/ \A p \in DOMAIN t : Len(WordStr(freqs[t].wids[p])) >= MinLetters
                           /\ \/ freqs[t].dc = 0
                              \/ \E p \in DOMAIN t :
                                   t[p] \notin DOMAIN files.lemid \/ freqs[t].wids[p] \notin DOMAIN files.uni
  BY DEF StopsOnMissing
<1>1. files \in Tables /\ FreqsFrom /\ ThrewRightly /\ WrittenHasEntry
  BY DEF IInv, PhaseOK
<1>2. ASSUME NEW t \in DOMAIN freqs
      PROVE  /\ ~TooShort(t) <=> (Len(t) = 3 \/ \A p \in DOMAIN t : Len(WordStr(freqs[t].wids[p])) >= MinLetters)
             /\ Wrong(t) <=> \/ freqs[t].dc = 0
                             \/ \E p \in DOMAIN t :
                                  t[p] \notin DOMAIN files.lemid \/ freqs[t].wids[p] \notin DOMAIN files.uni
             /\ Len(t) \in {2, 3}
  <2>1. Len(t) \in {2, 3} /\ DOMAIN t = 1..Len(t)
    BY <1>1, TupleFacts
  <2>2. (\A w : Len(WordStr(w)) \in Nat) /\ MinLetters \in Nat
    BY <1>1, StringFacts, ToZmapAssumption
  <2>3. ~TooShort(t) <=> (Len(t) = 3 \/ \A p \in DOMAIN t : Len(WordStr(freqs[t].wids[p])) >= MinLetters)
    <3>1. CASE Len(t) = 3
      BY <3>1 DEF TooShort
    <3>2. CASE Len(t) = 2
      BY <2>1, <2>2, <3>2 DEF TooShort
    <3> QED
      BY <2>1, <3>1, <3>2
  <2>4. Wrong(t) <=> \/ freqs[t].dc = 0
                     \/ \E p \in DOMAIN t :
                          t[p] \notin DOMAIN files.lemid \/ freqs[t].wids[p] \notin DOMAIN files.uni
    BY <1>1, StringFacts DEF Wrong
  <2> QED
    BY <2>1, <2>3, <2>4
<1>3. pc = "threw" => files.total_count = <<>> \/ \E t \in DOMAIN freqs : ~TooShort(t) /\ Wrong(t)
  BY <1>1 DEF ThrewRightly
<1>4. ASSUME pc = "saved", NEW t \in DOMAIN freqs, ~TooShort(t) PROVE ~Wrong(t)
  <2>1. t \in Visited
    BY <1>2, <1>4 DEF Visited, IInv, PhaseOK
  <2> QED
    BY <1>1, <1>4, <2>1 DEF WrittenHasEntry
<1>5. pc = "threw" <=> files.total_count = <<>> \/ \E t \in DOMAIN freqs : ~TooShort(t) /\ Wrong(t)
  BY <1>3, <1>4 DEF IInv, PhaseOK
<1> QED
  BY <1>2, <1>5

LEMMA NothingIsLost == IInv => NothingLost
<1> SUFFICES ASSUME IInv, pc = "saved", PrefixFree
             PROVE  /\ \A s \in Sources :
                         Len(s[1]) > 1 => /\ Joined(s[1]) \in DOMAIN stat.terms
                                          /\ stat.terms[Joined(s[1])].txt = s[3]
                    /\ Cardinality(DOMAIN stat.terms) = Cardinality({s[1] : s \in Sources})
  BY DEF NothingLost
<1>1. /\ files \in Tables /\ FreqsFrom /\ WrittenHasEntry /\ WrittenStays /\ EntriesAreWhole
      /\ stat.terms = termstat /\ IsFiniteSet(DOMAIN termstat)
  BY DEF IInv, PhaseOK
<1>2. ASSUME NEW s \in Sources, Len(s[1]) > 1
      PROVE  Joined(s[1]) \in DOMAIN stat.terms /\ stat.terms[Joined(s[1])].txt = s[3]
  <2>1. ~(Len(s[1]) = 1)
    <3>1. \A k : k > 1 => k # 1
      OBVIOUS
    <3> QED
      BY <1>2, <3>1
  <2>2. PICK t \in Visited : /\ ~TooShort(t) /\ s[3] = Txt(freqs[t].wids) /\ Joined(s[1]) = Key(t)
    BY <2>1, SavedSources
  <2>3. Key(t) \in DOMAIN termstat
    BY <1>1, <2>2 DEF WrittenHasEntry
  <2>4. termstat[Key(t)].txt = Txt(freqs[t].wids)
    <3>1. termstat[Key(t)] = [dc |-> freqs[t].dc, txt |-> Txt(freqs[t].wids)]
      BY <1>1, <2>2 DEF WrittenStays
    <3> QED
      BY <3>1
  <2> QED
    BY <1>1, <2>2, <2>3, <2>4
<1> DEFINE K == {s[1] : s \in Sources}
           D == DOMAIN termstat
           f == [ss \in K |-> Joined(ss)]
<1>3. \A ss \in K : ss \in StringsOf(AllStrs) /\ Joined(ss) \in D
  <2> SUFFICES ASSUME NEW s \in Sources PROVE s[1] \in StringsOf(AllStrs) /\ Joined(s[1]) \in D
    OBVIOUS
  <2> QED
    BY <1>1, SavedSources DEF WrittenHasEntry
<1>4. f \in Injection(K, D)
  <2>1. f \in [K -> D]
    BY <1>3
  <2>2. ASSUME NEW ss \in K, NEW tt \in K, f[ss] = f[tt] PROVE ss = tt
    <3>1. Joined(ss) = Joined(tt)
      BY <2>2
    <3>2. AllStrs \subseteq Seq(Letter) /\ NonePrefix(AllStrs)
      BY <1>1, AllStrsFacts
    <3> QED
      BY <1>3, <3>1, <3>2, JoinedApart
  <2> HIDE DEF f, K, D
  <2>3. DOMAIN f = K
    BY <2>1
  <2> QED
    BY <2>1, <2>2, <2>3 DEF Injection, IsInjective
<1>5. f \in Surjection(K, D)
  <2>1. \A key \in D : \E ss \in K : f[ss] = key
    BY <1>1 DEF EntriesAreWhole
  <2> HIDE DEF f, K, D
  <2> QED
    BY <1>4, <2>1 DEF Injection, Surjection
<1>6. Cardinality(K) = Cardinality(D)
  <2> HIDE DEF f, K, D
  <2> QED
    BY <1>1, <1>4, <1>5, FS_Injection DEF D
<1> QED
  BY <1>1, <1>2, <1>6

(* The count and the text under a key belong to one lemma, pair or triple, *)
(* whose strings the key is (Put, AddSingle, AddTuple).                    *)
THEOREM WholeEntries == Spec => []EntriesAreWhole
BY Invariance, PTL DEF IInv

(* When the map is written, the entry of a joined string is that of a      *)
(* longest tuple with it, in whatever order the hash tables are walked.    *)
THEOREM LongerTuplesWin == Spec => []LongestWins
BY Invariance, LongestIsLeft, PTL

(* to_zmap stops exactly when total_count.txt cannot be opened or a tuple  *)
(* it would write has lost a string or its count ("wrong data values").    *)
THEOREM MissingValuesStop == Spec => []StopsOnMissing
BY Invariance, MissingIsSeen, PTL

(* If no lemma string begins another, every lemma, pair and triple has an  *)
(* entry of its own, although their keys have no separators.               *)
THEOREM SelfDelimitingLosesNothing == Spec => []NothingLost
BY Invariance, NothingIsLost, PTL

=============================================================================
