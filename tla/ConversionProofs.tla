-------------------------- MODULE ConversionProofs --------------------------
(***************************************************************************)
(* What is proved of the way from the books to corpus.bin and lems.bin:    *)
(*                                                                         *)
(*   ConvertScript  the ranges of par_list are a partition of any list;   *)
(*                  however many workers die and however often the script  *)
(*                  is run again, a book is lost only when a command fails *)
(*                  on it or unzip is told to keep what a death cut off;   *)
(*   Convert        the walk calls fn for the window of any tree, and the  *)
(*                  corpus holds the phrases of these files, each once,    *)
(*                  in order, and nothing else;                            *)
(*   Lemmatize      the lemmas of a chunk land on its words, and a place   *)
(*                  of lems.bin is the id of its word or is found not to   *)
(*                  be.                                                    *)
(***************************************************************************)
EXTENDS ConvertScript, Convert, Lemmatize, WellFoundedInduction, FiniteSetTheorems, TLAPS

(* Sequences, and sets of natural numbers.                                 *)
LEMMA SeqIs ==
  ASSUME NEW S, NEW s \in Seq(S)
  PROVE  Len(s) \in Nat /\ DOMAIN s = 1..Len(s) /\ \A i \in 1..Len(s) : s[i] \in S
OBVIOUS

LEMMA LenIs ==
  ASSUME NEW S, NEW n \in Nat, NEW f \in [1..n -> S]
  PROVE  f \in Seq(S) /\ Len(f) = n
OBVIOUS

LEMMA AppendIs ==
  ASSUME NEW S, NEW s \in Seq(S), NEW x \in S
  PROVE  /\ Append(s, x) \in Seq(S) /\ Len(Append(s, x)) = Len(s) + 1 /\ Len(s) \in Nat
         /\ DOMAIN s = 1..Len(s) /\ DOMAIN Append(s, x) = 1..(Len(s) + 1)
         /\ \A i \in 1..Len(s) : Append(s, x)[i] = s[i]
         /\ Append(s, x)[Len(s) + 1] = x
OBVIOUS

(* A set of natural numbers that is not empty has a least one.             *)
LEMMA Least ==
  ASSUME NEW T, T \subseteq Nat, T # {}
  PROVE  \E x \in T : \A m \in T : x <= m
<1> DEFINE R == {ss \in Nat \X Nat : ss[1] < ss[2]}
<1>1. IsWellFoundedOn(R, Nat)
  BY NatLessThanWellFounded DEF OpToRel
<1> HIDE DEF R
<1>2. \E x \in T : \A m \in T : ~(<<m, x>> \in R)
  BY <1>1, WFMin
<1>3. \E x \in T : \A m \in T : ~(m < x)
  BY <1>2 DEF R
<1> QED
  BY <1>3

-----------------------------------------------------------------------------
(* ConvertScript                                                           *)
-----------------------------------------------------------------------------
(* What the integer part of a quotient is.                                 *)
LEMMA DivBounds ==
  ASSUME NEW a \in Nat, NEW b \in Nat, b > 0
  PROVE  /\ a \div b \in Nat
         /\ b * (a \div b) <= a
         /\ a < b * (a \div b) + b
BY SMT

LEMMA MulOrder ==
  ASSUME NEW q \in Nat, NEW r \in Nat, NEW b \in Nat, b > 0, b * q < b * r + b
  PROVE  q <= r
BY SMT

LEMMA MulMono ==
  ASSUME NEW q \in Nat, NEW r \in Nat, NEW b \in Nat, q <= r
  PROVE  q * b <= r * b
BY SMT

(* q is the integer part of a / b when b * q <= a < b * (q + 1).           *)
LEMMA DivIs ==
  ASSUME NEW a \in Nat, NEW b \in Nat, b > 0, NEW q \in Nat, b * q <= a, a < b * q + b
  PROVE  a \div b = q
<1>1. a \div b \in Nat /\ b * (a \div b) <= a /\ a < b * (a \div b) + b
  BY DivBounds
<1>2. b * q < b * (a \div b) + b /\ b * (a \div b) < b * q + b
  BY <1>1, SMT
<1>3. q <= a \div b /\ a \div b <= q
  BY <1>1, <1>2, MulOrder
<1> QED
  BY <1>1, <1>3

LEMMA DivMono ==
  ASSUME NEW a \in Nat, NEW c \in Nat, NEW b \in Nat, b > 0, a <= c
  PROVE  a \div b <= c \div b
<1>1. /\ a \div b \in Nat /\ b * (a \div b) <= a
      /\ c \div b \in Nat /\ c < b * (c \div b) + b
  BY DivBounds
<1>2. b * (a \div b) < b * (c \div b) + b
  BY <1>1
<1> QED
  BY <1>1, <1>2, MulOrder

-----------------------------------------------------------------------------
(* The sizes the lemmas below speak of.                                    *)
LEMMA StartType ==
  ASSUME NEW k \in Nat, NEW len \in Nat
  PROVE  /\ Workers \in Nat /\ Workers > 0
         /\ Start(k, len) \in Nat
         /\ Start(k + 1, len) = Start(k, len) + len + Workers
         /\ FirstIndex(k, len) \in Nat
<1>1. Workers \in Nat /\ Workers > 0
  BY ScriptAssumption
<1>2. Start(k, len) \in Nat
  BY <1>1 DEF Start
<1>3. Start(k + 1, len) = Start(k, len) + len + Workers
  BY <1>1 DEF Start
<1>4. FirstIndex(k, len) \in Nat
  BY <1>1, <1>2, DivBounds DEF FirstIndex
<1> QED
  BY <1>1, <1>2, <1>3, <1>4

LEMMA IndexBounds ==
  ASSUME NEW k \in Nat, NEW len \in Nat
  PROVE  /\ FirstIndex(k, len) \in Nat
         /\ Workers * FirstIndex(k, len) <= Start(k, len)
         /\ Start(k, len) < Workers * FirstIndex(k, len) + Workers
BY StartType, DivBounds DEF FirstIndex

(* A range ends one before the next one starts; the last ends with the     *)
(* list.                                                                   *)
LEMMA NextStartsBehind ==
  ASSUME NEW k \in Nat, NEW len \in Nat, Forked(k, len)
  PROVE  /\ len > 0
         /\ Forked(k + 1, len) => LastIndex(k, len) = FirstIndex(k + 1, len) - 1
         /\ ~Forked(k + 1, len) => LastIndex(k, len) = len - 1
<1> DEFINE s == Start(k, len)
<1>1. /\ Workers \in Nat /\ Workers > 0 /\ s \in Nat
      /\ Start(k + 1, len) = s + len + Workers
  BY StartType
<1>2. s < Workers * len
  BY DEF Forked
<1>3. len > 0
  BY <1>1, <1>2
<1>4. Workers * (len - 1) = Workers * len - Workers
  BY <1>1
<1>5. Forked(k + 1, len) <=> s + len < Workers * (len - 1)
  BY <1>1, <1>4 DEF Forked
<1>6. CASE s + len < Workers * (len - 1)
  <2>1. LastIndex(k, len) = (s + len) \div Workers
    BY <1>6 DEF LastIndex
  <2> DEFINE q == (s + len) \div Workers
  <2>2. q \in Nat /\ Workers * q <= s + len /\ s + len < Workers * q + Workers
    BY <1>1, DivBounds
  <2>3. Workers * (q + 1) = Workers * q + Workers
    BY <1>1, <2>2
  <2>4. (s + len + Workers) \div Workers = q + 1
    <3> HIDE DEF q, s
    <3> QED
      BY <1>1, <2>2, <2>3, DivIs
  <2>5. FirstIndex(k + 1, len) = q + 1
    BY <1>1, <2>4 DEF FirstIndex
  <2> QED
    BY <1>3, <1>5, <1>6, <2>1, <2>2, <2>5
<1>7. CASE ~(s + len < Workers * (len - 1))
  <2>1. LastIndex(k, len) = (Workers * (len - 1)) \div Workers
    BY <1>7 DEF LastIndex
  <2>2. (Workers * (len - 1)) \div Workers = len - 1
    <3>1. len - 1 \in Nat /\ Workers * (len - 1) \in Nat
      BY <1>1, <1>3
    <3> QED
      BY <1>1, <3>1, DivIs
  <2> QED
    BY <1>3, <1>5, <1>7, <2>1, <2>2
<1> QED
  BY <1>6, <1>7

(* The ranges are in the list, and none is empty.                          *)
LEMMA IndicesInList ==
  ASSUME NEW k \in Nat, NEW len \in Nat, Forked(k, len)
  PROVE  /\ LastIndex(k, len) \in 0..(len - 1)
         /\ FirstIndex(k, len) <= LastIndex(k, len)
<1>1. /\ Workers \in Nat /\ Workers > 0 /\ Start(k, len) \in Nat
      /\ Start(k + 1, len) = Start(k, len) + len + Workers
      /\ FirstIndex(k, len) \in Nat
  BY StartType
<1>2. FirstIndex(k + 1, len) \in Nat
  BY StartType
<1>3. Start(k, len) < Workers * len /\ len > 0
  BY NextStartsBehind DEF Forked
<1>4. FirstIndex(k, len) <= len - 1
  <2> DEFINE q == FirstIndex(k, len)
  <2>1. Workers * q <= Start(k, len)
    BY <1>1, DivBounds DEF FirstIndex
  <2>2. Workers * (len - 1) + Workers = Workers * len
    BY <1>1
  <2>3. q \in Nat /\ len - 1 \in Nat
    BY <1>1, <1>3
  <2>4. Workers * q < Workers * (len - 1) + Workers
    <3> HIDE DEF q
    <3> QED
      BY <1>1, <1>3, <2>1, <2>2, <2>3
  <2> QED
    BY <1>1, <2>3, <2>4, MulOrder
<1>5. CASE Forked(k + 1, len)
  <2>1. LastIndex(k, len) = FirstIndex(k + 1, len) - 1
    BY <1>5, NextStartsBehind
  <2>2. FirstIndex(k, len) + 1 <= FirstIndex(k + 1, len)
    <3> DEFINE q == FirstIndex(k, len)
    <3>1. Workers * q <= Start(k, len) /\ Start(k, len) < Workers * q + Workers
      BY <1>1, DivBounds DEF FirstIndex
    <3>2. (Start(k, len) + Workers) \div Workers = q + 1
      <4>1. Workers * (q + 1) = Workers * q + Workers /\ q \in Nat
        BY <1>1
      <4> HIDE DEF q
      <4> QED
        BY <1>1, <3>1, <4>1, DivIs
    <3>3. (Start(k, len) + Workers) \div Workers <= (Start(k, len) + len + Workers) \div Workers
      BY <1>1, DivMono
    <3> QED
      BY <1>1, <3>2, <3>3 DEF FirstIndex
  <2>3. FirstIndex(k + 1, len) <= len - 1
    <3>1. LastIndex(k, len) = (Start(k, len) + len) \div Workers
      <4>1. Workers * (len - 1) = Workers * len - Workers
        BY <1>1
      <4> QED
        BY <1>1, <1>5, <4>1 DEF LastIndex, Forked
    <3> DEFINE q == LastIndex(k, len)
    <3>2. q \in Nat /\ Workers * q <= Start(k, len) + len
      BY <1>1, <3>1, DivBounds
    <3>3. Start(k, len) + len + Workers < Workers * len
      BY <1>1, <1>5 DEF Forked
    <3>4. Workers * (q + 1) = Workers * q + Workers /\ Workers * (len - 1) + Workers = Workers * len
      BY <1>1, <3>2
    <3>5. q + 1 <= len - 1
      <4>1. len - 1 \in Nat /\ q + 1 \in Nat
        BY <1>3, <3>2
      <4>2. Workers * (q + 1) < Workers * (len - 1) + Workers
        <5> HIDE DEF q
        <5> QED
          BY <1>1, <3>2, <3>3, <3>4
      <4> QED
        BY <1>1, <4>1, <4>2, MulOrder
    <3> QED
      BY <1>2, <2>1, <3>5
  <2> QED
    BY <1>1, <1>2, <2>1, <2>2, <2>3
<1>6. CASE ~Forked(k + 1, len)
  BY <1>1, <1>3, <1>4, <1>6, NextStartsBehind
<1> QED
  BY <1>5, <1>6

(* A later worker starts behind an earlier one's range.                    *)
LEMMA LaterStartsBehind ==
  ASSUME NEW k \in Nat, NEW l \in Nat, NEW len \in Nat, k < l, Forked(k, len), Forked(l, len)
  PROVE  LastIndex(k, len) < FirstIndex(l, len)
<1>1. /\ Workers \in Nat /\ Workers > 0
      /\ Start(k + 1, len) \in Nat /\ FirstIndex(k + 1, len) \in Nat
      /\ Start(l, len) \in Nat /\ FirstIndex(l, len) \in Nat
  BY StartType
<1>2. Start(k + 1, len) <= Start(l, len)
  <2>1. k + 1 \in Nat /\ k + 1 <= l /\ len + Workers \in Nat
    BY <1>1
  <2> QED
    BY <2>1, MulMono DEF Start
<1>3. Forked(k + 1, len)
  BY <1>1, <1>2 DEF Forked
<1>4. LastIndex(k, len) = FirstIndex(k + 1, len) - 1
  BY <1>3, NextStartsBehind
<1>5. FirstIndex(k + 1, len) <= FirstIndex(l, len)
  BY <1>1, <1>2, DivMono DEF FirstIndex
<1> QED
  BY <1>1, <1>4, <1>5

(* par_list gives every index of a list of any length to exactly one       *)
(* worker, and no worker an index outside of it: the fractions of          *)
(* len / 8 + 1 add up, however they are cut.                               *)
THEOREM SplitIsExact == \A len \in Nat : Split(len)
<1> SUFFICES ASSUME NEW len \in Nat
             PROVE  Split(len)
  OBVIOUS
<1>0. Workers \in Nat /\ Workers > 0 /\ Worker \subseteq Nat
  BY ScriptAssumption DEF Worker
<1>1. ASSUME NEW i \in 0..(len - 1)
      PROVE  \E k \in Worker : i \in Indices(k, len)
  <2> DEFINE a == Workers * (i + 1) - 1
             b == len + Workers
             k == a \div b
  <2>1. i \in Nat /\ i + 1 <= len /\ i + 1 \in Nat
    BY <1>1
  <2>2. Workers * (i + 1) = Workers * i + Workers /\ Workers * i \in Nat
    BY <1>0, <2>1
  <2>3. a \in Nat /\ b \in Nat /\ b > 0
    BY <1>0, <2>2
  <2>4. k \in Nat /\ b * k <= a /\ a < b * k + b
    BY <2>3, DivBounds
  <2>5. Workers * (i + 1) <= Workers * len
    <3>1. (i + 1) * Workers <= len * Workers
      BY <1>0, <2>1, MulMono
    <3>2. (i + 1) * Workers = Workers * (i + 1) /\ len * Workers = Workers * len
      BY <1>0, <2>1
    <3> QED
      BY <3>1, <3>2
  <2>6. Start(k, len) = b * k
    BY <1>0, <2>3, <2>4 DEF Start
  <2>7. Forked(k, len)
    BY <1>0, <2>2, <2>3, <2>4, <2>5, <2>6 DEF Forked
  <2>8. k \in Worker
    <3>1. b * (Workers - 1) + b = Workers * len + Workers * Workers
      BY <1>0
    <3>2. b * k < b * (Workers - 1) + b
      <4>1. Workers * Workers \in Nat /\ Workers * len \in Nat
        BY <1>0
      <4>2. b * k \in Nat
        BY <2>3, <2>4
      <4> HIDE DEF k, a, b
      <4> QED
        BY <1>0, <2>6, <2>7, <3>1, <4>1, <4>2 DEF Forked
    <3>3. k <= Workers - 1
      <4>1. Workers - 1 \in Nat
        BY <1>0
      <4> HIDE DEF k, a, b
      <4> QED
        BY <2>3, <2>4, <3>2, <4>1, MulOrder
    <3> QED
      BY <1>0, <2>4, <3>3 DEF Worker
  <2>9. FirstIndex(k, len) <= i
    <3> DEFINE q == FirstIndex(k, len)
    <3>1. q \in Nat /\ Workers * q <= b * k
      BY <2>4, <2>6, IndexBounds
    <3>2. Workers * q < Workers * i + Workers
      <4> HIDE DEF q, k, b
      <4> QED
        BY <1>0, <2>2, <2>3, <2>4, <3>1
    <3> HIDE DEF k, a, b
    <3>3. q <= i
      <4> HIDE DEF q
      <4> QED
        BY <1>0, <2>1, <3>1, <3>2, MulOrder
    <3> QED
      BY <3>3
  <2>10. i <= LastIndex(k, len)
    <3>1. CASE ~Forked(k + 1, len)
      BY <2>1, <2>4, <2>7, <3>1, NextStartsBehind
    <3>2. CASE Forked(k + 1, len)
      <4> DEFINE q == FirstIndex(k + 1, len)
      <4>1. q \in Nat /\ Start(k + 1, len) < Workers * q + Workers
        <5>1. k + 1 \in Nat
          BY <2>4
        <5> HIDE DEF k
        <5> QED
          BY <5>1, IndexBounds
      <4>2. Start(k + 1, len) = b * k + b
        <5>1. b * k \in Nat
          BY <2>3, <2>4
        <5>2. b = len + Workers
          OBVIOUS
        <5> HIDE DEF k, a, b
        <5>3. Start(k + 1, len) = Start(k, len) + len + Workers
          BY <2>4, StartType
        <5> QED
          BY <1>0, <2>3, <2>6, <5>1, <5>2, <5>3
      <4>3. Workers * (i + 1) < Workers * q + Workers
        <5>1. a + 1 = Workers * (i + 1)
          BY <1>0, <2>2
        <5>2. Workers * q \in Nat /\ b * k \in Nat
          BY <1>0, <2>3, <2>4, <4>1
        <5>3. a < b * k + b /\ b * k + b < Workers * q + Workers
          BY <2>4, <4>1, <4>2
        <5> HIDE DEF q, k, a, b
        <5>4. a + 1 < Workers * q + Workers
          BY <1>0, <2>3, <2>4, <5>2, <5>3
        <5> QED
          BY <5>1, <5>4
      <4>4. i + 1 <= q
        <5> HIDE DEF q
        <5> QED
          BY <1>0, <2>1, <4>1, <4>3, MulOrder
      <4>5. LastIndex(k, len) = q - 1
        BY <2>4, <2>7, <3>2, NextStartsBehind
      <4> QED
        BY <2>1, <4>1, <4>4, <4>5
    <3> QED
      BY <3>1, <3>2
  <2>11. FirstIndex(k, len) \in Nat /\ LastIndex(k, len) \in Nat
    BY <2>4, <2>7, StartType, IndicesInList
  <2> QED
    BY <2>1, <2>7, <2>8, <2>9, <2>10, <2>11 DEF Indices
<1>2. ASSUME NEW k \in Worker, NEW l \in Worker, k # l
      PROVE  Indices(k, len) \cap Indices(l, len) = {}
  <2>1. k \in Nat /\ l \in Nat /\ (k < l \/ l < k)
    BY <1>0, <1>2
  <2>2. CASE ~Forked(k, len) \/ ~Forked(l, len)
    BY <2>2 DEF Indices
  <2>3. CASE Forked(k, len) /\ Forked(l, len)
    <3>1. LastIndex(k, len) < FirstIndex(l, len) \/ LastIndex(l, len) < FirstIndex(k, len)
      BY <2>1, <2>3, LaterStartsBehind
    <3>2. /\ FirstIndex(k, len) \in Nat /\ FirstIndex(l, len) \in Nat
          /\ LastIndex(k, len) \in Nat /\ LastIndex(l, len) \in Nat
      BY <2>1, <2>3, StartType, IndicesInList
    <3> QED
      BY <3>1, <3>2 DEF Indices
  <2> QED
    BY <2>2, <2>3
<1>3. ASSUME NEW k \in Worker
      PROVE  Indices(k, len) \subseteq 0..(len - 1)
  <2>1. k \in Nat
    BY <1>0
  <2>2. CASE Forked(k, len)
    <3>1. FirstIndex(k, len) \in Nat /\ LastIndex(k, len) \in 0..(len - 1)
      BY <2>1, <2>2, StartType, IndicesInList
    <3> QED
      BY <2>2, <3>1 DEF Indices
  <2>3. CASE ~Forked(k, len)
    BY <2>3 DEF Indices
  <2> QED
    BY <2>2, <2>3
<1> QED
  BY <1>1, <1>2, <1>3 DEF Split

-----------------------------------------------------------------------------
(* The inductive invariant.  The list has every zip file that is there.    *)
ListOK ==
  /\ \A z \in zips : \E i \in DOMAIN files : files[i] = z
  /\ \A i, j \in DOMAIN files : files[i] = files[j] => i = j

(* A worker is in its range, and of its zip files just those from place on *)
(* are there.                                                              *)
ProgressOK(w) ==
  /\ step[w] # "done" => place[w] \in Indices(w, Len(files))
  /\ \A i \in Indices(w, Len(files)) :
       files[i + 1] \in zips <=> step[w] # "done" /\ place[w] <= i

Excused == spoilt \cup kept

(* Each book of the zip file at hand is still to be given to xml_grep, or  *)
(* was given to it and is a text.                                          *)
GrepOK(w) ==
  step[w] = "xml_grep" =>
    /\ left[w] \subseteq Fb2s(Current(w))
    /\ \A b \in Contents[Current(w)] :
         \/ <<Current(w), b>> \in Excused
         \/ <<Current(w), b, "fb2">> \in left[w] \cap whole
         \/ <<Current(w), b, "txt">> \in whole /\ <<Current(w), b, "fb2">> \notin left[w]

BooksSafe(z) == \A b \in Contents[z] : <<z, b, "txt">> \in whole \/ <<z, b>> \in Excused

RemoveOK(w) == step[w] = "remove" => BooksSafe(Current(w))

(* A question and a death are about a zip file a worker died in.           *)
DeathOK(w) == step[w] \in {"ask", "dead"} => Current(w) \in died

WorkerOK(w) == ProgressOK(w) /\ GrepOK(w) /\ RemoveOK(w) /\ DeathOK(w)

KeptOK == \A p \in kept : p[1] \in died

LostOK == \A z \in Names \ zips : BooksSafe(z)

(* No file of a zip file is there but that of one being worked on, or one  *)
(* a worker died in.                                                       *)
Unpacked(w, z) == step[w] \in {"xml_grep", "remove"} /\ Current(w) = z

FreshOK == \A z \in zips \ died : Present(z) = {} \/ \E w \in Worker : Unpacked(w, z)

ScriptInv ==
  TypeOK /\ ListOK /\ (\A w \in Worker : WorkerOK(w)) /\ KeptOK /\ LostOK /\ FreshOK

LEMMA SplitOfFiles ==
  ASSUME TypeOK
  PROVE  /\ Len(files) \in Nat
         /\ DOMAIN files = 1..Len(files)
         /\ Split(Len(files))
BY SplitIsExact DEF TypeOK

(* What a worker works on is in the path, and nobody else works on it.     *)
LEMMA CurrentIsThere ==
  ASSUME ScriptInv, NEW w \in Worker, step[w] # "done"
  PROVE  /\ place[w] \in Indices(w, Len(files))
         /\ place[w] + 1 \in DOMAIN files
         /\ Current(w) \in Names /\ Current(w) \in zips
<1>1. place[w] \in Indices(w, Len(files)) /\ place[w] \in Nat
  BY DEF ScriptInv, WorkerOK, ProgressOK, TypeOK
<1>2. Indices(w, Len(files)) \subseteq 0..(Len(files) - 1) /\ DOMAIN files = 1..Len(files) /\ Len(files) \in Nat
  BY SplitOfFiles DEF ScriptInv, Split
<1>3. place[w] + 1 \in DOMAIN files
  BY <1>1, <1>2
<1>4. Current(w) \in Names
  BY <1>3 DEF Current, ScriptInv, TypeOK
<1>5. Current(w) \in zips
  BY <1>1 DEF Current, ScriptInv, WorkerOK, ProgressOK
<1> QED
  BY <1>1, <1>3, <1>4, <1>5

LEMMA OthersWorkElsewhere ==
  ASSUME ScriptInv, NEW w \in Worker, step[w] # "done", NEW u \in Worker, u # w,
         NEW i \in Indices(u, Len(files))
  PROVE  files[i + 1] # Current(w)
<1>1. /\ place[w] \in Indices(w, Len(files)) /\ place[w] + 1 \in DOMAIN files
  BY CurrentIsThere
<1>2. /\ Indices(u, Len(files)) \subseteq 0..(Len(files) - 1)
      /\ Indices(u, Len(files)) \cap Indices(w, Len(files)) = {}
      /\ Len(files) \in Nat /\ DOMAIN files = 1..Len(files)
  BY SplitOfFiles DEF ScriptInv, Split
<1>3. i # place[w] /\ i \in 0..(Len(files) - 1) /\ place[w] \in Nat
  BY <1>1, <1>2 DEF ScriptInv, TypeOK
<1>4. i + 1 \in DOMAIN files /\ i + 1 # place[w] + 1
  BY <1>2, <1>3
<1> QED
  BY <1>1, <1>4 DEF Current, ScriptInv, ListOK

LEMMA OneWorkerOn ==
  ASSUME ScriptInv, NEW w \in Worker, step[w] # "done",
         NEW u \in Worker, step[u] # "done", Current(u) = Current(w)
  PROVE  u = w
<1> SUFFICES ASSUME u # w PROVE FALSE
  OBVIOUS
<1>1. place[u] \in Indices(u, Len(files))
  BY CurrentIsThere
<1> QED
  BY <1>1, OthersWorkElsewhere DEF Current

File == Names \X Books \X {"fb2", "txt"}

(* What a step of w leaves alone.                                          *)
Frame(w) ==
  /\ files' = files /\ job' = job
  /\ zips' = zips \/ zips' = zips \ {Current(w)}
  /\ spoilt \subseteq spoilt' /\ kept \subseteq kept' /\ died \subseteq died'
  /\ \A u \in Worker \ {w} : place'[u] = place[u] /\ step'[u] = step[u] /\ left'[u] = left[u]
  /\ \A y \in File : y[1] # Current(w) =>
       (y \in whole' <=> y \in whole) /\ (y \in torn' <=> y \in torn)

(* The files of a zip file that w is not working on.                       *)
LEMMA FilesKept ==
  ASSUME NEW w \in Worker, Frame(w), NEW z \in Names, z # Current(w)
  PROVE  /\ \A b \in Contents[z] : \A s \in {"fb2", "txt"} :
              <<z, b, s>> \in whole' <=> <<z, b, s>> \in whole
         /\ Present(z)' = Present(z)
         /\ BooksSafe(z) => BooksSafe(z)'
<1>1. Contents[z] \subseteq Books
  BY ScriptAssumption
<1>2. \A b \in Contents[z] : \A s \in {"fb2", "txt"} :
        /\ <<z, b, s>> \in whole' <=> <<z, b, s>> \in whole
        /\ <<z, b, s>> \in torn' <=> <<z, b, s>> \in torn
  <2> SUFFICES ASSUME NEW b \in Contents[z], NEW s \in {"fb2", "txt"}
               PROVE  /\ <<z, b, s>> \in whole' <=> <<z, b, s>> \in whole
                      /\ <<z, b, s>> \in torn' <=> <<z, b, s>> \in torn
    OBVIOUS
  <2>1. <<z, b, s>> \in File /\ <<z, b, s>>[1] = z
    BY <1>1 DEF File
  <2> QED
    BY <2>1 DEF Frame
<1>3. Present(z)' = Present(z)
  <2>1. Suffix' = Suffix /\ Suffix \in {"fb2", "txt"}
    BY DEF Suffix, Frame
  <2>2. Entries(z)' = Entries(z)
    BY <2>1 DEF Entries
  <2>3. \A e \in Entries(z) : (e \in whole' <=> e \in whole) /\ (e \in torn' <=> e \in torn)
    BY <1>2, <2>1 DEF Entries
  <2> QED
    BY <2>2, <2>3 DEF Present
<1>4. BooksSafe(z) => BooksSafe(z)'
  <2>1. Excused \subseteq Excused'
    BY DEF Excused, Frame
  <2> QED
    BY <1>2, <2>1 DEF BooksSafe
<1> QED
  BY <1>2, <1>3, <1>4

LEMMA OthersKept ==
  ASSUME ScriptInv, NEW w \in Worker, step[w] # "done", Frame(w), NEW u \in Worker, u # w
  PROVE  WorkerOK(u)'
<1>1. /\ files' = files /\ place'[u] = place[u] /\ step'[u] = step[u] /\ left'[u] = left[u]
      /\ Excused \subseteq Excused' /\ died \subseteq died'
  BY DEF Frame, Excused
<1>2. WorkerOK(u)
  BY DEF ScriptInv
<1>3. ProgressOK(u)'
  <2>1. \A i \in Indices(u, Len(files)) : files[i + 1] \in zips' <=> files[i + 1] \in zips
    BY OthersWorkElsewhere DEF Frame
  <2> QED
    BY <1>1, <1>2, <2>1 DEF WorkerOK, ProgressOK
<1>4. CASE step[u] = "done"
  BY <1>1, <1>3, <1>4 DEF WorkerOK, GrepOK, RemoveOK, DeathOK
<1>5. CASE step[u] # "done"
  <2>1. PICK y \in Names : y # Current(w) /\ Current(u) = y /\ Current(u)' = y
    BY <1>1, <1>5, CurrentIsThere, OthersWorkElsewhere DEF Current
  <2>2. /\ \A b \in Contents[y] : \A s \in {"fb2", "txt"} :
             <<y, b, s>> \in whole' <=> <<y, b, s>> \in whole
        /\ BooksSafe(y) => BooksSafe(y)'
    BY <2>1, FilesKept
  <2>3. GrepOK(u)'
    <3>1. GrepOK(u)
      BY <1>2 DEF WorkerOK
    <3> QED
      BY <1>1, <2>1, <2>2, <3>1 DEF GrepOK, Fb2s
  <2>4. RemoveOK(u)'
    <3>1. RemoveOK(u)
      BY <1>2 DEF WorkerOK
    <3> QED
      BY <1>1, <2>1, <2>2, <3>1 DEF RemoveOK, BooksSafe
  <2>5. DeathOK(u)'
    BY <1>1, <1>2, <2>1 DEF WorkerOK, DeathOK
  <2> QED
    BY <1>3, <2>3, <2>4, <2>5 DEF WorkerOK
<1> QED
  BY <1>4, <1>5

(* A step of w keeps the invariant if it keeps it of w and of the zip file *)
(* it works on.                                                            *)
LEMMA StepOfOne ==
  ASSUME ScriptInv, NEW w \in Worker, step[w] # "done", Frame(w),
         NEW y \in Names, y = Current(w),
         TypeOK', WorkerOK(w)', KeptOK',
         y \in zips' \/ BooksSafe(y)',
         y \in zips' \ died' => Present(y)' = {} \/ Unpacked(w, y)'
  PROVE  ScriptInv'
<1>1. \A u \in Worker : WorkerOK(u)'
  BY OthersKept
<1>2. ListOK'
  BY DEF ScriptInv, ListOK, Frame
<1>3. LostOK'
  <2> SUFFICES ASSUME NEW z \in Names, z \notin zips' PROVE BooksSafe(z)'
    BY DEF LostOK
  <2>1. CASE z = y
    BY <2>1
  <2>2. CASE z # y
    <3>1. z \notin zips
      BY <2>2 DEF Frame
    <3> QED
      BY <2>2, <3>1, FilesKept DEF ScriptInv, LostOK
  <2> QED
    BY <2>1, <2>2
<1>4. FreshOK'
  <2> SUFFICES ASSUME NEW z \in zips' \ died'
               PROVE  Present(z)' = {} \/ \E u \in Worker : Unpacked(u, z)'
    BY DEF FreshOK
  <2>1. CASE z = y
    BY <2>1
  <2>2. CASE z # y
    <3>1. z \in zips \ died /\ z \in Names
      BY DEF Frame, ScriptInv, TypeOK
    <3>2. CASE Present(z) = {}
      BY <2>2, <3>1, <3>2, FilesKept
    <3>3. CASE Present(z) # {}
      <4>1. PICK u \in Worker : Unpacked(u, z)
        BY <3>1, <3>3 DEF ScriptInv, FreshOK
      <4>2. u # w
        BY <2>2, <4>1 DEF Unpacked
      <4> QED
        BY <4>1, <4>2 DEF Unpacked, Current, Frame
    <3> QED
      BY <3>2, <3>3
  <2> QED
    BY <2>1, <2>2
<1> QED
  BY <1>1, <1>2, <1>3, <1>4 DEF ScriptInv

-----------------------------------------------------------------------------
(* The types of what a step of a worker changes.                           *)
LEMMA EntriesType ==
  ASSUME NEW z \in Names
  PROVE  /\ Entries(z) \subseteq File /\ \A e \in Entries(z) : e[1] = z
         /\ Fb2s(z) \subseteq Names \X Books \X {"fb2"}
         /\ Fb2s(z) \subseteq File /\ \A e \in Fb2s(z) : e[1] = z
<1>1. Contents[z] \subseteq Books
  BY ScriptAssumption
<1> QED
  BY <1>1 DEF Entries, Fb2s, Suffix, File

LEMMA BooksType ==
  ASSUME NEW S, S \subseteq File
  PROVE  BooksOf(S) \subseteq Names \X Books
BY DEF BooksOf, File

(* What the type invariant says of steps and left.                         *)
LEMMA StepsType ==
  ASSUME TypeOK
  PROVE  /\ left \in [Worker -> SUBSET (Names \X Books \X {"fb2"})]
         /\ step \in [Worker -> {"unzip", "ask", "xml_grep", "remove", "done", "dead"}]
         /\ whole \subseteq File /\ torn \subseteq File
BY DEF TypeOK, File

LEMMA UnpackKeeps ==
  ASSUME TypeOK, NEW z \in Names, NEW todo \in SUBSET Entries(z), NEW got, NEW cut,
         Unpack(todo, got, cut)
  PROVE  /\ whole' \subseteq File /\ torn' \subseteq File
         /\ \A y \in File : y[1] # z =>
              (y \in whole' <=> y \in whole) /\ (y \in torn' <=> y \in torn)
<1>1. got \subseteq File /\ cut \subseteq File /\ \A y \in got \cup cut : y[1] = z
  BY EntriesType DEF Unpack
<1>2. whole' = (whole \cup got) \ cut /\ torn' = (torn \ got) \cup cut
  BY DEF Unpack
<1>3. whole \subseteq File /\ torn \subseteq File
  BY StepsType
<1> QED
  BY <1>1, <1>2, <1>3

(* unzip wrote every entry, failed on it, or kept a file of it.            *)
LEMMA EntriesAccounted ==
  ASSUME TypeOK, NEW z \in Names, NEW todo \in SUBSET Entries(z),
         Entries(z) \ todo \subseteq whole \cup torn,
         NEW got \in SUBSET todo, NEW cut \in SUBSET todo, Unpack(todo, got, cut),
         spoilt' = spoilt \cup BooksOf(todo \ got),
         kept' = kept \cup BooksOf((Entries(z) \ todo) \cap torn),
         NEW b \in Contents[z]
  PROVE  <<z, b, Suffix>> \in whole' \/ <<z, b>> \in Excused'
<1> DEFINE e == <<z, b, Suffix>>
<1>1. e \in Entries(z) /\ e[1] = z /\ e[2] = b
  BY DEF Entries
<1> HIDE DEF e
<1>2. cut \subseteq todo \ got /\ whole' = (whole \cup got) \ cut
  BY DEF Unpack
<1>3. CASE e \in got
  BY <1>2, <1>3 DEF e
<1>4. CASE e \in todo \ got
  BY <1>1, <1>4 DEF BooksOf, Excused
<1>5. CASE e \notin todo /\ e \in torn
  BY <1>1, <1>5 DEF BooksOf, Excused
<1>6. CASE e \notin todo /\ e \in whole
  BY <1>2, <1>6 DEF e
<1> QED
  BY <1>1, <1>3, <1>4, <1>5, <1>6

(* unzip as a whole: of what it keeps a cut file, a worker must have died  *)
(* in the zip file.                                                        *)
LEMMA UnpacksKeeps ==
  ASSUME ScriptInv, NEW w \in Worker, step[w] \in {"unzip", "ask"},
         NEW todo \in SUBSET Entries(Current(w)), Unpacks(w, todo),
         Entries(Current(w)) \ todo \subseteq whole \cup torn,
         todo = Entries(Current(w)) \/ Current(w) \in died
  PROVE  ScriptInv'
<1>0. step[w] # "done" /\ UNCHANGED <<job, zips, files, place, died, runs>>
  BY DEF Unpacks
<1>1. PICK z \in Names : z = Current(w) /\ z \in zips /\ Current(w)' = z
  BY <1>0, CurrentIsThere DEF Current
<1>2. PICK got \in SUBSET todo, cut \in SUBSET todo :
        Unpack(todo, got, cut) /\ spoilt' = spoilt \cup BooksOf(todo \ got)
  BY DEF Unpacks
<1>3. kept' = kept \cup BooksOf((Entries(z) \ todo) \cap torn)
  BY <1>1 DEF Unpacks
<1>t. TypeOK
  BY DEF ScriptInv
<1>4. /\ whole' \subseteq File /\ torn' \subseteq File
      /\ \A y \in File : y[1] # z =>
           (y \in whole' <=> y \in whole) /\ (y \in torn' <=> y \in torn)
  <2> QED
    BY <1>1, <1>2, <1>t, UnpackKeeps
<1>5. /\ spoilt' \in SUBSET (Names \X Books) /\ kept' \in SUBSET (Names \X Books)
      /\ spoilt \subseteq spoilt' /\ kept \subseteq kept'
  <2>1. todo \ got \subseteq File /\ (Entries(z) \ todo) \cap torn \subseteq File
    BY <1>1, EntriesType
  <2>2. BooksOf(todo \ got) \subseteq Names \X Books
    BY <2>1, BooksType
  <2>3. BooksOf((Entries(z) \ todo) \cap torn) \subseteq Names \X Books
    <3> QED
      BY <2>1, BooksType
  <2> QED
    BY <1>2, <1>3, <1>t, <2>2, <2>3 DEF TypeOK
<1>6. /\ left' \in [Worker -> SUBSET (Names \X Books \X {"fb2"})]
      /\ step' \in [Worker -> {"unzip", "ask", "xml_grep", "remove", "done", "dead"}]
      /\ \A u \in Worker \ {w} : step'[u] = step[u] /\ left'[u] = left[u]
      /\ IF job = "to_txt" THEN left'[w] = Fb2s(z) \cap (whole' \cup torn') /\ step'[w] = "xml_grep"
         ELSE step'[w] = "remove"
  <2> DEFINE F == Fb2s(z) \cap (whole' \cup torn')
  <2>1. F \in SUBSET (Names \X Books \X {"fb2"})
    BY <1>1, EntriesType
  <2>2. IF job = "to_txt" THEN left' = [left EXCEPT ![w] = F] /\ step' = [step EXCEPT ![w] = "xml_grep"]
        ELSE left' = left /\ step' = [step EXCEPT ![w] = "remove"]
    BY <1>1 DEF Unpacks
  <2> HIDE DEF F
  <2>3. CASE job = "to_txt"
    BY <1>t, <2>1, <2>2, <2>3, StepsType DEF F
  <2>4. CASE job # "to_txt"
    BY <1>t, <2>2, <2>4, StepsType
  <2> QED
    BY <2>3, <2>4
<1>7. Frame(w)
  BY <1>0, <1>1, <1>4, <1>5, <1>6 DEF Frame
<1>8. TypeOK'
  BY <1>0, <1>4, <1>5, <1>6, <1>t DEF TypeOK, File
<1>9. \A b \in Contents[z] : <<z, b, Suffix>> \in whole' \/ <<z, b>> \in Excused'
  <2>1. todo \in SUBSET Entries(z) /\ Entries(z) \ todo \subseteq whole \cup torn
    BY <1>1
  <2> QED
    BY <1>1, <1>2, <1>3, <1>t, <2>1, EntriesAccounted
<1>10. ProgressOK(w)' /\ DeathOK(w)' /\ Unpacked(w, z)'
  <2>1. step'[w] \in {"xml_grep", "remove"}
    BY <1>6
  <2> QED
    BY <1>0, <1>1, <2>1 DEF ScriptInv, WorkerOK, ProgressOK, DeathOK, Unpacked
<1>11. WorkerOK(w)'
  <2>1. CASE job = "to_txt"
    <3>1. left'[w] = Fb2s(z) \cap (whole' \cup torn') /\ step'[w] = "xml_grep" /\ Suffix = "fb2"
      BY <1>6, <2>1 DEF Suffix
    <3>2. \A b \in Contents[z] : <<z, b, "fb2">> \in left'[w] \cap whole' \/ <<z, b>> \in Excused'
      <4>1. \A b \in Contents[z] : <<z, b, "fb2">> \in Fb2s(z)
        BY <1>1, ScriptAssumption DEF Fb2s
      <4> QED
        BY <1>9, <3>1, <4>1
    <3>3. left'[w] \subseteq Fb2s(z) /\ Fb2s(Current(w))' = Fb2s(z)
      BY <1>1, <3>1 DEF Fb2s
    <3>4. GrepOK(w)'
      <4> QED
        BY <1>1, <3>2, <3>3 DEF GrepOK
    <3> QED
      BY <1>10, <3>1, <3>4 DEF WorkerOK, RemoveOK
  <2>2. CASE job # "to_txt"
    <3>1. step'[w] = "remove" /\ Suffix = "txt"
      BY <1>6, <2>2 DEF Suffix
    <3>2. RemoveOK(w)'
      <4> QED
        BY <1>1, <1>9, <3>1 DEF RemoveOK, BooksSafe
    <3> QED
      BY <1>10, <3>1, <3>2 DEF WorkerOK, GrepOK
  <2> QED
    BY <2>1, <2>2
<1>12. KeptOK'
  <2>1. CASE todo = Entries(z)
    <3>1. BooksOf((Entries(z) \ todo) \cap torn) = {}
      BY <2>1 DEF BooksOf
    <3> QED
      BY <1>0, <1>3, <3>1 DEF ScriptInv, KeptOK
  <2>2. CASE z \in died
    <3>1. \A p \in BooksOf((Entries(z) \ todo) \cap torn) : p[1] = z
      BY <1>1, EntriesType DEF BooksOf
    <3> QED
      BY <1>0, <1>3, <2>2, <3>1 DEF ScriptInv, KeptOK
  <2> QED
    BY <1>1, <2>1, <2>2
<1>13. z \in zips'
  BY <1>0, <1>1
<1> QED
  BY <1>0, <1>1, <1>7, <1>8, <1>10, <1>11, <1>12, <1>13, StepOfOne

LEMMA UnzipKeeps ==
  ASSUME ScriptInv, NEW w \in Worker, Unzip(w)
  PROVE  ScriptInv'
<1>1. step[w] = "unzip" /\ Unpacks(w, Entries(Current(w)))
  BY DEF Unzip
<1> QED
  BY <1>1, UnpacksKeeps

(* A question is about a zip file a worker died in: otherwise it is of no  *)
(* worker but w that files are there, and w has not unpacked them.         *)
LEMMA AsksKeeps ==
  ASSUME ScriptInv, NEW w \in Worker, Asks(w)
  PROVE  ScriptInv'
<1>0. /\ step[w] = "unzip" /\ step[w] # "done" /\ Present(Current(w)) # {}
      /\ step' = [step EXCEPT ![w] = "ask"]
      /\ UNCHANGED <<job, zips, whole, torn, files, place, left, spoilt, kept, died, runs>>
  BY DEF Asks, history
<1>1. PICK z \in Names : z = Current(w) /\ z \in zips /\ Current(w)' = z
  BY <1>0, CurrentIsThere DEF Current
<1>t. TypeOK
  BY DEF ScriptInv
<1>2. /\ step'[w] = "ask" /\ \A u \in Worker \ {w} : step'[u] = step[u]
      /\ step' \in [Worker -> {"unzip", "ask", "xml_grep", "remove", "done", "dead"}]
  BY <1>0, <1>t, StepsType
<1>3. z \in died
  <2> SUFFICES ASSUME z \notin died PROVE FALSE
    OBVIOUS
  <2>1. PICK u \in Worker : Unpacked(u, z)
    BY <1>0, <1>1 DEF ScriptInv, FreshOK
  <2>2. u = w
    BY <1>0, <1>1, <2>1, OneWorkerOn DEF Unpacked
  <2> QED
    BY <1>0, <2>1, <2>2 DEF Unpacked
<1>4. Frame(w)
  BY <1>0, <1>2 DEF Frame
<1>5. TypeOK'
  BY <1>0, <1>2, <1>t DEF TypeOK
<1>6. WorkerOK(w)'
  BY <1>0, <1>1, <1>2, <1>3 DEF ScriptInv, WorkerOK, ProgressOK, GrepOK, RemoveOK, DeathOK
<1>7. KeptOK'
  BY <1>0 DEF ScriptInv, KeptOK
<1>8. z \in zips' /\ z \in died'
  BY <1>0, <1>1, <1>3
<1> QED
  BY <1>0, <1>1, <1>4, <1>5, <1>6, <1>7, <1>8, StepOfOne

LEMMA AnsweredKeeps ==
  ASSUME ScriptInv, NEW w \in Worker, Answered(w)
  PROVE  ScriptInv'
<1>1. step[w] = "ask" /\ Current(w) \in died
  BY DEF Answered, ScriptInv, WorkerOK, DeathOK
<1>2. PICK yes \in SUBSET Present(Current(w)) :
        Unpacks(w, (Entries(Current(w)) \ Present(Current(w))) \cup yes)
  BY DEF Answered
<1> DEFINE todo == (Entries(Current(w)) \ Present(Current(w))) \cup yes
<1>3. /\ todo \in SUBSET Entries(Current(w))
      /\ Entries(Current(w)) \ todo \subseteq whole \cup torn
  BY DEF Present
<1> HIDE DEF todo
<1> QED
  BY <1>1, <1>2, <1>3, UnpacksKeeps DEF todo

LEMMA XmlGrepKeeps ==
  ASSUME ScriptInv, NEW w \in Worker, NEW f \in left[w], XmlGrep(w, f)
  PROVE  ScriptInv'
<1>0. /\ step[w] = "xml_grep" /\ step[w] # "done"
      /\ UNCHANGED <<job, zips, files, place, step, kept, died, runs>>
  BY DEF XmlGrep
<1>1. PICK z \in Names : z = Current(w) /\ z \in zips /\ Current(w)' = z
  BY <1>0, CurrentIsThere DEF Current
<1>t. TypeOK
  BY DEF ScriptInv
<1>g. GrepOK(w)
  BY DEF ScriptInv, WorkerOK
<1>2. PICK c \in Books : f = <<z, c, "fb2">>
  <2>1. f \in Fb2s(z)
    BY <1>0, <1>1, <1>g DEF GrepOK
  <2> QED
    BY <2>1 DEF Fb2s
<1> DEFINE text == <<z, c, "txt">>
<1>3. text \in File /\ text[1] = z /\ <<f[1], f[2], "txt">> = text /\ BooksOf({f}) = {<<z, c>>}
  BY <1>2 DEF File, BooksOf
<1> HIDE DEF text
<1>4. /\ left' = [left EXCEPT ![w] = @ \ {f}]
      /\ \/ /\ f \in whole /\ whole' = whole \cup {text} /\ torn' = torn \ {text} /\ spoilt' = spoilt
         \/ /\ whole' = whole \ {text} /\ torn' = torn \cup {text}
            /\ spoilt' = IF f \in whole THEN spoilt \cup {<<z, c>>} ELSE spoilt
  BY <1>3 DEF XmlGrep
<1>5. /\ left'[w] = left[w] \ {f} /\ \A u \in Worker \ {w} : left'[u] = left[u]
      /\ left' \in [Worker -> SUBSET (Names \X Books \X {"fb2"})]
  BY <1>4, <1>t, StepsType
<1>6. whole' \subseteq File /\ torn' \subseteq File
  BY <1>3, <1>4, <1>t, StepsType
<1>7. /\ spoilt' \in SUBSET (Names \X Books) /\ spoilt \subseteq spoilt'
      /\ Excused \subseteq Excused'
  BY <1>0, <1>4, <1>t DEF TypeOK, Excused
<1>8. Frame(w)
  <2>1. \A y \in File : y[1] # Current(w) =>
          (y \in whole' <=> y \in whole) /\ (y \in torn' <=> y \in torn)
    BY <1>1, <1>3, <1>4
  <2> QED
    BY <1>0, <1>5, <1>7, <2>1 DEF Frame
<1>9. TypeOK'
  BY <1>0, <1>5, <1>6, <1>7, <1>t DEF TypeOK, File
<1>10. ASSUME NEW b \in Contents[z]
       PROVE  \/ <<z, b>> \in Excused'
              \/ <<z, b, "fb2">> \in left'[w] \cap whole'
              \/ <<z, b, "txt">> \in whole' /\ <<z, b, "fb2">> \notin left'[w]
  <2>1. \/ <<z, b>> \in Excused
        \/ <<z, b, "fb2">> \in left[w] \cap whole
        \/ <<z, b, "txt">> \in whole /\ <<z, b, "fb2">> \notin left[w]
    BY <1>0, <1>1, <1>g DEF GrepOK
  <2>2. CASE b = c
    <3>1. <<z, b, "fb2">> = f /\ <<z, b, "txt">> = text
      BY <1>2, <2>2 DEF text
    <3>2. CASE f \in whole
      <4>1. text \in whole' \/ <<z, b>> \in Excused'
        BY <1>4, <2>2, <3>2 DEF Excused
      <4> QED
        BY <1>5, <3>1, <4>1
    <3>3. CASE f \notin whole
      BY <1>7, <2>1, <3>1, <3>3
    <3> QED
      BY <3>2, <3>3
  <2>3. CASE b # c
    <3>1. <<z, b, "fb2">> # f /\ <<z, b, "txt">> # text /\ <<z, b, "fb2">> # text
      BY <1>2, <2>3 DEF text
    <3> QED
      BY <1>4, <1>5, <1>7, <2>1, <3>1
  <2> QED
    BY <2>2, <2>3
<1>11. GrepOK(w)'
  <2>1. left'[w] \subseteq Fb2s(z) /\ Fb2s(Current(w))' = Fb2s(z)
    BY <1>0, <1>1, <1>5, <1>g DEF GrepOK, Fb2s
  <2> QED
    BY <1>1, <1>10, <2>1 DEF GrepOK
<1>12. WorkerOK(w)' /\ Unpacked(w, z)'
  BY <1>0, <1>1, <1>11 DEF ScriptInv, WorkerOK, ProgressOK, RemoveOK, DeathOK, Unpacked
<1>13. KeptOK' /\ z \in zips'
  BY <1>0, <1>1 DEF ScriptInv, KeptOK
<1> QED
  BY <1>0, <1>1, <1>8, <1>9, <1>12, <1>13, StepOfOne

LEMMA UnlinkFb2sKeeps ==
  ASSUME ScriptInv, NEW w \in Worker, UnlinkFb2s(w)
  PROVE  ScriptInv'
<1>0. /\ step[w] = "xml_grep" /\ step[w] # "done" /\ left[w] = {}
      /\ whole' = whole \ Fb2s(Current(w)) /\ torn' = torn \ Fb2s(Current(w))
      /\ step' = [step EXCEPT ![w] = "remove"]
      /\ UNCHANGED <<job, zips, files, place, left, spoilt, kept, died, runs>>
  BY DEF UnlinkFb2s, history
<1>1. PICK z \in Names : z = Current(w) /\ z \in zips /\ Current(w)' = z
  BY <1>0, CurrentIsThere DEF Current
<1>t. TypeOK
  BY DEF ScriptInv
<1>2. /\ step'[w] = "remove" /\ \A u \in Worker \ {w} : step'[u] = step[u]
      /\ step' \in [Worker -> {"unzip", "ask", "xml_grep", "remove", "done", "dead"}]
  BY <1>0, <1>t, StepsType
<1>3. Frame(w)
  <2>1. \A y \in Fb2s(z) : y[1] = z
    BY EntriesType
  <2>2. \A y \in File : y[1] # Current(w) =>
          (y \in whole' <=> y \in whole) /\ (y \in torn' <=> y \in torn)
    BY <1>0, <1>1, <2>1
  <2> QED
    BY <1>0, <1>2, <2>2 DEF Frame
<1>4. TypeOK'
  BY <1>0, <1>2, <1>t DEF TypeOK
<1>5. BooksSafe(z)'
  <2>1. \A b \in Contents[z] : <<z, b, "txt">> \in whole \/ <<z, b>> \in Excused
    BY <1>0, <1>1 DEF ScriptInv, WorkerOK, GrepOK
  <2>2. \A b \in Contents[z] : <<z, b, "txt">> \notin Fb2s(z)
    BY DEF Fb2s
  <2> QED
    BY <1>0, <1>1, <2>1, <2>2 DEF BooksSafe, Excused
<1>6. WorkerOK(w)' /\ Unpacked(w, z)'
  <2>1. ProgressOK(w)'
    BY <1>0, <1>2 DEF ScriptInv, WorkerOK, ProgressOK
  <2>2. RemoveOK(w)'
    BY <1>1, <1>5 DEF RemoveOK, BooksSafe
  <2> QED
    BY <1>1, <1>2, <2>1, <2>2 DEF WorkerOK, GrepOK, DeathOK, Unpacked
<1>7. KeptOK' /\ z \in zips'
  BY <1>0, <1>1 DEF ScriptInv, KeptOK
<1> QED
  BY <1>0, <1>1, <1>3, <1>4, <1>6, <1>7, StepOfOne

LEMMA UnlinkZipKeeps ==
  ASSUME ScriptInv, NEW w \in Worker, UnlinkZip(w)
  PROVE  ScriptInv'
<1> DEFINE R == Indices(w, Len(files))
<1>0. /\ step[w] = "remove" /\ step[w] # "done"
      /\ zips' = zips \ {Current(w)} /\ Advance(w)
      /\ UNCHANGED <<job, whole, torn, files, left, spoilt, kept, died, runs>>
  BY DEF UnlinkZip, history
<1>1. place[w] \in R /\ place[w] + 1 \in DOMAIN files
  BY <1>0, CurrentIsThere
<1>z. PICK z \in Names : z = Current(w)
  BY <1>0, CurrentIsThere
<1>2. /\ R \subseteq 0..(Len(files) - 1) /\ Len(files) \in Nat /\ DOMAIN files = 1..Len(files)
  BY SplitOfFiles DEF ScriptInv, Split
<1>r. /\ FirstIndex(w, Len(files)) \in Nat /\ LastIndex(w, Len(files)) \in Nat
      /\ R = FirstIndex(w, Len(files))..LastIndex(w, Len(files))
  <2>1. w \in Nat
    BY ScriptAssumption DEF Worker
  <2>2. Forked(w, Len(files))
    BY <1>1 DEF Indices
  <2> QED
    BY <1>2, <2>1, <2>2, StartType, IndicesInList DEF Indices
<1>3. /\ place' \in [Worker -> Nat]
      /\ step' \in [Worker -> {"unzip", "ask", "xml_grep", "remove", "done", "dead"}]
      /\ \A u \in Worker \ {w} : step'[u] = step[u] /\ place'[u] = place[u]
  <2>1. /\ place \in [Worker -> Nat]
        /\ step \in [Worker -> {"unzip", "ask", "xml_grep", "remove", "done", "dead"}]
    BY DEF ScriptInv, TypeOK
  <2>2. CASE place[w] < LastIndex(w, Len(files))
    BY <1>0, <2>1, <2>2 DEF Advance
  <2>3. CASE ~(place[w] < LastIndex(w, Len(files)))
    BY <1>0, <2>1, <2>3 DEF Advance
  <2> QED
    BY <2>2, <2>3
<1>4. Frame(w)
  BY <1>0, <1>3 DEF Frame
<1>5. TypeOK'
  BY <1>0, <1>3 DEF ScriptInv, TypeOK
<1>6. ASSUME NEW i \in R
      PROVE  files[i + 1] \in zips' <=> place[w] < i
  <2>1. i \in Nat /\ i + 1 \in DOMAIN files /\ place[w] \in Nat
    BY <1>1, <1>2
  <2>2. files[i + 1] \in zips <=> place[w] <= i
    BY <1>0 DEF ScriptInv, WorkerOK, ProgressOK
  <2>3. files[i + 1] = z <=> i = place[w]
    BY <1>1, <1>z, <2>1 DEF Current, ScriptInv, ListOK
  <2> QED
    BY <1>0, <1>z, <2>1, <2>2, <2>3
<1>7. WorkerOK(w)'
  <2>1. CASE place[w] < LastIndex(w, Len(files))
    <3>1. place'[w] = place[w] + 1 /\ step'[w] = "unzip"
      BY <1>0, <2>1 DEF Advance, ScriptInv, TypeOK
    <3>2. place[w] + 1 \in R
      BY <1>1, <1>r, <2>1
    <3>3. ProgressOK(w)'
      BY <1>0, <1>1, <1>2, <1>6, <3>1, <3>2 DEF ProgressOK
    <3> QED
      BY <3>1, <3>3 DEF WorkerOK, GrepOK, RemoveOK, DeathOK
  <2>2. CASE ~(place[w] < LastIndex(w, Len(files)))
    <3>1. step'[w] = "done"
      BY <1>0, <2>2 DEF Advance, ScriptInv, TypeOK
    <3>2. ASSUME NEW i \in R PROVE ~(place[w] < i)
      BY <1>1, <1>r, <2>2
    <3>3. ProgressOK(w)'
      BY <1>0, <1>6, <3>1, <3>2 DEF ProgressOK
    <3> QED
      BY <3>1, <3>3 DEF WorkerOK, GrepOK, RemoveOK, DeathOK
  <2> QED
    BY <2>1, <2>2
<1>8. KeptOK'
  BY <1>0 DEF ScriptInv, KeptOK
<1>9. BooksSafe(z)' /\ z \notin zips'
  BY <1>0, <1>z DEF ScriptInv, WorkerOK, RemoveOK, BooksSafe, Excused
<1> QED
  BY <1>0, <1>z, <1>4, <1>5, <1>7, <1>8, <1>9, StepOfOne

LEMMA DiesKeeps ==
  ASSUME ScriptInv, NEW w \in Worker, Dies(w)
  PROVE  ScriptInv'
<1>0. /\ step[w] # "done" /\ died' = died \cup {Current(w)}
      /\ step' = [step EXCEPT ![w] = "dead"]
      /\ UNCHANGED <<job, zips, files, place, left, spoilt, kept, runs>>
  BY DEF Dies
<1>1. PICK z \in Names : z = Current(w) /\ z \in zips /\ Current(w)' = z
  BY <1>0, CurrentIsThere DEF Current
<1>t. TypeOK /\ whole \subseteq File /\ torn \subseteq File
  BY StepsType DEF ScriptInv
<1> DEFINE Elsewhere == \A y \in File : y[1] # z =>
             (y \in whole' <=> y \in whole) /\ (y \in torn' <=> y \in torn)
<1>2. whole' \subseteq File /\ torn' \subseteq File /\ Elsewhere
  <2>1. CASE UNCHANGED <<whole, torn>>
    BY <1>t, <2>1
  <2>2. CASE \E got, cut \in SUBSET Entries(z) : Unpack(Entries(z), got, cut)
    <3>1. PICK got, cut \in SUBSET Entries(z) : Unpack(Entries(z), got, cut)
      BY <2>2
    <3> QED
      BY <1>t, <3>1, UnpackKeeps
  <2>3. CASE /\ step[w] = "xml_grep"
             /\ \E f \in left[w] : /\ whole' = whole \ {<<f[1], f[2], "txt">>}
                                   /\ torn' = torn \cup {<<f[1], f[2], "txt">>}
    <3>1. PICK f \in left[w] : /\ whole' = whole \ {<<f[1], f[2], "txt">>}
                               /\ torn' = torn \cup {<<f[1], f[2], "txt">>}
      BY <2>3
    <3>2. f \in Fb2s(z)
      BY <1>1, <2>3 DEF ScriptInv, WorkerOK, GrepOK
    <3>3. PICK c \in Books : f = <<z, c, "fb2">>
      BY <3>2 DEF Fb2s
    <3>4. <<f[1], f[2], "txt">> \in File /\ <<f[1], f[2], "txt">>[1] = z
      BY <3>3 DEF File
    <3> QED
      BY <1>t, <3>1, <3>4
  <2>4. CASE \E gone \in SUBSET (Fb2s(z) \cap (whole \cup torn)) :
               whole' = whole \ gone /\ torn' = torn \ gone
    <3>1. PICK gone \in SUBSET (Fb2s(z) \cap (whole \cup torn)) :
            whole' = whole \ gone /\ torn' = torn \ gone
      BY <2>4
    <3>2. \A y \in gone : y[1] = z
      BY EntriesType
    <3> QED
      BY <1>t, <3>1, <3>2
  <2> QED
    BY <1>1, <2>1, <2>2, <2>3, <2>4 DEF Dies
<1>3. /\ step'[w] = "dead" /\ \A u \in Worker \ {w} : step'[u] = step[u]
      /\ step' \in [Worker -> {"unzip", "ask", "xml_grep", "remove", "done", "dead"}]
  BY <1>0, <1>t, StepsType
<1>4. Frame(w)
  BY <1>0, <1>1, <1>2, <1>3 DEF Frame
<1>5. TypeOK'
  BY <1>0, <1>1, <1>2, <1>3, <1>t DEF TypeOK, File
<1>6. WorkerOK(w)'
  BY <1>0, <1>1, <1>3 DEF ScriptInv, WorkerOK, ProgressOK, GrepOK, RemoveOK, DeathOK
<1>7. KeptOK' /\ z \in zips' /\ z \in died'
  BY <1>0, <1>1 DEF ScriptInv, KeptOK
<1> QED
  BY <1>0, <1>1, <1>4, <1>5, <1>6, <1>7, StepOfOne

-----------------------------------------------------------------------------
(* What a new list and its ranges look like.                               *)
LEMMA NewList ==
  ASSUME NEW S \in SUBSET Names
  PROVE  /\ Glob(S) \in Seq(Names)
         /\ \A x \in S : \E i \in DOMAIN Glob(S) : Glob(S)[i] = x
         /\ \A i, j \in DOMAIN Glob(S) : Glob(S)[i] = Glob(S)[j] => i = j
         /\ Places(Glob(S)) \in [Worker -> Nat]
         /\ Steps(Glob(S)) \in [Worker -> {"unzip", "done"}]
         /\ \A w \in Worker : \A i \in Indices(w, Len(Glob(S))) :
              /\ Glob(S)[i + 1] \in S
              /\ Steps(Glob(S))[w] = "unzip" /\ Places(Glob(S))[w] <= i
         /\ \A w \in Worker :
              Steps(Glob(S))[w] # "done" => Places(Glob(S))[w] \in Indices(w, Len(Glob(S)))
<1> DEFINE list == Glob(S)
           len == Len(list)
<1>1. /\ list \in Seq(S)
      /\ \A x \in S : \E i \in DOMAIN list : list[i] = x
      /\ \A i, j \in DOMAIN list : list[i] = list[j] => i = j
  BY GlobAssumption
<1>2. list \in Seq(Names) /\ len \in Nat /\ DOMAIN list = 1..len /\ \A i \in 1..len : list[i] \in S
  <2> HIDE DEF list
  <2> QED
    BY <1>1
<1>3. ASSUME NEW w \in Worker
      PROVE  /\ w \in Nat /\ FirstIndex(w, len) \in Nat
             /\ Forked(w, len) => FirstIndex(w, len) \in Indices(w, len)
             /\ \A i \in Indices(w, len) : Forked(w, len) /\ FirstIndex(w, len) <= i /\ i \in 0..(len - 1)
  <2>1. w \in Nat
    BY ScriptAssumption DEF Worker
  <2>2. FirstIndex(w, len) \in Nat
    BY <1>2, <2>1, StartType
  <2>3. CASE Forked(w, len)
    <3>1. LastIndex(w, len) \in 0..(len - 1) /\ FirstIndex(w, len) <= LastIndex(w, len)
      BY <1>2, <2>1, <2>3, IndicesInList
    <3> HIDE DEF len
    <3> QED
      BY <1>2, <2>1, <2>2, <2>3, <3>1 DEF Indices
  <2>4. CASE ~Forked(w, len)
    BY <2>1, <2>2, <2>4 DEF Indices
  <2> QED
    BY <2>3, <2>4
<1>4. Places(list) = [w \in Worker |-> FirstIndex(w, len)]
  BY DEF Places
<1>5. Steps(list) = [w \in Worker |-> IF Forked(w, len) THEN "unzip" ELSE "done"]
  BY DEF Steps
<1>6. ASSUME NEW w \in Worker, NEW i \in Indices(w, len)
      PROVE  list[i + 1] \in S /\ Steps(list)[w] = "unzip" /\ Places(list)[w] <= i
  <2>1. i + 1 \in 1..len
    BY <1>2, <1>3
  <2> HIDE DEF list, len
  <2> QED
    BY <1>2, <1>3, <1>4, <1>5, <2>1
<1> HIDE DEF list, len
<1>7. Places(list) \in [Worker -> Nat] /\ Steps(list) \in [Worker -> {"unzip", "done"}]
  BY <1>3, <1>4, <1>5
<1>8. \A w \in Worker : Steps(list)[w] # "done" => Places(list)[w] \in Indices(w, len)
  BY <1>3, <1>4, <1>5
<1> QED
  BY <1>1, <1>2, <1>6, <1>7, <1>8 DEF list, len

LEMMA ScriptStarts == Init => ScriptInv
<1> SUFFICES ASSUME Init
             PROVE  ScriptInv
  OBVIOUS
<1>1. /\ job \in {"to_txt", "unarchive"} /\ zips = Names
      /\ whole = {} /\ torn = {} /\ spoilt = {} /\ kept = {} /\ died = {} /\ runs = 1
      /\ files = Glob(Names) /\ place = Places(files) /\ step = Steps(files) /\ left = Idle
  BY DEF Init
<1>2. TypeOK
  BY <1>1, NewList, ScriptAssumption DEF TypeOK, Idle
<1>3. ListOK
  BY <1>1, NewList DEF ListOK
<1>4. ASSUME NEW w \in Worker PROVE WorkerOK(w)
  <2>1. step[w] \in {"unzip", "done"}
    BY <1>1, NewList
  <2>2. ProgressOK(w)
    BY <1>1, <2>1, NewList DEF ProgressOK
  <2> QED
    BY <2>1, <2>2 DEF WorkerOK, GrepOK, RemoveOK, DeathOK
<1>5. KeptOK /\ LostOK /\ FreshOK
  BY <1>1 DEF KeptOK, LostOK, FreshOK, Present
<1> QED
  BY <1>2, <1>3, <1>4, <1>5 DEF ScriptInv

(* When all workers have ended, a zip file with files in its directory is  *)
(* one that a worker died in.                                              *)
LEMMA RerunKeeps ==
  ASSUME ScriptInv, Rerun
  PROVE  ScriptInv'
<1>1. /\ files' = Glob(zips) /\ place' = Places(files') /\ step' = Steps(files') /\ left' = Idle
      /\ runs < MaxRuns /\ runs' = runs + 1
      /\ UNCHANGED <<job, zips, whole, torn, spoilt, kept, died>>
  BY DEF Rerun, history
<1>2. zips \in SUBSET Names
  BY DEF ScriptInv, TypeOK
<1>3. TypeOK'
  <2>1. /\ files' \in Seq(Names) /\ place' \in [Worker -> Nat]
        /\ step' \in [Worker -> {"unzip", "done"}]
    BY <1>1, <1>2, NewList
  <2>2. step' \in [Worker -> {"unzip", "ask", "xml_grep", "remove", "done", "dead"}]
    BY <2>1
  <2>3. left' \in [Worker -> SUBSET (Names \X Books \X {"fb2"})]
    BY <1>1 DEF Idle
  <2>4. runs' \in 1..MaxRuns
    BY <1>1, ScriptAssumption DEF ScriptInv, TypeOK
  <2> QED
    BY <1>1, <2>1, <2>2, <2>3, <2>4 DEF ScriptInv, TypeOK
<1>4. ListOK'
  BY <1>1, <1>2, NewList DEF ListOK
<1>5. ASSUME NEW w \in Worker PROVE WorkerOK(w)'
  <2>1. step'[w] \in {"unzip", "done"}
    BY <1>1, <1>2, NewList
  <2>2. ProgressOK(w)'
    BY <1>1, <1>2, <2>1, NewList DEF ProgressOK
  <2> QED
    BY <2>1, <2>2 DEF WorkerOK, GrepOK, RemoveOK, DeathOK
<1>6. KeptOK' /\ LostOK'
  BY <1>1 DEF ScriptInv, KeptOK, LostOK, BooksSafe, Excused
<1>7. FreshOK'
  <2>1. \A z \in zips \ died : Present(z) = {}
    BY DEF Rerun, Ended, ScriptInv, FreshOK, Unpacked
  <2>2. \A z \in Names : Present(z)' = Present(z)
    BY <1>1 DEF Present, Entries, Suffix
  <2> QED
    BY <1>1, <1>2, <2>1, <2>2 DEF FreshOK
<1> QED
  BY <1>3, <1>4, <1>5, <1>6, <1>7 DEF ScriptInv

LEMMA ScriptStepKeeps == ScriptInv /\ [Next]_vars => ScriptInv'
<1> SUFFICES ASSUME ScriptInv, [Next]_vars
             PROVE  ScriptInv'
  OBVIOUS
<1>1. ASSUME NEW w \in Worker, Unzip(w) PROVE ScriptInv'
  BY <1>1, UnzipKeeps
<1>2. ASSUME NEW w \in Worker, Asks(w) PROVE ScriptInv'
  BY <1>2, AsksKeeps
<1>3. ASSUME NEW w \in Worker, Answered(w) PROVE ScriptInv'
  BY <1>3, AnsweredKeeps
<1>4. ASSUME NEW w \in Worker, NEW f \in left[w], XmlGrep(w, f) PROVE ScriptInv'
  BY <1>4, XmlGrepKeeps
<1>5. ASSUME NEW w \in Worker, UnlinkFb2s(w) PROVE ScriptInv'
  BY <1>5, UnlinkFb2sKeeps
<1>6. ASSUME NEW w \in Worker, UnlinkZip(w) PROVE ScriptInv'
  BY <1>6, UnlinkZipKeeps
<1>7. ASSUME NEW w \in Worker, Dies(w) PROVE ScriptInv'
  BY <1>7, DiesKeeps
<1>8. CASE Rerun
  BY <1>8, RerunKeeps
<1>9. CASE UNCHANGED vars
  <2>1. /\ TypeOK' /\ ListOK' /\ KeptOK' /\ LostOK' /\ FreshOK'
    BY <1>9 DEF vars, ScriptInv, TypeOK, ListOK, KeptOK, LostOK, FreshOK, BooksSafe, Excused, Present,
                Entries, Suffix, Unpacked, Current
  <2>2. ASSUME NEW w \in Worker PROVE WorkerOK(w)'
    BY <1>9 DEF vars, ScriptInv, WorkerOK, ProgressOK, GrepOK, RemoveOK, DeathOK, BooksSafe, Excused,
                Current, Fb2s
  <2> QED
    BY <2>1, <2>2 DEF ScriptInv
<1> QED
  BY <1>1, <1>2, <1>3, <1>4, <1>5, <1>6, <1>7, <1>8, <1>9 DEF Next, Step, Terminated

LEMMA ScriptInvariance == Spec => []ScriptInv
<1>1. Init => ScriptInv
  BY ScriptStarts
<1>2. ScriptInv /\ [Next]_vars => ScriptInv'
  BY ScriptStepKeeps
<1> QED
  BY <1>1, <1>2, PTL DEF Spec

-----------------------------------------------------------------------------
(* The state of the script has its types.                                  *)
THEOREM TypeCorrect == Spec => []TypeOK
<1>1. ScriptInv => TypeOK
  BY DEF ScriptInv
<1> QED
  BY <1>1, ScriptInvariance, PTL

(* Every list of a run is cut without a gap or an overlap: no two workers  *)
(* of convert.pl ever unpack or remove the same zip file.                  *)
THEOREM ZipsHaveOneWorker == Spec => []EveryZipOneWorker
<1>1. ScriptInv => EveryZipOneWorker
  BY SplitOfFiles DEF ScriptInv, EveryZipOneWorker
<1> QED
  BY <1>1, ScriptInvariance, PTL

(* to_txt and unarchive remove a zip file only when each book of it is a   *)
(* whole text, or a command has failed on this very book, or unzip was     *)
(* told to keep the file a death had cut off, for any number of workers,   *)
(* books and deaths: a death alone loses no book, and none loses another.  *)
THEOREM NoOtherBookIsLost == Spec => []NothingLost
<1>1. ScriptInv => NothingLost
  <2> SUFFICES ASSUME ScriptInv, NEW z \in Names \ zips, NEW b \in Contents[z]
               PROVE  \/ <<z, b, "txt">> \in whole
                      \/ <<z, b>> \in spoilt
                      \/ <<z, b>> \in kept /\ z \in died
    BY DEF NothingLost
  <2>1. <<z, b, "txt">> \in whole \/ <<z, b>> \in Excused
    BY DEF ScriptInv, LostOK, BooksSafe
  <2>2. ASSUME <<z, b>> \in kept PROVE z \in died
    <3>1. <<z, b>>[1] \in died
      BY <2>2 DEF ScriptInv, KeptOK
    <3> QED
      BY <3>1
  <2> QED
    BY <2>1, <2>2 DEF Excused
<1> QED
  BY <1>1, ScriptInvariance, PTL

(* convert.pl calls unzip without -o, and yet no unzip asks in a zip file  *)
(* before a worker has died in it: what stands there was cut off.          *)
THEOREM QuestionsFollowDeaths == Spec => []AsksAfterDeath
<1>1. ScriptInv => AsksAfterDeath
  BY DEF ScriptInv, WorkerOK, DeathOK, AsksAfterDeath
<1> QED
  BY <1>1, ScriptInvariance, PTL

(* When all workers have come to the end of their ranges, the path has no  *)
(* zip file left.                                                          *)
THEOREM RunLeavesNone == Spec => []WholeRunLeavesNone
<1>1. ScriptInv => WholeRunLeavesNone
  <2> SUFFICES ASSUME ScriptInv, \A w \in Worker : step[w] = "done", NEW z \in zips
               PROVE  FALSE
    BY DEF WholeRunLeavesNone
  <2>1. PICK i \in DOMAIN files : files[i] = z
    BY DEF ScriptInv, ListOK
  <2>2. /\ Len(files) \in Nat /\ DOMAIN files = 1..Len(files)
        /\ \A j \in 0..(Len(files) - 1) : \E k \in Worker : j \in Indices(k, Len(files))
    BY SplitOfFiles DEF ScriptInv, Split
  <2>3. i - 1 \in 0..(Len(files) - 1) /\ (i - 1) + 1 = i
    BY <2>2
  <2>4. PICK k \in Worker : i - 1 \in Indices(k, Len(files))
    BY <2>2, <2>3
  <2>5. files[(i - 1) + 1] \notin zips
    BY <2>4 DEF ScriptInv, WorkerOK, ProgressOK
  <2> QED
    BY <2>1, <2>3, <2>5
<1> QED
  BY <1>1, ScriptInvariance, PTL

-----------------------------------------------------------------------------
(* ListFiles and Convert                                                   *)
-----------------------------------------------------------------------------
Below(S, b) == {j \in S : j < b}

LEMMA BelowIs ==
  ASSUME NEW S, S \subseteq Nat, NEW b \in Nat
  PROVE  /\ Below(S, b + 1) = Below(S, b) \cup (IF b \in S THEN {b} ELSE {})
         /\ {j \in S : j <= b} = Below(S, b + 1)
         /\ b \notin Below(S, b)
<1>1. \A j \in S : j < b + 1 <=> j < b \/ j = b
  OBVIOUS
<1>2. \A j \in S : j <= b <=> j < b + 1
  OBVIOUS
<1>3. ~(b < b)
  OBVIOUS
<1>4. \A j : j \in Below(S, b + 1) <=> j \in Below(S, b) \/ (j = b /\ b \in S)
  BY <1>1 DEF Below
<1>5. \A j : j \in {j0 \in S : j0 <= b} <=> j \in Below(S, b + 1)
  BY <1>2 DEF Below
<1> QED
  BY <1>3, <1>4, <1>5 DEF Below

-----------------------------------------------------------------------------
(* The walk.  Every file before `at' is counted, or enough are for the     *)
(* window to be over.                                                      *)
FilesBelow(b) == Below(MatchingFiles, b)

WalkTypes ==
  /\ tree \in Trees /\ from \in Nat /\ limit \in Nat
  /\ at \in 1..(Len(tree) + 1) /\ depth \in Nat /\ counter \in Nat
  /\ called \in Seq(Nat)

WalkDepth == at \in DOMAIN tree => tree[at].depth <= depth

WalkCount ==
  /\ counter <= Cardinality(FilesBelow(at))
  /\ counter = Cardinality(FilesBelow(at)) \/ Beyond(counter)

WalkCalls ==
  /\ \A k, l \in DOMAIN called : k < l => called[k] < called[l]
  /\ CalledFiles = Below(Window, at)

WalkInv == WalkTypes /\ WalkDepth /\ WalkCount /\ WalkCalls

LEMMA TreeIs ==
  ASSUME tree \in Trees
  PROVE  /\ Len(tree) \in Nat /\ DOMAIN tree = 1..Len(tree)
         /\ \A i \in 1..Len(tree) : tree[i].depth \in Nat \ {0}
         /\ Len(tree) # 0 => tree[1].depth = 1
         /\ \A i \in 1..Len(tree) : i + 1 \in 1..Len(tree) =>
              tree[i + 1].depth <= tree[i].depth + (IF tree[i].kind = "dir" THEN 1 ELSE 0)
<1> DEFINE E == [kind : {"hidden", "other", "file", "dir"}, depth : Nat \ {0}]
           n == Len(tree)
<1>1. /\ tree \in Seq(E) /\ (tree # <<>> => tree[1].depth = 1)
      /\ \A i \in 1..(n - 1) :
           tree[i + 1].depth <= tree[i].depth + (IF tree[i].kind = "dir" THEN 1 ELSE 0)
  BY ListAssumption DEF IsTree
<1>2. \A e \in E : e.depth \in Nat \ {0}
  OBVIOUS
<1> HIDE DEF E
<1>3. n \in Nat /\ DOMAIN tree = 1..n /\ (\A i \in 1..n : tree[i] \in E) /\ (n # 0 => tree # <<>>)
  BY <1>1
<1> HIDE DEF n
<1>4. \A i \in 1..n : i + 1 \in 1..n => i \in 1..(n - 1)
  BY <1>3
<1> QED
  BY <1>1, <1>2, <1>3, <1>4 DEF n

LEMMA FilesAre ==
  ASSUME tree \in Trees
  PROVE  /\ IsFiniteSet(MatchingFiles) /\ MatchingFiles \in SUBSET Nat
         /\ \A b : /\ IsFiniteSet(FilesBelow(b)) /\ Cardinality(FilesBelow(b)) \in Nat
         /\ \A b, c \in Nat : b <= c => Cardinality(FilesBelow(b)) <= Cardinality(FilesBelow(c))
         /\ \A b \in Nat : Cardinality(FilesBelow(b + 1)) =
              Cardinality(FilesBelow(b)) + (IF b \in MatchingFiles THEN 1 ELSE 0)
         /\ \A i \in MatchingFiles : FileNumber(i) = Cardinality(FilesBelow(i)) + 1
<1>1. Len(tree) \in Nat /\ DOMAIN tree = 1..Len(tree)
  BY TreeIs
<1>2. IsFiniteSet(1..Len(tree)) /\ MatchingFiles \in SUBSET (1..Len(tree))
  BY <1>1, FS_Interval DEF MatchingFiles
<1>3. IsFiniteSet(MatchingFiles) /\ MatchingFiles \in SUBSET Nat
  <2>1. IsFiniteSet(MatchingFiles)
    BY <1>2, FS_Subset, Zenon
  <2>2. MatchingFiles \in SUBSET Nat
    BY <1>2
  <2> QED
    BY <2>1, <2>2
<1>4. ASSUME NEW b PROVE IsFiniteSet(FilesBelow(b)) /\ Cardinality(FilesBelow(b)) \in Nat
  <2>1. FilesBelow(b) \in SUBSET MatchingFiles
    BY DEF FilesBelow, Below
  <2>2. IsFiniteSet(FilesBelow(b))
    BY <1>3, <2>1, FS_Subset, Zenon
  <2> QED
    BY <2>2, FS_CardinalityType
<1>5. ASSUME NEW b \in Nat, NEW c \in Nat, b <= c
      PROVE  Cardinality(FilesBelow(b)) <= Cardinality(FilesBelow(c))
  <2>1. \A j \in MatchingFiles : j < b => j < c
    BY <1>3, <1>5
  <2>3. FilesBelow(b) \in SUBSET FilesBelow(c)
    BY <2>1 DEF FilesBelow, Below
  <2>2. IsFiniteSet(FilesBelow(c))
    BY <1>4
  <2> QED
    BY <2>2, <2>3, FS_Subset, Zenon
<1>6. ASSUME NEW b \in Nat
      PROVE  Cardinality(FilesBelow(b + 1)) =
               Cardinality(FilesBelow(b)) + (IF b \in MatchingFiles THEN 1 ELSE 0)
  <2>1. CASE b \in MatchingFiles
    <3>1. FilesBelow(b + 1) = FilesBelow(b) \cup {b} /\ b \notin FilesBelow(b)
      BY <1>3, <2>1, BelowIs DEF FilesBelow
    <3>2. IsFiniteSet(FilesBelow(b))
      BY <1>4
    <3>3. Cardinality(FilesBelow(b) \cup {b}) = Cardinality(FilesBelow(b)) + 1
      BY <3>1, <3>2, FS_AddElement
    <3> QED
      BY <2>1, <3>1, <3>3
  <2>2. CASE b \notin MatchingFiles
    <3>1. FilesBelow(b + 1) = FilesBelow(b)
      <4>1. FilesBelow(b + 1) = FilesBelow(b) \cup {}
        BY <1>3, <2>2, BelowIs DEF FilesBelow
      <4> QED
        BY <4>1
    <3> QED
      BY <1>4, <2>2, <3>1
  <2> QED
    BY <2>1, <2>2
<1>7. ASSUME NEW i \in MatchingFiles PROVE FileNumber(i) = Cardinality(FilesBelow(i)) + 1
  <2>1. {j \in MatchingFiles : j <= i} = FilesBelow(i) \cup {i} /\ i \notin FilesBelow(i)
    BY <1>3, BelowIs DEF FilesBelow
  <2> QED
    <3>1. IsFiniteSet(FilesBelow(i))
      BY <1>4
    <3>2. Cardinality(FilesBelow(i) \cup {i}) = Cardinality(FilesBelow(i)) + 1
      BY <2>1, <3>1, FS_AddElement
    <3> QED
      BY <2>1, <3>2 DEF FileNumber
<1> QED
  BY <1>3, <1>4, <1>5, <1>6, <1>7

(* The entry at `at', and what a step over it does to the counts.          *)
LEMMA AtIs ==
  ASSUME WalkInv, Reading
  PROVE  /\ at \in Nat /\ at \in 1..Len(tree) /\ at + 1 \in 1..(Len(tree) + 1)
         /\ Len(tree) \in Nat /\ DOMAIN tree = 1..Len(tree)
         /\ tree[at].depth = depth /\ depth \in Nat \ {0}
         /\ at \in MatchingFiles <=> tree[at].kind = "file"
         /\ at + 1 \in DOMAIN tree =>
              tree[at + 1].depth <= depth + (IF tree[at].kind = "dir" THEN 1 ELSE 0)
         /\ Below(Window, at + 1) = Below(Window, at) \cup (IF at \in Window THEN {at} ELSE {})
<1>1. /\ Len(tree) \in Nat /\ DOMAIN tree = 1..Len(tree) /\ tree \in Trees
      /\ \A i \in 1..Len(tree) : i + 1 \in 1..Len(tree) =>
           tree[i + 1].depth <= tree[i].depth + (IF tree[i].kind = "dir" THEN 1 ELSE 0)
  BY TreeIs DEF WalkInv, WalkTypes
<1>2. at \in DOMAIN tree /\ tree[at].depth = depth /\ depth # 0 /\ depth \in Nat
  BY DEF Reading, WalkInv, WalkTypes
<1>3. at \in Nat /\ at \in 1..Len(tree) /\ at + 1 \in 1..(Len(tree) + 1)
  BY <1>1, <1>2
<1>4. at \in MatchingFiles <=> tree[at].kind = "file"
  BY <1>2 DEF MatchingFiles
<1>5. Window \in SUBSET Nat
  BY <1>1, FilesAre DEF Window
<1>6. Below(Window, at + 1) = Below(Window, at) \cup (IF at \in Window THEN {at} ELSE {})
  BY <1>3, <1>5, BelowIs
<1> QED
  BY <1>1, <1>2, <1>3, <1>4, <1>6

LEMMA CalledIs ==
  ASSUME WalkTypes
  PROVE  Len(called) \in Nat /\ DOMAIN called = 1..Len(called) /\ \A k \in 1..Len(called) : called[k] \in Nat
BY DEF WalkTypes

LEMMA ListInitInv == ListInit => WalkInv
<1> SUFFICES ASSUME ListInit PROVE WalkInv
  OBVIOUS
<1>1. /\ tree \in Trees /\ from \in Nat /\ limit \in Nat /\ at = 1 /\ depth = 1 /\ counter = 0 /\ called = <<>>
  BY ListAssumption DEF ListInit
<1>2. Len(tree) \in Nat /\ DOMAIN tree = 1..Len(tree) /\ (Len(tree) # 0 => tree[1].depth = 1)
  BY <1>1, TreeIs
<1>3. WalkTypes /\ WalkDepth
  BY <1>1, <1>2 DEF WalkTypes, WalkDepth
<1>4. MatchingFiles \in SUBSET DOMAIN tree
  BY DEF MatchingFiles
<1>5. FilesBelow(1) = {}
  BY <1>2, <1>4 DEF FilesBelow, Below
<1>6. WalkCount
  BY <1>1, <1>5, FS_EmptySet DEF WalkCount
<1>7. Below(Window, 1) = {}
  BY <1>2, <1>4 DEF Window, Below
<1>8. WalkCalls
  BY <1>1, <1>7 DEF WalkCalls, CalledFiles
<1> QED
  BY <1>3, <1>6, <1>8 DEF WalkInv

(* What no step changes.                                                   *)
LEMMA SameTree ==
  ASSUME UNCHANGED <<tree, from, limit>>
  PROVE  /\ MatchingFiles' = MatchingFiles /\ Window' = Window
         /\ \A b : FilesBelow(b)' = FilesBelow(b)
BY DEF MatchingFiles, Window, FileNumber, FilesBelow, Below

LEMMA SkipEntryInv ==
  ASSUME WalkInv, SkipEntry \/ Enter
  PROVE  WalkInv'
<1>1. /\ Reading /\ tree[at].kind # "file" /\ at' = at + 1
      /\ UNCHANGED <<tree, from, limit, counter, called>>
      /\ depth' = depth + (IF tree[at].kind = "dir" THEN 1 ELSE 0)
  BY DEF SkipEntry, Enter, Reading, WalkInv, WalkTypes
<1>2. MatchingFiles' = MatchingFiles /\ Window' = Window /\ \A b : FilesBelow(b)' = FilesBelow(b)
  BY <1>1, SameTree
<1>3. WalkTypes'
  BY <1>1, AtIs DEF WalkInv, WalkTypes
<1>4. WalkDepth'
  BY <1>1, AtIs DEF WalkDepth
<1>5. Cardinality(FilesBelow(at + 1)) = Cardinality(FilesBelow(at))
  <2>1. at \in Nat /\ at \notin MatchingFiles /\ tree \in Trees
    BY <1>1, AtIs DEF WalkInv, WalkTypes
  <2>2. Cardinality(FilesBelow(at + 1)) = Cardinality(FilesBelow(at)) + 0 /\ Cardinality(FilesBelow(at)) \in Nat
    BY <2>1, FilesAre
  <2> QED
    BY <2>2
<1>6. FilesBelow(at)' = FilesBelow(at + 1)
  BY <1>1, <1>2 DEF FilesBelow
<1>7. WalkCount'
  BY <1>1, <1>5, <1>6 DEF WalkInv, WalkCount, Beyond
<1>8. at \notin Window
  BY <1>1, AtIs DEF Window
<1>9. WalkCalls'
  BY <1>1, <1>2, <1>8, AtIs DEF WalkInv, WalkCalls, CalledFiles
<1> QED
  BY <1>3, <1>4, <1>7, <1>9 DEF WalkInv

(* A file in the walk, by its number.                                      *)
LEMMA FoundIs ==
  ASSUME WalkInv, Found
  PROVE  /\ at \in Nat /\ at \in MatchingFiles /\ counter \in Nat /\ from \in Nat /\ limit \in Nat
         /\ Cardinality(FilesBelow(at)) \in Nat
         /\ FileNumber(at) = Cardinality(FilesBelow(at)) + 1
         /\ FileNumber(at) >= counter + 1
         /\ Beyond(counter) \/ FileNumber(at) = counter + 1
         /\ Cardinality(FilesBelow(at + 1)) = Cardinality(FilesBelow(at)) + 1
<1>1. at \in Nat /\ at \in MatchingFiles /\ tree \in Trees /\ counter \in Nat /\ from \in Nat /\ limit \in Nat
  BY AtIs DEF Found, WalkInv, WalkTypes
<1>2. /\ Cardinality(FilesBelow(at)) \in Nat
      /\ FileNumber(at) = Cardinality(FilesBelow(at)) + 1
      /\ Cardinality(FilesBelow(at + 1)) = Cardinality(FilesBelow(at)) + 1
  BY <1>1, FilesAre
<1>3. /\ counter <= Cardinality(FilesBelow(at))
      /\ counter = Cardinality(FilesBelow(at)) \/ Beyond(counter)
  BY DEF WalkInv, WalkCount
<1> QED
  BY <1>1, <1>2, <1>3

LEMMA SkipFileInv ==
  ASSUME WalkInv, SkipFile
  PROVE  WalkInv'
<1>1. /\ Reading /\ Found /\ Before(counter + 1) /\ at' = at + 1 /\ counter' = counter + 1
      /\ UNCHANGED <<tree, from, limit, depth, called>> /\ tree[at].kind # "dir"
  BY DEF SkipFile, Found
<1>2. MatchingFiles' = MatchingFiles /\ Window' = Window /\ \A b : FilesBelow(b)' = FilesBelow(b)
  BY <1>1, SameTree
<1>3. WalkTypes'
  BY <1>1, AtIs DEF WalkInv, WalkTypes
<1>4. WalkDepth'
  BY <1>1, AtIs DEF WalkDepth
<1>5. FileNumber(at) = counter + 1 /\ Cardinality(FilesBelow(at + 1)) = counter + 1 /\ FileNumber(at) <= from
  BY <1>1, FoundIs DEF Before, Beyond
<1>6. FilesBelow(at)' = FilesBelow(at + 1)
  BY <1>1, <1>2 DEF FilesBelow
<1>7. WalkCount'
  BY <1>1, <1>5, <1>6, FoundIs DEF WalkCount
<1>8. at \notin Window
  BY <1>1, <1>5, FoundIs DEF Window
<1>9. WalkCalls'
  BY <1>1, <1>2, <1>8, AtIs DEF WalkInv, WalkCalls, CalledFiles
<1> QED
  BY <1>3, <1>4, <1>7, <1>9 DEF WalkInv

LEMMA CallInv ==
  ASSUME WalkInv, Call
  PROVE  WalkInv' /\ at \in Window /\ CalledFiles' = CalledFiles \cup {at} /\ at \notin CalledFiles
         /\ (\A f \in CalledFiles : f < at) /\ Len(called') = Len(called) + 1 /\ called'[Len(called')] = at
<1>1. /\ Reading /\ Found /\ ~Before(counter + 1) /\ ~Beyond(counter + 1)
      /\ at' = at + 1 /\ counter' = counter + 1 /\ called' = Append(called, at)
      /\ UNCHANGED <<tree, from, limit, depth>> /\ tree[at].kind # "dir"
  BY DEF Call, Found
<1>2. MatchingFiles' = MatchingFiles /\ Window' = Window /\ \A b : FilesBelow(b)' = FilesBelow(b)
  BY <1>1, SameTree
<1>a. Len(called) \in Nat /\ DOMAIN called = 1..Len(called) /\ called \in Seq(Nat) /\ at \in Nat
  BY <1>1, CalledIs, AtIs DEF WalkInv, WalkTypes
<1> DEFINE n == Len(called)
<1>b. /\ called' \in Seq(Nat) /\ Len(called') = n + 1 /\ DOMAIN called' = 1..(n + 1)
      /\ \A k \in 1..n : called'[k] = called[k]
      /\ called'[n + 1] = at
  BY <1>1, <1>a
<1>3. WalkTypes'
  BY <1>1, <1>b, AtIs DEF WalkInv, WalkTypes
<1>4. WalkDepth'
  BY <1>1, AtIs DEF WalkDepth
<1>5. FileNumber(at) = counter + 1 /\ Cardinality(FilesBelow(at + 1)) = counter + 1
  BY <1>1, FoundIs DEF Beyond
<1>6. FilesBelow(at)' = FilesBelow(at + 1)
  BY <1>1, <1>2 DEF FilesBelow
<1>7. WalkCount'
  BY <1>1, <1>5, <1>6, FoundIs DEF WalkCount
<1>8. at \in Window
  <2>1. FileNumber(at) > from /\ (limit # 0 => FileNumber(at) <= from + limit)
    BY <1>1, <1>5, FoundIs DEF Before, Beyond
  <2> QED
    BY <1>1, <2>1, FoundIs DEF Window
<1>9. \A k \in 1..n : called[k] < at
  BY <1>a DEF WalkInv, WalkCalls, CalledFiles, Below
<1> HIDE DEF n
<1>10. n \in Nat
  BY <1>a DEF n
<1>11. DOMAIN called = 1..n
  BY <1>a DEF n
<1>12. \A k \in 1..(n + 1) : k = n + 1 \/ k \in 1..n
  BY <1>10
<1>13. CalledFiles' = CalledFiles \cup {at}
  <2>1. \A f : (\E k \in 1..(n + 1) : called'[k] = f) <=> (\E k \in 1..n : called[k] = f) \/ f = at
    <3>1. 1..n \subseteq 1..(n + 1) /\ n + 1 \in 1..(n + 1)
      BY <1>10
    <3> QED
      BY <1>b, <1>12, <3>1
  <2> QED
    BY <1>b, <1>11, <2>1 DEF CalledFiles
<1>14. \A k, l \in DOMAIN called' : k < l => called'[k] < called'[l]
  <2> SUFFICES ASSUME NEW k \in 1..(n + 1), NEW l \in 1..(n + 1), k < l
               PROVE  called'[k] < called'[l]
    BY <1>b
  <2>1. k \in 1..n
    BY <1>10
  <2>2. CASE l = n + 1
    BY <1>9, <1>b, <2>1, <2>2
  <2>3. CASE l # n + 1
    <3>1. l \in 1..n
      BY <1>10, <2>3
    <3>2. called[k] < called[l]
      BY <1>11, <2>1, <3>1 DEF WalkInv, WalkCalls
    <3> QED
      BY <1>b, <2>1, <3>1, <3>2
  <2> QED
    BY <2>2, <2>3
<1>15. WalkCalls'
  <2>1. CalledFiles' = Below(Window, at + 1)
    BY <1>1, <1>8, <1>13, AtIs DEF WalkInv, WalkCalls
  <2>2. CalledFiles' = Below(Window, at)'
    BY <1>1, <1>2, <2>1
  <2> QED
    BY <1>14, <2>2 DEF WalkCalls
<1>16. (\A f \in CalledFiles : f < at) /\ at \notin CalledFiles
  <2>1. ~(at < at)
    BY <1>a
  <2>2. \A f \in CalledFiles : \E k \in 1..n : f = called[k]
    BY <1>11 DEF CalledFiles
  <2> QED
    BY <1>9, <2>1, <2>2
<1> QED
  BY <1>3, <1>4, <1>7, <1>8, <1>13, <1>15, <1>16, <1>b DEF WalkInv, n

LEMMA BehindIs ==
  ASSUME WalkInv, Reading
  PROVE  LET j == CHOOSE m \in Behind : \A k \in Behind : m <= k
         IN  /\ j \in Nat /\ at < j /\ j <= Len(tree) + 1
             /\ j \in DOMAIN tree => tree[j].depth < depth
<1>1. /\ at \in Nat /\ at \in 1..Len(tree) /\ Len(tree) \in Nat /\ DOMAIN tree = 1..Len(tree)
      /\ tree[at].depth = depth /\ depth \in Nat
  BY AtIs
<1>2. Len(tree) + 1 \in Behind /\ Behind \subseteq Nat
  BY <1>1 DEF Behind
<1>3. \E m \in Behind : \A k \in Behind : m <= k
  BY <1>2, Least
<1> DEFINE j == CHOOSE m \in Behind : \A k \in Behind : m <= k
<1>4. j \in Behind
  BY <1>3
<1> HIDE DEF j
<1>5. j \in at..(Len(tree) + 1) /\ (j \in DOMAIN tree => tree[j].depth < depth)
  BY <1>4 DEF Behind
<1>6. j # at
  BY <1>1, <1>5
<1> QED
  BY <1>1, <1>5, <1>6 DEF j

LEMMA LeaveEarlyInv ==
  ASSUME WalkInv, LeaveEarly
  PROVE  WalkInv'
<1>1. /\ Reading /\ Found /\ ~Before(counter + 1) /\ Beyond(counter + 1) /\ counter' = counter + 1
      /\ UNCHANGED <<tree, from, limit, called>> /\ depth' = depth - 1
      /\ at' = CHOOSE j \in Behind : \A k \in Behind : j <= k
  BY DEF LeaveEarly, Found
<1>2. MatchingFiles' = MatchingFiles /\ Window' = Window /\ \A b : FilesBelow(b)' = FilesBelow(b)
  BY <1>1, SameTree
<1>3. /\ at' \in Nat /\ at < at' /\ at' <= Len(tree) + 1
      /\ at' \in DOMAIN tree => tree[at'].depth < depth
  BY <1>1, BehindIs
<1>4. /\ at \in Nat /\ at \in 1..Len(tree) /\ Len(tree) \in Nat /\ DOMAIN tree = 1..Len(tree)
      /\ depth \in Nat \ {0} /\ tree \in Trees
      /\ \A i \in 1..Len(tree) : tree[i].depth \in Nat
  BY <1>1, AtIs, TreeIs DEF WalkInv, WalkTypes
<1>5. WalkTypes'
  BY <1>1, <1>3, <1>4, FoundIs DEF WalkInv, WalkTypes
<1>6. WalkDepth'
  BY <1>1, <1>3, <1>4 DEF WalkDepth
<1>7. Cardinality(FilesBelow(at + 1)) <= Cardinality(FilesBelow(at'))
  BY <1>3, <1>4, FilesAre
<1>8. /\ Cardinality(FilesBelow(at + 1)) = Cardinality(FilesBelow(at)) + 1 /\ Cardinality(FilesBelow(at)) \in Nat
      /\ counter \in Nat /\ counter <= Cardinality(FilesBelow(at)) /\ from \in Nat /\ limit \in Nat
  BY <1>1, FoundIs DEF WalkInv, WalkCount
<1>9. Cardinality(FilesBelow(at')) \in Nat
  BY <1>4, FilesAre
<1>10. FilesBelow(at)' = FilesBelow(at')
  BY <1>2 DEF FilesBelow
<1>11. WalkCount'
  BY <1>1, <1>7, <1>8, <1>9, <1>10 DEF WalkCount, Beyond
<1>12. \A i \in MatchingFiles : i >= at => i \notin Window
  <2> SUFFICES ASSUME NEW i \in MatchingFiles, i >= at PROVE i \notin Window
    OBVIOUS
  <2>1. /\ i \in Nat /\ FileNumber(i) = Cardinality(FilesBelow(i)) + 1
        /\ Cardinality(FilesBelow(i)) \in Nat /\ Cardinality(FilesBelow(at)) <= Cardinality(FilesBelow(i))
    BY <1>4, FilesAre
  <2>2. FileNumber(i) > from + limit /\ limit # 0
    BY <1>1, <1>8, <2>1 DEF Beyond
  <2> QED
    BY <1>8, <2>1, <2>2 DEF Window
<1>13. Below(Window, at') = Below(Window, at)
  <2>1. Window \subseteq MatchingFiles /\ MatchingFiles \subseteq Nat
    BY <1>4, FilesAre DEF Window
  <2>2. \A i \in Window : i < at
    BY <1>4, <1>12, <2>1
  <2>3. \A i \in Window : i < at'
    BY <1>3, <1>4, <2>1, <2>2
  <2> QED
    BY <2>2, <2>3 DEF Below
<1>14. WalkCalls'
  BY <1>1, <1>2, <1>13 DEF WalkInv, WalkCalls, CalledFiles
<1> QED
  BY <1>5, <1>6, <1>11, <1>14 DEF WalkInv

LEMMA LeaveInv ==
  ASSUME WalkInv, Leave
  PROVE  WalkInv'
<1>1. /\ depth # 0 /\ depth \in Nat /\ ~(at \in DOMAIN tree /\ tree[at].depth = depth) /\ depth' = depth - 1
      /\ UNCHANGED <<tree, from, limit, at, counter, called>> /\ tree \in Trees
  BY DEF Leave, Exhausted, WalkInv, WalkTypes
<1>2. MatchingFiles' = MatchingFiles /\ Window' = Window /\ \A b : FilesBelow(b)' = FilesBelow(b)
  BY <1>1, SameTree
<1>3. WalkTypes'
  BY <1>1 DEF WalkInv, WalkTypes
<1>4. at \in DOMAIN tree => tree[at].depth \in Nat
  BY <1>1, TreeIs
<1>5. WalkDepth'
  BY <1>1, <1>4 DEF WalkInv, WalkDepth
<1>6. WalkCount'
  <2>1. FilesBelow(at)' = FilesBelow(at)
    BY <1>1, <1>2 DEF FilesBelow
  <2> QED
    BY <1>1, <2>1 DEF WalkInv, WalkCount, Beyond
<1>7. WalkCalls'
  BY <1>1, <1>2 DEF WalkInv, WalkCalls, CalledFiles
<1> QED
  BY <1>3, <1>5, <1>6, <1>7 DEF WalkInv

LEMMA WalkEnds ==
  ASSUME WalkInv
  PROVE  CallsWindow
<1>1. /\ tree \in Trees /\ at \in 1..(Len(tree) + 1) /\ Len(tree) \in Nat /\ DOMAIN tree = 1..Len(tree)
      /\ \A i \in 1..Len(tree) : tree[i].depth \in Nat \ {0}
  BY TreeIs DEF WalkInv, WalkTypes
<1>2. Window \subseteq 1..Len(tree)
  BY <1>1 DEF Window, MatchingFiles
<1>3. CalledFiles = Below(Window, at) /\ \A k, l \in DOMAIN called : k < l => called[k] < called[l]
  BY DEF WalkInv, WalkCalls
<1>4. \A i \in Window, f \in CalledFiles : i < f => i \in CalledFiles
  BY <1>1, <1>2, <1>3 DEF Below
<1>5. Returned => CalledFiles = Window
  <2> SUFFICES ASSUME Returned PROVE CalledFiles = Window
    OBVIOUS
  <2>1. at = Len(tree) + 1
    BY <1>1 DEF Returned, WalkInv, WalkDepth
  <2>2. \A i \in Window : i < at
    BY <1>1, <1>2, <2>1
  <2> QED
    BY <1>3, <2>2 DEF Below
<1> QED
  BY <1>3, <1>4, <1>5 DEF CallsWindow, Below

-----------------------------------------------------------------------------
(* The runs of a document that have come to their ends before or at t, and *)
(* the one that is open there.                                             *)
RunsBy(doc, m) ==
  {i \in RunStarts(doc) : \E j \in (i + 1)..m : j = Len(doc) + 1 \/ doc[j] = Junk}

OpenAt(doc, m, s) ==
  /\ s \in 1..(m - 1) /\ (s = 1 \/ doc[s - 1] = Junk)
  /\ \A j \in s..(m - 1) : doc[j] # Junk

Stops(doc, m) == m = Len(doc) + 1 \/ doc[m] = Junk

Part(doc, s, m) == [k \in 1..(m - s) |-> doc[s + k - 1]]

LEMMA NoRunsYet ==
  ASSUME NEW doc \in Seq(Word \cup {Junk})
  PROVE  RunsBy(doc, 0) = {}
<1>1. RunStarts(doc) \subseteq Nat
  BY DEF RunStarts
<1>2. \A i \in Nat : (i + 1)..0 = {}
  OBVIOUS
<1> QED
  BY <1>1, <1>2 DEF RunsBy

LEMMA WordEndsNoRun ==
  ASSUME NEW doc \in Seq(Word \cup {Junk}), NEW m \in 1..Len(doc), doc[m] # Junk
  PROVE  RunsBy(doc, m) = RunsBy(doc, m - 1)
<1>1. Len(doc) \in Nat /\ RunStarts(doc) \subseteq Nat
  BY DEF RunStarts
<1>2. ASSUME NEW i \in RunStarts(doc)
      PROVE  (\E j \in (i + 1)..m : j = Len(doc) + 1 \/ doc[j] = Junk) <=>
               (\E j \in (i + 1)..(m - 1) : j = Len(doc) + 1 \/ doc[j] = Junk)
  <2>1. i \in Nat
    BY <1>1
  <2>2. \A j \in (i + 1)..m : j = m \/ j \in (i + 1)..(m - 1)
    BY <2>1
  <2>3. \A j \in (i + 1)..(m - 1) : j \in (i + 1)..m
    BY <2>1
  <2>4. m # Len(doc) + 1
    BY <1>1
  <2> QED
    BY <2>2, <2>3, <2>4
<1> QED
  BY <1>2 DEF RunsBy

LEMMA RunEnds ==
  ASSUME NEW doc \in Seq(Word \cup {Junk}), NEW m \in 1..(Len(doc) + 1), Stops(doc, m),
         NEW s, OpenAt(doc, m, s)
  PROVE  /\ RunsBy(doc, m) = RunsBy(doc, m - 1) \cup {s}
         /\ s \in RunStarts(doc) /\ s \in Nat /\ s < m
         /\ \A i \in RunsBy(doc, m - 1) : i \in Nat /\ i < s
         /\ RunFrom(doc, s) = Part(doc, s, m)
<1>1. Len(doc) \in Nat /\ DOMAIN doc = 1..Len(doc) /\ RunStarts(doc) \subseteq Nat
  BY DEF RunStarts
<1>2. s \in Nat /\ s >= 1 /\ s < m /\ m \in Nat /\ m <= Len(doc) + 1
  BY <1>1 DEF OpenAt
<1>3. s \in RunStarts(doc)
  <2>1. s \in s..(m - 1) /\ s \in 1..Len(doc)
    BY <1>1, <1>2
  <2> QED
    BY <1>1, <2>1 DEF RunStarts, OpenAt
<1>4. s \in RunsBy(doc, m)
  <2>1. m \in (s + 1)..m
    BY <1>2
  <2> QED
    BY <1>3, <2>1 DEF RunsBy, Stops
<1>5. ASSUME NEW i \in RunsBy(doc, m) PROVE i \in RunsBy(doc, m - 1) \/ i = s
  <2> SUFFICES ASSUME i \notin RunsBy(doc, m - 1) PROVE i = s
    OBVIOUS
  <2>1. i \in RunStarts(doc) /\ i \in Nat /\ i >= 1
    BY <1>1 DEF RunsBy, RunStarts
  <2>2. \A j \in (i + 1)..(m - 1) : doc[j] # Junk
    BY <2>1 DEF RunsBy
  <2>3. i + 1 <= m
    BY <1>2, <2>1 DEF RunsBy
  <2>4. doc[i] # Junk /\ (i = 1 \/ doc[i - 1] = Junk)
    BY <2>1 DEF RunStarts
  <2>5. ~(s < i)
    <3> SUFFICES ASSUME s < i PROVE FALSE
      OBVIOUS
    <3>1. i - 1 \in s..(m - 1) /\ i # 1
      BY <1>2, <2>1, <2>3
    <3> QED
      BY <2>4, <3>1 DEF OpenAt
  <2>6. ~(i < s)
    <3> SUFFICES ASSUME i < s PROVE FALSE
      OBVIOUS
    <3>1. doc[s - 1] = Junk
      BY <1>2, <2>1 DEF OpenAt
    <3>2. s - 1 = i \/ s - 1 \in (i + 1)..(m - 1)
      BY <1>2, <2>1
    <3> QED
      BY <2>2, <2>4, <3>1, <3>2
  <2> QED
    BY <1>2, <2>1, <2>5, <2>6
<1>6. RunsBy(doc, m - 1) \subseteq RunsBy(doc, m)
  <2>1. \A i \in Nat : (i + 1)..(m - 1) \subseteq (i + 1)..m
    BY <1>2
  <2> QED
    BY <1>1, <2>1 DEF RunsBy
<1>7. ASSUME NEW i \in RunsBy(doc, m - 1) PROVE i \in Nat /\ i < s
  <2>1. i \in RunStarts(doc) /\ i \in Nat
    BY <1>1 DEF RunsBy
  <2>2. PICK j \in (i + 1)..(m - 1) : j = Len(doc) + 1 \/ doc[j] = Junk
    BY DEF RunsBy
  <2>3. j # Len(doc) + 1 /\ j \in Nat /\ i < j /\ j <= m - 1
    BY <1>1, <1>2, <2>1, <2>2
  <2>4. j \notin s..(m - 1)
    BY <2>2, <2>3 DEF OpenAt
  <2> QED
    BY <1>2, <2>1, <2>3, <2>4
<1>8. RunFrom(doc, s) = Part(doc, s, m)
  <2> DEFINE K == {n \in 1..(Len(doc) + 1 - s) : \A j \in s..(s + n - 1) : doc[j] # Junk}
  <2>1. ASSUME NEW n \in 1..(m - s) PROVE n \in K
    <3>1. n \in 1..(Len(doc) + 1 - s) /\ \A j \in s..(s + n - 1) : j \in s..(m - 1)
      BY <1>1, <1>2
    <3> QED
      BY <3>1 DEF OpenAt
  <2>2. ASSUME NEW n \in K PROVE n \in 1..(m - s)
    <3>1. n \in Nat /\ n >= 1 /\ n <= Len(doc) + 1 - s
      BY <1>1, <1>2
    <3>2. n <= m - s
      <4> SUFFICES ASSUME n > m - s PROVE FALSE
        BY <1>2, <3>1
      <4>1. m \in s..(s + n - 1)
        BY <1>2, <3>1
      <4>2. doc[m] # Junk
        BY <4>1
      <4>3. m = Len(doc) + 1
        BY <4>2 DEF Stops
      <4> QED
        BY <1>1, <1>2, <3>1, <4>3
    <3> QED
      BY <1>2, <3>1, <3>2
  <2>3. K = 1..(m - s)
    BY <2>1, <2>2
  <2> QED
    BY <2>3 DEF RunFrom, Part
<1> QED
  BY <1>2, <1>3, <1>4, <1>5, <1>6, <1>7, <1>8

LEMMA NoRunEnds ==
  ASSUME NEW doc \in Seq(Word \cup {Junk}), NEW m \in 1..(Len(doc) + 1), m = 1 \/ doc[m - 1] = Junk
  PROVE  RunsBy(doc, m) = RunsBy(doc, m - 1)
<1>1. Len(doc) \in Nat /\ RunStarts(doc) \subseteq Nat
  BY DEF RunStarts
<1>2. ASSUME NEW i \in RunStarts(doc), NEW j \in (i + 1)..m, j = Len(doc) + 1 \/ doc[j] = Junk
      PROVE  \E l \in (i + 1)..(m - 1) : l = Len(doc) + 1 \/ doc[l] = Junk
  <2>1. i \in Nat /\ i >= 1 /\ doc[i] # Junk /\ m \in Nat
    BY <1>1 DEF RunStarts
  <2>2. m # 1 /\ doc[m - 1] = Junk
    BY <2>1
  <2>3. i # m - 1
    BY <2>1, <2>2
  <2>4. m - 1 \in (i + 1)..(m - 1)
    BY <2>1, <2>3
  <2> QED
    BY <2>2, <2>4
<1>3. \A i \in RunStarts(doc) : \A j \in (i + 1)..(m - 1) : j \in (i + 1)..m
  BY <1>1
<1> QED
  BY <1>2, <1>3 DEF RunsBy

(* At the end of a document all its runs have ended, and it has one if it  *)
(* has a word.                                                             *)
LEMMA AllRunsEnd ==
  ASSUME NEW doc \in Seq(Word \cup {Junk})
  PROVE  /\ RunsBy(doc, Len(doc) + 1) = RunStarts(doc)
         /\ RunStarts(doc) = {} <=> \A j \in 1..Len(doc) : doc[j] = Junk
         /\ RunFrom(doc, Len(doc) + 1) = <<>>
         /\ RunStarts(doc) \subseteq 1..Len(doc)
<1>1. Len(doc) \in Nat /\ DOMAIN doc = 1..Len(doc) /\ RunStarts(doc) \subseteq 1..Len(doc)
  BY DEF RunStarts
<1>2. \A i \in RunStarts(doc) : Len(doc) + 1 \in (i + 1)..(Len(doc) + 1)
  BY <1>1
<1>3. RunsBy(doc, Len(doc) + 1) = RunStarts(doc)
  BY <1>2 DEF RunsBy
<1>4. ASSUME \A j \in 1..Len(doc) : doc[j] = Junk PROVE RunStarts(doc) = {}
  BY <1>1, <1>4 DEF RunStarts
<1>5. ASSUME NEW j \in 1..Len(doc), doc[j] # Junk PROVE RunStarts(doc) # {}
  <2> DEFINE W == {l \in 1..Len(doc) : doc[l] # Junk}
  <2>1. W \subseteq Nat /\ W # {}
    BY <1>1, <1>5
  <2> HIDE DEF W
  <2>2. PICK x \in W : \A l \in W : x <= l
    BY <2>1, Least
  <2>3. x \in 1..Len(doc) /\ doc[x] # Junk
    BY DEF W
  <2>4. x # 1 => doc[x - 1] = Junk
    <3> SUFFICES ASSUME x # 1, doc[x - 1] # Junk PROVE FALSE
      OBVIOUS
    <3>1. x - 1 \in 1..Len(doc) /\ ~(x <= x - 1)
      BY <1>1, <2>3
    <3>2. x - 1 \in W
      BY <3>1 DEF W
    <3> QED
      BY <2>2, <3>1, <3>2
  <2>5. x \in RunStarts(doc)
    BY <1>1, <2>3, <2>4 DEF RunStarts
  <2> QED
    BY <2>5
<1>6. RunFrom(doc, Len(doc) + 1) = <<>>
  <2>1. 1..(Len(doc) + 1 - (Len(doc) + 1)) = {}
    BY <1>1
  <2> QED
    BY <2>1 DEF RunFrom
<1> QED
  BY <1>1, <1>3, <1>4, <1>5, <1>6

-----------------------------------------------------------------------------
(* A phrase behind all others gets the next place and moves none of them.  *)
Triples == Nat \X Nat \X Nat
UpToIn(S, p) == {q \in S : ~Ahead(p, q)}

LEMMA NextPlace ==
  ASSUME NEW S, IsFiniteSet(S), S \subseteq Triples, NEW p \in Triples, \A q \in S : Ahead(q, p)
  PROVE  /\ IsFiniteSet(S \cup {p}) /\ S \cup {p} \subseteq Triples
         /\ Cardinality(S) \in Nat /\ Cardinality(S \cup {p}) = Cardinality(S) + 1
         /\ Cardinality(UpToIn(S \cup {p}, p)) = Cardinality(S) + 1
         /\ \A q \in S : UpToIn(S \cup {p}, q) = UpToIn(S, q)
         /\ \A q \in S : Cardinality(UpToIn(S, q)) \in 1..Cardinality(S)
<1>1. \A q, r \in Triples : Ahead(q, r) => ~Ahead(r, q) /\ q # r
  <2> TAKE q, r \in Triples
  <2>1. q[1] \in Nat /\ q[2] \in Nat /\ q[3] \in Nat /\ r[1] \in Nat /\ r[2] \in Nat /\ r[3] \in Nat
    BY DEF Triples
  <2> QED
    BY <2>1 DEF Ahead
<1>2. p \notin S /\ ~Ahead(p, p) /\ \A q \in S : q \in Triples /\ ~Ahead(q, q) /\ ~Ahead(p, q)
  BY <1>1
<1>3. /\ IsFiniteSet(S \cup {p}) /\ Cardinality(S \cup {p}) = Cardinality(S) + 1 /\ Cardinality(S) \in Nat
  BY <1>2, FS_AddElement, FS_CardinalityType
<1>4. UpToIn(S \cup {p}, p) = S \cup {p}
  BY <1>2 DEF UpToIn
<1>5. \A q \in S : UpToIn(S \cup {p}, q) = UpToIn(S, q)
  BY DEF UpToIn
<1>6. ASSUME NEW q \in S PROVE Cardinality(UpToIn(S, q)) \in 1..Cardinality(S)
  <2>1. UpToIn(S, q) \in SUBSET S /\ UpToIn(S, q) # {}
    BY <1>2 DEF UpToIn
  <2>2. IsFiniteSet(UpToIn(S, q)) /\ Cardinality(UpToIn(S, q)) <= Cardinality(S)
    BY <2>1, FS_Subset, Zenon
  <2>3. Cardinality(UpToIn(S, q)) \in Nat /\ Cardinality(UpToIn(S, q)) # 0
    BY <2>1, <2>2, FS_CardinalityType, FS_EmptySet
  <2> QED
    BY <1>3, <2>2, <2>3
<1> QED
  BY <1>3, <1>4, <1>5, <1>6

(* What corpus holds, for any corpus and any reading of the phrases.       *)
HoldsAs(c, S, I) ==
  /\ Len(c) = Cardinality(S)
  /\ \A p \in S : c[Cardinality(UpToIn(S, p))] = I[p]

LEMMA HoldsNext ==
  ASSUME NEW S, IsFiniteSet(S), S \subseteq Triples, NEW p \in Triples, \A q \in S : Ahead(q, p),
         NEW X, NEW c \in Seq(X), NEW x \in X,
         NEW I, HoldsAs(c, S, I),
         NEW J, J[p] = x, \A q \in S : J[q] = I[q]
  PROVE  HoldsAs(Append(c, x), S \cup {p}, J)
<1> DEFINE T == S \cup {p}
           e == Append(c, x)
<1>1. /\ Cardinality(S) \in Nat /\ Cardinality(T) = Cardinality(S) + 1
      /\ Cardinality(UpToIn(T, p)) = Cardinality(S) + 1
      /\ \A q \in S : UpToIn(T, q) = UpToIn(S, q)
      /\ \A q \in S : Cardinality(UpToIn(S, q)) \in 1..Cardinality(S)
  BY NextPlace
<1>2. Len(c) = Cardinality(S) /\ \A q \in S : c[Cardinality(UpToIn(S, q))] = I[q]
  BY DEF HoldsAs
<1>3. /\ Len(e) = Len(c) + 1 /\ e[Len(c) + 1] = x
      /\ \A i \in 1..Len(c) : e[i] = c[i]
  BY AppendIs
<1> HIDE DEF e
<1>4. ASSUME NEW q \in T PROVE e[Cardinality(UpToIn(T, q))] = J[q]
  <2>1. CASE q = p
    BY <1>1, <1>2, <1>3, <2>1
  <2>2. CASE q # p
    <3>1. q \in S
      BY <2>2
    <3> QED
      BY <1>1, <1>2, <1>3, <3>1
  <2> QED
    BY <2>1, <2>2
<1>5. Len(e) = Cardinality(T)
  BY <1>1, <1>2, <1>3
<1> HIDE DEF T
<1>6. HoldsAs(e, T, J)
  BY <1>4, <1>5 DEF HoldsAs
<1> QED
  BY <1>6 DEF e, T

-----------------------------------------------------------------------------
(* The phrases written so far: those of the zip files that are done, those *)
(* of the documents of the current one before d, and the runs of document  *)
(* d that have ended.                                                      *)
InText == inZip /\ ZipFile # Unreadable /\ d <= Len(ZipFile)
FilesDone == IF inZip THEN CalledFiles \ {CurrentFile} ELSE CalledFiles
EndedRuns == IF InText THEN RunsBy(Doc, t - 1) ELSE {}

DocsDone == UNION {{<<CurrentFile, k, i>> : i \in PhraseStarts(ZipFile[k])} : k \in 1..(d - 1)}
Written ==
  PhrasesOf(FilesDone)
    \cup (IF inZip THEN DocsDone \cup {<<CurrentFile, d, i>> : i \in EndedRuns} ELSE {})

ConvTypes ==
  /\ docsOf \in [MatchingFiles -> ZipContents]
  /\ inZip \in BOOLEAN /\ d \in Nat \ {0} /\ t \in Nat \ {0}
  /\ IsFiniteSet(DOMAIN table) /\ table \in [DOMAIN table -> [id : Nat, weight : Nat]]
  /\ ids \in Seq(Nat) /\ empty \in BOOLEAN /\ corpus \in Seq(Seq(Nat)) /\ total_count \in Nat
  /\ pc \in {"read", "saved", "threw"}
  /\ inZip => Len(called) # 0

(* The documents before d are not empty, and t is in document d.           *)
PlaceOK ==
  /\ inZip /\ ZipFile = Unreadable => d = 1
  /\ inZip /\ ZipFile # Unreadable => d <= Len(ZipFile) + 1 /\ \A k \in 1..(d - 1) : ZipFile[k] # <<>>
  /\ IF InText THEN t <= Len(Doc) + 1 ELSE t = 1
  /\ pc = "saved" => ~inZip /\ Returned

(* ids has the run that is open at t, and empty is true before any word.   *)
RunOK ==
  /\ t = 1 => ids = <<>> /\ empty
  /\ InText =>
       /\ empty <=> \A j \in 1..(t - 1) : Doc[j] = Junk
       /\ \A j \in 1..(t - 1) : Doc[j] # Junk => Doc[j] \in DOMAIN table
       /\ \/ ids = <<>> /\ (t = 1 \/ Doc[t - 1] = Junk)
          \/ \E s \in 1..(t - 1) : OpenAt(Doc, t, s) /\ ids = [k \in 1..(t - s) |-> table[Doc[s + k - 1]].id]

KnownWords(S, tb) ==
  \A p \in S : LET run == RunFrom(docsOf[p[1]][p[2]], p[3]) IN \A k \in DOMAIN run : run[k] \in DOMAIN tb

IdsAre(S) == [p \in S |-> IdsOf(p)]

WrittenOK ==
  /\ IsFiniteSet(Written) /\ Written \subseteq Triples
  /\ KnownWords(Written, table)
  /\ HoldsAs(corpus, Written, IdsAre(Written))

Empties(c) == {i \in DOMAIN c : c[i] = <<>>}

ConvInv ==
  WalkInv /\ ConvTypes /\ IdsDense /\ PlaceOK /\ RunOK /\ WrittenOK /\ TotalCountsDocuments

-----------------------------------------------------------------------------

LEMMA EmptiesNext ==
  ASSUME NEW X, NEW c \in Seq(X), NEW x \in X
  PROVE  /\ Cardinality(Empties(c)) \in Nat
         /\ Cardinality(Empties(Append(c, x))) = Cardinality(Empties(c)) + (IF x = <<>> THEN 1 ELSE 0)
<1> DEFINE e == Append(c, x)
           n == Len(c)
<1>1. /\ n \in Nat /\ DOMAIN c = 1..n /\ DOMAIN e = 1..(n + 1)
      /\ (\A i \in 1..n : e[i] = c[i]) /\ e[n + 1] = x
  BY AppendIs
<1> HIDE DEF e, n
<1>2. IsFiniteSet(1..n) /\ Empties(c) \in SUBSET (1..n)
  BY <1>1, FS_Interval DEF Empties
<1>3. IsFiniteSet(Empties(c))
  BY <1>2, FS_Subset, Zenon
<1>4. Cardinality(Empties(c)) \in Nat
  BY <1>3, FS_CardinalityType
<1>5. \A i \in 1..(n + 1) : i \in 1..n \/ i = n + 1
  BY <1>1
<1>6. 1..n \subseteq 1..(n + 1) /\ n + 1 \in 1..(n + 1) /\ n + 1 \notin 1..n
  BY <1>1
<1>7. CASE x = <<>>
  <2>1. Empties(e) = Empties(c) \cup {n + 1} /\ n + 1 \notin Empties(c)
    BY <1>1, <1>5, <1>6, <1>7 DEF Empties
  <2>2. Cardinality(Empties(c) \cup {n + 1}) = Cardinality(Empties(c)) + 1
    BY <1>3, <2>1, FS_AddElement
  <2> QED
    BY <1>4, <1>7, <2>1, <2>2 DEF e
<1>8. CASE x # <<>>
  <2>1. Empties(e) = Empties(c)
    BY <1>1, <1>5, <1>6, <1>8 DEF Empties
  <2> QED
    BY <1>4, <1>8, <2>1 DEF e
<1> QED
  BY <1>7, <1>8

LEMMA CalledAre ==
  ASSUME WalkInv, Len(called) # 0
  PROVE  /\ CurrentFile \in CalledFiles /\ CalledFiles \subseteq Window /\ Window \subseteq MatchingFiles
         /\ MatchingFiles \subseteq Nat
         /\ \A g \in CalledFiles \ {CurrentFile} : g < CurrentFile
<1> DEFINE n == Len(called)
<1>1. n \in Nat /\ DOMAIN called = 1..n /\ n # 0
  BY CalledIs DEF WalkInv
<1>2. CalledFiles \subseteq Window /\ Window \subseteq MatchingFiles
  BY DEF WalkInv, WalkCalls, Below, Window
<1>3. MatchingFiles \subseteq Nat
  BY FilesAre DEF WalkInv, WalkTypes
<1>4. \A k, l \in 1..n : k < l => called[k] < called[l]
  BY <1>1 DEF WalkInv, WalkCalls
<1> HIDE DEF n
<1>5. n \in 1..n /\ \A k \in 1..n : k = n \/ k < n
  BY <1>1
<1>6. CurrentFile = called[n]
  BY DEF CurrentFile, n
<1>7. CurrentFile \in CalledFiles
  BY <1>1, <1>5, <1>6 DEF CalledFiles
<1>8. \A g \in CalledFiles \ {CurrentFile} : g < CurrentFile
  BY <1>1, <1>4, <1>5, <1>6 DEF CalledFiles
<1> QED
  BY <1>2, <1>3, <1>7, <1>8

LEMMA ZipIs ==
  ASSUME ConvInv, inZip, ZipFile # Unreadable
  PROVE  /\ ZipFile = docsOf[CurrentFile] /\ CurrentFile \in Nat /\ CurrentFile \in CalledFiles
         /\ ZipFile \in Seq(Seq(Word \cup {Junk})) /\ Len(ZipFile) \in Nat /\ DOMAIN ZipFile = 1..Len(ZipFile)
         /\ \A k \in 1..Len(ZipFile) : ZipFile[k] \in Seq(Word \cup {Junk})
<1>1. /\ Len(called) # 0 /\ docsOf \in [MatchingFiles -> ZipContents] /\ WalkInv
  BY DEF ConvInv, ConvTypes
<1>2. CurrentFile \in CalledFiles /\ CurrentFile \in MatchingFiles /\ CurrentFile \in Nat
  BY <1>1, CalledAre
<1>3. ZipFile = docsOf[CurrentFile] /\ ZipFile \in ZipContents \ {Unreadable}
  BY <1>1, <1>2 DEF ZipFile
<1> DEFINE D == Seq(Word \cup {Junk})
<1>4. ZipFile \in Seq(D)
  BY <1>3, ConvertAssumption
<1> HIDE DEF D
<1>5. Len(ZipFile) \in Nat /\ DOMAIN ZipFile = 1..Len(ZipFile) /\ \A k \in 1..Len(ZipFile) : ZipFile[k] \in D
  BY <1>4
<1> QED
  BY <1>2, <1>3, <1>4, <1>5 DEF D

LEMMA TextIs ==
  ASSUME ConvInv, InText
  PROVE  /\ CurrentFile \in Nat /\ d \in Nat /\ d \in 1..Len(ZipFile)
         /\ Doc = docsOf[CurrentFile][d] /\ Doc \in Seq(Word \cup {Junk}) /\ Len(Doc) \in Nat
         /\ DOMAIN Doc = 1..Len(Doc)
         /\ t \in Nat /\ t \in 1..(Len(Doc) + 1)
         /\ FilesDone = CalledFiles \ {CurrentFile} /\ \A g \in FilesDone : g \in Nat /\ g < CurrentFile
         /\ EndedRuns = RunsBy(Doc, t - 1)
         /\ Written = PhrasesOf(FilesDone) \cup DocsDone \cup {<<CurrentFile, d, i>> : i \in EndedRuns}
<1>1. inZip /\ ZipFile # Unreadable /\ d <= Len(ZipFile) /\ d \in Nat \ {0} /\ t \in Nat \ {0}
      /\ t <= Len(Doc) + 1 /\ WalkInv /\ Len(called) # 0
  BY DEF InText, ConvInv, ConvTypes, PlaceOK
<1>2. /\ ZipFile = docsOf[CurrentFile] /\ CurrentFile \in Nat
      /\ Len(ZipFile) \in Nat /\ \A k \in 1..Len(ZipFile) : ZipFile[k] \in Seq(Word \cup {Junk})
  BY <1>1, ZipIs
<1>3. d \in 1..Len(ZipFile)
  BY <1>1, <1>2
<1>4. Doc = docsOf[CurrentFile][d] /\ Doc \in Seq(Word \cup {Junk})
  BY <1>2, <1>3 DEF Doc
<1>5. Len(Doc) \in Nat /\ DOMAIN Doc = 1..Len(Doc)
  BY <1>4
<1>6. t \in 1..(Len(Doc) + 1)
  BY <1>1, <1>5
<1>7. FilesDone = CalledFiles \ {CurrentFile}
  BY <1>1 DEF FilesDone
<1>8. \A g \in FilesDone : g \in Nat /\ g < CurrentFile
  BY <1>1, <1>7, CalledAre
<1>9. EndedRuns = RunsBy(Doc, t - 1)
  BY DEF EndedRuns
<1>10. Written = PhrasesOf(FilesDone) \cup DocsDone \cup {<<CurrentFile, d, i>> : i \in EndedRuns}
  BY <1>1 DEF Written
<1> QED
  BY <1>1, <1>2, <1>3, <1>4, <1>5, <1>6, <1>7, <1>8, <1>9, <1>10

(* What is written is ahead of a place in document d that is behind the    *)
(* runs that have ended.                                                   *)
LEMMA WrittenAhead ==
  ASSUME ConvInv, InText, NEW i \in Nat, NEW C, \A j \in C : j < i
  PROVE  \A q \in PhrasesOf(FilesDone) \cup DocsDone \cup {<<CurrentFile, d, j>> : j \in C} :
           Ahead(q, <<CurrentFile, d, i>>)
<1> DEFINE f == CurrentFile
<1>1. f \in Nat /\ d \in Nat /\ \A g \in FilesDone : g < f
  BY TextIs
<1>2. ASSUME NEW q \in PhrasesOf(FilesDone) PROVE Ahead(q, <<f, d, i>>)
  <2>1. PICK g \in FilesDone :
           \E k \in DocsRead(g) : \E l \in PhraseStarts(docsOf[g][k]) : q = <<g, k, l>>
    BY DEF PhrasesOf
  <2>2. q[1] = g
    BY <2>1
  <2>3. q[1] < f
    BY <1>1, <2>2
  <2> QED
    BY <2>3 DEF Ahead
<1>3. ASSUME NEW q \in DocsDone PROVE Ahead(q, <<f, d, i>>)
  <2>1. PICK k \in 1..(d - 1) : \E l \in PhraseStarts(ZipFile[k]) : q = <<f, k, l>>
    BY DEF DocsDone
  <2>2. q[1] = f /\ q[2] = k /\ k < d
    BY <1>1, <2>1
  <2> QED
    BY <2>2 DEF Ahead
<1>4. ASSUME NEW j \in C PROVE Ahead(<<f, d, j>>, <<f, d, i>>)
  BY DEF Ahead
<1> QED
  BY <1>2, <1>3, <1>4

WrittenBy(m) ==
  PhrasesOf(FilesDone) \cup DocsDone \cup {<<CurrentFile, d, i>> : i \in RunsBy(Doc, m)}

(* The run that stops at t, if there is one, gets the next place.          *)
LEMMA RunIsWritten ==
  ASSUME ConvInv, InText, Stops(Doc, t)
  PROVE  /\ IsFiniteSet(WrittenBy(t)) /\ WrittenBy(t) \subseteq Triples
         /\ KnownWords(WrittenBy(t), table)
         /\ HoldsAs(WithPhrase, WrittenBy(t), IdsAre(WrittenBy(t)))
         /\ WithPhrase \in Seq(Seq(Nat))
         /\ Cardinality(Empties(WithPhrase)) = total_count
<1> DEFINE f == CurrentFile
<1>1. /\ f \in Nat /\ d \in Nat /\ Doc = docsOf[f][d] /\ Doc \in Seq(Word \cup {Junk}) /\ Len(Doc) \in Nat
      /\ t \in Nat /\ t \in 1..(Len(Doc) + 1) /\ Written = WrittenBy(t - 1)
  BY TextIs DEF WrittenBy
<1>2. /\ IsFiniteSet(Written) /\ Written \subseteq Triples /\ KnownWords(Written, table)
      /\ HoldsAs(corpus, Written, IdsAre(Written))
      /\ corpus \in Seq(Seq(Nat)) /\ ids \in Seq(Nat) /\ Cardinality(Empties(corpus)) = total_count
  BY DEF ConvInv, WrittenOK, KnownWords, IdsAre, ConvTypes, TotalCountsDocuments, Empties
<1>3. CASE ids = <<>> /\ (t = 1 \/ Doc[t - 1] = Junk)
  <2>1. WrittenBy(t) = Written
    BY <1>1, <1>3, NoRunEnds DEF WrittenBy
  <2>2. WithPhrase = corpus
    BY <1>3 DEF WithPhrase
  <2> QED
    BY <1>2, <2>1, <2>2
<1>4. CASE \E s \in 1..(t - 1) : OpenAt(Doc, t, s) /\ ids = [k \in 1..(t - s) |-> table[Doc[s + k - 1]].id]
  <2>1. PICK s \in 1..(t - 1) : OpenAt(Doc, t, s) /\ ids = [k \in 1..(t - s) |-> table[Doc[s + k - 1]].id]
    BY <1>4
  <2>2. /\ RunsBy(Doc, t) = RunsBy(Doc, t - 1) \cup {s} /\ s \in Nat /\ s < t
        /\ \A i \in RunsBy(Doc, t - 1) : i < s
        /\ RunFrom(Doc, s) = [k \in 1..(t - s) |-> Doc[s + k - 1]]
    <3>1. Doc \in Seq(Word \cup {Junk}) /\ t \in 1..(Len(Doc) + 1) /\ OpenAt(Doc, t, s) /\ Stops(Doc, t)
      BY <1>1, <2>1
    <3>2. /\ RunsBy(Doc, t) = RunsBy(Doc, t - 1) \cup {s} /\ s \in Nat /\ s < t
          /\ \A i \in RunsBy(Doc, t - 1) : i < s
          /\ RunFrom(Doc, s) = Part(Doc, s, t)
      BY <3>1, RunEnds
    <3> QED
      BY <3>2 DEF Part
  <2> DEFINE p == <<f, d, s>>
  <2>3. WrittenBy(t) = Written \cup {p}
    BY <1>1, <2>2 DEF WrittenBy
  <2>4. p \in Triples /\ p[1] = f /\ p[2] = d /\ p[3] = s
    BY <1>1, <2>2 DEF Triples
  <2>5. \A q \in Written : Ahead(q, p)
    BY <1>1, <2>2, WrittenAhead DEF WrittenBy
  <2> HIDE DEF p
  <2>6. IsFiniteSet(Written \cup {p}) /\ Written \cup {p} \subseteq Triples
    BY <1>2, <2>4, <2>5, NextPlace
  <2>7. KnownWords(Written \cup {p}, table)
    <3>1. \A k \in 1..(t - s) : s + k - 1 \in 1..(t - 1) /\ s + k - 1 \in s..(t - 1)
      BY <1>1, <2>1, <2>2
    <3>2. \A k \in 1..(t - s) : Doc[s + k - 1] \in DOMAIN table
      BY <2>1, <3>1 DEF ConvInv, RunOK, OpenAt
    <3>3. \A k \in DOMAIN RunFrom(Doc, s) : RunFrom(Doc, s)[k] \in DOMAIN table
      BY <2>2, <3>2
    <3> QED
      BY <1>1, <1>2, <2>4, <3>3 DEF KnownWords
  <2>8. IdsOf(p) = ids
    <3>1. IdsOf(p) = [k \in 1..(t - s) |-> table[RunFrom(Doc, s)[k]].id]
      BY <1>1, <2>2, <2>4 DEF IdsOf
    <3> QED
      BY <2>1, <2>2, <3>1
  <2>9. ids # <<>>
    <3>1. 1 \in DOMAIN ids
      BY <1>1, <2>1, <2>2
    <3> QED
      BY <3>1
  <2>10. WithPhrase = Append(corpus, ids)
    BY <2>9 DEF WithPhrase
  <2>11. HoldsAs(Append(corpus, ids), Written \cup {p}, IdsAre(Written \cup {p}))
    <3> DEFINE I == IdsAre(Written)
               J == IdsAre(Written \cup {p})
    <3>1. J[p] = ids /\ \A q \in Written : J[q] = I[q]
      BY <2>8 DEF IdsAre
    <3> HIDE DEF I, J
    <3> DEFINE X == Seq(Nat)
    <3>2. corpus \in Seq(X) /\ ids \in X /\ HoldsAs(corpus, Written, I)
      BY <1>2 DEF I
    <3> HIDE DEF X
    <3>3. HoldsAs(Append(corpus, ids), Written \cup {p}, J)
      BY <1>2, <2>4, <2>5, <3>1, <3>2, HoldsNext
    <3> QED
      BY <3>3 DEF J
  <2>12. Append(corpus, ids) \in Seq(Seq(Nat))
    BY <1>2
  <2>13. Cardinality(Empties(Append(corpus, ids))) = total_count
    <3> DEFINE X == Seq(Nat)
    <3>1. corpus \in Seq(X) /\ ids \in X
      BY <1>2
    <3> HIDE DEF X
    <3>2. /\ Cardinality(Empties(corpus)) \in Nat
          /\ Cardinality(Empties(Append(corpus, ids))) = Cardinality(Empties(corpus)) + 0
      BY <2>9, <3>1, EmptiesNext
    <3> QED
      BY <1>2, <3>2
  <2> QED
    BY <2>3, <2>6, <2>7, <2>10, <2>11, <2>12, <2>13
<1> QED
  BY <1>3, <1>4 DEF ConvInv, RunOK

(* Steps that leave the text alone.                                        *)
LEMMA SameText ==
  ASSUME UNCHANGED <<listVars, docsOf, inZip, d>>
  PROVE  /\ InText' = InText /\ ZipFile' = ZipFile /\ CurrentFile' = CurrentFile
         /\ Doc' = Doc /\ FilesDone' = FilesDone /\ DocsDone' = DocsDone
         /\ PhrasesOf(FilesDone)' = PhrasesOf(FilesDone)
         /\ MatchingFiles' = MatchingFiles /\ CalledFiles' = CalledFiles
         /\ WalkInv' = WalkInv /\ Returned' = Returned
         /\ \A p : RunFrom(docsOf[p[1]][p[2]], p[3])' = RunFrom(docsOf[p[1]][p[2]], p[3])
<1>1. /\ UNCHANGED <<tree, from, limit, at, depth, counter, called>>
      /\ docsOf' = docsOf /\ inZip' = inZip /\ d' = d
  BY DEF listVars
<1>2. MatchingFiles' = MatchingFiles /\ CalledFiles' = CalledFiles
  BY <1>1 DEF MatchingFiles, CalledFiles
<1>3. CurrentFile' = CurrentFile
  BY <1>1 DEF CurrentFile
<1>4. ZipFile' = ZipFile
  BY <1>1, <1>3 DEF ZipFile
<1>5. Doc' = Doc /\ InText' = InText
  BY <1>1, <1>4 DEF Doc, InText
<1>6. FilesDone' = FilesDone
  BY <1>1, <1>2, <1>3 DEF FilesDone
<1>7. DocsDone' = DocsDone
  BY <1>1, <1>3, <1>4 DEF DocsDone
<1>8. PhrasesOf(FilesDone)' = PhrasesOf(FilesDone)
  BY <1>1, <1>6 DEF PhrasesOf, DocsRead
<1>9. WalkInv' = WalkInv
  BY <1>1, <1>2 DEF WalkInv, WalkTypes, WalkDepth, WalkCount, WalkCalls, FilesBelow, Beyond, Window, FileNumber
<1>10. \A p : RunFrom(docsOf[p[1]][p[2]], p[3])' = RunFrom(docsOf[p[1]][p[2]], p[3])
  BY <1>1
<1> QED
  BY <1>1, <1>2, <1>3, <1>4, <1>5, <1>6, <1>7, <1>8, <1>9, <1>10 DEF Returned

LEMMA StaysWritten ==
  ASSUME WrittenOK, Written' = Written, UNCHANGED <<docsOf, corpus>>,
         \A v \in DOMAIN table : v \in DOMAIN table' /\ table'[v].id = table[v].id
  PROVE  WrittenOK'
<1>1. docsOf' = docsOf /\ corpus' = corpus
  OBVIOUS
<1>2. ASSUME NEW p \in Written PROVE IdsOf(p)' = IdsOf(p)
  <2> DEFINE run == RunFrom(docsOf[p[1]][p[2]], p[3])
  <2>1. \A k \in DOMAIN run : run[k] \in DOMAIN table
    BY DEF WrittenOK, KnownWords
  <2>2. \A k \in DOMAIN run : table'[run[k]].id = table[run[k]].id
    BY <2>1
  <2>3. run' = run
    BY <1>1
  <2>4. IdsOf(p) = [k \in DOMAIN run |-> table[run[k]].id] /\ IdsOf(p)' = [k \in DOMAIN run' |-> table'[run'[k]].id]
    BY DEF IdsOf
  <2> HIDE DEF run
  <2> QED
    BY <2>2, <2>3, <2>4
<1>3. IdsAre(Written)' = IdsAre(Written)
  BY <1>2 DEF IdsAre
<1>4. KnownWords(Written, table)'
  BY <1>1 DEF WrittenOK, KnownWords
<1> QED
  BY <1>1, <1>3, <1>4 DEF WrittenOK

LEMMA DocsIn ==
  ASSUME NEW z \in ZipContents, z # Unreadable
  PROVE  /\ Len(z) \in Nat /\ DOMAIN z = 1..Len(z)
         /\ \A k \in 1..Len(z) : z[k] \in Seq(Word \cup {Junk}) /\ Len(z[k]) \in Nat /\ RunsBy(z[k], 0) = {}
<1> DEFINE D == Seq(Word \cup {Junk})
<1>1. z \in Seq(D)
  BY ConvertAssumption
<1> HIDE DEF D
<1>2. Len(z) \in Nat /\ DOMAIN z = 1..Len(z) /\ \A k \in 1..Len(z) : z[k] \in D
  BY <1>1
<1>3. \A x \in D : RunsBy(x, 0) = {}
  BY NoRunsYet DEF D
<1>4. \A x \in D : Len(x) \in Nat
  BY DEF D
<1> QED
  BY <1>2, <1>3, <1>4 DEF D

LEMMA WalkStep ==
  ASSUME ConvInv, Walk
  PROVE  ConvInv'
<1>1. /\ ~inZip /\ pc = "read" /\ UNCHANGED <<docsOf, inZip, d, t, table, ids, empty, corpus, total_count, pc>>
      /\ SkipEntry \/ Enter \/ SkipFile \/ LeaveEarly \/ Leave
  BY DEF Walk, words
<1>2. WalkInv' /\ tree' = tree /\ called' = called
  BY <1>1, SkipEntryInv, SkipFileInv, LeaveEarlyInv, LeaveInv
     DEF ConvInv, SkipEntry, Enter, SkipFile, LeaveEarly, Leave
<1>3. MatchingFiles' = MatchingFiles /\ CalledFiles' = CalledFiles
  BY <1>2 DEF MatchingFiles, CalledFiles
<1>4. Written = PhrasesOf(CalledFiles) /\ Written' = PhrasesOf(CalledFiles)'
  BY <1>1 DEF Written, FilesDone
<1>5. PhrasesOf(CalledFiles)' = PhrasesOf(CalledFiles)
  BY <1>1, <1>3 DEF PhrasesOf, DocsRead
<1>6. WrittenOK'
  BY <1>1, <1>4, <1>5, StaysWritten DEF ConvInv
<1>7. ~InText /\ ~InText'
  BY <1>1 DEF InText
<1>8. PlaceOK' /\ RunOK'
  BY <1>1, <1>7 DEF ConvInv, PlaceOK, RunOK
<1>9. ConvTypes'
  BY <1>1, <1>2, <1>3 DEF ConvInv, ConvTypes
<1>10. IdsDense' /\ TotalCountsDocuments'
  BY <1>1 DEF ConvInv, IdsDense, TotalCountsDocuments
<1> QED
  BY <1>2, <1>6, <1>8, <1>9, <1>10 DEF ConvInv

LEMMA OpenZipStep ==
  ASSUME ConvInv, OpenZip
  PROVE  ConvInv'
<1>1. /\ ~inZip /\ pc = "read" /\ Call /\ inZip' = TRUE /\ d' = 1
      /\ UNCHANGED <<docsOf, t, table, ids, empty, corpus, total_count, pc>>
  BY DEF OpenZip, words
<1>2. /\ WalkInv' /\ at \in Window /\ CalledFiles' = CalledFiles \cup {at} /\ at \notin CalledFiles
      /\ Len(called') = Len(called) + 1 /\ called'[Len(called')] = at /\ Len(called) \in Nat
  BY <1>1, CallInv, CalledIs DEF ConvInv, WalkInv
<1>3. MatchingFiles' = MatchingFiles /\ at \in MatchingFiles
  BY <1>1, <1>2 DEF Call, MatchingFiles, Window
<1>4. CurrentFile' = at /\ ZipFile' = docsOf[at] /\ FilesDone' = CalledFiles
  BY <1>1, <1>2 DEF CurrentFile, ZipFile, FilesDone
<1>5. docsOf[at] \in ZipContents
  BY <1>3 DEF ConvInv, ConvTypes
<1>6. t = 1 /\ ids = <<>> /\ empty
  BY <1>1 DEF ConvInv, PlaceOK, RunOK, InText
<1>7. InText' => Doc' \in Seq(Word \cup {Junk}) /\ Len(Doc') \in Nat /\ RunsBy(Doc, t - 1)' = {}
  <2> SUFFICES ASSUME InText'
               PROVE  Doc' \in Seq(Word \cup {Junk}) /\ Len(Doc') \in Nat /\ RunsBy(Doc, t - 1)' = {}
    OBVIOUS
  <2> DEFINE z == docsOf[at]
  <2>1. z # Unreadable /\ 1 <= Len(z) /\ Doc' = z[1]
    BY <1>1, <1>4 DEF InText, Doc
  <2> HIDE DEF z
  <2>4. /\ Len(z) \in Nat
        /\ \A k \in 1..Len(z) : z[k] \in Seq(Word \cup {Junk}) /\ Len(z[k]) \in Nat /\ RunsBy(z[k], 0) = {}
    BY <1>5, <2>1, DocsIn DEF z
  <2>5. 1 \in 1..Len(z)
    BY <2>1, <2>4
  <2>2. Doc' \in Seq(Word \cup {Junk}) /\ Len(Doc') \in Nat /\ RunsBy(Doc', 0) = {}
    BY <2>1, <2>4, <2>5
  <2>3. RunsBy(Doc, t - 1)' = RunsBy(Doc', t' - 1) /\ t' - 1 = 0
    BY <1>1, <1>6 DEF RunsBy, RunStarts
  <2> QED
    BY <2>2, <2>3
<1>8. EndedRuns' = {}
  BY <1>7 DEF EndedRuns
<1>9. DocsDone' = {}
  <2>1. 1..(d' - 1) = {}
    BY <1>1
  <2> QED
    BY <2>1 DEF DocsDone
<1>10. PhrasesOf(FilesDone)' = PhrasesOf(CalledFiles)
  BY <1>1, <1>4 DEF PhrasesOf, DocsRead
<1>11. Written' = Written
  BY <1>1, <1>8, <1>9, <1>10 DEF Written, FilesDone
<1>12. WrittenOK'
  BY <1>1, <1>11, StaysWritten DEF ConvInv
<1>13. PlaceOK'
  <2>1. 1..(d' - 1) = {} /\ t' = 1
    BY <1>1, <1>6
  <2>2. ZipFile' # Unreadable => Len(ZipFile') \in Nat
    BY <1>4, <1>5, DocsIn
  <2>3. InText' => t' <= Len(Doc') + 1
    BY <1>7, <2>1
  <2>4. ZipFile' # Unreadable => d' <= Len(ZipFile') + 1
    BY <1>1, <2>2
  <2> QED
    BY <1>1, <2>1, <2>3, <2>4 DEF PlaceOK
<1>14. RunOK'
  <2>1. 1..(t' - 1) = {} /\ t' = 1
    BY <1>1, <1>6
  <2> QED
    BY <1>1, <1>6, <2>1 DEF RunOK
<1>15. ConvTypes'
  BY <1>1, <1>2, <1>3 DEF ConvInv, ConvTypes
<1>16. IdsDense' /\ TotalCountsDocuments'
  BY <1>1 DEF ConvInv, IdsDense, TotalCountsDocuments
<1> QED
  BY <1>2, <1>12, <1>13, <1>14, <1>15, <1>16 DEF ConvInv

LEMMA NewWritten ==
  ASSUME NEW S, Written' = S, IsFiniteSet(S), S \subseteq Triples, KnownWords(S, table),
         HoldsAs(corpus', S, IdsAre(S)), UNCHANGED <<docsOf, table>>
  PROVE  WrittenOK'
<1>1. docsOf' = docsOf /\ table' = table
  OBVIOUS
<1>2. KnownWords(Written, table)'
  BY <1>1 DEF KnownWords
<1>3. IdsAre(Written)' = IdsAre(S)
  BY <1>1 DEF IdsAre, IdsOf
<1>4. HoldsAs(corpus, Written, IdsAre(Written))'
  BY <1>3 DEF HoldsAs
<1> QED
  BY <1>2, <1>4 DEF WrittenOK

(* update_word: the other words keep their identifiers, and they stay      *)
(* dense.                                                                  *)
LEMMA WordIsKept ==
  ASSUME ConvInv, NEW w
  PROVE  LET tb == UpdateWord(w)
         IN  /\ DOMAIN tb = DOMAIN table \cup {w} /\ IsFiniteSet(DOMAIN tb)
             /\ tb \in [DOMAIN tb -> [id : Nat, weight : Nat]]
             /\ \A v \in DOMAIN table : tb[v].id = table[v].id
             /\ tb[w].id \in Nat
             /\ {tb[v].id : v \in DOMAIN tb} = 1..Cardinality(DOMAIN tb)
<1> DEFINE tb == UpdateWord(w)
           n == Cardinality(DOMAIN table)
<1>1. /\ IsFiniteSet(DOMAIN table) /\ {table[v].id : v \in DOMAIN table} = 1..n
      /\ \A v \in DOMAIN table : table[v] \in [id : Nat, weight : Nat]
  BY DEF ConvInv, ConvTypes, IdsDense
<1>2. n \in Nat
  BY <1>1, FS_CardinalityType
<1> HIDE DEF n
<1>3. DOMAIN tb = DOMAIN table \cup {w} /\ \A v \in DOMAIN table : v # w => tb[v] = table[v]
  BY DEF UpdateWord
<1>4. IsFiniteSet(DOMAIN tb)
  BY <1>1, <1>3, FS_AddElement
<1>5. CASE w \in DOMAIN table
  <2>1. tb[w] = [table[w] EXCEPT !.weight = @ + 1]
    BY <1>5 DEF UpdateWord
  <2>2. tb[w] \in [id : Nat, weight : Nat] /\ tb[w].id = table[w].id
    BY <1>1, <1>5, <2>1
  <2>3. DOMAIN tb = DOMAIN table
    BY <1>3, <1>5
  <2>4. \A v \in DOMAIN table : tb[v] \in [id : Nat, weight : Nat] /\ tb[v].id = table[v].id
    BY <1>1, <1>3, <2>2
  <2>5. {tb[v].id : v \in DOMAIN tb} = {table[v].id : v \in DOMAIN table}
    BY <2>3, <2>4
  <2>6. tb \in [DOMAIN tb -> [id : Nat, weight : Nat]]
    BY <2>3, <2>4 DEF UpdateWord
  <2> QED
    BY <1>1, <1>3, <1>4, <1>5, <2>2, <2>3, <2>4, <2>5, <2>6 DEF n
<1>6. CASE w \notin DOMAIN table
  <2>1. tb[w] = [id |-> n + 1, weight |-> 1]
    BY <1>6 DEF UpdateWord, n
  <2>2. tb[w] \in [id : Nat, weight : Nat] /\ tb[w].id = n + 1
    BY <1>2, <2>1
  <2>3. \A v \in DOMAIN table : tb[v] = table[v]
    BY <1>3, <1>6
  <2>4. Cardinality(DOMAIN tb) = n + 1
    BY <1>1, <1>3, <1>6, FS_AddElement DEF n
  <2>5. {tb[v].id : v \in DOMAIN tb} = 1..n \cup {n + 1}
    <3>1. \A x : (\E v \in DOMAIN tb : tb[v].id = x) <=> (\E v \in DOMAIN table : table[v].id = x) \/ x = n + 1
      BY <1>3, <2>2, <2>3
    <3> HIDE DEF tb
    <3>2. \A x : x \in {tb[v].id : v \in DOMAIN tb} <=> \E v \in DOMAIN tb : tb[v].id = x
      OBVIOUS
    <3>3. \A x : x \in 1..n <=> \E v \in DOMAIN table : table[v].id = x
      BY <1>1
    <3>4. \A x : x \in {tb[v].id : v \in DOMAIN tb} <=> x \in 1..n \cup {n + 1}
      BY <3>1, <3>2, <3>3
    <3> QED
      BY <3>4
  <2>6. 1..n \cup {n + 1} = 1..(n + 1)
    BY <1>2
  <2>7. tb \in [DOMAIN tb -> [id : Nat, weight : Nat]]
    BY <1>1, <1>3, <2>2, <2>3 DEF UpdateWord
  <2> QED
    BY <1>2, <1>3, <1>4, <2>2, <2>3, <2>4, <2>5, <2>6, <2>7
<1> QED
  BY <1>5, <1>6

IdsRun(doc, s, m, tb) == [k \in 1..(m - s) |-> tb[doc[s + k - 1]].id]

(* The word at m, of id x in tb2, joins the run c, of ids in tb.           *)
Joins(doc, m, s, tb, tb2, c, x) ==
  /\ m \in Nat /\ s \in 1..m
  /\ c \in Seq(Nat) /\ c = IdsRun(doc, s, m, tb)
  /\ x \in Nat /\ x = tb2[doc[m]].id
  /\ \A j \in s..(m - 1) : tb2[doc[j]].id = tb[doc[j]].id

LEMMA RunGrows ==
  ASSUME NEW doc, NEW m, NEW s, NEW tb, NEW tb2, NEW c, NEW x, Joins(doc, m, s, tb, tb2, c, x)
  PROVE  Append(c, x) = IdsRun(doc, s, m + 1, tb2)
<1>0. /\ m \in Nat /\ s \in 1..m
      /\ c \in Seq(Nat) /\ c = IdsRun(doc, s, m, tb)
      /\ x \in Nat /\ x = tb2[doc[m]].id
      /\ \A j \in s..(m - 1) : tb2[doc[j]].id = tb[doc[j]].id
  BY DEF Joins
<1> DEFINE n == m - s
           e == Append(c, x)
           g == IdsRun(doc, s, m + 1, tb2)
<1>1. n \in Nat /\ m + 1 - s = n + 1 /\ s + (n + 1) - 1 = m
  BY <1>0
<1>2. DOMAIN c = 1..n /\ \A k \in 1..n : c[k] = tb[doc[s + k - 1]].id
  BY <1>0 DEF IdsRun
<1>3. /\ e \in Seq(Nat) /\ Len(e) = Len(c) + 1 /\ Len(c) \in Nat /\ DOMAIN c = 1..Len(c)
      /\ \A i \in 1..Len(c) : e[i] = c[i]
      /\ e[Len(c) + 1] = x
  BY <1>0, AppendIs
<1> HIDE DEF n, e
<1>4. Len(c) = n
  BY <1>1, <1>2, <1>3
<1>5. DOMAIN g = 1..(n + 1) /\ \A k \in 1..(n + 1) : g[k] = tb2[doc[s + k - 1]].id
  BY <1>0, <1>1 DEF IdsRun
<1>6. g = [k \in 1..(n + 1) |-> g[k]]
  BY <1>0, <1>1 DEF IdsRun
<1> HIDE DEF g
<1>7. \A k \in 1..n : s + k - 1 \in s..(m - 1)
  BY <1>0 DEF n
<1>8. ASSUME NEW k \in 1..(n + 1) PROVE e[k] = g[k]
  <2>1. CASE k = n + 1
    BY <1>0, <1>1, <1>3, <1>4, <1>5, <2>1
  <2>2. CASE k # n + 1
    <3>1. k \in 1..n
      BY <1>1, <2>2
    <3>2. e[k] = c[k] /\ c[k] = tb[doc[s + k - 1]].id
      BY <1>2, <1>3, <1>4, <3>1
    <3>3. tb2[doc[s + k - 1]].id = tb[doc[s + k - 1]].id
      BY <1>0, <1>7, <3>1
    <3> QED
      BY <1>5, <1>8, <3>2, <3>3
  <2> QED
    BY <2>1, <2>2
<1>9. e = [k \in 1..(n + 1) |-> e[k]]
  BY <1>3, <1>4
<1>10. e = g
  BY <1>8, <1>6, <1>9
<1> QED
  BY <1>10 DEF e, g

LEMMA RunOpens ==
  ASSUME NEW doc, NEW m \in Nat, NEW tb, tb[doc[m]].id \in Nat
  PROVE  Append(<<>>, tb[doc[m]].id) = IdsRun(doc, m, m + 1, tb)
<1>1. m + 1 - m = 1 /\ m + 1 - 1 = m
  OBVIOUS
<1>2. IdsRun(doc, m, m + 1, tb) = [k \in 1..1 |-> tb[doc[m + k - 1]].id]
  BY <1>1 DEF IdsRun
<1>3. [k \in 1..1 |-> tb[doc[m + k - 1]].id] = [k \in 1..1 |-> tb[doc[m]].id]
  BY <1>1
<1> QED
  BY <1>2, <1>3

LEMMA ReadWordStep ==
  ASSUME ConvInv, ReadWord
  PROVE  ConvInv'
<1> DEFINE w == Doc[t]
           tb == UpdateWord(w)
<1>1. /\ InText /\ pc = "read" /\ t <= Len(Doc) /\ w # Junk /\ table' = tb
      /\ ids' = Append(ids, table'[w].id) /\ empty' = FALSE /\ t' = t + 1
      /\ UNCHANGED <<listVars, docsOf, inZip, d, corpus, total_count, pc>>
  BY DEF ReadWord, InDoc, InDocs, Opened, InText
<1>2. /\ Doc \in Seq(Word \cup {Junk}) /\ Len(Doc) \in Nat /\ t \in Nat /\ t \in 1..(Len(Doc) + 1)
      /\ EndedRuns = RunsBy(Doc, t - 1)
  BY <1>1, TextIs
<1>3. /\ InText' = InText /\ ZipFile' = ZipFile /\ CurrentFile' = CurrentFile
      /\ Doc' = Doc /\ FilesDone' = FilesDone /\ DocsDone' = DocsDone
      /\ PhrasesOf(FilesDone)' = PhrasesOf(FilesDone)
      /\ MatchingFiles' = MatchingFiles /\ WalkInv' = WalkInv
  BY <1>1, SameText
<1>4. /\ DOMAIN tb = DOMAIN table \cup {w} /\ IsFiniteSet(DOMAIN tb)
      /\ tb \in [DOMAIN tb -> [id : Nat, weight : Nat]]
      /\ \A v \in DOMAIN table : tb[v].id = table[v].id
      /\ tb[w].id \in Nat
      /\ {tb[v].id : v \in DOMAIN tb} = 1..Cardinality(DOMAIN tb)
  BY WordIsKept
<1> HIDE DEF tb, w
<1>5. EndedRuns' = EndedRuns
  <2>1. RunsBy(Doc, t) = RunsBy(Doc, t - 1)
    <3>1. t \in 1..Len(Doc)
      BY <1>1, <1>2
    <3> QED
      BY <1>1, <1>2, <3>1, WordEndsNoRun DEF w
  <2>2. EndedRuns' = RunsBy(Doc', t' - 1) /\ t' - 1 = t
    BY <1>1, <1>2, <1>3 DEF EndedRuns, RunsBy, RunStarts
  <2> QED
    BY <1>2, <1>3, <2>1, <2>2
<1>6. Written' = Written
  BY <1>1, <1>3, <1>5 DEF Written
<1>7. WrittenOK'
  BY <1>1, <1>4, <1>6, StaysWritten DEF ConvInv
<1>8. PlaceOK'
  <2>1. t' <= Len(Doc') + 1
    BY <1>1, <1>2, <1>3
  <2> QED
    BY <1>1, <1>3, <2>1 DEF ConvInv, PlaceOK
<1>9. RunOK'
  <2>1. t' # 1 /\ t' - 1 = t /\ t \in 1..t
    BY <1>1, <1>2
  <2>2. Doc'[t] # Junk /\ Doc'[t] \in DOMAIN table'
    BY <1>1, <1>3, <1>4 DEF w
  <2>3. \A j \in 1..t : Doc'[j] # Junk => Doc'[j] \in DOMAIN table'
    <3>1. \A j \in 1..t : j = t \/ j \in 1..(t - 1)
      BY <1>2
    <3> QED
      BY <1>1, <1>3, <1>4, <2>2, <3>1 DEF ConvInv, RunOK
  <2>4. \E s \in 1..t : OpenAt(Doc, t + 1, s) /\ ids' = IdsRun(Doc, s, t + 1, table')
    <3>1. ids \in Seq(Nat) /\ table'[Doc[t]].id \in Nat /\ ids' = Append(ids, table'[Doc[t]].id)
      BY <1>1, <1>4 DEF ConvInv, ConvTypes, w
    <3>2. CASE ids = <<>> /\ (t = 1 \/ Doc[t - 1] = Junk)
      <4>2. t \in 1..t
        BY <1>2
      <4>3. ids' = IdsRun(Doc, t, t + 1, table')
        BY <1>2, <3>1, <3>2, RunOpens
      <4>4. OpenAt(Doc, t + 1, t)
        <5>1. t \in 1..(t + 1 - 1) /\ \A j \in t..(t + 1 - 1) : j = t
          BY <1>2
        <5> QED
          BY <1>1, <3>2, <5>1 DEF OpenAt, w
      <4> QED
        BY <4>2, <4>3, <4>4
    <3>3. CASE \E s \in 1..(t - 1) :
                 OpenAt(Doc, t, s) /\ ids = [k \in 1..(t - s) |-> table[Doc[s + k - 1]].id]
      <4>1. PICK s \in 1..(t - 1) : OpenAt(Doc, t, s) /\ ids = IdsRun(Doc, s, t, table)
        BY <3>3 DEF IdsRun
      <4>2. s \in 1..t /\ s \in Nat
        BY <1>2
      <4>3. \A j \in s..(t - 1) : j \in 1..(t - 1) /\ Doc[j] # Junk
        BY <1>2, <4>1 DEF OpenAt
      <4>4. \A j \in s..(t - 1) : table'[Doc[j]].id = table[Doc[j]].id
        BY <1>1, <1>4, <4>3 DEF ConvInv, RunOK
      <4> DEFINE x == table'[Doc[t]].id
                 tb2 == table'
                 doc == Doc
      <4>9. ids' = Append(ids, x)
        BY <3>1
      <4>7. Joins(doc, t, s, table, tb2, ids, x)
        BY <1>2, <3>1, <4>1, <4>2, <4>4 DEF Joins
      <4> HIDE DEF x, tb2, doc
      <4>10. Append(ids, x) = IdsRun(doc, s, t + 1, tb2)
        BY <4>7, RunGrows
      <4>5. ids' = IdsRun(Doc, s, t + 1, table')
        BY <4>9, <4>10 DEF tb2, doc
      <4>6. OpenAt(Doc, t + 1, s)
        <5>1. t + 1 - 1 = t /\ s \in 1..t /\ \A j \in s..t : j = t \/ j \in s..(t - 1)
          BY <1>2, <4>2
        <5>2. Doc[t] # Junk
          BY <1>1 DEF w
        <5>3. \A j \in s..t : Doc[j] # Junk
          BY <4>3, <5>1, <5>2
        <5>4. s = 1 \/ Doc[s - 1] = Junk
          BY <4>1 DEF OpenAt
        <5> QED
          BY <1>2, <4>2, <5>1, <5>3, <5>4 DEF OpenAt
      <4> QED
        BY <4>2, <4>5, <4>6
    <3> QED
      BY <1>1, <3>2, <3>3 DEF ConvInv, RunOK
  <2>5. \E s \in 1..(t' - 1) : OpenAt(Doc', t', s)
           /\ ids' = [k \in 1..(t' - s) |-> table'[Doc'[s + k - 1]].id]
    BY <1>1, <1>3, <2>1, <2>4 DEF IdsRun
  <2>6. empty' <=> \A j \in 1..(t' - 1) : Doc'[j] = Junk
    BY <1>1, <2>1, <2>2
  <2>7. \A j \in 1..(t' - 1) : Doc'[j] # Junk => Doc'[j] \in DOMAIN table'
    BY <2>1, <2>3
  <2> QED
    BY <2>1, <2>5, <2>6, <2>7 DEF RunOK, OpenAt
<1>10. ids' \in Seq(Nat)
  BY <1>1, <1>4 DEF ConvInv, ConvTypes
<1>11. ConvTypes'
  <2>1. IsFiniteSet(DOMAIN table') /\ table' \in [DOMAIN table' -> [id : Nat, weight : Nat]]
    BY <1>1, <1>4
  <2>4. t' \in Nat \ {0}
    BY <1>1, <1>2
  <2>2. t' \in Nat \ {0} /\ empty' \in BOOLEAN
    BY <1>1, <2>4
  <2>3. called' = called /\ docsOf' = docsOf /\ inZip' = inZip /\ d' = d /\ corpus' = corpus
        /\ total_count' = total_count /\ pc' = pc
    BY <1>1 DEF listVars
  <2> QED
    BY <1>3, <1>10, <2>1, <2>2, <2>3 DEF ConvInv, ConvTypes
<1>12. IdsDense' /\ TotalCountsDocuments'
  BY <1>1, <1>4 DEF ConvInv, IdsDense, TotalCountsDocuments
<1> QED
  BY <1>3, <1>7, <1>8, <1>9, <1>11, <1>12 DEF ConvInv

LEMMA ReadJunkStep ==
  ASSUME ConvInv, ReadJunk
  PROVE  ConvInv'
<1>1. /\ InText /\ pc = "read" /\ t <= Len(Doc) /\ Doc[t] = Junk
      /\ corpus' = WithPhrase /\ ids' = <<>> /\ t' = t + 1
      /\ UNCHANGED <<listVars, docsOf, inZip, d, table, empty, total_count, pc>>
  BY DEF ReadJunk, InDoc, InDocs, Opened, InText
<1>2. /\ Doc \in Seq(Word \cup {Junk}) /\ Len(Doc) \in Nat /\ t \in Nat /\ t \in 1..(Len(Doc) + 1)
      /\ Written = PhrasesOf(FilesDone) \cup DocsDone \cup {<<CurrentFile, d, i>> : i \in EndedRuns}
  BY <1>1, TextIs
<1>3. /\ InText' = InText /\ ZipFile' = ZipFile /\ CurrentFile' = CurrentFile
      /\ Doc' = Doc /\ FilesDone' = FilesDone /\ DocsDone' = DocsDone
      /\ PhrasesOf(FilesDone)' = PhrasesOf(FilesDone)
      /\ MatchingFiles' = MatchingFiles /\ WalkInv' = WalkInv
  BY <1>1, SameText
<1>4. /\ IsFiniteSet(WrittenBy(t)) /\ WrittenBy(t) \subseteq Triples
      /\ KnownWords(WrittenBy(t), table)
      /\ HoldsAs(WithPhrase, WrittenBy(t), IdsAre(WrittenBy(t)))
      /\ WithPhrase \in Seq(Seq(Nat))
      /\ Cardinality(Empties(WithPhrase)) = total_count
  BY <1>1, RunIsWritten DEF Stops
<1>5. Written' = WrittenBy(t)
  <2>1. EndedRuns' = RunsBy(Doc', t' - 1) /\ t' - 1 = t
    BY <1>1, <1>2, <1>3 DEF EndedRuns, RunsBy, RunStarts
  <2>2. inZip'
    BY <1>1 DEF InText
  <2> QED
    BY <1>1, <1>3, <2>1, <2>2 DEF Written, WrittenBy
<1>6. WrittenOK'
  BY <1>1, <1>4, <1>5, NewWritten
<1>7. PlaceOK'
  <2>1. t' <= Len(Doc') + 1
    BY <1>1, <1>2, <1>3
  <2> QED
    BY <1>1, <1>3, <2>1 DEF ConvInv, PlaceOK
<1>8. RunOK'
  <2>1. t' # 1 /\ t' - 1 = t /\ \A j \in 1..t : j = t \/ j \in 1..(t - 1)
    BY <1>1, <1>2
  <2>2. 1..(t - 1) \subseteq 1..t
    BY <1>2
  <2>3. Doc' = Doc /\ table' = table /\ empty' = empty /\ Doc[t] = Junk /\ ids' = <<>>
    BY <1>1, <1>3
  <2>4. /\ empty <=> \A j \in 1..(t - 1) : Doc[j] = Junk
        /\ \A j \in 1..(t - 1) : Doc[j] # Junk => Doc[j] \in DOMAIN table
    BY <1>1 DEF ConvInv, RunOK
  <2>5. /\ empty <=> \A j \in 1..t : Doc[j] = Junk
        /\ \A j \in 1..t : Doc[j] # Junk => Doc[j] \in DOMAIN table
    BY <2>1, <2>2, <2>3, <2>4
  <2> QED
    BY <2>1, <2>3, <2>5 DEF RunOK
<1>9. ConvTypes'
  BY <1>1, <1>2, <1>3, <1>4 DEF ConvInv, ConvTypes, listVars
<1>10. IdsDense' /\ TotalCountsDocuments'
  BY <1>1, <1>4 DEF ConvInv, IdsDense, TotalCountsDocuments, Empties
<1> QED
  BY <1>3, <1>6, <1>7, <1>8, <1>9, <1>10 DEF ConvInv

(* Steps of the one who reads the zip file, to another document of it.     *)
LEMMA SameZip ==
  ASSUME UNCHANGED <<listVars, docsOf>>
  PROVE  /\ CurrentFile' = CurrentFile /\ ZipFile' = ZipFile
         /\ MatchingFiles' = MatchingFiles /\ CalledFiles' = CalledFiles
         /\ WalkInv' = WalkInv /\ Returned' = Returned
         /\ PhrasesOf(CalledFiles)' = PhrasesOf(CalledFiles)
         /\ PhrasesOf(CalledFiles \ {CurrentFile})' = PhrasesOf(CalledFiles \ {CurrentFile})
<1>1. UNCHANGED <<tree, from, limit, at, depth, counter, called>> /\ docsOf' = docsOf
  BY DEF listVars
<1>2. MatchingFiles' = MatchingFiles /\ CalledFiles' = CalledFiles
  BY <1>1 DEF MatchingFiles, CalledFiles
<1>3. CurrentFile' = CurrentFile /\ ZipFile' = ZipFile
  BY <1>1 DEF CurrentFile, ZipFile
<1>4. WalkInv' = WalkInv
  BY <1>1, <1>2 DEF WalkInv, WalkTypes, WalkDepth, WalkCount, WalkCalls, FilesBelow, Beyond, Window, FileNumber
<1>5. PhrasesOf(CalledFiles)' = PhrasesOf(CalledFiles)
  BY <1>1, <1>2 DEF PhrasesOf, DocsRead
<1>6. PhrasesOf(CalledFiles \ {CurrentFile})' = PhrasesOf(CalledFiles \ {CurrentFile})
  BY <1>1, <1>2, <1>3 DEF PhrasesOf, DocsRead
<1> QED
  BY <1>1, <1>2, <1>3, <1>4, <1>5, <1>6 DEF Returned

(* The phrases of a document and the place behind it.                      *)
WithDocument ==
  PhrasesOf(FilesDone) \cup DocsDone \cup {<<CurrentFile, d, i>> : i \in PhraseStarts(Doc)}

LEMMA DocumentIsWritten ==
  ASSUME ConvInv, InText, t = Len(Doc) + 1
  PROVE  LET c == IF empty THEN WithPhrase ELSE Append(WithPhrase, <<>>)
         IN  /\ IsFiniteSet(WithDocument) /\ WithDocument \subseteq Triples
             /\ KnownWords(WithDocument, table)
             /\ HoldsAs(c, WithDocument, IdsAre(WithDocument))
             /\ c \in Seq(Seq(Nat))
             /\ Cardinality(Empties(c)) = IF empty THEN total_count ELSE total_count + 1
<1> DEFINE f == CurrentFile
           n == Len(Doc)
           c == WithPhrase
<1>1. /\ f \in Nat /\ d \in Nat /\ Doc = docsOf[f][d] /\ Doc \in Seq(Word \cup {Junk}) /\ n \in Nat
      /\ t = n + 1
  BY TextIs
<1>2. /\ IsFiniteSet(WrittenBy(t)) /\ WrittenBy(t) \subseteq Triples
      /\ KnownWords(WrittenBy(t), table)
      /\ HoldsAs(c, WrittenBy(t), IdsAre(WrittenBy(t)))
      /\ c \in Seq(Seq(Nat))
      /\ Cardinality(Empties(c)) = total_count
  BY RunIsWritten DEF Stops
<1>3. /\ RunsBy(Doc, t) = RunStarts(Doc)
      /\ RunStarts(Doc) = {} <=> \A j \in 1..n : Doc[j] = Junk
      /\ RunFrom(Doc, n + 1) = <<>>
      /\ RunStarts(Doc) \subseteq 1..n
  BY <1>1, AllRunsEnd
<1>4. empty <=> RunStarts(Doc) = {}
  <2>1. t - 1 = n
    BY <1>1
  <2> QED
    BY <1>3, <2>1 DEF ConvInv, RunOK
<1>5. CASE empty
  <2>1. PhraseStarts(Doc) = RunStarts(Doc)
    BY <1>4, <1>5 DEF PhraseStarts
  <2>2. WithDocument = WrittenBy(t)
    BY <1>3, <2>1 DEF WithDocument, WrittenBy
  <2> QED
    BY <1>2, <1>5, <2>2
<1>6. CASE ~empty
  <2> DEFINE p == <<f, d, n + 1>>
             S == WrittenBy(t)
             X == Seq(Nat)
  <2>1. PhraseStarts(Doc) = RunStarts(Doc) \cup {n + 1}
    BY <1>4, <1>6 DEF PhraseStarts
  <2>2. WithDocument = S \cup {p}
    BY <1>3, <2>1 DEF WithDocument, WrittenBy
  <2>3. p \in Triples /\ p[1] = f /\ p[2] = d /\ p[3] = n + 1
    BY <1>1 DEF Triples
  <2>4. \A q \in S : Ahead(q, p)
    <3>1. n + 1 \in Nat /\ \A j \in RunStarts(Doc) : j < n + 1
      BY <1>1, <1>3
    <3>2. \A q \in PhrasesOf(FilesDone) \cup DocsDone \cup {<<f, d, j>> : j \in RunStarts(Doc)} :
            Ahead(q, <<f, d, n + 1>>)
      BY <3>1, WrittenAhead
    <3> QED
      BY <1>3, <3>2 DEF WrittenBy
  <2>5. RunFrom(docsOf[p[1]][p[2]], p[3]) = <<>>
    BY <1>1, <1>3, <2>3
  <2> HIDE DEF p
  <2>6. IdsOf(p) = <<>>
    BY <2>5 DEF IdsOf
  <2>7. KnownWords(S \cup {p}, table)
    <3>1. \A k \in DOMAIN RunFrom(docsOf[p[1]][p[2]], p[3]) : FALSE
      BY <2>5
    <3> HIDE DEF S
    <3>2. KnownWords(S, table)
      BY <1>2 DEF S
    <3> QED
      BY <3>1, <3>2 DEF KnownWords
  <2> DEFINE I == IdsAre(S)
             J == IdsAre(S \cup {p})
  <2>8. J[p] = <<>> /\ \A q \in S : J[q] = I[q]
    BY <2>6 DEF IdsAre
  <2>9. c \in Seq(X) /\ <<>> \in X
    BY <1>2
  <2>10. HoldsAs(c, S, I)
    BY <1>2
  <2>11. IsFiniteSet(S) /\ S \subseteq Triples
    BY <1>2
  <2>12. Append(c, <<>>) \in Seq(Seq(Nat))
    BY <2>9
  <2> HIDE DEF I, J, X, S, c
  <2>13. HoldsAs(Append(c, <<>>), S \cup {p}, J)
    BY <2>3, <2>4, <2>8, <2>9, <2>10, <2>11, HoldsNext
  <2>14. IsFiniteSet(S \cup {p}) /\ S \cup {p} \subseteq Triples
    BY <2>3, <2>4, <2>11, NextPlace
  <2>15. Cardinality(Empties(Append(c, <<>>))) = Cardinality(Empties(c)) + 1
    BY <2>9, EmptiesNext
  <2>16. Cardinality(Empties(Append(c, <<>>))) = total_count + 1
    BY <1>2, <2>15
  <2> QED
    BY <1>6, <2>2, <2>7, <2>12, <2>13, <2>14, <2>16 DEF J, c
<1> QED
  BY <1>5, <1>6

LEMMA EndDocumentStep ==
  ASSUME ConvInv, EndDocument
  PROVE  ConvInv'
<1> DEFINE f == CurrentFile
           c == IF empty THEN WithPhrase ELSE Append(WithPhrase, <<>>)
<1>1. /\ InText /\ pc = "read" /\ inZip /\ Doc # <<>> /\ t > Len(Doc)
      /\ corpus' = c /\ total_count' = IF empty THEN total_count ELSE total_count + 1
      /\ ids' = <<>> /\ empty' = TRUE /\ d' = d + 1 /\ t' = 1
      /\ UNCHANGED <<listVars, docsOf, inZip, table, pc>>
  BY DEF EndDocument, InDocs, Opened, InText
<1>2. /\ Doc \in Seq(Word \cup {Junk}) /\ Len(Doc) \in Nat /\ t \in 1..(Len(Doc) + 1) /\ d \in Nat
      /\ d \in 1..Len(ZipFile) /\ FilesDone = CalledFiles \ {f}
  BY <1>1, TextIs
<1>3. t = Len(Doc) + 1
  BY <1>1, <1>2
<1>4. /\ IsFiniteSet(WithDocument) /\ WithDocument \subseteq Triples
      /\ KnownWords(WithDocument, table)
      /\ HoldsAs(c, WithDocument, IdsAre(WithDocument))
      /\ c \in Seq(Seq(Nat))
      /\ Cardinality(Empties(c)) = IF empty THEN total_count ELSE total_count + 1
  BY <1>1, <1>3, DocumentIsWritten
<1> HIDE DEF c
<1>5. /\ CurrentFile' = CurrentFile /\ ZipFile' = ZipFile
      /\ MatchingFiles' = MatchingFiles /\ CalledFiles' = CalledFiles
      /\ WalkInv' = WalkInv
      /\ PhrasesOf(CalledFiles \ {CurrentFile})' = PhrasesOf(CalledFiles \ {CurrentFile})
  BY <1>1, SameZip
<1>6. ZipFile # Unreadable /\ ZipFile \in Seq(Seq(Word \cup {Junk})) /\ Len(ZipFile) \in Nat
      /\ \A k \in 1..Len(ZipFile) : ZipFile[k] \in Seq(Word \cup {Junk})
  BY <1>1, ZipIs DEF InText
<1>7. InText' => /\ Doc' \in Seq(Word \cup {Junk}) /\ Len(Doc') \in Nat /\ EndedRuns' = {}
  <2> SUFFICES ASSUME InText'
               PROVE  Doc' \in Seq(Word \cup {Junk}) /\ Len(Doc') \in Nat /\ EndedRuns' = {}
    OBVIOUS
  <2>1. d + 1 <= Len(ZipFile) /\ Doc' = ZipFile[d + 1]
    BY <1>1, <1>5 DEF InText, Doc
  <2>2. d + 1 \in 1..Len(ZipFile)
    BY <1>2, <1>6, <2>1
  <2>3. Doc' \in Seq(Word \cup {Junk})
    BY <1>6, <2>1, <2>2
  <2>4. Len(Doc') \in Nat
    BY <2>3
  <2>5. RunsBy(Doc', 0) = {}
    BY <2>3, NoRunsYet
  <2>6. EndedRuns' = RunsBy(Doc', t' - 1) /\ t' - 1 = 0
    BY <1>1 DEF EndedRuns, RunsBy, RunStarts
  <2> QED
    BY <2>3, <2>4, <2>5, <2>6
<1>8. EndedRuns' = {}
  BY <1>7 DEF EndedRuns
<1>9. DocsDone' = DocsDone \cup {<<f, d, i>> : i \in PhraseStarts(Doc)}
  <2> DEFINE P(k) == {<<f, k, i>> : i \in PhraseStarts(ZipFile[k])}
  <2>1. DocsDone' = UNION {P(k) : k \in 1..d}
    <3>1. d' - 1 = d
      BY <1>1, <1>2
    <3>2. DocsDone' = UNION {{<<CurrentFile', k, i>> : i \in PhraseStarts(ZipFile'[k])} : k \in 1..(d' - 1)}
      BY DEF DocsDone, PhraseStarts, RunStarts
    <3> QED
      BY <1>5, <3>1, <3>2
  <2>2. DocsDone = UNION {P(k) : k \in 1..(d - 1)} /\ P(d) = {<<f, d, i>> : i \in PhraseStarts(Doc)}
    BY DEF DocsDone, Doc
  <2> HIDE DEF P
  <2>3. 1..d = 1..(d - 1) \cup {d}
    BY <1>2
  <2> QED
    BY <2>1, <2>2, <2>3
<1>10. Written' = WithDocument
  <2>1. FilesDone' = (CalledFiles \ {CurrentFile})' /\ FilesDone = CalledFiles \ {CurrentFile}
    BY <1>1 DEF FilesDone
  <2>2. PhrasesOf(FilesDone)' = PhrasesOf(FilesDone)
    <3>1. PhrasesOf(FilesDone)' = PhrasesOf(CalledFiles \ {CurrentFile})'
      BY <2>1 DEF PhrasesOf, DocsRead
    <3> QED
      BY <1>5, <2>1, <3>1
  <2>3. Written' = PhrasesOf(FilesDone)' \cup (DocsDone' \cup {})
    BY <1>1, <1>8 DEF Written
  <2> QED
    BY <1>9, <2>2, <2>3 DEF WithDocument
<1>11. WrittenOK'
  BY <1>1, <1>4, <1>10, NewWritten
<1>12. PlaceOK'
  <2>1. d' <= Len(ZipFile') + 1 /\ d' - 1 = d
    BY <1>1, <1>2, <1>5, <1>6
  <2>2. \A k \in 1..d : ZipFile[k] # <<>>
    <3>1. \A k \in 1..d : k = d \/ k \in 1..(d - 1)
      BY <1>2
    <3>2. \A k \in 1..(d - 1) : ZipFile[k] # <<>>
      BY <1>1, <1>6 DEF ConvInv, PlaceOK
    <3> QED
      BY <1>1, <3>1, <3>2 DEF Doc
  <2>3. InText' => t' <= Len(Doc') + 1
    BY <1>1, <1>7
  <2>4. \A k \in 1..(d' - 1) : ZipFile'[k] # <<>>
    BY <1>5, <2>1, <2>2
  <2> QED
    BY <1>1, <1>5, <1>6, <2>1, <2>3, <2>4 DEF PlaceOK
<1>13. RunOK'
  <2>1. 1..(t' - 1) = {} /\ t' = 1
    BY <1>1
  <2> QED
    BY <1>1, <2>1 DEF RunOK
<1>14. ConvTypes'
  <2>1. total_count' \in Nat /\ d' \in Nat \ {0} /\ t' \in Nat \ {0}
    BY <1>1, <1>2 DEF ConvInv, ConvTypes
  <2>2. ids' \in Seq(Nat) /\ empty' \in BOOLEAN /\ corpus' \in Seq(Seq(Nat))
    BY <1>1, <1>4
  <2>3. called' = called /\ docsOf' = docsOf /\ inZip' = inZip /\ table' = table /\ pc' = pc
    BY <1>1 DEF listVars
  <2> QED
    BY <1>5, <2>1, <2>2, <2>3 DEF ConvInv, ConvTypes
<1>15. IdsDense' /\ TotalCountsDocuments'
  BY <1>1, <1>4 DEF ConvInv, IdsDense, TotalCountsDocuments, Empties
<1> QED
  BY <1>5, <1>11, <1>12, <1>13, <1>14, <1>15 DEF ConvInv

LEMMA CloseZipStep ==
  ASSUME ConvInv, CloseZip
  PROVE  ConvInv'
<1> DEFINE f == CurrentFile
           z == ZipFile
<1>1. /\ pc = "read" /\ inZip /\ ZipFile # Unreadable /\ inZip' = FALSE
      /\ d <= Len(ZipFile) => Doc = <<>>
      /\ UNCHANGED <<listVars, docsOf, d, t, table, ids, empty, corpus, total_count, pc>>
  BY DEF CloseZip, Opened, InDocs, words
<1>2. /\ MatchingFiles' = MatchingFiles /\ WalkInv' = WalkInv
      /\ PhrasesOf(CalledFiles)' = PhrasesOf(CalledFiles)
  BY <1>1, SameZip
<1>3. /\ z = docsOf[f] /\ f \in CalledFiles
      /\ Len(z) \in Nat /\ DOMAIN z = 1..Len(z)
  BY <1>1, ZipIs
<1>4. /\ d \in Nat \ {0} /\ t \in Nat \ {0} /\ d <= Len(z) + 1 /\ \A k \in 1..(d - 1) : z[k] # <<>>
  BY <1>1 DEF ConvInv, ConvTypes, PlaceOK
<1>5. t = 1
  <2>1. CASE InText
    <3>1. t <= Len(Doc) + 1 /\ Doc = <<>>
      BY <1>1, <2>1 DEF InText, ConvInv, PlaceOK
    <3> QED
      BY <1>4, <3>1
  <2>2. CASE ~InText
    BY <2>2 DEF ConvInv, PlaceOK
  <2> QED
    BY <2>1, <2>2
<1>6. EndedRuns = {}
  <2> SUFFICES ASSUME InText PROVE RunsBy(Doc, t - 1) = {}
    BY DEF EndedRuns
  <2>1. Doc \in Seq(Word \cup {Junk}) /\ t - 1 = 0
    BY <1>5, TextIs
  <2> QED
    BY <2>1, NoRunsYet
<1>7. DocsRead(f) = 1..(d - 1)
  <2>1. DocsRead(f) = {k \in 1..Len(z) : \A j \in 1..k : z[j] # <<>>}
    BY <1>1, <1>3 DEF DocsRead
  <2>2. d <= Len(z) => z[d] = <<>>
    BY <1>1 DEF Doc
  <2> HIDE DEF z
  <2>3. ASSUME NEW k \in 1..Len(z), \A j \in 1..k : z[j] # <<>> PROVE k \in 1..(d - 1)
    <3> SUFFICES ASSUME d <= k PROVE FALSE
      BY <1>3, <1>4
    <3>1. d \in 1..k /\ d <= Len(z)
      BY <1>3, <1>4
    <3> QED
      BY <2>2, <2>3, <3>1
  <2>4. ASSUME NEW k \in 1..(d - 1) PROVE k \in 1..Len(z) /\ \A j \in 1..k : z[j] # <<>>
    <3>1. k \in 1..Len(z) /\ \A j \in 1..k : j \in 1..(d - 1)
      BY <1>3, <1>4
    <3> QED
      BY <1>4, <3>1
  <2> QED
    BY <2>1, <2>3, <2>4
<1>8. Written' = Written
  <2> DEFINE P(g) == UNION {{<<g, k, i>> : i \in PhraseStarts(docsOf[g][k])} : k \in DocsRead(g)}
  <2>1. Written' = PhrasesOf(CalledFiles)
    <3>1. Written' = PhrasesOf(CalledFiles)'
      BY <1>1 DEF Written, FilesDone
    <3> QED
      BY <1>2, <3>1
  <2>2. PhrasesOf(CalledFiles) = UNION {P(g) : g \in CalledFiles}
    BY DEF PhrasesOf
  <2>3. PhrasesOf(FilesDone) = UNION {P(g) : g \in CalledFiles \ {f}}
    BY <1>1 DEF PhrasesOf, FilesDone
  <2>4. P(f) = DocsDone
    BY <1>3, <1>7 DEF DocsDone
  <2>5. Written = PhrasesOf(FilesDone) \cup DocsDone
    BY <1>1, <1>6 DEF Written
  <2> HIDE DEF P
  <2>6. CalledFiles = (CalledFiles \ {f}) \cup {f}
    BY <1>3
  <2>7. UNION {P(g) : g \in CalledFiles} = (UNION {P(g) : g \in CalledFiles \ {f}}) \cup P(f)
    BY <2>6
  <2> QED
    BY <2>1, <2>2, <2>3, <2>4, <2>5, <2>7
<1>9. WrittenOK'
  BY <1>1, <1>8, StaysWritten DEF ConvInv
<1>10. PlaceOK' /\ RunOK'
  <2>1. ~InText' /\ t' = 1 /\ ~inZip' /\ pc' # "saved"
    BY <1>1, <1>5 DEF InText
  <2>2. ids' = <<>> /\ empty'
    BY <1>1, <1>5 DEF ConvInv, RunOK
  <2> QED
    BY <2>1, <2>2 DEF PlaceOK, RunOK
<1>11. ConvTypes'
  BY <1>1, <1>2 DEF ConvInv, ConvTypes, listVars
<1>12. IdsDense' /\ TotalCountsDocuments'
  BY <1>1 DEF ConvInv, IdsDense, TotalCountsDocuments
<1> QED
  BY <1>2, <1>9, <1>10, <1>11, <1>12 DEF ConvInv

(* fn throws, the files are saved, or nothing happens any more.            *)
LEMMA StopStep ==
  ASSUME ConvInv, UNCHANGED <<listVars, docsOf, inZip, d, t, words>>,
         pc' \in {"read", "saved", "threw"}, pc' = "saved" => ~inZip /\ Returned
  PROVE  ConvInv'
<1>1. UNCHANGED <<listVars, docsOf, inZip, d, t, table, ids, empty, corpus, total_count>>
  BY DEF words
<1>2. /\ InText' = InText /\ ZipFile' = ZipFile /\ CurrentFile' = CurrentFile
      /\ Doc' = Doc /\ DocsDone' = DocsDone
      /\ PhrasesOf(FilesDone)' = PhrasesOf(FilesDone)
      /\ MatchingFiles' = MatchingFiles /\ WalkInv' = WalkInv /\ Returned' = Returned
  BY <1>1, SameText
<1>3. EndedRuns' = EndedRuns
  BY <1>1, <1>2 DEF EndedRuns, RunsBy, RunStarts
<1>4. Written' = Written
  BY <1>1, <1>2, <1>3 DEF Written
<1>5. WrittenOK'
  BY <1>1, <1>4, StaysWritten DEF ConvInv
<1>6. PlaceOK'
  BY <1>1, <1>2 DEF ConvInv, PlaceOK
<1>7. RunOK'
  BY <1>1, <1>2 DEF ConvInv, RunOK, OpenAt
<1>8. ConvTypes'
  BY <1>1, <1>2 DEF ConvInv, ConvTypes, listVars
<1>9. IdsDense' /\ TotalCountsDocuments'
  BY <1>1 DEF ConvInv, IdsDense, TotalCountsDocuments
<1> QED
  BY <1>2, <1>5, <1>6, <1>7, <1>8, <1>9 DEF ConvInv

LEMMA ConvertStarts ==
  ASSUME CInit
  PROVE  ConvInv
<1>1. /\ ListInit /\ docsOf \in [MatchingFiles -> ZipContents] /\ inZip = FALSE /\ d = 1 /\ t = 1
      /\ table = <<>> /\ ids = <<>> /\ empty = TRUE /\ corpus = <<>> /\ total_count = 0 /\ pc = "read"
  BY DEF CInit
<1>2. WalkInv /\ called = <<>>
  BY <1>1, ListInitInv DEF ListInit
<1>3. DOMAIN table = {} /\ IsFiniteSet(DOMAIN table) /\ Cardinality(DOMAIN table) = 0
  BY <1>1, FS_EmptySet
<1>4. IdsDense
  <2>1. 1..0 = {}
    OBVIOUS
  <2> QED
    BY <1>3, <2>1 DEF IdsDense
<1>5. ConvTypes
  <2>1. table \in [DOMAIN table -> [id : Nat, weight : Nat]]
    BY <1>1, <1>3
  <2>2. ids \in Seq(Nat) /\ corpus \in Seq(Seq(Nat)) /\ total_count \in Nat
    BY <1>1
  <2>3. d \in Nat \ {0} /\ t \in Nat \ {0}
    BY <1>1
  <2>4. inZip \in BOOLEAN /\ empty \in BOOLEAN /\ pc \in {"read", "saved", "threw"} /\ ~inZip
    BY <1>1
  <2> QED
    BY <1>1, <1>3, <2>1, <2>2, <2>3, <2>4 DEF ConvTypes
<1>6. Written = {}
  <2>1. CalledFiles = {}
    BY <1>2 DEF CalledFiles
  <2> QED
    BY <1>1, <2>1 DEF Written, FilesDone, PhrasesOf
<1>7. WrittenOK
  BY <1>1, <1>6, FS_EmptySet DEF WrittenOK, KnownWords, HoldsAs
<1>8. PlaceOK /\ RunOK
  BY <1>1 DEF PlaceOK, RunOK, InText
<1>9. TotalCountsDocuments
  <2>1. {i \in DOMAIN corpus : corpus[i] = <<>>} = {}
    BY <1>1
  <2> QED
    BY <1>1, <2>1, FS_EmptySet DEF TotalCountsDocuments
<1> QED
  BY <1>2, <1>4, <1>5, <1>7, <1>8, <1>9 DEF ConvInv

(* At the end everything read is written, and that is the window.          *)
LEMMA ConvertEnds ==
  ASSUME ConvInv
  PROVE  NothingElseLost
<1> SUFFICES ASSUME pc = "saved" PROVE Holds(PhrasesOf(Window))
  BY DEF NothingElseLost
<1>1. ~inZip /\ Returned
  BY DEF ConvInv, PlaceOK
<1>2. CalledFiles = Window
  BY <1>1, WalkEnds DEF ConvInv, CallsWindow
<1>3. Written = PhrasesOf(Window)
  BY <1>1, <1>2 DEF Written, FilesDone
<1>4. HoldsAs(corpus, Written, IdsAre(Written))
  BY DEF ConvInv, WrittenOK
<1> QED
  BY <1>3, <1>4 DEF HoldsAs, Holds, UpToIn, IdsAre

LEMMA ConvertInduction == ConvInv /\ [CNext]_cvars => ConvInv'
<1> SUFFICES ASSUME ConvInv, [CNext]_cvars PROVE ConvInv'
  OBVIOUS
<1>1. CASE Walk
  BY <1>1, WalkStep
<1>2. CASE OpenZip
  BY <1>2, OpenZipStep
<1>3. CASE ReadWord
  BY <1>3, ReadWordStep
<1>4. CASE ReadJunk
  BY <1>4, ReadJunkStep
<1>5. CASE EndDocument
  BY <1>5, EndDocumentStep
<1>6. CASE CloseZip
  BY <1>6, CloseZipStep
<1>7. CASE ZipThrows
  BY <1>7, StopStep DEF ZipThrows
<1>8. CASE Save
  BY <1>8, StopStep DEF Save
<1>9. CASE UNCHANGED cvars
  <2>1. UNCHANGED <<listVars, docsOf, inZip, d, t, words>> /\ pc' = pc
    BY <1>9 DEF cvars
  <2>2. pc \in {"read", "saved", "threw"} /\ (pc = "saved" => ~inZip /\ Returned)
    BY DEF ConvInv, ConvTypes, PlaceOK
  <2> QED
    BY <2>1, <2>2, StopStep
<1> QED
  BY <1>1, <1>2, <1>3, <1>4, <1>5, <1>6, <1>7, <1>8, <1>9 DEF CNext, CTerminated

(* The invariant of the conversion: the walk, the place in the text, the   *)
(* run that is open and the phrases written so far hang together.          *)
THEOREM ConvertInvariance == CSpec => []ConvInv
<1>1. CInit => ConvInv
  BY ConvertStarts
<1>2. ConvInv /\ [CNext]_cvars => ConvInv'
  BY ConvertInduction
<1> QED
  BY <1>1, <1>2, PTL DEF CSpec

(* listFiles calls fn for the files of the window, in order and each once, *)
(* whatever the tree and wherever the window begins and ends in it.        *)
THEOREM ListFilesCallsWindow == CSpec => []CallsWindow
<1>1. ConvInv => CallsWindow
  BY WalkEnds DEF ConvInv
<1> QED
  BY <1>1, ConvertInvariance, PTL

(* UnigramCounts numbers the words 1, 2, ... without a gap.                *)
THEOREM ConvertIdsDense == CSpec => []IdsDense
<1>1. ConvInv => IdsDense
  BY DEF ConvInv
<1> QED
  BY <1>1, ConvertInvariance, PTL

(* total_count is the number of empty phrases of corpus.bin at all times.  *)
THEOREM ConvertCountsDocuments == CSpec => []TotalCountsDocuments
<1>1. ConvInv => TotalCountsDocuments
  BY DEF ConvInv
<1> QED
  BY <1>1, ConvertInvariance, PTL

(* A corpus that is converted holds the phrases of the documents of the    *)
(* window, each once and in the order of the text, and nothing else.       *)
THEOREM ConvertLosesNothingElse == CSpec => []NothingElseLost
<1>1. ConvInv => NothingElseLost
  BY ConvertEnds
<1> QED
  BY <1>1, ConvertInvariance, PTL

-----------------------------------------------------------------------------
(* Lemmatize                                                               *)
-----------------------------------------------------------------------------
(* The elements of a finite set, numbered in a strict order R of them.     *)
UpTo(S, R, p) == {q \in S : <<p, q>> \notin R}

Orderly(S, R) ==
  /\ \A p \in S : <<p, p>> \notin R
  /\ \A p, q \in S : p # q => <<p, q>> \in R \/ <<q, p>> \in R
  /\ \A p, q, r \in S : <<p, q>> \in R /\ <<q, r>> \in R => <<p, r>> \in R

LEMMA Ranks ==
  ASSUME NEW S, IsFiniteSet(S), NEW R, Orderly(S, R)
  PROVE  /\ Cardinality(S) \in Nat
         /\ \A p \in S : Cardinality(UpTo(S, R, p)) \in 1..Cardinality(S)
         /\ \A p, q \in S : <<p, q>> \in R => Cardinality(UpTo(S, R, p)) < Cardinality(UpTo(S, R, q))
         /\ \A p, q \in S : Cardinality(UpTo(S, R, p)) = Cardinality(UpTo(S, R, q)) => p = q
         /\ \A k \in 1..Cardinality(S) : \E p \in S : Cardinality(UpTo(S, R, p)) = k
<1> DEFINE n == Cardinality(S)
           rank == [p \in S |-> Cardinality(UpTo(S, R, p))]
<1>1. n \in Nat /\ IsFiniteSet(1..n) /\ Cardinality(1..n) = n
  BY FS_CardinalityType, FS_Interval
<1>2. \A p \in S : IsFiniteSet(UpTo(S, R, p)) /\ Cardinality(UpTo(S, R, p)) \in 1..n
  <2> TAKE p \in S
  <2>1. UpTo(S, R, p) \in SUBSET S /\ p \in UpTo(S, R, p)
    BY DEF UpTo, Orderly
  <2>2. /\ IsFiniteSet(UpTo(S, R, p)) /\ Cardinality(UpTo(S, R, p)) <= n
        /\ Cardinality(UpTo(S, R, p)) \in Nat
    BY <2>1, FS_Subset, FS_CardinalityType
  <2>3. Cardinality(UpTo(S, R, p)) # 0
    BY <2>1, <2>2, FS_EmptySet
  <2> QED
    BY <2>2, <2>3, <1>1
<1>3. ASSUME NEW p \in S, NEW q \in S, <<p, q>> \in R
      PROVE  Cardinality(UpTo(S, R, p)) < Cardinality(UpTo(S, R, q))
  <2>1. UpTo(S, R, p) \in SUBSET UpTo(S, R, q)
    <3> SUFFICES ASSUME NEW r \in S, <<p, r>> \notin R PROVE <<q, r>> \notin R
      BY DEF UpTo
    <3> QED
      BY <1>3 DEF Orderly
  <2>2. q \in UpTo(S, R, q) /\ q \notin UpTo(S, R, p)
    BY <1>3 DEF UpTo, Orderly
  <2>3. /\ Cardinality(UpTo(S, R, p)) <= Cardinality(UpTo(S, R, q))
        /\ Cardinality(UpTo(S, R, p)) # Cardinality(UpTo(S, R, q))
    BY <2>1, <2>2, <1>2, FS_Subset
  <2>4. Cardinality(UpTo(S, R, p)) \in Nat /\ Cardinality(UpTo(S, R, q)) \in Nat
    BY <1>1, <1>2
  <2> QED
    BY <2>3, <2>4
<1>4. ASSUME NEW p \in S, NEW q \in S, Cardinality(UpTo(S, R, p)) = Cardinality(UpTo(S, R, q))
      PROVE  p = q
  <2> SUFFICES ASSUME p # q PROVE FALSE
    OBVIOUS
  <2>1. Cardinality(UpTo(S, R, p)) \in Nat /\ Cardinality(UpTo(S, R, q)) \in Nat
    BY <1>1, <1>2
  <2>2. <<p, q>> \in R \/ <<q, p>> \in R
    BY DEF Orderly
  <2>3. \/ Cardinality(UpTo(S, R, p)) < Cardinality(UpTo(S, R, q))
        \/ Cardinality(UpTo(S, R, q)) < Cardinality(UpTo(S, R, p))
    BY <1>3, <2>2
  <2> QED
    BY <1>4, <2>1, <2>3
<1>5. rank \in Injection(S, 1..n)
  <2>1. rank \in [S -> 1..n]
    BY <1>2
  <2>2. \A p, q \in S : rank[p] = rank[q] => p = q
    BY <1>4
  <2> QED
    BY <2>1, <2>2, Zenon DEF Injection, IsInjective
<1>6. rank \in Surjection(S, 1..n)
  BY <1>1, <1>5, FS_Injection
<1>7. \A k \in 1..n : \E p \in S : rank[p] = k
  BY <1>6 DEF Surjection
<1> QED
  BY <1>1, <1>2, <1>3, <1>4, <1>7

-----------------------------------------------------------------------------
(* The places of the terms of an image are finitely many, in the strict    *)
(* order of the two loops.                                                 *)
Order == {pr \in (Nat \X Nat) \X (Nat \X Nat) : Earlier(pr[1], pr[2])}

LEMMA EarlierOrders == \A S \in SUBSET (Nat \X Nat) : Orderly(S, Order)
<1> SUFFICES ASSUME NEW S \in SUBSET (Nat \X Nat) PROVE Orderly(S, Order)
  OBVIOUS
<1>1. \A p, q \in S : <<p, q>> \in Order <=> Earlier(p, q)
  BY DEF Order
<1>2. \A p \in S : p = <<p[1], p[2]>> /\ p[1] \in Nat /\ p[2] \in Nat
  OBVIOUS
<1>3. \A p \in S : ~Earlier(p, p)
  BY <1>2 DEF Earlier
<1>4. \A p, q \in S : p # q => Earlier(p, q) \/ Earlier(q, p)
  <2> SUFFICES ASSUME NEW p \in S, NEW q \in S, ~Earlier(p, q), ~Earlier(q, p) PROVE p = q
    OBVIOUS
  <2>1. p[1] = q[1] /\ p[2] = q[2]
    BY <1>2 DEF Earlier
  <2>2. p = <<p[1], p[2]>> /\ q = <<q[1], q[2]>>
    BY <1>2
  <2> QED
    BY <2>1, <2>2
<1>5. \A p, q, r \in S : Earlier(p, q) /\ Earlier(q, r) => Earlier(p, r)
  BY <1>2 DEF Earlier
<1> QED
  BY <1>1, <1>3, <1>4, <1>5 DEF Orderly

LEMMA TermPlacesAre ==
  ASSUME NEW image \in Seq(Seq(Term))
  PROVE  /\ IsFiniteSet(TermPlaces(image)) /\ TermPlaces(image) \in SUBSET (Nat \X Nat)
         /\ \A p : p \in TermPlaces(image) <=>
              \E k \in DOMAIN image : \E j \in DOMAIN image[k] : p = <<k, j>>
<1> DEFINE n == Len(image)
           Row(k) == {k} \X DOMAIN image[k]
           row == [k \in 1..n |-> Row(k)]
           Rows == {Row(k) : k \in 1..n}
<1>1. n \in Nat /\ DOMAIN image = 1..n /\ \A k \in 1..n : image[k] \in Seq(Term)
  BY SeqIs
<1>2. \A k \in 1..n : Len(image[k]) \in Nat /\ DOMAIN image[k] = 1..Len(image[k])
  BY <1>1
<1>3. IsFiniteSet(Rows)
  <2>1. row \in Surjection(1..n, Rows)
    BY DEF Surjection
  <2> QED
    BY <1>1, <2>1, FS_Interval, FS_Surjection
<1>4. \A k \in 1..n : IsFiniteSet(Row(k))
  <2> TAKE k \in 1..n
  <2> DEFINE l == Len(image[k])
  <2>1. l \in Nat /\ DOMAIN image[k] = 1..l
    BY <1>2
  <2>2. IsFiniteSet(DOMAIN image[k])
    <3> HIDE DEF l
    <3> QED
      BY <2>1, FS_Interval
  <2> QED
    BY <2>2, FS_Singleton, FS_Product
<1>5. TermPlaces(image) = UNION Rows
  BY <1>1 DEF TermPlaces
<1>6. IsFiniteSet(UNION Rows)
  BY <1>3, <1>4, FS_UNION
<1>7. \A p : p \in UNION Rows <=> \E k \in 1..n : \E j \in DOMAIN image[k] : p = <<k, j>>
  OBVIOUS
<1>8. TermPlaces(image) \in SUBSET (Nat \X Nat)
  BY <1>1, <1>2, <1>5, <1>7
<1> QED
  BY <1>1, <1>5, <1>6, <1>7, <1>8

-----------------------------------------------------------------------------
(* What try_emplace leaves: the old terms keep their ids, the new ones get *)
(* the next.                                                               *)
Dense(m) ==
  /\ IsFiniteSet(DOMAIN m) /\ m \in [DOMAIN m -> Nat]
  /\ {m[x] : x \in DOMAIN m} = 1..Cardinality(DOMAIN m)

TermAt(image, p) == image[p[1]][p[2]]

LEMMA InsertsAre ==
  ASSUME NEW image \in Seq(Seq(Term))
  PROVE  /\ IsFiniteSet(Inserts(image)) /\ Orderly(Inserts(image), Order)
         /\ \A p, q \in Inserts(image) : Earlier(p, q) <=> <<p, q>> \in Order
         /\ \A p \in Inserts(image) : p \in TermPlaces(image) /\ TermAt(image, p) \notin DOMAIN lemid
         /\ \A p, q \in Inserts(image) : TermAt(image, p) = TermAt(image, q) => p = q
         /\ \A p \in TermPlaces(image) :
              TermAt(image, p) \notin DOMAIN lemid =>
                \E q \in Inserts(image) : TermAt(image, q) = TermAt(image, p)
<1> DEFINE I == Inserts(image)
           P == TermPlaces(image)
           term(p) == TermAt(image, p)
<1>1. IsFiniteSet(P) /\ P \in SUBSET (Nat \X Nat)
  BY TermPlacesAre
<1>2. I = {p \in P : term(p) \notin DOMAIN lemid /\ \A q \in P : Earlier(q, p) => term(q) # term(p)}
  BY DEF Inserts, TermAt
<1> HIDE DEF I, P, term
<1>3. I \in SUBSET P /\ IsFiniteSet(I)
  BY <1>1, <1>2, FS_Subset
<1>4. /\ Orderly(I, Order)
      /\ \A p, q \in P : Earlier(p, q) <=> <<p, q>> \in Order
  <2>1. \A p, q \in P : Earlier(p, q) <=> <<p, q>> \in Order
    BY <1>1 DEF Order
  <2> QED
    BY <1>1, <1>3, <2>1, EarlierOrders
<1>5. ASSUME NEW p \in I, NEW q \in I, term(p) = term(q)
      PROVE  p = q
  <2>1. ~Earlier(p, q) /\ ~Earlier(q, p)
    BY <1>2, <1>3, <1>5
  <2> QED
    BY <1>3, <1>4, <2>1 DEF Orderly
<1>6. ASSUME NEW p \in P, term(p) \notin DOMAIN lemid
      PROVE  \E q \in I : term(q) = term(p)
  <2> DEFINE Same == {q \in P : term(q) = term(p)}
             up(q) == Cardinality(UpTo(Same, Order, q))
  <2>1. Same \in SUBSET P /\ p \in Same
    OBVIOUS
  <2> HIDE DEF Same
  <2>2. IsFiniteSet(Same) /\ Orderly(Same, Order)
    BY <1>1, <2>1, EarlierOrders, FS_Subset
  <2>3. Cardinality(Same) \in Nat /\ Cardinality(Same) # 0
    BY <2>1, <2>2, FS_EmptySet, FS_CardinalityType
  <2>4. /\ \A q \in Same : up(q) \in 1..Cardinality(Same)
        /\ \A r, q \in Same : <<r, q>> \in Order => up(r) < up(q)
        /\ \A k \in 1..Cardinality(Same) : \E q \in Same : up(q) = k
    BY <2>2, Ranks
  <2> HIDE DEF up
  <2>5. PICK q \in Same : up(q) = 1
    BY <2>3, <2>4
  <2>6. \A r \in Same : ~Earlier(r, q)
    <3> SUFFICES ASSUME NEW r \in Same, Earlier(r, q) PROVE FALSE
      OBVIOUS
    <3>1. up(r) < 1 /\ up(r) \in 1..Cardinality(Same)
      BY <1>4, <2>1, <2>4, <2>5
    <3> QED
      BY <2>3, <3>1
  <2>7. q \in P /\ term(q) = term(p) /\ \A r \in P : Earlier(r, q) => term(r) # term(q)
    BY <2>6 DEF Same
  <2> QED
    BY <1>2, <1>6, <2>7
<1> QED
  BY <1>2, <1>3, <1>4, <1>5, <1>6 DEF I, P, term

LEMMA LearntIs ==
  ASSUME NEW image \in Seq(Seq(Term)), Dense(lemid)
  PROVE  /\ Dense(Learnt(image))
         /\ DOMAIN Learnt(image) = DOMAIN lemid \cup {TermAt(image, p) : p \in TermPlaces(image)}
         /\ \A x \in DOMAIN lemid : Learnt(image)[x] = lemid[x]
<1> DEFINE D == DOMAIN lemid
           I == Inserts(image)
           term(p) == TermAt(image, p)
           New == {term(p) : p \in I}
           up(p) == Cardinality(UpTo(I, Order, p))
           L == Learnt(image)
           n == Cardinality(D)
<1>1. IsFiniteSet(D) /\ n \in Nat /\ lemid \in [D -> Nat] /\ {lemid[x] : x \in D} = 1..n
  BY FS_CardinalityType DEF Dense
<1>2. /\ IsFiniteSet(I) /\ Orderly(I, Order)
      /\ \A p, q \in I : Earlier(p, q) <=> <<p, q>> \in Order
      /\ \A p \in I : p \in TermPlaces(image) /\ term(p) \notin D
      /\ \A p, q \in I : term(p) = term(q) => p = q
      /\ \A p \in TermPlaces(image) : term(p) \notin D => \E q \in I : term(q) = term(p)
  BY InsertsAre
<1>3. /\ Cardinality(I) \in Nat
      /\ \A p \in I : up(p) \in 1..Cardinality(I)
      /\ \A k \in 1..Cardinality(I) : \E p \in I : up(p) = k
  BY <1>2, Ranks
<1>4. \A p \in I : {q \in I : ~Earlier(p, q)} = UpTo(I, Order, p)
  BY <1>2 DEF UpTo
<1>5. L = [x \in D \cup New |->
             IF x \in D THEN lemid[x]
             ELSE LET p == CHOOSE q \in I : term(q) = x
                  IN  n + Cardinality({q \in I : ~Earlier(p, q)})]
  BY DEF Learnt, TermAt
<1> HIDE DEF D, I, term, up, L, n
<1>6. DOMAIN L = D \cup New /\ \A x \in D : L[x] = lemid[x]
  BY <1>5
<1>7. ASSUME NEW p \in I PROVE term(p) \in New /\ term(p) \notin D /\ L[term(p)] = n + up(p)
  <2> DEFINE c == CHOOSE q \in I : term(q) = term(p)
  <2>1. c = p
    <3>1. c \in I /\ term(c) = term(p)
      OBVIOUS
    <3> QED
      BY <1>2, <3>1
  <2>2. term(p) \in New /\ term(p) \notin D
    BY <1>2
  <2>3. L[term(p)] = n + Cardinality({q \in I : ~Earlier(c, q)})
    BY <1>5, <2>2
  <2> QED
    BY <1>4, <2>1, <2>2, <2>3 DEF up
<1>8. \A x \in New : \E p \in I : x = term(p)
  OBVIOUS
<1>9. IsFiniteSet(New) /\ Cardinality(New) = Cardinality(I)
  <2> DEFINE f == [p \in I |-> term(p)]
  <2>1. f \in Surjection(I, New)
    BY DEF Surjection
  <2>2. f \in Injection(I, New)
    <3>1. f \in [I -> New] /\ \A p, q \in I : f[p] = f[q] => p = q
      BY <1>2
    <3> HIDE DEF f, New
    <3> QED
      BY <3>1 DEF Injection, IsInjective
  <2> QED
    BY <1>2, <2>1, <2>2, FS_Surjection
<1> HIDE DEF New
<1>10. IsFiniteSet(D \cup New) /\ Cardinality(D \cup New) = n + Cardinality(I)
  <2>1. D \cap New = {}
    BY <1>7, <1>8
  <2>2. /\ IsFiniteSet(D \cup New)
        /\ Cardinality(D \cup New) = Cardinality(D) + Cardinality(New) - Cardinality(D \cap New)
    BY <1>1, <1>9, FS_Union
  <2>3. Cardinality(D \cap New) = 0
    BY <2>1, FS_EmptySet
  <2> QED
    BY <1>1, <1>3, <1>9, <2>2, <2>3 DEF n
<1>11. L \in [D \cup New -> Nat]
  <2>1. \A x \in D \cup New : L[x] \in Nat
    BY <1>1, <1>3, <1>6, <1>7, <1>8
  <2>2. L = [x \in DOMAIN L |-> L[x]]
    BY <1>5
  <2> QED
    BY <1>6, <2>1, <2>2
<1>12. {L[x] : x \in D \cup New} = 1..(n + Cardinality(I))
  <2>1. ASSUME NEW x \in D \cup New PROVE L[x] \in 1..(n + Cardinality(I))
    <3>3. n \in Nat /\ Cardinality(I) \in Nat
      BY <1>1, <1>3
    <3>1. CASE x \in D
      <4>1. L[x] \in 1..n
        BY <1>1, <1>6, <3>1
      <4> QED
        BY <3>3, <4>1
    <3>2. CASE x \in New
      <4>1. PICK p \in I : x = term(p)
        BY <1>8, <3>2
      <4>2. L[x] = n + up(p) /\ up(p) \in 1..Cardinality(I)
        BY <1>3, <1>7, <4>1
      <4> QED
        BY <3>3, <4>2
    <3> QED
      BY <3>1, <3>2
  <2>2. ASSUME NEW k \in 1..(n + Cardinality(I)) PROVE \E x \in D \cup New : L[x] = k
    <3>1. CASE k <= n
      <4>1. k \in {lemid[x] : x \in D}
        BY <1>1, <1>3, <3>1
      <4>2. PICK x \in D : lemid[x] = k
        BY <4>1
      <4> QED
        BY <1>6, <4>2
    <3>2. CASE k > n
      <4>1. k - n \in 1..Cardinality(I)
        BY <1>1, <1>3, <3>2
      <4>2. PICK p \in I : up(p) = k - n
        BY <1>3, <4>1
      <4>3. term(p) \in New /\ L[term(p)] = k
        BY <1>1, <1>7, <4>2
      <4> QED
        BY <4>3
    <3> QED
      BY <1>1, <1>3, <3>1, <3>2
  <2> QED
    BY <2>1, <2>2
<1>13. D \cup New = D \cup {term(p) : p \in TermPlaces(image)}
  BY <1>2 DEF New
<1>14. Dense(L)
  BY <1>6, <1>10, <1>11, <1>12 DEF Dense
<1> QED
  BY <1>6, <1>13, <1>14 DEF L, D, term

-----------------------------------------------------------------------------
Words == 1..Len(terms)

LemTypeOK ==
  /\ terms \in Seq(Seq(Term)) /\ uni \in Orders(Len(terms))
  /\ taken \in 0..Len(terms)
  /\ chunk \in Seq(Words) /\ wordIds = chunk
  /\ lems \in [Words -> Seq(Nat)]
  /\ Dense(lemid)
  /\ phase \in {"read", "saved", "weighed", "threw"}

(* The list l has the ids that lm gives the terms of w.                    *)
HasTerms(l, w, lm) ==
  /\ l = [j \in 1..Len(terms[w]) |-> lm[terms[w][j]]]
  /\ \A j \in 1..Len(terms[w]) : terms[w][j] \in DOMAIN lm

(* The chunk holds the last words taken, those before it have their lists. *)
ChunkOK ==
  /\ Len(chunk) <= taken
  /\ \A k \in 1..Len(chunk) : chunk[k] = uni[taken - Len(chunk) + k]
  /\ IF phase = "read" THEN Len(chunk) = taken % ChunkWords ELSE taken = Len(terms)

ListsOK == \A w \in Words : IF w \in Applied THEN HasTerms(lems[w], w, lemid) ELSE lems[w] = <<>>

FileOK ==
  /\ phase # "read" => lemsFile = Saved(lems)
  /\ phase = "weighed" => Words \subseteq DOMAIN lemsFile

LemInv == LemTypeOK /\ ChunkOK /\ ListsOK /\ FileOK

LEMMA Types ==
  ASSUME LemTypeOK
  PROVE  /\ Len(terms) \in Nat /\ DOMAIN terms = Words
         /\ \A w \in Words : terms[w] \in Seq(Term) /\ Len(terms[w]) \in Nat
                             /\ DOMAIN terms[w] = 1..Len(terms[w])
         /\ uni \in [Words -> Words] /\ Len(uni) = Len(terms) /\ DOMAIN uni = Words
         /\ Len(chunk) \in Nat /\ DOMAIN chunk = 1..Len(chunk)
         /\ \A k \in 1..Len(chunk) : chunk[k] \in Words
         /\ DOMAIN lems = Words
         /\ ChunkWords \in Nat \ {0}
<1>1. terms \in Seq(Seq(Term)) /\ uni \in [Words -> Words]
  BY DEF LemTypeOK, Orders, Words
<1>2. /\ Len(terms) \in Nat /\ DOMAIN terms = Words
      /\ \A w \in Words : terms[w] \in Seq(Term)
  BY <1>1, SeqIs DEF Words
<1>3. \A w \in Words : Len(terms[w]) \in Nat /\ DOMAIN terms[w] = 1..Len(terms[w])
  BY <1>2, SeqIs
<1>4. Len(uni) = Len(terms) /\ DOMAIN uni = Words
  BY <1>1, <1>2, LenIs DEF Words
<1>5. chunk \in Seq(Words) /\ lems \in [Words -> Seq(Nat)]
  BY DEF LemTypeOK
<1>6. Len(chunk) \in Nat /\ DOMAIN chunk = 1..Len(chunk) /\ \A k \in 1..Len(chunk) : chunk[k] \in Words
  BY <1>5, SeqIs
<1> QED
  BY <1>1, <1>2, <1>3, <1>4, <1>5, <1>6, LemmatizeAssumption

LEMMA ImageIs ==
  ASSUME LemTypeOK, NEW c \in Seq(Words)
  PROVE  /\ ImageOf(c) \in Seq(Seq(Term)) /\ DOMAIN ImageOf(c) = DOMAIN c
         /\ DOMAIN c = 1..Len(c) /\ Len(c) \in Nat
         /\ \A k \in DOMAIN c : c[k] \in Words /\ ImageOf(c)[k] = terms[c[k]]
<1>1. Len(c) \in Nat /\ DOMAIN c = 1..Len(c) /\ \A k \in 1..Len(c) : c[k] \in Words
  BY SeqIs
<1>2. \A w \in Words : terms[w] \in Seq(Term)
  BY Types
<1>3. ImageOf(c) \in [1..Len(c) -> Seq(Term)]
  BY <1>1, <1>2 DEF ImageOf
<1> QED
  BY <1>1, <1>3, LenIs DEF ImageOf

(* A chunk gives its words their lists, and leaves those of the others.    *)
LEMMA ApplyIs ==
  ASSUME LemTypeOK, NEW c \in Seq(Words), ApplyChunk(c, c)
  PROVE  /\ Dense(lemid')
         /\ \A x \in DOMAIN lemid : x \in DOMAIN lemid' /\ lemid'[x] = lemid[x]
         /\ lems' \in [Words -> Seq(Nat)]
         /\ \A w \in Words : IF \E k \in DOMAIN c : c[k] = w
                             THEN HasTerms(lems'[w], w, lemid') ELSE lems'[w] = lems[w]
<1> DEFINE image == ImageOf(c)
<1>1. /\ image \in Seq(Seq(Term)) /\ DOMAIN image = DOMAIN c
      /\ \A k \in DOMAIN c : c[k] \in Words /\ image[k] = terms[c[k]]
  BY ImageIs
<1>2. /\ lemid' = Learnt(image)
      /\ lems' = [id \in DOMAIN lems |->
                    IF \E k \in DOMAIN image : c[k] = id
                    THEN LET k == CHOOSE n \in DOMAIN image : c[n] = id
                         IN  [j \in DOMAIN image[k] |-> lemid'[image[k][j]]]
                    ELSE lems[id]]
  BY DEF ApplyChunk
<1> HIDE DEF image
<1>3. /\ Dense(lemid')
      /\ DOMAIN lemid' = DOMAIN lemid \cup {TermAt(image, p) : p \in TermPlaces(image)}
      /\ \A x \in DOMAIN lemid : lemid'[x] = lemid[x]
  BY <1>1, <1>2, LearntIs DEF LemTypeOK
<1>4. /\ DOMAIN lems = Words /\ lems \in [Words -> Seq(Nat)]
      /\ \A w \in Words : Len(terms[w]) \in Nat /\ DOMAIN terms[w] = 1..Len(terms[w])
  BY Types DEF LemTypeOK
<1>5. ASSUME NEW w \in Words, NEW n \in DOMAIN c, c[n] = w
      PROVE  HasTerms(lems'[w], w, lemid') /\ lems'[w] \in Seq(Nat)
  <2> DEFINE k == CHOOSE m \in DOMAIN image : c[m] = w
  <2>1. k \in DOMAIN c /\ c[k] = w
    BY <1>1, <1>5
  <2>2. lems'[w] = [j \in DOMAIN image[k] |-> lemid'[image[k][j]]]
    BY <1>1, <1>2, <1>4, <1>5
  <2> HIDE DEF k
  <2>3. image[k] = terms[w] /\ DOMAIN image[k] = 1..Len(terms[w])
    BY <1>1, <1>4, <2>1
  <2>4. ASSUME NEW j \in 1..Len(terms[w]) PROVE terms[w][j] \in DOMAIN lemid'
    <3>1. <<k, j>> \in TermPlaces(image)
      BY <1>1, <2>1, <2>3, TermPlacesAre
    <3>2. TermAt(image, <<k, j>>) = terms[w][j]
      BY <2>3 DEF TermAt
    <3> QED
      BY <1>3, <3>1, <3>2
  <2>5. lems'[w] = [j \in 1..Len(terms[w]) |-> lemid'[terms[w][j]]]
    BY <2>2, <2>3
  <2>6. lems'[w] \in [1..Len(terms[w]) -> Nat]
    BY <1>3, <2>4, <2>5 DEF Dense
  <2> QED
    BY <1>4, <2>4, <2>5, <2>6, LenIs DEF HasTerms
<1>6. ASSUME NEW w \in Words, ~\E n \in DOMAIN c : c[n] = w
      PROVE  lems'[w] = lems[w]
  BY <1>1, <1>2, <1>4, <1>6
<1>7. lems' \in [Words -> Seq(Nat)]
  <2>1. \A w \in Words : lems'[w] \in Seq(Nat)
    BY <1>4, <1>5, <1>6
  <2>2. lems' = [w \in Words |-> lems'[w]]
    BY <1>2, <1>4
  <2> QED
    BY <2>1, <2>2
<1> QED
  BY <1>3, <1>5, <1>6, <1>7

(* More terms leave the lists of the words before as they were.            *)
LEMMA ListsLast ==
  ASSUME NEW w, NEW l, NEW lm, NEW more, HasTerms(l, w, lm),
         \A x \in DOMAIN lm : x \in DOMAIN more /\ more[x] = lm[x]
  PROVE  HasTerms(l, w, more)
BY DEF HasTerms

(* Every word occurs in uni.bin.                                           *)
LEMMA EveryWordMet ==
  ASSUME LemTypeOK
  PROVE  \A w \in Words : \E i \in Words : uni[i] = w
<1>1. uni \in Injection(Words, Words)
  BY DEF LemTypeOK, Orders, Words, Injection, IsInjective
<1>2. IsFiniteSet(Words)
  BY Types, FS_Interval DEF Words
<1>3. uni \in Surjection(Words, Words)
  BY <1>1, <1>2, FS_Injection
<1> QED
  BY <1>3 DEF Surjection

-----------------------------------------------------------------------------
LEMMA Remainder ==
  ASSUME NEW m \in Nat \ {0}, NEW x \in Nat, NEW k \in Nat, NEW r \in 0..(m - 1), x = m * k + r
  PROVE  x % m = r
OBVIOUS

LEMMA RemainderStep ==
  ASSUME NEW m \in Nat \ {0}, NEW x \in Nat, (x + 1) % m # 0
  PROVE  (x + 1) % m = (x % m) + 1
<1> DEFINE k == x \div m
           r == x % m
<1>1. x = m * k + r /\ r \in 0..(m - 1) /\ k \in Nat
  OBVIOUS
<1> HIDE DEF k, r
<1>2. m * (k + 1) = m * k + m /\ m * k \in Nat
  BY <1>1
<1>3. CASE r = m - 1
  <2>1. x + 1 = m * (k + 1) + 0 /\ k + 1 \in Nat /\ x + 1 \in Nat /\ 0 \in 0..(m - 1)
    BY <1>1, <1>2, <1>3
  <2>2. (x + 1) % m = 0
    BY <2>1, Remainder
  <2> QED
    BY <2>2
<1>4. CASE r # m - 1
  <2>1. x + 1 = m * k + (r + 1) /\ r + 1 \in 0..(m - 1) /\ x + 1 \in Nat
    BY <1>1, <1>2, <1>4
  <2>2. (x + 1) % m = r + 1
    BY <1>1, <2>1, Remainder
  <2> QED
    BY <2>2 DEF r
<1> QED
  BY <1>3, <1>4

(* Of the first m values of f, c holds the last n.                         *)
EndOf(c, n, f, m) == \A k \in 1..n : c[k] = f[m - n + k]

FirstOf(f, m) == {f[i] : i \in 1..m}

LEMMA LastOnes ==
  \A c, f, m, n : m \in Nat /\ n \in Nat /\ n <= m /\ EndOf(c, n, f, m) =>
    FirstOf(f, m) = FirstOf(f, m - n) \cup FirstOf(c, n)
<1> TAKE c, f, m, n
<1> HAVE m \in Nat /\ n \in Nat /\ n <= m /\ EndOf(c, n, f, m)
<1> SUFFICES \A w : (\E i \in 1..m : f[i] = w) <=>
                      (\E i \in 1..(m - n) : f[i] = w) \/ (\E k \in 1..n : c[k] = w)
  <2> DEFINE A == {f[i] : i \in 1..m}
             B == {f[i] : i \in 1..(m - n)}
             C == {c[k] : k \in 1..n}
  <2>1. \A w : /\ w \in A <=> \E i \in 1..m : f[i] = w
               /\ w \in B <=> \E i \in 1..(m - n) : f[i] = w
               /\ w \in C <=> \E k \in 1..n : c[k] = w
    OBVIOUS
  <2>2. FirstOf(f, m) = A /\ FirstOf(f, m - n) = B /\ FirstOf(c, n) = C
    BY DEF FirstOf
  <2> HIDE DEF A, B, C
  <2>3. \A w : w \in A <=> w \in B \/ w \in C
    BY <2>1
  <2>4. A = B \cup C
    BY <2>3
  <2> QED
    BY <2>2, <2>4
<1> TAKE w
<1>1. ASSUME NEW i \in 1..m, f[i] = w, i > m - n PROVE \E k \in 1..n : c[k] = w
  <2> DEFINE k == i - (m - n)
  <2>1. k \in 1..n /\ m - n + k = i
    BY <1>1
  <2> HIDE DEF k
  <2>2. c[k] = w
    BY <1>1, <2>1 DEF EndOf
  <2> QED
    BY <2>1, <2>2
<1>2. ASSUME NEW i \in 1..m, i <= m - n PROVE i \in 1..(m - n)
  BY <1>2
<1>3. ASSUME NEW i \in 1..(m - n) PROVE i \in 1..m
  OBVIOUS
<1>4. ASSUME NEW k \in 1..n PROVE m - n + k \in 1..m /\ c[k] = f[m - n + k]
  BY DEF EndOf
<1>5. (\E i \in 1..m : f[i] = w) => (\E i \in 1..(m - n) : f[i] = w) \/ (\E k \in 1..n : c[k] = w)
  <2> SUFFICES ASSUME NEW i \in 1..m, f[i] = w
               PROVE  (\E j \in 1..(m - n) : f[j] = w) \/ (\E k \in 1..n : c[k] = w)
    OBVIOUS
  <2>1. CASE i > m - n
    BY <1>1, <2>1
  <2>2. CASE i <= m - n
    BY <1>2, <2>2
  <2> QED
    BY <2>1, <2>2
<1>6. (\E i \in 1..(m - n) : f[i] = w) => (\E i \in 1..m : f[i] = w)
  BY <1>3
<1>7. (\E k \in 1..n : c[k] = w) => (\E i \in 1..m : f[i] = w)
  BY <1>4
<1> QED
  BY <1>5, <1>6, <1>7

(* A file without gaps is lems itself; one with gaps is shorter.           *)
LEMMA SavedIs ==
  ASSUME NEW n \in Nat, NEW S, NEW ls \in [1..n -> S]
  PROVE  /\ NonEmpty(ls) = 1..n => Saved(ls) = ls
         /\ 1..n \subseteq DOMAIN Saved(ls) => NonEmpty(ls) = 1..n
<1> DEFINE K == NonEmpty(ls)
<1>1. K \in SUBSET (1..n)
  BY DEF NonEmpty
<1>2. IsFiniteSet(1..n) /\ Cardinality(1..n) = n
  BY FS_Interval
<1>3. IsFiniteSet(K) /\ Cardinality(K) \in Nat
  BY <1>1, <1>2, FS_Subset, FS_CardinalityType
<1>4. DOMAIN Saved(ls) = 1..Cardinality(K)
  BY DEF Saved
<1> HIDE DEF K
<1>5. ASSUME K = 1..n PROVE Saved(ls) = ls
  <2>1. Cardinality(K) = n
    BY <1>2, <1>5
  <2>2. Saved(ls) = [k \in 1..n |-> ls[CHOOSE id \in K : Cardinality({i \in K : i <= id}) = k]]
    BY <2>1 DEF Saved, K
  <2>3. ASSUME NEW k \in 1..n
        PROVE  (CHOOSE id \in K : Cardinality({i \in K : i <= id}) = k) = k
    <3>1. \A id \in K : Cardinality({i \in K : i <= id}) = id
      <4> TAKE id \in K
      <4>1. {i \in K : i <= id} = 1..id
        BY <1>5
      <4>2. id \in Nat /\ id >= 1
        BY <1>5
      <4>3. Cardinality(1..id) = id
        BY <4>2, FS_Interval
      <4> QED
        BY <4>1, <4>3
    <3> QED
      BY <1>5, <3>1
  <2>4. \A k \in 1..n : Saved(ls)[k] = ls[k]
    BY <2>2, <2>3
  <2>5. Saved(ls) = [k \in 1..n |-> Saved(ls)[k]]
    BY <2>2
  <2> QED
    BY <2>4, <2>5
<1>6. ASSUME 1..n \subseteq DOMAIN Saved(ls) PROVE K = 1..n
  <2>1. n <= Cardinality(K)
    <3> DEFINE m == Cardinality(K)
    <3>1. m \in Nat /\ 1..n \subseteq 1..m
      BY <1>3, <1>4, <1>6
    <3> HIDE DEF m
    <3>2. n <= m
      BY <3>1
    <3> QED
      BY <3>2 DEF m
  <2>2. Cardinality(K) <= Cardinality(1..n)
    BY <1>1, <1>2, FS_Subset
  <2>3. Cardinality(K) = Cardinality(1..n)
    BY <1>2, <1>3, <2>1, <2>2
  <2> QED
    BY <1>1, <1>2, <2>3, FS_Subset
<1> QED
  BY <1>5, <1>6 DEF K

-----------------------------------------------------------------------------
LEMMA LemmatizeStarts == LemInit => LemInv
<1> SUFFICES ASSUME LemInit PROVE LemInv
  OBVIOUS
<1>1. /\ terms \in Seq(Seq(Term)) /\ uni \in Orders(Len(terms)) /\ taken = 0
      /\ chunk = <<>> /\ wordIds = <<>> /\ lems = [id \in Words |-> <<>>]
      /\ lemid = <<>> /\ phase = "read" /\ Len(terms) \in Nat
  BY LemmatizeAssumption DEF LemInit, Words
<1>2. Dense(lemid)
  <2>1. DOMAIN lemid = {} /\ lemid \in [{} -> Nat] /\ {lemid[x] : x \in {}} = {}
    BY <1>1
  <2>2. IsFiniteSet({}) /\ Cardinality({}) = 0 /\ 1..0 = {}
    BY FS_EmptySet
  <2> QED
    BY <2>1, <2>2 DEF Dense
<1>3. LemTypeOK
  BY <1>1, <1>2 DEF LemTypeOK
<1>4. ChunkOK
  <2>1. Len(chunk) = 0 /\ 0 % ChunkWords = 0
    BY <1>1, LemmatizeAssumption
  <2> QED
    BY <1>1, <2>1 DEF ChunkOK
<1>5. Applied = {}
  BY <1>1 DEF Applied
<1>6. ListsOK
  BY <1>1, <1>5 DEF ListsOK
<1>7. FileOK
  BY <1>1 DEF FileOK
<1> QED
  BY <1>3, <1>4, <1>6, <1>7 DEF LemInv

LEMMA ReadUnigramStep == LemInv /\ ReadUnigram => LemInv'
<1> SUFFICES ASSUME LemInv, ReadUnigram PROVE LemInv'
  OBVIOUS
<1> DEFINE c == Append(chunk, uni[taken + 1])
           n == Len(chunk)
<1>1. /\ phase = "read" /\ taken < Len(uni) /\ taken' = taken + 1
      /\ UNCHANGED <<terms, uni, lemsFile, phase>>
      /\ wordIds = chunk /\ Words' = Words
  BY DEF ReadUnigram, LemInv, LemTypeOK, Words
<1>2. /\ Len(terms) \in Nat /\ Len(uni) = Len(terms) /\ taken \in Nat /\ taken <= Len(terms)
      /\ uni \in [Words -> Words] /\ n \in Nat /\ chunk \in Seq(Words)
      /\ n <= taken /\ \A k \in 1..n : chunk[k] = uni[taken - n + k]
      /\ n = taken % ChunkWords /\ ChunkWords \in Nat \ {0}
  BY <1>1, Types DEF LemInv, LemTypeOK, ChunkOK
<1>3. /\ c \in Seq(Words) /\ Len(c) = n + 1 /\ DOMAIN c = 1..(n + 1)
      /\ \A k \in 1..(n + 1) : c[k] = uni[taken - n + k]
  <2>1. taken + 1 \in Words /\ uni[taken + 1] \in Words
    <3>1. taken + 1 \in Words
      <4> DEFINE l == Len(terms)
      <4>1. taken < l /\ l \in Nat /\ taken \in Nat
        BY <1>1, <1>2
      <4> HIDE DEF l
      <4>2. taken + 1 \in 1..l
        BY <4>1
      <4> QED
        BY <4>2 DEF l, Words
    <3>2. uni \in [Words -> Words]
      BY <1>2
    <3> QED
      BY <3>1, <3>2
  <2>2. /\ c \in Seq(Words) /\ Len(c) = n + 1 /\ DOMAIN c = 1..(n + 1)
        /\ (\A k \in 1..n : c[k] = chunk[k]) /\ c[n + 1] = uni[taken + 1]
    <3> DEFINE x == uni[taken + 1]
    <3>1. x \in Words
      BY <2>1
    <3> HIDE DEF x
    <3>2. /\ Append(chunk, x) \in Seq(Words) /\ Len(Append(chunk, x)) = n + 1
          /\ DOMAIN Append(chunk, x) = 1..(n + 1)
          /\ (\A k \in 1..n : Append(chunk, x)[k] = chunk[k]) /\ Append(chunk, x)[n + 1] = x
      BY <1>2, <3>1, AppendIs
    <3> QED
      BY <3>2 DEF x
  <2>3. \A k \in 1..n : c[k] = chunk[k]
    BY <2>2
  <2>4. c[n + 1] = uni[taken + 1] /\ taken - n + (n + 1) = taken + 1
    BY <1>2, <2>2
  <2>5. ASSUME NEW k \in 1..(n + 1) PROVE c[k] = uni[taken - n + k]
    <3>1. CASE k = n + 1
      BY <2>4, <3>1
    <3>2. CASE k # n + 1
      <4>1. k \in 1..n
        BY <1>2, <3>2
      <4> QED
        BY <1>2, <2>3, <4>1
    <3> QED
      BY <3>1, <3>2
  <2> QED
    BY <2>2, <2>5
<1>4. IF (taken + 1) % ChunkWords = 0
      THEN ApplyChunk(c, c) /\ chunk' = <<>> /\ wordIds' = <<>>
      ELSE chunk' = c /\ wordIds' = c /\ UNCHANGED <<lems, lemid>>
  BY <1>1 DEF ReadUnigram
<1> HIDE DEF c
<1>5. FileOK'
  BY <1>1 DEF FileOK
<1>6. CASE (taken + 1) % ChunkWords = 0
  <2>1. /\ Dense(lemid')
        /\ \A x \in DOMAIN lemid : x \in DOMAIN lemid' /\ lemid'[x] = lemid[x]
        /\ lems' \in [Words -> Seq(Nat)]
        /\ \A w \in Words : IF \E k \in DOMAIN c : c[k] = w
                            THEN HasTerms(lems'[w], w, lemid') ELSE lems'[w] = lems[w]
    BY <1>3, <1>4, <1>6, ApplyIs DEF LemInv
  <2>2. chunk' = <<>> /\ wordIds' = <<>> /\ Len(chunk') = 0
    BY <1>4, <1>6
  <2>3. LemTypeOK'
    BY <1>1, <1>2, <2>1, <2>2 DEF LemTypeOK, LemInv
  <2>4. ChunkOK'
    BY <1>1, <1>2, <1>6, <2>2 DEF ChunkOK
  <2>5. \A w \in Words : w \in Applied' <=> w \in Applied \/ \E k \in DOMAIN c : c[k] = w
    <3>1. Applied' = {uni[i] : i \in 1..(taken + 1)} /\ Applied = {uni[i] : i \in 1..(taken - n)}
      BY <1>1, <1>2, <2>2 DEF Applied
    <3>2. (taken + 1) - (n + 1) = taken - n /\ n + 1 <= taken + 1 /\ n + 1 \in Nat /\ taken + 1 \in Nat
      BY <1>2
    <3>3. FirstOf(uni, taken + 1) = FirstOf(uni, taken - n) \cup FirstOf(c, n + 1)
      <4> DEFINE m1 == taken + 1
                 n1 == n + 1
      <4>1. m1 \in Nat /\ n1 \in Nat /\ n1 <= m1 /\ m1 - n1 = taken - n
        BY <3>2
      <4>2. EndOf(c, n1, uni, m1)
        BY <1>3, <4>1 DEF EndOf
      <4> HIDE DEF m1, n1
      <4>3. FirstOf(uni, m1) = FirstOf(uni, m1 - n1) \cup FirstOf(c, n1)
        BY <4>1, <4>2, LastOnes
      <4> QED
        BY <4>1, <4>3 DEF m1, n1
    <3>4. DOMAIN c = 1..(n + 1)
      BY <1>3
    <3> QED
      BY <3>1, <3>3, <3>4 DEF FirstOf
  <2>6. ListsOK'
    <3> SUFFICES ASSUME NEW w \in Words
                 PROVE  IF w \in Applied' THEN HasTerms(lems'[w], w, lemid') ELSE lems'[w] = <<>>
      BY <1>1 DEF ListsOK, HasTerms
    <3>1. IF w \in Applied THEN HasTerms(lems[w], w, lemid) ELSE lems[w] = <<>>
      BY DEF LemInv, ListsOK
    <3>2. w \in Applied => HasTerms(lems[w], w, lemid')
      BY <2>1, <3>1, ListsLast
    <3> QED
      BY <2>1, <2>5, <3>1, <3>2
  <2> QED
    BY <1>5, <2>3, <2>4, <2>6 DEF LemInv
<1>7. CASE (taken + 1) % ChunkWords # 0
  <2>1. chunk' = c /\ wordIds' = c /\ lems' = lems /\ lemid' = lemid
    BY <1>4, <1>7
  <2>2. LemTypeOK'
    <3>1. LemTypeOK /\ taken' \in 0..Len(terms)
      BY <1>1, <1>2 DEF LemInv
    <3>2. /\ terms' = terms /\ uni' = uni /\ lems' = lems /\ lemid' = lemid
          /\ phase' = phase /\ Words' = Words
      BY <1>1, <2>1
    <3>3. chunk' \in Seq(Words) /\ wordIds' = chunk'
      BY <1>3, <2>1
    <3> QED
      BY <3>1, <3>2, <3>3 DEF LemTypeOK
  <2>3. ChunkOK'
    <3>1. n + 1 = (taken + 1) % ChunkWords
      BY <1>2, <1>7, RemainderStep
    <3>2. n + 1 <= taken + 1 /\ (taken + 1) - (n + 1) = taken - n
      BY <1>2
    <3> QED
      BY <1>1, <1>2, <1>3, <2>1, <3>1, <3>2 DEF ChunkOK
  <2>4. Applied' = Applied
    <3>1. (taken + 1) - (n + 1) = taken - n
      BY <1>2
    <3>2. taken' - Len(chunk') = taken - Len(chunk)
      BY <1>1, <1>3, <2>1, <3>1
    <3> QED
      BY <1>1, <3>2 DEF Applied
  <2>5. ListsOK'
    BY <1>1, <2>1, <2>4 DEF ListsOK, HasTerms, LemInv
  <2> QED
    BY <1>5, <2>2, <2>3, <2>5 DEF LemInv
<1> QED
  BY <1>6, <1>7

LEMMA FinishStep == LemInv /\ Finish => LemInv'
<1> SUFFICES ASSUME LemInv, Finish PROVE LemInv'
  OBVIOUS
<1> DEFINE n == Len(chunk)
<1>1. /\ phase = "read" /\ taken = Len(uni) /\ ApplyChunk(chunk, chunk)
      /\ lemsFile' = Saved(lems') /\ phase' = "saved"
      /\ UNCHANGED <<terms, uni, taken, chunk, wordIds>> /\ Words' = Words
  BY DEF Finish, LemInv, LemTypeOK, Words
<1>2. /\ Len(terms) \in Nat /\ taken = Len(terms) /\ n \in Nat /\ chunk \in Seq(Words)
      /\ DOMAIN chunk = 1..n
      /\ n <= taken /\ \A k \in 1..n : chunk[k] = uni[taken - n + k]
  BY <1>1, Types DEF LemInv, LemTypeOK, ChunkOK
<1>3. /\ Dense(lemid')
      /\ \A x \in DOMAIN lemid : x \in DOMAIN lemid' /\ lemid'[x] = lemid[x]
      /\ lems' \in [Words -> Seq(Nat)]
      /\ \A w \in Words : IF \E k \in DOMAIN chunk : chunk[k] = w
                          THEN HasTerms(lems'[w], w, lemid') ELSE lems'[w] = lems[w]
  BY <1>1, <1>2, ApplyIs DEF LemInv
<1>4. LemTypeOK'
  BY <1>1, <1>2, <1>3 DEF LemTypeOK, LemInv
<1>5. ChunkOK'
  BY <1>1, <1>2 DEF ChunkOK
<1>6. \A w \in Words : w \in Applied' <=> w \in Applied \/ \E k \in DOMAIN chunk : chunk[k] = w
  <2>1. Applied' = {uni[i] : i \in 1..taken} /\ Applied = {uni[i] : i \in 1..(taken - n)}
    BY <1>1, <1>2 DEF Applied
  <2>2. taken \in Nat /\ n \in Nat /\ n <= taken /\ EndOf(chunk, n, uni, taken)
    BY <1>2 DEF EndOf
  <2> HIDE DEF n
  <2>3. FirstOf(uni, taken) = FirstOf(uni, taken - n) \cup FirstOf(chunk, n)
    BY <2>2, LastOnes
  <2>4. DOMAIN chunk = 1..n
    BY <1>2
  <2> QED
    BY <2>1, <2>3, <2>4 DEF FirstOf
<1>7. ListsOK'
  <2> SUFFICES ASSUME NEW w \in Words
               PROVE  IF w \in Applied' THEN HasTerms(lems'[w], w, lemid') ELSE lems'[w] = <<>>
    BY <1>1 DEF ListsOK, HasTerms
  <2>1. IF w \in Applied THEN HasTerms(lems[w], w, lemid) ELSE lems[w] = <<>>
    BY DEF LemInv, ListsOK
  <2>2. w \in Applied => HasTerms(lems[w], w, lemid')
    BY <1>3, <2>1, ListsLast
  <2> QED
    BY <1>3, <1>6, <2>1, <2>2
<1>8. FileOK'
  BY <1>1 DEF FileOK
<1> QED
  BY <1>4, <1>5, <1>7, <1>8 DEF LemInv

LEMMA WeighStep == LemInv /\ Weigh => LemInv'
<1> SUFFICES ASSUME LemInv, Weigh PROVE LemInv'
  OBVIOUS
<1>1. /\ phase = "saved" /\ phase' \in {"weighed", "threw"}
      /\ phase' = "weighed" => \A i \in DOMAIN uni : uni[i] \in DOMAIN lemsFile
      /\ UNCHANGED <<terms, uni, taken, chunk, wordIds, lems, lemid, lemsFile>> /\ Words' = Words
  BY DEF Weigh, Words
<1>2. LemTypeOK' /\ ChunkOK'
  BY <1>1 DEF LemInv, LemTypeOK, ChunkOK
<1>3. Applied' = Applied
  BY <1>1 DEF Applied
<1>4. ListsOK'
  BY <1>1, <1>3 DEF LemInv, ListsOK, HasTerms
<1>5. phase' = "weighed" => Words \subseteq DOMAIN lemsFile
  BY <1>1, Types, EveryWordMet DEF LemInv
<1>6. FileOK'
  BY <1>1, <1>5 DEF LemInv, FileOK
<1> QED
  BY <1>2, <1>4, <1>6 DEF LemInv

(* The strengthened invariant of lemmatize: the chunk is the part of       *)
(* uni.bin since the last chunk, its ids are its words, and the lists of   *)
(* the words before it are whole.                                          *)
THEOREM LemmatizeInvariance == LemSpec => []LemInv
<1>1. LemInv /\ [LemNext]_lemVars => LemInv'
  <2> SUFFICES ASSUME LemInv, [LemNext]_lemVars PROVE LemInv'
    OBVIOUS
  <2>1. CASE UNCHANGED lemVars
    <3>1. UNCHANGED <<terms, uni, taken, chunk, wordIds, lems, lemid, lemsFile, phase>>
      BY <2>1 DEF lemVars
    <3>2. Applied' = Applied /\ Words' = Words
      BY <3>1 DEF Applied, Words
    <3> QED
      BY <3>1, <3>2 DEF LemInv, LemTypeOK, ChunkOK, ListsOK, FileOK, HasTerms
  <2> QED
    BY <2>1, ReadUnigramStep, FinishStep, WeighStep DEF LemNext, LemTerminated
<1> QED
  BY <1>1, LemmatizeStarts, PTL DEF LemSpec

-----------------------------------------------------------------------------
LEMMA ListsAre ==
  ASSUME LemInv
  PROVE  /\ \A w \in Words : IF w \in Applied THEN IsListOf(lems[w], w) ELSE lems[w] = <<>>
         /\ phase # "read" => \A w \in Words : HasTerms(lems[w], w, lemid) /\ IsListOf(lems[w], w)
<1>1. \A w \in Words : Len(terms[w]) \in Nat
  BY Types DEF LemInv
<1>2. ASSUME NEW w \in Words, HasTerms(lems[w], w, lemid) PROVE IsListOf(lems[w], w)
  <2> DEFINE n == Len(terms[w])
             l == lems[w]
  <2>1. n \in Nat /\ l = [j \in 1..n |-> lemid[terms[w][j]]]
    BY <1>1, <1>2 DEF HasTerms
  <2>2. \A j \in 1..n : terms[w][j] \in DOMAIN lemid
    BY <1>2 DEF HasTerms
  <2> HIDE DEF n, l
  <2>3. l \in [1..n -> {lemid[terms[w][j]] : j \in 1..n}]
    BY <2>1
  <2>4. Len(l) = n
    BY <2>1, <2>3, LenIs
  <2>5. DOMAIN l = 1..n /\ \A j \in 1..n : l[j] = lemid[terms[w][j]]
    BY <2>1
  <2> QED
    BY <2>2, <2>4, <2>5 DEF IsListOf, n, l
<1>3. ASSUME NEW w \in Words PROVE IF w \in Applied THEN IsListOf(lems[w], w) ELSE lems[w] = <<>>
  BY <1>2 DEF LemInv, ListsOK
<1>4. ASSUME phase # "read", NEW w \in Words PROVE HasTerms(lems[w], w, lemid) /\ IsListOf(lems[w], w)
  <2>1. PICK i \in Words : uni[i] = w
    BY EveryWordMet DEF LemInv
  <2>2. i \in 1..taken
    BY <1>4 DEF LemInv, ChunkOK, Words
  <2>3. w \in Applied
    BY <1>4, <2>1, <2>2 DEF Applied
  <2> QED
    BY <1>2, <2>3 DEF LemInv, ListsOK
<1> QED
  BY <1>3, <1>4

(* ChunksLandOnTheirWords: apply_chunk stores the k-th word of the image   *)
(* term the k-th id, for every dictionary, every order of uni.bin and every  *)
(* size of a chunk.                                                        *)
THEOREM LemmatizeKeepsPlaces == LemSpec => []ChunksLandOnTheirWords
<1>1. LemInv => ChunksLandOnTheirWords
  <2> SUFFICES ASSUME LemInv PROVE ChunksLandOnTheirWords
    OBVIOUS
  <2>1. DOMAIN terms = Words
    BY Types DEF LemInv
  <2>2. phase = "read" => Len(chunk) = taken % ChunkWords
    BY DEF LemInv, ChunkOK
  <2>3. {lemid[x] : x \in DOMAIN lemid} = 1..Cardinality(DOMAIN lemid)
    BY DEF LemInv, LemTypeOK, Dense
  <2> QED
    BY <2>1, <2>2, <2>3, ListsAre DEF ChunksLandOnTheirWords
<1> QED
  BY <1>1, LemmatizeInvariance, PTL

(* LemmasOfEveryWord: a place in lems.bin is the id of its word wherever   *)
(* every word has a lemma.                                                 *)
THEOREM LemmatizeSavesAll == LemSpec => []LemmasOfEveryWord
<1>1. LemInv => LemmasOfEveryWord
  <2> SUFFICES ASSUME LemInv, phase # "read", \A id \in DOMAIN terms : terms[id] # <<>>
               PROVE  \A id \in DOMAIN terms : id \in DOMAIN lemsFile /\ IsListOf(lemsFile[id], id)
    BY DEF LemmasOfEveryWord
  <2>1. /\ Len(terms) \in Nat /\ DOMAIN terms = Words /\ DOMAIN lems = Words
        /\ \A w \in Words : terms[w] \in Seq(Term)
        /\ lems \in [1..Len(terms) -> Seq(Nat)]
    BY Types DEF LemInv, LemTypeOK, Words
  <2>2. ASSUME NEW w \in Words PROVE lems[w] # <<>>
    <3>1. Len(lems[w]) = Len(terms[w])
      BY ListsAre DEF IsListOf
    <3>2. Len(terms[w]) # 0
      BY <2>1
    <3> QED
      BY <3>1, <3>2
  <2>3. NonEmpty(lems) = 1..Len(terms)
    BY <2>1, <2>2 DEF NonEmpty, Words
  <2>4. Saved(lems) = lems
    BY <2>1, <2>3, SavedIs
  <2>5. lemsFile = lems
    BY <2>4 DEF LemInv, FileOK
  <2> QED
    BY <2>1, <2>5, ListsAre
<1> QED
  BY <1>1, LemmatizeInvariance, PTL

(* ShiftIsNoticed: lems.at(id - 1) fails for some word of uni.bin whenever *)
(* a word has no record.                                                   *)
THEOREM LemmatizeNoticesShift == LemSpec => []ShiftIsNoticed
<1>1. LemInv => ShiftIsNoticed
  <2> SUFFICES ASSUME LemInv, phase = "weighed"
               PROVE  \A id \in DOMAIN terms : id \in DOMAIN lemsFile /\ IsListOf(lemsFile[id], id)
    BY DEF ShiftIsNoticed
  <2>1. Len(terms) \in Nat /\ DOMAIN terms = Words /\ lems \in [1..Len(terms) -> Seq(Nat)]
    BY Types DEF LemInv, LemTypeOK, Words
  <2>2. lemsFile = Saved(lems) /\ 1..Len(terms) \subseteq DOMAIN Saved(lems)
    BY DEF LemInv, FileOK, Words
  <2>3. Saved(lems) = lems
    BY <2>1, <2>2, SavedIs
  <2> QED
    BY <2>1, <2>2, <2>3, ListsAre DEF Words
<1> QED
  BY <1>1, LemmatizeInvariance, PTL

=============================================================================
