------------------------- MODULE GroupBySaveProofs -------------------------
(***************************************************************************)
(* groupby_save writes sorted, complete groups, for any part files, any    *)
(* number of ids and any width of a weight.                                *)
(***************************************************************************)
EXTENDS GroupBySave, KMergeProofs, FiniteSetTheorems

(* Before the first message nothing has been shown or written.             *)
StartIsFresh == isStart => out = <<>> /\ yielded = <<>>

(* The groups written lie below the group being summed.                    *)
OutBelowPrev ==
  ~isStart /\ ~finished => \A a \in DOMAIN out : out[a].id < prev.id

UnseenIsZero == \A g \in Id \ ShownIds : total[g] = 0

FinishedAtEnd == finished => AtEnd

(* The inductive invariant: the merge's own, and what the loop body keeps. *)
GIInv ==
  /\ IInv
  /\ GTypeOK
  /\ StartIsFresh
  /\ OutBelowPrev
  /\ UnseenIsZero
  /\ FinishedAtEnd
  /\ OutStrictlySorted
  /\ WeightsAccounted

-----------------------------------------------------------------------------
LEMMA Modulo ==
  ASSUME NEW x \in Nat
  PROVE  x % U32 \in 0..(U32 - 1) /\ (x < U32 => x % U32 = x)
BY GroupAssumption

LEMMA GInitInv == GInit => GIInv
<1> SUFFICES ASSUME GInit PROVE GIInv
  OBVIOUS
<1>1. IInv
  BY InitIInv DEF GInit
<1>2. yielded = <<>> /\ out = <<>> /\ isStart = TRUE /\ finished = FALSE
      /\ total = [g \in Id |-> 0]
  BY DEF GInit, Init
<1>3. GTypeOK
  <2>1. total \in [Id -> 0..(U32 - 1)]
    BY <1>2, GroupAssumption
  <2>2. isStart \in BOOLEAN /\ isStart /\ finished \in BOOLEAN
    BY <1>2
  <2>3. out \in Seq(Msg)
    BY <1>2
  <2> QED
    BY <2>1, <2>2, <2>3 DEF GTypeOK
<1>4. ShownIds = {} /\ OutIds = {}
  BY <1>2 DEF ShownIds, OutIds
<1>5. StartIsFresh /\ OutBelowPrev /\ UnseenIsZero /\ FinishedAtEnd
  BY <1>2 DEF StartIsFresh, OutBelowPrev, UnseenIsZero, FinishedAtEnd
<1>6. OutStrictlySorted /\ WeightsAccounted
  BY <1>2, <1>4 DEF OutStrictlySorted, WeightsAccounted
<1> QED
  BY <1>1, <1>3, <1>5, <1>6 DEF GIInv

(* What a turn of the merge means to the loop body: a message of Msg that  *)
(* is not below any message it has seen.                                   *)
LEMMA TurnFacts ==
  ASSUME GIInv, NEW i \in q, Visit(i)
  PROVE  /\ Cur(i) \in Msg
         /\ Cur(i).id \in Id
         /\ \A g \in ShownIds : g <= Cur(i).id
         /\ ShownIds' = ShownIds \cup {Cur(i).id}
         /\ ShownIds \subseteq Id
         /\ IInv'
         /\ ~finished
         /\ yielded' # <<>>
<1>1. IInv /\ IInv'
  BY VisitIInv DEF GIInv
<1>2. /\ i \in DOMAIN files /\ pos[i] \in 1..Len(files[i])
      /\ \A j \in DOMAIN files : files[j] \in Seq(Msg)
  BY <1>1 DEF IInv, TypeOK, QueueOK
<1>3. Cur(i) \in Msg /\ Cur(i).id \in Id
  <2>1. Cur(i) \in Msg
    BY <1>2 DEF Cur
  <2>2. \A m \in Msg : m.id \in Id
    BY GroupAssumption
  <2> QED
    BY <2>1, <2>2
<1>4. yielded \in Seq((DOMAIN files) \X Nat)
      /\ yielded' = Append(yielded, <<i, pos[i]>>) /\ files' = files
  BY <1>1 DEF IInv, TypeOK, Visit
<1>5. \A a \in DOMAIN yielded : files[yielded[a][1]][yielded[a][2]] \in Msg
  BY <1>1, <1>2 DEF IInv, ShownArePlaces
<1>6. \A m \in Msg : m.id \in Id /\ Rank(m) = m.id
  BY GroupAssumption
<1>7. ShownIds \subseteq Id
  BY <1>5, <1>6 DEF ShownIds
<1>8. \A g \in ShownIds : g <= Cur(i).id
  BY <1>1, <1>3, <1>5, <1>6 DEF IInv, NotOvertaken, RankAt, ShownIds
<1>9. ShownIds' = ShownIds \cup {Cur(i).id}
  <2> DEFINE l == Len(yielded) + 1
             idAt(p) == files[p[1]][p[2]].id
  <2>1. DOMAIN yielded' = (DOMAIN yielded) \cup {l} /\ yielded'[l] = <<i, pos[i]>>
        /\ \A a \in DOMAIN yielded : yielded'[a] = yielded[a]
    BY <1>4
  <2>2. ShownIds' = {idAt(yielded'[a]) : a \in DOMAIN yielded'}
    BY <1>4 DEF ShownIds
  <2>3. ShownIds = {idAt(yielded[a]) : a \in DOMAIN yielded}
    BY DEF ShownIds
  <2>4. idAt(<<i, pos[i]>>) = Cur(i).id
    BY DEF Cur
  <2> HIDE DEF idAt
  <2> QED
    BY <2>1, <2>2, <2>3, <2>4
<1>10. ~finished
  BY DEF GIInv, FinishedAtEnd, AtEnd
<1>11. yielded' # <<>>
  BY <1>4
<1> QED
  BY <1>1, <1>3, <1>7, <1>8, <1>9, <1>10, <1>11

LEMMA TurnInv == ASSUME GIInv, NEW i \in q, Turn(i) PROVE GIInv'
<1> DEFINE m == Cur(i)
<1>1. /\ m \in Msg /\ m.id \in Id /\ ShownIds \subseteq Id
      /\ \A g \in ShownIds : g <= m.id
      /\ ShownIds' = ShownIds \cup {m.id}
      /\ IInv' /\ ~finished /\ finished' = finished /\ yielded' # <<>>
      /\ total' = [total EXCEPT ![m.id] = (total[m.id] + m.weight) % U32]
  BY TurnFacts DEF Turn
<1>2. Start(m) \/ Accumulate(m) \/ Flush(m)
  BY DEF Turn
<1>3. /\ Id \subseteq Int /\ U32 \in Nat \ {0}
      /\ \A x \in Msg : x.id \in Id /\ x.id \in Int /\ x.weight \in 0..(U32 - 1)
  BY GroupAssumption
<1>4. /\ GTypeOK /\ StartIsFresh /\ OutBelowPrev /\ UnseenIsZero
      /\ OutStrictlySorted /\ WeightsAccounted
  BY DEF GIInv
<1>5. total \in [Id -> 0..(U32 - 1)] /\ out \in Seq(Msg)
  BY <1>4 DEF GTypeOK
<1>6. total' \in [Id -> 0..(U32 - 1)]
  <2>1. total[m.id] + m.weight \in Nat
    <3>1. total[m.id] \in 0..(U32 - 1) /\ m.weight \in 0..(U32 - 1)
      BY <1>1, <1>3, <1>5
    <3> HIDE DEF m
    <3> QED
      BY <3>1, <1>3
  <2>2. (total[m.id] + m.weight) % U32 \in 0..(U32 - 1)
    BY <2>1, Modulo
  <2> QED
    BY <1>1, <1>5, <2>2
<1>7. /\ \A g \in Id : g # m.id => total'[g] = total[g]
      /\ total'[m.id] = (total[m.id] + m.weight) % U32
  BY <1>1, <1>5
<1>8. UnseenIsZero' /\ FinishedAtEnd'
  BY <1>1, <1>4, <1>7 DEF UnseenIsZero, FinishedAtEnd
(* A message whose id is new starts its group with its own weight.         *)
<1>9. m.id \notin ShownIds => total'[m.id] = m.weight
  <2> SUFFICES ASSUME m.id \notin ShownIds PROVE total'[m.id] = m.weight
    OBVIOUS
  <2>1. total[m.id] = 0
    BY <1>1, <1>4 DEF UnseenIsZero
  <2>2. m.weight \in Nat /\ m.weight < U32
    BY <1>1, <1>3
  <2>3. m.weight % U32 = m.weight
    BY <2>2, Modulo
  <2> QED
    BY <1>7, <2>1, <2>2, <2>3
<1>10. CASE Start(m)
  <2>1. isStart /\ ~isStart' /\ prev' = m /\ out' = out /\ isStart' = FALSE
    BY <1>10 DEF Start
  <2>2. out = <<>> /\ yielded = <<>>
    BY <1>4, <2>1 DEF StartIsFresh
  <2>3. ShownIds = {} /\ OutIds' = {}
    BY <2>1, <2>2 DEF ShownIds, OutIds
  <2>4. GTypeOK'
    BY <1>1, <1>5, <1>6, <2>1, <1>4 DEF GTypeOK
  <2>5. StartIsFresh' /\ OutBelowPrev' /\ OutStrictlySorted'
    BY <2>1, <2>2 DEF StartIsFresh, OutBelowPrev, OutStrictlySorted
  <2>6. WeightsAccounted'
    BY <1>1, <1>9, <2>1, <2>2, <2>3 DEF WeightsAccounted
  <2> QED
    BY <1>1, <1>8, <2>4, <2>5, <2>6 DEF GIInv
<1>11. CASE Accumulate(m)
  <2>1. /\ ~isStart /\ isStart' = isStart /\ out' = out
        /\ prev' = [prev EXCEPT !.weight = (m.weight + prev.weight) % U32]
        /\ m.id = prev.id /\ prev \in Msg
    BY <1>4, <1>11 DEF Accumulate, Eq, GTypeOK
  <2>2. total[m.id] = prev.weight /\ m.id \notin OutIds
        /\ ShownIds = OutIds \cup {prev.id}
    BY <1>1, <1>4, <2>1 DEF WeightsAccounted
  <2>3. prev'.id = prev.id /\ prev'.weight = total'[m.id] /\ prev' \in Msg
    <3>1. m.weight + prev.weight = total[m.id] + m.weight
      BY <1>1, <1>3, <2>1, <2>2
    <3>2. prev' = [prev EXCEPT !.weight = total'[m.id]]
      BY <1>7, <2>1, <3>1
    <3>3. total'[m.id] \in 0..(U32 - 1)
      BY <1>1, <1>6
    <3> QED
      BY <2>1, <3>2, <3>3, GroupAssumption
  <2>4. OutIds' = OutIds
    BY <2>1 DEF OutIds
  <2>5. GTypeOK'
    BY <1>1, <1>4, <1>5, <1>6, <2>1, <2>3 DEF GTypeOK
  <2>6. StartIsFresh' /\ OutBelowPrev' /\ OutStrictlySorted'
    BY <1>1, <1>4, <2>1, <2>3 DEF StartIsFresh, OutBelowPrev, OutStrictlySorted
  <2>7. \A a \in DOMAIN out : out[a].id \in Id /\ out[a].id # m.id
    BY <1>3, <1>5, <2>2 DEF OutIds
  <2>8. WeightsAccounted'
    BY <1>1, <1>4, <1>7, <2>1, <2>2, <2>3, <2>4, <2>7 DEF WeightsAccounted
  <2> QED
    BY <1>1, <1>8, <2>5, <2>6, <2>8 DEF GIInv
<1>12. CASE Flush(m)
  <2>1. /\ ~isStart /\ isStart' = isStart /\ prev' = m
        /\ out' = Append(out, prev) /\ m.id # prev.id /\ prev \in Msg
    BY <1>4, <1>12 DEF Flush, Eq, GTypeOK
  <2>2. /\ total[prev.id] = prev.weight /\ prev.id \notin OutIds
        /\ ShownIds = OutIds \cup {prev.id}
        /\ \A a \in DOMAIN out : out[a].id < prev.id /\ out[a].weight = total[out[a].id]
    BY <1>1, <1>4, <2>1 DEF WeightsAccounted, OutBelowPrev
  <2>3. prev.id < m.id
    <3>1. prev.id <= m.id
      BY <1>1, <2>2
    <3>2. prev.id \in Int /\ m.id \in Int
      BY <1>1, <1>3, <2>1
    <3> HIDE DEF m
    <3> QED
      BY <2>1, <3>1, <3>2
  <2> DEFINE l == Len(out) + 1
  <2>4. /\ DOMAIN out' = (DOMAIN out) \cup {l} /\ out'[l] = prev
        /\ \A a \in DOMAIN out : out'[a] = out[a] /\ a < l
        /\ l \notin DOMAIN out /\ l \in Nat
    BY <1>5, <2>1
  <2>5. \A a \in DOMAIN out : out[a].id \in Int /\ out[a].id < m.id
    <3>1. prev.id \in Int /\ m.id \in Int /\ \A a \in DOMAIN out : out[a].id \in Int
      BY <1>1, <1>3, <1>5, <2>1
    <3> HIDE DEF m
    <3> QED
      BY <2>2, <2>3, <3>1
  <2>6. \A a \in DOMAIN out' : out'[a].id < m.id /\ out'[a].id \in Id
    BY <1>3, <1>5, <2>1, <2>3, <2>4, <2>5
  <2>7. OutIds' = OutIds \cup {prev.id}
    BY <2>4 DEF OutIds
  <2>8. m.id \notin ShownIds /\ m.id \notin OutIds'
    BY <1>1, <1>3, <2>2, <2>5, <2>7, <2>1 DEF OutIds
  <2>9. GTypeOK'
    BY <1>1, <1>4, <1>5, <1>6, <2>1 DEF GTypeOK
  <2>10. StartIsFresh' /\ OutBelowPrev'
    BY <2>1, <2>6 DEF StartIsFresh, OutBelowPrev
  <2>11. OutStrictlySorted'
    <3> SUFFICES ASSUME NEW a \in DOMAIN out', NEW b \in DOMAIN out', a < b
                 PROVE  out'[a].id < out'[b].id
      BY DEF OutStrictlySorted
    <3>1. a \in DOMAIN out
      BY <1>5, <2>4
    <3> QED
      BY <3>1, <1>4, <2>2, <2>4 DEF OutStrictlySorted
  <2>12. \A a \in DOMAIN out' : out'[a].weight = total'[out'[a].id]
    <3>1. \A a \in DOMAIN out' : total'[out'[a].id] = total[out'[a].id]
      <4>1. m.id \in Int /\ \A a \in DOMAIN out' : out'[a].id \in Int
        BY <1>1, <1>3, <2>6
      <4>2. \A a \in DOMAIN out' : out'[a].id # m.id
        BY <2>6, <4>1
      <4> QED
        BY <1>7, <2>6, <4>2
    <3> QED
      BY <3>1, <2>2, <2>4
  <2>13. WeightsAccounted'
    BY <1>1, <1>9, <2>1, <2>2, <2>7, <2>8, <2>12 DEF WeightsAccounted
  <2> QED
    BY <1>1, <1>8, <2>9, <2>10, <2>11, <2>13 DEF GIInv
<1> QED
  BY <1>2, <1>10, <1>11, <1>12

LEMMA FinishInv == GIInv /\ Finish => GIInv'
<1> SUFFICES ASSUME GIInv, Finish PROVE GIInv'
  OBVIOUS
<1>1. /\ finished' = TRUE /\ ~finished /\ AtEnd
      /\ files' = files /\ pos' = pos /\ q' = q /\ begun' = begun /\ yielded' = yielded
      /\ isStart' = isStart /\ prev' = prev /\ total' = total
  BY DEF Finish, vars
<1>2. IInv' /\ ShownIds' = ShownIds /\ AtEnd'
  BY <1>1 DEF GIInv, IInv, TypeOK, SortedFiles, Fresh, QueueOK, ShownArePlaces, NotOvertaken,
     YieldedSorted, ShownExactlyOnce, WasShown, RankAt, Cur, ShownIds, AtEnd
<1>3. /\ GTypeOK /\ StartIsFresh /\ OutBelowPrev /\ UnseenIsZero
      /\ OutStrictlySorted /\ WeightsAccounted
  BY DEF GIInv
<1>4. UnseenIsZero' /\ FinishedAtEnd' /\ OutBelowPrev'
  BY <1>1, <1>2, <1>3 DEF UnseenIsZero, FinishedAtEnd, OutBelowPrev
<1>5. CASE isStart
  <2>1. out' = out
    BY <1>5 DEF Finish
  <2>2. OutIds' = OutIds
    BY <2>1 DEF OutIds
  <2> QED
    BY <1>1, <1>2, <1>3, <1>4, <1>5, <2>1, <2>2
       DEF GIInv, GTypeOK, StartIsFresh, OutStrictlySorted, WeightsAccounted
<1>6. CASE ~isStart
  <2>1. out' = Append(out, prev) /\ prev \in Msg /\ out \in Seq(Msg)
    BY <1>3, <1>6 DEF Finish, GTypeOK
  <2>2. /\ total[prev.id] = prev.weight /\ ShownIds = OutIds \cup {prev.id}
        /\ \A a \in DOMAIN out : out[a].id < prev.id /\ out[a].weight = total[out[a].id]
    BY <1>1, <1>3, <1>6 DEF WeightsAccounted, OutBelowPrev
  <2> DEFINE l == Len(out) + 1
  <2>3. /\ DOMAIN out' = (DOMAIN out) \cup {l} /\ out'[l] = prev
        /\ \A a \in DOMAIN out : out'[a] = out[a] /\ a < l
        /\ l \notin DOMAIN out /\ l \in Nat
    BY <2>1
  <2>4. OutIds' = OutIds \cup {prev.id}
    BY <2>3 DEF OutIds
  <2>5. OutStrictlySorted'
    <3> SUFFICES ASSUME NEW a \in DOMAIN out', NEW b \in DOMAIN out', a < b
                 PROVE  out'[a].id < out'[b].id
      BY DEF OutStrictlySorted
    <3>1. a \in DOMAIN out
      BY <2>1, <2>3
    <3> QED
      BY <3>1, <1>3, <2>2, <2>3 DEF OutStrictlySorted
  <2>6. WeightsAccounted'
    BY <1>1, <1>2, <2>2, <2>3, <2>4 DEF WeightsAccounted
  <2>7. GTypeOK' /\ StartIsFresh'
    BY <1>1, <1>3, <1>6, <2>1 DEF GTypeOK, StartIsFresh
  <2> QED
    BY <1>2, <1>4, <2>5, <2>6, <2>7 DEF GIInv
<1> QED
  BY <1>3, <1>5, <1>6 DEF GTypeOK

LEMMA StutterInv == GIInv /\ UNCHANGED gvars => GIInv'
<1> SUFFICES ASSUME GIInv, UNCHANGED gvars PROVE GIInv'
  OBVIOUS
<1>1. /\ files' = files /\ pos' = pos /\ q' = q /\ begun' = begun /\ yielded' = yielded
      /\ isStart' = isStart /\ prev' = prev /\ out' = out /\ finished' = finished /\ total' = total
  BY DEF gvars, vars
<1>2. IInv'
  BY <1>1 DEF GIInv, IInv, TypeOK, SortedFiles, Fresh, QueueOK, ShownArePlaces, NotOvertaken,
     YieldedSorted, ShownExactlyOnce, WasShown, RankAt, Cur
<1>3. ShownIds' = ShownIds /\ OutIds' = OutIds /\ AtEnd' = AtEnd
  BY <1>1 DEF ShownIds, OutIds, AtEnd
<1> QED
  BY <1>1, <1>2, <1>3 DEF GIInv, GTypeOK, StartIsFresh, OutBelowPrev, UnseenIsZero,
     FinishedAtEnd, OutStrictlySorted, WeightsAccounted

THEOREM GInvariance == GSpec => []GIInv
<1>1. GIInv /\ [GNext]_gvars => GIInv'
  <2> SUFFICES ASSUME GIInv, [GNext]_gvars PROVE GIInv'
    OBVIOUS
  <2>1. CASE GBegin
    <3>1. IInv' /\ yielded' = yielded /\ files' = files /\ ~AtEnd /\ ~begun
      BY <2>1, BeginIInv DEF GBegin, Begin, AtEnd, GIInv
    <3>2. isStart' = isStart /\ prev' = prev /\ out' = out /\ finished' = finished /\ total' = total
      BY <2>1 DEF GBegin
    <3>3. ShownIds' = ShownIds /\ OutIds' = OutIds
      BY <3>1, <3>2 DEF ShownIds, OutIds
    <3> QED
      BY <3>1, <3>2, <3>3 DEF GIInv, GTypeOK, StartIsFresh, OutBelowPrev, UnseenIsZero,
         FinishedAtEnd, OutStrictlySorted, WeightsAccounted
  <2>2. ASSUME NEW i \in q, Turn(i) PROVE GIInv'
    BY <2>2, TurnInv
  <2>3. CASE Finish
    BY <2>3, FinishInv
  <2>4. CASE UNCHANGED gvars
    BY <2>4, StutterInv
  <2> QED
    BY <2>1, <2>2, <2>3, <2>4 DEF GNext, GTerminated
<1> QED
  BY GInitInv, <1>1, PTL DEF GSpec

-----------------------------------------------------------------------------
(* fout is a sorted part file with one message per id.                     *)
THEOREM GroupsAreSorted == GSpec => []OutStrictlySorted
<1>1. GIInv => OutStrictlySorted
  BY DEF GIInv
<1> QED
  BY GInvariance, <1>1, PTL

(* Every weight shown is in fout or in prev, under its own id.             *)
THEOREM GroupsAreTotals == GSpec => []WeightsAccounted
<1>1. GIInv => WeightsAccounted
  BY DEF GIInv
<1> QED
  BY GInvariance, <1>1, PTL

-----------------------------------------------------------------------------
(* From here on: groupby_save writes what SortedTotals says, step by step. *)

(* Sums modulo the width of the field.                                     *)
LEMMA Division ==
  ASSUME NEW m \in Nat \ {0}, NEW x \in Nat
  PROVE  x = m * (x \div m) + (x % m) /\ x % m \in 0..(m - 1) /\ x \div m \in Nat
OBVIOUS

LEMMA Distribution ==
  ASSUME NEW m \in Nat, NEW a \in Nat, NEW b \in Nat
  PROVE  m * (a + b) = m * a + m * b /\ m * a \in Nat /\ m * b \in Nat
OBVIOUS

LEMMA Remainder ==
  ASSUME NEW m \in Nat \ {0}, NEW x \in Nat, NEW k \in Nat, NEW r \in 0..(m - 1), x = m * k + r
  PROVE  x % m = r
OBVIOUS

LEMMA MultiplesVanish ==
  ASSUME NEW m \in Nat \ {0}, NEW x \in Nat, NEW k \in Nat
  PROVE  (m * k + x) % m = x % m
<1> DEFINE d == x \div m
           r == x % m
           y == m * k + x
<1>1. x = m * d + r /\ r \in 0..(m - 1) /\ d \in Nat
  BY Division
<1> HIDE DEF d, r
<1>2. m * (k + d) = m * k + m * d /\ m * k \in Nat /\ m * d \in Nat
  BY <1>1, Distribution
<1>3. y = m * (k + d) + r /\ y \in Nat
  BY <1>1, <1>2
<1> HIDE DEF y
<1>4. y % m = r
  BY <1>1, <1>3, Remainder
<1> QED
  BY <1>4 DEF y, r

LEMMA ModuloAdds ==
  ASSUME NEW m \in Nat \ {0}, NEW a \in Nat, NEW b \in Nat
  PROVE  ((a % m) + b) % m = (a + b) % m
<1> DEFINE d == a \div m
           r == a % m
<1>1. a = m * d + r /\ r \in 0..(m - 1) /\ d \in Nat
  BY Division
<1> HIDE DEF d, r
<1>2. m * d \in Nat
  BY <1>1, Distribution
<1>3. a + b = m * d + (r + b) /\ r + b \in Nat
  BY <1>1, <1>2
<1>4. (m * d + (r + b)) % m = (r + b) % m
  BY <1>1, <1>3, MultiplesVanish
<1> QED
  BY <1>3, <1>4 DEF r

(* The places of the files and the units of the groups are finitely many.  *)
LEMMA PlacesAreFinite ==
  ASSUME files \in Seq(Seq(Msg))
  PROVE  IsFiniteSet(Places)
<1> DEFINE row == [i \in DOMAIN files |-> {i} \X DOMAIN files[i]]
           rows == {{i} \X DOMAIN files[i] : i \in DOMAIN files}
<1>1. IsFiniteSet(DOMAIN files)
  BY FS_Interval
<1>2. row \in Surjection(DOMAIN files, rows)
  BY DEF Surjection
<1>3. IsFiniteSet(rows)
  <2> HIDE DEF row, rows
  <2> QED
    BY <1>1, <1>2, FS_Surjection
<1>4. ASSUME NEW i \in DOMAIN files PROVE IsFiniteSet({i} \X DOMAIN files[i])
  <2>1. DOMAIN files[i] = 1..Len(files[i]) /\ Len(files[i]) \in Nat
    OBVIOUS
  <2>2. IsFiniteSet(DOMAIN files[i])
    BY <2>1, FS_Interval
  <2>3. IsFiniteSet({i})
    BY FS_Singleton
  <2> QED
    BY <2>2, <2>3, FS_Product
<1>5. \A R \in rows : IsFiniteSet(R)
  BY <1>4
<1> HIDE DEF rows
<1>6. IsFiniteSet(UNION rows)
  BY <1>3, <1>5, FS_UNION
<1> QED
  BY <1>6 DEF Places, rows

LEMMA PlaceFacts ==
  ASSUME files \in Seq(Seq(Msg)), NEW p \in Places
  PROVE  /\ p[1] \in DOMAIN files /\ p[2] \in DOMAIN files[p[1]] /\ p = <<p[1], p[2]>>
         /\ files[p[1]][p[2]] \in Msg /\ IdAt(p) \in Id
         /\ Rank(files[p[1]][p[2]]) = IdAt(p)
         /\ files[p[1]][p[2]].weight \in Nat /\ files[p[1]][p[2]].weight < U32
<1>1. PICK i \in DOMAIN files : p \in {i} \X DOMAIN files[i]
  BY DEF Places
<1>2. p[1] = i /\ p[2] \in DOMAIN files[i] /\ p = <<p[1], p[2]>>
  BY <1>1
<1>3. files[i] \in Seq(Msg)
  OBVIOUS
<1>4. files[p[1]][p[2]] \in Msg
  BY <1>2, <1>3
<1>5. \A m \in Msg : m.id \in Id /\ Rank(m) = m.id /\ m.weight \in 0..(U32 - 1)
  BY GroupAssumption
<1>6. \A m \in Msg : m.weight \in Nat /\ m.weight < U32
  BY <1>5, GroupAssumption
<1> QED
  BY <1>2, <1>4, <1>5, <1>6 DEF IdAt

LEMMA UnitsAreFinite ==
  ASSUME files \in Seq(Seq(Msg)), NEW P \in SUBSET Places, NEW g
  PROVE  IsFiniteSet(Units(P, g)) /\ Cardinality(Units(P, g)) \in Nat
<1>1. U32 \in Nat
  BY GroupAssumption
<1>2. IsFiniteSet(Places) /\ IsFiniteSet(1..U32)
  BY <1>1, PlacesAreFinite, FS_Interval
<1>3. IsFiniteSet(Places \X (1..U32))
  BY <1>2, FS_Product
<1>4. Units(P, g) \subseteq Places \X (1..U32)
  <2> SUFFICES ASSUME NEW p \in P
               PROVE  {p} \X (1..files[p[1]][p[2]].weight) \subseteq Places \X (1..U32)
    BY DEF Units
  <2>1. files[p[1]][p[2]].weight \in Nat /\ files[p[1]][p[2]].weight < U32
    BY PlaceFacts
  <2>2. 1..files[p[1]][p[2]].weight \subseteq 1..U32
    <3> DEFINE w == files[p[1]][p[2]].weight
    <3>1. w \in Nat /\ w < U32
      BY <2>1
    <3> HIDE DEF w
    <3>2. 1..w \subseteq 1..U32
      BY <1>1, <3>1
    <3> QED
      BY <3>2 DEF w
  <2> QED
    BY <2>2
<1> QED
  BY <1>3, <1>4, FS_Subset, FS_CardinalityType

(* A row of w units.                                                       *)
LEMMA RowSize ==
  ASSUME NEW x, NEW w \in Nat
  PROVE  IsFiniteSet({x} \X (1..w)) /\ Cardinality({x} \X (1..w)) = w
<1> DEFINE S == {x}
           T == 1..w
<1>1. IsFiniteSet(S) /\ Cardinality(S) = 1
  BY FS_Singleton
<1>2. IsFiniteSet(T) /\ Cardinality(T) = w
  BY FS_Interval
<1> HIDE DEF S, T
<1>3. IsFiniteSet(S \X T) /\ Cardinality(S \X T) = Cardinality(S) * Cardinality(T)
  BY <1>1, <1>2, FS_Product
<1>4. Cardinality(S \X T) = w
  BY <1>1, <1>2, <1>3
<1> QED
  BY <1>3, <1>4 DEF S, T

(* One more place adds its weight to its own id and nothing to the others. *)
LEMMA OneMorePlace ==
  ASSUME files \in Seq(Seq(Msg)), NEW P \in SUBSET Places, NEW p \in Places \ P, NEW g
  PROVE  Cardinality(Units(P \cup {p}, g)) =
           Cardinality(Units(P, g)) + (IF IdAt(p) = g THEN files[p[1]][p[2]].weight ELSE 0)
<1> DEFINE w == files[p[1]][p[2]].weight
           new == {p} \X (1..w)
           part(r) == {r} \X (1..files[r[1]][r[2]].weight)
<1>1. IsFiniteSet(Units(P, g)) /\ Cardinality(Units(P, g)) \in Nat
  BY UnitsAreFinite
<1>2. CASE IdAt(p) # g
  <2>1. {r \in P \cup {p} : IdAt(r) = g} = {r \in P : IdAt(r) = g}
    BY <1>2
  <2>2. Units(P \cup {p}, g) = Units(P, g)
    BY <2>1 DEF Units
  <2> QED
    BY <1>1, <1>2, <2>2
<1>3. CASE IdAt(p) = g
  <2>1. w \in Nat
    BY PlaceFacts
  <2>2. IsFiniteSet(new) /\ Cardinality(new) = w
    <3> HIDE DEF w
    <3> QED
      BY <2>1, RowSize
  <2>3. Units(P \cup {p}, g) = Units(P, g) \cup new
    <3>1. {r \in P \cup {p} : IdAt(r) = g} = {r \in P : IdAt(r) = g} \cup {p}
      BY <1>3
    <3>2. Units(P \cup {p}, g) = UNION {part(r) : r \in {r \in P : IdAt(r) = g} \cup {p}}
      BY <3>1 DEF Units
    <3>3. Units(P, g) = UNION {part(r) : r \in {r \in P : IdAt(r) = g}}
      BY DEF Units
    <3>4. new = part(p)
      OBVIOUS
    <3> HIDE DEF part, new
    <3> QED
      BY <3>2, <3>3, <3>4
  <2>4. Units(P, g) \cap new = {}
    BY DEF Units
  <2>5. Cardinality(Units(P, g) \cap new) = 0
    BY <2>4, FS_EmptySet
  <2> HIDE DEF w, new
  <2>6. Cardinality(Units(P, g) \cup new) = Cardinality(Units(P, g)) + w
    <3>1. Cardinality(Units(P, g) \cup new) =
            Cardinality(Units(P, g)) + Cardinality(new) - Cardinality(Units(P, g) \cap new)
      BY <1>1, <2>2, FS_Union
    <3> QED
      BY <1>1, <2>1, <2>2, <2>5, <3>1
  <2> QED
    BY <1>3, <2>3, <2>6 DEF w
<1> QED
  BY <1>2, <1>3

-----------------------------------------------------------------------------
(* The places whose messages the loop body has seen, and the history of    *)
(* their weights told without a history.                                   *)
Shown == {yielded[a] : a \in DOMAIN yielded}

TotalIsUnits == \A g \in Id : total[g] = Cardinality(Units(Shown, g)) % U32

LEMMA ShownFacts ==
  ASSUME IInv
  PROVE  /\ files \in Seq(Seq(Msg))
         /\ Shown \subseteq Places
         /\ \A p \in Places : p \in Shown <=> WasShown(p[1], p[2])
         /\ \A p \in Places : p[2] \in Nat
<1>1. files \in Seq(Seq(Msg)) /\ yielded \in Seq((DOMAIN files) \X Nat)
  BY DEF IInv, TypeOK
<1>2. \A i \in DOMAIN files : DOMAIN files[i] = 1..Len(files[i]) /\ Len(files[i]) \in Nat
  BY <1>1
<1>3. ASSUME NEW a \in DOMAIN yielded PROVE yielded[a] \in Places
  <2>1. /\ yielded[a] = <<yielded[a][1], yielded[a][2]>>
        /\ yielded[a][1] \in DOMAIN files
        /\ yielded[a][2] \in DOMAIN files[yielded[a][1]]
    <3>1. yielded[a] \in (DOMAIN files) \X Nat
      BY <1>1
    <3>2. yielded[a][1] \in DOMAIN files /\ yielded[a][2] \in 1..Len(files[yielded[a][1]])
      BY DEF IInv, ShownArePlaces
    <3> QED
      BY <1>2, <3>1, <3>2
  <2>2. yielded[a] \in {yielded[a][1]} \X DOMAIN files[yielded[a][1]]
    BY <2>1
  <2> QED
    BY <2>1, <2>2 DEF Places
<1>4. ASSUME NEW p \in Places PROVE (p \in Shown <=> WasShown(p[1], p[2])) /\ p[2] \in Nat
  <2>1. p[1] \in DOMAIN files /\ p[2] \in DOMAIN files[p[1]] /\ p = <<p[1], p[2]>>
    BY <1>1, PlaceFacts
  <2>2. p[2] \in 1..Len(files[p[1]])
    BY <1>2, <2>1
  <2>3. (\E a \in DOMAIN yielded : yielded[a] = <<p[1], p[2]>>) <=> WasShown(p[1], p[2])
    BY <2>1, <2>2 DEF IInv, ShownExactlyOnce
  <2> QED
    BY <2>1, <2>2, <2>3 DEF Shown
<1> QED
  BY <1>1, <1>3, <1>4 DEF Shown

LEMMA AppendedSet ==
  ASSUME NEW S, NEW s \in Seq(S), NEW e, NEW t, t = Append(s, e)
  PROVE  {t[a] : a \in DOMAIN t} = {s[a] : a \in DOMAIN s} \cup {e}
<1> DEFINE l == Len(s) + 1
<1>1. /\ DOMAIN t = DOMAIN s \cup {l} /\ t[l] = e
      /\ \A a \in DOMAIN s : t[a] = s[a]
  OBVIOUS
<1> HIDE DEF l
<1> QED
  BY <1>1

(* The next message is of a place not shown before.                        *)
LEMMA NextPlace ==
  ASSUME IInv, NEW i \in q, Visit(i)
  PROVE  /\ <<i, pos[i]>> \in Places \ Shown
         /\ Shown' = Shown \cup {<<i, pos[i]>>}
<1>1. /\ i \in DOMAIN files /\ pos[i] \in 1..Len(files[i]) /\ files \in Seq(Seq(Msg))
      /\ yielded \in Seq((DOMAIN files) \X Nat) /\ yielded' = Append(yielded, <<i, pos[i]>>)
  BY DEF IInv, TypeOK, QueueOK, Visit
<1>2. <<i, pos[i]>> \in {i} \X DOMAIN files[i]
  BY <1>1
<1>3. <<i, pos[i]>> \in Places
  BY <1>1, <1>2 DEF Places
<1>4. <<i, pos[i]>> \notin Shown
  <2>1. ~WasShown(i, pos[i])
    BY <1>1 DEF WasShown
  <2> DEFINE p == <<i, pos[i]>>
  <2>2. p[1] = i /\ p[2] = pos[i] /\ p \in Places
    BY <1>3
  <2> HIDE DEF p
  <2>3. p \notin Shown
    BY <2>1, <2>2, ShownFacts
  <2> QED
    BY <2>3 DEF p
<1>5. Shown' = Shown \cup {<<i, pos[i]>>}
  <2> DEFINE S == (DOMAIN files) \X Nat
             e == <<i, pos[i]>>
  <2>1. yielded \in Seq(S) /\ yielded' = Append(yielded, e)
    BY <1>1
  <2> HIDE DEF S, e
  <2>2. {yielded'[a] : a \in DOMAIN yielded'} = {yielded[a] : a \in DOMAIN yielded} \cup {e}
    BY <2>1, AppendedSet
  <2> QED
    BY <2>2 DEF Shown, e
<1> QED
  BY <1>3, <1>4, <1>5

LEMMA UnitsOfFiles ==
  ASSUME files' = files
  PROVE  /\ Places' = Places
         /\ \A P, g : Units(P, g)' = Units(P, g)
         /\ Units(Shown, prev.id)' = Units(Shown', prev'.id)
         /\ Totals' = Totals
BY DEF Places, Units, IdAt, Totals

LEMMA TurnUnits ==
  ASSUME GIInv, TotalIsUnits, NEW i \in q, Turn(i)
  PROVE  TotalIsUnits'
<1> DEFINE p == <<i, pos[i]>>
           m == Cur(i)
<1>1. /\ IInv /\ Visit(i) /\ files' = files /\ files \in Seq(Seq(Msg))
      /\ total' = [total EXCEPT ![m.id] = (total[m.id] + m.weight) % U32]
      /\ total \in [Id -> 0..(U32 - 1)]
  BY ShownFacts DEF Turn, Visit, GIInv, GTypeOK
<1>2. p \in Places \ Shown /\ Shown' = Shown \cup {p} /\ Shown \in SUBSET Places
  BY <1>1, NextPlace, ShownFacts
<1>3. files[p[1]][p[2]] = m /\ IdAt(p) = m.id /\ m.id \in Id /\ m.weight \in Nat
  BY <1>1, <1>2, PlaceFacts DEF Cur, IdAt
<1>4. U32 \in Nat \ {0}
  BY GroupAssumption
<1> HIDE DEF p, m
<1>4a. \A g \in Id : (Units(Shown, g))' = Units(Shown', g)
  BY <1>1 DEF Units, IdAt
<1> SUFFICES ASSUME NEW g \in Id
             PROVE  total'[g] = Cardinality(Units(Shown', g)) % U32
  BY <1>4a DEF TotalIsUnits
<1>5. Cardinality(Units(Shown', g)) =
        Cardinality(Units(Shown, g)) + (IF m.id = g THEN m.weight ELSE 0)
  <2>1. Cardinality(Units(Shown \cup {p}, g)) =
          Cardinality(Units(Shown, g)) + (IF IdAt(p) = g THEN files[p[1]][p[2]].weight ELSE 0)
    BY <1>1, <1>2, OneMorePlace
  <2> QED
    BY <1>2, <1>3, <2>1
<1>6. Cardinality(Units(Shown, g)) \in Nat /\ total[g] = Cardinality(Units(Shown, g)) % U32
  BY <1>1, <1>2, UnitsAreFinite DEF TotalIsUnits
<1>7. CASE m.id = g
  <2>1. total'[g] = (total[g] + m.weight) % U32
    BY <1>1, <1>7
  <2> DEFINE c == Cardinality(Units(Shown, g))
  <2>2. c \in Nat /\ total[g] = c % U32 /\ Cardinality(Units(Shown', g)) = c + m.weight
    BY <1>5, <1>6, <1>7
  <2> HIDE DEF c
  <2>3. ((c % U32) + m.weight) % U32 = (c + m.weight) % U32
    BY <1>3, <1>4, <2>2, ModuloAdds
  <2> QED
    BY <2>1, <2>2, <2>3
<1>8. CASE m.id # g
  <2>1. total'[g] = total[g]
    BY <1>1, <1>8
  <2> QED
    BY <1>5, <1>6, <1>8, <2>1
<1> QED
  BY <1>7, <1>8

LEMMA UnitsInit == GInit => TotalIsUnits
<1> SUFFICES ASSUME GInit, NEW g \in Id PROVE total[g] = Cardinality(Units(Shown, g)) % U32
  BY DEF TotalIsUnits
<1>1. total[g] = 0 /\ yielded = <<>>
  BY DEF GInit, Init
<1>2. Units(Shown, g) = {}
  BY <1>1 DEF Shown, Units
<1>3. Cardinality(Units(Shown, g)) = 0
  BY <1>2, FS_EmptySet
<1>4. 0 % U32 = 0
  BY GroupAssumption
<1> QED
  BY <1>1, <1>3, <1>4

LEMMA UnitsStay ==
  ASSUME TotalIsUnits, files' = files, yielded' = yielded, total' = total
  PROVE  TotalIsUnits'
<1>1. Shown' = Shown
  BY DEF Shown
<1> QED
  BY <1>1 DEF TotalIsUnits, Units, IdAt

-----------------------------------------------------------------------------
(* A message not shown yet is not below the top of the queue, and at the   *)
(* end there is none.                                                      *)
LEMMA UnshownAreAbove ==
  ASSUME IInv, begun, NEW p \in Places \ Shown
  PROVE  /\ q # {}
         /\ \A i \in Tops : Cur(i).id <= IdAt(p)
<1> DEFINE j == p[1]
           n == p[2]
<1>1. /\ files \in Seq(Seq(Msg)) /\ ~WasShown(j, n) /\ n \in Nat
      /\ j \in DOMAIN files /\ n \in DOMAIN files[j]
      /\ Rank(files[j][n]) = IdAt(p) /\ IdAt(p) \in Id
  BY ShownFacts, PlaceFacts
<1>2. /\ Len(files[j]) \in Nat /\ n \in 1..Len(files[j]) /\ pos[j] \in Nat
      /\ j \notin q => pos[j] = Len(files[j])
  <2>1. files[j] \in Seq(Msg)
    BY <1>1
  <2> QED
    BY <1>1, <2>1 DEF IInv, TypeOK, QueueOK
<1>3. j \in q /\ pos[j] <= n
  BY <1>1, <1>2 DEF WasShown
<1>4. pos[j] \in DOMAIN files[j]
  <2>1. files[j] \in Seq(Msg) /\ pos[j] >= 1 /\ pos[j] <= Len(files[j])
    BY <1>1, <1>3 DEF IInv, TypeOK, QueueOK
  <2> QED
    BY <1>2, <2>1
<1>5. Rank(Cur(j)) <= Rank(files[j][n])
  BY <1>1, <1>3, <1>4 DEF IInv, SortedFiles, Cur
<1>6. \A m \in Msg : m.id \in Int /\ Rank(m) = m.id
  BY GroupAssumption
<1>7. \A k \in q : Cur(k) \in Msg
  <2> SUFFICES ASSUME NEW k \in q PROVE Cur(k) \in Msg
    OBVIOUS
  <2>1. k \in DOMAIN files /\ files[k] \in Seq(Msg) /\ pos[k] \in Nat /\ pos[k] >= 1 /\ pos[k] <= Len(files[k])
    BY <1>1 DEF IInv, TypeOK, QueueOK
  <2>2. pos[k] \in DOMAIN files[k]
    BY <2>1
  <2> QED
    BY <2>1, <2>2 DEF Cur
<1>8. ASSUME NEW i \in Tops PROVE Cur(i).id <= IdAt(p)
  <2>1. i \in q /\ Rank(Cur(i)) <= Rank(Cur(j))
    BY <1>3 DEF Tops
  <2>2. /\ Rank(Cur(i)) = Cur(i).id /\ Cur(i).id \in Int
        /\ Rank(Cur(j)) \in Int /\ IdAt(p) \in Int
    BY <1>1, <1>3, <1>6, <1>7, <2>1, GroupAssumption
  <2> QED
    BY <1>1, <1>5, <2>1, <2>2
<1> QED
  BY <1>3, <1>8

(* When no message of the group being summed, or of one below it, is still *)
(* to come, what prev holds is the least group left and its whole total.   *)
LEMMA PrevIsNext ==
  ASSUME GIInv, TotalIsUnits, ~isStart, ~finished,
         \A p \in Places \ Shown : prev.id < IdAt(p)
  PROVE  /\ prev.id \in Abstract!Left
         /\ \A h \in Abstract!Left : prev.id <= h
         /\ prev = [id |-> prev.id, weight |-> Totals[prev.id]]
<1>1. /\ prev \in Msg /\ prev.weight = total[prev.id] /\ prev.id \notin OutIds
      /\ ShownIds = OutIds \cup {prev.id}
  BY DEF GIInv, GTypeOK, WeightsAccounted
<1>2. /\ prev.id \in Id /\ prev = [id |-> prev.id, weight |-> prev.weight] /\ Id \subseteq Int
  BY <1>1, GroupAssumption
<1>3. /\ files \in Seq(Seq(Msg)) /\ Shown \subseteq Places
  BY ShownFacts DEF GIInv
<1>4. \A p \in Places : IdAt(p) \in Id
  BY <1>3, PlaceFacts
<1>5. ShownIds = {IdAt(p) : p \in Shown}
  BY DEF ShownIds, Shown, IdAt
<1>6. DOMAIN Totals = {IdAt(p) : p \in Places}
  BY DEF Totals
<1>7. Abstract!Left = {IdAt(p) : p \in Places} \ OutIds
  BY <1>6 DEF Abstract!Left, OutIds
<1>8. prev.id \in Abstract!Left
  BY <1>1, <1>3, <1>5, <1>7
<1>9. ASSUME NEW h \in Abstract!Left PROVE prev.id <= h
  <2>1. PICK p \in Places : h = IdAt(p)
    BY <1>7, <1>9
  <2>2. h \notin OutIds /\ h \in Int /\ prev.id \in Int
    BY <1>2, <1>4, <1>7, <1>9, <2>1
  <2>3. CASE p \in Shown
    BY <1>1, <1>5, <2>1, <2>2, <2>3
  <2>4. CASE p \notin Shown
    BY <2>1, <2>2, <2>4
  <2> QED
    BY <2>3, <2>4
<1>10. Units(Places, prev.id) = Units(Shown, prev.id)
  <2>1. \A p \in Places \ Shown : IdAt(p) # prev.id
    BY <1>2, <1>4
  <2>2. {r \in Places : IdAt(r) = prev.id} = {r \in Shown : IdAt(r) = prev.id}
    BY <1>3, <2>1
  <2> QED
    BY <2>2 DEF Units
<1>11. Totals[prev.id] = total[prev.id]
  BY <1>2, <1>8, <1>6, <1>7, <1>10 DEF Totals, TotalIsUnits
<1> QED
  BY <1>1, <1>2, <1>8, <1>9, <1>11

(* Writing prev is the one step SortedTotals has.                          *)
LEMMA WriteIsEmit ==
  ASSUME GIInv, TotalIsUnits, ~isStart, ~finished, files' = files, out' = Append(out, prev),
         \A p \in Places \ Shown : prev.id < IdAt(p)
  PROVE  Abstract!Emit
<1>1. Totals' = Totals
  BY UnitsOfFiles
<1>2. /\ prev.id \in Abstract!Left
      /\ \A h \in Abstract!Left : prev.id <= h
      /\ prev = [id |-> prev.id, weight |-> Totals[prev.id]]
  BY PrevIsNext
<1>3. out' = Append(out, [id |-> prev.id, weight |-> Totals[prev.id]])
  BY <1>2
<1> QED
  BY <1>1, <1>2, <1>3 DEF Abstract!Emit

LEMMA StepRefines ==
  GIInv /\ TotalIsUnits /\ [GNext]_gvars => TotalIsUnits' /\ [Abstract!Emit]_<<Totals, out>>
<1> SUFFICES ASSUME GIInv, TotalIsUnits, [GNext]_gvars
             PROVE  TotalIsUnits' /\ [Abstract!Emit]_<<Totals, out>>
  OBVIOUS
<1>1. ASSUME files' = files, out' = out PROVE [Abstract!Emit]_<<Totals, out>>
  BY <1>1, UnitsOfFiles
<1>2. CASE GBegin
  BY <1>1, <1>2, UnitsStay DEF GBegin, Begin
<1>3. ASSUME NEW i \in q, Turn(i) PROVE TotalIsUnits' /\ [Abstract!Emit]_<<Totals, out>>
  <2>1. TotalIsUnits' /\ files' = files /\ Visit(i) /\ i \in Tops /\ ~finished /\ begun
    BY <1>3, TurnUnits DEF Turn, Visit, GIInv, IInv, Fresh, FinishedAtEnd, AtEnd
  <2>2. Start(Cur(i)) \/ Accumulate(Cur(i)) \/ Flush(Cur(i))
    BY <1>3 DEF Turn
  <2>3. CASE Start(Cur(i)) \/ Accumulate(Cur(i))
    BY <1>1, <2>1, <2>3 DEF Start, Accumulate
  <2>4. CASE Flush(Cur(i))
    <3>1. /\ ~isStart /\ out' = Append(out, prev) /\ Cur(i).id # prev.id
      BY <2>4 DEF Flush, Eq
    <3>2. /\ prev.id \in ShownIds /\ prev \in Msg /\ Cur(i).id \in Id
          /\ \A g \in ShownIds : g <= Cur(i).id
      BY <2>1, <3>1, TurnFacts DEF GIInv, WeightsAccounted, GTypeOK
    <3>3. Id \subseteq Int /\ prev.id \in Id
      BY <3>2, GroupAssumption
    <3>4. prev.id < Cur(i).id
      <4>1. prev.id <= Cur(i).id /\ prev.id \in Int /\ Cur(i).id \in Int
        BY <3>2, <3>3
      <4> QED
        BY <3>1, <4>1
    <3>5. ASSUME NEW p \in Places \ Shown PROVE prev.id < IdAt(p)
      <4>1. Cur(i).id <= IdAt(p)
        BY <2>1, UnshownAreAbove DEF GIInv
      <4>2. IdAt(p) \in Id
        BY ShownFacts, PlaceFacts DEF GIInv
      <4>3. prev.id \in Int /\ IdAt(p) \in Int /\ Cur(i).id \in Int
        BY <3>2, <3>3, <4>2
      <4> QED
        BY <3>4, <4>1, <4>3
    <3>6. Abstract!Emit
      BY <2>1, <3>1, <3>5, WriteIsEmit
    <3> QED
      BY <2>1, <3>6
  <2> QED
    BY <2>1, <2>2, <2>3, <2>4
<1>4. CASE Finish
  <2>1. AtEnd /\ ~finished /\ files' = files /\ yielded' = yielded /\ total' = total
    BY <1>4 DEF Finish, vars
  <2>2. TotalIsUnits'
    BY <2>1, UnitsStay
  <2>3. CASE isStart
    BY <1>1, <1>4, <2>1, <2>2, <2>3 DEF Finish
  <2>4. CASE ~isStart
    <3>1. Places \ Shown = {}
      BY <2>1, UnshownAreAbove DEF AtEnd, GIInv
    <3>2. out' = Append(out, prev)
      BY <1>4, <2>4 DEF Finish
    <3>3. Abstract!Emit
      BY <2>1, <2>4, <3>1, <3>2, WriteIsEmit
    <3> QED
      BY <2>2, <3>3
  <2> QED
    BY <2>3, <2>4
<1>5. CASE UNCHANGED gvars
  BY <1>1, <1>5, UnitsStay DEF gvars, vars
<1> QED
  BY <1>2, <1>3, <1>4, <1>5 DEF GNext, GTerminated

(* groupby_save writes the complete totals of the groups one by one, the   *)
(* least first, whatever ties the queue breaks and wherever a sum          *)
(* overflows: the safety of the refinement.                                *)
THEOREM ImplementsTotals == GSpec => Abstract!Safety
<1>1. GInit => Abstract!Init
  BY DEF GInit, Abstract!Init
<1>2. GSpec => []TotalIsUnits /\ [][Abstract!Emit]_<<Totals, out>>
  BY GInvariance, UnitsInit, StepRefines, PTL DEF GSpec
<1> QED
  BY <1>1, <1>2, PTL DEF GSpec, Abstract!Safety

=============================================================================
