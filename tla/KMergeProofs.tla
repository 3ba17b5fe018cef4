---------------------------- MODULE KMergeProofs ----------------------------
(***************************************************************************)
(* Safety of the k-way merge for any number of files of any length.        *)
(***************************************************************************)
EXTENDS KMerge, TLAPS

RankAt(p) == Rank(files[p[1]][p[2]])

(* Before begin() nothing has been read or queued.                         *)
Fresh == ~begun => q = {} /\ yielded = <<>> /\ pos = [i \in DOMAIN files |-> 0]

(* A queued message exists; a reader that is not queued is exhausted.      *)
QueueOK ==
  /\ \A i \in q : pos[i] >= 1
  /\ begun => \A i \in DOMAIN files : i \notin q => pos[i] = Len(files[i])

(* What has been shown is a place of a file and has left the queue.        *)
ShownArePlaces ==
  \A a \in DOMAIN yielded :
    /\ yielded[a][1] \in DOMAIN files
    /\ yielded[a][2] \in 1..Len(files[yielded[a][1]])
    /\ WasShown(yielded[a][1], yielded[a][2])

(* Nothing in the queue should have been shown earlier.                    *)
NotOvertaken ==
  \A a \in DOMAIN yielded : \A i \in q : RankAt(yielded[a]) <= Rank(Cur(i))

(* The inductive invariant.                                                *)
IInv ==
  /\ TypeOK
  /\ SortedFiles(files)
  /\ Fresh
  /\ QueueOK
  /\ ShownArePlaces
  /\ NotOvertaken
  /\ YieldedSorted
  /\ ShownExactlyOnce

-----------------------------------------------------------------------------
(* A merge over sorted files that has not begun.                           *)
LEMMA FreshIInv ==
  ASSUME files \in Seq(Seq(Msg)), SortedFiles(files),
         pos = [i \in DOMAIN files |-> 0], q = {}, begun = FALSE, yielded = <<>>
  PROVE  IInv
<1>1. TypeOK
  <2>1. pos \in [DOMAIN files -> Nat] /\ \A i \in DOMAIN files : pos[i] <= Len(files[i])
    OBVIOUS
  <2>2. yielded \in Seq((DOMAIN files) \X Nat)
    OBVIOUS
  <2> QED
    BY <2>1, <2>2 DEF TypeOK
<1>2. Fresh /\ QueueOK /\ ShownArePlaces /\ NotOvertaken /\ YieldedSorted
  BY DEF Fresh, QueueOK, ShownArePlaces, NotOvertaken, YieldedSorted
<1>3. ShownExactlyOnce
  BY DEF ShownExactlyOnce, WasShown
<1> QED
  BY <1>1, <1>2, <1>3 DEF IInv

LEMMA InitIInv == Init => IInv
BY FreshIInv, InputsAssumption DEF Init

(* The second init_queue, the one operator++ makes when the queue runs     *)
(* empty, never reads anything: by then every reader is exhausted.         *)
LEMMA RefillIsIdle ==
  ASSUME IInv, begun, NEW i \in q, Advance(i)
  PROVE  /\ pos[i] < Len(files[i]) =>
              q' = q /\ pos' = [pos EXCEPT ![i] = pos[i] + 1]
         /\ pos[i] = Len(files[i]) => q' = q \ {i} /\ pos' = pos
<1> DEFINE more == {i} \cap Unread(pos)
           p == ReadFrom(pos, more)
           rest == (q \ {i}) \cup more
<1>0. i \in DOMAIN files /\ pos[i] \in Nat /\ Len(files[i]) \in Nat
      /\ pos[i] <= Len(files[i]) /\ pos \in [DOMAIN files -> Nat]
  BY DEF IInv, TypeOK
<1>1. CASE pos[i] < Len(files[i])
  <2>1. more = {i}
    BY <1>0, <1>1 DEF Unread
  <2>2. rest = q /\ rest # {}
    BY <2>1
  <2>3. p = [pos EXCEPT ![i] = pos[i] + 1]
    BY <1>0, <2>1 DEF ReadFrom
  <2>4. q' = rest /\ pos' = p
    BY <2>2 DEF Advance
  <2> QED
    BY <1>0, <1>1, <2>2, <2>3, <2>4
<1>2. CASE pos[i] = Len(files[i])
  <2>1. more = {}
    BY <1>0, <1>2 DEF Unread
  <2>2. rest = q \ {i}
    BY <2>1
  <2>3. p = pos
    BY <1>0, <2>1 DEF ReadFrom
  <2>4. CASE rest # {}
    BY <1>0, <1>2, <2>2, <2>3, <2>4 DEF Advance
  <2>5. CASE rest = {}
    <3>1. q = {i}
      BY <2>2, <2>5
    <3>2. Unread(pos) = {}
      BY <1>2, <3>1 DEF IInv, QueueOK, TypeOK, Unread
    <3>3. q' = Unread(p) /\ pos' = ReadFrom(p, Unread(p))
      BY <2>5 DEF Advance, InitQueue
    <3>4. q' = {} /\ pos' = ReadFrom(pos, {})
      BY <2>3, <3>2, <3>3
    <3>5. ReadFrom(pos, {}) = pos
      BY <1>0 DEF ReadFrom
    <3> QED
      BY <1>0, <1>2, <3>1, <3>4, <3>5
  <2> QED
    BY <2>4, <2>5
<1> QED
  BY <1>0, <1>1, <1>2

LEMMA BeginIInv == IInv /\ Begin => IInv'
<1> SUFFICES ASSUME IInv, Begin PROVE IInv'
  OBVIOUS
<1> USE DEF IInv
<1>1. /\ q' = Unread(pos) /\ pos' = ReadFrom(pos, Unread(pos))
      /\ begun' = TRUE /\ files' = files /\ yielded' = yielded
      /\ yielded = <<>> /\ pos = [i \in DOMAIN files |-> 0]
  BY DEF Begin, InitQueue, Fresh
<1>2. \A i \in DOMAIN files : Len(files[i]) \in Nat
  BY DEF TypeOK
<1>3. \A i \in DOMAIN files :
        /\ i \in q' <=> Len(files[i]) > 0
        /\ pos'[i] = IF i \in q' THEN 1 ELSE 0
  BY <1>1, <1>2 DEF Unread, ReadFrom
<1>4. TypeOK'
  <2>1. q' \subseteq DOMAIN files
    BY <1>1 DEF Unread
  <2>2. pos' \in [DOMAIN files -> Nat]
    BY <1>1, <1>3 DEF ReadFrom
  <2>3. \A i \in DOMAIN files : pos'[i] <= Len(files[i])
    BY <1>2, <1>3
  <2> QED
    BY <1>1, <2>1, <2>2, <2>3 DEF TypeOK
<1>5. Fresh' /\ SortedFiles(files)'
  BY <1>1 DEF Fresh, SortedFiles
<1>6. QueueOK'
  <2>1. q' \subseteq DOMAIN files
    BY <1>1 DEF Unread
  <2> QED
    BY <1>1, <1>2, <1>3, <2>1 DEF QueueOK
<1>7. ShownArePlaces' /\ NotOvertaken' /\ YieldedSorted'
  BY <1>1 DEF ShownArePlaces, NotOvertaken, YieldedSorted
<1>8. ShownExactlyOnce'
  BY <1>1, <1>2, <1>3 DEF ShownExactlyOnce, WasShown
<1> QED
  BY <1>4, <1>5, <1>6, <1>7, <1>8

(* The loop body sees the top message; then ++it.                          *)
LEMMA VisitIInv == ASSUME NEW i, IInv, Visit(i) PROVE IInv'
<1> DEFINE n == pos[i]
           more == n < Len(files[i])
<1>1. /\ i \in q /\ begun /\ i \in DOMAIN files
      /\ files' = files /\ begun' = begun
      /\ yielded' = Append(yielded, <<i, n>>)
      /\ \A j \in q : Rank(Cur(i)) <= Rank(Cur(j))
  BY DEF Visit, Tops, IInv, Fresh, TypeOK
<1>2. /\ q \subseteq DOMAIN files
      /\ \A j \in DOMAIN files : Len(files[j]) \in Nat /\ pos[j] \in Nat /\ pos[j] <= Len(files[j])
      /\ \A j \in q : pos[j] >= 1
      /\ pos \in [DOMAIN files -> Nat]
  BY DEF IInv, TypeOK, QueueOK
<1>3. /\ more => q' = q /\ pos' = [pos EXCEPT ![i] = n + 1]
      /\ ~more => q' = q \ {i} /\ pos' = pos /\ n = Len(files[i])
  BY <1>1, <1>2, RefillIsIdle DEF Visit
<1>4. \A j \in DOMAIN files : j # i => pos'[j] = pos[j] /\ (j \in q' <=> j \in q)
  BY <1>2, <1>3
<1>5. \A j \in DOMAIN files : \A m \in Nat :
        WasShown(j, m)' <=> WasShown(j, m) \/ <<j, m>> = <<i, n>>
  BY <1>1, <1>2, <1>3, <1>4 DEF WasShown
<1>6. ~WasShown(i, n)
  BY <1>1, <1>2 DEF WasShown
<1>7. yielded \in Seq((DOMAIN files) \X Nat)
  BY DEF IInv, TypeOK
<1> DEFINE l == Len(yielded) + 1
<1>8. /\ Len(yielded) \in Nat /\ DOMAIN yielded = 1..Len(yielded)
      /\ DOMAIN yielded' = 1..l
      /\ yielded'[l] = <<i, n>>
      /\ \A a \in DOMAIN yielded : yielded'[a] = yielded[a]
  BY <1>1, <1>7
<1>9. \A a \in DOMAIN yielded' : a \in DOMAIN yielded \/ a = l
  BY <1>8
<1>10. TypeOK'
  <2>1. yielded' \in Seq((DOMAIN files) \X Nat)
    BY <1>1, <1>2, <1>7
  <2>2. pos' \in [DOMAIN files -> Nat] /\ q' \subseteq DOMAIN files
    BY <1>1, <1>2, <1>3
  <2>3. pos'[i] <= Len(files[i])
    BY <1>1, <1>2, <1>3
  <2>4. \A j \in DOMAIN files : pos'[j] <= Len(files[j])
    BY <1>2, <1>4, <2>3
  <2> QED
    BY <1>1, <2>1, <2>2, <2>4 DEF IInv, TypeOK
<1>11. SortedFiles(files)' /\ Fresh'
  BY <1>1 DEF IInv, SortedFiles, Fresh
<1>12. QueueOK'
  BY <1>1, <1>2, <1>3 DEF IInv, QueueOK
<1>13. ShownArePlaces'
  <2> DEFINE j(a) == yielded'[a][1]
             m(a) == yielded'[a][2]
  <2> SUFFICES ASSUME NEW a \in DOMAIN yielded'
               PROVE  /\ j(a) \in DOMAIN files
                      /\ m(a) \in 1..Len(files[j(a)])
                      /\ m(a) < pos'[j(a)] \/ (m(a) = pos'[j(a)] /\ j(a) \notin q')
    BY <1>1 DEF ShownArePlaces, WasShown
  <2>1. CASE a \in DOMAIN yielded
    <3>1. yielded'[a] = yielded[a]
      BY <1>8, <2>1
    <3>2. /\ yielded[a][1] \in DOMAIN files
          /\ yielded[a][2] \in 1..Len(files[yielded[a][1]])
          /\ WasShown(yielded[a][1], yielded[a][2])
      BY <2>1 DEF IInv, ShownArePlaces
    <3>3. yielded[a][2] \in Nat /\ yielded[a][2] <= pos[yielded[a][1]]
      BY <3>2, <1>2 DEF WasShown
    <3>4. CASE yielded[a][1] = i
      BY <3>1, <3>2, <3>3, <3>4, <1>1, <1>2, <1>3 DEF WasShown
    <3>5. CASE yielded[a][1] # i
      BY <3>1, <3>2, <3>5, <1>4 DEF WasShown
    <3> QED
      BY <3>4, <3>5
  <2>2. CASE a = l
    <3>1. j(a) = i /\ m(a) = n
      BY <1>8, <2>2
    <3> QED
      BY <3>1, <1>1, <1>2, <1>3
  <2> QED
    BY <1>9, <2>1, <2>2
(* The message refilled from the popped reader is not below the popped one, *)
(* because the file is sorted.                                             *)
<1>14. \A j \in q' : Rank(Cur(i)) <= Rank(Cur(j))' /\ (j # i => Cur(j)' = Cur(j))
  <2> SUFFICES ASSUME NEW j \in q'
               PROVE  Rank(Cur(i)) <= Rank(Cur(j))' /\ (j # i => Cur(j)' = Cur(j))
    OBVIOUS
  <2>1. CASE j # i
    BY <2>1, <1>1, <1>2, <1>3 DEF Cur
  <2>2. CASE j = i
    <3>1. more /\ pos'[i] = n + 1
      BY <2>2, <1>1, <1>2, <1>3
    <3>2. n \in DOMAIN files[i] /\ n + 1 \in DOMAIN files[i]
      BY <3>1, <1>1, <1>2 DEF IInv, TypeOK
    <3> QED
      BY <2>2, <3>1, <3>2, <1>1, <1>2 DEF IInv, SortedFiles, Cur
  <2> QED
    BY <2>1, <2>2
<1>15. \A j \in DOMAIN files : \A m \in 1..Len(files[j]) : Rank(files[j][m]) \in Int
  <2>1. \A j \in DOMAIN files : files[j] \in Seq(Msg)
    BY DEF IInv, TypeOK
  <2>2. \A j \in DOMAIN files : \A m \in 1..Len(files[j]) : files[j][m] \in Msg
    BY <2>1
  <2> QED
    BY <2>2, RankAssumption
<1>16. \A a \in DOMAIN yielded : RankAt(yielded[a]) <= Rank(Cur(i)) /\ RankAt(yielded[a]) \in Int
  BY <1>1, <1>15 DEF IInv, NotOvertaken, RankAt, ShownArePlaces
<1>17. Rank(Cur(i)) \in Int /\ \A j \in q' : Rank(Cur(j))' \in Int
  <2>1. n \in 1..Len(files[i])
    BY <1>1, <1>2
  <2>2. \A j \in q' : j \in DOMAIN files /\ pos'[j] \in 1..Len(files[j])
    BY <1>1, <1>2, <1>3
  <2> QED
    BY <1>1, <2>1, <2>2, <1>15 DEF Cur
<1>18. NotOvertaken'
  <2> SUFFICES ASSUME NEW a \in DOMAIN yielded', NEW j \in q'
               PROVE  Rank(files[yielded'[a][1]][yielded'[a][2]]) <= Rank(Cur(j))'
    BY <1>1 DEF NotOvertaken, RankAt
  <2>1. CASE a \in DOMAIN yielded
    BY <2>1, <1>8, <1>14, <1>16, <1>17 DEF RankAt
  <2>2. CASE a = l
    BY <2>2, <1>8, <1>14 DEF Cur
  <2> QED
    BY <1>9, <2>1, <2>2
<1>19. YieldedSorted'
  <2> SUFFICES ASSUME NEW a \in DOMAIN yielded', NEW b \in DOMAIN yielded', a <= b
               PROVE  Rank(files[yielded'[a][1]][yielded'[a][2]])
                        <= Rank(files[yielded'[b][1]][yielded'[b][2]])
    BY <1>1 DEF YieldedSorted
  <2>1. CASE b \in DOMAIN yielded
    BY <2>1, <1>8 DEF IInv, YieldedSorted
  <2>2. CASE b = l /\ a \in DOMAIN yielded
    BY <2>2, <1>8, <1>16 DEF RankAt, Cur
  <2>3. CASE b = l /\ a = l
    BY <2>3, <1>8, <1>17 DEF Cur
  <2> QED
    BY <1>8, <1>9, <2>1, <2>2, <2>3
<1>20. ShownExactlyOnce'
  <2>1. ASSUME NEW j \in DOMAIN files, NEW m \in 1..Len(files[j])
        PROVE  (\E a \in DOMAIN yielded' : yielded'[a] = <<j, m>>) <=> WasShown(j, m)'
    <3>1. (\E a \in DOMAIN yielded : yielded[a] = <<j, m>>) <=> WasShown(j, m)
      BY DEF IInv, ShownExactlyOnce
    <3>2. (\E a \in DOMAIN yielded' : yielded'[a] = <<j, m>>)
            <=> (\E a \in DOMAIN yielded : yielded[a] = <<j, m>>) \/ <<i, n>> = <<j, m>>
      BY <1>8, <1>9
    <3>3. m \in Nat
      OBVIOUS
    <3> QED
      BY <3>1, <3>2, <3>3, <1>5
  <2>2. ASSUME NEW a \in DOMAIN yielded
        PROVE  yielded[a] # <<i, n>>
    BY <1>6 DEF IInv, ShownArePlaces
  <2>3. ASSUME NEW a \in DOMAIN yielded', NEW b \in DOMAIN yielded', yielded'[a] = yielded'[b]
        PROVE  a = b
    BY <1>8, <1>9, <2>2, <2>3 DEF IInv, ShownExactlyOnce
  <2> QED
    BY <1>1, <2>1, <2>3 DEF ShownExactlyOnce
<1> QED
  BY <1>10, <1>11, <1>12, <1>13, <1>18, <1>19, <1>20 DEF IInv

LEMMA StepIInv == IInv /\ [Next]_vars => IInv'
<1> SUFFICES ASSUME IInv, [Next]_vars PROVE IInv'
  OBVIOUS
<1>1. CASE Begin
  BY <1>1, BeginIInv
<1>2. ASSUME NEW i \in q, Visit(i) PROVE IInv'
  BY <1>2, VisitIInv
<1>3. CASE UNCHANGED vars
  BY <1>3 DEF vars, IInv, TypeOK, SortedFiles, Fresh, QueueOK, ShownArePlaces,
     NotOvertaken, YieldedSorted, ShownExactlyOnce, WasShown, RankAt, Cur
<1> QED
  BY <1>1, <1>2, <1>3 DEF Next, Terminated

LEMMA EndIsComplete == IInv => MergeComplete
<1> SUFFICES ASSUME IInv, AtEnd, NEW i \in DOMAIN files, NEW n \in 1..Len(files[i])
             PROVE  \E a \in DOMAIN yielded : yielded[a] = <<i, n>>
  BY DEF MergeComplete
<1>1. pos[i] = Len(files[i]) /\ i \notin q /\ Len(files[i]) \in Nat
  BY DEF IInv, AtEnd, QueueOK, TypeOK
<1>2. WasShown(i, n)
  BY <1>1 DEF WasShown
<1> QED
  BY <1>2 DEF IInv, ShownExactlyOnce

(* The inductive invariant of the merge.                                   *)
THEOREM Invariance == Spec => []IInv
BY InitIInv, StepIInv, PTL DEF Spec

-----------------------------------------------------------------------------
(* The queue, the read positions and the history stay well formed.         *)
THEOREM TypeCorrect == Spec => []TypeOK
<1>1. IInv => TypeOK
  BY DEF IInv
<1> QED
  BY Invariance, <1>1, PTL

(* The loop body sees the messages of all files in the comparator's order. *)
THEOREM MergeIsSorted == Spec => []YieldedSorted
<1>1. IInv => YieldedSorted
  BY DEF IInv
<1> QED
  BY Invariance, <1>1, PTL

(* No message is dropped on the way through the queue, and none is shown   *)
(* twice, whatever ties the queue breaks.                                  *)
THEOREM MergeShowsOnce == Spec => []ShownExactlyOnce
<1>1. IInv => ShownExactlyOnce
  BY DEF IInv
<1> QED
  BY Invariance, <1>1, PTL

(* When it != end() turns false, every file has been read to its end.      *)
THEOREM MergeIsComplete == Spec => []MergeComplete
BY Invariance, EndIsComplete, PTL

=============================================================================
