------------------------------- MODULE KMerge -------------------------------
(***************************************************************************)
(* KMerge and KMergeIterator of kmerge.hpp: the loop                       *)
(*                                                                         *)
(*    for (auto it = merger.begin(); it != merger.end(); ++it) body(it);   *)
(*                                                                         *)
(* that every consumer of sorted part files runs.  A file is the sequence  *)
(* of the messages IFStreamer can parse from it (a damaged tail reads as   *)
(* the end of the file).  A comparator of compare.hpp is kept as Rank: the *)
(* priority queue puts a message with the smallest Rank on top, messages   *)
(* of equal Rank in any order.                                             *)
(***************************************************************************)
EXTENDS Integers, Sequences

CONSTANTS
  Msg,       (* the messages of the files                                  *)
  Rank(_),   (* the place of a message in the comparator's order           *)
  Inputs     (* the lists of files a merge may be asked for                *)

ASSUME RankAssumption == \A m \in Msg : Rank(m) \in Int

(* A part file is written sorted: save_bi, save_tri and sort_save.         *)
SortedFiles(fs) ==
  \A i \in DOMAIN fs : \A a, b \in DOMAIN fs[i] :
    a <= b => Rank(fs[i][a]) <= Rank(fs[i][b])

ASSUME InputsAssumption ==
  \A fs \in Inputs : fs \in Seq(Seq(Msg)) /\ SortedFiles(fs)

VARIABLES
  files,     (* readers: the contents of the files                         *)
  pos,       (* pos[i]: how many messages reader i has delivered           *)
  q,         (* readers whose last delivered message is in the queue       *)
  begun,     (* begin() has built the iterator                             *)
  yielded    (* history: <<reader, place>> of the messages shown to body   *)

vars == <<files, pos, q, begun, yielded>>

-----------------------------------------------------------------------------
(* The message reader i has in the queue.                                  *)
Cur(i) == files[i][pos[i]]

(* The order a comparator written the other way round would give: a        *)
(* priority queue keeps its LARGEST element on top, hence the *More names. *)
TopsLargest == {i \in q : \A j \in q : Rank(Cur(j)) <= Rank(Cur(i))}

(* What q.top() may be: any of the queued messages with the least rank.    *)
Tops == {i \in q : \A j \in q : Rank(Cur(i)) <= Rank(Cur(j))}

(* Readers whose read(msg) still succeeds when p[i] messages are taken.    *)
Unread(p) == {i \in DOMAIN files : p[i] < Len(files[i])}

ReadFrom(p, S) == [i \in DOMAIN files |-> IF i \in S THEN p[i] + 1 ELSE p[i]]

(* init_queue on an empty queue: one message of every reader that has one. *)
InitQueue(p) ==
  /\ q' = Unread(p)
  /\ pos' = ReadFrom(p, Unread(p))

(* operator++ as a bug would have it: refill from the reader with the      *)
(* lowest number instead of the reader whose message was popped.           *)
AdvanceWrongReader(i) ==
  LET more == IF Unread(pos) = {} THEN {}
              ELSE {CHOOSE j \in Unread(pos) : \A k \in Unread(pos) : j <= k}
      p    == ReadFrom(pos, more)
      rest == (q \ {i}) \cup more
  IN  IF rest # {} THEN q' = rest /\ pos' = p ELSE InitQueue(p)

(* operator++: pop the top, read the next message of the same reader, and  *)
(* when the queue is empty ask all readers once more.                      *)
Advance(i) ==
  LET more == {i} \cap Unread(pos)
      p    == ReadFrom(pos, more)
      rest == (q \ {i}) \cup more
  IN  IF rest # {} THEN q' = rest /\ pos' = p ELSE InitQueue(p)

-----------------------------------------------------------------------------
Init ==
  /\ files \in Inputs
  /\ pos = [i \in DOMAIN files |-> 0]
  /\ q = {}
  /\ begun = FALSE
  /\ yielded = <<>>

(* begin(): the iterator is constructed over the opened readers.           *)
Begin ==
  /\ ~begun
  /\ begun' = TRUE
  /\ InitQueue(pos)
  /\ UNCHANGED <<files, yielded>>

(* One turn of the loop: body(it), then ++it.                              *)
Visit(i) ==
  /\ i \in Tops
  /\ yielded' = Append(yielded, <<i, pos[i]>>)
  /\ Advance(i)
  /\ UNCHANGED <<files, begun>>

(* it != end() is false: `good' is exactly a nonempty queue.               *)
AtEnd == begun /\ q = {}

Terminated == AtEnd /\ UNCHANGED vars

Next == Begin \/ (\E i \in q : Visit(i)) \/ Terminated

Spec == Init /\ [][Next]_vars /\ WF_vars(Next)

-----------------------------------------------------------------------------
(* Message n of file i has been delivered and has left the queue.          *)
WasShown(i, n) == n < pos[i] \/ (n = pos[i] /\ i \notin q)

TypeOK ==
  /\ files \in Seq(Seq(Msg))
  /\ pos \in [DOMAIN files -> Nat]
  /\ \A i \in DOMAIN files : pos[i] <= Len(files[i])
  /\ q \subseteq DOMAIN files
  /\ begun \in BOOLEAN
  /\ yielded \in Seq((DOMAIN files) \X Nat)

(* The body sees the messages in the comparator's order, across all files: *)
(* what groupby_save and the group_lem loops rely on to close a group.     *)
YieldedSorted ==
  \A a, b \in DOMAIN yielded :
    a <= b => Rank(files[yielded[a][1]][yielded[a][2]])
                <= Rank(files[yielded[b][1]][yielded[b][2]])

(* At every moment the body has seen each message taken from the queue,    *)
(* once: popping, refilling and the second init_queue neither drop nor     *)
(* repeat one.                                                             *)
ShownExactlyOnce ==
  /\ \A i \in DOMAIN files : \A n \in 1..Len(files[i]) :
       (\E a \in DOMAIN yielded : yielded[a] = <<i, n>>) <=> WasShown(i, n)
  /\ \A a, b \in DOMAIN yielded : yielded[a] = yielded[b] => a = b

(* The loop ends only when every message of every file has been shown.     *)
MergeComplete ==
  AtEnd => \A i \in DOMAIN files : \A n \in 1..Len(files[i]) :
             \E a \in DOMAIN yielded : yielded[a] = <<i, n>>

=============================================================================
