---------------------------- MODULE GroupBySave ----------------------------
(***************************************************************************)
(* groupby_save of kmerge.hpp: reads the merged part files and writes one  *)
(* message per id tuple, its weight the sum of the weights met.  The id of *)
(* a message stands for the tuple (id1, id2) or (id1, id2, id3), as its    *)
(* place in the lexicographic order of BigramMore and TrigramMore.         *)
(***************************************************************************)
EXTENDS KMerge, FiniteSets

CONSTANTS
  Id,        (* the id tuples                                              *)
  U32        (* a weight is a fixed32: sums are taken modulo U32           *)

ASSUME GroupAssumption ==
  /\ Id \subseteq Int
  /\ U32 \in Nat \ {0}
  /\ Msg = [id : Id, weight : 0..(U32 - 1)]
  /\ \A m \in Msg : Rank(m) = m.id

VARIABLES
  isStart,   (* no message has been read yet                               *)
  prev,      (* the message of the group being summed                      *)
  out,       (* what has been written to fout                              *)
  finished,  (* the function has returned                                  *)
  total      (* history: per id, the weights of the messages shown so far  *)

gvars == <<vars, isStart, prev, out, finished, total>>

-----------------------------------------------------------------------------
GInit ==
  /\ Init
  /\ isStart = TRUE
  /\ prev = [id |-> 0, weight |-> 0]
  /\ out = <<>>
  /\ finished = FALSE
  /\ total = [g \in Id |-> 0]

(* BigramEq and TrigramEq.                                                 *)
Eq(m, n) == m.id = n.id

Start(m) ==
  /\ isStart
  /\ isStart' = FALSE
  /\ prev' = m
  /\ UNCHANGED out

(* As a bug would have it: the first weight of the group is not kept.      *)
AccumulateForgets(m) ==
  /\ ~isStart
  /\ Eq(m, prev)
  /\ prev' = m
  /\ UNCHANGED <<isStart, out>>

Accumulate(m) ==
  /\ ~isStart
  /\ Eq(m, prev)
  /\ prev' = [prev EXCEPT !.weight = (m.weight + prev.weight) % U32]
  /\ UNCHANGED <<isStart, out>>

(* As a bug would have it: the message that opens the new group is written *)
(* in place of the finished one.                                           *)
FlushNew(m) ==
  /\ ~isStart
  /\ ~Eq(m, prev)
  /\ out' = Append(out, m)
  /\ prev' = m
  /\ UNCHANGED isStart

Flush(m) ==
  /\ ~isStart
  /\ ~Eq(m, prev)
  /\ out' = Append(out, prev)
  /\ prev' = m
  /\ UNCHANGED isStart

(* One turn of the for loop of groupby_save.                               *)
Turn(i) ==
  /\ Visit(i)
  /\ Start(Cur(i)) \/ Accumulate(Cur(i)) \/ Flush(Cur(i))
  /\ total' = [total EXCEPT ![Cur(i).id] = (@ + Cur(i).weight) % U32]
  /\ UNCHANGED finished

GBegin == Begin /\ UNCHANGED <<isStart, prev, out, finished, total>>

(* As a bug would have it: no write after the loop.                        *)
FinishForgetsLast ==
  /\ AtEnd
  /\ ~finished
  /\ finished' = TRUE
  /\ UNCHANGED <<vars, isStart, prev, out, total>>

(* After the loop: the last group.                                         *)
Finish ==
  /\ AtEnd
  /\ ~finished
  /\ finished' = TRUE
  /\ out' = IF isStart THEN out ELSE Append(out, prev)
  /\ UNCHANGED <<vars, isStart, prev, total>>

GTerminated == finished /\ UNCHANGED gvars

GNext == GBegin \/ (\E i \in q : Turn(i)) \/ Finish \/ GTerminated

(* groupby_save runs in the calling thread until it returns.               *)
GSpec == GInit /\ [][GNext]_gvars /\ WF_gvars(GNext)

-----------------------------------------------------------------------------
GTypeOK ==
  /\ isStart \in BOOLEAN
  /\ isStart \/ prev \in Msg
  /\ out \in Seq(Msg)
  /\ finished \in BOOLEAN
  /\ total \in [Id -> 0..(U32 - 1)]

(* fout is itself a sorted part file with one message per id: what a later *)
(* merge of it, and read_bigrams' "every pair once", rest on.              *)
OutStrictlySorted ==
  \A a, b \in DOMAIN out : a < b => out[a].id < out[b].id

(* Ids that the loop body has seen.                                        *)
ShownIds == {files[yielded[a][1]][yielded[a][2]].id : a \in DOMAIN yielded}

OutIds == {out[a].id : a \in DOMAIN out}

(* At every turn the weights shown so far are in fout or in prev, each     *)
(* under its own id: no group is closed early, split or lost.              *)
WeightsAccounted ==
  /\ \A a \in DOMAIN out : out[a].weight = total[out[a].id]
  /\ ~isStart /\ ~finished => prev.weight = total[prev.id] /\ prev.id \notin OutIds
  /\ ShownIds = IF isStart \/ finished THEN OutIds ELSE OutIds \cup {prev.id}

-----------------------------------------------------------------------------
(* The groups of all files, computed without merging: a message adds as    *)
(* many units to its id as its weight says, and the total of an id is the  *)
(* number of its units, as far as the field can hold it.                   *)
Places == UNION {{i} \X DOMAIN files[i] : i \in DOMAIN files}
IdAt(p) == files[p[1]][p[2]].id

Units(P, g) ==
  UNION {{p} \X (1..files[p[1]][p[2]].weight) : p \in {r \in P : IdAt(r) = g}}

Totals ==
  [g \in {IdAt(p) : p \in Places} |-> Cardinality(Units(Places, g)) % U32]

Abstract == INSTANCE SortedTotals WITH totals <- Totals

(* groupby_save implements SortedTotals: fout grows by the complete total  *)
(* of the least group not yet written, and ends with every group.          *)
ImplementsSortedTotals == Abstract!Spec

=============================================================================
