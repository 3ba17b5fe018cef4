---------------------------- MODULE ExternalSort ----------------------------
(***************************************************************************)
(* ExternalSorter of kmerge.hpp reading from a Transformer of streamer.hpp *)
(* and handing its sorted part files to KMerge: extend_bigrams and         *)
(* extend_trigrams, then the loop of group_lem2 and group_lem3.  With      *)
(* Expand(m) = <<m>> the Transformer is the plain IFStreamer that          *)
(* filter_bilems sorts.                                                    *)
(***************************************************************************)
EXTENDS Integers, Sequences, FiniteSets

CONSTANTS
  Source,     (* the messages of the stream                                *)
  Msg,        (* the messages to sort                                      *)
  Rank(_),    (* their order, as in KMerge                                 *)
  Expand(_),  (* fn: the messages made of one message of the stream        *)
  Streams,    (* the contents of the file the Transformer reads            *)
  Limits,     (* values of max_elems; 0 means unlimited                    *)
  OldDirs     (* what save_dir may hold before the run: file number to     *)
              (* contents                                                  *)

ASSUME SortAssumption ==
  /\ \A m \in Msg : Rank(m) \in Int
  /\ \A x \in Source : Expand(x) \in Seq(Msg)
  /\ Streams \subseteq Seq(Source) /\ Limits \subseteq Nat

VARIABLES
  stream,     (* the file behind the Transformer's IFStreamer              *)
  taken,      (* how many of its messages have been read                   *)
  tq, keep,   (* the Transformer's queue and its keep                      *)
  max_elems,
  buf,        (* sort_unstable's buffer                                    *)
  dir,        (* save_dir                                                  *)
  nChunks,
  phase,      (* "new", "split", "merge"                                   *)
  files, pos, q, begun, yielded    (* the KMerge returned                  *)

sorterVars == <<stream, taken, tq, keep, max_elems, buf, dir, nChunks, phase>>
mergeVars == <<files, pos, q, begun, yielded>>
vars == <<sorterVars, mergeVars>>

Merger == INSTANCE KMerge WITH Inputs <- {}

-----------------------------------------------------------------------------
Init ==
  /\ stream \in Streams /\ taken = 0
  /\ tq = <<>> /\ keep = TRUE
  /\ max_elems \in Limits
  /\ buf = <<>>
  /\ dir \in OldDirs
  /\ nChunks = 0
  /\ phase = "new"
  /\ files = <<>> /\ pos = <<>> /\ q = {} /\ begun = FALSE /\ yielded = <<>>

(* The constructor; system_exec accepts an rm that fails.                  *)
Construct ==
  /\ phase = "new"
  /\ phase' = "split"
  /\ dir' \in {<<>>, dir}
  /\ UNCHANGED <<stream, taken, tq, keep, max_elems, buf, nChunks, mergeVars>>

(* The beginning of Transformer::read: the queue after the refill.         *)
Fetching == tq = <<>> /\ keep
MoreInput == taken < Len(stream)
Refilled == IF Fetching /\ MoreInput THEN Expand(stream[taken + 1]) ELSE tq

Refill ==
  /\ taken' = IF Fetching /\ MoreInput THEN taken + 1 ELSE taken
  /\ keep' = IF Fetching THEN MoreInput ELSE keep

(* How often message m stands in the sequences of f.                       *)
Copies(f, m) ==
  Cardinality({p \in UNION {{c} \X DOMAIN f[c] : c \in DOMAIN f} : f[p[1]][p[2]] = m})

SameBag(f, g) == \A m \in Msg : Copies(f, m) = Copies(g, m)

(* std::sort with the arguments of the comparator swapped: ascending.      *)
SortedCopies(s) ==
  {t \in [DOMAIN s -> {s[i] : i \in DOMAIN s}] :
     /\ \A i, j \in DOMAIN s : i <= j => Rank(t[i]) <= Rank(t[j])
     /\ SameBag(<<t>>, <<s>>)}

SortSave(s) ==
  /\ \E t \in SortedCopies(s) :
       dir' = [n \in DOMAIN dir \cup {nChunks} |-> IF n = nChunks THEN t ELSE dir[n]]
  /\ nChunks' = nChunks + 1

(* As a bug would have it: buf is not cleared after sort_save.             *)
KeepNoClear ==
  /\ phase = "split" /\ Refilled # <<>>
  /\ Refill
  /\ tq' = Tail(Refilled)
  /\ buf' = Append(buf, Head(Refilled))
  /\ IF Len(buf) + 1 = max_elems THEN SortSave(buf') ELSE UNCHANGED <<dir, nChunks>>
  /\ UNCHANGED <<stream, max_elems, phase, mergeVars>>

(* read(msg) is true: the message goes to buf, a full buf to a part file.  *)
Keep ==
  /\ phase = "split" /\ Refilled # <<>>
  /\ Refill
  /\ tq' = Tail(Refilled)
  /\ LET b == Append(buf, Head(Refilled))
     IN  IF Len(b) = max_elems THEN SortSave(b) /\ buf' = <<>>
         ELSE buf' = b /\ UNCHANGED <<dir, nChunks>>
  /\ UNCHANGED <<stream, max_elems, phase, mergeVars>>

(* As a bug would have it: the last, partly filled buf is not saved.       *)
StopForgetsLast ==
  /\ phase = "split" /\ Refilled = <<>>
  /\ Refill
  /\ buf' = <<>>
  /\ UNCHANGED <<dir, nChunks>>
  /\ files' = [i \in 1..nChunks |-> dir[i - 1]]
  /\ pos' = [i \in 1..nChunks |-> 0]
  /\ phase' = "merge"
  /\ UNCHANGED <<stream, tq, max_elems, q, begun, yielded>>

(* read(msg) is false: the rest of buf is saved, KMerge opens the parts.   *)
Stop ==
  /\ phase = "split" /\ Refilled = <<>>
  /\ Refill
  /\ buf' = <<>>
  /\ IF buf # <<>> THEN SortSave(buf) ELSE UNCHANGED <<dir, nChunks>>
  /\ files' = [i \in 1..nChunks' |-> dir'[i - 1]]
  /\ pos' = [i \in 1..nChunks' |-> 0]
  /\ phase' = "merge"
  /\ UNCHANGED <<stream, tq, max_elems, q, begun, yielded>>

(* The caller's loop over the iterator.                                    *)
Consume ==
  /\ phase = "merge"
  /\ Merger!Begin \/ \E i \in q : Merger!Visit(i)
  /\ UNCHANGED sorterVars

Terminated == phase = "merge" /\ Merger!AtEnd /\ UNCHANGED vars

Next == Construct \/ Keep \/ Stop \/ Consume \/ Terminated

Spec == Init /\ [][Next]_vars

-----------------------------------------------------------------------------
(* What the Transformer makes of the first n messages of the stream.       *)
Expanded(n) == [i \in 1..n |-> Expand(stream[i])]

Parts == [i \in 1..nChunks |-> dir[i - 1]]

(* At every moment each message made so far is in a part file, in buf or   *)
(* in the Transformer's queue: a refill, a save or old part files neither  *)
(* lose nor add one.                                                       *)
SplitKeepsAll ==
  phase # "new" => SameBag(Parts \o <<buf, tq>>, Expanded(taken))

Shown == [a \in DOMAIN yielded |-> files[yielded[a][1]][yielded[a][2]]]

(* Messages of the stream before the first one that fn makes nothing of:   *)
(* there read finds its queue empty after one refill and reports the end.  *)
BeforeBarren ==
  CHOOSE n \in 0..Len(stream) :
    /\ \A i \in 1..n : Expand(stream[i]) # <<>>
    /\ n < Len(stream) => Expand(stream[n + 1]) = <<>>

(* The caller's loop has seen, in order, the whole transformed stream up   *)
(* to the first message that fn adds nothing for, and nothing else.        *)
SortsTheStream ==
  phase = "merge" /\ Merger!AtEnd =>
    /\ SameBag(<<Shown>>, Expanded(BeforeBarren))
    /\ \A a, b \in DOMAIN Shown : a <= b => Rank(Shown[a]) <= Rank(Shown[b])

=============================================================================
