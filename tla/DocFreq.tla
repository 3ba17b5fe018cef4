------------------------------ MODULE DocFreq ------------------------------
(***************************************************************************)
(* bifreq_stat and filter_bilems, trifreq_stat and filter_trilems of       *)
(* colloc.cpp: in how many documents each lemma and each lemma group       *)
(* occurs, and which groups are frequent and stable enough to be kept.     *)
(* Pairs (arity 2) and triples (arity 3) are handled alike, except that    *)
(* trifreq_stat counts no single lemmas.                                   *)
(***************************************************************************)
EXTENDS Integers, Sequences, FiniteSets

CONSTANTS
  Word, Lemma, (* word ids and lemma ids                                   *)
  Arities,     (* 2 for bifreq_stat, 3 for trifreq_stat                    *)
  Corpora,     (* sequences of phrases; <<>> ends a document               *)
  LemLists,    (* what load_lems may return: the lemmas of each word       *)
  Strangers(_),(* lemma tuples that part files of an earlier, different    *)
               (* corpus may have put into extended2.bin or extended3.bin  *)
  Score(_),    (* the weight of a lemma group                              *)
  Th1, Th2     (* the thresholds of the filter                             *)

(* What convert wrote: the empty phrase that ends a document ends every    *)
(* corpus that has a phrase at all.                                        *)
ASSUME CorporaAssumption ==
  \A c \in Corpora : c \in Seq(Seq(Word)) /\ (c # <<>> => c[Len(c)] = <<>>)

(* The pairs or triples of lemma ids that a group may stand for.           *)
Groups(n) == IF n = 2 THEN Lemma \X Lemma ELSE Lemma \X Lemma \X Lemma

ASSUME DocFreqAssumption ==
  /\ Arities \subseteq {2, 3}
  /\ LemLists \subseteq [Word -> Seq(Lemma)]
  /\ \A n \in Arities : Strangers(n) \subseteq Groups(n)
  /\ \A n \in Arities : \A g \in Groups(n) : Score(g) \in Int
  /\ Th1 \in Nat /\ Th2 \in Int

VARIABLES
  arity,
  corpus,      (* corpus.bin                                               *)
  lems,        (* lems.bin                                                 *)
  extended,    (* the groups of extended2.bin or extended3.bin             *)
  next,        (* the phrase read_fn delivers next                         *)
  uniset, set, (* the lemmas and the groups met in the current document    *)
  uni, freq,   (* uni; bi or tri: in how many documents each was met       *)
  pc,          (* "count", "filter", "failed"                              *)
  todo,        (* groups the filter has not seen                           *)
  filtered     (* bifiltered.bin or trifiltered.bin                        *)

inputs == <<arity, corpus, lems, extended>>
vars == <<inputs, next, uniset, set, uni, freq, pc, todo, filtered>>

-----------------------------------------------------------------------------
LemsOf(w) == {lems[w][i] : i \in DOMAIN lems[w]}

(* The lemmas of a phrase, and the lemma tuples of its adjacent words.     *)
LemmasIn(ph) == UNION {LemsOf(ph[i]) : i \in DOMAIN ph}

TuplesIn(ph) ==
  IF arity = 2
  THEN UNION {LemsOf(ph[i]) \X LemsOf(ph[i + 1]) : i \in 1..(Len(ph) - 1)}
  ELSE UNION {LemsOf(ph[i]) \X LemsOf(ph[i + 1]) \X LemsOf(ph[i + 2]) : i \in 1..(Len(ph) - 2)}

(* increment: try_emplace and ++ for every member of the set.              *)
Increment(f, S) ==
  [x \in DOMAIN f \cup S |->
     (IF x \in DOMAIN f THEN f[x] ELSE 0) + (IF x \in S THEN 1 ELSE 0)]

(* lemid.bin: lemmatize has met the words of this corpus and no others.    *)
LemIds == UNION {LemmasIn(corpus[i]) : i \in DOMAIN corpus}

Init ==
  /\ arity \in Arities
  /\ corpus \in Corpora
  /\ lems \in LemLists
  /\ extended \in SUBSET ((UNION {TuplesIn(corpus[i]) : i \in DOMAIN corpus}) \cup Strangers(arity))
  /\ next = 1
  /\ uniset = {} /\ set = {}
  /\ uni = <<>> /\ freq = [g \in extended |-> 0]
  /\ pc = "count"
  /\ todo = extended /\ filtered = <<>>

Reading == pc = "count" /\ next <= Len(corpus)

(* The callback for a phrase with words.                                   *)
Phrase ==
  /\ Reading /\ corpus[next] # <<>>
  /\ uniset' = IF arity = 2 THEN uniset \cup LemmasIn(corpus[next]) ELSE {}
  /\ set' = set \cup (TuplesIn(corpus[next]) \cap DOMAIN freq)
  /\ next' = next + 1
  /\ UNCHANGED <<inputs, uni, freq, pc, todo, filtered>>

(* As a bug would have it: increment leaves its set filled.                *)
EndDocumentKeepsSets ==
  /\ Reading /\ corpus[next] = <<>>
  /\ uni' = Increment(uni, uniset)
  /\ freq' = Increment(freq, set)
  /\ next' = next + 1
  /\ UNCHANGED <<inputs, uniset, set, pc, todo, filtered>>

(* The callback for the empty phrase that ends a document.                 *)
EndDocument ==
  /\ Reading /\ corpus[next] = <<>>
  /\ uni' = Increment(uni, uniset)
  /\ freq' = Increment(freq, set)
  /\ uniset' = {} /\ set' = {}
  /\ next' = next + 1
  /\ UNCHANGED <<inputs, pc, todo, filtered>>

(* The check of the counts, and the one of merge_unifreq.                  *)
NoneIsZero == \A g \in DOMAIN freq : freq[g] # 0
SizesAgree == arity = 2 => Cardinality(DOMAIN uni) = Cardinality(LemIds)

(* As a bug would have it: the counts are saved unchecked.                 *)
FinishUnchecked ==
  /\ pc = "count" /\ next > Len(corpus)
  /\ pc' = IF SizesAgree THEN "filter" ELSE "failed"
  /\ UNCHANGED <<inputs, next, uniset, set, uni, freq, todo, filtered>>

(* The corpus is read: the check, save_bi or save_tri, merge_unifreq.      *)
Finish ==
  /\ pc = "count" /\ next > Len(corpus)
  /\ pc' = IF NoneIsZero /\ SizesAgree THEN "filter" ELSE "failed"
  /\ UNCHANGED <<inputs, next, uniset, set, uni, freq, todo, filtered>>

(* LemGroupLess: the merger and std::sort put the greatest weight first.   *)
Tops == {g \in todo : \A h \in todo : Score(h) <= Score(g)}

(* As a bug would have it: groups of exactly th1 documents are kept too.   *)
PassesAtLeast(g) == freq[g] >= Th1 /\ Score(g) > Th2

Passes(g) == freq[g] > Th1 /\ Score(g) > Th2

(* One turn of the filter: the group is written or dropped.                *)
Filter(g) ==
  /\ pc = "filter"
  /\ g \in Tops
  /\ todo' = todo \ {g}
  /\ filtered' = IF Passes(g) THEN Append(filtered, g) ELSE filtered
  /\ UNCHANGED <<inputs, next, uniset, set, uni, freq, pc>>

Filtered == pc = "filter" /\ todo = {}

Terminated == (Filtered \/ pc = "failed") /\ UNCHANGED vars

Next ==
  \/ Phrase \/ EndDocument \/ Finish
  \/ \E g \in todo : Filter(g)
  \/ Terminated

Spec == Init /\ [][Next]_vars

-----------------------------------------------------------------------------
(* The lemmas of a group stand side by side in a phrase.                   *)
OccursIn(g, ph) ==
  \E i \in 0..(Len(ph) - arity) : \A p \in 1..arity : g[p] \in LemsOf(ph[i + p])

LemmaIn(l, ph) == \E i \in DOMAIN ph : l \in LemsOf(ph[i])

(* The number of the document that phrase i belongs to.                    *)
DocOf(i) == Cardinality({j \in 1..(i - 1) : corpus[j] = <<>>}) + 1

DocsWith(IsIn(_, _), x) ==
  {d \in 1..(DocOf(next) - 1) : \E i \in DOMAIN corpus : DocOf(i) = d /\ IsIn(x, corpus[i])}

(* After every phrase the counts are the documents read so far in which    *)
(* the lemma or group occurs, each document once however often it repeats  *)
(* it, and nothing of one document is carried into the next.               *)
FrequenciesAreDocuments ==
  /\ \A g \in extended : freq[g] = Cardinality(DocsWith(OccursIn, g))
  /\ arity = 2 =>
       \A l \in LemIds :
         (IF l \in DOMAIN uni THEN uni[l] ELSE 0) = Cardinality(DocsWith(LemmaIn, l))

(* The checks stop the run when the group file holds a group that the      *)
(* corpus does not, and only then.                                         *)
StopsOnStrangers ==
  pc # "count" =>
    (pc = "failed" <=>
       \E g \in extended : \A i \in DOMAIN corpus : ~OccursIn(g, corpus[i]))

(* The filter keeps the groups of more than Th1 documents and a weight     *)
(* above Th2, all of them, each once, the most stable first.               *)
KeepsFrequentStable ==
  Filtered =>
    /\ {filtered[i] : i \in DOMAIN filtered}
         = {g \in extended : Cardinality(DocsWith(OccursIn, g)) > Th1 /\ Score(g) > Th2}
    /\ \A i, j \in DOMAIN filtered :
         i < j => filtered[i] # filtered[j] /\ Score(filtered[i]) >= Score(filtered[j])

=============================================================================
