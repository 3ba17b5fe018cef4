------------------------------ MODULE GroupLem ------------------------------
(***************************************************************************)
(* group_lem2 and group_lem3 of colloc.cpp: the word grams counted over    *)
(* the corpus are extended to grams of lemmas, every homonym in turn, and  *)
(* the extended messages of one lemma tuple become one group, written when *)
(* its joint weight is above the threshold.  Pairs and triples are handled *)
(* alike: arity is 2 for group_lem2 and 3 for group_lem3.                  *)
(*                                                                         *)
(* The extended messages arrive sorted by lemma tuple, ties in any order:  *)
(* what ExternalSort establishes.  Weights are doubles in the code; here   *)
(* they are integers, multiplied by Scale, which every product of homonym  *)
(* counts divides.  The score computed from a joint weight is positive     *)
(* exactly when the group is written; its value only matters as an order   *)
(* (DocFreq), so it is left out.                                           *)
(***************************************************************************)
EXTENDS Integers, Sequences, FiniteSets

CONSTANTS
  Lem,         (* lemma identifiers, from 1                                *)
  Jobs,        (* the calls: arity, threshold, and what uni.bin and bi.bin *)
               (* (tri.bin) hold                                           *)
  LemLists,    (* what load_lems may return: the lemmas of each word       *)
  Scale

(* The sum of the values of f: the number of their units.                  *)
Sum(f) == Cardinality(UNION {{x} \X (1..f[x]) : x \in DOMAIN f})

ASSUME GroupLemAssumption ==
  /\ Lem \subseteq Nat \ {0} /\ Scale \in Nat \ {0}
  /\ \A job \in Jobs : job.arity \in {2, 3} /\ job.threshold \in Nat
  /\ \A ll \in LemLists : \A w \in DOMAIN ll : ll[w] \in Seq(Lem) \ {<<>>}

(* The tables count words that convert gave an id.                         *)
ASSUME TablesAssumption ==
  \A job \in Jobs :
    /\ IsFiniteSet(DOMAIN job.uni) /\ IsFiniteSet(DOMAIN job.grams)
    /\ \A w \in DOMAIN job.uni : job.uni[w] \in Nat \ {0}
    /\ \A g \in DOMAIN job.grams :
         g \in [1..job.arity -> DOMAIN job.uni] /\ job.grams[g] \in Nat \ {0}

(* Every occurrence of a word tuple has its own occurrence of each of its  *)
(* words.                                                                  *)
ASSUME CountsAssumption ==
  \A job \in Jobs : \A p \in 1..job.arity : \A w \in DOMAIN job.uni :
    Sum([g \in {h \in DOMAIN job.grams : h[p] = w} |-> job.grams[g]]) <= job.uni[w]

(* No share of a count is rounded.                                         *)
ASSUME ScaleAssumption ==
  \A ll \in LemLists : \A a, b, c \in DOMAIN ll :
    \E k \in 1..Scale : Scale = k * (Len(ll[a]) * Len(ll[b]) * Len(ll[c]))

VARIABLES
  arity, threshold,
  uni,         (* uni.bin: how often each word was met                     *)
  grams,       (* bi.bin or tri.bin: how often each word tuple was met     *)
  lems,        (* load_lems: the lemmas of each word                       *)
  lid_w,       (* build_lem_weights: the weight of each lemma              *)
  todo,        (* the extended messages the merger has not shown           *)
  msg, weight, (* the group being built                                    *)
  out,         (* extended2.bin or extended3.bin                           *)
  finished

inputs == <<arity, threshold, uni, grams, lems, lid_w>>
vars == <<inputs, todo, msg, weight, out, finished>>

-----------------------------------------------------------------------------
Product(f) == IF arity = 2 THEN f[1] * f[2] ELSE f[1] * f[2] * f[3]

(* How often lemma l stands in a list.                                     *)
Times(l, list) == Cardinality({i \in DOMAIN list : list[i] = l})

(* Every word adds its count, shared among its homonyms, to its lemmas.    *)
LemWeights(u, ll) ==
  [l \in UNION {{ll[w][i] : i \in DOMAIN ll[w]} : w \in DOMAIN u} |->
     Sum([w \in DOMAIN u |-> (Scale * u[w] * Times(l, ll[w])) \div Len(ll[w])])]

(* The nested loops of extend_*: one message <<g, c>> for every choice c   *)
(* of a lemma for each word of the tuple g.                                *)
Readings(g, ll) ==
  IF arity = 2 THEN (DOMAIN ll[g[1]]) \X (DOMAIN ll[g[2]])
  ELSE (DOMAIN ll[g[1]]) \X (DOMAIN ll[g[2]]) \X (DOMAIN ll[g[3]])

Extended(gs, ll) == UNION {{g} \X Readings(g, ll) : g \in gs}

Lids(m) == [p \in 1..arity |-> lems[m[1][p]][m[2][p]]]
Case(m) == [wids |-> m[1], count |-> grams[m[1]]]

(* Lem2AndWordsMore and Lem3AndWordsMore.                                  *)
Precedes(s, t) ==
  \E p \in 1..arity : s[p] < t[p] /\ \A r \in 1..(p - 1) : s[r] = t[r]

Tops == {m \in todo : \A n \in todo : ~Precedes(Lids(n), Lids(m))}

(* As a bug would have it: only the homonyms of the last word share.       *)
ShareOfLast(m) == (Scale * grams[m[1]]) \div Len(lems[m[1][arity]])

(* count / times                                                           *)
Share(m) ==
  (Scale * grams[m[1]]) \div Product([p \in 1..arity |-> Len(lems[m[1][p]])])

(* As a bug would have it: the last lemma is not compared.                 *)
SameGroupByPrefix(m) == \A p \in 1..(arity - 1) : msg.lids[p] = Lids(m)[p]

SameGroup(m) == msg.lids = Lids(m)

NoMsg == [lids |-> [p \in 1..arity |-> 0], cases |-> <<>>]

Init ==
  /\ \E job \in Jobs :
       /\ arity = job.arity /\ threshold = job.threshold
       /\ uni = job.uni /\ grams = job.grams
  /\ lems \in LemLists /\ DOMAIN lems = DOMAIN uni
  /\ lid_w = LemWeights(uni, lems)
  /\ todo = Extended(DOMAIN grams, lems)
  /\ msg = NoMsg /\ weight = 0
  /\ out = <<>>
  /\ finished = FALSE

(* write_one, its early return aside: msg goes to os when its score is     *)
(* above zero.                                                             *)
Scored == weight > threshold * Scale /\ \A p \in 1..arity : lid_w[msg.lids[p]] # 0

Written == IF Scored THEN Append(out, [group |-> msg, weight |-> weight]) ELSE out

(* A turn that opens no group: the same lemmas, or the first message, for  *)
(* which write_one returns at once.                                        *)
AddCase(m) ==
  /\ m \in Tops
  /\ SameGroup(m) \/ msg.cases = <<>>
  /\ todo' = todo \ {m}
  /\ msg' = [lids |-> Lids(m), cases |-> Append(msg.cases, Case(m))]
  /\ weight' = weight + Share(m)
  /\ UNCHANGED <<inputs, out, finished>>

(* As a bug would have it: the weight is not reset with the message.       *)
NewGroupKeepsWeight(m) ==
  /\ m \in Tops
  /\ ~SameGroup(m) /\ msg.cases # <<>>
  /\ out' = Written
  /\ todo' = todo \ {m}
  /\ msg' = [lids |-> Lids(m), cases |-> <<Case(m)>>]
  /\ weight' = weight + Share(m)
  /\ UNCHANGED <<inputs, finished>>

(* A turn on other lemmas: write_one, then the first case of the group.    *)
NewGroup(m) ==
  /\ m \in Tops
  /\ ~SameGroup(m) /\ msg.cases # <<>>
  /\ out' = Written
  /\ todo' = todo \ {m}
  /\ msg' = [lids |-> Lids(m), cases |-> <<Case(m)>>]
  /\ weight' = Share(m)
  /\ UNCHANGED <<inputs, finished>>

(* After the loop: write_one.                                              *)
Finish ==
  /\ todo = {} /\ ~finished
  /\ finished' = TRUE
  /\ out' = IF msg.cases = <<>> THEN out ELSE Written
  /\ msg' = NoMsg
  /\ weight' = 0
  /\ UNCHANGED <<inputs, todo>>

Terminated == finished /\ UNCHANGED vars

Next == (\E m \in todo : AddCase(m) \/ NewGroup(m)) \/ Finish \/ Terminated

Spec == Init /\ [][Next]_vars

-----------------------------------------------------------------------------
Shown == Extended(DOMAIN grams, lems) \ todo
ShownAs(t) == {m \in Shown : Lids(m) = t}

(* The cases of a group are those of its lemma tuple, each as often as     *)
(* lemmas of its words make the tuple.                                     *)
HoldsCasesOf(group, t) ==
  /\ Len(group.cases) = Cardinality(ShownAs(t))
  /\ \A g \in DOMAIN grams :
       Cardinality({i \in DOMAIN group.cases : group.cases[i] = [wids |-> g, count |-> grams[g]]})
         = Cardinality({m \in ShownAs(t) : m[1] = g})

(* A lemma tuple has at most one group, in the order of the tuples, with   *)
(* every word tuple that was read as it: a group is never split.           *)
GroupedOnce ==
  /\ \A a, b \in DOMAIN out : a < b => Precedes(out[a].group.lids, out[b].group.lids)
  /\ \A a \in DOMAIN out : HoldsCasesOf(out[a].group, out[a].group.lids)
  /\ msg.cases # <<>> => HoldsCasesOf(msg, msg.lids)

(* The joint weight Wij of a lemma tuple, from the counts and the lists.   *)
Joint(t) ==
  Sum([g \in DOMAIN grams |->
         (Scale * grams[g] * Product([p \in 1..arity |-> Times(t[p], lems[g[p]])]))
           \div Product([p \in 1..arity |-> Len(lems[g[p]])])])

Closed(t) == ShownAs(t) # {} /\ (msg.cases # <<>> => t # msg.lids)

(* The threshold is applied to the whole weight of a lemma tuple: a closed *)
(* group is in the file exactly when its joint weight is above it.         *)
ThresholdOnWhole ==
  \A t \in [1..arity -> Lem] :
    Closed(t) =>
      ((\E a \in DOMAIN out : out[a].group.lids = t) <=> Joint(t) > threshold * Scale)

(* Homonyms share a count, they do not multiply it: with no threshold the  *)
(* joint weights of all groups add up to the counts of all word tuples,    *)
(* and the lemma weights to the counts of all words (example.txt).         *)
HomonymsShareCounts ==
  finished /\ threshold = 0 =>
    /\ Sum([a \in DOMAIN out |-> out[a].weight]) = Scale * Sum(grams)
    /\ Sum(lid_w) = Scale * Sum(uni)

(* No group outweighs one of its lemmas: every share of a tuple's count is *)
(* a share of the counts of its words.                                     *)
GroupWithinLemmas ==
  \A a \in DOMAIN out : \A p \in 1..arity : out[a].weight <= lid_w[out[a].group.lids[p]]

=============================================================================
