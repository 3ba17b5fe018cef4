------------------------------ MODULE Pipeline ------------------------------
(***************************************************************************)
(* main of extract.cpp: eleven stages over the files of one save_dir.      *)
(* Each stage is one step here, with the outcome the module of its         *)
(* component establishes.  What is new is what the stages need of each     *)
(* other: ids that agree, files that are whole, a directory that has been  *)
(* used before.                                                            *)
(*                                                                         *)
(* Faults: the process may die in any stage and be run again, on any       *)
(* corpus, over the same save_dir; and a file may lose its tail without    *)
(* notice, since OFStreamer::Close does not look at what the last flush    *)
(* returned (a full disk).                                                 *)
(*                                                                         *)
(* Words and lemmas are their own strings.  All words are long enough for  *)
(* to_zmap, and a key is the tuple of its lemmas (ToZmap has the rest).    *)
(***************************************************************************)
EXTENDS Integers, Sequences, FiniteSets
LOCAL INSTANCE FiniteSetsExt
LOCAL INSTANCE SequencesExt
LOCAL INSTANCE Functions
LOCAL INSTANCE TLC

CONSTANTS
  Texts,       (* corpora: documents, each the sequence of its phrases     *)
  Dictionary,  (* the lemmas of each word, as the language processor gives *)
               (* them                                                     *)
  Orders(_),   (* the orders in which uni.bin may hold a set of ids        *)
  ChunkDocs,   (* 40'000 in the code                                       *)
  Threshold,   (* of group_lem: 1'000                                      *)
  Th1, Th2,    (* of the filters; Th2[a] = <<numerator, denominator>>      *)
  MinDocs,     (* of to_zmap: 2                                            *)
  Garbage,     (* what it->second may give where find returned end()       *)
  Scale,       (* weights are multiples of 1 / Scale                       *)
  MaxRuns,     (* bound: runs of the program                               *)
  MaxLosses    (* bound: files that lose their tail                        *)

ASSUME PipelineAssumption ==
  /\ \A w \in DOMAIN Dictionary : Dictionary[w] # <<>> /\ IsInjective(Dictionary[w])
  /\ ChunkDocs \in Nat \ {0} /\ MaxRuns \in Nat \ {0} /\ MaxLosses \in Nat

VARIABLES
  text,        (* what corpus_dir holds                                    *)
  at,          (* the stage under way, a place in Stages                   *)
  pc,          (* "run", "done", "failed", "down"                           *)
  disk,        (* the files of save_dir                                    *)
  parts,       (* bi_parts and tri_parts: by arity and chunk number        *)
  lost,        (* history: the files of this run that lost their tail      *)
  same,        (* history: every run so far was over this corpus           *)
  losses, runs

vars == <<text, at, pc, disk, parts, lost, same, losses, runs>>
rest == <<text, lost, same, losses, runs>>

-----------------------------------------------------------------------------
(* The stages and the files: <<name, 2>> for pairs, <<name, 3>> for        *)
(* triples (bi.bin is <<"gram", 2>>, trifreq.bin <<"freq", 3>>).           *)
Chain(a) == << <<"count", a>>, <<"group", a>>, <<"freq", a>>, <<"filter", a>> >>

Stages ==
  << <<"convert", 1>>, <<"lemmatize", 1>> >> \o Chain(2) \o Chain(3) \o << <<"to_zmap", 1>> >>

Single(names) == names \X {1}

Outputs(s) ==
  CASE s[1] = "convert" -> Single({"corpus", "uni", "total"})
    [] s[1] = "lemmatize" -> Single({"lemid", "lems"})
    [] s[1] = "count" -> {<<"gram", s[2]>>}
    [] s[1] = "group" -> {<<"extended", s[2]>>}
    [] s[1] = "freq" -> {s} \cup (IF s[2] = 2 THEN Single({"lemfreq"}) ELSE {})
    [] s[1] = "filter" -> {<<"filtered", s[2]>>}
    [] s[1] = "to_zmap" -> Single({"stat"})

Inputs(s) ==
  CASE s[1] = "convert" -> {}
    [] s[1] = "lemmatize" -> Single({"uni"})
    [] s[1] = "count" -> Single({"corpus"}) \cup (IF s[2] = 3 THEN {<<"filtered", 2>>} ELSE {})
    [] s[1] = "group" -> Single({"uni", "lems"}) \cup {<<"gram", s[2]>>}
    [] s[1] = "freq" -> Single({"corpus", "lems"}) \cup {<<"extended", s[2]>>}
    [] s[1] = "filter" -> {"freq", "extended"} \X {s[2]}
    [] s[1] = "to_zmap" -> Single({"uni", "lemid", "lemfreq", "total"}) \cup {"freq", "filtered"} \X {2, 3}

Files == UNION {Outputs(Stages[i]) : i \in DOMAIN Stages}

(* A file: a header, which holds a number, and records; or no header.      *)
File(total, recs) == [ok |-> TRUE, total |-> total, recs |-> recs]
Torn == [ok |-> FALSE, total |-> 0, recs |-> <<>>]

Recs(name, a) == disk[<<name, a>>].recs
Readable(s) == \A f \in Inputs(s) : disk[f].ok

Is(name, a) == pc = "run" /\ Stages[at] = <<name, a>> /\ Readable(<<name, a>>)

(* The stage returns; the files in new are written.                        *)
Return(new) ==
  /\ disk' = new @@ disk
  /\ at' = IF at = Len(Stages) THEN at ELSE at + 1
  /\ pc' = IF at = Len(Stages) THEN "done" ELSE "run"

Fail == pc' = "failed" /\ UNCHANGED <<at, disk>>

(* IFStreamer's constructor throws.                                        *)
Unreadable ==
  /\ pc = "run" /\ ~Readable(Stages[at])
  /\ Fail
  /\ UNCHANGED <<parts, rest>>

Init ==
  /\ text \in Texts
  /\ at = 1 /\ pc = "run"
  /\ disk = [f \in Files |-> Torn]
  /\ parts = [a \in {2, 3} |-> <<>>]
  /\ lost = {} /\ same = TRUE
  /\ losses = 0 /\ runs = 1

-----------------------------------------------------------------------------
(* convert: ids in the order of first occurrence, and an empty phrase      *)
(* after each document (Convert).                                          *)
WordsOf(t) == FlattenSeq(FlattenSeq(t))

Convert ==
  /\ Is("convert", 1)
  /\ LET all == WordsOf(text)
         firsts == SetToSortSeq({i \in DOMAIN all : \A j \in 1..(i - 1) : all[j] # all[i]}, <)
         id == [w \in ToSet(all) |-> CHOOSE k \in DOMAIN firsts : all[firsts[k]] = w]
         WithIds(doc) == [p \in DOMAIN doc |-> [i \in DOMAIN doc[p] |-> id[doc[p][i]]]] \o << <<>> >>
         uni == [k \in DOMAIN firsts |->
                   LET w == all[firsts[k]]
                   IN  [str |-> w, weight |-> Cardinality({i \in DOMAIN all : all[i] = w})]]
     IN  Return(<<"corpus", 1>> :> File(0, FlattenSeq([d \in DOMAIN text |-> WithIds(text[d])]))
                @@ <<"uni", 1>> :> File(Len(uni), uni)
                @@ <<"total", 1>> :> File(0, <<Len(text)>>))
  /\ UNCHANGED <<parts, rest>>

(* As a bug would have it: the empty lists are written too.                *)
SavedAll(lems) == lems

(* lemmatize: the lemmas learnt in the order of uni.bin, and for each id   *)
(* the list of its lemmas, the empty ones left out (Lemmatize).            *)
Saved(lems) == SelectSeq(lems, LAMBDA l : l # <<>>)

LemmatizeWords ==
  /\ Is("lemmatize", 1)
  /\ \E order \in Orders(DOMAIN Recs("uni", 1)) :
       LET ls == FlattenSeq([k \in DOMAIN order |-> Dictionary[Recs("uni", 1)[order[k]].str]])
           firsts == SetToSortSeq({i \in DOMAIN ls : \A j \in 1..(i - 1) : ls[j] # ls[i]}, <)
           lemid == [k \in DOMAIN firsts |-> ls[firsts[k]]]
           Lid(l) == CHOOSE k \in DOMAIN lemid : lemid[k] = l
           LidsOf(id) ==
             IF id \in DOMAIN Recs("uni", 1)
             THEN LET d == Dictionary[Recs("uni", 1)[id].str] IN [i \in DOMAIN d |-> Lid(d[i])]
             ELSE <<>>
           lems == [id \in 1..disk[<<"uni", 1>>].total |-> LidsOf(id)]
       IN  Return(<<"lemid", 1>> :> File(Len(lemid), lemid)
                  @@ <<"lems", 1>> :> File(Len(lems), Saved(lems)))
  /\ UNCHANGED <<parts, rest>>

(* bigram_stat and trigram_stat: a part file for every ChunkDocs documents *)
(* and one for the rest, then the sum of all parts of the directory        *)
(* (ChunkedCount, GroupBySave); of the triples those TrigramScan wants.    *)
Scan(biwids) ==
  INSTANCE TrigramScan
    WITH Vocabulary <- {}, Texts <- {}, text <- Recs("corpus", 1), biwids <- biwids,
         phrase <- 0, it1 <- 0, found <- FALSE, triples <- <<>>, counted <- {}

BiWids ==
  UNION {DOMAIN Recs("filtered", 2)[g].cases : g \in DOMAIN Recs("filtered", 2)}

Places(a) ==
  IF a = 2 THEN UNION {{i} \X (1..(Len(Recs("corpus", 1)[i]) - 1)) : i \in DOMAIN Recs("corpus", 1)}
  ELSE Scan(BiWids)!Wanted

GramAt(x, a) == SubSeq(Recs("corpus", 1)[x[1]], x[2], x[2] + a - 1)

ChunkOf(i) == Cardinality({j \in 1..(i - 1) : Recs("corpus", 1)[j] = <<>>}) \div ChunkDocs + 1

OwnChunks == 1..(Cardinality({i \in DOMAIN Recs("corpus", 1) : Recs("corpus", 1)[i] = <<>>}) \div ChunkDocs + 1)

OwnPart(a, c) ==
  LET ps == {x \in Places(a) : ChunkOf(x[1]) = c}
  IN  [g \in {GramAt(x, a) : x \in ps} |-> Cardinality({x \in ps : GramAt(x, a) = g})]

(* As a bug would have it: a part file that is there is not written again. *)
PartsOnce(a, chunks) == parts[a] @@ [c \in chunks |-> File(0, OwnPart(a, c))]

Parts(a, chunks) == [c \in chunks |-> File(0, OwnPart(a, c))] @@ parts[a]

Weight(f, g) == IF g \in DOMAIN f.recs THEN f.recs[g] ELSE 0

Merged(ps) ==
  [g \in UNION {DOMAIN ps[c].recs : c \in DOMAIN ps} |->
     MapThenSumSet(LAMBDA c : Weight(ps[c], g), DOMAIN ps)]

(* The directory holds ps when the parts are merged.                       *)
Merge(a, ps) ==
  /\ parts' = [parts EXCEPT ![a] = ps]
  /\ IF \A c \in DOMAIN ps : ps[c].ok
     THEN Return(<<"gram", a>> :> File(0, Merged(ps)))
     ELSE Fail

Count(a) == Is("count", a) /\ Merge(a, Parts(a, OwnChunks)) /\ UNCHANGED rest

-----------------------------------------------------------------------------
(* group_lem2 and group_lem3 (GroupLem); lems.at throws for a word that    *)
(* has no record.                                                          *)
Extendable(a) ==
  {g \in DOMAIN Recs("gram", a) : \A p \in 1..a : Recs("lems", 1)[g[p]] # <<>>}

Groups(a) ==
  INSTANCE GroupLem
    WITH Lem <- {}, Jobs <- {}, LemLists <- {},
         arity <- a, threshold <- Threshold,
         uni <- [id \in DOMAIN Recs("uni", 1) |-> Recs("uni", 1)[id].weight],
         grams <- Restrict(Recs("gram", a), Extendable(a)), lems <- Recs("lems", 1),
         lid_w <- <<>>, todo <- {}, msg <- <<>>, weight <- 0, out <- <<>>, finished <- TRUE

LidWeights ==
  Groups(2)!LemWeights([id \in DOMAIN Recs("uni", 1) |-> Recs("uni", 1)[id].weight], Recs("lems", 1))

(* score = |lid_w|^(a-1) * (Wij - threshold) / (Wi * Wj), as a fraction of *)
(* integers.                                                               *)
ScoreOf(t, joint, lw) ==
  LET n == Cardinality(DOMAIN lw) * Scale
  IN  [num |-> n^(Len(t) - 1) * (joint - Threshold * Scale),
       den |-> FoldFunction(LAMBDA l, r : lw[l] * r, 1, t)]

IdsKnown(a) ==
  LET used == DOMAIN Recs("uni", 1) \cup UNION {ToSet(g) : g \in DOMAIN Recs("gram", a)}
  IN  used \subseteq DOMAIN Recs("lems", 1)

ReadingsOf(g) ==
  LET ll == Recs("lems", 1)
  IN  IF Len(g) = 2 THEN ToSet(ll[g[1]]) \X ToSet(ll[g[2]])
      ELSE ToSet(ll[g[1]]) \X ToSet(ll[g[2]]) \X ToSet(ll[g[3]])

GroupOf(t, lw) ==
  LET grams == Recs("gram", Len(t))
  IN  [cases |-> Restrict(grams, {g \in DOMAIN grams : t \in ReadingsOf(g)}),
       score |-> ScoreOf(t, Groups(Len(t))!Joint(t), lw)]

GroupLemmas(a) ==
  /\ Is("group", a)
  /\ IF IdsKnown(a)
     THEN LET lw == LidWeights
              written == {t \in UNION {ReadingsOf(g) : g \in DOMAIN Recs("gram", a)} :
                            Groups(a)!Joint(t) > Threshold * Scale}
          IN  Return(<<"extended", a>> :> File(0, [t \in written |-> GroupOf(t, lw)]))
     ELSE Fail
  /\ UNCHANGED <<parts, rest>>

(* bifreq_stat and trifreq_stat (DocFreq): the documents of each group and *)
(* of each lemma, the two checks, and the strings of lemid.bin.            *)
NoTuples(n) == {}
NoScore(g) == 0

Docs(a) ==
  INSTANCE DocFreq
    WITH Word <- {}, Lemma <- {}, Arities <- {}, Corpora <- {}, LemLists <- {}, Strangers <- NoTuples, Score <- NoScore, Th2 <- 0,
         arity <- a, corpus <- Recs("corpus", 1), lems <- Recs("lems", 1), extended <- {},
         next <- Len(Recs("corpus", 1)) + 1, uniset <- {}, set <- {}, uni <- <<>>, freq <- <<>>,
         pc <- "", todo <- {}, filtered <- <<>>

(* As a bug would have it: phrases are counted, not documents.             *)
TuplePhrases(t) ==
  Cardinality({i \in DOMAIN Recs("corpus", 1) : Docs(Len(t))!OccursIn(t, Recs("corpus", 1)[i])})

TupleDocs(t) ==
  LET Occurs(x, ph) == Docs(Len(t))!OccursIn(x, ph) IN Cardinality(Docs(2)!DocsWith(Occurs, t))
LemmaDocs(l) ==
  LET Occurs(x, ph) == Docs(2)!LemmaIn(x, ph) IN Cardinality(Docs(2)!DocsWith(Occurs, l))

(* As a bug would have it: lems.at(id), not lems.at(id - 1).               *)
CorpusKnownFromZero ==
  \A i \in DOMAIN Recs("corpus", 1) : \A k \in DOMAIN Recs("corpus", 1)[i] :
    Recs("corpus", 1)[i][k] \in 0..(Len(Recs("lems", 1)) - 1)

CorpusKnown ==
  UNION {ToSet(Recs("corpus", 1)[i]) : i \in DOMAIN Recs("corpus", 1)} \subseteq DOMAIN Recs("lems", 1)

(* The count of every group, if none is zero.                              *)
Frequencies(a) == [t \in DOMAIN Recs("extended", a) |-> TupleDocs(t)]
Counted(a) == CorpusKnown /\ \A t \in DOMAIN Frequencies(a) : Frequencies(a)[t] # 0

LemFreq ==
  [l \in DOMAIN Recs("lemid", 1) |-> [str |-> Recs("lemid", 1)[l], weight |-> LemmaDocs(l)]]

TripleFrequencies ==
  /\ Is("freq", 3)
  /\ IF Counted(3) THEN Return(<<"freq", 3>> :> File(0, Frequencies(3))) ELSE Fail
  /\ UNCHANGED <<parts, rest>>

(* merge_unifreq may throw when bifreq.bin has been written.               *)
PairFrequencies ==
  /\ Is("freq", 2)
  /\ IF ~Counted(2) THEN Fail
     ELSE LET bifreq == <<"freq", 2>> :> File(0, Frequencies(2))
              lemid == disk[<<"lemid", 1>>]
          IN  IF lemid.ok /\ lemid.total = Cardinality(Docs(2)!LemIds)
              THEN Return(bifreq @@ <<"lemfreq", 1>> :> File(0, LemFreq))
              ELSE pc' = "failed" /\ disk' = bifreq @@ disk /\ UNCHANGED at
  /\ UNCHANGED <<parts, rest>>

(* filter_bilems and filter_trilems (DocFreq).  A group that has no count  *)
(* is kept or dropped by whatever lies behind the table.                   *)
Above(score, th) == score.num * th[2] > th[1] * score.den

(* As a bug would have it: the thresholds are alternatives.                *)
FilterEither(a) ==
  /\ Is("filter", a)
  /\ LET ext == Recs("extended", a)
         stable == {t \in DOMAIN ext : Above(ext[t].score, Th2[a])}
         frequent == {t \in DOMAIN Recs("freq", a) : Recs("freq", a)[t] > Th1}
     IN  Return(<<"filtered", a>> :> File(0, Restrict(ext, stable \cup frequent)))
  /\ UNCHANGED <<parts, rest>>

Filter(a) ==
  /\ Is("filter", a)
  /\ LET ext == Recs("extended", a)
         stable == {t \in DOMAIN ext : Above(ext[t].score, Th2[a])}
         frequent == {t \in DOMAIN Recs("freq", a) : Recs("freq", a)[t] > Th1}
     IN  \E unknown \in SUBSET (stable \ DOMAIN Recs("freq", a)) :
           Return(<<"filtered", a>> :> File(0, Restrict(ext, (stable \cap frequent) \cup unknown)))
  /\ UNCHANGED <<parts, rest>>

(* to_zmap (ToZmap).  The text of an entry is one of the most frequent     *)
(* cases: the entry holds the set of them.                                 *)
Kept == DOMAIN Recs("filtered", 2) \cup DOMAIN Recs("filtered", 3)
Known == DOMAIN Recs("freq", 2) \cup DOMAIN Recs("freq", 3)

LemStrs(t) == [p \in DOMAIN t |-> Recs("lemid", 1)[t[p]]]
WordStrs(g) == [p \in DOMAIN g |-> Recs("uni", 1)[g[p]].str]

MostFrequent(cases) == {g \in DOMAIN cases : \A h \in DOMAIN cases : cases[h] <= cases[g]}

(* What set_zmap is called with, before the map makes one entry of a key.  *)
SingleRows ==
  {[key |-> <<m.str>>, dc |-> m.weight, txt |-> {}] :
     m \in {Recs("lemfreq", 1)[l] : l \in DOMAIN Recs("lemfreq", 1)}}

TupleRow(t, dc) ==
  LET cases == Recs("filtered", Len(t))[t].cases
  IN  [key |-> LemStrs(t), dc |-> dc, txt |-> {WordStrs(g) : g \in MostFrequent(cases)}]

AsMap(rows) ==
  [k \in {r.key : r \in rows} |->
     LET r == CHOOSE x \in rows : x.key = k IN [dc |-> r.dc, txt |-> r.txt]]

Export ==
  /\ Is("to_zmap", 1)
  /\ \E garbage \in [Kept \ Known -> Garbage] :
       LET dc == garbage @@ Recs("freq", 2) @@ Recs("freq", 3)
           rows == {r \in SingleRows : r.dc > MinDocs} \cup {TupleRow(t, dc[t]) : t \in Kept}
       IN  IF \A t \in Kept : dc[t] # 0 /\ ToSet(t) \subseteq DOMAIN Recs("lemid", 1)
           THEN Return(<<"stat", 1>> :>
                         File(0, <<[total_count |-> Recs("total", 1)[1], terms |-> AsMap(rows)]>>))
           ELSE Fail
  /\ UNCHANGED <<parts, rest>>

(* A signal where find(..)->second reads behind the table.                 *)
Killed ==
  /\ pc = "run"
  /\ \/ Is("to_zmap", 1) /\ Kept \ Known # {}
     \/ \E a \in {2, 3} : Is("filter", a) /\ ~(DOMAIN Recs("extended", a) \subseteq DOMAIN Recs("freq", a))
  /\ Fail
  /\ UNCHANGED <<parts, rest>>

Stage ==
  \/ Convert \/ LemmatizeWords \/ PairFrequencies \/ TripleFrequencies \/ Export \/ Killed \/ Unreadable
  \/ \E a \in {2, 3} : Count(a) \/ GroupLemmas(a) \/ Filter(a)

-----------------------------------------------------------------------------
(* The process dies.  A file of the stage under way is as it was, or has   *)
(* no header, or has all of it (the next run writes it again before it     *)
(* reads it); of the part files some are whole and the next is torn.       *)
TornPart(f) ==
  {Torn} \cup {[f EXCEPT !.recs = Restrict(f.recs, DOMAIN f.recs \ {g})] : g \in DOMAIN f.recs}

Dies ==
  /\ pc = "run" /\ runs < MaxRuns
  /\ pc' = "down"
  /\ \E S \in SUBSET Outputs(Stages[at]) : disk' = [f \in S |-> Torn] @@ disk
  /\ UNCHANGED <<at, parts, rest>>

DiesInPart(a) ==
  /\ Is("count", a) /\ runs < MaxRuns
  /\ pc' = "down"
  /\ \E c \in OwnChunks : \E torn \in TornPart(File(0, OwnPart(a, c))) :
       parts' = [parts EXCEPT ![a] = c :> torn @@ Parts(a, 1..(c - 1))]
  /\ UNCHANGED <<at, disk, rest>>

(* As a bug would have it: a run goes on with the stage the last one died  *)
(* in.                                                                     *)
RestartResumes ==
  /\ pc # "run" /\ runs < MaxRuns
  /\ text' \in Texts
  /\ at' = at /\ pc' = "run"
  /\ lost' = {} /\ same' = (same /\ text' = text)
  /\ runs' = runs + 1
  /\ UNCHANGED <<disk, parts, losses>>

(* The program is run again, from the first stage.                         *)
Restart ==
  /\ pc # "run" /\ runs < MaxRuns
  /\ text' \in Texts
  /\ at' = 1 /\ pc' = "run"
  /\ lost' = {} /\ same' = (same /\ text' = text)
  /\ runs' = runs + 1
  /\ UNCHANGED <<disk, parts, losses>>

(* The last flush of a file the stage before has written fails: some       *)
(* record is missing, of lems.bin the last one, of total_count.txt all.    *)
(* The header, and the number in it, were flushed before, or are missing.  *)
(* capnp throws when a write fails, so corpus.bin cannot lose its tail.    *)
Shortened(f) ==
  IF f = <<"total", 1>> THEN {[disk[f] EXCEPT !.recs = <<0>>]}
  ELSE IF disk[f].recs = <<>> THEN {}
  ELSE IF f = <<"lems", 1>> THEN {[disk[f] EXCEPT !.recs = Front(@)], Torn}
  ELSE {Torn} \cup {[disk[f] EXCEPT !.recs = Restrict(@, DOMAIN @ \ {x})] : x \in DOMAIN disk[f].recs}

LosesTail ==
  /\ pc = "run" /\ at > 1 /\ losses < MaxLosses
  /\ \E f \in Outputs(Stages[at - 1]) \ Single({"corpus"}) :
       /\ \E short \in Shortened(f) : disk' = [disk EXCEPT ![f] = short]
       /\ lost' = lost \cup {f}
  /\ losses' = losses + 1
  /\ UNCHANGED <<text, at, pc, parts, same, runs>>

(* So may that of a part file, before the parts are merged.                *)
CountLosesTail(a) ==
  /\ Is("count", a) /\ losses < MaxLosses
  /\ \E c \in OwnChunks : \E short \in TornPart(File(0, OwnPart(a, c))) :
       Merge(a, [Parts(a, OwnChunks) EXCEPT ![c] = short])
  /\ lost' = lost \cup {<<"part", a>>}
  /\ losses' = losses + 1
  /\ UNCHANGED <<text, same, runs>>

Terminated == pc \in {"done", "failed"} /\ UNCHANGED vars

Next ==
  \/ Stage
  \/ Dies \/ LosesTail \/ \E a \in {2, 3} : DiesInPart(a) \/ CountLosesTail(a)
  \/ Restart \/ Terminated

Spec == Init /\ [][Next]_vars

-----------------------------------------------------------------------------
(* What is promised: the table of each corpus.                             *)
Promise(t) == INSTANCE CollocTable WITH Text <- t

Tables == [t \in Texts |-> Promise(t)!Table]
Table == Tables[text]
Df(t) == Promise(text)!Df(t)

(* Part files that this run does not replace.                              *)
Stale(a) == {c \in DOMAIN parts[a] : c > Len(text) \div ChunkDocs + 1}
NoneStale == Stale(2) = {} /\ Stale(3) = {}

Done == pc = "done"
Exported == Recs("stat", 1)[1]
Terms == Exported.terms
Freqs == {"freq"} \X {2, 3}

(* The exported table is the one of the text, whatever corpora were run    *)
(* over the directory before and wherever those runs died, unless they     *)
(* left part files of higher numbers or a write was lost.                  *)
TableIsOfTheText ==
  Done /\ NoneStale /\ lost = {} =>
    Exported = [total_count |-> Len(text), terms |-> Table]

(* Whatever part files are counted in and whatever file lost its tail, the *)
(* number of an exported entry is that of the documents of this text with  *)
(* it, unless it is a file of these numbers that lost some.  (Of the total *)
(* nothing is said: a total_count.txt that lost its tail counts 0.)        *)
CountsAreTrue ==
  Done /\ lost \cap Freqs = {} => \A t \in DOMAIN Terms : Terms[t].dc = Df(t)

(* A lost write removes entries, it adds none.  (It may change the text of *)
(* one: the case that was the most frequent has lost its count.)           *)
LossOnlyRemoves ==
  Done /\ NoneStale /\ lost \cap Freqs = {} => DOMAIN Terms \subseteq DOMAIN Table

(* A run that ends with a table has had whole words and lemmas: the loss   *)
(* of either is noticed, by bifreq_stat at the latest.                     *)
ShiftNeverExported == Done => lost \cap Single({"uni", "lems"}) = {}

(* A run fails only for stale parts or a lost write: no whole text is      *)
(* refused, and no torn file of a run that died is read.                   *)
FailsOnlyOnFaults == pc = "failed" => ~NoneStale \/ lost # {}

(* A run that died is made good by running the program on the same corpus  *)
(* again: no part is stale then, the torn ones are replaced, and it ends   *)
(* with a table.                                                           *)
SameCorpusRecovers ==
  same /\ losses = 0 => NoneStale /\ pc # "failed"

=============================================================================
