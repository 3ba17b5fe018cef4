----------------------------- MODULE Lemmatize -----------------------------
(***************************************************************************)
(* lemmatize, Lemmer::save and the two consumers that meet its files first *)
(* (load_lems and build_lem_weights) of colloc.cpp.  The words of uni.bin  *)
(* go to the language processor in chunks; the lemmas of word id are kept  *)
(* at lems[id], and the whole of lems is written to lems.bin, in which a   *)
(* record has no id but its place.                                         *)
(*                                                                         *)
(* The language processor is external: its image of a chunk has one word   *)
(* for each word of the chunk, in order, with the terms of that word.      *)
(***************************************************************************)
EXTENDS Integers, Sequences, FiniteSets

CONSTANTS
  Term,         (* what the language processor returns for a lemma         *)
  Dictionaries, (* the terms of each word: sequences of lists              *)
  ChunkWords    (* 10'000 in the code                                      *)

ASSUME LemmatizeAssumption ==
  /\ Dictionaries \subseteq Seq(Seq(Term))
  /\ ChunkWords \in Nat \ {0}

VARIABLES
  terms,    (* the language processor: the terms of each word id           *)
  uni,      (* uni.bin: the word ids, in the order of a hash map           *)
  taken,    (* how many messages read_apply has delivered                  *)
  chunk,    (* the words in `corpus': what the processor will see          *)
  wordIds,  (* their `ids'                                                 *)
  lems,     (* Lemmer::lems                                                *)
  lemid,    (* Lemmer::lemid                                               *)
  lemsFile, (* the records of lems.bin                                     *)
  phase     (* "read", "saved", "weighed", "threw"                         *)

lemVars == <<terms, uni, taken, chunk, wordIds, lems, lemid, lemsFile, phase>>

-----------------------------------------------------------------------------
ImageOf(c) == [k \in DOMAIN c |-> terms[c[k]]]

(* The places of the terms of an image, in the order of the two loops.     *)
TermPlaces(image) == UNION {{k} \X DOMAIN image[k] : k \in DOMAIN image}
Earlier(p, q) == p[1] < q[1] \/ (p[1] = q[1] /\ p[2] < q[2])

(* The places where try_emplace inserts: the first of each new term.       *)
Inserts(image) ==
  {p \in TermPlaces(image) :
     /\ image[p[1]][p[2]] \notin DOMAIN lemid
     /\ \A q \in TermPlaces(image) : Earlier(q, p) => image[q[1]][q[2]] # image[p[1]][p[2]]}

(* lemid after the two loops: a new term gets the number of terms then.    *)
Learnt(image) ==
  [x \in DOMAIN lemid \cup {image[p[1]][p[2]] : p \in Inserts(image)} |->
     IF x \in DOMAIN lemid THEN lemid[x]
     ELSE LET p == CHOOSE q \in Inserts(image) : image[q[1]][q[2]] = x
          IN  Cardinality(DOMAIN lemid) + Cardinality({q \in Inserts(image) : ~Earlier(p, q)})]

(* apply_chunk: the terms of the k-th word of the image go to *it, the     *)
(* k-th of ids.                                                            *)
ApplyChunk(c, is) ==
  LET image == ImageOf(c)
      learnt == Learnt(image)
  IN  /\ lemid' = learnt
      /\ lems' = [id \in DOMAIN lems |->
                    IF \E k \in DOMAIN image : is[k] = id
                    THEN LET k == CHOOSE n \in DOMAIN image : is[n] = id
                         IN  [j \in DOMAIN image[k] |-> learnt[image[k][j]]]
                    ELSE lems[id]]

Orders(n) == {s \in [1..n -> 1..n] : \A i, j \in 1..n : s[i] = s[j] => i = j}

LemInit ==
  /\ terms \in Dictionaries
  /\ uni \in Orders(Len(terms))
  /\ taken = 0
  /\ chunk = <<>> /\ wordIds = <<>>
  /\ lems = [id \in 1..Len(terms) |-> <<>>]
  /\ lemid = <<>>
  /\ lemsFile = <<>>
  /\ phase = "read"

(* As a bug would have it: only the text is cleared after a chunk.         *)
ReadUnigramKeepsIds ==
  /\ phase = "read" /\ taken < Len(uni)
  /\ taken' = taken + 1
  /\ LET c == Append(chunk, uni[taken + 1])
         is == Append(wordIds, uni[taken + 1])
     IN  IF (taken + 1) % ChunkWords = 0
         THEN ApplyChunk(c, is) /\ chunk' = <<>> /\ wordIds' = is
         ELSE chunk' = c /\ wordIds' = is /\ UNCHANGED <<lems, lemid>>
  /\ UNCHANGED <<terms, uni, lemsFile, phase>>

(* The callback of read_apply; i is taken + 1.                             *)
ReadUnigram ==
  /\ phase = "read" /\ taken < Len(uni)
  /\ taken' = taken + 1
  /\ LET c == Append(chunk, uni[taken + 1])
         is == Append(wordIds, uni[taken + 1])
     IN  IF (taken + 1) % ChunkWords = 0
         THEN ApplyChunk(c, is) /\ chunk' = <<>> /\ wordIds' = <<>>
         ELSE chunk' = c /\ wordIds' = is /\ UNCHANGED <<lems, lemid>>
  /\ UNCHANGED <<terms, uni, lemsFile, phase>>

(* Lemmer::save leaves out the empty lists: record k is the k-th other.    *)
NonEmpty(ls) == {id \in DOMAIN ls : ls[id] # <<>>}
Saved(ls) ==
  [k \in 1..Cardinality(NonEmpty(ls)) |->
     ls[CHOOSE id \in NonEmpty(ls) : Cardinality({i \in NonEmpty(ls) : i <= id}) = k]]

(* As a bug would have it: no apply_chunk after the loop.                  *)
FinishForgetsLast ==
  /\ phase = "read" /\ taken = Len(uni)
  /\ lemsFile' = Saved(lems)
  /\ phase' = "saved"
  /\ UNCHANGED <<terms, uni, taken, chunk, wordIds, lems, lemid>>

(* The last apply_chunk, of however many words, and lm.save.               *)
Finish ==
  /\ phase = "read" /\ taken = Len(uni)
  /\ ApplyChunk(chunk, wordIds)
  /\ lemsFile' = Saved(lems')
  /\ phase' = "saved"
  /\ UNCHANGED <<terms, uni, taken, chunk, wordIds>>

(* As a bug would have it: lems[..] in place of lems.at(..).               *)
WeighUnchecked ==
  /\ phase = "saved"
  /\ phase' = "weighed"
  /\ UNCHANGED <<terms, uni, taken, chunk, wordIds, lems, lemid, lemsFile>>

(* group_lem2: load_lems, then lems.at(id - 1) for every word of uni.bin.  *)
Weigh ==
  /\ phase = "saved"
  /\ phase' = IF \A i \in DOMAIN uni : uni[i] \in DOMAIN lemsFile THEN "weighed" ELSE "threw"
  /\ UNCHANGED <<terms, uni, taken, chunk, wordIds, lems, lemid, lemsFile>>

LemTerminated == phase \in {"weighed", "threw"} /\ UNCHANGED lemVars

LemNext == ReadUnigram \/ Finish \/ Weigh \/ LemTerminated

LemSpec == LemInit /\ [][LemNext]_lemVars

-----------------------------------------------------------------------------
(* The words whose chunk has been applied.                                 *)
Applied == {uni[i] : i \in 1..(IF phase = "read" THEN taken - Len(chunk) ELSE taken)}

(* A list of lemma ids stands for the terms of word id.                    *)
IsListOf(list, id) ==
  /\ Len(list) = Len(terms[id])
  /\ \A j \in DOMAIN list : terms[id][j] \in DOMAIN lemid /\ list[j] = lemid[terms[id][j]]

(* After every chunk the words of the chunks so far have their own lemmas  *)
(* and the others have none yet, whatever the order of uni.bin; the lemmas *)
(* so far have the ids 1, 2, ..., one each.                                *)
ChunksLandOnTheirWords ==
  /\ phase = "read" => Len(chunk) = taken % ChunkWords
  /\ \A w \in DOMAIN terms :
       IF w \in Applied THEN IsListOf(lems[w], w) ELSE lems[w] = <<>>
  /\ {lemid[x] : x \in DOMAIN lemid} = 1..Cardinality(DOMAIN lemid)

(* Where every word has a lemma, the file gives every word its lemmas:     *)
(* what lems.at(id - 1) assumes in every later stage.                      *)
LemmasOfEveryWord ==
  phase # "read" /\ (\A id \in DOMAIN terms : terms[id] # <<>>) =>
    \A id \in DOMAIN terms : id \in DOMAIN lemsFile /\ IsListOf(lemsFile[id], id)

(* A file in which a missing record has shifted the words after it is      *)
(* never used: the first stage that reads it stops.                        *)
ShiftIsNoticed ==
  phase = "weighed" =>
    \A id \in DOMAIN terms : id \in DOMAIN lemsFile /\ IsListOf(lemsFile[id], id)

=============================================================================
