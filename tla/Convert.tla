------------------------------ MODULE Convert ------------------------------
(***************************************************************************)
(* convert of colloc.cpp with UnigramCounts: every document of every zip   *)
(* file is cut into words, the words get identifiers, and corpus.bin gets  *)
(* the identifiers phrase by phrase, an empty phrase after each document.  *)
(* The function that reads a zip file is the fn of ListFiles: the walk     *)
(* waits while it runs.                                                    *)
(*                                                                         *)
(* A document is the sequence of the tokens that WordBreakDocument finds   *)
(* in it: words, and Junk for all that update_word ignores (punctuation,   *)
(* long words, anything with a letter that is not Russian).                *)
(***************************************************************************)
EXTENDS ListFiles

CONSTANTS
  Word, Junk,
  ZipContents, (* zip files: sequences of documents                        *)
  Unreadable   (* a zip file minizip cannot read                           *)

ASSUME ConvertAssumption ==
  /\ Junk \notin Word
  /\ ZipContents \ {Unreadable} \subseteq Seq(Seq(Word \cup {Junk}))

VARIABLES
  docsOf,      (* the zip file behind each name                            *)
  inZip,       (* fn is running, for the last file called                  *)
  d, t,        (* its document and the token in progress                   *)
  table,       (* UnigramCounts: word to [id, weight]                      *)
  ids, empty,  (* the locals of update                                     *)
  corpus,      (* corpus.bin                                               *)
  total_count,
  pc           (* "read", "saved" (uni.bin and total_count.txt), "threw"   *)

words == <<table, ids, empty, corpus, total_count>>
cvars == <<listVars, docsOf, inZip, d, t, words, pc>>

-----------------------------------------------------------------------------
CInit ==
  /\ ListInit
  /\ docsOf \in [MatchingFiles -> ZipContents]
  /\ inZip = FALSE /\ d = 1 /\ t = 1
  /\ table = <<>>
  /\ ids = <<>> /\ empty = TRUE
  /\ corpus = <<>>
  /\ total_count = 0
  /\ pc = "read"

CurrentFile == called[Len(called)]
ZipFile == docsOf[CurrentFile]
Opened == pc = "read" /\ inZip /\ ZipFile # Unreadable
InDocs == Opened /\ d <= Len(ZipFile)
Doc == ZipFile[d]
InDoc == InDocs /\ Doc # <<>> /\ t <= Len(Doc)

(* The walk up to the next call of fn.                                     *)
Walk ==
  /\ pc = "read" /\ ~inZip
  /\ SkipEntry \/ Enter \/ SkipFile \/ LeaveEarly \/ Leave
  /\ UNCHANGED <<docsOf, inZip, d, t, words, pc>>

OpenZip ==
  /\ pc = "read" /\ ~inZip
  /\ Call
  /\ inZip' = TRUE /\ d' = 1
  /\ UNCHANGED <<docsOf, t, words, pc>>

(* As a bug would have it: the id is the number of words before this one.  *)
UpdateWordFromZero(w) ==
  [v \in DOMAIN table \cup {w} |->
     IF v = w
     THEN IF w \in DOMAIN table THEN [table[w] EXCEPT !.weight = @ + 1]
          ELSE [id |-> Cardinality(DOMAIN table), weight |-> 1]
     ELSE table[v]]

(* update_word: try_emplace(word, size() + 1), weight++.                   *)
UpdateWord(w) ==
  [v \in DOMAIN table \cup {w} |->
     IF v = w
     THEN IF w \in DOMAIN table THEN [table[w] EXCEPT !.weight = @ + 1]
          ELSE [id |-> Cardinality(DOMAIN table) + 1, weight |-> 1]
     ELSE table[v]]

(* write_phrase, for a phrase that has words.                              *)
WithPhrase == IF ids # <<>> THEN Append(corpus, ids) ELSE corpus

ReadWord ==
  /\ InDoc /\ Doc[t] # Junk
  /\ table' = UpdateWord(Doc[t])
  /\ ids' = Append(ids, table'[Doc[t]].id)
  /\ empty' = FALSE
  /\ t' = t + 1
  /\ UNCHANGED <<listVars, docsOf, inZip, d, corpus, total_count, pc>>

(* As a bug would have it: ids is not cleared.                             *)
ReadJunkKeepsIds ==
  /\ InDoc /\ Doc[t] = Junk
  /\ corpus' = WithPhrase
  /\ t' = t + 1
  /\ UNCHANGED <<listVars, docsOf, inZip, d, table, ids, empty, total_count, pc>>

ReadJunk ==
  /\ InDoc /\ Doc[t] = Junk
  /\ corpus' = WithPhrase
  /\ ids' = <<>>
  /\ t' = t + 1
  /\ UNCHANGED <<listVars, docsOf, inZip, d, table, empty, total_count, pc>>

(* As a bug would have it: every document is counted, with words or not.   *)
EndDocumentCounts ==
  /\ InDocs /\ Doc # <<>> /\ t > Len(Doc)
  /\ corpus' = IF empty THEN WithPhrase ELSE Append(WithPhrase, <<>>)
  /\ total_count' = total_count + 1
  /\ ids' = <<>> /\ empty' = TRUE
  /\ d' = d + 1 /\ t' = 1
  /\ UNCHANGED <<listVars, docsOf, inZip, table, pc>>

(* The last phrase, the empty phrase of a document that has words, and     *)
(* what update returns; the locals are fresh for the next document.        *)
EndDocument ==
  /\ InDocs /\ Doc # <<>> /\ t > Len(Doc)
  /\ corpus' = IF empty THEN WithPhrase ELSE Append(WithPhrase, <<>>)
  /\ total_count' = IF empty THEN total_count ELSE total_count + 1
  /\ ids' = <<>> /\ empty' = TRUE
  /\ d' = d + 1 /\ t' = 1
  /\ UNCHANGED <<listVars, docsOf, inZip, table, pc>>

(* fn returns: after the last document of the zip file, or from an empty   *)
(* one (doc.length() == 0), whatever follows it.                           *)
CloseZip ==
  /\ Opened
  /\ InDocs => Doc = <<>>
  /\ inZip' = FALSE
  /\ UNCHANGED <<listVars, docsOf, d, t, words, pc>>

(* GetDocsContents throws; nobody catches it.                              *)
ZipThrows ==
  /\ pc = "read" /\ inZip /\ ZipFile = Unreadable
  /\ pc' = "threw"
  /\ UNCHANGED <<listVars, docsOf, inZip, d, t, words>>

(* listFiles has returned: save_uni, total_count.txt.                      *)
Save ==
  /\ pc = "read" /\ ~inZip /\ Returned
  /\ pc' = "saved"
  /\ UNCHANGED <<listVars, docsOf, inZip, d, t, words>>

CTerminated == pc \in {"saved", "threw"} /\ UNCHANGED cvars

CNext ==
  \/ Walk \/ OpenZip \/ ReadWord \/ ReadJunk \/ EndDocument
  \/ CloseZip \/ ZipThrows \/ Save \/ CTerminated

CSpec == CInit /\ [][CNext]_cvars

-----------------------------------------------------------------------------
(* The identifiers are 1, 2, ..., one for each word: lemmatize keeps the   *)
(* lemmas of word id at place id - 1 of a vector of as many places.        *)
IdsDense ==
  {table[w].id : w \in DOMAIN table} = 1..Cardinality(DOMAIN table)

(* The phrases of a document: its longest runs of words.                   *)
RunStarts(doc) ==
  {i \in DOMAIN doc : doc[i] # Junk /\ (i = 1 \/ doc[i - 1] = Junk)}

RunFrom(doc, i) ==
  [k \in {n \in 1..(Len(doc) + 1 - i) : \A j \in i..(i + n - 1) : doc[j] # Junk} |-> doc[i + k - 1]]

(* Where they start, and the place behind the document for the empty one.  *)
PhraseStarts(doc) ==
  RunStarts(doc) \cup (IF RunStarts(doc) = {} THEN {} ELSE {Len(doc) + 1})

(* What fn reads of a zip file: the documents before the first empty one.  *)
DocsRead(f) ==
  IF docsOf[f] = Unreadable THEN {}
  ELSE {k \in DOMAIN docsOf[f] : \A j \in 1..k : docsOf[f][j] # <<>>}

(* The phrases of the zip files in F: of which file, of which document,    *)
(* and where it starts, in the order of the text.                          *)
PhrasesOf(F) ==
  UNION {UNION {{<<f, k, i>> : i \in PhraseStarts(docsOf[f][k])} : k \in DocsRead(f)} : f \in F}

Ahead(p, q) ==
  \/ p[1] < q[1]
  \/ p[1] = q[1] /\ p[2] < q[2]
  \/ p[1] = q[1] /\ p[2] = q[2] /\ p[3] < q[3]

(* The phrase of p, as the identifiers of its words.                       *)
IdsOf(p) ==
  LET run == RunFrom(docsOf[p[1]][p[2]], p[3]) IN [k \in DOMAIN run |-> table[run[k]].id]

(* corpus holds the phrases in S, each once, in the order of the text.     *)
Holds(S) ==
  /\ Len(corpus) = Cardinality(S)
  /\ \A p \in S : corpus[Cardinality({q \in S : ~Ahead(p, q)})] = IdsOf(p)

(* When the corpus is converted, corpus.bin holds the documents of the zip *)
(* files of the window, each zip file up to its first empty document.      *)
NothingElseLost == pc = "saved" => Holds(PhrasesOf(Window))

(* total_count.txt, the number of documents the exported frequencies are   *)
(* measured against, is the number of documents the later stages will see. *)
TotalCountsDocuments ==
  total_count = Cardinality({i \in DOMAIN corpus : corpus[i] = <<>>})

=============================================================================
