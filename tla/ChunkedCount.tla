---------------------------- MODULE ChunkedCount ----------------------------
(***************************************************************************)
(* bigram_stat and trigram_stat of colloc.cpp: grams are counted in        *)
(* memory, saved as a part file every ChunkDocs documents, and the part    *)
(* files found in the parts directory are merged.  The directory outlives  *)
(* the process: the program may die anywhere and be run again.             *)
(*                                                                         *)
(* The merge is one step here, with the outcome GroupBySave establishes.   *)
(***************************************************************************)
EXTENDS Integers, Sequences, FiniteSets, Bags

CONSTANTS
  Word,         (* the word ids                                           *)
  Corpora,      (* sequences of phrases; <<>> ends a document              *)
  Reruns(_),    (* the corpora the next run may find after this one        *)
  Places(_),    (* the places of a phrase at which a gram is counted       *)
  KeyAt(_, _),  (* the gram at a place of a phrase                         *)
  Rank(_),      (* the place of a gram in the order of sort_map            *)
  ChunkDocs,    (* 40'000 in the code                                      *)
  U32,          (* counts are unsigned: 2^32 in the code                   *)
  MaxRuns       (* bound: runs of the program                              *)

ASSUME ChunkDocsAssumption ==
  ChunkDocs \in Nat \ {0} /\ U32 \in Nat \ {0} /\ MaxRuns \in Nat \ {0}

ASSUME CorporaAssumption ==
  /\ \A c \in Corpora : c \in Seq(Seq(Word)) /\ Reruns(c) \subseteq Corpora
  /\ \A c \in Corpora : \A i \in DOMAIN c : IsFiniteSet(Places(c[i]))
  /\ Places(<<>>) = {}

VARIABLES
  corpus,    (* corpus.bin                                                 *)
  next,      (* the phrase read_fn delivers next                           *)
  counts,    (* bis or triples: the grams counted since the last save      *)
  docid, chunk,
  parts,     (* the parts directory: by chunk number, a part file          *)
  result,    (* bi.bin or tri.bin                                          *)
  pc,        (* where the run is                                           *)
  runs

vars == <<corpus, next, counts, docid, chunk, parts, result, pc, runs>>

-----------------------------------------------------------------------------
(* The bag of the grams at places <<phrase, place>> of a corpus.           *)
GramsOf(c, ps) ==
  LET At(x) == KeyAt(c[x[1]], x[2])
  IN  [g \in {At(x) : x \in ps} |-> Cardinality({x \in ps : At(x) = g})]

PlacesOf(c, I) == UNION {{i} \X Places(c[i]) : i \in I}

(* What u32 and fixed32 hold of numbers: a gram stays, its count wraps.    *)
Wrapped(B) == [g \in DOMAIN B |-> B[g] % U32]

(* The counts of two bags together.  (A count may have wrapped to 0, so it *)
(* is not quite a bag any more.)                                           *)
Plus(A, B) ==
  LET Of(X, g) == IF g \in DOMAIN X THEN X[g] ELSE 0
  IN  Wrapped([g \in DOMAIN A \cup DOMAIN B |-> Of(A, g) + Of(B, g)])

(* A part file: its header may be missing, and its grams may be cut short. *)
Whole(grams) == [header |-> TRUE, grams |-> grams]
Headless == [header |-> FALSE, grams |-> EmptyBag]
UpTo(grams, n) == [g \in {h \in DOMAIN grams : Rank(h) <= n} |-> grams[g]]
Torn(grams) == {Headless} \cup {Whole(UpTo(grams, n)) : n \in {0} \cup {Rank(g) : g \in DOMAIN grams}}

WithPart(c, f) == [d \in DOMAIN parts \cup {c} |-> IF d = c THEN f ELSE parts[d]]

Init ==
  /\ corpus \in Corpora
  /\ next = 1 /\ counts = EmptyBag /\ docid = 1 /\ chunk = 1
  /\ parts = <<>>
  /\ result = Headless
  /\ pc = "read"
  /\ runs = 1

(* Off by one, as a bug would have it: docid counted before the test.      *)
ChunkFullEarly == (docid + 1) % ChunkDocs = 0

(* docid % 40'000 == 0 at the end of a document.                           *)
ChunkFull == docid % ChunkDocs = 0

Reading == pc = "read" /\ next <= Len(corpus)
EndOfDocument == corpus[next] = <<>>

Count ==
  /\ Reading /\ ~EndOfDocument
  /\ counts' = Plus(counts, GramsOf(corpus, PlacesOf(corpus, {next})))
  /\ next' = next + 1
  /\ UNCHANGED <<corpus, docid, chunk, parts, result, pc, runs>>

EndDocument ==
  /\ Reading /\ EndOfDocument /\ ~ChunkFull
  /\ docid' = docid + 1
  /\ next' = next + 1
  /\ UNCHANGED <<corpus, counts, chunk, parts, result, pc, runs>>

(* save_bi and save_tri write the sorted grams and clear the map.          *)
SaveChunk ==
  /\ parts' = WithPart(chunk, Whole(counts))
  /\ counts' = EmptyBag
  /\ chunk' = chunk + 1

EndChunk ==
  /\ Reading /\ EndOfDocument /\ ChunkFull
  /\ SaveChunk
  /\ docid' = docid + 1
  /\ next' = next + 1
  /\ UNCHANGED <<corpus, result, pc, runs>>

(* As a bug would have it: the last, incomplete chunk is not saved.        *)
FinishForgetsLast ==
  /\ pc = "read" /\ next > Len(corpus)
  /\ pc' = "merge"
  /\ UNCHANGED <<corpus, next, counts, docid, chunk, parts, result, runs>>

(* read_fn returns: the last, incomplete chunk.                            *)
Finish ==
  /\ pc = "read" /\ next > Len(corpus)
  /\ SaveChunk
  /\ pc' = "merge"
  /\ UNCHANGED <<corpus, next, docid, result, runs>>

(* The grams of the part files C of the directory ps together: a gram has  *)
(* as many copies as these files have of it.                               *)
Copies(ps, C, g) == UNION {{c} \X (1..ps[c].grams[g]) : c \in {d \in C : g \in DOMAIN ps[d].grams}}

SumOf(ps, C) == [g \in UNION {DOMAIN ps[c].grams : c \in C} |-> Cardinality(Copies(ps, C, g))]

(* merge_files over glob(dout, ..): every part file of the directory.      *)
Merged == Wrapped(SumOf(parts, DOMAIN parts))

Merge ==
  /\ pc = "merge"
  /\ \A c \in DOMAIN parts : parts[c].header
  /\ result' = Whole(Merged)
  /\ pc' = "done"
  /\ UNCHANGED <<corpus, next, counts, docid, chunk, parts, runs>>

(* IFStreamer's constructor throws before fout is opened.                  *)
MergeThrows ==
  /\ pc = "merge"
  /\ \E c \in DOMAIN parts : ~parts[c].header
  /\ pc' = "failed"
  /\ UNCHANGED <<corpus, next, counts, docid, chunk, parts, result, runs>>

(* The process dies; the file being written, if any, is left torn.         *)
Dies == runs < MaxRuns /\ pc' = "down" /\ UNCHANGED <<corpus, next, counts, docid, chunk, runs>>

CrashReading == Dies /\ pc = "read" /\ UNCHANGED <<parts, result>>

CrashSaving ==
  /\ Dies /\ pc = "read"
  /\ Reading => EndOfDocument /\ ChunkFull
  /\ \E f \in Torn(counts) : parts' = WithPart(chunk, f)
  /\ UNCHANGED result

CrashMerging ==
  /\ Dies /\ pc = "merge"
  /\ \A c \in DOMAIN parts : parts[c].header
  /\ result' \in Torn(Merged)
  /\ UNCHANGED parts

(* As a bug would have it: a run appends its parts to those it finds.      *)
RestartAppends ==
  /\ pc \in {"done", "failed", "down"}
  /\ runs < MaxRuns
  /\ runs' = runs + 1
  /\ corpus' \in Reruns(corpus)
  /\ next' = 1 /\ counts' = EmptyBag /\ docid' = 1
  /\ chunk' = Cardinality(DOMAIN parts) + 1
  /\ pc' = "read"
  /\ UNCHANGED <<parts, result>>

(* The program is run again: mkdir -p keeps the part files of former runs. *)
Restart ==
  /\ pc \in {"done", "failed", "down"}
  /\ runs < MaxRuns
  /\ runs' = runs + 1
  /\ corpus' \in Reruns(corpus)
  /\ next' = 1 /\ counts' = EmptyBag /\ docid' = 1 /\ chunk' = 1
  /\ pc' = "read"
  /\ UNCHANGED <<parts, result>>

Terminated == pc \in {"done", "failed"} /\ UNCHANGED vars

Next ==
  \/ Count \/ EndDocument \/ EndChunk \/ Finish \/ Merge \/ MergeThrows
  \/ CrashReading \/ CrashSaving \/ CrashMerging \/ Restart \/ Terminated

Spec == Init /\ [][Next]_vars

-----------------------------------------------------------------------------
(* The number of the chunk that phrase i belongs to.                       *)
ChunkOf(i) ==
  Cardinality({j \in 1..(i - 1) : corpus[j] = <<>>}) \div ChunkDocs + 1

Window(c) == {i \in 1..(next - 1) : ChunkOf(i) = c}

(* Part c of this run holds the grams of its ChunkDocs documents, and the  *)
(* map in memory those of the documents read since, modulo 2^32: no phrase *)
(* is counted in two chunks or in none.                                    *)
PartsHoldWindows ==
  pc # "down" =>
    /\ \A c \in 1..(chunk - 1) :
         /\ c \in DOMAIN parts
         /\ parts[c] = Whole(Wrapped(GramsOf(corpus, PlacesOf(corpus, Window(c)))))
    /\ counts = Wrapped(GramsOf(corpus, PlacesOf(corpus, Window(chunk))))

(* bigram_stat and trigram_stat compute the frequencies of the grams of    *)
(* the corpus they were run on, whatever earlier runs left behind.         *)
ResultIsCorpusCounts ==
  pc = "done" => result = Whole(Wrapped(GramsOf(corpus, PlacesOf(corpus, DOMAIN corpus))))

(* The part files of former runs with a higher number than this run wrote. *)
Stale == {c \in DOMAIN parts : c >= chunk}

(* What the run does compute: every occurrence of its own corpus, once,    *)
(* and besides only what former runs left in parts of higher numbers; a    *)
(* part of this run replaces, whole, a torn part of its number.  The sum   *)
(* is wrapped three times, in memory, in a part and in the merge, and      *)
(* comes out as if it were wrapped once.                                   *)
ResultIsOwnPlusStale ==
  pc = "done" =>
    result = Whole(Plus(GramsOf(corpus, PlacesOf(corpus, DOMAIN corpus)), SumOf(parts, Stale)))

(* The merge fails only on a part torn by a crash whose number this run    *)
(* did not reach: a run over no fewer documents than those before, such as *)
(* the one that repeats the run that died, replaces them all.              *)
FailsOnlyOnStale == pc = "failed" => \E c \in Stale : ~parts[c].header

=============================================================================
