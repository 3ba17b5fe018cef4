# A model of colloc

colloc extracts stable word pairs and triples from a corpus of books.  One
process, `colloc_extract corpus_dir save_dir` (`src/src/extract.cpp`), runs
eleven stages one after the other; every stage reads files of `save_dir` that
earlier stages wrote and writes its own.  It has no threads (the script that
prepares the corpus, `src/convert.pl`, forks workers): what is hard is the order
of merges and groups across part files, state that survives from one callback to
the next, files that survive from one run to the next, and the long-distance
agreements between stages (word ids, lemma ids, one record per
word, one end mark per document) that no type checks.

## Components

| component | code | state | operations |
|---|---|---|---|
| streams | `streamer.hpp` | descriptor, protobuf stream | open and check the header, read, write, close; Transformer: queue, `keep` |
| k-way merge | `kmerge.hpp` 32-116 | readers, priority queue, `good` | begin, `*it`, `++it`, `it != end()` |
| external sort | `kmerge.hpp` 122-199 | `buf`, `nChunks`, `save_dir` | construct, sort_unstable, sort_save |
| grouping merge | `kmerge.hpp` 201-246 | `prev`, `is_start` | groupby_save, merge_files |
| conversion | `colloc.cpp` 25-164 | word table, `corpus.bin` | update_word, update, convert, save_uni |
| lemmatizer | `colloc.cpp` 198-288 | `lemid`, `lems` | lemmatize, Lemmer::save, load_lems |
| pair and triple counts | `colloc.cpp` 316-349, 544-591 | `bis`/`triples`, `docid`, `chunk`, parts directory | callback, save_chunk, merge |
| triple scan | `colloc.cpp` 556-587 | `found`, `it1`, `it2` | the loop over a phrase |
| lemma groups | `colloc.cpp` 351-450, 593-686 | `msg`, `weight`, `lid_w` | extend_*, build_lem_weights, write_one |
| document frequencies | `colloc.cpp` 290-310, 452-502, 688-738 | `uniset`, `biset`, `triset`, `uni`, `bi`, `tri` | callback, increment, check, save |
| filters | `colloc.cpp` 504-540, 740-762 | `freqs` | filter_bilems, filter_trilems |
| export | `tools.cpp` 181-346 | maps of ids to strings | to_zmap |
| file walk | `tools.cpp` 23-90 | `counter`, the recursion | system_exec, listFiles, glob |
| pipeline | `extract.cpp` | `save_dir` | the eleven stages, one after the other |
| conversion script | `convert.pl` | the directory of zip files, the workers' ranges | to_txt, archive, unarchive |

How they interact:

- **Callbacks.** `listFiles` calls the lambda of `convert` for every zip file;
  `read_fn` and `read_apply` call the lambda of a stage for every message of a
  file.  A stage keeps its state in locals the lambda captures.
- **Streams.** A stage that regroups its input reads it through a `Transformer`
  (one message becomes several), has an `ExternalSorter` cut it into sorted part
  files and takes the messages back, in order, from a `KMerge`.  The counting
  stages write the part files themselves and have `groupby_save` add them up.
- **Files.** `uni.bin` and `corpus.bin` (convert) → `lemid.bin`, `lems.bin`
  (lemmatize) → `bi.bin` (bigram_stat) → `extended2.bin` (group_lem2) →
  the document counts (bifreq_stat) → `bifiltered.bin` (filter_bilems) → the
  pairs trigram_stat looks for → the same chain for triples → to_zmap.

What makes each component correct:

| component | correct when |
|---|---|
| k-way merge | the loop body sees every message of every file, once, in the comparator's order, and the loop ends |
| grouping merge | the output has each id once, in order, with the total (mod 2^32) of its weights |
| external sort | whatever the limit, the old directory and the expansion, the caller sees the transformed stream, sorted |
| streams | read returns false only at the end of the file |
| conversion | `corpus.bin` is the text, cut where the text is cut; ids are 1..n; weights, end marks and the total count agree with it |
| lemmatizer | record k of `lems.bin` holds the lemmas of word k |
| pair and triple counts | the result holds the counts of this corpus, whatever the parts directory held |
| triple scan | a triple with a stable pair is counted once per occurrence, any other not at all |
| lemma groups | one group per lemma tuple, the threshold on its whole weight, homonyms share a count |
| document frequencies | a group's number is that of the documents it occurs in; groups of another corpus stop the run |
| filters | exactly the frequent and stable groups survive, most stable first |
| export | an entry's text and count belong together; colliding keys lose no more than they must; a missing count stops it |
| pipeline | the exported table is the table of the text, after deaths and runs on other corpora too, and a lost write is seen or only removes entries |
| conversion script | every zip file has one worker; a zip file is gone only when its books are texts, but for a book a command failed on or a cut file that unzip was told to keep |
| file walk | `fn` is called for the files from + 1 .. from + limit of the walk |

The behaviours that are hard to test: ties in a priority queue and unequal file
lengths (k-way merge); limits met exactly at the end of the input (external
sort, chunks, lemmatizer chunks); state kept between callbacks (`found`,
`weight`, `uniset`, `ids`); files left over from another run, or torn when the
process died or the disk was full; an early return in one of several nested
loops (`convert`, `listFiles`); keys joined without a separator (`to_zmap`);
forked workers that remove what they have worked off, and an unzip that asks on a
terminal they share (`convert.pl`).
`PROJECT.json` lists each hazard at its line with the properties that cover it.

## Modules

| module | models | built on |
|---|---|---|
| `KMerge` | KMerge and KMergeIterator: `Begin`, `Visit` (one turn of the loop and `++it`), `InitQueue`, `Advance` | |
| `KMergeProofs` | its inductive invariant and theorems | KMerge, TLAPS |
| `SortedTotals` | what groupby_save promises: the groups' totals, in increasing order | |
| `GroupBySave` | groupby_save: the merge loop with `prev`, `is_start`, `fout` | KMerge, SortedTotals as an instance, `Abstract` |
| `GroupBySaveProofs` | its inductive invariant, theorems and the refinement | GroupBySave, KMergeProofs |
| `ExternalSort` | Transformer → ExternalSorter → KMerge | KMerge as an instance, `Merger` |
| `ExternalSortProofs` | its inductive invariant and theorems | ExternalSort, KMergeProofs as an instance, `M` |
| `TrigramScan` | the loop of trigram_stat that decides what is counted | |
| `ChunkedCount` | bigram_stat and trigram_stat around that loop: chunks, part files, crashes, further runs | |
| `ChunkedCountProofs` | the inductive invariants and theorems of the counting, of both modules | ChunkedCount, TrigramScan, TLAPS |
| `GroupLem` | group_lem2, group_lem3, extend_*, build_lem_weights | |
| `GroupLemProofs` | its inductive invariants and theorems | GroupLem, TLAPS |
| `DocFreq` | bifreq_stat, trifreq_stat, merge_unifreq, filter_bilems, filter_trilems | |
| `DocFreqProofs` | its inductive invariant and theorems | DocFreq, TLAPS |
| `Lemmatize` | lemmatize, Lemmer::save, load_lems | |
| `ListFiles` | listFiles, the walk over a tree in the order of readdir | |
| `Convert` | convert, UnigramCounts, save_uni | ListFiles |
| `ToZmap` | to_zmap: the join of seven files into one map | |
| `ToZmapProofs` | its inductive invariant and theorems | ToZmap, TLAPS |
| `CollocTable` | the table the program is to export, computed from the text alone | |
| `Pipeline` | main: eleven stages over one `save_dir`, deaths, further runs, lost tails | TrigramScan, GroupLem, DocFreq as instances, CollocTable |
| `ConvertScript` | par_list, to_txt, unarchive: forked workers, failing commands, unzip's questions, deaths, further runs | |
| `ConversionProofs` | the inductive invariants and theorems of the way from the books to `corpus.bin` and `lems.bin` | ConvertScript, Convert, Lemmatize, TLAPS |

Every `MC...` module instantiates its specification for TLC; definitions that a
comment introduces with "as a bug would have it" are the variants the properties
are tried against and are used by no specification.

How state and actions correspond to the code:

- **KMerge.** `files` are the messages `IFStreamer::read` can still parse from
  each part file, `pos` the readers' positions, `q` the set of readers with a
  message in the priority queue.  A comparator is kept as a rank; `Tops` is
  what `q.top()` may return, so ties are broken either way.  `good` is exactly
  "the queue is not empty", so it is no variable.  `yielded` is a history of
  the messages the loop body saw.
- **GroupBySave.** `Turn` is one turn of the for loop; its three cases are the
  branches on `is_start` and on equality with `prev`; `Finish` is the write
  after the loop.  An id stands for the tuple (id1, id2[, id3]).  A weight is a
  fixed32, so sums are taken modulo `U32`.  `total` is a history.  The refinement
  mapping `Totals` gives each id the total of the units of weight in the part files.
- **ExternalSort.** `Keep` is a turn of the while loop of sort_unstable that got
  a message, `Stop` the rest of that function, `Refilled` the refill in
  `Transformer::read` (ONE refill, as in the code).  The constructor's `rm` may
  fail without notice (`Construct`).  The KMerge is the real module, used
  through INSTANCE, on the part files the sorter wrote.
- **TrigramScan.** `Skip` and `Hit` are the turns of the for loop, `NextPhrase`
  the return from the callback.  Its names differ from those of ChunkedCount
  (`text` is the corpus, `phrase` the place in it), so that the proofs about both
  can stand in one module.
- **ChunkedCount.** `Count`, `EndDocument` and `EndChunk` are the callback,
  `Finish` the save and `Merge`/`MergeThrows` the merge after it.  The merge is
  one step, with the outcome GroupBySave establishes.  Counts are fixed32 like the
  weights, so they are kept modulo `U32`, in memory (`Plus`) and in the merge
  (`Wrapped`).  The process may die
  while it reads, while it writes a part file (left without a header or with any
  prefix of its records) or while it writes the result, and be run again on any
  corpus over the same directory.  What is counted of a phrase is a parameter;
  the runs count pairs, as bigram_stat does.
- **GroupLem.** `todo` is what the merger has not shown yet; it delivers in the
  comparator's order, ties either way (ExternalSort shows that it may be relied
  on).  Doubles are integers scaled by `Scale`, which every product of homonym
  counts divides, so no rounding is modelled; a sum of counts is the number of
  their units (`Sum`).  The value of the score is left out, its sign is kept.
- **DocFreq.** `Phrase` and `EndDocument` are the callback of read_fn, `Finish`
  the checks after it, `Filter` a turn of the filter's loop.  The group file may
  hold groups of another corpus (`Strangers`): stale part files can put them there.
- **Lemmatize.** `ReadUnigram` is the callback of read_apply with its chunk test,
  `ApplyChunk` apply_chunk: the two loops insert a term where it stands first
  (`Inserts`), so its id is its rank among those places.  `Finish` is the last chunk and the save, `Weigh` the first use of `lems.bin`.
- **ListFiles, Convert.** A tree is the sequence of its entries in the order in which
  a walk meets them, each with the depth of its directory; `at` is the entry readdir
  reaches next and `depth` the number of open directories.  readdir returns null where
  the next entry is of another depth (`Exhausted`); a return in the middle of a
  directory goes to the first entry behind it (`Behind`).  A zip file is the sequence
  of its documents, a document the
  sequence of its tokens: words, and `Junk` for everything update_word ignores.
  `Walk` is the walk between two calls, `OpenZip` to `CloseZip` one call of the
  lambda, in which `ReadWord`, `ReadJunk` and `EndDocument` are
  `UnigramCounts::update`.  `ZipThrows` is a zip file minizip cannot read.
- **ToZmap.** A string is a sequence of letters, so that joined keys really
  collide.  `LoadGroup` is fn1 and fn2, `AddSingle` the loop over `lemfreq.bin`,
  `AddTuple`, `SkipTuple` and `TupleThrows` the three ways through the loops over
  the hash tables, whose order is any.  A count that is not in its table is
  `end()->second`: any value of `Garbage`, or the death of the process.  `SaveThrows`
  is a `total_count.txt` that cannot be opened, which is noticed last of all.
- **Pipeline.** `disk` maps a file of `save_dir` to its header (`ok`), the number
  in it and its records, `parts` the part files of pairs and triples.  A stage
  is one action that reads files and returns them rewritten; its outcome is
  computed with the operators of the module that models it step by step
  (`TrigramScan!Wanted`, `GroupLem!Joint`, `DocFreq!DocsWith`, instantiated on
  the files).  The process may die in a stage and leave any of its files torn,
  and one file in a run, or one part file (`CountLosesTail`), may lose its tail at
  Close, which nothing reports.  After a death or a return the program may be run
  again, on any corpus.
- **CollocTable** restates what is to be exported without ids, files or chunks,
  from the text, the dictionary and the thresholds.
- **ConvertScript.** Each worker steps through the commands of its range
  (`Unzip`, `XmlGrep`, `UnlinkFb2s`, `UnlinkZip`) on its own; the parent only
  waits.  A file is whole or torn.  The script calls unzip without `-o`: where no file
  is there it unpacks (`Unzip`); where a death has left one it asks (`Asks`) and waits until
  somebody answers (`Answered`), who may have any of the files replaced and the others
  kept, or until the input ends, when all are kept.  The files a run of unzip finds are asked about
  in one step; the answer "rename" is left out.  Of the files it is to write unzip may
  write any subset and cut one; those it does not write whole are the books it
  failed on.  What it keeps it does not fail on, and its status is ignored anyway
  (`Unpacks`).  `XmlGrep` may fail, which the shell's redirection turns into a torn text.
  Three histories, which the script does not keep, tell these cases apart: `spoilt`
  (a command failed on this book), `kept` (unzip was told to keep a cut file of this
  book) and `died` (a worker died in this zip file).

## Runs

| run | question and bounds |
|---|---|
| `groupby` | Up to 3 part files, 4 messages, 3 ids, weights that overflow a width of 4: the merge loop shows each message once and in order; sortedness, totals, and the refinement `ImplementsSortedTotals` (safety, and that the loop ends).  Three files are the least with a tie that leaves a third file waiting; four messages make several files end together. |
| `external_sort` | Streams of up to 4 inputs, each expanded to 0, 1 or 2 messages, limits 0-3 (0 is "unlimited", others are met before, at and after the end), a directory with 6 old parts: nothing lost between the stages, and the caller sees the stream, sorted, up to the first message that expands to nothing. |
| `trigram_scan` | Two phrases of 0-5 words over 2 words, every set of stable pairs.  Five words hold a triple in the middle with neighbours on both sides; repeated words make equal triples overlap. |
| `chunks` | Two runs over any two corpora of up to 4 documents, chunks of 2, the first dying anywhere: no chunk, half a chunk, up to two full ones (then the last save writes an empty part), larger and smaller second corpora; counts wrap at 4. |
| `chunks_stale` | The same with what the documentation promises of the result; expected to fail. |
| `group_lem` | Pairs and triples of corpora of two phrases over 3 words, every homonym list, thresholds 0 and 1, every set of stable pairs. |
| `doc_freq` | Pairs and triples over up to 3 documents, group files with any subset of the corpus' groups, with and without a stranger; thresholds of 1 and 2 that groups meet exactly. |
| `lemmatize` | Up to 4 words in every order of `uni.bin`, chunks of 2 (ends before, at and after a chunk), shared, multiple and missing lemmas. |
| `convert` | Trees of up to 3 zip files in nested directories, every window of offsets 0-1 and limits 0-2, zip files of up to 3 documents with words or junk at the ends, junk only, nothing at all, and an unreadable one. |
| `to_zmap` | Up to two pairs and two triples over three lemmas whose strings join ambiguously or do not; cases that tie, a word too short for a pair, a missing lemma string, a missing count, a missing `total_count.txt`; every order of the hash tables. |
| `pipeline` | Three texts of two and four documents over three words, two of which share a lemma; chunks of one document, so the long text leaves stale parts whose ids mean other words in the others; two runs over any of them, the first dying in any stage, one file or part file of either losing its tail. |
| `convert_script` | Four zip files of two, one, no and one book, two workers, so that ranges have lengths three and one, end at 2.5, or are whatever a death leaves; three runs, workers dying in any command, any answer to unzip's questions or none; both jobs. |

Larger bounds for the merge, the scan, the chunks and the walk only repeat these
cases: a merge compares two messages at a time, a chunk or a group is opened and
closed independently of its place in the file, and the walk and the scan look at
most one element to each side.  For the pipeline two runs are enough for files of
another corpus to be met and replaced; a third would meet what the second left.

What the passing runs show, beyond types:

- Whatever a run shows within its bounds for the merge, the grouping merge, the
  external sort, the counting, the lemma groups, the document frequencies and
  filters, the conversion with its file walk, the lemmatizer, the export and the
  conversion script is also proved for all inputs, liveness aside; see below.
- `ResultIsOwnPlusStale`, `FailsOnlyOnStale`: a run of bigram_stat always counts
  every occurrence of its corpus once (modulo the width), whatever a crash has left; only parts with
  a number the run did not reach can add to its result or stop it.
- `ThresholdOnWhole`, `GroupWithinLemmas`, `HomonymsShareCounts`: group_lem's two
  ways of sharing a count among homonyms agree, so that no group outweighs a lemma.
- `StopsOnStrangers`: the zero-count checks stop the run exactly when the
  group file holds a group of another corpus; `uni.find(..)->second` is safe.
- `SortsTheStream`: a message for which `fn` adds nothing ends the stream of a
  Transformer for its reader, although the comment at `streamer.hpp` 137-139 lets
  the two streams differ in number; what comes before it is all there.  No caller
  adds nothing today, since load_lems never returns an empty list.
- `CallsWindow`: the early return of listFiles leaves the rest of one directory unread
  and goes on in the parent, yet no file of the window is missed, since the counter
  is past it for good.
- `NothingElseLost`: the only text convert loses is what follows an empty
  document in its zip file: `colloc.cpp` 119 has `return`, not `continue`.
- `ShiftIsNoticed`: if a word had no lemmas, `lems.bin` would be shifted by one
  record, and the program would always stop in build_lem_weights rather than
  use it, since the last word's record is then missing.
- `LongestWins`, `EntriesAreWhole`: where joined strings collide the entry of a
  longest tuple stands, whole, in whatever order the hash tables are walked.
  `NothingLost`: with lemma strings none of which begins another no entry is hidden.
- `StopsOnMissing`: a missing lemma string, a zero count or a `total_count.txt` that
  cannot be opened stops the export, and nothing else does; but a string or count does not
  for a pair left out for a short word, whose `continue` comes first (an empty
  word is short, so for pairs that part of the check never fires).
- `TableIsOfTheText`: without stale parts and lost writes the exported table is
  `CollocTable` of the last corpus, whatever was run before over the directory
  and wherever it died.
- `CountsAreTrue`, `LossOnlyRemoves`, `ShiftNeverExported`: a file or part file that
  loses its tail unreported stops a later stage or removes entries, and adds none.  Only a
  frequency table that lost some counts can give an entry a wrong count
  (`freqs.find(..)->second` at the end of the table); a loss in `uni.bin` or `lems.bin`
  always stops a stage.  Two things they do not say, for they are not so: a
  `total_count.txt` that lost its digits is exported as a total of 0, and a lost
  tail of `bi.bin`, of `tri.bin` or of a part file may change which words an entry shows as its
  most frequent case, so only keys and counts are compared.
- `FailsOnlyOnFaults`, `SameCorpusRecovers`: no whole text is refused, and running the
  program again on the same corpus makes a dead run good.
- `EveryZipOneWorker` and `NothingLost` of ConvertScript: the fractions of par_list cut
  exactly, so a run whose workers all end leaves no zip file (`RunLeavesNone` below).  No race of two workers loses a book, and no death alone; but there are two ways to
  lose one, and no third: a command fails on it unseen, or a worker dies in its zip
  file, the script is run again, and unzip keeps the cut file because
  the answer was no or its input had ended (it returns 0, and the zip file is removed).
- `AsksAfterDeath`, `Ends`: unzip asks only about what a death has left, and a
  question nobody answers is the only thing that keeps the script from ending.

### Findings

- `chunks_stale`: bigram_stat and trigram_stat never empty their parts
  directory; run on a smaller corpus they count the pairs of the old one.

### Fairness

There is one thread and no scheduler to be unfair: `KMerge` and `GroupBySave`
assume weak fairness of their next-state relation, that is, that a loop which
can take its next turn takes it.  Every read is local and returns.
`ConvertScript` assumes weak fairness of each worker's steps: a worker is a process
of its own that the system schedules, and a command it runs returns or, if it is unzip
and finds a file, asks.  It may die instead, and the script need not be run again.
Nothing is assumed of the answer (`Answered` is in no fairness condition): eight workers
share one standard input, and if nobody is there prun never returns.  `Ends` says
so: all workers end or die, or some unzip waits for an answer for ever.  All other
specifications have safety properties only and assume nothing.

`CHECK_DEADLOCK` is on everywhere: where a stage returns or stops, the
specification has an explicit stuttering `Terminated` step.

## Proofs

| module | theorem | says |
|---|---|---|
| `KMergeProofs` | `TypeCorrect`, `MergeIsSorted`, `MergeShowsOnce`, `MergeIsComplete` | `[]TypeOK`, `[]YieldedSorted`, `[]ShownExactlyOnce`, `[]MergeComplete` for any number of files of any length |
| `GroupBySaveProofs` | `GroupsAreSorted`, `GroupsAreTotals` | `[]OutStrictlySorted`, `[]WeightsAccounted` for any ids and any width of a weight |
| | `ImplementsTotals` | `Abstract!Safety`: groupby_save implements the safety part of SortedTotals, step by step |
| `ExternalSortProofs` | `SplitLosesNothing`, `StreamIsSorted` | `[]SplitKeepsAll`, `[]SortsTheStream` for streams of any length, any expansion, any limit and any old directory |
| `ChunkedCountProofs` | `ChunksAreWindows`, `ResultsAreOwnPlusStale`, `FailuresAreStale`, `CleanDirectoryIsExact` | `[]PartsHoldWindows`, `[]ResultIsOwnPlusStale`, `[]FailsOnlyOnStale`, and that a result is exact when nothing is stale; for any corpora, places and grams, any size of a chunk, any width of a count, any number of crashes and runs |
| | `CountedOnce`, `AllWantedCounted` | `[]CountsOccurrences`, `[]CountsWanted` of TrigramScan for any corpus and any set of stable pairs |
| `GroupLemProofs` | `NoGroupIsSplit`, `ThresholdSeesAll`, `SharesAddUp`, `GroupsWithinLemmas` | `[]GroupedOnce`, `[]ThresholdOnWhole`, `[]HomonymsShareCounts`, `[]GroupWithinLemmas` for any tables, any lists of homonyms and any order of ties |
| `DocFreqProofs` | `CountsAreDocuments`, `ChecksFindStrangers`, `FilterKeeps` | `[]FrequenciesAreDocuments`, `[]StopsOnStrangers`, `[]KeepsFrequentStable` for any corpus, group file and thresholds |
| `ToZmapProofs` | `WholeEntries`, `LongerTuplesWin`, `MissingValuesStop`, `SelfDelimitingLosesNothing` | `[]EntriesAreWhole`, `[]LongestWins`, `[]StopsOnMissing`, `[]NothingLost` for any tables and strings and any order of the hash tables |
| `ConversionProofs` | `SplitIsExact` | for a list of any length and any number of workers, every index is in the range of exactly one |
| | `TypeCorrect`, `ZipsHaveOneWorker`, `NoOtherBookIsLost`, `QuestionsFollowDeaths`, `RunLeavesNone` | `[]TypeOK`, `[]EveryZipOneWorker`, `[]NothingLost`, `[]AsksAfterDeath`, `[]WholeRunLeavesNone` for any zip files, any number of workers and of runs, any failures and any answers |
| | `ListFilesCallsWindow`, `ConvertLosesNothingElse` | `[]CallsWindow`, `[]NothingElseLost` for any tree, offset and limit and zip files of any documents |
| | `ConvertIdsDense`, `ConvertCountsDocuments` | `[]IdsDense`, `[]TotalCountsDocuments` for the same |
| | `LemmatizeKeepsPlaces`, `LemmatizeSavesAll`, `LemmatizeNoticesShift` | `[]ChunksLandOnTheirWords`, `[]LemmasOfEveryWord`, `[]ShiftIsNoticed` for any dictionary, any order of `uni.bin` and any size of a chunk |

### Assumptions

Those of the modules, and no other; each is evaluated by the runs of its module.

| module | assumption | why the code justifies it |
|---|---|---|
| KMerge | ranks are integers, every input file is sorted (`RankAssumption`, `InputsAssumption`) | a comparator is a total preorder; sort_save sorts each part. ExternalSortProofs does not assume the second: it instantiates KMerge with no inputs and proves its files sorted (`DirOK`) |
| GroupBySave | weights fit the width, a message's rank is its id (`GroupAssumption`) | fixed32; the comparators compare ids only |
| ExternalSort | `Expand` gives sequences of messages, limits are naturals (`SortAssumption`) | types |
| ChunkedCount | corpora are sequences of phrases, a phrase has finitely many places, the empty phrase none; a chunk is at least one document, a count has a width (`ChunkDocsAssumption`) | types; the loops over a phrase; 40'000; fixed32 |
| TrigramScan | corpora are sequences of phrases | types |
| DocFreq | a corpus that is not empty ends with the end of a document (`CorporaAssumption`) | `UnigramCounts::update` writes the mark after each document's phrases |
| GroupLem | counts are positive, word tuples consist of words of `uni.bin` (`TablesAssumption`), every word has a lemma (`GroupLemAssumption`) | both tables count words convert gave an id, and an id without a record makes `lems.at` throw before there is a group (`IdsKnown` of Pipeline); Lemmer::save writes no record without ids |
| | a word was met at least as often as the tuples that have it at one place (`CountsAssumption`) | each counted tuple has its own occurrence of the word. Stale part files break it (see `ChunkedCount`), so it is used by `GroupsWithinLemmas` alone |
| | `Scale` is divided by every product of three homonym counts (`ScaleAssumption`) | of the model, not of the code: it makes scaled weights exact where the code rounds doubles |
| ToZmap | tables hold strings and counts (`TablesAssumption`); no tuple is in a filtered file twice and no string in `lemid.bin` twice (`UniqueAssumption`) | `KeepsFrequentStable` and `GroupedOnce`, proved here; lemma ids are given by try_emplace on the string |
| ConvertScript | a glob lists each file that is there once (`GlobAssumption`), there are workers and runs (`ScriptAssumption`) | Perl's glob; the script's constants |
| ListFiles | a tree is what a walk meets: only a directory is followed by deeper entries; offsets and limits are naturals (`ListAssumption`) | readdir and the recursive call; size_t |
| Convert | zip files are sequences of documents of tokens, `Junk` is no word (`ConvertAssumption`) | types |
| Lemmatize | a dictionary gives each word a list of terms, a chunk has at least one word (`LemmatizeAssumption`) | types; 10'000 |

### Arguments

- **KMerge.** Sortedness alone is not inductive: it needs that nothing in the
  queue ranks below what was shown (`NotOvertaken`), which follows from the
  files' sortedness when the successor of the shown message enters.
  Completeness needs that a reader outside the queue is exhausted (`QueueOK`).
  `RefillIsIdle` proves that the second init_queue of `operator++` never finds
  a message: the queue runs empty only when all readers have ended.
- **GroupBySave.** It extends the invariant of the merge: what `prev` holds is
  above every group written (`OutBelowPrev`), the next message is not below
  anything shown (from `YieldedSorted` of the next state), so an id different
  from `prev` is new; ids not shown have total 0.  For the refinement the abstract
  totals are defined by the files, not by what was read: a total is the number of
  units of weight under an id (`Units`), modulo the width, and `TotalIsUnits`
  keeps the history equal to the units shown.  When a group is written, no message
  of its id is left to be shown, so the history of its id is the abstract total; every
  other turn is a stutter.
- **ExternalSort.** `NothingAstray` counts, for every message, its copies in the
  part files, in `buf` and in the Transformer's queue, and equates the sum with the
  copies in the stream read so far; each action moves copies from one term to another
  (lemmas `Copies...` about appending, concatenating and sorting).  Once the merge has begun
  the theorems of KMergeProofs are used by instance: its invariant is preserved by the
  steps of the merge, and the history of what was shown is a bijection to the places
  in the files, so the copies shown are the copies in the parts.  `Merging` records why the
  stream ended: it is exhausted, or the last message read expands to nothing.
- **ChunkedCount.** A part file is the bag of the grams at the places of its window
  (`GramsOf`), bags over disjoint places add up (lemmas on `GramsOf` and `SumOf`),
  `docid` is one more than the documents ended, so the phrase read next is of the chunk in
  memory (`PositionOK`, with the lemmas on `\div` and `%`), and the parts of this run sum
  to the grams of the phrases of closed chunks (`OwnPartsSum`).  Parts with higher
  numbers are never written, so they are the stale ones.  All this is modulo the width
  of a count: wrapping the parts before they are added changes nothing once the sum is
  wrapped (`ModAdds`, `WrapAdds`).  A count that wraps may be 0, which no bag of the library
  holds, so the lemmas are about functions to the naturals (`IsTally`).
- **TrigramScan.** `found` means "the pair before `it1` is stable" (`FoundOK`),
  and the occurrences counted are the wanted ones whose two pairs have been
  passed, or whose left pair has been and was stable (`CountedOK`).  Both places
  that `Hit` counts are then new, and the counts follow the history.
- **GroupLem.** No message still to come precedes one that was shown (`InOrder`), so
  the messages shown are of the group at hand or of tuples before it (`Current`), and
  what is written precedes the group at hand (`Before`): a tuple that was left never
  comes back.  `IInv` gives `GroupedOnce`.  Weights need a second invariant
  (`WInv`): the weight of the group at hand and of each group written is that of the
  messages shown as its tuple, and a closed tuple is in the file exactly when that is
  above the threshold.  A weight is counted in units, so that it is the cardinality of a
  disjoint union (`WeightOf`, `SumOfParts`) and no induction over a sum is needed.
  A closed tuple has been shown whole (`ClosedIsWhole`), and the weight of all its
  messages is `Joint` (`JointIs`: the readings of a word tuple as the lemma tuple are a
  product of the places of its lemmas).  The shares of a word tuple add up to
  its count since `Scale` leaves no remainder.  `GroupWithin` compares, word by word of one
  place, the shares of the tuples that have it with the share of the word itself: a
  lemma's share of a pair is never more than its share of the word.
- **DocFreq.** `uniset` and `set` hold what was met in the current document
  (`SetsAreCurrent`), a number is that of the documents ended that it was met in; when a
  document ends its sets add one each.  The filter's list is a sorted sequence without
  repetition of the frequent and stable groups it has taken, none below one still to be
  taken (`FilterOK`).  `StopsOnStrangers` needs that the last document has ended when the
  corpus has been read (`AllDocumentsEnded`), and that merge_unifreq's check never fires:
  the lemmas counted are those of `lemid.bin`, whatever the group file holds.
- **ToZmap.** `FreqsFrom` ties a loaded count and its words to one group and the first of
  its most frequent cases (which exists by well-founded induction on the place), `WrittenHasEntry`
  says that the entry under the key of a tuple visited is of a tuple at
  least as long, since singles, pairs and triples are written in that order.  `NothingLost` rests on unique
  decoding: strings none of which begins another can be joined in one way only
  (`NonePrefix`), so an entry is overwritten by its own tuple alone (`WrittenStays`).
- **ConvertScript.** `SplitIsExact` is arithmetic: the ranges are a step of
  len + Workers apart in units of 1/Workers, so the floor of the end of one is one
  less than the floor of the start of the next (lemmas about `\div`).  The
  invariant adds to it that `@files` lists each zip file once and every zip file
  still there (`ListOK`), and, for each worker (`WorkerOK`), that it is inside its
  range, that of its zip files just those from its place on are there
  (`ProgressOK`), and that each book of the one at hand is a text or still to be
  converted, or is excused: a command failed on it, or a cut file of it was kept (`GrepOK`,
  `RemoveOK`, and `LostOK` for the zip files that are gone).  That only a death
  excuses a kept file (`DeathOK`, `KeptOK`) needs to know why unzip asks: in the directory of
  a zip file that is there and in which nobody died there are no files, unless a worker has
  just unpacked it (`FreshOK`), so whoever comes to unzip it finds none.
  Ranges are disjoint, so a step of one worker leaves the `WorkerOK` of the others
  alone (`Frame`).
- **ListFiles.** `counter` is the number of files before `at`, or has passed the window for
  good (`WalkCount`): from the first early return on it lags behind, but a file is found only with
  a number above it.  So the files called are those of the window before `at` (`WalkCalls`), and
  `at` is behind the tree when the outermost directory has returned (`WalkDepth`).
- **Convert.** A phrase is named by its file, document and the place where it starts; the order of
  the text is the lexicographic order of these triples.  `Written` is the set of those that
  should be in the corpus by now: of the files that are done, of the documents before the
  current one, and the runs of words that have ended in it (`RunsBy`).  The corpus holds
  exactly these, each at its rank (`WrittenOK`); `ids` is the run that is open (`RunOK`), and `empty` says
  that none has begun.  A phrase is written when its run ends and is then behind all others
  (`WrittenAhead`), so it gets the next rank and moves none (`NextPlace`, `HoldsNext`).  Words
  in the corpus keep their ids while the table grows (`WordIsKept`, `StaysWritten`).  A zip
  file is closed with its documents up to the first empty one written, which is what
  `DocsRead` says of it; when the walk has returned, the files done are the window.
- **Lemmatize.** `chunk` and `wordIds` are the words of `uni.bin` since the last chunk
  (`ChunkOK`), the lists of the words before it are whole and the others empty (`ListsOK`).
  The ids learnt from a chunk are the ranks of the places where new terms stand first, so they
  are dense and the old ones stay (`Ranks`, `LearntIs`).  `Saved` renumbers the lists that are not
  empty by rank: it is `lems` itself when all words have a lemma, and otherwise shorter, so that
  `Weigh` misses the last word (`SavedIs`).

### Only model-checked

- Liveness: the end of the merge loop in `ImplementsSortedTotals` and what
  ConvertScript promises under fairness.  The prover has no rules for ENABLED.
- Pipeline: all of its properties are about what the composition of eleven stages computes,
  with folds and sequences that are filtered and flattened inside; that would need
  induction over the data, stage by stage.  It rests on the stages proved one by one.

The type invariants of the proved modules and `WholeRunLeavesNone`, which follows from
`EveryZipOneWorker` and the invariant of the workers, stand in their theorems and in no run.

## Not modelled

- File formats, encodings, the zip library and the language processor: external,
  taken by what they return.
- In the pipeline: words of one or two letters and words without lemmas (ToZmap
  and Lemmatize have them), the loss of the tail of the exported map itself, of
  the external sorter's part files (those of `bi_parts` and `tri_parts` do lose it),
  and of `corpus.bin` (a Cap'n Proto stream cut inside a message makes the next stage throw).
- The value of scores (floating point), progress output, `gramcat`,
  `read_total`, `LoadXml` (not called), schemas and generated code.
- Of `convert.pl`: `archive` (one zip command for a directory, nothing removed),
  `unlink_all_non_russian` (decided by an external program), the answer "rename" to
  unzip, the single questions of one unzip one after the other, and a command that goes on
  after its worker was killed.  Every call in the script is commented out.

## Plan

In the order of importance; the modules above are steps 1 to 7.

1. The merge and the grouping merge, with proofs and the refinement.  Done.
2. Counting: the scan with proofs, chunks with crashes.  Done.
3. External sort composed with the merge.  Done.
4. Lemma groups, document frequencies, filters.  Done.
5. Conversion, file walk, lemmatizer.  Done.
6. The export.  Done.
7. The pipeline against `CollocTable`, and the conversion script with proofs.  Done.
8. Proofs of the stages: counting, external sort, lemma groups, document
   frequencies, export, the refinement of `SortedTotals`.  Done.
9. Proofs of the conversion, the file walk and the lemmatizer.  Done.
10. Left: the pipeline against `CollocTable`, which is model-checked only.
