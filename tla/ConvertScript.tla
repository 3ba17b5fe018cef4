--------------------------- MODULE ConvertScript ---------------------------
(***************************************************************************)
(* convert.pl: a list of zip files is cut into ranges (par_list) and every *)
(* range is worked off by a process of its own (prun forks).  to_txt turns *)
(* the books of a zip file into texts, unarchive unpacks texts again.  The *)
(* last thing done to a zip file is to remove it; nothing looks at what    *)
(* the commands returned.                                                  *)
(*                                                                         *)
(* A worker may be killed, or die of a failing unlink (autodie), in the    *)
(* middle of anything, and the script be run again on what is left.  unzip *)
(* is called without -o: if a file it would write is there, it asks on the *)
(* terminal whether to replace it, and waits for an answer.                *)
(***************************************************************************)
EXTENDS Integers, Sequences, FiniteSets

CONSTANTS
  Names,       (* the zip files, and the directories they are unpacked to  *)
  Books,
  Contents,    (* the books in each zip file                               *)
  Glob(_),     (* the list a glob gives of the files that are there        *)
  Workers,     (* 8 in the code                                            *)
  MaxRuns      (* bound: runs of the script                                *)

ASSUME ScriptAssumption ==
  /\ Contents \in [Names -> SUBSET Books]
  /\ Workers \in Nat \ {0} /\ MaxRuns \in Nat \ {0}

ASSUME GlobAssumption ==
  \A S \in SUBSET Names :
    /\ Glob(S) \in Seq(S)
    /\ \A z \in S : \E i \in DOMAIN Glob(S) : Glob(S)[i] = z
    /\ \A i, j \in DOMAIN Glob(S) : Glob(S)[i] = Glob(S)[j] => i = j

VARIABLES
  job,         (* the function the script calls: "to_txt" or "unarchive"   *)
  zips,        (* the zip files in path                                    *)
  whole, torn, (* the files in their directories: <<name, book, suffix>>   *)
  files,       (* @files                                                   *)
  place,       (* of each worker: the index in @files it has come to       *)
  step,        (* the command it executes next, or "ask": unzip waits for  *)
               (* an answer, or "done", or "dead"                          *)
  left,        (* the fb2 files it has not given to xml_grep               *)
  spoilt,      (* history: <<zip file, book>> that a command failed on     *)
  kept,        (* history: those of which unzip was told to keep a cut file *)
  died,        (* history: the zip files a worker died in                  *)
  runs

vars == <<job, zips, whole, torn, files, place, step, left, spoilt, kept, died, runs>>

history == <<spoilt, kept, died>>

Worker == 0..(Workers - 1)

-----------------------------------------------------------------------------
(* As a bug would have it: $i += len / 8, ranges that overlap.             *)
StartOverlaps(k, len) == k * len

(* par_list.  The ranges are computed with fractions, $i += len / 8 + 1,   *)
(* here counted in parts of 1 / Workers; `..' cuts them to integers.       *)
Start(k, len) == k * (len + Workers)

(* As a bug would have it: $i < $len - 1.                                  *)
ForkedFewer(k, len) == Start(k, len) < Workers * (len - 1)

Forked(k, len) == Start(k, len) < Workers * len

FirstIndex(k, len) == Start(k, len) \div Workers

LastIndex(k, len) ==
  (IF Start(k, len) + len < Workers * (len - 1) THEN Start(k, len) + len
   ELSE Workers * (len - 1)) \div Workers

Indices(k, len) == IF Forked(k, len) THEN FirstIndex(k, len)..LastIndex(k, len) ELSE {}

Suffix == IF job = "to_txt" THEN "fb2" ELSE "txt"

Entries(z) == {<<z, b, Suffix>> : b \in Contents[z]}

Present(z) == Entries(z) \cap (whole \cup torn)

Texts(z) == {<<z, b, "txt">> : b \in Contents[z]}

(* As a bug would have it: glob( $newdir . '/*' ).                         *)
Fb2sAll(z) == {<<z, b, s>> : b \in Books, s \in {"fb2", "txt"}}

Fb2s(z) == {<<z, b, "fb2">> : b \in Books}

Current(w) == files[place[w] + 1]

(* What prun forks: a worker for each range.                               *)
Places(list) == [w \in Worker |-> FirstIndex(w, Len(list))]
Steps(list) == [w \in Worker |-> IF Forked(w, Len(list)) THEN "unzip" ELSE "done"]
Idle == [w \in Worker |-> {}]

Init ==
  /\ job \in {"to_txt", "unarchive"}
  /\ zips = Names
  /\ whole = {} /\ torn = {} /\ spoilt = {} /\ kept = {} /\ died = {} /\ runs = 1
  /\ files = Glob(Names) /\ place = Places(files) /\ step = Steps(files) /\ left = Idle

-----------------------------------------------------------------------------
(* Of the entries unzip is to write some get whole, and one may be cut.    *)
Unpack(todo, got, cut) ==
  /\ got \subseteq todo /\ cut \subseteq todo \ got /\ Cardinality(cut) <= 1
  /\ whole' = (whole \cup got) \ cut
  /\ torn' = (torn \ got) \cup cut

BooksOf(entries) == {<<e[1], e[2]>> : e \in entries}

(* unzip writes the entries todo, and failed where it did not; any other   *)
(* entry is a file it keeps.  The worker goes on whatever unzip returns.   *)
Unpacks(w, todo) ==
  LET z == Current(w)
  IN  /\ \E got \in SUBSET todo, cut \in SUBSET todo :
           Unpack(todo, got, cut) /\ spoilt' = spoilt \cup BooksOf(todo \ got)
      /\ kept' = kept \cup BooksOf((Entries(z) \ todo) \cap torn)
      /\ IF job = "to_txt"
         THEN /\ left' = [left EXCEPT ![w] = Fb2s(z) \cap (whole' \cup torn')]
              /\ step' = [step EXCEPT ![w] = "xml_grep"]
         ELSE step' = [step EXCEPT ![w] = "remove"] /\ UNCHANGED left
      /\ UNCHANGED <<job, zips, files, place, died, runs>>

(* unzip -qq, none of whose files is there.                                *)
Unzip(w) ==
  /\ step[w] = "unzip" /\ Present(Current(w)) = {}
  /\ Unpacks(w, Entries(Current(w)))

(* "replace ..? [y]es, [n]o, [A]ll, [N]one": unzip waits.                  *)
Asks(w) ==
  /\ step[w] = "unzip" /\ Present(Current(w)) # {}
  /\ step' = [step EXCEPT ![w] = "ask"]
  /\ UNCHANGED <<job, zips, whole, torn, files, place, left, history, runs>>

(* The files to replace; none at the end of the input.                     *)
Answered(w) ==
  /\ step[w] = "ask"
  /\ LET z == Current(w)
     IN  \E yes \in SUBSET Present(z) : Unpacks(w, (Entries(z) \ Present(z)) \cup yes)

(* xml_grep f > f.txt: the shell makes the file empty whatever xml_grep    *)
(* does then.  A file that is cut is no XML.                               *)
XmlGrep(w, f) ==
  /\ step[w] = "xml_grep" /\ f \in left[w]
  /\ LET text == <<f[1], f[2], "txt">>
     IN  \/ /\ f \in whole
            /\ whole' = whole \cup {text} /\ torn' = torn \ {text}
            /\ UNCHANGED spoilt
         \/ /\ whole' = whole \ {text} /\ torn' = torn \cup {text}
            /\ spoilt' = IF f \in whole THEN spoilt \cup BooksOf({f}) ELSE spoilt
  /\ left' = [left EXCEPT ![w] = @ \ {f}]
  /\ UNCHANGED <<job, zips, files, place, step, kept, died, runs>>

UnlinkFb2s(w) ==
  /\ step[w] = "xml_grep" /\ left[w] = {}
  /\ whole' = whole \ Fb2s(Current(w)) /\ torn' = torn \ Fb2s(Current(w))
  /\ step' = [step EXCEPT ![w] = "remove"]
  /\ UNCHANGED <<job, zips, files, place, left, history, runs>>

(* As a bug would have it: the loop does not go on.                        *)
AdvanceNever(w) == step' = [step EXCEPT ![w] = "unzip"] /\ UNCHANGED place

Advance(w) ==
  IF place[w] < LastIndex(w, Len(files))
  THEN place' = [place EXCEPT ![w] = @ + 1] /\ step' = [step EXCEPT ![w] = "unzip"]
  ELSE step' = [step EXCEPT ![w] = "done"] /\ UNCHANGED place

UnlinkZip(w) ==
  /\ step[w] = "remove"
  /\ zips' = zips \ {Current(w)}
  /\ Advance(w)
  /\ UNCHANGED <<job, whole, torn, files, left, history, runs>>

Step(w) ==
  Unzip(w) \/ Asks(w) \/ (\E f \in left[w] : XmlGrep(w, f)) \/ UnlinkFb2s(w) \/ UnlinkZip(w)

-----------------------------------------------------------------------------
Ended == \A w \in Worker : step[w] \in {"done", "dead"}

(* A worker dies: in unzip, with a text half written, with some of the fb2 *)
(* files removed (unlink of no file at all may also be an error of         *)
(* autodie), or between two commands.                                      *)
Dies(w) ==
  /\ step[w] \notin {"done", "dead"} /\ runs < MaxRuns
  /\ \/ UNCHANGED <<whole, torn>>
     \/ /\ step[w] \in {"unzip", "ask"}
        /\ LET todo == Entries(Current(w))
           IN  \E got \in SUBSET todo, cut \in SUBSET todo : Unpack(todo, got, cut)
     \/ /\ step[w] = "xml_grep"
        /\ \E f \in left[w] : /\ whole' = whole \ {<<f[1], f[2], "txt">>}
                              /\ torn' = torn \cup {<<f[1], f[2], "txt">>}
     \/ /\ step[w] = "xml_grep" /\ left[w] = {}
        /\ \E gone \in SUBSET (Fb2s(Current(w)) \cap (whole \cup torn)) :
             whole' = whole \ gone /\ torn' = torn \ gone
  /\ step' = [step EXCEPT ![w] = "dead"] /\ died' = died \cup {Current(w)}
  /\ UNCHANGED <<job, zips, files, place, left, spoilt, kept, runs>>

(* The script is run again on the zip files that are left.                 *)
Rerun ==
  /\ Ended /\ runs < MaxRuns
  /\ files' = Glob(zips) /\ place' = Places(files') /\ step' = Steps(files') /\ left' = Idle
  /\ runs' = runs + 1
  /\ UNCHANGED <<job, zips, whole, torn, history>>

Terminated == Ended /\ UNCHANGED vars

Next == (\E w \in Worker : Step(w) \/ Answered(w) \/ Dies(w)) \/ Rerun \/ Terminated

(* Every worker is a process; a command it runs returns, or asks.  Nothing *)
(* makes anybody answer.                                                   *)
Spec == Init /\ [][Next]_vars /\ \A w \in Worker : WF_vars(Step(w))

-----------------------------------------------------------------------------
TypeOK ==
  /\ job \in {"to_txt", "unarchive"}
  /\ zips \in SUBSET Names /\ died \in SUBSET Names
  /\ spoilt \in SUBSET (Names \X Books) /\ kept \in SUBSET (Names \X Books)
  /\ whole \in SUBSET (Names \X Books \X {"fb2", "txt"})
  /\ torn \in SUBSET (Names \X Books \X {"fb2", "txt"})
  /\ files \in Seq(Names)
  /\ place \in [Worker -> Nat]
  /\ step \in [Worker -> {"unzip", "ask", "xml_grep", "remove", "done", "dead"}]
  /\ left \in [Worker -> SUBSET (Names \X Books \X {"fb2"})]
  /\ runs \in 1..MaxRuns

(* The fractions never cut a file out or into two ranges: every index of   *)
(* the list is in the range of one worker, and no range leaves the list.   *)
Split(len) ==
  /\ \A i \in 0..(len - 1) : \E k \in Worker : i \in Indices(k, len)
  /\ \A k, l \in Worker : k # l => Indices(k, len) \cap Indices(l, len) = {}
  /\ \A k \in Worker : Indices(k, len) \subseteq 0..(len - 1)

EveryZipOneWorker == Split(Len(files))

(* When a zip file is gone, each book of it is a whole text; or a command  *)
(* failed on this book, which nobody would notice; or a worker died in the *)
(* zip file and a later unzip was told to keep a file of this book that    *)
(* was cut.  A death alone loses no book, and no failure another book.     *)
NothingLost ==
  \A z \in Names \ zips : \A b \in Contents[z] :
    \/ <<z, b, "txt">> \in whole
    \/ <<z, b>> \in spoilt
    \/ <<z, b>> \in kept /\ z \in died

(* unzip asks only about what a death left: while no worker dies the       *)
(* script waits for nobody.                                                *)
AsksAfterDeath == \A w \in Worker : step[w] = "ask" => Current(w) \in died

(* A run in which no worker died leaves no zip file behind, also when it   *)
(* is the second one and makes good for a first that died.                 *)
WholeRunLeavesNone == (\A w \in Worker : step[w] = "done") => zips = {}

(* prun returns, every worker at the end of its range or dead, unless an   *)
(* unzip asks and is never answered: nothing else holds it up.             *)
Ends == <>[]Ended \/ \E w \in Worker : <>[](step[w] = "ask")

=============================================================================
