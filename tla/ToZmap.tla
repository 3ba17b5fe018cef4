------------------------------- MODULE ToZmap -------------------------------
(***************************************************************************)
(* to_zmap of tools.cpp: the last stage joins seven files into one map.    *)
(* Its keys are lemma strings; the key of a pair or a triple is the        *)
(* strings of its lemmas, one after the other, without a separator.        *)
(*                                                                         *)
(* A string is the sequence of its letters.  A file that maps ids to       *)
(* strings or lemma tuples to counts is a function; one that lost its tail *)
(* has a smaller domain.  A total_count.txt is the number in it, if it can *)
(* be opened, and <<>> if it cannot.                                       *)
(***************************************************************************)
EXTENDS Integers, Sequences, FiniteSets, SequencesExt

CONSTANTS
  Letter,      (* the letters of words and lemma strings                   *)
  Tables,      (* what the seven files may hold                            *)
  MinDocs,     (* a lemma of at most so many documents is left out: 2      *)
  MinLetters,  (* a pair with a shorter word is left out: 3                *)
  Garbage      (* what it->second may give where find returned end()       *)

ASSUME ToZmapAssumption ==
  MinDocs \in Nat /\ MinLetters \in Nat \ {0} /\ Garbage \subseteq Nat

Strings == Seq(Letter) \ {<<>>}
CasesOf(k) == Seq([wids : [1..k -> Nat], count : Nat]) \ {<<>>}
GroupsOf(k) == [lids : [1..k -> Nat], cases : CasesOf(k)]

(* The files are well formed, whatever they have lost: strings are not     *)
(* empty, and every group has a case.                                      *)
ASSUME TablesAssumption ==
  \A f \in Tables :
    /\ \A s \in Range(f.lemid) \cup Range(f.uni) : s \in Strings
    /\ f.lemfreq \in Seq([str : Seq(Letter), weight : Nat])
    /\ \A t \in DOMAIN f.bifreq : f.bifreq[t] \in Nat
    /\ \A t \in DOMAIN f.trifreq : f.trifreq[t] \in Nat
    /\ f.bifiltered \in Seq(GroupsOf(2)) /\ f.trifiltered \in Seq(GroupsOf(3))
    /\ f.total_count \in Seq(Nat)

(* No two groups of a file have the same lemmas, and no two lemmas the     *)
(* same string.                                                            *)
ASSUME UniqueAssumption ==
  \A f \in Tables :
    /\ \A i, j \in DOMAIN f.bifiltered : f.bifiltered[i].lids = f.bifiltered[j].lids => i = j
    /\ \A i, j \in DOMAIN f.trifiltered : f.trifiltered[i].lids = f.trifiltered[j].lids => i = j
    /\ \A k, l \in DOMAIN f.lemid : f.lemid[k] = f.lemid[l] => k = l

VARIABLES
  files,       (* the files read                                           *)
  n,           (* the message read_apply delivers next                     *)
  freqs,       (* bifreqs and trifreqs: lids to [dc, wids]                 *)
  todo,        (* the tuples the loop has not visited                      *)
  termstat,    (* the map: key to [dc, txt]                                *)
  stat,        (* the file stat_<version>.map                              *)
  pc

vars == <<files, n, freqs, todo, termstat, stat, pc>>

-----------------------------------------------------------------------------
Groups == files.bifiltered \o files.trifiltered

(* With(f, x, v) is f with v at x, a new place or not.                     *)
With(f, x, v) == [y \in DOMAIN f \cup {x} |-> IF y = x THEN v ELSE f[y]]

(* As a bug would have it: the last of the most frequent cases.            *)
LastOfMost(cases) ==
  CHOOSE i \in DOMAIN cases :
    \A j \in DOMAIN cases : cases[j].count < cases[i].count \/ j = i \/ (j < i /\ cases[j].count = cases[i].count)

(* std::max_element: the first of the greatest.                            *)
FirstOfMost(cases) ==
  CHOOSE i \in DOMAIN cases :
    \A j \in DOMAIN cases : cases[j].count < cases[i].count \/ (cases[j].count = cases[i].count /\ i <= j)

(* uni and unilem: an id no message of the file has keeps the empty string. *)
WordStr(id) == IF id \in DOMAIN files.uni THEN files.uni[id] ELSE <<>>
LemStr(id) == IF id \in DOMAIN files.lemid THEN files.lemid[id] ELSE <<>>

(* StrCat of two or three strings.                                         *)
Joined(strs) ==
  CASE Len(strs) = 1 -> strs[1]
    [] Len(strs) = 2 -> strs[1] \o strs[2]
    [] Len(strs) = 3 -> strs[1] \o strs[2] \o strs[3]

LemStrs(lids) == [p \in DOMAIN lids |-> LemStr(lids[p])]
Key(lids) == Joined(LemStrs(lids))
Txt(wids) == [p \in DOMAIN wids |-> WordStr(wids[p])]

(* As a bug would have it: an entry that is there stays.                   *)
PutOnce(key, val) == IF key \in DOMAIN termstat THEN termstat ELSE With(termstat, key, val)

(* set_zmap                                                                *)
Put(key, val) == With(termstat, key, val)

(* What it->second is: the count, or whatever lies behind the table.       *)
CountFile(lids) == IF Len(lids) = 2 THEN files.bifreq ELSE files.trifreq

CountsOf(lids) ==
  IF lids \in DOMAIN CountFile(lids) THEN {CountFile(lids)[lids]} ELSE Garbage

Init ==
  /\ files \in Tables
  /\ n = 1 /\ freqs = <<>> /\ todo = {} /\ termstat = <<>> /\ stat = <<>>
  /\ pc = "load"

(* fn1 and fn2, for one group: the documents it occurs in and the most     *)
(* frequent of its cases; try_emplace keeps the first.                     *)
LoadGroup ==
  /\ pc = "load" /\ n <= Len(Groups)
  /\ LET g == Groups[n]
     IN  \E dc \in CountsOf(g.lids) :
           freqs' = IF g.lids \in DOMAIN freqs THEN freqs
                    ELSE With(freqs, g.lids, [dc |-> dc, wids |-> g.cases[FirstOfMost(g.cases)].wids])
  /\ n' = n + 1
  /\ UNCHANGED <<files, todo, termstat, stat, pc>>

(* The end iterator dereferenced: the process may also be killed.          *)
LoadCrashes ==
  /\ pc = "load" /\ n <= Len(Groups)
  /\ Groups[n].lids \notin DOMAIN CountFile(Groups[n].lids)
  /\ pc' = "crashed"
  /\ UNCHANGED <<files, n, freqs, todo, termstat, stat>>

Loaded ==
  /\ pc = "load" /\ n > Len(Groups)
  /\ pc' = "singles" /\ n' = 1
  /\ UNCHANGED <<files, freqs, todo, termstat, stat>>

AddSingle ==
  /\ pc = "singles" /\ n <= Len(files.lemfreq)
  /\ LET m == files.lemfreq[n]
     IN  termstat' = IF m.weight > MinDocs THEN Put(m.str, [dc |-> m.weight, txt |-> <<>>])
                     ELSE termstat
  /\ n' = n + 1
  /\ UNCHANGED <<files, freqs, todo, stat, pc>>

Tuples(k) == {t \in DOMAIN freqs : Len(t) = k}

SinglesDone ==
  /\ pc = "singles" /\ n > Len(files.lemfreq)
  /\ pc' = "pairs" /\ todo' = Tuples(2)
  /\ UNCHANGED <<files, n, freqs, termstat, stat>>

(* As a bug would have it: triples with a short word are left out too.     *)
TooShortAny(t) == \E p \in DOMAIN t : Len(WordStr(freqs[t].wids[p])) < MinLetters

(* Pairs only; a pair of a short word is left before its values are looked *)
(* at.                                                                     *)
TooShort(t) == Len(t) = 2 /\ \E p \in 1..2 : Len(WordStr(freqs[t].wids[p])) < MinLetters

(* As a bug would have it: the strings are not looked at.                  *)
WrongCount(t) == freqs[t].dc = 0

(* "wrong data values"                                                     *)
Wrong(t) ==
  \/ freqs[t].dc = 0
  \/ \E p \in DOMAIN t : LemStr(t[p]) = <<>> \/ WordStr(freqs[t].wids[p]) = <<>>

(* The loops over the hash maps: any tuple is next.                        *)
SkipTuple(t) ==
  /\ pc \in {"pairs", "triples"}
  /\ TooShort(t)
  /\ todo' = todo \ {t}
  /\ UNCHANGED <<files, n, freqs, termstat, stat, pc>>

(* As a bug would have it: an entry that is there keeps its text.          *)
AddTupleKeepsTxt(t) ==
  /\ pc \in {"pairs", "triples"}
  /\ ~TooShort(t) /\ ~Wrong(t)
  /\ termstat' =
       LET key == Key(t)
           txt == IF key \in DOMAIN termstat THEN termstat[key].txt ELSE Txt(freqs[t].wids)
       IN  Put(key, [dc |-> freqs[t].dc, txt |-> txt])
  /\ todo' = todo \ {t}
  /\ UNCHANGED <<files, n, freqs, stat, pc>>

AddTuple(t) ==
  /\ pc \in {"pairs", "triples"}
  /\ ~TooShort(t) /\ ~Wrong(t)
  /\ termstat' = Put(Key(t), [dc |-> freqs[t].dc, txt |-> Txt(freqs[t].wids)])
  /\ todo' = todo \ {t}
  /\ UNCHANGED <<files, n, freqs, stat, pc>>

TupleThrows(t) ==
  /\ pc \in {"pairs", "triples"}
  /\ ~TooShort(t) /\ Wrong(t)
  /\ pc' = "threw"
  /\ UNCHANGED <<files, n, freqs, todo, termstat, stat>>

PairsDone ==
  /\ pc = "pairs" /\ todo = {}
  /\ pc' = "triples" /\ todo' = Tuples(3)
  /\ UNCHANGED <<files, n, freqs, termstat, stat>>

(* total_count.txt is read, an empty one as 0, and the map is written.     *)
Save ==
  /\ pc = "triples" /\ todo = {} /\ files.total_count # <<>>
  /\ stat' = [total_count |-> files.total_count[1], terms |-> termstat]
  /\ pc' = "saved"
  /\ UNCHANGED <<files, n, freqs, todo, termstat>>

(* "could't open": only now, when all entries are made.                    *)
SaveThrows ==
  /\ pc = "triples" /\ todo = {} /\ files.total_count = <<>>
  /\ pc' = "threw"
  /\ UNCHANGED <<files, n, freqs, todo, termstat, stat>>

Terminated == pc \in {"saved", "threw", "crashed"} /\ UNCHANGED vars

Next ==
  \/ LoadGroup \/ LoadCrashes \/ Loaded
  \/ AddSingle \/ SinglesDone
  \/ \E t \in todo : SkipTuple(t) \/ AddTuple(t) \/ TupleThrows(t)
  \/ PairsDone \/ Save \/ SaveThrows
  \/ Terminated

Spec == Init /\ [][Next]_vars

-----------------------------------------------------------------------------
(* Everything the map may hold, from the files alone: <<lemma strings, dc, *)
(* text>>.  The text of a group is a case no other case is more frequent   *)
(* than, and that none before it equals.                                   *)
Singles ==
  {<<<<m.str>>, m.weight, <<>>>> : m \in {x \in ToSet(files.lemfreq) : x.weight > MinDocs}}

IsText(g, i) ==
  /\ \A j \in DOMAIN g.cases : g.cases[j].count <= g.cases[i].count
  /\ \A j \in 1..(i - 1) : g.cases[j].count < g.cases[i].count

SourcesOf(g) ==
  {<<LemStrs(g.lids), dc, [p \in DOMAIN g.lids |-> WordStr(g.cases[i].wids[p])]>> :
     dc \in CountsOf(g.lids), i \in {j \in DOMAIN g.cases : IsText(g, j)}}

(* A pair is exported unless a word of its text is short.                  *)
Exported(s) == Len(s[1]) = 2 => \A p \in 1..2 : Len(s[3][p]) >= MinLetters

Sources == Singles \cup {s \in UNION {SourcesOf(g) : g \in ToSet(Groups)} : Exported(s)}

(* Count and text of an entry come from one lemma, pair or triple, and it  *)
(* stands under the strings of that one: two tuples with one joined string *)
(* replace each other, they never mix.                                     *)
EntriesAreWhole ==
  \A key \in DOMAIN termstat :
    \E s \in Sources :
      /\ key = Joined(s[1])
      /\ termstat[key] = [dc |-> s[2], txt |-> s[3]]

(* The entry of a joined string belongs to a longest tuple with it: a pair *)
(* hides a lemma and a triple both, never the other way round, whatever    *)
(* order the hash tables have.                                             *)
LongestWins ==
  pc = "saved" =>
    \A s \in Sources :
      LET key == Joined(s[1])
      IN  key \in DOMAIN stat.terms /\ Len(stat.terms[key].txt) >= (IF Len(s[1]) = 1 THEN 0 ELSE Len(s[1]))

(* No lemma string is the beginning of another: true of the strings of     *)
(* dictionary words, which are a zero byte and one number in UTF-8.        *)
PrefixFree ==
  LET Strs == Range(files.lemid) \cup {m.str : m \in ToSet(files.lemfreq)}
  IN  \A a, b \in Strs : IsPrefix(a, b) => a = b

(* With such strings nothing is lost: every lemma, pair and triple has its *)
(* entry, although the keys have no separators.                            *)
NothingLost ==
  pc = "saved" /\ PrefixFree =>
    /\ \A s \in Sources :
         Len(s[1]) > 1 => /\ Joined(s[1]) \in DOMAIN stat.terms
                          /\ stat.terms[Joined(s[1])].txt = s[3]
    /\ Cardinality(DOMAIN stat.terms) = Cardinality({s[1] : s \in Sources})

(* The export stops exactly when total_count.txt cannot be opened or a     *)
(* tuple it would write has lost a lemma or word string or has a count of  *)
(* zero: a pair left out for its short words stops nothing, whatever its   *)
(* count.                                                                  *)
StopsOnMissing ==
  pc \in {"saved", "threw"} =>
    (pc = "threw" <=>
       \/ files.total_count = <<>>
       \/ \E t \in DOMAIN freqs :
            /\ Len(t) = 3 \/ \A p \in DOMAIN t : Len(WordStr(freqs[t].wids[p])) >= MinLetters
            /\ \/ freqs[t].dc = 0
               \/ \E p \in DOMAIN t :
                    t[p] \notin DOMAIN files.lemid \/ freqs[t].wids[p] \notin DOMAIN files.uni)

=============================================================================
