----------------------------- MODULE ListFiles -----------------------------
(***************************************************************************)
(* listFiles of tools.cpp: a recursive walk that calls fn for the files    *)
(* with the right ending, from + 1 to from + limit in the order of the     *)
(* walk.  Convert composes it with the fn that reads the zip files; glob   *)
(* lists part files with it.                                               *)
(*                                                                         *)
(* A tree is the sequence of its entries in the order in which a full walk *)
(* meets them, each with the depth of the directory it is an entry of: the *)
(* entries of a directory follow it, one level deeper.  A file is known by *)
(* its place in the tree.                                                  *)
(*                                                                         *)
(* Where the file system reports no type, loop_dir is tried on files too,  *)
(* and opendir fails: the same as for a typed file.  A directory is then   *)
(* also taken for a file when its name has the ending; none is assumed to. *)
(***************************************************************************)
EXTENDS Integers, Sequences, FiniteSets

CONSTANTS
  Trees,     (* the directories listFiles may be called for                *)
  Froms, Limits

(* The first entry is one of path itself, and only a directory is followed *)
(* by entries that are deeper.                                             *)
IsTree(tr) ==
  /\ tr \in Seq([kind : {"hidden", "other", "file", "dir"}, depth : Nat \ {0}])
  /\ tr # <<>> => tr[1].depth = 1
  /\ \A i \in 1..(Len(tr) - 1) :
       tr[i + 1].depth <= tr[i].depth + (IF tr[i].kind = "dir" THEN 1 ELSE 0)

ASSUME ListAssumption ==
  /\ \A tr \in Trees : IsTree(tr)
  /\ Froms \subseteq Nat /\ Limits \subseteq Nat

VARIABLES
  tree, from, limit,   (* the arguments                                    *)
  at,        (* the entry that readdir reaches next, a place in tree       *)
  depth,     (* the calls of loop_dir that have not returned               *)
  counter,
  called     (* the files fn has been called for                           *)

listVars == <<tree, from, limit, at, depth, counter, called>>

-----------------------------------------------------------------------------
ListInit ==
  /\ tree \in Trees /\ from \in Froms /\ limit \in Limits
  /\ at = 1 /\ depth = 1
  /\ counter = 0
  /\ called = <<>>

(* readdir gives an entry of the innermost open directory, or null.        *)
Reading == depth # 0 /\ at \in DOMAIN tree /\ tree[at].depth = depth
Exhausted == depth # 0 /\ ~(at \in DOMAIN tree /\ tree[at].depth = depth)

(* A name that starts with a dot, and a file with another ending.          *)
SkipEntry ==
  /\ Reading /\ tree[at].kind \in {"hidden", "other"}
  /\ at' = at + 1
  /\ UNCHANGED <<tree, from, limit, depth, counter, called>>

(* The recursive call.                                                     *)
Enter ==
  /\ Reading /\ tree[at].kind = "dir"
  /\ at' = at + 1 /\ depth' = depth + 1
  /\ UNCHANGED <<tree, from, limit, counter, called>>

Found == Reading /\ tree[at].kind = "file"

(* Off by one, as a bug would have it.                                     *)
BeyondLoose(n) == limit # 0 /\ n >= from + limit

Before(n) == n <= from
Beyond(n) == limit # 0 /\ n > from + limit

SkipFile ==
  /\ Found /\ Before(counter + 1)
  /\ counter' = counter + 1
  /\ at' = at + 1
  /\ UNCHANGED <<tree, from, limit, depth, called>>

(* The return from this directory only: what is left in it is never read,  *)
(* the walk goes on in the parent, and each further directory ends at its  *)
(* first file.                                                             *)
Behind == {j \in at..(Len(tree) + 1) : j \in DOMAIN tree => tree[j].depth < depth}

LeaveEarly ==
  /\ Found /\ ~Before(counter + 1) /\ Beyond(counter + 1)
  /\ counter' = counter + 1
  /\ at' = CHOOSE j \in Behind : \A k \in Behind : j <= k
  /\ depth' = depth - 1
  /\ UNCHANGED <<tree, from, limit, called>>

Call ==
  /\ Found /\ ~Before(counter + 1) /\ ~Beyond(counter + 1)
  /\ counter' = counter + 1
  /\ called' = Append(called, at)
  /\ at' = at + 1
  /\ UNCHANGED <<tree, from, limit, depth>>

(* readdir returns null: closedir, back to the caller.                     *)
Leave ==
  /\ Exhausted
  /\ depth' = depth - 1
  /\ UNCHANGED <<tree, from, limit, at, counter, called>>

Returned == depth = 0

-----------------------------------------------------------------------------
(* The matching files of the whole tree, and the number of each in it.     *)
MatchingFiles == {i \in DOMAIN tree : tree[i].kind = "file"}
FileNumber(i) == Cardinality({j \in MatchingFiles : j <= i})

(* The limit files after the first from, or all of them.                   *)
Window ==
  {i \in MatchingFiles : FileNumber(i) > from /\ (limit # 0 => FileNumber(i) <= from + limit)}

CalledFiles == {called[k] : k \in DOMAIN called}

(* fn is called for the files of the window, in order, each once, in       *)
(* whatever directories the window begins and ends: windows that follow    *)
(* one another share no file and leave none out.                           *)
CallsWindow ==
  /\ \A k, l \in DOMAIN called : k < l => called[k] < called[l]
  /\ CalledFiles \subseteq Window
  /\ \A i \in Window, f \in CalledFiles : i < f => i \in CalledFiles
  /\ Returned => CalledFiles = Window

=============================================================================
