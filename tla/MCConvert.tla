----------------------------- MODULE MCConvert -----------------------------
(***************************************************************************)
(* Trees of at most three zip files, flat and nested, with hidden names    *)
(* and other files among them; zip files of at most two documents, each    *)
(* taken from the documents below: words at both ends, junk at both ends,  *)
(* junk alone, a word twice, and one that is empty.                        *)
(***************************************************************************)
EXTENDS Convert

Z(n) == [kind |-> "file", depth |-> n]
Hidden(n) == [kind |-> "hidden", depth |-> n]
Other(n) == [kind |-> "other", depth |-> n]
Dir(n) == [kind |-> "dir", depth |-> n]

MCTrees ==
  {<<>>,
   <<Z(1)>>,
   <<Hidden(1), Z(1), Other(1), Z(1)>>,
   <<Dir(1), Z(2), Other(2), Z(1)>>,
   <<Z(1), Dir(1), Dir(1), Hidden(2), Dir(2), Z(3), Z(2)>>,
   <<Dir(1), Z(2), Z(2), Other(1), Dir(1), Z(2)>>}

Docs == {<<"a", "b">>, <<"b", Junk, "a", "a">>, <<Junk, "c", Junk>>, <<Junk>>, <<>>}

MCContents == {<<doc>> : doc \in Docs \ {<<Junk>>}} \cup
              {<<<<"a", "b">>, <<Junk>>>>, <<<<Junk, "c", Junk>>, <<"b", Junk, "a", "a">>>>,
               <<<<"b", Junk, "a", "a">>, <<>>, <<"a", "b">>>>, <<>>, Unreadable}

=============================================================================
