----------------------------- MODULE MCPipeline -----------------------------
(***************************************************************************)
(* Corpora of two and four documents over three words, two of which share  *)
(* a lemma.  Part 4 of the long one is stale for the others; its ids mean  *)
(* other words there.                                                      *)
(***************************************************************************)
EXTENDS Pipeline
LOCAL INSTANCE SequencesExt

MCDictionary == [x |-> <<"A">>, y |-> <<"A", "B">>, z |-> <<"C">>]

Short == << << <<"x", "z">> >>, << <<"x", "z", "x">>, <<"x", "z">> >> >>
Mixed == << << <<"z", "y", "z">> >>, << <<"z", "x", "z">> >> >>
Long == << << <<"x", "z", "y">> >>, << <<"x", "z", "y">> >>, << <<"z", "z">> >>,
           << <<"z", "x">>, <<"y", "z">> >> >>

MCTexts == {Short, Mixed, Long}

(* One order, and not that of the ids: lemma ids mean nothing in another    *)
(* run, every file that holds them is written again.                       *)
MCOrders(S) == {SetToSortSeq(S, >)}

MCTh2 == << <<0, 1>>, <<1, 5>>, <<1, 10>> >>

=============================================================================
