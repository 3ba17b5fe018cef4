-------------------------- MODULE MCConvertScript --------------------------
(***************************************************************************)
(* Four zip files: of two books, of none, of none, of one.  With two       *)
(* workers a list of four gives ranges of three and one, one of three is   *)
(* cut at 2.5, and what is left after a death has any length.              *)
(***************************************************************************)
EXTENDS ConvertScript
LOCAL INSTANCE SequencesExt

CONSTANTS b1, b2

MCNames == 1..4
MCBooks == {b1, b2}
MCContents == << {b1, b2}, {}, {}, {b1} >>
MCGlob(S) == SetToSortSeq(S, <)

=============================================================================
