---------------------------- MODULE MCLemmatize ----------------------------
(***************************************************************************)
(* Vocabularies of at most MaxWords words in every order of uni.bin, each  *)
(* word with one of the lists; a word may have no lemmas.                  *)
(***************************************************************************)
EXTENDS Lemmatize

CONSTANTS MaxWords

Lists == {<<"a">>, <<"b">>, <<"a", "b">>, <<"c", "a">>, <<>>}

MCDictionaries == UNION {[1..n -> Lists] : n \in 0..MaxWords}

=============================================================================
