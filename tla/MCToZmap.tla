------------------------------ MODULE MCToZmap ------------------------------
(***************************************************************************)
(* Two kept pairs and up to two kept triples of three lemmas, with cases   *)
(* that tie; lemma strings that join ambiguously and strings that do not;  *)
(* whole files, files that lost a lemma string, a word or a pair's count,  *)
(* and a total_count.txt that cannot be opened.                            *)
(***************************************************************************)
EXTENDS ToZmap

Ambiguous == << <<"a">>, <<"a", "b">>, <<"b">> >>
SelfDelimiting == << <<"0", "a">>, <<"0", "b">>, <<"0", "1", "c">> >>

(* The second word is too short for a pair.                                *)
Words == << <<"x", "y", "z">>, <<"x", "y">>, <<"z", "y", "x">> >>

Case(wids, count) == [wids |-> wids, count |-> count]

PairCases ==
  {<<Case(<<1, 3>>, 2), Case(<<3, 1>>, 2)>>,
   <<Case(<<1, 2>>, 1), Case(<<3, 1>>, 2), Case(<<1, 1>>, 2)>>,
   <<Case(<<2, 3>>, 3)>>}

TripleCases == {<<Case(<<1, 2, 3>>, 2), Case(<<3, 2, 1>>, 2)>>}

Pairs == {<<1, 3>>, <<2, 1>>, <<1, 2>>, <<3, 3>>}
Triples == {<<1, 3, 1>>, <<1, 1, 3>>}

Kept(S, cases) == {[lids |-> t, cases |-> c] : t \in S, c \in cases}

PairFiles ==
  {<<>>} \cup {<<g>> : g \in Kept(Pairs, PairCases)}
    \cup {<<g, h>> : g \in Kept({<<1, 3>>}, PairCases), h \in Kept(Pairs \ {<<1, 3>>}, PairCases)}

TripleFiles == {<<>>, <<[lids |-> <<1, 3, 1>>, cases |-> <<Case(<<1, 2, 3>>, 2), Case(<<3, 2, 1>>, 2)>>]>>}
  \cup {<<g, h>> : g \in Kept({<<1, 3, 1>>}, TripleCases), h \in Kept({<<1, 1, 3>>}, TripleCases)}

LemFreq(strs) ==
  <<[str |-> strs[2], weight |-> 4], [str |-> strs[1], weight |-> 3], [str |-> strs[3], weight |-> 2]>>

CountOf(t) == 3 + t[1] + 2 * t[2]

(* The files lost no record, or one of lemid.bin, uni.bin or bifreq.bin,   *)
(* or total_count.txt is gone.                                             *)
Lost == {"nothing", "lemma 3", "word 3", "pair 1 3", "total"}

TableOf(strs, bf, tf, lost) ==
  [lemfreq |-> LemFreq(strs),
   lemid |-> [l \in (IF lost = "lemma 3" THEN {1, 2} ELSE 1..3) |-> strs[l]],
   uni |-> IF lost = "word 3" THEN SubSeq(Words, 1, 2) ELSE Words,
   bifreq |-> [t \in (IF lost = "pair 1 3" THEN Pairs \ {<<1, 3>>} ELSE Pairs) |-> CountOf(t)],
   trifreq |-> [t \in Triples |-> CountOf(t)],
   bifiltered |-> bf, trifiltered |-> tf,
   total_count |-> IF lost = "total" THEN <<>> ELSE <<9>>]

MCTables ==
  {TableOf(strs, bf, tf, lost) :
     strs \in {Ambiguous, SelfDelimiting}, bf \in PairFiles, tf \in TripleFiles, lost \in Lost}

=============================================================================
