----------------------------- MODULE MCReaders -----------------------------
(***************************************************************************)
(* Values of the constants of Readers for TLC: words with nested prefixes  *)
(* and shared suffixes, words that leave them at every place, and patterns *)
(* with a letter that no word has, 4.                                      *)
(***************************************************************************)
EXTENDS Readers

MCUniverse ==
  {<<>>, <<1>>, <<2>>, <<1, 1>>, <<1, 2>>, <<3>>, <<1, 1, 2>>, <<2, 1, 2>>}

MCAsked == MCUniverse \cup {<<2, 1>>, <<2, 2>>, <<3, 1>>, <<1, 1, 3>>, <<1, 1, 2, 1>>}

MCPattern == {<<>>, <<1>>, <<4>>, <<2, 1>>, <<1, 4>>, <<4, 1>>, <<1, 4, 2>>}
=============================================================================
