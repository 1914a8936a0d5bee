----------------------------- MODULE MCTerminal ------------------------------
(***************************************************************************)
(* Terminal with a prompt that leaves twelve columns for the line, lines   *)
(* in the history that need none, one and two steps of scrolling, and      *)
(* texts that end before, at and behind the end of a row.                  *)
(***************************************************************************)
EXTENDS Terminal

Letters == <<"a","b","c","d","e","f","g","h","i","j","k"," ","l","m","n","o","p","q","r","s">>
MCRecallable == {SubSeq(Letters, 1, n) : n \in {5, 12, 20}}
MCPrompt == Times(">", 9)
MCYanked == <<"y", "y", "y">>
MCWindows == {<<21, 3>>, <<22, 2>>, <<24, 0>>}
MCChunks == {<<NL>>, Times("t", 10), Times("t", 22), Times("t", 11) \o <<NL>>,
             <<"t", NL>> \o Times("t", 50) \o <<NL, "t">>}
Symmetry == Permutations(Fd) \cup Permutations(Callback)
=============================================================================
