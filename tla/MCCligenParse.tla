---------------------------- MODULE MCCligenParse ---------------------------
(***************************************************************************)
(* Instances of CligenParse for TLC.                                       *)
(***************************************************************************)
EXTENDS CligenParse, TLC

Symmetry == Permutations(Word) \cup Permutations(Callback) \cup Permutations(TreeName)
=============================================================================
