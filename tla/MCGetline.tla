----------------------------- MODULE MCGetline ------------------------------
(***************************************************************************)
(* An instance of Getline for TLC.                                         *)
(***************************************************************************)
EXTENDS Getline

CONSTANTS a, b, sp, nl

Chars     == {a, b, sp, nl}
Lines     == {<<a>>, <<a, b>>, <<b, a, b, a>>}
FileLines == {<<a, b>>, <<b, a, b, a>>}

(* Bounds: the keys that kill or overwrite are tried on lines of a and      *)
(* space with an empty history; with a history, typed lines are shorter,    *)
(* have no newline, and are not edited after a search.                      *)
Uses(l, chars) == \A k \in DOMAIN l : l[k] \in chars
Unkilled    == kill = << >> /\ killSize = BufLen
KillRegime  ==
    histPre = Null /\ string = << >> /\ ~search /\ ~escape /\ Uses(buf, {a, sp})
TypeRegime  ==
    histPre = Null /\ string = << >> /\ Unkilled /\ ~overwrite
RecallRegime ==
    /\ Unkilled /\ ~overwrite /\ ~escape
    /\ \/ buf \in Lines \cup {<< >>}
       \/ Len(buf) <= 2 /\ string = << >> /\ Uses(buf, {a, b, sp})
    /\ Uses(string, {a, b})
Regime == KillRegime \/ TypeRegime \/ RecallRegime
=============================================================================
