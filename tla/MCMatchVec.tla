----------------------------- MODULE MCMatchVec -----------------------------
(***************************************************************************)
(* Instances of MatchVec for TLC.                                          *)
(***************************************************************************)
EXTENDS MatchVec

Command(outcome, m) ==
    [kind |-> "command", override |-> 0, marked |-> m, outcome |-> outcome]
Variable(t, p, outcome, m) ==
    [kind |-> "variable", type |-> t, override |-> p, marked |-> m,
     outcome |-> outcome]

Keywords ==
    {Command(outcome, FALSE) : outcome \in {"exact", "match", "mismatch"}}
    \cup {Command("match", TRUE)}

(* a variable of a low and one of a high preference, one that is lifted    *)
(* above all others, and one with the preference of a partial keyword      *)
Variables ==
    {Variable("string", 0, outcome, FALSE) : outcome \in {"match", "constraint"}}
    \cup {Variable("int8r", 0, outcome, FALSE) :
            outcome \in {"match", "constraint", "mismatch"}}
    \cup {Variable("rest", 0, "match", FALSE), Variable("bool", 0, "mismatch", FALSE),
          Variable("string", 110, "match", FALSE),
          Variable("string", 3, "match", FALSE),
          Variable("string", 0, "match", TRUE)}

Abstract ==
    {[kind |-> "empty", override |-> 0, marked |-> FALSE, outcome |-> "mismatch"]}

Objects == Keywords \cup Variables \cup Abstract
Siblings ==
    {Command("match", FALSE), Variable("bool", 0, "mismatch", FALSE),
     Variable("int8r", 0, "constraint", FALSE)}
=============================================================================
