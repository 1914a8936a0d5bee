---------------------------- MODULE MCParseTree -----------------------------
(***************************************************************************)
(* Instances of ParseTree for TLC.                                         *)
(***************************************************************************)
EXTENDS ParseTree

Empty         == [kind |-> "empty", name |-> 0]
Command(n)    == [kind |-> "command", name |-> n]
Reference(n)  == [kind |-> "reference", name |-> n]
Variable(n, t, o) == [kind |-> "variable", name |-> n, vtype |-> t, options |-> o]

(* CGV_INT32 and CGV_STRING *)
Int32  == 3
String == 12

(* Variables on both sides of the keywords, in and against the order of    *)
(* their types, and one with the name of a keyword; references with a low  *)
(* and a high name.                                                        *)
Objects ==
    {Empty, Command(2), Command(4), Command(6),
     Variable(1, String, 0), Variable(3, Int32, 0), Variable(5, String, 1),
     Variable(4, String, 1), Reference(3), Reference(7)}
=============================================================================
