------------------------------ MODULE MCPrompt -------------------------------
(***************************************************************************)
(* The prompt with small specifications: sets, sets in sets, variables,    *)
(* hidden and equal keywords, the rest of a line, references with          *)
(* callbacks and specifications that refer to themselves.                  *)
(***************************************************************************)
EXTENDS Prompt

A == <<"a">>
B == <<"b">>
AB == <<"a", "b">>
ABB == <<"a", "b", "b">>
C == <<"c">>
X == <<"x">>
Z == <<"0">>

Fn(f, args, pipe) == <<[fn |-> f, args |-> args, pipe |-> pipe]>>

\* Objects: a keyword and a variable
K(id, word, below) == [id |-> id, type |-> "command", word |-> word, hidden |-> FALSE,
                       fns |-> << >>, ref |-> << >>, below |-> below]
V(id, type, below) == [K(id, << >>, below) EXCEPT !.type = type]
Hidden(o) == [o EXCEPT !.hidden = TRUE]
Calls(o, fns) == [o EXCEPT !.fns = fns]
Referred(o, ref) == [o EXCEPT !.ref = ref]

Tree(objs) == [objs |-> objs, ends |-> FALSE, sets |-> FALSE]
Or(objs)   == [objs |-> objs, ends |-> TRUE, sets |-> FALSE]
Set(objs)  == [objs |-> objs, ends |-> FALSE, sets |-> TRUE]
End        == [objs |-> << >>, ends |-> TRUE, sets |-> FALSE]

\* c @{ a; ab; <n>; }
ASet ==
    [root |-> Tree(<<K("c", C, "S")>>),
     S |-> Set(<<K("a", A, "end"), K("ab", AB, "end"), V("n", "number", "end")>>),
     end |-> End]

\* c @{ a [x b]; x c; }: the keyword x twice
Twice ==
    [root |-> Tree(<<K("c", C, "S")>>),
     S |-> Set(<<K("a", A, "A"), K("x2", X, "W")>>),
     A |-> Or(<<K("x1", X, "X")>>),
     X |-> Tree(<<K("b", B, "end")>>),
     W |-> Tree(<<K("c2", C, "end")>>),
     end |-> End]

\* c @{ a @{ b; <n> x; }  x; }
Nested ==
    [root |-> Tree(<<K("c", C, "S")>>),
     S |-> Set(<<K("a", A, "T"), K("x", X, "end")>>),
     T |-> Set(<<K("b", B, "end"), V("n", "number", "N")>>),
     N |-> Tree(<<K("nx", X, "end")>>),
     end |-> End]

\* Hidden and equal keywords, variables beside keywords, the rest of a line
Mixed ==
    [root |-> Tree(<<K("ab", AB, "R"), K("abb", ABB, "M"), Hidden(K("c", C, "M")), K("x", X, "D")>>),
     R |-> Tree(<<V("r", "rest", "end")>>),
     M |-> Or(<<V("n", "number", "end"), V("s", "string", "end"), Hidden(K("b", B, "end"))>>),
     D |-> Tree(<<Calls(K("d1", A, "end"), Fn("f", <<"1">>, FALSE)),
                  Calls(K("d2", A, "end"), Fn("g", <<"2">>, FALSE))>>),
     end |-> End]

\* References: their callbacks, in a set and below each other
Refers ==
    [root |-> Tree(<<K("c", C, "S"), Referred(K("x", X, "P"), Fn("f", <<"1">>, FALSE))>>),
     S |-> Set(<<Referred(K("a", A, "T"), Fn("f", <<"2">>, FALSE)),
                 Calls(K("b", B, "end"), Fn("g", << >>, FALSE))>>),
     T |-> Or(<<K("t", X, "end")>>),
     P |-> Set(<<Referred(K("p", A, "Q"), Fn("prepend_me", <<"3">>, FALSE)),
                 Calls(K("q", B, "end"), Fn("h", <<"4">>, FALSE)),
                 Referred(K("o", X, "end"), Fn("prepend_me", <<"5">>, FALSE)),
                 Calls(K("pipe", C, "end"), Fn("less", << >>, TRUE))>>),
     Q |-> Or(<<K("z", X, "end")>>),
     end |-> End]

\* a @t;  where t is  b; a @t;
Recursive ==
    [root |-> Tree(<<K("a", A, "t")>>),
     t |-> Or(<<K("b", B, "end"), K("a2", A, "t")>>),
     end |-> End]

\* a @u;  where u is  b [c @u];  one keyword after the other, for ever
Round ==
    [root |-> Tree(<<K("a", A, "u")>>),
     u |-> Tree(<<K("b", B, "v")>>),
     v |-> Or(<<K("c", C, "u")>>),
     end |-> End]

MCSpecs == {ASet, Twice, Nested, Mixed, Refers, Recursive, Round}
MCWords == {A, B, AB, C, X, Z}
MCModes == {{}, {"STEPS"}, {"SHOW"}, {"COLUMNS"}}
=============================================================================
