------------------------------ MODULE MCExpand -------------------------------
(***************************************************************************)
(* Four trees.  Main refers to Sub, with rules, and to Data, whose working *)
(* point moves; Sub refers to Data and, further down, to Main.  Main has a *)
(* keyword in common with Sub, and Sub one with Data that only in Sub has  *)
(* the label that Main filters.                                            *)
(***************************************************************************)
EXTENDS Expand

CONSTANTS Main, Sub, Data, Pipe

Plain(name, kind) ==
    [name |-> name, kind |-> kind, labels |-> {}, hide |-> FALSE, callback |-> FALSE,
     tree |-> NULL, rules |-> << >>, words |-> {}, pipe |-> FALSE]
Key(name) == Plain(name, "command")
Ref(tree) == [Plain(tree, "reference") EXCEPT !.tree = tree]

MCObject ==
    [i \in 0 .. 18 |->
       CASE i = 0  -> Plain("", "empty")
         [] i = 1  -> [Key("a") EXCEPT !.callback = TRUE]
         [] i = 2  -> [Key("b") EXCEPT !.labels = {"local"}]
         [] i = 3  -> [Key("b") EXCEPT !.labels = {"own"}]
         [] i = 4  -> [Key("c") EXCEPT !.hide = TRUE]
         [] i = 5  -> Key("d")
         [] i = 6  -> Key("g")
         [] i = 7  -> [Key("h") EXCEPT !.labels = {"local"}]
         [] i = 8  -> Key("k")
         [] i = 9  -> Plain("s", "variable")
         [] i = 10 -> [Plain("v", "choice") EXCEPT !.words = {"d", "e"}]
         [] i = 11 -> [Plain("w", "expand") EXCEPT !.words = {"a", "f"}, !.labels = {"dyn"}]
         [] i = 12 -> [Ref(Data) EXCEPT !.rules = <<<<"remove", "own">>>>, !.callback = TRUE]
         [] i = 13 -> [Ref(Data) EXCEPT !.rules = <<<<"remove", "dyn">>>>, !.callback = TRUE]
         [] i = 14 -> Ref(Main)
         [] i = 15 -> [Ref(Sub) EXCEPT !.rules = <<<<"remove", "local">>, <<"add", "strict">>, <<"add", "local">>>>]
         [] i = 16 -> Ref(Unknown)
         [] i = 17 -> [Ref(Pipe) EXCEPT !.pipe = TRUE]
         [] OTHER  -> Ref(Pipe)]

MCWritten ==
    {<<Main, 1>>, <<Main, 1, 0>>, <<Main, 1, 9>>, <<Main, 5>>, <<Main, 5, 0>>,
     <<Main, 5, 16>>, <<Main, 12>>, <<Main, 15>>,
     <<Sub, 1>>, <<Sub, 1, 2>>, <<Sub, 1, 9>>, <<Sub, 2>>, <<Sub, 4>>, <<Sub, 4, 14>>,
     <<Sub, 8>>, <<Sub, 13>>,
     <<Data, 3>>, <<Data, 6>>, <<Data, 6, 5>>, <<Data, 6, 7>>, <<Data, 6, 7, 2>>, <<Data, 6, 7, 2, 0>>,
     <<Data, 6, 7, 5>>, <<Data, 6, 7, 12>>, <<Data, 6, 11>>, <<Data, 6, 18>>, <<Data, 10>>, <<Data, 10, 0>>,
     <<Data, 11>>,
     <<Pipe, 5>>, <<Pipe, 5, 0>>}

MCWrapper == [t \in {Main, Sub, Data, Pipe} |-> IF t = Main THEN Sub ELSE t]
=============================================================================
