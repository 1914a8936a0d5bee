------------------------------ MODULE MCValues -------------------------------
(***************************************************************************)
(* Integers of 3, 4, 5 and 7 bits, decimals with up to two fraction-digits *)
(* (three are refused), masks up to 3, a fraction of a second of two       *)
(* digits.  Texts are all sequences of the symbols up to a length.         *)
(***************************************************************************)
EXTENDS Values

Texts(C, n) == UNION {[1 .. k -> C] : k \in 0 .. n}

MCMacGroups == <<2, 2>>
MCUuidGroups == <<2, 1>>
MCWidth == [int8 |-> 3, int16 |-> 4, int32 |-> 5, int64 |-> 7, int |-> 5,
            uint8 |-> 3, uint16 |-> 4, uint32 |-> 5, uint64 |-> 7]

Whole == UNION {{Written(m, 10, 1), <<"-">> \o Written(m, 10, 1), <<"0">> \o Written(m, 8, 1),
                 <<"-", "0", "x">> \o Written(m, 16, 1), <<"0", "x", "0">> \o Written(m, 16, 1)} :
             m \in {0, 1, 3, 4, 6, 7, 8, 9, 15, 16, 31, 32, 63, 64, 65, 126, 127, 128, 130}}
Numerals == Texts({"-", "0", "1", "8", "x"}, 3) \cup Whole
             \cup {<<" ", "7">>, <<"+", "3">>, <<"-", " ", "1">>, <<"0", "x", "-", "1">>}
\* Up to three symbols behind a mandatory part
After(p, C, n) == {p \o t : t \in Texts(C, n)}

MCText == [t \in Parseable |->
    CASE t \in Numbers -> Numerals
      [] t = "dec64"   -> Texts({"-", ".", "0", "3", "6"}, 4) \cup {<<"6", ".", "4">>, <<"-", "6", ".", "4">>,
                          <<"-", "6", ".", "5">>, <<"-", ".", "6", "4">>, <<"-", "0", ".", "6", "5">>}
      [] t = "bool"    -> Texts({"true", "off", "yes"}, 2)
      [] t = "string"  -> Texts({"a", "\\", "?"}, 3)
      [] t = "prefix"  -> After(<<"net">>, {"/", "-", "0", "1", "3"}, 3) \cup After(<<"odd">>, {"/", "1"}, 2)
      [] t = "url"     -> After(<<"p", ":", "/", "/">>, {"h", "/", "@", ":"}, 4) \cup Texts({"p", ":", "/"}, 3)
      [] t = "time"    -> After(<<"T">>, {".", "0", "7", "Z", "+"}, 4) \cup {<<>>}
      [] t \in {"macaddr", "uuid"} -> {<<"0", "f">> \o u : u \in Texts({"0", ":", "-", "g"}, 3)}]

Unbounded(t, n) == [vtype |-> t, n |-> n, ranges |-> <<>>, regex |-> <<>>]
MCSpec ==
    {Unbounded(t, 1) : t \in Parseable} \cup {Unbounded("dec64", n) : n \in {2, 3}}
    \cup {[Unbounded("int8", 1) EXCEPT !.ranges = <<<<-3, -1>>, <<1, 2>>>>],
          [Unbounded("uint8", 1) EXCEPT !.ranges = <<<<1, 3>>, <<6, 6>>>>],
          [Unbounded("int64", 1) EXCEPT !.ranges = <<<<-10, 63>>>>],
          [Unbounded("dec64", 1) EXCEPT !.ranges = <<<<-30, 0>>, <<33, 63>>>>],
          [Unbounded("string", 1) EXCEPT !.ranges = <<<<1, 2>>>>,
             !.regex = <<[matches |-> {<<"a">>, <<"a", "?">>}, invert |-> TRUE]>>]}

MCNumbers == {Var(t, 1, v) : t \in {"int8", "int32"}, v \in {-1, 1}} \cup {Var("uint8", 1, 7)}
             \cup {Var("dec64", 1, v) : v \in {-36, 0, 33}}
\* A string in memory is as good as another
Symmetry == Permutations(Cell)

MCLine == Texts({"a", " ", "\\", "?", "\"", "|"}, 4) \ {<<>>}
=============================================================================
