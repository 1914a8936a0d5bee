-------------------------- MODULE MCCligenHistory --------------------------
(* Instances of CligenHistory for TLC. *)
EXTENDS CligenHistory

MCChar    == {"a", "b", "nl", "sp"}
MCNewline == "nl"
MCSpace   == "sp"

(* Plain lines, one of them the start of the other. *)
PlainLines == {<<"a">>, <<"a", "b">>}
(* A line with a newline inside, typed as backslash and return. *)
MultiLine == <<"a", "nl", "b">>

MCTyped == PlainLines \cup {MultiLine}
MCLine  == MCTyped \cup { << >>, <<"sp">>, <<"b">>, <<"b", "b">> }

(* No file yet; a file edited by hand; a file saved by an earlier session. *)
MCFiles == { << >>,
             << <<"a">>, << >>, <<"a">>, <<"sp">>, <<"b">> >>,
             << <<"a">>, <<"a", "b">> >> }
=============================================================================
