-------------------------------- MODULE Tty ----------------------------------
(***************************************************************************)
(* The terminal that the editor and the pager write to: the row that the   *)
(* cursor is on, and how many rows it has gone down.  As on a VT100, the   *)
(* cursor stays on the last column when a character is written there, and  *)
(* only the next character goes to a new row.                              *)
(***************************************************************************)
EXTENDS Integers, SequencesExt

Blank == " "
CR    == "CR"
BS    == "BS"
NL    == "NL"

BlankRow(columns) == [c \in 1 .. columns |-> Blank]

\* A cursor at the start of an empty row
Fresh(columns) == [row |-> BlankRow(columns), col |-> 0, full |-> FALSE, down |-> 0]

NextRow(t) == [Fresh(Len(t.row)) EXCEPT !.down = t.down + 1]

Type(t, c) ==
    LET here == IF t.full THEN NextRow(t) ELSE t
        last == here.col + 1 = Len(here.row)
    IN  [here EXCEPT !.row[here.col + 1] = c,
                     !.col = IF last THEN @ ELSE @ + 1, !.full = last]

Put(t, c) ==
    CASE c = CR -> [t EXCEPT !.col = 0, !.full = FALSE]
      [] c = BS -> [t EXCEPT !.col = IF @ = 0 THEN 0 ELSE @ - 1, !.full = FALSE]
      [] c = NL -> NextRow(t)
      [] OTHER  -> Type(t, c)

\* The terminal after each of the first characters
After(t, s) ==
    LET tty[n \in 0 .. Len(s)] == IF n = 0 THEN t ELSE Put(tty[n - 1], s[n]) IN tty
Write(t, s) == After(t, s)[Len(s)]

\* Another window: what is outside of it is gone
Resized(t, columns) ==
    [t EXCEPT !.row = [c \in 1 .. columns |-> IF c <= Len(t.row) THEN t.row[c] ELSE Blank],
              !.col = IF @ < columns THEN @ ELSE columns - 1, !.full = FALSE]
=============================================================================
