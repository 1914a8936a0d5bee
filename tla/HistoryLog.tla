----------------------------- MODULE HistoryLog -----------------------------
(***************************************************************************)
(* What the command history promises: the last depth lines, newest first,  *)
(* and a position in them that hist_prev and hist_next move.  Position 0   *)
(* is the empty prompt; position d is the d-th last line.  recent[d] is    *)
(* Null when fewer than d lines were added.  added is the line last handed *)
(* to the history, got the one last taken from it.  CligenHistory          *)
(* implements this with a circular array.                                  *)
(***************************************************************************)
EXTENDS Integers, Sequences

CONSTANTS Line, Newline, Space, Null

VARIABLES depth, recent, pos, got, added
vars == <<depth, recent, pos, got, added>>

IsBlank(l)    == \A k \in DOMAIN l : l[k] \in {Newline, Space}
HasNewline(l) == \E k \in DOMAIN l : l[k] = Newline

Init ==
    /\ depth \in Nat \ {0}
    /\ recent = [d \in 1 .. depth |-> Null]
    /\ pos = 0
    /\ got = << >>
    /\ added = << >>

Text(d) == IF d = 0 \/ recent[d] = Null THEN << >> ELSE recent[d]

(* A new history forgets all lines. *)
Reset ==
    /\ depth' \in Nat \ {0}
    /\ recent' = [d \in 1 .. depth' |-> Null]
    /\ pos' = 0
    /\ UNCHANGED <<got, added>>

Push(l) ==
    recent' = [d \in 1 .. depth |-> IF d = 1 THEN l ELSE recent[d - 1]]

(***************************************************************************)
(* A line that is not blank and not the newest one is pushed, an equal one *)
(* is not.  What happens with a line that has a newline inside is left     *)
(* open.                                                                   *)
(***************************************************************************)
Add ==
    /\ added' \in Line
    /\ \/ /\ Push(added')
          /\ ~IsBlank(added')
          /\ HasNewline(added') \/ added' # recent[1]
       \/ /\ UNCHANGED recent
          /\ IsBlank(added') \/ HasNewline(added') \/ added' = recent[1]
    /\ pos' = 0
    /\ UNCHANGED <<depth, got>>

(* One line back, as long as there is a line at the position. *)
Prev ==
    /\ IF pos < depth /\ (pos = 0 \/ recent[pos] # Null)
         THEN pos' = pos + 1 /\ got' = Text(pos + 1)
         ELSE pos' = pos /\ got' = << >>
    /\ UNCHANGED <<depth, recent, added>>

Forth ==
    /\ IF pos > 0
         THEN pos' = pos - 1 /\ got' = Text(pos - 1)
         ELSE pos' = pos /\ got' = << >>
    /\ UNCHANGED <<depth, recent, added>>

Next == Reset \/ Add \/ Prev \/ Forth

Spec == Init /\ [][Next]_vars
=============================================================================
