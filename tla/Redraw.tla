------------------------------- MODULE Redraw --------------------------------
(***************************************************************************)
(* What the line editor draws (cligen_getline.c): every key changes the    *)
(* line and calls gl_fixup, which writes no more than is needed to bring   *)
(* the row of the terminal up to date, from what it knows of it.  A line   *)
(* that is too long scrolls, in steps of a third of the width, with a `$`  *)
(* where it goes on.  Kill buffer and history are reduced to texts.        *)
(***************************************************************************)
EXTENDS Tty, FiniteSetsExt

CONSTANTS
    Prompt,         \* cligen_prompt
    Yanked,         \* a text in the kill buffer
    Recallable,     \* the lines of the history
    Typed,          \* the characters that are typed
    MaxSearch,      \* bound: length of the search string
    MaxLine         \* bound: length of the line

ASSUME RedrawAssumption ==
    /\ MaxSearch \in Nat /\ MaxLine \in Nat
    /\ Prompt \in Seq(STRING) /\ Yanked \in Seq(STRING) /\ Recallable \subseteq Seq(STRING)

VARIABLES
    line,           \* cligen_buf
    ed,             \* what gl_fixup knows: gl_pos, gl_cnt, fixup_gl_shift,
                    \* fixup_off_left and _right, gl_width, fixup_last_prompt;
                    \* and the terminal (tty) that it writes to
    termw,          \* gl_termw
    overwrite,      \* gl_overwrite
    searching       \* search_pos, the length of the search string; -1: no search

redrawVars == <<line, ed, termw, overwrite, searching>>

Marker == "$"
scrollw == termw \div 3

Piece(l, from, to) == SubSeq(l, from + 1, to)   \* l[from .. to-1] in C
Times(c, n) == [k \in 1 .. Max({0, n}) |-> c]

----------------------------------------------------------------------------
(***************************************************************************)
(* gl_fixup_scroll(prompt, change, cursor) with gl_extent: the state d of  *)
(* the editor and the terminal becomes another one.                        *)
(***************************************************************************)
ReprintsPrompt(d, p, keeps) ==
    [d EXCEPT !.pos = IF keeps THEN d.shift ELSE 0,
              !.cnt = IF keeps THEN d.cnt + Len(d.prompt) - Len(p) ELSE 0,
              !.shift = IF keeps THEN @ ELSE 0,
              !.left = keeps /\ @, !.right = keeps /\ @,
              !.width = termw - Len(p), !.prompt = p,
              !.tty = Write(d.tty, <<CR>> \o p)]

\* fixup_gl_shift, in steps of gl_scrollw and with some reluctance
ShiftFor(b, to) ==
    LET extra == IF b.right \/ (b.left /\ to < b.shift + b.width - scrollw \div 2)
                 THEN 2 ELSE 0
        want  == to + extra + scrollw - b.width
    IN  IF want > 0 THEN (want \div scrollw) * scrollw ELSE 0

\* Plausible bug: what was longer before is not erased
NoPad(old, new) == 0
Pad(old, new) == Max({0, old - new})

\* From here on b is what was drawn and n what is to be.  The part of the line
\* from left on is written, behind as many backspaces as it takes, and then the
\* cursor is moved
Cursor(l, from, to) == IF from > to THEN Times(BS, from - to) ELSE Piece(l, from, to)

Drawn(b, n, l, left, backup, extent) ==
    LET right  == IF n.right THEN n.shift + n.width - 2 ELSE n.cnt
        upto   == IF n.shift = b.shift /\ extent > 0 /\ right > left + extent
                  THEN left + extent ELSE right
        pad    == Pad(IF b.right THEN b.width - 1 ELSE b.cnt - b.shift,
                      IF n.right THEN n.width - 1 ELSE n.cnt - n.shift)
        goeson == n.right /\ upto = right
        first  == IF left = n.shift /\ n.left THEN <<Marker>> \o Piece(l, left + 1, upto)
                  ELSE Piece(l, left, upto)
        behind == IF goeson THEN <<Marker>> ELSE Times(Blank, pad)
    IN  IF left > right THEN Cursor(l, b.pos, n.pos)
        ELSE Times(BS, backup) \o first \o behind
             \o Cursor(l, upto + (IF goeson THEN 1 ELSE pad), n.pos)

Changed(b, n, l, change, extent) ==
    LET at  == Min({change, n.cnt})
        all == n.shift # b.shift \/ at < n.shift + (IF n.left THEN 1 ELSE 0)
    IN  IF n.shift = b.shift /\ change < 0 THEN Cursor(l, b.pos, n.pos)
        ELSE Drawn(b, n, l, IF all THEN n.shift ELSE at,
                   b.pos - (IF all \/ change < 0 THEN b.shift ELSE at), extent)

Redrawn(b, n, l, change, extent) ==
    [n EXCEPT !.tty = Write(b.tty, Changed(b, n, l, change, extent))]

Shifted(b, l, change, cnt, to, shift, extent) ==
    LET scrolls == shift # b.shift
    IN  Redrawn(b, [b EXCEPT !.pos = to, !.cnt = cnt, !.shift = shift,
                             !.left = IF scrolls THEN shift > 0 ELSE @,
                             !.right = IF scrolls \/ change >= 0
                                       THEN cnt > shift + b.width - 1 ELSE @],
                l, change, extent)

Fitted(b, l, change, cnt, to, extent) ==
    Shifted(b, l, change, cnt, to, ShiftFor(b, to), extent)

Prompted(b, l, change, cursor, extent) ==
    LET cnt == IF change >= 0 THEN Len(l) ELSE b.cnt
    IN  Fitted(b, l, change, cnt, Max({0, Min({cursor, cnt})}), extent)

gl_fixup_scroll(d, l, p, change, cursor, extent) ==
    IF change = -2 \/ p # d.prompt
    THEN Prompted(ReprintsPrompt(d, p, change # -2), l, 0, cursor, extent)
    ELSE Prompted(d, l, change, cursor, extent)

----------------------------------------------------------------------------
(***************************************************************************)
(* The keys: each leaves another line and what gl_fixup has made of it.    *)
(***************************************************************************)
NotDrawn(columns) ==
    [pos |-> 0, cnt |-> 0, shift |-> 0, left |-> FALSE, right |-> FALSE,
     width |-> 0, prompt |-> << >>, tty |-> Fresh(columns)]
OnNewRow(d) == [d EXCEPT !.tty = Fresh(Len(@.row))]

Becomes(l, d) ==
    /\ Len(l) <= MaxLine           \* bound
    /\ line' = l
    /\ ed' = [d EXCEPT !.tty.down = 0]
    /\ UNCHANGED termw

Fixup(d, l, change, cursor, extent) == gl_fixup_scroll(d, l, Prompt, change, cursor, extent)

\* search_prompt
SearchPrompt(n) == Times("s", n) \o <<"?", Blank>>

\* Every control key but those of the search ends a search first: search_term
Ready == IF searching >= 0 THEN Fixup(ed, line, 0, ed.pos, 0) ELSE ed
Control(l, d) == Becomes(l, d) /\ searching' = -1 /\ UNCHANGED overwrite

Inserted(s, p) == Piece(line, 0, p) \o s \o Piece(line, p, Len(line))
Replaced(s, p) == Piece(line, 0, p) \o s \o Piece(line, p + Len(s), Len(line))
Without(p, q)  == Piece(line, 0, p) \o Piece(line, q, Len(line))

\* gl_addchar
Adds(l, extent) == Becomes(l, Fixup(ed, l, ed.pos, ed.pos + 1, extent))
AddChar(c) ==
    /\ searching = -1
    /\ IF overwrite /\ ed.pos < ed.cnt
       THEN Adds(Replaced(<<c>>, ed.pos), 1) ELSE Adds(Inserted(<<c>>, ed.pos), 0)
    /\ UNCHANGED <<overwrite, searching>>

\* gl_yank
Yank ==
    LET l == IF overwrite THEN Replaced(Yanked, ed.pos) ELSE Inserted(Yanked, ed.pos)
    IN  Control(l, Fixup(Ready, l, ed.pos, ed.pos + Len(Yanked),
                         IF overwrite THEN Len(Yanked) ELSE 0))

\* gl_transpose
Transpose ==
    /\ ed.pos > 0 /\ ed.pos < ed.cnt
    /\ LET l == Replaced(<<line[ed.pos + 1], line[ed.pos]>>, ed.pos - 1)
       IN  Control(l, Fixup(Ready, l, ed.pos - 1, ed.pos, 2))

\* gl_del
Del(loc) ==
    /\ IF loc = -1 THEN ed.pos > 0 ELSE ed.pos < ed.cnt
    /\ searching = -1 \/ loc = 0
    /\ LET p == ed.pos + loc IN
       Control(Without(p, p + 1), Fixup(Ready, Without(p, p + 1), p, p, 0))

\* gl_kill
KillEnd ==
    /\ ed.pos < ed.cnt
    /\ LET l == Piece(line, 0, ed.pos) IN Control(l, Fixup(Ready, l, ed.pos, ed.pos, 0))

\* gl_kill_begin and gl_kill_word write the rest of the line and draw it again
Rewritten(d, l) == [d EXCEPT !.tty = Write(d.tty, Piece(l, d.pos, d.cnt))]
Killed(l, from, change) ==
    Control(l, Fixup(Rewritten(Fixup(Ready, l, change, from, 0), l), l, -2, from, 0))
KillPiece(from, change) == Killed(Without(from, ed.pos), from, change)

KillBegin == ed.pos > 0 /\ KillPiece(0, 0)

\* The start of the word that ends before p
WordStart(p) ==
    LET IsWord(k) == line[k + 1] # Blank
        ends == {k \in 0 .. p - 1 : IsWord(k)}
        e    == IF ends = {} THEN 0 ELSE Max(ends)
        gaps == {k \in 0 .. e - 1 : ~IsWord(k)}
    IN  IF gaps = {} THEN 0 ELSE Max(gaps) + 1

\* The start of the word behind the one at p
NextWord(p) ==
    LET IsWord(k) == line[k + 1] # Blank
        gaps  == {k \in p .. ed.cnt - 1 : ~IsWord(k)}
        e     == IF gaps = {} THEN ed.cnt ELSE Min(gaps)
        words == {k \in e .. ed.cnt - 1 : IsWord(k)}
    IN  IF words = {} THEN ed.cnt ELSE Min(words)

KillWord == ed.pos > 0 /\ KillPiece(WordStart(ed.pos), ed.pos)

\* The keys that only move the cursor
Move ==
    \E to \in {0, ed.pos - 1, ed.pos + 1, ed.cnt, WordStart(ed.pos), NextWord(ed.pos)} :
        Control(line, Fixup(Ready, line, -1, to, 0))

\* hist_copy_prev, hist_copy_next; the same keys end a search, as ESC does
Recall(l) == searching = -1 /\ Control(l, Fixup(ed, l, 0, Len(l), 0))
EndSearch == searching >= 0 /\ Control(line, Ready)

ToggleOverwrite ==
    /\ searching = -1
    /\ overwrite' = ~overwrite
    /\ UNCHANGED <<line, ed, termw, searching>>

----------------------------------------------------------------------------
(***************************************************************************)
(* A search: ^R or ^S, a letter, DEL.  The prompt grows with the search    *)
(* string; a line of the history is shown with the cursor in it, or none.  *)
(***************************************************************************)
Shows(n, l, at) ==
    /\ Becomes(l, gl_fixup_scroll(ed, l, SearchPrompt(n), 0, at, 0))
    /\ searching' = n
    /\ UNCHANGED overwrite

StartSearch == searching = -1 /\ Shows(0, << >>, 0)
SearchKey ==
    /\ searching >= 0
    /\ \E n \in {searching - 1, searching, searching + 1} \cap 0 .. MaxSearch,
          l \in Recallable \cup {<< >>} :
          IF l = << >> \/ n = 0 THEN Shows(n, << >>, 0)
          ELSE \E at \in {0, Len(l) - n} : Shows(n, l, at)

----------------------------------------------------------------------------
(***************************************************************************)
(* What starts on a row of its own: gl_getline, gl_redraw, gl_clear_screen,*)
(* and the hooks of `?` and TAB, which write "\n" and lines of help.  Of    *)
(* these only `?` does not end a search.                                   *)
(***************************************************************************)
Start ==
    /\ Becomes(<< >>, Fixup(OnNewRow(ed), << >>, -2, 0, 0))
    /\ UNCHANGED <<overwrite, searching>>

DrawAgain == Control(line, Fixup(OnNewRow(Ready), line, -2, ed.pos, 0))

Help ==
    /\ Becomes(line, Fixup(OnNewRow(ed), line, -2, ed.pos, 0))
    /\ UNCHANGED <<overwrite, searching>>

\* cli_tab_hook completes the word that ends at the cursor
Complete(c) ==
    LET l == Inserted(<<c>>, ed.pos)
    IN  Control(l, Fixup(OnNewRow(Ready), l, -2, ed.pos + 1, 0))

\* The interrupt key: the line is drawn again, and killed
KillAll(d) ==
    IF d.cnt = 0 THEN Control(line, d) ELSE Control(<< >>, Fixup(d, << >>, 0, 0, 0))
Interrupt == KillAll(Fixup(OnNewRow(Ready), line, -2, ed.pos, 0))

\* gl_newline leaves the row; nothing of what gl_fixup knows is used again
Newline == Control(<< >>, NotDrawn(Len(ed.tty.row)))

KeyInRow ==
    \/ \E c \in Typed : AddChar(c)
    \/ Yank \/ Transpose \/ Del(0) \/ Del(-1) \/ KillEnd \/ KillBegin \/ KillWord
    \/ Move \/ ToggleOverwrite \/ StartSearch \/ SearchKey \/ EndSearch
    \/ \E l \in Recallable : Recall(l)

KeyOnNewRow == DrawAgain \/ Help \/ Interrupt \/ \E c \in Typed : Complete(c)
=============================================================================
