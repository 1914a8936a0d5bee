------------------------------ MODULE Terminal -------------------------------
(***************************************************************************)
(* A session at the terminal: a line is edited (Redraw) while descriptors  *)
(* are waited for (Select), and the command that is entered writes its     *)
(* output page by page (Pager).  A change of the window comes at any time, *)
(* and each of the three parts takes notice of it at another one.          *)
(***************************************************************************)
EXTENDS Redraw

CONSTANTS
    Windows,        \* sizes of the window, as <<columns, rows>>
    MinWidth,       \* TERM_MIN_SCREEN_WIDTH
    Paging,         \* cligen_paging_get
    Chunks,         \* the texts of one call of cligen_output
    Fd, Callback, Stdin,
    MaxEvents       \* bound: on four times the keys, five times the calls of the
                    \* application, ten times the signals and results of select

ASSUME TerminalAssumption ==
    /\ Windows \subseteq (Nat \ {0}) \X Nat /\ MinWidth \in Nat \ {0}
    /\ Paging \in BOOLEAN /\ MaxEvents \in Nat
    /\ Chunks \subseteq Seq(STRING)
    /\ Stdin \notin Fd

VARIABLES
    rows,           \* _terminalrows
    phase,          \* "command": in the application; "select", "read": gl_getc
    disturbed,      \* the width of the window changed under the row of the editor
    window,         \* under the output of a command it stayed the "same", became
                    \* "narrower" once, or changed otherwise: "other"
    events,
    dLines, dColumns, out, call, asks, given, shown, quit, helped,      \* Pager
    extfds, wanted, gap, ready, next, served                    \* Select

P == INSTANCE Pager
S == INSTANCE Select

pager    == <<dLines, dColumns, out, call, asks, given, shown, quit, helped>>
watching == <<extfds, wanted, gap, ready, next, served>>
vars == <<redrawVars, rows, phase, disturbed, window, events, pager, watching>>

\* cligen_terminal_width_set
WidthFor(columns) == IF columns = 0 THEN 65535 ELSE Max({columns, MinWidth})
\* cligen_terminal_width
OutputWidth == IF termw = 65535 THEN 80 ELSE termw
Columns == Len(out.row)

Init ==
    \E w \in Windows :
        /\ termw = WidthFor(w[1]) /\ rows = w[2]
        /\ line = << >> /\ overwrite = FALSE /\ searching = -1
        /\ ed = NotDrawn(w[1])
        /\ phase = "command" /\ disturbed = FALSE /\ window = "same" /\ events = 0
        /\ P!PagerInit(w[1])
        /\ S!SelectInit

Costs(n) == events + n <= MaxEvents /\ events' = events + n

----------------------------------------------------------------------------
(* The application: output and registrations, between two lines *)
CanCommand == phase = "command" /\ call = P!NoCall

Output ==
    /\ CanCommand /\ Costs(5)
    /\ \E text \in Chunks : P!cligen_output(text, OutputWidth, rows, Paging)
    /\ UNCHANGED <<redrawVars, rows, phase, disturbed, window, watching>>

Page ==
    /\ P!Scroll \/ P!Return \/ \E key \in P!Answers \ {"signal"} : P!Answer(key, Columns)
    /\ UNCHANGED <<redrawVars, rows, phase, disturbed, window, events, watching>>

Register ==
    /\ CanCommand /\ Costs(5)
    /\ \/ \E fd \in Fd, cb \in Callback : S!gl_regfd(fd, cb)
       \/ \E fd \in Fd : S!gl_unregfd(fd)
    /\ UNCHANGED <<redrawVars, rows, phase, disturbed, window, pager, ready, next, served>>

(* The command ends with cli_output_reset; gl_getline up to the first key *)
GetLine ==
    /\ CanCommand /\ Costs(0)
    /\ P!Reset(Columns) /\ window' = "same"
    /\ Start /\ phase' = "select" /\ disturbed' = FALSE
    /\ UNCHANGED <<rows, watching>>

----------------------------------------------------------------------------
(* gl_getc: gl_select, and when it returns the key is read *)
SelectReturns ==
    /\ phase = "select"
    /\ \/ S!Returns({Stdin}) /\ UNCHANGED events
       \/ Costs(10) /\ \E some \in SUBSET (Fd \cup {Stdin}) : some \cap Fd # {} /\ S!Returns(some)
    /\ UNCHANGED <<redrawVars, rows, phase, disturbed, window, pager>>

Callbacks ==
    /\ phase = "select" /\ next > 0
    /\ \/ (S!Call \/ S!Pass) /\ UNCHANGED phase
       \/ S!BackToSelect /\ S!Leave /\ UNCHANGED phase
       \/ S!KeyIsRead /\ S!Leave /\ phase' = "read"
    /\ UNCHANGED <<redrawVars, rows, disturbed, window, events, pager>>

\* A callback returns -1: gl_select gives up and read waits for a key
CallbackFails ==
    /\ phase = "select"
    /\ S!Fails /\ phase' = "read"
    /\ UNCHANGED <<redrawVars, rows, disturbed, window, events, pager>>

KeyRead ==
    /\ phase = "read" /\ Costs(4)
    /\ \/ KeyInRow /\ UNCHANGED disturbed
       \/ KeyOnNewRow /\ disturbed' = FALSE
    /\ phase' = "select"
    /\ UNCHANGED <<rows, window, pager, watching>>

\* The command begins on a row of its own
EndLine ==
    /\ phase = "read" /\ Costs(4)
    /\ Newline
    /\ phase' = "command" /\ disturbed' = FALSE
    /\ UNCHANGED <<rows, window, pager, watching>>

----------------------------------------------------------------------------
(* sigwinch_handler, gl_interrupt_hook: cligen_gwinsz.  The signal ends a  *)
(* select and a fgetc, and waits for the end of what is atomic here.       *)
Winch ==
    /\ Costs(10)
    /\ \E w \in Windows :
        /\ termw' = WidthFor(w[1]) /\ rows' = w[2]
        /\ ed' = [ed EXCEPT !.tty = Resized(@, w[1])]
        /\ w # <<Columns, rows>> \/ asks
        /\ disturbed' = (disturbed \/ (phase # "command" /\ w[1] # Len(ed.tty.row)))
        /\ window' = IF given = 0 THEN window
                     ELSE IF OutputWidth' < OutputWidth THEN "narrower"
                     ELSE IF window = "same" /\ w # <<Columns, rows>> THEN "other" ELSE window
        /\ IF asks THEN P!Answer("signal", w[1])
                   ELSE /\ out' = Resized(out, w[1])
                        /\ UNCHANGED <<dLines, dColumns, call, asks, given, shown, quit, helped>>
    /\ IF phase = "select" /\ next = 0 THEN phase' = "read" ELSE UNCHANGED phase
    /\ UNCHANGED <<line, overwrite, searching, watching>>

Next ==
    \/ Output \/ Page \/ Register \/ GetLine
    \/ SelectReturns \/ Callbacks \/ CallbackFails \/ KeyRead \/ EndLine
    \/ Winch

Spec == Init /\ [][Next]_vars

----------------------------------------------------------------------------
(***************************************************************************)
(* Properties                                                              *)
(***************************************************************************)
(***************************************************************************)
(* Whatever keys were pressed, the row on the terminal is the prompt and a *)
(* piece of the line, with a `$` where it goes on, and the cursor is on    *)
(* its character: gl_fixup, which writes only what it thinks has changed,  *)
(* knows what is there.  Only the columns of gl_width count: a kill may    *)
(* leave a character in the last column.  A row under which the width of   *)
(* the window changed is not looked at: gl_width is that of the window     *)
(* when the prompt was written, gl_scrollw that of the window now.         *)
(***************************************************************************)
Room == ed.width - 1
PieceFrom(s) ==
    LET rest == Piece(line, s, Len(line))
        part == IF Len(rest) > Room THEN Piece(rest, 0, Room - 1) \o <<Marker>> ELSE rest
    IN  IF s = 0 THEN part ELSE <<Marker>> \o Tail(part)
InRow(s) == ed.prompt \o PieceFrom(s) \o Times(Blank, Room - Len(PieceFrom(s)))

ScreenShowsLine ==
    phase \in {"select", "read"} /\ ~disturbed =>
        \E s \in 0 .. ed.pos :
            /\ s > 0 => s < Len(line)
            /\ Piece(ed.tty.row, 0, Len(ed.prompt) + Room) = InRow(s)
            /\ ed.tty.col = Len(ed.prompt) + ed.pos - s

(***************************************************************************)
(* When the user is asked, no line that was written since the last answer  *)
(* has left the window, in whatever pieces the text came and however long  *)
(* its lines are.  The help for `?` moves the cursor to another column than *)
(* the pager counts on, after which a page may be a line too long.         *)
(* A window of one row has no room for a line and the question.            *)
(***************************************************************************)
PageFits == asks /\ call.rows > 1 /\ window = "same" /\ ~helped => out.down < call.rows

(***************************************************************************)
(* All of the text is written, unless the user has ended it; and the pager *)
(* stays inside of the text, unless the window became narrower than the    *)
(* column that the text had reached.                                       *)
(***************************************************************************)
AllIsShown ==
    window # "narrower" =>
        /\ call # P!Crash
        /\ call = P!NoCall /\ ~quit => shown = given

(***************************************************************************)
(* What is waited for is what the application wants, and each callback is  *)
(* called for its own descriptor, once for a result of select - as long as *)
(* the descriptors are taken away in the opposite order.                   *)
(***************************************************************************)
WaitsForWanted ==
    ~gap => /\ {<<extfds[i].fd, extfds[i].cb>> : i \in DOMAIN extfds} = wanted
            /\ Len(extfds) = Cardinality(wanted)
            /\ \A i, j \in DOMAIN served : served[i][1] = served[j][1] => i = j
=============================================================================
