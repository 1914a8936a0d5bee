-------------------------------- MODULE Pager --------------------------------
(***************************************************************************)
(* cligen_output to a terminal (cligen_io.c): text is written in pieces    *)
(* that are no longer than what remains of a row, and after a page of them *)
(* the user is asked how to go on.  Lines and columns are counted over all *)
(* calls since cli_output_reset.                                           *)
(***************************************************************************)
EXTENDS Tty, FiniteSetsExt

CONSTANTS
    Chunks          \* the texts of one call: sequences of characters and NL

VARIABLES
    dLines, dColumns,   \* D_LINES, D_COLUMNS
    out,                \* the terminal; `down` counts the rows since the last key
    call,               \* the locals of the call: text left, remain, linelen, rows
    asks,               \* --More-- is on the terminal
    given, shown,       \* how many characters were given to cligen_output, and
                        \* written, since the reset
    quit, helped        \* since the reset the text was ended (by `q` or, in a
                        \* window of one row, by RETURN); `?` was pressed

pagerVars == <<dLines, dColumns, out, call, asks, given, shown, quit, helped>>

NoCall == [left |-> << >>, remain |-> 0, linelen |-> 0, rows |-> 0]
Crash  == [NoCall EXCEPT !.rows = -1]
Calling == call.rows > 0

PagerInit(columns) ==
    /\ dLines = 0 /\ dColumns = 0
    /\ out = Fresh(columns) /\ call = NoCall /\ asks = FALSE
    /\ given = 0 /\ shown = 0 /\ quit = FALSE /\ helped = FALSE

\* cli_output_reset, when a command has been entered and a row begins
Reset(columns) ==
    /\ dLines' = 0 /\ dColumns' = 0
    /\ out' = Fresh(columns)
    /\ given' = 0 /\ shown' = 0 /\ quit' = FALSE /\ helped' = FALSE
    /\ UNCHANGED <<call, asks>>

\* Without rows, or with paging off, nothing is counted
WriteAll(text) ==
    /\ out' = Write(out, text)
    /\ shown' = shown + Len(text)
    /\ UNCHANGED <<dLines, dColumns, call, asks, quit, helped>>

Enter(text, width, rows) ==
    /\ call' = [left |-> text, remain |-> width - dColumns, linelen |-> width, rows |-> rows]
    /\ UNCHANGED <<dLines, dColumns, out, asks, shown, quit, helped>>

cligen_output(text, width, rows, paging) ==
    /\ call = NoCall
    /\ given' = given + Len(text)
    /\ IF paging /\ rows > 0 THEN Enter(text, width, rows) ELSE WriteAll(text)

----------------------------------------------------------------------------
(***************************************************************************)
(* The loop of cligen_output_scroll.                                       *)
(***************************************************************************)
\* The piece that is written next, and whether it ends a row
RowEnds == {p \in DOMAIN call.left : call.left[p] = NL}
ToNewline == IF RowEnds = {} THEN 0 ELSE Min(RowEnds)
Taken == IF RowEnds # {} /\ ToNewline - 1 < call.remain THEN ToNewline
         ELSE Min({Len(call.left), call.remain})
LongerOnly == RowEnds # {} \/ Len(call.left) > call.remain    \* plausible bug
EndsRow == RowEnds # {} \/ Len(call.left) >= call.remain

Counted == IF EndsRow THEN 1 ELSE 0

Scroll ==
    /\ Calling /\ ~asks
    /\ call.left # << >> /\ dLines >= 0 /\ Taken > 0
    /\ LET piece == SubSeq(call.left, 1, Taken) IN
       /\ out' = Write(out, piece)
       /\ shown' = shown + Taken
       /\ dLines' = dLines + Counted
       /\ call' = [call EXCEPT !.left = SubSeq(@, Taken + 1, Len(@)),
                               !.remain = IF EndsRow THEN call.linelen ELSE @ - Taken]
    /\ asks' = (dLines' >= call.rows - 1)
    /\ UNCHANGED <<dColumns, given, quit, helped>>

\* The end of the loop.  A piece without characters is an end too, and so a
\* row of which nothing remains; less than nothing is copied as a size_t.
KeepsNoColumn == 0                      \* plausible bug
ColumnReached == call.linelen - call.remain

Return ==
    /\ Calling /\ ~asks
    /\ IF call.left = << >> \/ dLines < 0
       THEN dColumns' = ColumnReached /\ call' = NoCall /\ UNCHANGED dLines
       ELSE IF call.remain = 0
       THEN dColumns' = 0 /\ call' = NoCall /\ dLines' = dLines + 1
       ELSE call.remain < 0 /\ call' = Crash /\ UNCHANGED <<dLines, dColumns>>
    /\ UNCHANGED <<out, asks, given, shown, quit, helped>>

(***************************************************************************)
(* The answer to --More--, which is written over with blanks.  A signal    *)
(* interrupts fgetc and is an answer like any other character.             *)
(***************************************************************************)
MoreText == [k \in 1 .. 8 |-> "-"]
Over(c)  == [k \in 1 .. 8 |-> c]
Rub(key) == Over(BS) \o (IF key = "?" THEN <<"h", NL>> ELSE << >>) \o Over(Blank) \o Over(BS)

\* The window may have got another width while --More-- was in it
Rubbed(key, columns) ==
    IF columns = Len(out.row) THEN Write(out, MoreText \o Rub(key))
    ELSE Write(Resized(Write(out, MoreText), columns), Rub(key))

Answer(key, columns) ==
    /\ asks
    /\ dLines' = CASE key = "CR" -> dLines - 1
                   [] key = "q" -> -1
                   [] key = "?" -> dLines
                   [] OTHER -> 0
    /\ quit' = (quit \/ key = "q" \/ (key = "CR" /\ call.rows = 1))
    /\ helped' = (helped \/ key = "?")
    /\ out' = [Rubbed(key, columns) EXCEPT !.down = 0]
    /\ asks' = FALSE
    /\ UNCHANGED <<dColumns, call, given, shown>>

Answers == {"CR", " ", "q", "?", "signal"}
=============================================================================
