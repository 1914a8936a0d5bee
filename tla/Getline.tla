------------------------------ MODULE Getline -------------------------------
(***************************************************************************)
(* Reading a command line: gl_getline and cliread, that is the line editor *)
(* (LineEdit) composed with the command history (CligenHistory), which the *)
(* user walks with ^P and ^N and searches with ^R and ^S.  Both the walk   *)
(* and the search move the one cursor of the history.                      *)
(*                                                                         *)
(* One step is one key, except that one iteration of the loops of          *)
(* search_back and search_forw is one step too.                            *)
(***************************************************************************)
EXTENDS LineEdit

CONSTANTS
    Null,       \* no line
    Line,       \* the lines the history may hold in the instance
    FileLine,   \* lines of a history file: the application loads them
    HistLines,  \* number of lines in the history
    SearchLen   \* SEARCH_LEN

ASSUME HistoryAssumption ==
    /\ FileLine \subseteq Line /\ Line \subseteq Seq(Char)
    /\ Null \notin Seq(Char)
    /\ HistLines \in Nat \ {0}
    /\ SearchLen \in Nat \ {0}

VARIABLES
    histSize, histBuf, histCur, histLast, histPre,      \* CligenHistory
    entered,        \* the line last added to the history
    phase,          \* "idle": in the application; "key": waiting for a key;
                    \* "search": in the loop of search_back or search_forw
    escape,         \* a backslash was typed
    search,         \* gl_search_mode
    string,         \* search_string
    forward,        \* search_forw_flg
    searchLast,     \* search_last
    newSearch,      \* new_search: the loop was started by ^R or ^S
    plain           \* only ^R, once, letters and DEL since the search began

ring == <<histSize, histBuf, histCur, histLast, histPre, entered>>
find == <<search, string, forward, searchLast, newSearch, plain>>
vars == <<edit, ring, phase, escape, find>>

H == INSTANCE CligenHistory WITH
        Typed <- Line, Files <- {}, MaxLines <- HistLines,
        got <- buf, added <- entered,
        file <- << >>, op <- "idle", todo <- << >>, i <- 0, fresh <- TRUE

Init ==
    /\ EditInit
    /\ histSize = HistLines + 1 /\ histBuf = H!FreshBuf(HistLines)
    /\ histCur = 0 /\ histLast = 0 /\ histPre = Null
    /\ entered = << >>
    /\ phase = "idle" /\ escape = FALSE
    /\ search = FALSE /\ string = << >> /\ forward = FALSE
    /\ searchLast = 0 /\ newSearch = FALSE /\ plain = FALSE

----------------------------------------------------------------------------
(* strstr: the position of the first occurrence of s in l *)
Occurs(s, l, p) == SubSeq(l, p + 1, p + Len(s)) = s
Places(s, l)    == {p \in 0 .. Len(l) - Len(s) : Occurs(s, l, p)}
Contains(l, s)  == Places(s, l) # {}
FirstPlace(s, l) == Leftmost(Places(s, l) \cup {Len(l)})

(* cli_trim: runs of blanks become one, none are left at the ends *)
Squeezed(l) ==
    LET kept == {k \in DOMAIN l : l[k] # Space \/ k = 1 \/ l[k - 1] # Space}
        Nth(n) == CHOOSE k \in kept : Cardinality({j \in kept : j < k}) = n - 1
    IN [n \in 1 .. Cardinality(kept) |-> l[Nth(n)]]
Solid(l, chars) == {k \in DOMAIN l : l[k] \notin chars}
Trim(l) ==
    LET s    == Squeezed(l)
        from == Solid(s, {Space})
        to   == Solid(s, {Space, Newline})
    IN IF to = {} THEN << >> ELSE SubSeq(s, Leftmost(from), Rightmost(to))

----------------------------------------------------------------------------
(* cligen_hist_file_load adds a line, which may be longer than the buffer. *)
KeepsSize(l) == bufSize                 \* mutant
HistAddSize(l) == IF Len(l) >= bufSize THEN Grown(bufSize, Len(l)) ELSE bufSize

LoadLine(l) ==
    /\ phase = "idle"
    /\ H!AddLine(l)
    /\ bufSize' = HistAddSize(l)
    /\ UNCHANGED <<text, kill, overwrite, killSize, phase, escape, find>>

(* gl_getline up to the first key *)
Prompt ==
    /\ phase = "idle"
    /\ phase' = "key"
    /\ escape' = FALSE
    /\ Replace(<< >>, 0)
    /\ UNCHANGED <<bufSize, ring, find>>

Key == phase = "key"

(***************************************************************************)
(* search_term, which every control key but ^R, ^S and DEL calls first.    *)
(***************************************************************************)
CurAfterTerm == IF search /\ buf = << >> THEN histLast ELSE histCur
EndSearch ==
    /\ search' = FALSE
    /\ escape' = FALSE
    /\ plain' = FALSE
    /\ UNCHANGED <<string, forward, searchLast, newSearch>>
Terminate ==
    /\ EndSearch
    /\ histCur' = CurAfterTerm
    /\ UNCHANGED <<histSize, histBuf, histLast, histPre, entered>>

----------------------------------------------------------------------------
(* A backslash is not added; the key after it is taken as it is. *)
Backslash ==
    /\ Key /\ ~escape
    /\ escape' = TRUE
    /\ UNCHANGED <<text, kill, overwrite, sizes, ring, phase, find>>

Printable(c) == c = Newline => escape

Type(c) ==
    /\ Key /\ ~search
    /\ Printable(c)
    /\ escape' = FALSE
    /\ AddChar(c)
    /\ UNCHANGED <<ring, phase, find>>

Control ==
    /\ Key
    /\ EditKey \/ (~search /\ Del(-1))
    /\ Terminate
    /\ UNCHANGED phase

(* hist_copy_prev, hist_copy_next: ^P and ^N, or the arrow keys *)
Recalled(l) == Replace(l, Len(l)) /\ UNCHANGED bufSize
Recall ==
    /\ Key
    /\ EndSearch
    /\ \/ /\ histCur' = H!AfterPrev(CurAfterTerm)
          /\ Recalled(H!TextPrev(CurAfterTerm))
       \/ /\ histCur' = H!AfterNext(CurAfterTerm)
          /\ Recalled(H!TextNext(CurAfterTerm))
    /\ UNCHANGED <<histSize, histBuf, histLast, histPre, entered, phase>>

(* ESC, in search mode ^N and ^P, and control keys that only ring the bell *)
Leave ==
    /\ Key
    /\ search \/ escape
    /\ Terminate
    /\ UNCHANGED <<text, kill, overwrite, sizes, phase>>

----------------------------------------------------------------------------
(***************************************************************************)
(* ^R and ^S: search_back and search_forw with new_search.                 *)
(***************************************************************************)
SearchFromHere == histCur               \* mutant: hist_pos_set left out
SearchFrom     == histLast

StartSearch(fwd) ==
    /\ Key /\ ~search
    /\ search' = TRUE
    /\ escape' = FALSE
    /\ forward' = fwd
    /\ string' = << >>
    /\ histCur' = SearchFrom
    /\ searchLast' = histLast
    /\ plain' = ~fwd
    /\ Replace(<< >>, 0)
    /\ UNCHANGED <<histSize, histBuf, histLast, histPre, entered, bufSize,
                   newSearch, phase>>

SearchAgain(fwd) ==
    /\ Key /\ search
    /\ forward' = fwd
    /\ escape' = FALSE
    /\ plain' = FALSE
    /\ IF string # << >> THEN phase' = "search" /\ newSearch' = TRUE
                         ELSE UNCHANGED <<phase, newSearch>>
    /\ UNCHANGED <<text, kill, overwrite, sizes, ring, search, string, searchLast>>

(* search_addchar: the line shown may do, else the search goes on from it *)
AnyLine(l, s)   == l # << >>            \* mutant
StillGood(l, s) == Contains(l, s)

Continue(l, s) ==
    /\ string' = s
    /\ IF StillGood(l, s)
         THEN Replace(l, FirstPlace(s, l)) /\ UNCHANGED <<phase, newSearch>>
         ELSE /\ phase' = "search" /\ newSearch' = FALSE
              /\ buf' = l
              /\ NotKill
              /\ UNCHANGED <<cnt, pos, overwrite>>
    /\ UNCHANGED <<histSize, histBuf, histLast, histPre, entered, bufSize,
                   search, forward, searchLast>>

SearchChar(c) ==
    /\ Key /\ search
    /\ Printable(c)
    /\ escape' = FALSE
    /\ Continue(buf, IF Len(string) + 1 < SearchLen THEN Append(string, c) ELSE string)
    /\ UNCHANGED <<histCur, plain>>

SearchRestart == searchLast

SearchDel ==
    /\ Key /\ search
    /\ escape' = FALSE
    /\ LET s   == IF string = << >> THEN string ELSE Upto(string, Len(string) - 1)
           cur == IF s # << >> THEN SearchRestart ELSE histLast
       IN /\ histCur' = cur
          /\ Continue(H!TextAt(cur), s)  \* hist_copy_pos
    /\ UNCHANGED plain

(* One iteration of the loops.  hist_prev and hist_next return "" at the end. *)
AtPrompt(line)  == line = << >> /\ histCur = histLast       \* mutant
Exhausted(line) == line = << >>

SearchStep ==
    /\ phase = "search"
    /\ LET cur  == IF forward THEN H!AfterNext(histCur) ELSE H!AfterPrev(histCur)
           line == IF forward THEN H!TextNext(histCur) ELSE H!TextPrev(histCur)
       IN /\ histCur' = cur
          /\ IF Exhausted(line)
               THEN phase' = "key" /\ Replace(<< >>, 0) /\ UNCHANGED searchLast
             ELSE IF Contains(line, string)
               THEN /\ phase' = "key"
                    /\ Replace(line, FirstPlace(string, line))
                    /\ searchLast' = IF newSearch THEN cur ELSE searchLast
               ELSE NotKill /\ UNCHANGED <<text, overwrite, phase, searchLast>>
    /\ UNCHANGED <<histSize, histBuf, histLast, histPre, entered, bufSize, escape,
                   search, string, forward, newSearch, plain>>

----------------------------------------------------------------------------
(***************************************************************************)
(* The end of a line, and what cliread does with it.                       *)
(***************************************************************************)
Enter ==
    /\ Key
    /\ EndSearch
    /\ Trim(buf) \in Line \cup {<< >>}  \* bound
    /\ LET l == Trim(buf) IN
         IF l = << >>
           THEN /\ Replace(<< >>, 0)    \* cliread reads another line
                /\ histCur' = CurAfterTerm
                /\ UNCHANGED <<histSize, histBuf, histLast, histPre, entered, phase>>
                /\ bufSize' = Grown(bufSize, cnt + 1)
           ELSE /\ H!AddLine(l)
                /\ buf' = l
                /\ NotKill
                /\ UNCHANGED <<cnt, pos, overwrite>>
                /\ bufSize' = Grown(bufSize, cnt + 1)
                /\ phase' = "idle"

(* A '\0' byte ends gl_getline with an empty line, and cliread prompts again. *)
Nul ==
    /\ Key
    /\ Replace(<< >>, 0)
    /\ escape' = FALSE
    /\ plain' = FALSE
    /\ UNCHANGED <<bufSize, ring, phase, search, string, forward, searchLast, newSearch>>

Emptied ==
    /\ buf' = << >>
    /\ NotKill
    /\ UNCHANGED <<cnt, pos, overwrite, bufSize>>

(* An exit key, or ^D on an empty line: cliread returns NULL. *)
Exit ==
    /\ Key
    /\ phase' = "idle"
    /\ Terminate
    /\ Emptied

(* The end of the input. *)
Eof ==
    /\ Key
    /\ phase' = "idle"
    /\ plain' = FALSE
    /\ Emptied
    /\ UNCHANGED <<ring, escape, search, string, forward, searchLast, newSearch>>

Next ==
    \/ \E l \in FileLine : LoadLine(l)
    \/ Prompt
    \/ Backslash
    \/ \E c \in Char : Type(c) \/ SearchChar(c)
    \/ Control \/ Recall \/ Leave
    \/ \E fwd \in BOOLEAN : StartSearch(fwd) \/ SearchAgain(fwd)
    \/ SearchDel \/ SearchStep
    \/ Enter \/ Nul \/ Exit \/ Eof

(* The loops of a search run without waiting for the user. *)
Spec == Init /\ [][Next]_vars /\ WF_vars(SearchStep)

----------------------------------------------------------------------------
(***************************************************************************)
(* Properties                                                              *)
(***************************************************************************)
(***************************************************************************)
(* Whenever a key is read, the editor knows the length of the line and the *)
(* cursor is in it, whichever function changed the line before.            *)
(***************************************************************************)
CursorAtKey == Key => CursorInLine

(***************************************************************************)
(* The line and the kill buffer fit in what is allocated, with their '\0'; *)
(* and so does every line of the history, for which the buffer is not      *)
(* grown when hist_copy_prev, hist_copy_next or the search copy it there.  *)
(***************************************************************************)
BuffersFit ==
    /\ Len(buf) < bufSize
    /\ Len(kill) < killSize
    /\ \A s \in H!Slot : histBuf[s] # Null => Len(histBuf[s]) < bufSize

(***************************************************************************)
(* What is shown during a search is a line of the history that contains    *)
(* the search string, with the cursor on it, or nothing; and the history   *)
(* is at this line, from which ^P, ^N and the next search go on.           *)
(***************************************************************************)
SearchShowsMatch ==
    Key /\ search /\ string # << >> /\ buf # << >> =>
        /\ buf = histBuf[histCur]
        /\ Contains(buf, string)
        /\ pos = FirstPlace(string, buf)

(***************************************************************************)
(* A search that was begun with ^R and only had letters added and deleted  *)
(* shows the newest line that contains the string, and nothing only if     *)
(* there is none.                                                          *)
(***************************************************************************)
SearchFindsNewest ==
    Key /\ search /\ plain /\ string # << >> =>
        LET hits == {d \in 1 .. HistLines :
                        /\ H!Recent[d] # Null
                        /\ Contains(H!Recent[d], string)}
        IN buf = IF hits = {} THEN << >> ELSE H!Recent[Leftmost(hits)]

(***************************************************************************)
(* hist_copy_pos copies from a slot that holds a string: search_last is    *)
(* the separator or a line that was found.                                 *)
(***************************************************************************)
CopiesLine == [][SearchDel => histBuf[histCur'] # Null]_vars

(***************************************************************************)
(* Every search ends: hist_prev and hist_next sooner or later return the   *)
(* empty string, wherever the search starts.                               *)
(***************************************************************************)
SearchEnds == phase = "search" ~> phase = "key"
=============================================================================
