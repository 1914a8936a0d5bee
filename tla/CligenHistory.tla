--------------------------- MODULE CligenHistory ---------------------------
(***************************************************************************)
(* The command history of cligen (cligen_history.c): a circular array of   *)
(* line pointers in the CLIgen handle.  One slot more than the number of   *)
(* remembered lines is allocated; slot histLast always holds the static    *)
(* empty string and separates the newest line from the oldest.  A slot that *)
(* was never used is NULL.  histPre points at the line saved last and is    *)
(* what hist_add compares a new line with; since that pointer always aims   *)
(* at a string owned by a slot, it is modelled by the index of the slot.    *)
(*                                                                         *)
(* A line is a sequence of characters of which only Newline and Space are  *)
(* told apart from the others.  File operations are loops of the code, and  *)
(* one iteration of such a loop is one step here.                           *)
(***************************************************************************)
EXTENDS Integers, Sequences, FiniteSets

CONSTANTS
    Char,       \* the characters of a line
    Newline,    \* '\n'
    Space,      \* ' ' and '\t'
    Line,       \* the lines of the instance, typed by the user or read from a file
    Typed,      \* those that cliread hands to hist_add
    Files,      \* contents a history file may have at start: sequences of lines
    MaxLines,   \* bound: largest "lines" given to cligen_hist_init
    Null        \* the NULL pointer

ASSUME CharAssumption ==
    /\ {Newline, Space} \subseteq Char
    /\ Newline # Space
    /\ Null \notin Seq(Char)
    /\ Null \notin Int

ASSUME InputAssumption ==
    /\ Line \subseteq Seq(Char)
    /\ Typed \subseteq Line
    /\ Files \subseteq Seq(Line)

ASSUME BoundAssumption == MaxLines \in Nat \ {0}

(***************************************************************************)
(* A line of the history that has a newline inside becomes several lines   *)
(* of the file.                                                            *)
(***************************************************************************)
Cuts(l) == {0, Len(l) + 1} \cup {k \in DOMAIN l : l[k] = Newline}
NthCut(l, n) == CHOOSE k \in Cuts(l) : Cardinality({j \in Cuts(l) : j < k}) = n - 1
FileLines(l) ==
    [n \in 1 .. Cardinality(Cuts(l)) - 1 |->
        SubSeq(l, NthCut(l, n) + 1, NthCut(l, n + 1) - 1)]

ASSUME LinesOfFileAssumption ==
    \A l \in Line : FileLines(l) \in Seq(Line)

VARIABLES
    histSize,   \* ch_hist_size
    histBuf,    \* ch_hist_buf[]
    histCur,    \* ch_hist_cur
    histLast,   \* ch_hist_last
    histPre,    \* ch_hist_pre, as the slot that owns the string
    got,        \* text returned by hist_prev, hist_next
    added,      \* the line last handed to hist_add
    file,       \* lines of the history file
    op,         \* the file loop being executed: "load", "rewind", "save"; or "idle"
    todo,       \* load: lines not yet read
    i,          \* save: the loop variable
    fresh       \* history variable: the last load began on an empty history

ring  == <<histSize, histBuf, histCur, histLast, histPre>>
fileVars == <<file, op, todo, i, fresh>>
vars  == <<ring, got, added, fileVars>>

Empty == << >>                  \* the static "" that hist_add leaves in histLast
Slot  == 0 .. histSize - 1

Saved(s)     == histBuf[s] # Null /\ histBuf[s] # Empty
NextSlot(s)  == (s + 1) % histSize
PrevSlot(s)  == (s - 1 + histSize) % histSize

IsBlank(l)    == \A k \in DOMAIN l : l[k] \in {Newline, Space}
(* a newline after the leading white space *)
HasNewline(l) ==
    \E k \in DOMAIN l : l[k] = Newline /\ ~IsBlank(SubSeq(l, 1, k))

(***************************************************************************)
(* The comparison of hist_add with the line saved before: the new line is  *)
(* taken without its last character when it contains a newline.            *)
(***************************************************************************)
ComparedLenShort(l) == Len(l) - 1       \* mutant: as if every line ended with NL
ComparedLen(l) == IF HasNewline(l) THEN Len(l) - 1 ELSE Len(l)

(* mutant: strncmp alone, without the comparison of the lengths *)
StartsLikePre(l) ==
    /\ histPre # Null
    /\ Len(l) <= Len(histBuf[histPre])
    /\ SubSeq(histBuf[histPre], 1, Len(l)) = l
RepeatsPre(l) ==
    /\ histPre # Null
    /\ histBuf[histPre] = SubSeq(l, 1, ComparedLen(l))

----------------------------------------------------------------------------
(***************************************************************************)
(* cligen_init calls cligen_hist_init with the default size.               *)
(***************************************************************************)
NoSeparator(n) == [s \in 0 .. n |-> Null]               \* mutant: no "" in slot 0
FreshBuf(n) == [s \in 0 .. n |-> IF s = 0 THEN Empty ELSE Null]

Init ==
    /\ \E n \in 1 .. MaxLines : histSize = n + 1 /\ histBuf = FreshBuf(n)
    /\ histCur = 0
    /\ histLast = 0
    /\ histPre = Null
    /\ got = Empty
    /\ added = Empty
    /\ file \in Files
    /\ op = "idle"
    /\ todo = << >>
    /\ i = 0
    /\ fresh = TRUE

Accepts(lines)     == lines >= 1        \* otherwise EINVAL and no change

(* cligen_hist_init: at start, and later to resize, which erases all lines *)
HistInit(lines) ==
    /\ op = "idle"
    /\ Accepts(lines)
    /\ histSize' = lines + 1
    /\ histBuf'  = FreshBuf(lines)
    /\ histCur'  = 0
    /\ histLast' = 0
    /\ histPre'  = Null
    /\ UNCHANGED <<got, added, fileVars>>

(* The array with l saved and the next slot freed to be the separator. *)
SavedInBuf(l)  == [histBuf EXCEPT ![histLast] = l, ![NextSlot(histLast)] = Empty]

(* hist_add *)
AddLine(l) ==
    /\ added' = l
    /\ IF ~IsBlank(l) /\ ~RepeatsPre(l)
         THEN /\ histBuf'  = SavedInBuf(l)
              /\ histPre'  = histLast
              /\ histLast' = NextSlot(histLast)
              /\ histCur'  = NextSlot(histLast)
              /\ UNCHANGED histSize
         ELSE /\ histCur' = histLast
              /\ UNCHANGED <<histSize, histBuf, histLast, histPre>>

(* hist_add as called by cliread for a line the user has entered *)
HistAdd(l) ==
    /\ op = "idle"
    /\ AddLine(l)
    /\ UNCHANGED <<got, fileVars>>

(***************************************************************************)
(* hist_prev and hist_next return the slot they move to, or "" with a bell *)
(* when they do not move or the slot is NULL.                              *)
(***************************************************************************)
TextAt(s) == IF histBuf[s] = Null THEN Empty ELSE histBuf[s]

CanPrev(c) == histBuf[c] # Null /\ PrevSlot(c) # histLast
CanNext(c) == c # histLast

AfterPrev(c) == IF CanPrev(c) THEN PrevSlot(c) ELSE c
AfterNext(c) == IF CanNext(c) THEN NextSlot(c) ELSE c
TextPrev(c)  == IF CanPrev(c) THEN TextAt(PrevSlot(c)) ELSE Empty
TextNext(c)  == IF CanNext(c) THEN TextAt(NextSlot(c)) ELSE Empty

HistPrev ==
    /\ op = "idle"
    /\ histCur' = AfterPrev(histCur)
    /\ got' = TextPrev(histCur)
    /\ UNCHANGED <<histSize, histBuf, histLast, histPre, added, fileVars>>

HistNext ==
    /\ op = "idle"
    /\ histCur' = AfterNext(histCur)
    /\ got' = TextNext(histCur)
    /\ UNCHANGED <<histSize, histBuf, histLast, histPre, added, fileVars>>

----------------------------------------------------------------------------
(***************************************************************************)
(* cligen_hist_file_load: "cligen_hist_init must be called before", with   *)
(* or without lines added since; each line of the file goes through        *)
(* hist_add.                                                               *)
(***************************************************************************)
LoadStart ==
    /\ op = "idle"
    /\ op' = "load"
    /\ todo' = file
    /\ fresh' = (histPre = Null)
    /\ UNCHANGED <<ring, got, added, file, i>>

LoadLine ==
    /\ op = "load"
    /\ todo # << >>
    /\ AddLine(Head(todo))
    /\ todo' = Tail(todo)
    /\ UNCHANGED <<got, file, op, i, fresh>>

LoadEnd ==
    /\ op = "load"
    /\ todo = << >>
    /\ op' = "idle"
    /\ UNCHANGED <<ring, got, added, file, todo, i, fresh>>

(***************************************************************************)
(* cligen_hist_file_save: rewind from the slot after histLast over the     *)
(* slots never used, then print the lines up to histLast.                  *)
(***************************************************************************)
RewindFromLast == histLast              \* mutant
RewindFrom     == NextSlot(histLast)

SaveStart ==
    /\ op = "idle"
    /\ op' = "rewind"
    /\ file' = << >>
    /\ i' = RewindFrom
    /\ UNCHANGED <<ring, got, added, todo, fresh>>

SaveRewind ==
    /\ op = "rewind"
    /\ IF histBuf[i] = Null
         THEN i' = NextSlot(i) /\ UNCHANGED op
         ELSE op' = "save" /\ UNCHANGED i
    /\ UNCHANGED <<ring, got, added, file, todo, fresh>>

SaveLine ==
    /\ op = "save"
    /\ i # histLast
    /\ histBuf[i] # Null
    /\ file' = file \o FileLines(histBuf[i])
    /\ i' = NextSlot(i)
    /\ UNCHANGED <<ring, got, added, op, todo, fresh>>

SaveEnd ==
    /\ op = "save"
    /\ i = histLast \/ histBuf[i] = Null
    /\ op' = "idle"
    /\ i' = 0
    /\ UNCHANGED <<ring, got, added, file, todo, fresh>>

FileStep == LoadLine \/ LoadEnd \/ SaveRewind \/ SaveLine \/ SaveEnd

Next ==
    \/ \E n \in 0 .. MaxLines : HistInit(n)
    \/ \E l \in Typed : HistAdd(l)
    \/ HistPrev
    \/ HistNext
    \/ LoadStart
    \/ SaveStart
    \/ FileStep

(* The file functions run to their end in one call. *)
Spec == Init /\ [][Next]_vars /\ WF_vars(FileStep)

----------------------------------------------------------------------------
(***************************************************************************)
(* Properties                                                              *)
(***************************************************************************)
TypeOK ==
    /\ histSize \in Nat /\ histSize >= 2
    /\ histBuf \in [Slot -> Line \cup {Empty, Null}]
    /\ histCur \in Slot
    /\ histLast \in Slot
    /\ histPre \in Slot \cup {Null}
    /\ got \in Line \cup {Empty}
    /\ added \in Line \cup {Empty}
    /\ file \in Seq(Line)
    /\ op \in {"idle", "load", "rewind", "save"}
    /\ todo \in Seq(Line)
    /\ i \in Nat
    /\ fresh \in BOOLEAN

(***************************************************************************)
(* The separator: slot histLast, and no other, holds the static empty      *)
(* string, which hist_add, cligen_hist_init and hist_exit must not free.   *)
(***************************************************************************)
OnlyLastIsEmpty == \A s \in Slot : histBuf[s] = Empty <=> s = histLast

(***************************************************************************)
(* The slots never used follow histLast directly: hist_prev may take the   *)
(* first NULL it meets for the end of the history, and                     *)
(* cligen_hist_file_save may skip NULLs only at the start.                 *)
(***************************************************************************)
NullsFollowLast ==
    \A s \in Slot : histBuf[s] = Null =>
        s # histLast /\ (PrevSlot(s) = histLast \/ histBuf[PrevSlot(s)] = Null)

(***************************************************************************)
(* ch_hist_pre is never dangling: it is NULL while the history is empty,   *)
(* and else it is the newest line, in the slot before histLast, which      *)
(* hist_add has not freed when it made room for the separator.             *)
(***************************************************************************)
PreIsNewest ==
    IF histPre = Null
      THEN \A s \in Slot : s # histLast => histBuf[s] = Null
      ELSE histPre = PrevSlot(histLast) /\ Saved(histPre)

RingInv ==
    /\ OnlyLastIsEmpty
    /\ NullsFollowLast
    /\ PreIsNewest

(* The slot d places before slot s; the distance from s back to slot c. *)
Before(s, d) == (s - d + histSize) % histSize

Depth    == histSize - 1
Recent   == [d \in 1 .. Depth |-> histBuf[Before(histLast, d)]]
Position == Before(histLast, histCur)

(***************************************************************************)
(* The circular array, with its separator slot, its NULL slots and its     *)
(* pointer to the line saved before, behaves as a list of the last         *)
(* histSize-1 lines with a position in it.                                 *)
(***************************************************************************)
Log == INSTANCE HistoryLog WITH
           depth <- Depth, recent <- Recent, pos <- Position
RefinesLog == Log!Spec

(***************************************************************************)
(* A completed cligen_hist_file_save has written every line of the history, *)
(* oldest first, and none twice.                                           *)
(***************************************************************************)
Oldest == Cardinality({d \in 1 .. Depth : Recent[d] # Null})
LogOnFile[n \in Nat] ==     \* the file lines of the n oldest lines of the history
    IF n = 0 THEN << >>
             ELSE LogOnFile[n - 1] \o FileLines(Recent[Oldest + 1 - n])
SaveWritesLog == [][op = "save" /\ op' = "idle" => file = LogOnFile[Oldest]]_vars

(***************************************************************************)
(* A load of a file as a save leaves it (no line has a newline inside, and *)
(* the lines fit) brings all its lines into the history, as the newest     *)
(* ones and in their order, whatever the history held before: the lines of *)
(* such a file are neither blank nor repeated, and hist_add takes them all, *)
(* but for a first line that is the newest one already.  An empty history  *)
(* becomes the one that was saved, with no other line in it.               *)
(***************************************************************************)
OneLine(l) == \A k \in DOMAIN l : l[k] # Newline
PlainFile ==
    /\ Len(file) <= Depth
    /\ \A n \in DOMAIN file : ~IsBlank(file[n]) /\ OneLine(file[n])
    /\ \A n \in 1 .. Len(file) - 1 : file[n] # file[n + 1]
LoadRestores ==
    op = "load" /\ todo = << >> /\ PlainFile =>
        /\ \A n \in DOMAIN file : Recent[Len(file) + 1 - n] = file[n]
        /\ fresh => LogOnFile[Oldest] = file

(***************************************************************************)
(* The loops of load and save end: in particular the rewind loop, which    *)
(* has no other bound than finding a slot that is not NULL.                *)
(***************************************************************************)
FileOpEnds == op # "idle" ~> op = "idle"
=============================================================================
