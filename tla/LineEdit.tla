------------------------------ MODULE LineEdit ------------------------------
(***************************************************************************)
(* The editing keys of the line editor (cligen_getline.c) on the line      *)
(* buffer and the kill buffer of the CLIgen handle (cligen_handle.c).      *)
(*                                                                         *)
(* A buffer is the sequence of the characters before its '\0'; bufSize and *)
(* killSize are the bytes allocated.  gl_cnt is the editor's own idea of   *)
(* the length of the line, which the handlers bring up to date by calling  *)
(* gl_fixup after they have changed the buffer; what gl_fixup draws is left *)
(* out.  Positions count from 0, as in the code.                           *)
(***************************************************************************)
EXTENDS Integers, Sequences, FiniteSets

CONSTANTS
    Char,       \* the characters of a line
    Newline,    \* '\n', which is typed after a backslash
    Space,      \* ' ' and '\t'
    BufLen,     \* GETLINE_BUFLEN_DEFAULT
    MaxLen      \* bound: length of a line that is typed

ASSUME EditAssumption ==
    /\ {Newline, Space} \subseteq Char
    /\ Newline # Space
    /\ BufLen \in Nat \ {0}
    /\ MaxLen \in Nat

VARIABLES
    buf,        \* cligen_buf: the line
    cnt,        \* gl_cnt
    pos,        \* gl_pos: the cursor
    kill,       \* cligen_killbuf
    overwrite,  \* gl_overwrite
    bufSize,    \* _getline_bufsize
    killSize    \* _getline_killbufsize

sizes == <<bufSize, killSize>>
text  == <<buf, cnt, pos>>
edit  == <<text, kill, overwrite, sizes>>

EditInit ==
    /\ buf = << >> /\ cnt = 0 /\ pos = 0
    /\ kill = << >>
    /\ overwrite = FALSE
    /\ bufSize = BufLen /\ killSize = BufLen

----------------------------------------------------------------------------
Upto(l, p)   == SubSeq(l, 1, p)             \* the characters left of position p
Behind(l, p) == SubSeq(l, p + 1, Len(l))

(* gl_fixup: the cursor never leaves the line *)
Clamped(cursor, n) == IF cursor > n THEN n ELSE IF cursor < 0 THEN 0 ELSE cursor

StaleFixup(cursor) ==                       \* mutant: strlen left out
    /\ UNCHANGED cnt
    /\ pos' = Clamped(cursor, cnt)
Fixup(cursor) ==                            \* after a change of the buffer
    /\ cnt' = Len(buf')
    /\ pos' = Clamped(cursor, Len(buf'))
Move(cursor) ==                             \* gl_fixup with change -1
    /\ pos' = Clamped(cursor, cnt)
    /\ UNCHANGED <<buf, cnt>>

(* cligen_buf_increase, cligen_killbuf_increase: double until len1 + 1 fits *)
Doubling[k \in Nat] == IF k = 0 THEN 1 ELSE 2 * Doubling[k - 1]
Grown(size, len1) ==
    CHOOSE n \in {size * Doubling[k] : k \in 0 .. len1} :
        n >= len1 + 1 /\ (n = size \/ n < 2 * (len1 + 1))

NotKill == UNCHANGED <<kill, killSize>>

----------------------------------------------------------------------------
(* gl_addchar *)
AddChar(c) ==
    /\ Len(buf) < MaxLen
    /\ bufSize' = Grown(bufSize, cnt + 1)
    /\ buf' = IF overwrite /\ pos # cnt
                THEN [buf EXCEPT ![pos + 1] = c]
                ELSE Upto(buf, pos) \o <<c>> \o Behind(buf, pos)
    /\ Fixup(pos + 1)
    /\ NotKill
    /\ UNCHANGED overwrite

(* gl_yank *)
Yank ==
    /\ kill # << >>
    /\ Len(buf) + Len(kill) <= MaxLen
    /\ LET len == Len(kill) IN
         /\ IF overwrite
              THEN /\ buf' = Upto(buf, pos) \o kill \o Behind(buf, pos + len)
                   /\ bufSize' = IF pos + len > cnt THEN Grown(bufSize, pos + len + 1)
                                                    ELSE bufSize
              ELSE /\ buf' = Upto(buf, pos) \o kill \o Behind(buf, pos)
                   /\ bufSize' = Grown(bufSize, cnt + len + 1)
         /\ Fixup(pos + len)
    /\ NotKill
    /\ UNCHANGED overwrite

(* gl_transpose *)
Transpose ==
    /\ pos > 0 /\ cnt > pos
    /\ buf' = [buf EXCEPT ![pos] = buf[pos + 1], ![pos + 1] = buf[pos]]
    /\ Fixup(pos)
    /\ NotKill
    /\ UNCHANGED <<overwrite, bufSize>>

(* gl_del: the character left of the cursor (loc = -1) or under it (0) *)
Del(loc) ==
    /\ \/ loc = -1 /\ pos > 0
       \/ loc = 0 /\ pos < cnt
    /\ buf' = Upto(buf, pos + loc) \o Behind(buf, pos + loc + 1)
    /\ Fixup(pos + loc)
    /\ NotKill
    /\ UNCHANGED <<overwrite, bufSize>>

----------------------------------------------------------------------------
(***************************************************************************)
(* Words: isspace is true of a newline as well.                            *)
(***************************************************************************)
IsSpace(p) == p < cnt /\ buf[p + 1] \in {Space, Newline}

Leftmost(S)  == CHOOSE p \in S : \A q \in S : p <= q
Rightmost(S) == CHOOSE p \in S : \A q \in S : q <= p

WordLeftOf(p) ==
    LET start == IF p > 0 THEN p - 1 ELSE p
        last  == Rightmost({q \in 0 .. start : q = 0 \/ ~IsSpace(q)})
        stop  == Rightmost({q \in 0 .. last : q = 0 \/ IsSpace(q)})
    IN IF IsSpace(stop) THEN stop + 1 ELSE stop

WordRightOf(p) ==
    LET space == Leftmost({q \in p .. cnt : q = cnt \/ IsSpace(q)})
    IN Leftmost({q \in space .. cnt : q = cnt \/ ~IsSpace(q)})

(* gl_word *)
WordLeft  == Move(WordLeftOf(pos)) /\ NotKill /\ UNCHANGED <<overwrite, bufSize>>
WordRight == Move(WordRightOf(pos)) /\ NotKill /\ UNCHANGED <<overwrite, bufSize>>

(* ^A, ^E, ^B, ^F and the keys with the same meaning *)
Cursor ==
    /\ \E cursor \in {0, cnt, pos - 1, pos + 1} : Move(cursor)
    /\ NotKill
    /\ UNCHANGED <<overwrite, bufSize>>

(* ^O *)
Overwrite ==
    /\ overwrite' = ~overwrite
    /\ NotKill
    /\ UNCHANGED <<text, bufSize>>

----------------------------------------------------------------------------
Killed(from, to) ==
    /\ kill' = SubSeq(buf, from + 1, to)
    /\ buf' = Upto(buf, from) \o Behind(buf, to)
    /\ Fixup(from)
    /\ UNCHANGED <<overwrite, bufSize>>

(* gl_kill: ^K, and the whole line after a signal *)
KillEnd(p) ==
    /\ p < cnt
    /\ Killed(p, cnt)
    /\ killSize' = Grown(killSize, bufSize)

(* gl_kill_begin *)
KillBegin ==
    /\ pos # 0
    /\ Killed(0, pos)
    /\ killSize' = Grown(killSize, pos)

(* gl_kill_word *)
KilledFrom(p)  == WordLeftOf(p)
KillWord ==
    /\ pos # 0
    /\ Killed(KilledFrom(pos), pos)
    /\ killSize' = Grown(killSize, pos - KilledFrom(pos))

----------------------------------------------------------------------------
EditKey ==                                  \* control keys
    \/ Yank \/ Transpose \/ Del(0)
    \/ WordLeft \/ WordRight \/ Cursor \/ Overwrite
    \/ KillEnd(pos) \/ KillEnd(0) \/ KillBegin \/ KillWord

(* The line is replaced: a new prompt, a line of the history. *)
Replace(l, cursor) ==
    /\ buf' = l
    /\ Fixup(cursor)
    /\ NotKill
    /\ UNCHANGED overwrite

EditNext ==
    \/ \E c \in Char : AddChar(c)
    \/ Del(-1)
    \/ EditKey
EditSpec == EditInit /\ [][EditNext]_edit

----------------------------------------------------------------------------
(***************************************************************************)
(* Properties                                                              *)
(***************************************************************************)
EditTypeOK ==
    /\ buf \in Seq(Char) /\ kill \in Seq(Char)
    /\ cnt \in Nat /\ pos \in Nat
    /\ overwrite \in BOOLEAN
    /\ bufSize \in Nat /\ killSize \in Nat

(***************************************************************************)
(* Every handler tells the editor the length of the line it leaves, and    *)
(* the cursor is in the line or at its end.                                *)
(***************************************************************************)
CursorInLine == cnt = Len(buf) /\ pos <= cnt

=============================================================================
