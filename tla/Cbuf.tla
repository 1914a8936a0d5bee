-------------------------------- MODULE Cbuf ---------------------------------
(***************************************************************************)
(* String buffers (cligen_buf.c).  A buffer says how large it is (buflen); *)
(* what memory it has is `room`.  Of the text only the length counts, and  *)
(* where it ends: behind its last character there is a zero.               *)
(***************************************************************************)
EXTENDS Integers

CONSTANTS
    Start,          \* cbuflen_start
    Threshold,      \* cbuflen_threshold: doubled below, linear above; 0: none
    SizeMax,        \* SIZE_MAX
    Lengths,        \* lengths of what is appended
    MaxText,        \* bound: length of the text
    MayFail         \* whether realloc may return NULL

ASSUME CbufAssumption ==
    /\ Start \in 1 .. SizeMax /\ Threshold \in 0 .. SizeMax
    /\ SizeMax \in Nat /\ Lengths \subseteq Nat /\ MaxText \in Nat
    /\ MayFail \in BOOLEAN

VARIABLES
    buflen, room,   \* cb_buflen; bytes of cb_buffer
    strlen,         \* cb_strlen
    zero,           \* where the zero that ends the text is
    short           \* a call failed after it had raised cb_buflen

cbufVars == <<buflen, room, strlen, zero, short>>

CbufInit == buflen = Start /\ room = Start /\ strlen = 0 /\ zero = 0 /\ short = FALSE

\* The size after the loop of cbuf_realloc, and whether it was reached: the
\* size is doubled or raised until it is enough or would not fit in a size_t
Grown(needed) ==
    LET Double(l) == Threshold = 0 \/ l < Threshold
        g[l \in 1 .. SizeMax] ==
            IF l >= needed THEN [len |-> l, ok |-> TRUE]
            ELSE IF Double(l)
                 THEN IF l > SizeMax \div 2 THEN [len |-> l, ok |-> FALSE] ELSE g[2 * l]
                 ELSE IF l > SizeMax - Threshold THEN [len |-> l, ok |-> FALSE]
                      ELSE g[l + Threshold]
    IN  g[buflen]

\* A plausible bug: no byte for the zero
NoZero(sz) ==
    /\ sz <= SizeMax - strlen - 1
    /\ Grown(strlen + sz).ok
    /\ buflen' = Grown(strlen + sz).len
    /\ room' = IF strlen + sz > buflen THEN buflen' ELSE room
    /\ UNCHANGED short

\* cbuf_realloc(sz) returns 0: there is room for sz bytes more and a zero
Enlarged(sz) ==
    /\ sz <= SizeMax - strlen - 1
    /\ Grown(strlen + sz + 1).ok
    /\ buflen' = Grown(strlen + sz + 1).len
    /\ room' = IF strlen + sz + 1 > buflen THEN buflen' ELSE room
    /\ UNCHANGED short

\* It returns -1: the size that was asked for stays in cb_buflen
NotEnlarged(sz) ==
    /\ \/ sz > SizeMax - strlen - 1 /\ UNCHANGED <<buflen, short>>
       \/ /\ sz <= SizeMax - strlen - 1 /\ strlen + sz + 1 > buflen
          /\ MayFail \/ ~Grown(strlen + sz + 1).ok
          /\ buflen' = Grown(strlen + sz + 1).len /\ short' = TRUE
    /\ UNCHANGED <<room, strlen, zero>>

\* cprintf, vcprintf: vsnprintf writes no more than the buffer says it has
cprintf(len) ==
    \/ /\ Enlarged(len)
       /\ zero' = IF len < buflen' - strlen THEN strlen + len ELSE buflen' - 1
       /\ strlen' = strlen + len
    \/ NotEnlarged(len)

\* cbuf_append_str, cbuf_append: the length asked for counts the text twice
cbuf_append_str(len) ==
    \/ Enlarged(strlen + len) /\ strlen' = strlen + len /\ zero' = strlen + len
    \/ NotEnlarged(strlen + len)

\* cbuf_append_buf: the bytes have no zero, one is put behind them
cbuf_append_buf(n) ==
    \/ Enlarged(strlen + n + 1) /\ strlen' = strlen + n /\ zero' = strlen + n
    \/ NotEnlarged(strlen + n + 1)

cbuf_trunc(i) ==
    /\ i <= strlen
    /\ strlen' = i /\ zero' = i
    /\ UNCHANGED <<buflen, room, short>>

cbuf_reset == strlen' = 0 /\ zero' = 0 /\ UNCHANGED <<buflen, room, short>>

CbufStep ==
    \/ \E len \in Lengths : strlen + len <= MaxText /\ cprintf(len)
    \/ \E len \in Lengths : strlen + len <= MaxText /\ cbuf_append_str(len)
    \/ \E len \in Lengths : strlen + len <= MaxText /\ cbuf_append_buf(len)
    \/ \E i \in 0 .. MaxText : cbuf_trunc(i)
    \/ cbuf_reset
=============================================================================
