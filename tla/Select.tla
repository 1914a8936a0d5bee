------------------------------- MODULE Select --------------------------------
(***************************************************************************)
(* Descriptors that the application wants to hear of while the editor      *)
(* waits for a key (gl_regfd, gl_unregfd, gl_select in cligen_getline.c).  *)
(* An entry of the array is a descriptor and its callback, which may       *)
(* register and unregister descriptors itself.                             *)
(***************************************************************************)
EXTENDS Integers, SequencesExt

CONSTANTS
    Fd,             \* descriptors
    Callback,       \* callbacks with their arguments
    Stdin           \* descriptor 0

VARIABLES
    extfds,         \* the array
    wanted,         \* what the application has registered, as <<fd, callback>>
    gap,            \* an entry was taken away that was not the last one
    ready,          \* the result of select
    next,           \* the entry whose turn it is; 0: not in the loop
    served          \* callbacks called for the last result, as <<fd, callback>>

selectVars == <<extfds, wanted, gap, ready, next, served>>

SelectInit ==
    /\ extfds = << >> /\ wanted = {} /\ gap = FALSE
    /\ ready = {} /\ next = 0 /\ served = << >>

Entry(fd, cb) == [fd |-> fd, cb |-> cb]
Places(fd) == {i \in DOMAIN extfds : extfds[i].fd = fd}
First(fd)  == CHOOSE i \in Places(fd) : \A j \in Places(fd) : i <= j

\* Plausible bug: a descriptor that is there already is added again
AddedAgain(fd, cb) == Append(extfds, Entry(fd, cb))
Registered(fd, cb) ==
    IF Places(fd) = {} THEN Append(extfds, Entry(fd, cb))
    ELSE [extfds EXCEPT ![First(fd)].cb = cb]

gl_regfd(fd, cb) ==
    /\ extfds' = Registered(fd, cb)
    /\ wanted' = {w \in wanted : w[1] # fd} \cup {<<fd, cb>>}
    /\ UNCHANGED gap

\* As many bytes are moved down as there are entries: the least bytes of one
\* descriptor, which differ, and not its callback
Closed(i) ==
    IF i = Len(extfds) THEN Front(extfds)
    ELSE Front([extfds EXCEPT ![i].fd = extfds[i + 1].fd])

gl_unregfd(fd) ==
    /\ Places(fd) # {}
    /\ extfds' = Closed(First(fd))
    /\ gap' = (gap \/ First(fd) # Len(extfds))
    /\ wanted' = {w \in wanted : w[1] # fd}

----------------------------------------------------------------------------
\* select() returns some of the descriptors it was given
Returns(some) ==
    /\ next = 0
    /\ some # {} /\ some \subseteq {extfds[i].fd : i \in DOMAIN extfds} \cup {Stdin}
    /\ ready' = some /\ next' = 1 /\ served' = << >>
    /\ UNCHANGED <<extfds, wanted, gap>>

\* The callback of an entry: it changes the array or not, whether it fails or not
Effect ==
    \/ \E fd \in Fd, cb \in Callback : gl_regfd(fd, cb)
    \/ \E fd \in Fd : gl_unregfd(fd)
    \/ UNCHANGED <<extfds, wanted, gap>>

Turn == next \in DOMAIN extfds
Due  == Turn /\ extfds[next].fd \in ready

Call ==
    /\ Due
    /\ served' = Append(served, <<extfds[next].fd, extfds[next].cb>>)
    /\ Effect
    /\ next' = next + 1
    /\ UNCHANGED ready

Pass ==
    /\ Turn /\ ~Due
    /\ next' = next + 1
    /\ UNCHANGED <<extfds, wanted, gap, ready, served>>

\* The loop is over, or a callback has failed: the key is read, which waits
\* for it without the descriptors, unless it is there
LoopEnds == next > Len(extfds)
BackToSelect == LoopEnds /\ Stdin \notin ready
KeyIsRead    == LoopEnds /\ Stdin \in ready
Leave ==
    /\ next' = 0 /\ ready' = {} /\ served' = << >>
    /\ UNCHANGED <<extfds, wanted, gap>>
Fails ==
    /\ Due /\ Effect
    /\ next' = 0 /\ ready' = {} /\ served' = << >>
=============================================================================
