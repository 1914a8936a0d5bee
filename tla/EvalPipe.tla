------------------------------ MODULE EvalPipe ------------------------------
(***************************************************************************)
(* Evaluation of a matched command with an output pipe: cligen_eval and    *)
(* cligen_eval_pipe_pre/post (cligen_read.c), cligen_output (cligen_io.c)  *)
(* and the forked process of a command such as "show | grep x".            *)
(*                                                                         *)
(* The callbacks of the command run in the CLI and print with              *)
(* cligen_output, which writes to the socket PIPE_OUTPUT_SOCKET while a    *)
(* pipe is set up.  The filter process has the other end of the socket as  *)
(* its stdin and stdout.  When the callbacks are done the CLI ends the     *)
(* filter's input, prints what the filter writes, and reaps it.            *)
(*                                                                         *)
(* A text is a number; a read or write of the socket moves one text.  The  *)
(* descriptors are modelled because the same number is closed twice and is *)
(* kept in a static variable after it was closed.                          *)
(*                                                                         *)
(* The application is assumed to ignore SIGPIPE, which cligen_output needs *)
(* to see EPIPE.                                                           *)
(***************************************************************************)
EXTENDS Integers, Sequences

CONSTANTS
    Cap,        \* texts that fit in one direction of the socket
    Hold,       \* texts the filter reads before it has to write one
    MaxOut,     \* bound: texts printed by the application
    MaxEval,    \* bound: evaluated commands
    MaxFd,      \* descriptors the process may still open
    Faults      \* what the environment may do, see below

(***************************************************************************)
(*   early   the filter may exit before the end of its input               *)
(*   slow    the filter may be silent for longer than CLI_PIPE_TIMEOUT_US  *)
(*   signal  a signal handler (SIGWINCH, ...) may interrupt a system call  *)
(*   fork    fork may fail                                                 *)
(*   files   the application opens and closes a descriptor of its own      *)
(***************************************************************************)
ASSUME EnvironmentAssumption ==
    /\ Cap \in Nat \ {0} /\ Hold \in Nat \ {0} /\ MaxOut \in Nat /\ MaxEval \in Nat /\ MaxFd \in Nat
    /\ Faults \subseteq {"early", "slow", "signal", "fork", "files"}

VARIABLES
    phase,      \* where cligen_eval is; "idle" between evaluations
    retval,     \* what it returned last
    outSocket,  \* PIPE_OUTPUT_SOCKET
    chSpipe,    \* ch_spipe of the handle
    spipe,      \* local variable of cligen_eval
    fds,        \* owner of each descriptor
    blocked,    \* cligen_output waits in write
    buf,        \* text in the read buffer of cligen_eval_pipe_post
    toChild,    \* socket, towards the filter
    toParent,   \* socket, towards the CLI
    eof,        \* the CLI has ended the filter's input
    reset,      \* ECONNRESET is pending at the CLI's end
    child,      \* state of the filter process
    held,       \* texts the filter has read and not yet dealt with
    wrote,      \* texts the filter has written
    out,        \* texts on stdout since the evaluation started
    cut,        \* the evaluation was disturbed: reset, signal or write error
    late,       \* the filter was given up: silent for CLI_PIPE_TIMEOUT_US
    zombies,    \* filter processes that were never waited for
    texts,      \* counts texts printed
    evals       \* counts evaluations

parentVars == <<phase, retval, outSocket, chSpipe, spipe, fds, blocked, buf>>
socketVars == <<toChild, toParent, eof, reset>>
childVars  == <<child, held, wrote>>
ghosts     == <<out, cut, late, zombies, texts, evals>>
vars       == <<parentVars, socketVars, childVars, ghosts>>

Fd      == 1 .. MaxFd
NoFd    == -1
Garbage == 0                    \* content of the uninitialised buf[]

Free == {f \in Fd : fds[f] = "free"}
(* socketpair and open return the lowest free descriptor *)
Lowest(S) == CHOOSE f \in S : \A g \in S : f <= g

Init ==
    /\ phase = "idle" /\ retval = 0
    /\ outSocket = NoFd /\ chSpipe = NoFd /\ spipe = NoFd
    /\ fds = [f \in Fd |-> "free"]
    /\ blocked = FALSE /\ buf = Garbage
    /\ toChild = << >> /\ toParent = << >> /\ eof = FALSE /\ reset = FALSE
    /\ child = "none" /\ held = << >> /\ wrote = << >>
    /\ out = << >> /\ cut = FALSE /\ late = FALSE /\ zombies = 0
    /\ texts = 0 /\ evals = 0

----------------------------------------------------------------------------
(***************************************************************************)
(* cligen_eval, up to its callbacks.                                       *)
(***************************************************************************)
Begin ==
    /\ phase = "idle"
    /\ evals < MaxEval
    /\ evals' = evals + 1
    /\ out' = << >> /\ cut' = FALSE /\ late' = FALSE
    /\ UNCHANGED <<zombies, texts>>

EvalPlain ==
    /\ Begin
    /\ phase' = "callback"
    /\ UNCHANGED <<retval, outSocket, chSpipe, spipe, fds, blocked, buf,
                   socketVars, childVars>>

NotRedirected(s) == NoFd        \* mutant: no cli_pipe_output_socket_set
Redirected(s)    == s

(* cligen_eval_pipe_pre; the CLI closes the filter's end after the fork *)
EvalPiped ==
    /\ Begin
    /\ \E f, g \in Free : f # g
    /\ phase' = "callback"
    /\ LET s == Lowest(Free) IN
         /\ spipe' = s /\ outSocket' = Redirected(s) /\ chSpipe' = s
         /\ fds' = [fds EXCEPT ![s] = "pipe"]
    /\ toChild' = << >> /\ toParent' = << >> /\ eof' = FALSE /\ reset' = FALSE
    /\ child' = "running" /\ held' = << >> /\ wrote' = << >>
    /\ UNCHANGED <<retval, blocked, buf>>

(* socketpair fails for want of descriptors *)
EvalNoSocket ==
    /\ Begin
    /\ ~ \E f, g \in Free : f # g
    /\ retval' = -1
    /\ UNCHANGED <<phase, outSocket, chSpipe, spipe, fds, blocked, buf,
                   socketVars, childVars>>

(* fork fails: nobody closes the socket pair *)
EvalNoFork ==
    /\ "fork" \in Faults
    /\ Begin
    /\ \E f, g \in Free : f # g
    /\ LET s == Lowest(Free) IN
         fds' = [fds EXCEPT ![s] = "leaked", ![Lowest(Free \ {s})] = "leaked"]
    /\ retval' = -1
    /\ UNCHANGED <<phase, outSocket, chSpipe, spipe, blocked, buf,
                   socketVars, childVars>>

(***************************************************************************)
(* The exit of cligen_eval: ch_spipe is reset and the socket closed,       *)
(* whatever the descriptor stands for by now.  Closing the socket ends the *)
(* filter's input too; a filter that was not waited for is left behind.    *)
(***************************************************************************)
ClosesCurrent == outSocket      \* mutant: close(PIPE_OUTPUT_SOCKET)
ToClose       == spipe
Closed(s)     == IF s = NoFd THEN fds ELSE [fds EXCEPT ![s] = "free"]

Return(rv, os) ==
    /\ phase' = "idle"
    /\ retval' = rv
    /\ outSocket' = os
    /\ chSpipe' = IF spipe # NoFd THEN NoFd ELSE chSpipe
    /\ fds' = Closed(ToClose)
    /\ spipe' = NoFd
    /\ blocked' = FALSE /\ buf' = Garbage
    /\ child' = "none" /\ toChild' = << >> /\ toParent' = << >> /\ held' = << >>
    /\ eof' = FALSE /\ reset' = FALSE
    /\ UNCHANGED <<wrote, out, late, texts, evals>>

Leftover == IF child = "none" THEN zombies ELSE zombies + 1

----------------------------------------------------------------------------
(***************************************************************************)
(* cligen_output, called by the callbacks of the command and, between      *)
(* commands, by the application and the help functions.                    *)
(***************************************************************************)
Printing ==
    /\ phase \in {"idle", "callback"}
    /\ texts < MaxOut
    /\ texts' = texts + 1
    /\ UNCHANGED <<phase, retval, chSpipe, spipe, buf, childVars,
                   toParent, eof, late, zombies, evals>>

Output(n) ==                            \* to stdout
    /\ Printing
    /\ outSocket = NoFd
    /\ out' = Append(out, n)
    /\ UNCHANGED <<outSocket, fds, blocked, toChild, reset, cut>>

OnPipe == outSocket \in Fd /\ fds[outSocket] = "pipe"

OutputPipe(n) ==                        \* to the filter
    /\ Printing
    /\ OnPipe /\ child = "running"
    /\ Len(toChild) < Cap
    /\ toChild' = Append(toChild, n)
    /\ blocked' = FALSE
    /\ UNCHANGED <<outSocket, fds, reset, out, cut>>

(* the socket is full: write blocks until the filter reads *)
OutputBlocks ==
    /\ phase = "callback" /\ ~blocked
    /\ texts < MaxOut
    /\ OnPipe /\ child = "running"
    /\ Len(toChild) = Cap
    /\ blocked' = TRUE
    /\ UNCHANGED <<phase, retval, outSocket, chSpipe, spipe, fds, buf, socketVars,
                   childVars, ghosts>>

(* EPIPE is ignored: the text is dropped *)
OutputEpipe ==
    /\ Printing
    /\ OnPipe /\ child # "running"
    /\ ~(blocked /\ reset)
    /\ blocked' = FALSE
    /\ UNCHANGED <<outSocket, fds, toChild, reset, out, cut>>

(***************************************************************************)
(* Any other error closes the socket and forgets it: a blocked write that  *)
(* is interrupted, or reset by the exit of the filter with unread input;   *)
(* a write to a descriptor that is closed.                                 *)
(***************************************************************************)
OutputError ==
    /\ Printing
    /\ outSocket # NoFd
    /\ \/ blocked /\ (reset \/ "signal" \in Faults)
       \/ fds[outSocket] = "free"
    /\ fds' = [fds EXCEPT ![outSocket] = "free"]
    /\ outSocket' = NoFd
    /\ blocked' = FALSE /\ reset' = FALSE
    /\ cut' = TRUE
    /\ UNCHANGED <<toChild, out>>

(* The descriptor is the application's own by now, or of a socket pair   *)
(* that a failed fork left open: the text goes there.  Nobody reads such   *)
(* a pair, which takes MaxOut texts here.                                  *)
OutputElsewhere ==
    /\ Printing
    /\ outSocket # NoFd /\ fds[outSocket] \in {"app", "leaked"}
    /\ UNCHANGED <<outSocket, fds, blocked, toChild, reset, out, cut>>

Outputs ==
    \/ Output(texts + 1) \/ OutputPipe(texts + 1) \/ OutputBlocks
    \/ OutputEpipe \/ OutputError \/ OutputElsewhere

(* The application opens a descriptor of its own, one at a time *)
AppOpen ==
    /\ "files" \in Faults
    /\ phase \in {"idle", "callback"} /\ ~blocked
    /\ Free # {} /\ \A f \in Fd : fds[f] # "app"
    /\ fds' = [fds EXCEPT ![Lowest(Free)] = "app"]
    /\ UNCHANGED <<phase, retval, outSocket, chSpipe, spipe, blocked, buf,
                   socketVars, childVars, ghosts>>

AppClose ==
    /\ phase \in {"idle", "callback"} /\ ~blocked
    /\ \E f \in Fd :
         fds[f] = "app" /\ fds' = [fds EXCEPT ![f] = "free"]
    /\ UNCHANGED <<phase, retval, outSocket, chSpipe, spipe, blocked, buf,
                   socketVars, childVars, ghosts>>

----------------------------------------------------------------------------
(***************************************************************************)
(* The callbacks have returned.                                            *)
(***************************************************************************)
(* one failed: neither the socket nor the filter is dealt with *)
CallbackFails ==
    /\ phase = "callback" /\ ~blocked
    /\ Return(-1, outSocket)
    /\ zombies' = Leftover
    /\ UNCHANGED cut

CallbackPlain ==
    /\ phase = "callback"
    /\ child = "none"
    /\ Return(0, outSocket)
    /\ UNCHANGED <<zombies, cut>>

(***************************************************************************)
(* cligen_eval_pipe_post: end the filter's input and wait for its output,  *)
(* unless cligen_output has closed the socket.                             *)
(***************************************************************************)
NoShutdown == FALSE                     \* mutant: the write side stays open
EndsInput  == TRUE

PostStart ==
    /\ phase = "callback" /\ ~blocked
    /\ child # "none"
    /\ IF outSocket # NoFd
         THEN phase' = "await" /\ eof' = EndsInput
         ELSE phase' = "kill" /\ UNCHANGED eof
    /\ UNCHANGED <<retval, outSocket, chSpipe, spipe, fds, blocked, buf, toChild,
                   toParent, reset, childVars, ghosts>>

InputReady == toParent # << >> \/ reset \/ child # "running"

(* select says that there is something to read *)
PollReady ==
    /\ phase \in {"await", "poll"}
    /\ InputReady
    /\ phase' = "read"
    /\ UNCHANGED <<retval, outSocket, chSpipe, spipe, fds, blocked, buf,
                   socketVars, childVars, ghosts>>

AfterDrain   == NoFd

(* only the poll between two reads gives up; the first one tries again *)
PollTimeout ==
    /\ "slow" \in Faults
    /\ phase = "poll"
    /\ ~InputReady
    /\ outSocket' = AfterDrain
    /\ phase' = "kill"
    /\ late' = TRUE
    /\ UNCHANGED <<retval, chSpipe, spipe, fds, blocked, buf, socketVars,
                   childVars, out, cut, zombies, texts, evals>>

(* select or waitpid is interrupted: cligen_eval returns at once *)
Interrupted ==
    /\ "signal" \in Faults
    /\ phase \in {"await", "poll", "reap"}
    /\ Return(-1, outSocket)
    /\ zombies' = Leftover
    /\ cut' = TRUE

Reading ==
    /\ phase = "read"
    /\ UNCHANGED <<retval, chSpipe, spipe, fds, blocked, toChild, eof,
                   childVars, late, zombies, texts, evals>>

ReadText ==
    /\ Reading
    /\ toParent # << >>
    /\ buf' = Head(toParent)
    /\ toParent' = Tail(toParent)
    /\ out' = Append(out, Head(toParent))
    /\ phase' = "poll"
    /\ UNCHANGED <<outSocket, reset, cut>>

(* len is -1: the byte before buf[] is set to 0, and what is in buf[] is   *)
(* printed                                                                 *)
ReadReset ==
    /\ Reading
    /\ toParent = << >> /\ reset
    /\ reset' = FALSE
    /\ out' = Append(out, buf)
    /\ phase' = "poll"
    /\ cut' = TRUE
    /\ UNCHANGED <<outSocket, buf, toParent>>

ReadEof ==
    /\ Reading
    /\ toParent = << >> /\ ~reset
    /\ outSocket' = AfterDrain
    /\ phase' = "kill"
    /\ UNCHANGED <<buf, toParent, reset, out, cut>>

(* kill(SIGTERM) *)
Kill ==
    /\ phase = "kill"
    /\ child' = IF child = "running" THEN "killed" ELSE child
    /\ phase' = "reap"
    /\ UNCHANGED <<retval, outSocket, chSpipe, spipe, fds, blocked, buf,
                   socketVars, held, wrote, ghosts>>

AnyStatus(c) == 0                       \* mutant: WEXITSTATUS not looked at
StatusOf(c)  == IF c = "failed" THEN -1 ELSE 0   \* a killed filter is a success

Reap ==                                 \* waitpid
    /\ phase = "reap"
    /\ Return(StatusOf(child), outSocket)
    /\ UNCHANGED <<zombies, cut>>

----------------------------------------------------------------------------
(***************************************************************************)
(* The filter process: reads texts, drops them or writes them in the same  *)
(* order, and exits.  It waits in write while the socket is full.          *)
(***************************************************************************)
Connected == spipe # NoFd /\ fds[spipe] = "pipe"

FilterReads ==
    /\ child = "running"
    /\ toChild # << >>
    /\ Len(held) < Hold
    /\ held' \in {held, Append(held, Head(toChild))}
    /\ toChild' = Tail(toChild)
    /\ UNCHANGED <<parentVars, toParent, eof, reset, child, wrote, ghosts>>

FilterWrites ==
    /\ child = "running" /\ Connected
    /\ held # << >>
    /\ Len(toParent) < Cap
    /\ toParent' = Append(toParent, Head(held))
    /\ wrote' = Append(wrote, Head(held))
    /\ held' = Tail(held)
    /\ UNCHANGED <<parentVars, toChild, eof, reset, child, ghosts>>

AtEof == (toChild = << >> /\ held = << >> /\ eof) \/ ~Connected

(* with input it has not read, its exit resets the connection *)
FilterExits(status) ==
    /\ child = "running"
    /\ AtEof \/ "early" \in Faults
    /\ child' = status
    /\ reset' = (Connected /\ toChild # << >>)
    /\ held' = << >>
    /\ UNCHANGED <<parentVars, toChild, toParent, eof, wrote, ghosts>>

Filter ==
    \/ FilterReads \/ FilterWrites
    \/ \E status \in {"exited", "failed"} : FilterExits(status)

Post == PollReady \/ ReadText \/ ReadReset \/ ReadEof \/ Kill \/ Reap

Callback == Outputs \/ CallbackFails \/ CallbackPlain \/ PostStart

Next ==
    \/ EvalPlain \/ EvalPiped \/ EvalNoSocket \/ EvalNoFork
    \/ Callback \/ Post
    \/ PollTimeout \/ Interrupted
    \/ AppOpen \/ AppClose
    \/ Filter

(***************************************************************************)
(* The CLI runs on, a callback returns after finitely many texts, and the  *)
(* filter reads, writes, and exits at the end of its input; no filter need *)
(* exit before that.                                                       *)
(***************************************************************************)
Spec ==
    /\ Init /\ [][Next]_vars
    /\ WF_vars(phase # "idle" /\ Callback)
    /\ WF_vars(Post)
    /\ WF_vars(Filter /\ (child' # child => AtEof))

----------------------------------------------------------------------------
(***************************************************************************)
(* Properties                                                              *)
(***************************************************************************)
(***************************************************************************)
(* While a piped command is evaluated, stdout shows what the filter wrote, *)
(* in that order, without loss up to what is still in the socket, and      *)
(* nothing that went around the filter; whenever the filter exits or is    *)
(* given up, and whatever is open or fails besides.  Only a reset, a       *)
(* signal or a write error in cligen_output disturbs that.                 *)
(***************************************************************************)
ShowsFiltered ==
    spipe # NoFd /\ ~cut => out \o toParent = wrote

(***************************************************************************)
(* When a piped evaluation returns 0, undisturbed by a reset, a signal or  *)
(* a write error, the filter was waited for, cligen_output prints to       *)
(* stdout again, and all that the filter wrote was printed and it exited   *)
(* with status 0.  A filter that was silent for CLI_PIPE_TIMEOUT_US has    *)
(* been given up instead: then what it wrote was printed up to what is     *)
(* still in the socket, and it is no longer running.                       *)
(***************************************************************************)
SuccessIsComplete ==
    [][spipe # NoFd /\ spipe' = NoFd /\ retval' = 0 /\ ~cut =>
           /\ zombies' = zombies /\ outSocket' = NoFd
           /\ IF late THEN out \o toParent = wrote /\ child # "running"
                      ELSE out = wrote /\ child = "exited"]_vars

(***************************************************************************)
(* Descriptors: between evaluations no socket of a pipe is open, on every  *)
(* path through cligen_eval but a failed fork; PIPE_OUTPUT_SOCKET outlives *)
(* an evaluation only when that left its filter process behind; and        *)
(* cligen_eval closes a descriptor of the application only after a write   *)
(* error in cligen_output (it closes the socket twice then).               *)
(***************************************************************************)
KeepsDescriptors ==
    /\ [](phase = "idle" => chSpipe = NoFd /\ \A f \in Fd : fds[f] # "pipe")
    /\ [](spipe = NoFd /\ outSocket # NoFd => zombies > 0)
    /\ [][\A f \in Fd : fds[f] = "app" /\ fds'[f] # "app" => AppClose \/ cut]_vars

(***************************************************************************)
(* Every evaluation ends.                                                  *)
(***************************************************************************)
EvalEnds == phase # "idle" ~> phase = "idle"

=============================================================================
