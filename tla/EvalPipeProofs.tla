--------------------------- MODULE EvalPipeProofs ---------------------------
(***************************************************************************)
(* Proofs about EvalPipe, for any capacity of the socket, any bounds and   *)
(* any faults of the environment: what a piped evaluation shows is what    *)
(* the filter wrote, a success is complete, and descriptors are kept.      *)
(*                                                                         *)
(* None of the three is inductive.  That the filter's output and nothing   *)
(* else reaches stdout depends on which descriptor cligen_output finds in  *)
(* PIPE_OUTPUT_SOCKET in each phase, and that a success is complete        *)
(* depends on what select had seen when read found the end of the file.    *)
(* IInv says so; each part of it is a conjunct with a name.                *)
(***************************************************************************)
EXTENDS EvalPipe, WellFoundedInduction, TLAPS

Phases    == {"idle", "callback", "await", "poll", "read", "kill", "reap"}
Processes == {"none", "running", "exited", "failed", "killed"}

Owners    == {"free", "pipe", "app", "leaked"}

ControlTypes ==
    /\ phase \in Phases
    /\ outSocket \in Fd \cup {NoFd} /\ spipe \in Fd \cup {NoFd}
    /\ fds \in [Fd -> Owners]
    /\ blocked \in BOOLEAN /\ reset \in BOOLEAN
    /\ cut \in BOOLEAN /\ late \in BOOLEAN
    /\ child \in Processes
    /\ zombies \in Nat /\ texts \in Nat

TextTypes ==
    /\ buf \in Int
    /\ toChild \in Seq(Int) /\ toParent \in Seq(Int) /\ held \in Seq(Int)
    /\ wrote \in Seq(Int) /\ out \in Seq(Int)

(* the socket of an evaluation, its filter and the handle come and go together *)
OneEvaluation ==
    /\ chSpipe = spipe
    /\ (spipe = NoFd) <=> (child = "none")
    /\ phase = "idle" => spipe = NoFd
    /\ phase \notin {"idle", "callback"} => spipe # NoFd

(* only that socket is a pipe, and it is one until a write fails *)
OnePipe ==
    /\ \A f \in Fd : fds[f] = "pipe" => f = spipe
    /\ spipe # NoFd /\ ~cut => fds[spipe] = "pipe"
    /\ blocked => phase = "callback" /\ OnPipe

(* what cligen_output writes to *)
WhereOutputGoes ==
    /\ spipe # NoFd /\ ~cut /\ phase \in {"callback", "await", "poll", "read"} =>
           outSocket = spipe
    /\ phase \in {"kill", "reap"} => outSocket = NoFd
    /\ spipe = NoFd /\ outSocket # NoFd => zombies > 0

(* the end of the file is seen only after the filter's exit, and a filter *)
(* that was given up is gone before it is reaped                          *)
EndIsEnd ==
    /\ phase = "read" => InputReady
    /\ phase \in {"kill", "reap"} /\ ~cut /\ ~late =>
           child \in {"exited", "failed"} /\ toParent = << >>
    /\ child = "killed" => phase = "reap"
    /\ phase = "reap" => child # "running"

IInv ==
    /\ ControlTypes /\ TextTypes
    /\ OneEvaluation /\ OnePipe /\ WhereOutputGoes /\ EndIsEnd
    /\ ShowsFiltered

----------------------------------------------------------------------------
(* The lowest free descriptor, which socketpair and open return. *)

Below == {p \in Nat \X Nat : p[1] < p[2]}

(* The order of the numbers, as a relation, is well-founded. *)
LEMMA BelowWellFounded == IsWellFoundedOn(Below, Nat)
  BY NatLessThanWellFounded DEF Below, OpToRel

(* Lowest is defined: some descriptor of a non-empty set is the lowest. *)
LEMMA LowestIsMember ==
    ASSUME NEW S \in SUBSET Fd, S # {}
    PROVE  Lowest(S) \in S
  <1>1. S \subseteq Nat
    BY EnvironmentAssumption DEF Fd
  <1>2. PICK f \in S : \A g \in S : <<g, f>> \notin Below
    BY <1>1, BelowWellFounded, WFMin, Zenon
  <1>3. ASSUME NEW g \in S PROVE f <= g
    <2>1. <<g, f>> \notin Below /\ f \in Nat /\ g \in Nat
      BY <1>1, <1>2
    <2>2. ~ (g < f)
      BY <2>1 DEF Below
    <2> QED
      BY <2>1, <2>2
  <1> QED
    BY <1>3 DEF Lowest

(* -1 is no descriptor. *)
LEMMA NoFdIsNone == NoFd \notin Fd
  BY EnvironmentAssumption DEF NoFd, Fd

(* The descriptors that socketpair and open return were free. *)
LEMMA FreeIsFree ==
    /\ Free # {} => Lowest(Free) \in Fd /\ fds[Lowest(Free)] = "free"
    /\ \A s \in Fd : Free \ {s} # {} =>
           Lowest(Free \ {s}) \in Fd /\ fds[Lowest(Free \ {s})] = "free"
  <1>1. ASSUME NEW S \in SUBSET Free, S # {}
        PROVE  Lowest(S) \in Fd /\ fds[Lowest(S)] = "free"
    BY <1>1, LowestIsMember DEF Free
  <1> QED
    BY <1>1

----------------------------------------------------------------------------
(* The ways out of cligen_eval, once it has called the callbacks. *)
Returning == CallbackFails \/ CallbackPlain \/ Interrupted \/ Reap

(* What they have in common: the socket is closed, whatever its descriptor *)
(* stands for, PIPE_OUTPUT_SOCKET is left alone, and a filter that was not *)
(* waited for is counted.                                                  *)
LEMMA ReturnEffect ==
    ASSUME IInv, Returning
    PROVE  /\ phase' = "idle" /\ spipe' = NoFd /\ chSpipe' = NoFd
           /\ outSocket' = outSocket
           /\ child' = "none" /\ blocked' = FALSE /\ reset' = FALSE
           /\ cut' \in BOOLEAN /\ late' = late
           /\ fds' \in [Fd -> Owners]
           /\ \A f \in Fd : fds'[f] = IF f = spipe THEN "free" ELSE fds[f]
           /\ toChild' = << >> /\ toParent' = << >> /\ held' = << >>
           /\ buf' = Garbage /\ wrote' = wrote /\ out' = out
           /\ texts' = texts
           /\ zombies' = zombies \/ zombies' = zombies + 1
           /\ child # "none" /\ zombies' = zombies => outSocket = NoFd
  <1>1. PICK rv \in {-1, 0} : Return(rv, outSocket)
    BY DEF Returning, CallbackFails, CallbackPlain, Interrupted, Reap, StatusOf
  <1>2. cut' \in {cut, TRUE} /\ cut \in BOOLEAN
    BY DEF Returning, CallbackFails, CallbackPlain, Interrupted, Reap, IInv,
           ControlTypes
  <1>3. /\ zombies' = zombies \/ zombies' = zombies + 1
        /\ child # "none" /\ zombies' = zombies => outSocket = NoFd
    BY DEF Returning, CallbackFails, CallbackPlain, Interrupted, Reap,
           Leftover, IInv, ControlTypes, WhereOutputGoes
  <1>4. /\ fds' \in [Fd -> Owners]
        /\ \A f \in Fd : fds'[f] = IF f = spipe THEN "free" ELSE fds[f]
    <2>1. fds' = IF spipe = NoFd THEN fds ELSE [fds EXCEPT ![spipe] = "free"]
      BY <1>1 DEF Return, Closed, ToClose
    <2>2. spipe = NoFd => spipe \notin Fd
      BY NoFdIsNone
    <2> QED
      BY <2>1, <2>2 DEF IInv, ControlTypes, Owners
  <1>5. chSpipe' = NoFd
    BY <1>1 DEF Return, IInv, OneEvaluation
  <1>6. /\ phase' = "idle" /\ spipe' = NoFd /\ outSocket' = outSocket
        /\ child' = "none" /\ blocked' = FALSE /\ reset' = FALSE
        /\ toChild' = << >> /\ toParent' = << >> /\ held' = << >>
        /\ buf' = Garbage /\ wrote' = wrote /\ out' = out /\ texts' = texts
        /\ late' = late
    BY <1>1 DEF Return
  <1> QED
    BY <1>2, <1>3, <1>4, <1>5, <1>6

(* Every step keeps the types of the control state. *)
LEMMA ControlTypesStep ==
    ASSUME IInv, [Next]_vars
    PROVE  ControlTypes'
  <1>1. CASE EvalPlain
    BY <1>1
      DEF EvalPlain, Begin, socketVars, childVars, IInv, ControlTypes, Phases,
             Processes, Owners
  <1>2. CASE EvalPiped
    <2>1. Lowest(Free) \in Fd /\ spipe' = Lowest(Free) /\ outSocket' = spipe'
      BY <1>2, FreeIsFree DEF EvalPiped, Redirected
    <2>2. fds' = [fds EXCEPT ![Lowest(Free)] = "pipe"]
      BY <1>2 DEF EvalPiped
    <2> QED
      BY <1>2, <2>1, <2>2
        DEF EvalPiped, Begin, IInv, ControlTypes, Phases, Processes, Owners
  <1>3. CASE EvalNoSocket
    BY <1>3
      DEF EvalNoSocket, Begin, socketVars, childVars, IInv, ControlTypes,
             Phases, Processes, Owners
  <1>4. CASE EvalNoFork
    BY <1>4, FreeIsFree
      DEF EvalNoFork, Begin, socketVars, childVars, IInv, ControlTypes, Phases,
             Processes, Owners
  <1>5. CASE Output(texts + 1)
    BY <1>5
      DEF Output, Printing, childVars, IInv, ControlTypes, Phases, Processes,
             Owners
  <1>6. CASE OutputPipe(texts + 1)
    <2>1. /\ phase' = phase /\ spipe' = spipe /\ child' = child
          /\ zombies' = zombies /\ texts' = texts + 1
      BY <1>6 DEF OutputPipe, Printing, childVars
    <2>2. /\ outSocket' = outSocket /\ fds' = fds /\ reset' = reset
          /\ blocked' = FALSE /\ cut' = cut /\ late' = late
      BY <1>6 DEF OutputPipe, Printing
    <2>3. texts \in Nat /\ texts' \in Nat
      BY <2>1 DEF IInv, ControlTypes
    <2> QED
      BY <2>1, <2>2, <2>3 DEF IInv, ControlTypes
  <1>7. CASE OutputBlocks
    BY <1>7
      DEF OutputBlocks, socketVars, childVars, ghosts, IInv, ControlTypes,
             Phases, Processes, Owners
  <1>8. CASE OutputEpipe
    <2>1. /\ phase' = phase /\ spipe' = spipe /\ child' = child
          /\ zombies' = zombies /\ texts' = texts + 1
      BY <1>8 DEF OutputEpipe, Printing, childVars
    <2>2. /\ outSocket' = outSocket /\ fds' = fds /\ reset' = reset
          /\ blocked' = FALSE /\ cut' = cut /\ late' = late
      BY <1>8 DEF OutputEpipe, Printing
    <2>3. texts \in Nat /\ texts' \in Nat
      BY <2>1 DEF IInv, ControlTypes
    <2> QED
      BY <2>1, <2>2, <2>3 DEF IInv, ControlTypes
  <1>9. CASE OutputError
    <2>1. /\ phase' = phase /\ spipe' = spipe /\ child' = child
          /\ zombies' = zombies /\ texts' = texts + 1
      BY <1>9 DEF OutputError, Printing, childVars
    <2>2. /\ outSocket' = NoFd /\ fds' = [fds EXCEPT ![outSocket] = "free"]
          /\ reset' = FALSE /\ blocked' = FALSE /\ cut' = TRUE /\ late' = late
      BY <1>9 DEF OutputError, Printing
    <2>3. texts \in Nat /\ texts' \in Nat
      BY <2>1 DEF IInv, ControlTypes, Owners
    <2> QED
      BY <2>1, <2>2, <2>3 DEF IInv, ControlTypes, Owners
  <1>10. CASE OutputElsewhere
    BY <1>10
      DEF OutputElsewhere, Printing, childVars, IInv, ControlTypes, Phases,
             Processes, Owners
  <1>11. CASE Returning
    <2>1. phase' \in Phases /\ child' \in Processes
      BY <1>11, ReturnEffect DEF Phases, Processes
    <2>2. outSocket' \in Fd \cup {NoFd} /\ spipe' \in Fd \cup {NoFd}
      BY <1>11, ReturnEffect DEF IInv, ControlTypes
    <2>3. /\ fds' \in [Fd -> Owners]
          /\ blocked' \in BOOLEAN /\ reset' \in BOOLEAN
          /\ cut' \in BOOLEAN /\ late' \in BOOLEAN
      BY <1>11, ReturnEffect DEF IInv, ControlTypes
    <2>4. zombies' \in Nat /\ texts' \in Nat
      <3>1. zombies \in Nat /\ texts \in Nat
        BY DEF IInv, ControlTypes
      <3>2. (zombies' = zombies \/ zombies' = zombies + 1) /\ texts' = texts
        BY <1>11, ReturnEffect
      <3> QED
        BY <3>1, <3>2
    <2> QED
      BY <2>1, <2>2, <2>3, <2>4 DEF ControlTypes
  <1>12. CASE PostStart
    BY <1>12
      DEF PostStart, EndsInput, childVars, ghosts, IInv, ControlTypes, Phases,
             Processes, Owners
  <1>13. CASE PollReady
    BY <1>13
      DEF PollReady, socketVars, childVars, ghosts, IInv, ControlTypes, Phases,
             Processes, Owners
  <1>14. CASE ReadText
    BY <1>14
      DEF ReadText, Reading, childVars, IInv, ControlTypes, Phases, Processes,
             Owners
  <1>15. CASE ReadReset
    BY <1>15
      DEF ReadReset, Reading, childVars, IInv, ControlTypes, Phases, Processes,
             Owners
  <1>16. CASE ReadEof
    BY <1>16
      DEF ReadEof, Reading, AfterDrain, childVars, IInv, ControlTypes, Phases,
             Processes, Owners
  <1>17. CASE Kill
    BY <1>17
      DEF Kill, socketVars, ghosts, IInv, ControlTypes, Phases, Processes,
             Owners
  <1>18. CASE PollTimeout
    BY <1>18
      DEF PollTimeout, AfterDrain, socketVars, childVars, IInv, ControlTypes,
             Phases, Processes, Owners
  <1>19. CASE AppOpen
    BY <1>19, FreeIsFree
      DEF AppOpen, socketVars, childVars, ghosts, IInv, ControlTypes, Phases,
             Processes, Owners
  <1>20. CASE AppClose
    BY <1>20
      DEF AppClose, socketVars, childVars, ghosts, IInv, ControlTypes, Phases,
             Processes, Owners
  <1>21. CASE FilterReads
    BY <1>21
      DEF FilterReads, parentVars, ghosts, IInv, ControlTypes, Phases,
             Processes, Owners
  <1>22. CASE FilterWrites
    BY <1>22
      DEF FilterWrites, parentVars, ghosts, IInv, ControlTypes, Phases,
             Processes, Owners
  <1>23. CASE \E status \in {"exited", "failed"} : FilterExits(status)
    BY <1>23
      DEF FilterExits, parentVars, ghosts, IInv, ControlTypes, Phases,
             Processes, Owners
  <1>24. CASE UNCHANGED vars
    BY <1>24
      DEF vars, parentVars, socketVars, childVars, ghosts, IInv, ControlTypes,
             Phases, Processes, Owners
  <1> QED
    BY <1>1, <1>2, <1>3, <1>4, <1>5, <1>6, <1>7, <1>8, <1>9, <1>10, <1>11,
           <1>12, <1>13, <1>14, <1>15, <1>16, <1>17, <1>18, <1>19, <1>20,
           <1>21, <1>22, <1>23, <1>24
      DEF Next, Callback, Outputs, Post, Filter, Returning

(* Every step keeps the types of the texts. *)
LEMMA TextTypesStep ==
    ASSUME IInv, [Next]_vars
    PROVE  TextTypes'
  <1>1. CASE EvalPlain
    BY <1>1
      DEF EvalPlain, Begin, socketVars, childVars, IInv, TextTypes
  <1>2. CASE EvalPiped
    BY <1>2, FreeIsFree
      DEF EvalPiped, Begin, Redirected, IInv, TextTypes
  <1>3. CASE EvalNoSocket
    BY <1>3
      DEF EvalNoSocket, Begin, socketVars, childVars, IInv, TextTypes
  <1>4. CASE EvalNoFork
    BY <1>4, FreeIsFree
      DEF EvalNoFork, Begin, socketVars, childVars, IInv, TextTypes
  <1>5. CASE Output(texts + 1)
    BY <1>5
      DEF Output, Printing, childVars, IInv, TextTypes
  <1>6. CASE OutputPipe(texts + 1)
    BY <1>6
      DEF OutputPipe, Printing, childVars, IInv, TextTypes
  <1>7. CASE OutputBlocks
    BY <1>7
      DEF OutputBlocks, socketVars, childVars, ghosts, IInv, TextTypes
  <1>8. CASE OutputEpipe
    BY <1>8
      DEF OutputEpipe, Printing, childVars, IInv, TextTypes
  <1>9. CASE OutputError
    BY <1>9
      DEF OutputError, Printing, childVars, IInv, TextTypes
  <1>10. CASE OutputElsewhere
    BY <1>10
      DEF OutputElsewhere, Printing, childVars, IInv, TextTypes
  <1>11. CASE Returning
    <2>1. << >> \in Seq(Int) /\ Garbage \in Int
      BY DEF Garbage
    <2>2. toChild' \in Seq(Int) /\ toParent' \in Seq(Int) /\ held' \in Seq(Int)
      BY <1>11, <2>1, ReturnEffect
    <2>3. buf' \in Int /\ wrote' \in Seq(Int) /\ out' \in Seq(Int)
      BY <1>11, <2>1, ReturnEffect DEF IInv, TextTypes
    <2> QED
      BY <2>2, <2>3 DEF TextTypes
  <1>12. CASE PostStart
    BY <1>12
      DEF PostStart, EndsInput, childVars, ghosts, IInv, TextTypes
  <1>13. CASE PollReady
    BY <1>13
      DEF PollReady, socketVars, childVars, ghosts, IInv, TextTypes
  <1>14. CASE ReadText
    BY <1>14
      DEF ReadText, Reading, childVars, IInv, TextTypes
  <1>15. CASE ReadReset
    BY <1>15
      DEF ReadReset, Reading, childVars, IInv, TextTypes
  <1>16. CASE ReadEof
    BY <1>16
      DEF ReadEof, Reading, AfterDrain, childVars, IInv, TextTypes
  <1>17. CASE Kill
    BY <1>17
      DEF Kill, socketVars, ghosts, IInv, TextTypes
  <1>18. CASE PollTimeout
    BY <1>18
      DEF PollTimeout, AfterDrain, socketVars, childVars, IInv, TextTypes
  <1>19. CASE AppOpen
    BY <1>19, FreeIsFree
      DEF AppOpen, socketVars, childVars, ghosts, IInv, TextTypes
  <1>20. CASE AppClose
    BY <1>20
      DEF AppClose, socketVars, childVars, ghosts, IInv, TextTypes
  <1>21. CASE FilterReads
    <2>1. Head(toChild) \in Int /\ Tail(toChild) \in Seq(Int)
      BY <1>21 DEF FilterReads, IInv, TextTypes
    <2>2. held' = held \/ held' = Append(held, Head(toChild))
      BY <1>21 DEF FilterReads
    <2>3. held \in Seq(Int) /\ Append(held, Head(toChild)) \in Seq(Int)
      BY <2>1 DEF IInv, TextTypes
    <2> QED
      BY <1>21, <2>1, <2>2, <2>3
        DEF FilterReads, parentVars, ghosts, IInv, TextTypes
  <1>22. CASE FilterWrites
    BY <1>22
      DEF FilterWrites, parentVars, ghosts, IInv, TextTypes
  <1>23. CASE \E status \in {"exited", "failed"} : FilterExits(status)
    BY <1>23
      DEF FilterExits, parentVars, ghosts, IInv, TextTypes
  <1>24. CASE UNCHANGED vars
    BY <1>24
      DEF vars, parentVars, socketVars, childVars, ghosts, IInv, TextTypes
  <1> QED
    BY <1>1, <1>2, <1>3, <1>4, <1>5, <1>6, <1>7, <1>8, <1>9, <1>10, <1>11,
           <1>12, <1>13, <1>14, <1>15, <1>16, <1>17, <1>18, <1>19, <1>20,
           <1>21, <1>22, <1>23, <1>24
      DEF Next, Callback, Outputs, Post, Filter, Returning

(* Socket, filter and handle go together. *)
LEMMA OneEvaluationStep ==
    ASSUME IInv, [Next]_vars
    PROVE  OneEvaluation'
  <1>1. CASE EvalPlain
    BY <1>1
      DEF EvalPlain, Begin, socketVars, childVars, IInv, OneEvaluation
  <1>2. CASE EvalPiped
    <2>1. spipe' # NoFd /\ chSpipe' = spipe'
      BY <1>2, FreeIsFree, NoFdIsNone DEF EvalPiped
    <2> QED
      BY <1>2, <2>1 DEF EvalPiped, OneEvaluation
  <1>3. CASE EvalNoSocket
    BY <1>3
      DEF EvalNoSocket, Begin, socketVars, childVars, IInv, OneEvaluation
  <1>4. CASE EvalNoFork
    BY <1>4, FreeIsFree
      DEF EvalNoFork, Begin, socketVars, childVars, IInv, OneEvaluation
  <1>5. CASE Output(texts + 1)
    BY <1>5
      DEF Output, Printing, childVars, IInv, OneEvaluation
  <1>6. CASE OutputPipe(texts + 1)
    BY <1>6
      DEF OutputPipe, Printing, childVars, IInv, OneEvaluation
  <1>7. CASE OutputBlocks
    BY <1>7
      DEF OutputBlocks, socketVars, childVars, ghosts, IInv, OneEvaluation
  <1>8. CASE OutputEpipe
    BY <1>8
      DEF OutputEpipe, Printing, childVars, IInv, OneEvaluation
  <1>9. CASE OutputError
    BY <1>9
      DEF OutputError, Printing, childVars, IInv, OneEvaluation
  <1>10. CASE OutputElsewhere
    BY <1>10
      DEF OutputElsewhere, Printing, childVars, IInv, OneEvaluation
  <1>11. CASE Returning
    BY <1>11, ReturnEffect
      DEF IInv, OneEvaluation
  <1>12. CASE PostStart
    BY <1>12
      DEF PostStart, EndsInput, childVars, ghosts, IInv, OneEvaluation
  <1>13. CASE PollReady
    BY <1>13
      DEF PollReady, socketVars, childVars, ghosts, IInv, OneEvaluation
  <1>14. CASE ReadText
    BY <1>14
      DEF ReadText, Reading, childVars, IInv, OneEvaluation
  <1>15. CASE ReadReset
    BY <1>15
      DEF ReadReset, Reading, childVars, IInv, OneEvaluation
  <1>16. CASE ReadEof
    BY <1>16
      DEF ReadEof, Reading, AfterDrain, childVars, IInv, OneEvaluation
  <1>17. CASE Kill
    BY <1>17
      DEF Kill, socketVars, ghosts, IInv, OneEvaluation
  <1>18. CASE PollTimeout
    BY <1>18
      DEF PollTimeout, AfterDrain, socketVars, childVars, IInv, OneEvaluation
  <1>19. CASE AppOpen
    BY <1>19, FreeIsFree
      DEF AppOpen, socketVars, childVars, ghosts, IInv, OneEvaluation
  <1>20. CASE AppClose
    BY <1>20
      DEF AppClose, socketVars, childVars, ghosts, IInv, OneEvaluation
  <1>21. CASE FilterReads
    BY <1>21
      DEF FilterReads, parentVars, ghosts, IInv, OneEvaluation
  <1>22. CASE FilterWrites
    BY <1>22
      DEF FilterWrites, parentVars, ghosts, IInv, OneEvaluation
  <1>23. CASE \E status \in {"exited", "failed"} : FilterExits(status)
    BY <1>23
      DEF FilterExits, parentVars, ghosts, IInv, OneEvaluation
  <1>24. CASE UNCHANGED vars
    BY <1>24
      DEF vars, parentVars, socketVars, childVars, ghosts, IInv, OneEvaluation
  <1> QED
    BY <1>1, <1>2, <1>3, <1>4, <1>5, <1>6, <1>7, <1>8, <1>9, <1>10, <1>11,
           <1>12, <1>13, <1>14, <1>15, <1>16, <1>17, <1>18, <1>19, <1>20,
           <1>21, <1>22, <1>23, <1>24
      DEF Next, Callback, Outputs, Post, Filter, Returning

(* Only the socket of the evaluation is a pipe. *)
LEMMA OnePipeStep ==
    ASSUME IInv, [Next]_vars
    PROVE  OnePipe'
  <1>1. CASE EvalPlain
    BY <1>1
      DEF EvalPlain, Begin, socketVars, childVars, IInv, ControlTypes, OnePipe,
             OnPipe, OneEvaluation
  <1>2. CASE EvalPiped
    <2>1. Lowest(Free) \in Fd /\ spipe' = Lowest(Free)
      BY <1>2, FreeIsFree DEF EvalPiped
    <2>2. fds' = [fds EXCEPT ![spipe'] = "pipe"] /\ fds'[spipe'] = "pipe"
      BY <1>2, <2>1 DEF EvalPiped, IInv, ControlTypes
    <2>3. spipe = NoFd /\ ~ blocked /\ blocked' = blocked
      BY <1>2 DEF EvalPiped, Begin, IInv, OneEvaluation, OnePipe
    <2>4. \A f \in Fd : fds'[f] = "pipe" => f = spipe'
      BY <2>1, <2>2, <2>3, NoFdIsNone DEF IInv, ControlTypes, OnePipe
    <2> QED
      BY <2>2, <2>3, <2>4 DEF OnePipe
  <1>3. CASE EvalNoSocket
    BY <1>3
      DEF EvalNoSocket, Begin, socketVars, childVars, IInv, ControlTypes,
             OnePipe, OnPipe, OneEvaluation
  <1>4. CASE EvalNoFork
    BY <1>4, FreeIsFree
      DEF EvalNoFork, Begin, socketVars, childVars, IInv, ControlTypes,
             OnePipe, OnPipe, OneEvaluation
  <1>5. CASE Output(texts + 1)
    BY <1>5
      DEF Output, Printing, childVars, IInv, ControlTypes, OnePipe, OnPipe,
             OneEvaluation
  <1>6. CASE OutputPipe(texts + 1)
    BY <1>6
      DEF OutputPipe, Printing, childVars, IInv, ControlTypes, OnePipe, OnPipe,
             OneEvaluation
  <1>7. CASE OutputBlocks
    BY <1>7
      DEF OutputBlocks, socketVars, childVars, ghosts, IInv, ControlTypes,
             OnePipe, OnPipe, OneEvaluation
  <1>8. CASE OutputEpipe
    BY <1>8
      DEF OutputEpipe, Printing, childVars, IInv, ControlTypes, OnePipe,
             OnPipe, OneEvaluation
  <1>9. CASE OutputError
    BY <1>9
      DEF OutputError, Printing, childVars, IInv, ControlTypes, OnePipe,
             OnPipe, OneEvaluation
  <1>10. CASE OutputElsewhere
    BY <1>10
      DEF OutputElsewhere, Printing, childVars, IInv, ControlTypes, OnePipe,
             OnPipe, OneEvaluation
  <1>11. CASE Returning
    BY <1>11, ReturnEffect
      DEF IInv, ControlTypes, OnePipe, OnPipe, OneEvaluation
  <1>12. CASE PostStart
    BY <1>12
      DEF PostStart, EndsInput, childVars, ghosts, IInv, ControlTypes, OnePipe,
             OnPipe, OneEvaluation
  <1>13. CASE PollReady
    BY <1>13
      DEF PollReady, socketVars, childVars, ghosts, IInv, ControlTypes,
             OnePipe, OnPipe, OneEvaluation
  <1>14. CASE ReadText
    BY <1>14
      DEF ReadText, Reading, childVars, IInv, ControlTypes, OnePipe, OnPipe,
             OneEvaluation
  <1>15. CASE ReadReset
    BY <1>15
      DEF ReadReset, Reading, childVars, IInv, ControlTypes, OnePipe, OnPipe,
             OneEvaluation
  <1>16. CASE ReadEof
    BY <1>16
      DEF ReadEof, Reading, AfterDrain, childVars, IInv, ControlTypes, OnePipe,
             OnPipe, OneEvaluation
  <1>17. CASE Kill
    BY <1>17
      DEF Kill, socketVars, ghosts, IInv, ControlTypes, OnePipe, OnPipe,
             OneEvaluation
  <1>18. CASE PollTimeout
    BY <1>18
      DEF PollTimeout, AfterDrain, socketVars, childVars, IInv, ControlTypes,
             OnePipe, OnPipe, OneEvaluation
  <1>19. CASE AppOpen
    BY <1>19, FreeIsFree
      DEF AppOpen, socketVars, childVars, ghosts, IInv, ControlTypes, OnePipe,
             OnPipe, OneEvaluation
  <1>20. CASE AppClose
    BY <1>20
      DEF AppClose, socketVars, childVars, ghosts, IInv, ControlTypes, OnePipe,
             OnPipe, OneEvaluation
  <1>21. CASE FilterReads
    BY <1>21
      DEF FilterReads, parentVars, ghosts, IInv, ControlTypes, OnePipe, OnPipe,
             OneEvaluation
  <1>22. CASE FilterWrites
    BY <1>22
      DEF FilterWrites, parentVars, ghosts, IInv, ControlTypes, OnePipe,
             OnPipe, OneEvaluation
  <1>23. CASE \E status \in {"exited", "failed"} : FilterExits(status)
    BY <1>23
      DEF FilterExits, parentVars, ghosts, IInv, ControlTypes, OnePipe, OnPipe,
             OneEvaluation
  <1>24. CASE UNCHANGED vars
    BY <1>24
      DEF vars, parentVars, socketVars, childVars, ghosts, IInv, ControlTypes,
             OnePipe, OnPipe, OneEvaluation
  <1> QED
    BY <1>1, <1>2, <1>3, <1>4, <1>5, <1>6, <1>7, <1>8, <1>9, <1>10, <1>11,
           <1>12, <1>13, <1>14, <1>15, <1>16, <1>17, <1>18, <1>19, <1>20,
           <1>21, <1>22, <1>23, <1>24
      DEF Next, Callback, Outputs, Post, Filter, Returning

(* PIPE_OUTPUT_SOCKET is the socket until the filter is done with. *)
LEMMA WhereOutputGoesStep ==
    ASSUME IInv, [Next]_vars
    PROVE  WhereOutputGoes'
  <1>1. CASE EvalPlain
    BY <1>1
      DEF EvalPlain, Begin, socketVars, childVars, IInv, ControlTypes,
             WhereOutputGoes, OneEvaluation
  <1>2. CASE EvalPiped
    BY <1>2, FreeIsFree
      DEF EvalPiped, Begin, Redirected, IInv, ControlTypes, WhereOutputGoes,
             OneEvaluation
  <1>3. CASE EvalNoSocket
    BY <1>3
      DEF EvalNoSocket, Begin, socketVars, childVars, IInv, ControlTypes,
             WhereOutputGoes, OneEvaluation
  <1>4. CASE EvalNoFork
    BY <1>4, FreeIsFree
      DEF EvalNoFork, Begin, socketVars, childVars, IInv, ControlTypes,
             WhereOutputGoes, OneEvaluation
  <1>5. CASE Output(texts + 1)
    BY <1>5
      DEF Output, Printing, childVars, IInv, ControlTypes, WhereOutputGoes,
             OneEvaluation
  <1>6. CASE OutputPipe(texts + 1)
    BY <1>6
      DEF OutputPipe, Printing, childVars, IInv, ControlTypes, WhereOutputGoes,
             OneEvaluation
  <1>7. CASE OutputBlocks
    BY <1>7
      DEF OutputBlocks, socketVars, childVars, ghosts, IInv, ControlTypes,
             WhereOutputGoes, OneEvaluation
  <1>8. CASE OutputEpipe
    BY <1>8
      DEF OutputEpipe, Printing, childVars, IInv, ControlTypes,
             WhereOutputGoes, OneEvaluation
  <1>9. CASE OutputError
    BY <1>9
      DEF OutputError, Printing, childVars, IInv, ControlTypes,
             WhereOutputGoes, OneEvaluation
  <1>10. CASE OutputElsewhere
    BY <1>10
      DEF OutputElsewhere, Printing, childVars, IInv, ControlTypes,
             WhereOutputGoes, OneEvaluation
  <1>11. CASE Returning
    <2>1. zombies \in Nat
      BY DEF IInv, ControlTypes
    <2>2. outSocket' # NoFd => zombies' > 0
      <3>1. CASE child = "none"
        <4>1. outSocket # NoFd => zombies > 0
          BY <3>1 DEF IInv, OneEvaluation, WhereOutputGoes
        <4> QED
          BY <1>11, <2>1, <4>1, ReturnEffect
      <3>2. CASE child # "none"
        BY <1>11, <2>1, <3>2, ReturnEffect
      <3> QED
        BY <3>1, <3>2
    <2>3. spipe' = NoFd /\ phase' = "idle"
      BY <1>11, ReturnEffect
    <2> QED
      BY <2>2, <2>3 DEF WhereOutputGoes
  <1>12. CASE PostStart
    BY <1>12
      DEF PostStart, EndsInput, childVars, ghosts, IInv, ControlTypes,
             WhereOutputGoes, OneEvaluation
  <1>13. CASE PollReady
    BY <1>13
      DEF PollReady, socketVars, childVars, ghosts, IInv, ControlTypes,
             WhereOutputGoes, OneEvaluation
  <1>14. CASE ReadText
    BY <1>14
      DEF ReadText, Reading, childVars, IInv, ControlTypes, WhereOutputGoes,
             OneEvaluation
  <1>15. CASE ReadReset
    BY <1>15
      DEF ReadReset, Reading, childVars, IInv, ControlTypes, WhereOutputGoes,
             OneEvaluation
  <1>16. CASE ReadEof
    BY <1>16
      DEF ReadEof, Reading, AfterDrain, childVars, IInv, ControlTypes,
             WhereOutputGoes, OneEvaluation
  <1>17. CASE Kill
    BY <1>17
      DEF Kill, socketVars, ghosts, IInv, ControlTypes, WhereOutputGoes,
             OneEvaluation
  <1>18. CASE PollTimeout
    BY <1>18
      DEF PollTimeout, AfterDrain, socketVars, childVars, IInv, ControlTypes,
             WhereOutputGoes, OneEvaluation
  <1>19. CASE AppOpen
    BY <1>19, FreeIsFree
      DEF AppOpen, socketVars, childVars, ghosts, IInv, ControlTypes,
             WhereOutputGoes, OneEvaluation
  <1>20. CASE AppClose
    BY <1>20
      DEF AppClose, socketVars, childVars, ghosts, IInv, ControlTypes,
             WhereOutputGoes, OneEvaluation
  <1>21. CASE FilterReads
    BY <1>21
      DEF FilterReads, parentVars, ghosts, IInv, ControlTypes, WhereOutputGoes,
             OneEvaluation
  <1>22. CASE FilterWrites
    BY <1>22
      DEF FilterWrites, parentVars, ghosts, IInv, ControlTypes,
             WhereOutputGoes, OneEvaluation
  <1>23. CASE \E status \in {"exited", "failed"} : FilterExits(status)
    BY <1>23
      DEF FilterExits, parentVars, ghosts, IInv, ControlTypes, WhereOutputGoes,
             OneEvaluation
  <1>24. CASE UNCHANGED vars
    BY <1>24
      DEF vars, parentVars, socketVars, childVars, ghosts, IInv, ControlTypes,
             WhereOutputGoes, OneEvaluation
  <1> QED
    BY <1>1, <1>2, <1>3, <1>4, <1>5, <1>6, <1>7, <1>8, <1>9, <1>10, <1>11,
           <1>12, <1>13, <1>14, <1>15, <1>16, <1>17, <1>18, <1>19, <1>20,
           <1>21, <1>22, <1>23, <1>24
      DEF Next, Callback, Outputs, Post, Filter, Returning

(* read returns 0 only when the filter is gone and all was read. *)
LEMMA EndIsEndStep ==
    ASSUME IInv, [Next]_vars
    PROVE  EndIsEnd'
  <1>1. CASE EvalPlain
    BY <1>1
      DEF EvalPlain, Begin, socketVars, childVars, IInv, EndIsEnd, InputReady,
             OneEvaluation, WhereOutputGoes
  <1>2. CASE EvalPiped
    BY <1>2, FreeIsFree
      DEF EvalPiped, Begin, Redirected, IInv, EndIsEnd, InputReady,
             OneEvaluation, WhereOutputGoes
  <1>3. CASE EvalNoSocket
    BY <1>3
      DEF EvalNoSocket, Begin, socketVars, childVars, IInv, EndIsEnd,
             InputReady, OneEvaluation, WhereOutputGoes
  <1>4. CASE EvalNoFork
    BY <1>4, FreeIsFree
      DEF EvalNoFork, Begin, socketVars, childVars, IInv, EndIsEnd, InputReady,
             OneEvaluation, WhereOutputGoes
  <1>5. CASE Output(texts + 1)
    BY <1>5
      DEF Output, Printing, childVars, IInv, EndIsEnd, InputReady,
             OneEvaluation, WhereOutputGoes
  <1>6. CASE OutputPipe(texts + 1)
    BY <1>6
      DEF OutputPipe, Printing, childVars, IInv, EndIsEnd, InputReady,
             OneEvaluation, WhereOutputGoes
  <1>7. CASE OutputBlocks
    BY <1>7
      DEF OutputBlocks, socketVars, childVars, ghosts, IInv, EndIsEnd,
             InputReady, OneEvaluation, WhereOutputGoes
  <1>8. CASE OutputEpipe
    BY <1>8
      DEF OutputEpipe, Printing, childVars, IInv, EndIsEnd, InputReady,
             OneEvaluation, WhereOutputGoes
  <1>9. CASE OutputError
    BY <1>9
      DEF OutputError, Printing, childVars, IInv, EndIsEnd, InputReady,
             OneEvaluation, WhereOutputGoes
  <1>10. CASE OutputElsewhere
    BY <1>10
      DEF OutputElsewhere, Printing, childVars, IInv, EndIsEnd, InputReady,
             OneEvaluation, WhereOutputGoes
  <1>11. CASE Returning
    BY <1>11, ReturnEffect
      DEF IInv, EndIsEnd, InputReady, OneEvaluation, WhereOutputGoes
  <1>12. CASE PostStart
    BY <1>12
      DEF PostStart, EndsInput, childVars, ghosts, IInv, EndIsEnd, InputReady,
             OneEvaluation, WhereOutputGoes
  <1>13. CASE PollReady
    BY <1>13
      DEF PollReady, socketVars, childVars, ghosts, IInv, EndIsEnd, InputReady,
             OneEvaluation, WhereOutputGoes
  <1>14. CASE ReadText
    BY <1>14
      DEF ReadText, Reading, childVars, IInv, EndIsEnd, InputReady,
             OneEvaluation, WhereOutputGoes
  <1>15. CASE ReadReset
    BY <1>15
      DEF ReadReset, Reading, childVars, IInv, EndIsEnd, InputReady,
             OneEvaluation, WhereOutputGoes
  <1>16. CASE ReadEof
    <2>1. child # "running" /\ child # "none" /\ child # "killed"
      BY <1>16 DEF ReadEof, Reading, IInv, EndIsEnd, InputReady, OneEvaluation
    <2>2. child \in {"exited", "failed"}
      BY <2>1 DEF IInv, ControlTypes, Processes
    <2> QED
      BY <1>16, <2>2 DEF ReadEof, Reading, childVars, EndIsEnd
  <1>17. CASE Kill
    BY <1>17
      DEF Kill, socketVars, ghosts, IInv, EndIsEnd, InputReady, OneEvaluation,
             WhereOutputGoes
  <1>18. CASE PollTimeout
    BY <1>18
      DEF PollTimeout, AfterDrain, socketVars, childVars, IInv, EndIsEnd,
             InputReady, OneEvaluation, WhereOutputGoes
  <1>19. CASE AppOpen
    BY <1>19, FreeIsFree
      DEF AppOpen, socketVars, childVars, ghosts, IInv, EndIsEnd, InputReady,
             OneEvaluation, WhereOutputGoes
  <1>20. CASE AppClose
    BY <1>20
      DEF AppClose, socketVars, childVars, ghosts, IInv, EndIsEnd, InputReady,
             OneEvaluation, WhereOutputGoes
  <1>21. CASE FilterReads
    BY <1>21
      DEF FilterReads, parentVars, ghosts, IInv, EndIsEnd, InputReady,
             OneEvaluation, WhereOutputGoes
  <1>22. CASE FilterWrites
    BY <1>22
      DEF FilterWrites, parentVars, ghosts, IInv, EndIsEnd, InputReady,
             OneEvaluation, WhereOutputGoes
  <1>23. CASE \E status \in {"exited", "failed"} : FilterExits(status)
    BY <1>23
      DEF FilterExits, parentVars, ghosts, IInv, EndIsEnd, InputReady,
             OneEvaluation, WhereOutputGoes
  <1>24. CASE UNCHANGED vars
    BY <1>24
      DEF vars, parentVars, socketVars, childVars, ghosts, IInv, EndIsEnd,
             InputReady, OneEvaluation, WhereOutputGoes
  <1> QED
    BY <1>1, <1>2, <1>3, <1>4, <1>5, <1>6, <1>7, <1>8, <1>9, <1>10, <1>11,
           <1>12, <1>13, <1>14, <1>15, <1>16, <1>17, <1>18, <1>19, <1>20,
           <1>21, <1>22, <1>23, <1>24
      DEF Next, Callback, Outputs, Post, Filter, Returning

(* What is shown is what the filter wrote. *)
LEMMA ShowsFilteredStep ==
    ASSUME IInv, [Next]_vars
    PROVE  ShowsFiltered'
  <1>1. CASE EvalPlain
    BY <1>1
      DEF EvalPlain, Begin, socketVars, childVars, IInv, ShowsFiltered,
             OneEvaluation, WhereOutputGoes
  <1>2. CASE EvalPiped
    BY <1>2, FreeIsFree
      DEF EvalPiped, Begin, Redirected, IInv, ShowsFiltered, OneEvaluation,
             WhereOutputGoes
  <1>3. CASE EvalNoSocket
    BY <1>3
      DEF EvalNoSocket, Begin, socketVars, childVars, IInv, ShowsFiltered,
             OneEvaluation, WhereOutputGoes
  <1>4. CASE EvalNoFork
    BY <1>4, FreeIsFree
      DEF EvalNoFork, Begin, socketVars, childVars, IInv, ShowsFiltered,
             OneEvaluation, WhereOutputGoes
  <1>5. CASE Output(texts + 1)
    BY <1>5
      DEF Output, Printing, childVars, IInv, ShowsFiltered, OneEvaluation,
             WhereOutputGoes
  <1>6. CASE OutputPipe(texts + 1)
    BY <1>6
      DEF OutputPipe, Printing, childVars, IInv, ShowsFiltered, OneEvaluation,
             WhereOutputGoes
  <1>7. CASE OutputBlocks
    BY <1>7
      DEF OutputBlocks, socketVars, childVars, ghosts, IInv, ShowsFiltered,
             OneEvaluation, WhereOutputGoes
  <1>8. CASE OutputEpipe
    BY <1>8
      DEF OutputEpipe, Printing, childVars, IInv, ShowsFiltered, OneEvaluation,
             WhereOutputGoes
  <1>9. CASE OutputError
    BY <1>9
      DEF OutputError, Printing, childVars, IInv, ShowsFiltered, OneEvaluation,
             WhereOutputGoes
  <1>10. CASE OutputElsewhere
    BY <1>10
      DEF OutputElsewhere, Printing, childVars, IInv, ShowsFiltered,
             OneEvaluation, WhereOutputGoes
  <1>11. CASE Returning
    BY <1>11, ReturnEffect
      DEF IInv, ShowsFiltered, OneEvaluation, WhereOutputGoes
  <1>12. CASE PostStart
    BY <1>12
      DEF PostStart, EndsInput, childVars, ghosts, IInv, ShowsFiltered,
             OneEvaluation, WhereOutputGoes
  <1>13. CASE PollReady
    BY <1>13
      DEF PollReady, socketVars, childVars, ghosts, IInv, ShowsFiltered,
             OneEvaluation, WhereOutputGoes
  <1>14. CASE ReadText
    BY <1>14
      DEF ReadText, Reading, childVars, IInv, ShowsFiltered, OneEvaluation,
             WhereOutputGoes
  <1>15. CASE ReadReset
    BY <1>15
      DEF ReadReset, Reading, childVars, IInv, ShowsFiltered, OneEvaluation,
             WhereOutputGoes
  <1>16. CASE ReadEof
    BY <1>16
      DEF ReadEof, Reading, AfterDrain, childVars, IInv, ShowsFiltered,
             OneEvaluation, WhereOutputGoes
  <1>17. CASE Kill
    BY <1>17
      DEF Kill, socketVars, ghosts, IInv, ShowsFiltered, OneEvaluation,
             WhereOutputGoes
  <1>18. CASE PollTimeout
    BY <1>18
      DEF PollTimeout, AfterDrain, socketVars, childVars, IInv, ShowsFiltered,
             OneEvaluation, WhereOutputGoes
  <1>19. CASE AppOpen
    BY <1>19, FreeIsFree
      DEF AppOpen, socketVars, childVars, ghosts, IInv, ShowsFiltered,
             OneEvaluation, WhereOutputGoes
  <1>20. CASE AppClose
    BY <1>20
      DEF AppClose, socketVars, childVars, ghosts, IInv, ShowsFiltered,
             OneEvaluation, WhereOutputGoes
  <1>21. CASE FilterReads
    BY <1>21
      DEF FilterReads, parentVars, ghosts, IInv, ShowsFiltered, OneEvaluation,
             WhereOutputGoes
  <1>22. CASE FilterWrites
    BY <1>22
      DEF FilterWrites, parentVars, ghosts, IInv, ShowsFiltered, OneEvaluation,
             WhereOutputGoes
  <1>23. CASE \E status \in {"exited", "failed"} : FilterExits(status)
    BY <1>23
      DEF FilterExits, parentVars, ghosts, IInv, ShowsFiltered, OneEvaluation,
             WhereOutputGoes
  <1>24. CASE UNCHANGED vars
    BY <1>24
      DEF vars, parentVars, socketVars, childVars, ghosts, IInv, ShowsFiltered,
             OneEvaluation, WhereOutputGoes
  <1> QED
    BY <1>1, <1>2, <1>3, <1>4, <1>5, <1>6, <1>7, <1>8, <1>9, <1>10, <1>11,
           <1>12, <1>13, <1>14, <1>15, <1>16, <1>17, <1>18, <1>19, <1>20,
           <1>21, <1>22, <1>23, <1>24
      DEF Next, Callback, Outputs, Post, Filter, Returning

(* The invariant is inductive. *)
LEMMA InitiallyInv == Init => IInv
  <1> SUFFICES ASSUME Init PROVE IInv
    OBVIOUS
  <1>1. ControlTypes
    BY DEF Init, ControlTypes, Phases, Processes, Owners
  <1>2. TextTypes
    <2>1. << >> \in Seq(Int) /\ Garbage \in Int
      BY DEF Garbage
    <2> QED
      BY <2>1 DEF Init, TextTypes
  <1>3. OneEvaluation /\ OnePipe /\ WhereOutputGoes /\ EndIsEnd
    BY DEF Init, OneEvaluation, OnePipe, WhereOutputGoes, EndIsEnd
  <1>4. ShowsFiltered
    BY DEF Init, ShowsFiltered
  <1> QED
    BY <1>1, <1>2, <1>3, <1>4 DEF IInv

(* IInv holds in every state. *)
LEMMA AlwaysInv == Spec => []IInv
  <1>1. IInv /\ [Next]_vars => IInv'
    <2> SUFFICES ASSUME IInv, [Next]_vars PROVE IInv'
      OBVIOUS
    <2> QED
      BY ControlTypesStep, TextTypesStep, OneEvaluationStep, OnePipeStep,
         WhereOutputGoesStep, EndIsEndStep, ShowsFilteredStep DEF IInv
  <1> QED
    BY InitiallyInv, <1>1, PTL DEF Spec

----------------------------------------------------------------------------
(***************************************************************************)
(* Until a write fails or the evaluation is disturbed, stdout shows what   *)
(* the filter wrote and nothing else, in that order, without a gap         *)
(* (cligen_output, cligen_eval_pipe_post).                                 *)
(***************************************************************************)
THEOREM FilteredCorrect == Spec => []ShowsFiltered
  <1>1. IInv => ShowsFiltered
    BY DEF IInv
  <1> QED
    BY AlwaysInv, <1>1, PTL

(***************************************************************************)
(* When an undisturbed piped evaluation returns 0, the filter was waited   *)
(* for, PIPE_OUTPUT_SOCKET is reset, all that the filter wrote was printed *)
(* and it exited with status 0; or it was given up for its silence, and    *)
(* what it wrote was printed or is in the socket (cligen_eval_pipe_post).  *)
(***************************************************************************)
THEOREM SuccessCorrect == Spec => SuccessIsComplete
  <1> DEFINE Success == spipe # NoFd /\ spipe' = NoFd /\ retval' = 0 /\ ~cut
             Complete ==
                 /\ zombies' = zombies /\ outSocket' = NoFd
                 /\ IF late THEN out \o toParent = wrote /\ child # "running"
                            ELSE out = wrote /\ child = "exited"
  <1>1. ASSUME IInv, [Next]_vars, Success
        PROVE  Complete
    <2>1. Reap
      <3>1. ~ UNCHANGED vars
        BY <1>1 DEF vars, parentVars
      <3>2. Next
        BY <1>1, <3>1
      <3>3. EvalPlain \/ EvalNoSocket \/ EvalNoFork => spipe' = spipe
        BY DEF EvalPlain, EvalNoSocket, EvalNoFork
      <3>4. ~ EvalPiped
        BY <1>1 DEF EvalPiped, Begin, IInv, OneEvaluation
      <3>5. Outputs => spipe' = spipe
        BY DEF Outputs, Output, OutputPipe, OutputBlocks, OutputEpipe,
               OutputError, OutputElsewhere, Printing
      <3>6. ~ (CallbackFails \/ Interrupted)
        BY <1>1 DEF CallbackFails, Interrupted, Return
      <3>7. ~ CallbackPlain
        BY <1>1 DEF CallbackPlain, IInv, OneEvaluation
      <3>8. PostStart \/ PollReady \/ ReadText \/ ReadReset \/ ReadEof \/ Kill
              \/ PollTimeout => spipe' = spipe
        BY DEF PostStart, PollReady, ReadText, ReadReset, ReadEof, Reading,
               Kill, PollTimeout
      <3>9. AppOpen \/ AppClose \/ Filter => spipe' = spipe
        BY DEF AppOpen, AppClose, Filter, FilterReads, FilterWrites,
               FilterExits, parentVars
      <3> QED
        BY <1>1, <3>2, <3>3, <3>4, <3>5, <3>6, <3>7, <3>8, <3>9
          DEF Next, Callback, Post
    <2>2. /\ child # "running"
          /\ ~late => child = "exited" /\ toParent = << >>
      BY <1>1, <2>1 DEF Reap, Return, StatusOf, IInv, EndIsEnd
    <2>3. /\ out \o toParent = wrote
          /\ ~late => out = wrote
      <3>1. out \o toParent = wrote
        BY <1>1 DEF IInv, ShowsFiltered
      <3>2. toParent = << >> => out \o toParent = out
        BY DEF IInv, TextTypes
      <3> QED
        BY <2>2, <3>1, <3>2
    <2>4. zombies' = zombies /\ outSocket' = NoFd
      BY <1>1, <2>1 DEF Reap, Return, IInv, WhereOutputGoes
    <2> QED
      BY <2>2, <2>3, <2>4
  <1>2. IInv /\ [Next]_vars => [Success => Complete]_vars
    BY <1>1
  <1> QED
    BY AlwaysInv, <1>2, PTL DEF Spec, SuccessIsComplete

(* The descriptors that change owner in a step. *)
LEMMA AppKeepsDescriptor ==
    ASSUME IInv, [Next]_vars, ~ AppClose, ~ cut,
           NEW f \in Fd, fds[f] = "app"
    PROVE  fds'[f] = "app"
  <1>1. CASE EvalPiped \/ EvalNoFork \/ AppOpen
    <2>1. ASSUME NEW s \in Fd, fds[s] = "free" PROVE s # f
      BY <2>1
    <2>2. CASE EvalPiped
      BY <2>1, <2>2, FreeIsFree DEF EvalPiped, IInv, ControlTypes
    <2>3. CASE EvalNoFork
      BY <2>1, <2>3, FreeIsFree DEF EvalNoFork, IInv, ControlTypes
    <2>4. CASE AppOpen
      BY <2>1, <2>4, FreeIsFree DEF AppOpen, IInv, ControlTypes
    <2> QED
      BY <1>1, <2>2, <2>3, <2>4
  <1>2. CASE OutputError
    <2>1. fds[outSocket] # "app"
      BY <1>2 DEF OutputError, IInv, OnePipe, OnPipe
    <2> QED
      BY <1>2, <2>1 DEF OutputError, IInv, ControlTypes
  <1>3. CASE Returning
    <2>1. spipe # NoFd => fds[spipe] = "pipe"
      BY DEF IInv, OnePipe
    <2>2. f # spipe
      BY <2>1, NoFdIsNone
    <2> QED
      BY <1>3, <2>2, ReturnEffect
  <1>4. CASE EvalPlain \/ EvalNoSocket \/ PollTimeout
    BY <1>4 DEF EvalPlain, EvalNoSocket, PollTimeout
  <1>5. CASE Output(texts + 1) \/ OutputPipe(texts + 1) \/ OutputBlocks
               \/ OutputEpipe \/ OutputElsewhere
    BY <1>5 DEF Output, OutputPipe, OutputBlocks, OutputEpipe, OutputElsewhere
  <1>6. CASE PostStart \/ PollReady \/ ReadText \/ ReadReset \/ ReadEof \/ Kill
    BY <1>6 DEF PostStart, PollReady, ReadText, ReadReset, ReadEof, Reading, Kill
  <1>7. CASE Filter
    BY <1>7 DEF Filter, FilterReads, FilterWrites, FilterExits, parentVars
  <1>8. CASE UNCHANGED vars
    BY <1>8 DEF vars, parentVars
  <1> QED
    BY <1>1, <1>2, <1>3, <1>4, <1>5, <1>6, <1>7, <1>8
      DEF Next, Callback, Outputs, Post, Returning

(***************************************************************************)
(* Between evaluations the handle has no socket and no socket of a pipe is *)
(* open; PIPE_OUTPUT_SOCKET is set then only if a filter was left behind;  *)
(* and cligen_eval takes a descriptor from the application only in an      *)
(* evaluation that was disturbed (cligen_eval, cligen_output).             *)
(***************************************************************************)
THEOREM DescriptorsCorrect == Spec => KeepsDescriptors
  <1> DEFINE Idle == phase = "idle" =>
                         chSpipe = NoFd /\ \A f \in Fd : fds[f] # "pipe"
             Forgotten == spipe = NoFd /\ outSocket # NoFd => zombies > 0
             Keeps == \A f \in Fd :
                          fds[f] = "app" /\ fds'[f] # "app" => AppClose \/ cut
  <1>1. IInv => Idle
    BY NoFdIsNone DEF IInv, OneEvaluation, OnePipe
  <1>2. IInv => Forgotten
    BY DEF IInv, WhereOutputGoes
  <1>3. IInv /\ [Next]_vars => [Keeps]_vars
    BY AppKeepsDescriptor
  <1> QED
    BY AlwaysInv, <1>1, <1>2, <1>3, PTL DEF Spec, KeepsDescriptors

=============================================================================
