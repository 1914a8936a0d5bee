--------------------------- MODULE TerminalProofs ----------------------------
(***************************************************************************)
(* What gl_select waits for, for any descriptors and callbacks and any     *)
(* number of events; what the pager writes, for any texts, windows and     *)
(* answers; and what the editor draws, for any keys, lines, prompts and    *)
(* windows: WaitsForWanted, AllIsShown, PageFits and ScreenShowsLine are   *)
(* invariants of Terminal.                                                 *)
(*                                                                         *)
(* As long as no gap was closed the array has one entry for each           *)
(* registration.  Inside of the loop, whatever was served is at an entry   *)
(* before the one whose turn it is, unless the loop is over: a callback    *)
(* can only take away the last entry, and what it adds comes behind.       *)
(*                                                                         *)
(* What the pager has written and what is left of the call is what it was  *)
(* given.  It writes on for as long as the column that the text has        *)
(* reached is inside of the row, in one call and in the next, and a line   *)
(* count below zero means that the user has ended it.                      *)
(*                                                                         *)
(* A page fits because the pager reckons as the terminal does: the cursor  *)
(* is where the pager's column and number of lines say, except that behind *)
(* a full row it has not gone down yet.  The question, which may need more *)
(* than one row itself, is asked only at the start of a row and leaves     *)
(* the cursor there.                                                       *)
(*                                                                         *)
(* The row is right because gl_fixup knows it: Shown says what is in each  *)
(* column behind the prompt when it knows the line, and what it writes     *)
(* makes that true of the next line.  Only the columns that it does not    *)
(* write must be looked at: those before the change, which were right, and *)
(* those behind it, which are right if as much was put in as taken out, if *)
(* the old line ended before them or if the padding erased them.           *)
(***************************************************************************)
EXTENDS Terminal, FiniteSetTheorems, SequenceTheorems, WellFoundedInduction, TLAPS

Entries == [fd : Fd, cb : Callback]
Wants(x) == {<<x[i].fd, x[i].cb>> : i \in DOMAIN x}
Distinct(x) == \A i, j \in DOMAIN x : x[i].fd = x[j].fd => i = j
ServedOnce(s) == \A i, j \in DOMAIN s : s[i][1] = s[j][1] => i = j
Before(x, n, s) ==
    n > 0 /\ n <= Len(x) =>
        \A j \in DOMAIN s : \E i \in DOMAIN x : i < n /\ x[i].fd = s[j][1]

Registers ==
    /\ extfds \in Seq(Entries)
    /\ Distinct(extfds)
    /\ wanted = Wants(extfds)

Serves ==
    /\ next \in Nat
    /\ served \in Seq(Fd \X Callback)
    /\ ServedOnce(served)
    /\ Before(extfds, next, served)

Watches ==
    /\ gap \in BOOLEAN
    /\ ~gap => Registers /\ Serves
    /\ phase # "select" => next = 0

\* What a registration leaves of the entries
Stays == \A i \in DOMAIN extfds \cap DOMAIN extfds' : extfds'[i].fd = extfds[i].fd

----------------------------------------------------------------------------
LEMMA UniquePlace ==
    ASSUME Registers, NEW p \in DOMAIN extfds
    PROVE  /\ S!Places(extfds[p].fd) = {p}
           /\ S!First(extfds[p].fd) = p
<1>1. S!Places(extfds[p].fd) = {p}
  BY DEF Registers, Distinct, S!Places
<1>2. p \in Nat
  BY DEF Registers
<1>. QED
  BY <1>1, <1>2 DEF S!First

\* gl_regfd keeps the descriptors where they are
LEMMA RegKeeps ==
    ASSUME Registers, gap = FALSE, NEW fd \in Fd, NEW cb \in Callback, S!gl_regfd(fd, cb)
    PROVE  Registers' /\ Stays /\ gap' = FALSE
<1>1. gap' = FALSE /\ extfds' = S!Registered(fd, cb)
      /\ wanted' = {w \in wanted : w[1] # fd} \cup {<<fd, cb>>}
  BY DEF S!gl_regfd
<1>. DEFINE e == [fd |-> fd, cb |-> cb]
<1>0. e \in Entries /\ extfds \in Seq(Entries)
  BY DEF Registers, Entries
<1>2. CASE S!Places(fd) = {}
  <2>1. extfds' = Append(extfds, e)
    BY <1>1, <1>2 DEF S!Registered, S!Entry
  <2>2. /\ extfds' \in Seq(Entries) /\ Len(extfds') = Len(extfds) + 1
        /\ extfds'[Len(extfds) + 1] = e
        /\ \A i \in DOMAIN extfds : extfds'[i] = extfds[i]
        /\ DOMAIN extfds' = DOMAIN extfds \cup {Len(extfds) + 1}
    BY <1>0, <2>1
  <2>3. \A i \in DOMAIN extfds : extfds[i].fd # fd
    BY <1>2 DEF S!Places
  <2>4. Distinct(extfds')
    BY <2>2, <2>3 DEF Distinct, Registers
  <2>5. {w \in wanted : w[1] # fd} = wanted
    BY <2>3 DEF Registers, Wants
  <2>6. Wants(extfds') = Wants(extfds) \cup {<<fd, cb>>}
    BY <2>2 DEF Wants
  <2>. QED
    BY <1>1, <2>2, <2>4, <2>5, <2>6 DEF Registers, Stays
<1>3. CASE S!Places(fd) # {}
  <2>1. PICK p \in DOMAIN extfds : extfds[p].fd = fd
    BY <1>3 DEF S!Places
  <2>2. S!First(fd) = p
    BY <2>1, UniquePlace
  <2>3. extfds' = [extfds EXCEPT ![p].cb = cb]
    BY <1>1, <1>3, <2>2 DEF S!Registered
  <2>4. extfds[p] \in Entries
    BY <1>0, <2>1
  <2>5. /\ extfds' \in Seq(Entries) /\ Len(extfds') = Len(extfds)
        /\ DOMAIN extfds' = DOMAIN extfds
        /\ \A i \in DOMAIN extfds : i # p => extfds'[i] = extfds[i]
        /\ extfds'[p].fd = fd /\ extfds'[p].cb = cb
    BY <1>0, <2>1, <2>3, <2>4 DEF Entries
  <2>6. \A i \in DOMAIN extfds : extfds'[i].fd = extfds[i].fd
    BY <2>1, <2>5
  <2>7. Distinct(extfds')
    BY <2>5, <2>6 DEF Distinct, Registers
  <2>8. \A i \in DOMAIN extfds : extfds[i].fd = fd => i = p
    BY <2>1 DEF Registers, Distinct
  <2>9. {w \in wanted : w[1] # fd} = {<<extfds[i].fd, extfds[i].cb>> : i \in DOMAIN extfds \ {p}}
    BY <2>1, <2>8 DEF Registers, Wants
  <2>10. Wants(extfds') = {<<extfds[i].fd, extfds[i].cb>> : i \in DOMAIN extfds \ {p}} \cup {<<fd, cb>>}
    BY <2>1, <2>5 DEF Wants
  <2>. QED
    BY <1>1, <2>5, <2>6, <2>7, <2>9, <2>10 DEF Registers, Stays
<1>. QED
  BY <1>2, <1>3

\* gl_unregfd of the last entry takes it away
LEMMA UnregKeeps ==
    ASSUME Registers, NEW fd \in Fd, S!gl_unregfd(fd), gap' = FALSE
    PROVE  Registers' /\ Stays
<1>0. extfds \in Seq(Entries)
  BY DEF Registers
<1>1. PICK p \in DOMAIN extfds : extfds[p].fd = fd
  BY DEF S!gl_unregfd, S!Places
<1>2. S!First(fd) = p
  BY <1>1, UniquePlace
<1>3. p = Len(extfds) /\ extfds' = Front(extfds)
      /\ wanted' = {w \in wanted : w[1] # fd}
  BY <1>2 DEF S!gl_unregfd, S!Closed, S!Front, Front
<1>4. /\ extfds' \in Seq(Entries) /\ Len(extfds') = p - 1
      /\ DOMAIN extfds' = DOMAIN extfds \ {p}
      /\ \A i \in DOMAIN extfds' : extfds'[i] = extfds[i]
  BY <1>0, <1>1, <1>3 DEF Front
<1>5. Distinct(extfds')
  BY <1>4 DEF Registers, Distinct
<1>6. \A i \in DOMAIN extfds : extfds[i].fd = fd => i = p
  BY <1>1 DEF Registers, Distinct
<1>7. wanted' = {<<extfds[i].fd, extfds[i].cb>> : i \in DOMAIN extfds \ {p}}
  BY <1>1, <1>3, <1>6 DEF Registers, Wants
<1>8. Wants(extfds') = {<<extfds[i].fd, extfds[i].cb>> : i \in DOMAIN extfds \ {p}}
  BY <1>4 DEF Wants
<1>. QED
  BY <1>4, <1>5, <1>7, <1>8 DEF Registers, Stays

\* What a callback does to the array
LEMMA EffectKeeps ==
    ASSUME Registers, gap \in BOOLEAN, S!Effect, gap' = FALSE
    PROVE  Registers' /\ Stays
<1>1. CASE \E fd \in Fd, cb \in Callback : S!gl_regfd(fd, cb)
  <2>1. PICK fd \in Fd, cb \in Callback : S!gl_regfd(fd, cb)
    BY <1>1
  <2>2. gap = FALSE
    BY <2>1 DEF S!gl_regfd
  <2>. QED
    BY <2>1, <2>2, RegKeeps
<1>2. CASE \E fd \in Fd : S!gl_unregfd(fd)
  BY <1>2, UnregKeeps
<1>3. CASE UNCHANGED <<extfds, wanted, gap>>
  BY <1>3 DEF Registers, Stays
<1>. QED
  BY <1>1, <1>2, <1>3 DEF S!Effect

\* The entry whose turn it is was not served, and is behind what was
LEMMA CallKeeps ==
    ASSUME Registers, Serves, gap \in BOOLEAN, S!Call, gap' = FALSE
    PROVE  Registers' /\ Serves'
<1>. DEFINE it == <<extfds[next].fd, extfds[next].cb>>
<1>1. /\ next \in DOMAIN extfds /\ next > 0 /\ next <= Len(extfds)
      /\ served' = Append(served, it) /\ next' = next + 1
      /\ S!Effect
  BY DEF Registers, S!Call, S!Due, S!Turn
<1>2. Registers' /\ Stays
  BY <1>1, EffectKeeps
<1>3. extfds[next] \in Entries /\ it \in Fd \X Callback /\ it[1] = extfds[next].fd
  <2>1. extfds[next] \in Entries
    BY <1>1 DEF Registers
  <2>. QED
    BY <2>1 DEF Entries
<1>4. /\ served' \in Seq(Fd \X Callback) /\ Len(served') = Len(served) + 1
      /\ DOMAIN served' = DOMAIN served \cup {Len(served) + 1}
      /\ served'[Len(served) + 1] = it
      /\ \A j \in DOMAIN served : served'[j] = served[j]
  BY <1>1, <1>3 DEF Serves
<1>5. \A j \in DOMAIN served : \E i \in DOMAIN extfds : i < next /\ extfds[i].fd = served[j][1]
  BY <1>1 DEF Serves, Before
<1>6. \A j \in DOMAIN served : served[j][1] # it[1]
  <2>. SUFFICES ASSUME NEW j \in DOMAIN served, served[j][1] = it[1] PROVE FALSE
    OBVIOUS
  <2>1. PICK i \in DOMAIN extfds : i < next /\ extfds[i].fd = served[j][1]
    BY <1>5
  <2>2. i = next
    BY <1>1, <1>3, <2>1 DEF Registers, Distinct
  <2>. QED
    BY <1>1, <2>1, <2>2 DEF Serves
<1>7. ServedOnce(served')
  BY <1>4, <1>6 DEF Serves, ServedOnce
<1>8. Before(extfds', next', served')
  <2>. SUFFICES ASSUME next + 1 <= Len(extfds'), NEW j \in DOMAIN served'
                PROVE  \E i \in DOMAIN extfds' : i < next + 1 /\ extfds'[i].fd = served'[j][1]
    BY <1>1 DEF Before
  <2>0. next \in Nat /\ extfds \in Seq(Entries) /\ extfds' \in Seq(Entries)
    BY <1>2 DEF Serves, Registers
  <2>1. \A i \in DOMAIN extfds : i <= next => i \in DOMAIN extfds' /\ extfds'[i].fd = extfds[i].fd
    BY <1>2, <2>0 DEF Stays
  <2>2. CASE j \in DOMAIN served
    <3>1. PICK i \in DOMAIN extfds : i < next /\ extfds[i].fd = served[j][1]
      BY <1>5, <2>2
    <3>2. i \in DOMAIN extfds' /\ extfds'[i].fd = served'[j][1] /\ i < next + 1
      BY <1>4, <2>0, <2>1, <2>2, <3>1
    <3>. QED
      BY <3>2
  <2>3. CASE j = Len(served) + 1
    <3>1. next \in DOMAIN extfds' /\ extfds'[next].fd = served'[j][1] /\ next < next + 1
      BY <1>1, <1>3, <1>4, <2>0, <2>1, <2>3
    <3>. QED
      BY <3>1
  <2>. QED
    BY <1>4, <2>2, <2>3
<1>. QED
  BY <1>1, <1>2, <1>4, <1>7, <1>8 DEF Serves

----------------------------------------------------------------------------
\* Registrations of the application, outside of the loop
LEMMA RegisterKeeps == Watches /\ Register => Watches'
<1>. SUFFICES ASSUME Watches, Register PROVE Watches'
  OBVIOUS
<1>1. /\ phase = "command" /\ phase' = phase /\ next' = next /\ served' = served /\ next = 0
      /\ S!Effect /\ gap' \in BOOLEAN
  BY DEF Watches, Register, CanCommand, S!Effect, S!gl_regfd, S!gl_unregfd
<1>2. ASSUME gap' = FALSE PROVE gap = FALSE /\ Registers' /\ Serves'
  <2>1. gap = FALSE
    BY <1>1, <1>2 DEF Watches, S!Effect, S!gl_regfd, S!gl_unregfd
  <2>2. Registers'
    BY <1>1, <1>2, <2>1, EffectKeeps DEF Watches
  <2>. QED
    BY <1>1, <2>1, <2>2 DEF Watches, Serves, Before
<1>. QED
  BY <1>1, <1>2 DEF Watches

\* The result of a select: nothing is served yet
LEMMA SelectReturnsKeeps == Watches /\ SelectReturns => Watches'
<1>. SUFFICES ASSUME Watches, SelectReturns PROVE Watches'
  OBVIOUS
<1>1. /\ phase = "select" /\ phase' = phase /\ next' = 1 /\ served' = << >>
      /\ extfds' = extfds /\ wanted' = wanted /\ gap' = gap
  BY DEF SelectReturns, S!Returns
<1>. QED
  BY <1>1 DEF Watches, Registers, Serves, ServedOnce, Before

\* The loop is left
LEMMA LeaveKeeps ==
    ASSUME Watches, S!Leave
    PROVE  Watches'
BY DEF Watches, Registers, Serves, ServedOnce, Before, S!Leave

\* The loop is left because a callback, which may have changed the array, fails
LEMMA FailsKeeps == Watches /\ CallbackFails => Watches'
<1>. SUFFICES ASSUME Watches, CallbackFails PROVE Watches'
  OBVIOUS
<1>1. phase' # "select" /\ next' = 0 /\ served' = << >> /\ S!Effect
  BY DEF CallbackFails, S!Fails
<1>2. gap' \in BOOLEAN /\ (gap' = FALSE => gap = FALSE)
  BY <1>1 DEF Watches, S!Effect, S!gl_regfd, S!gl_unregfd
<1>3. ASSUME gap' = FALSE PROVE Registers' /\ Serves'
  <2>1. Registers'
    BY <1>1, <1>2, <1>3, EffectKeeps DEF Watches
  <2>. QED
    BY <1>1, <2>1 DEF Registers, Serves, ServedOnce, Before
<1>. QED
  BY <1>1, <1>2, <1>3 DEF Watches

\* A turn of the loop
LEMMA CallbacksKeep == Watches /\ Callbacks => Watches'
<1>. SUFFICES ASSUME Watches, Callbacks PROVE Watches'
  OBVIOUS
<1>1. CASE S!Call /\ UNCHANGED phase
  <2>1. gap' \in BOOLEAN /\ (gap' = FALSE => gap = FALSE)
    BY <1>1 DEF Watches, S!Call, S!Effect, S!gl_regfd, S!gl_unregfd
  <2>2. gap' = FALSE => Registers' /\ Serves'
    BY <1>1, <2>1, CallKeeps DEF Watches
  <2>. QED
    BY <1>1, <2>1, <2>2 DEF Watches, Callbacks
<1>2. CASE S!Pass /\ UNCHANGED phase
  <2>1. /\ extfds' = extfds /\ wanted' = wanted /\ gap' = gap /\ served' = served
        /\ next' = next + 1 /\ phase' = "select"
    BY <1>2 DEF S!Pass, Callbacks
  <2>2. ~gap => Before(extfds, next + 1, served)
    BY DEF Watches, Registers, Serves, Before, Callbacks
  <2>. QED
    BY <2>1, <2>2 DEF Watches, Registers, Serves
<1>3. CASE S!Leave
  BY <1>3, LeaveKeeps
<1>. QED
  BY <1>1, <1>2, <1>3 DEF Callbacks

\* WaitsForWanted needs Watches
LEMMA WatchesInductive == Spec => []Watches
<1>1. Init => Watches
  <2>. SUFFICES ASSUME Init PROVE Watches
    OBVIOUS
  <2>1. extfds = << >> /\ wanted = {} /\ gap = FALSE /\ next = 0 /\ served = << >>
    BY DEF Init, S!SelectInit
  <2>2. << >> \in Seq(Entries) /\ << >> \in Seq(Fd \X Callback) /\ DOMAIN << >> = {}
    OBVIOUS
  <2>3. Registers
    BY <2>1, <2>2 DEF Registers, Distinct, Wants
  <2>4. Serves
    BY <2>1, <2>2 DEF Serves, ServedOnce, Before
  <2>. QED
    BY <2>1, <2>3, <2>4 DEF Watches
<1>2. Watches /\ [Next]_vars => Watches'
  <2>. SUFFICES ASSUME Watches, [Next]_vars PROVE Watches'
    OBVIOUS
  <2>1. CASE Register
    BY <2>1, RegisterKeeps
  <2>2. CASE SelectReturns
    BY <2>2, SelectReturnsKeeps
  <2>3. CASE Callbacks
    BY <2>3, CallbacksKeep
  <2>4. CASE CallbackFails
    BY <2>4, FailsKeeps
  <2>5. ASSUME UNCHANGED watching, phase' = "select" => next = 0 \/ phase = "select",
               phase' # "select" => next = 0
        PROVE  Watches'
    BY <2>5 DEF Watches, watching, Registers, Serves
  <2>6. CASE Output \/ Page
    BY <2>5, <2>6 DEF Output, Page, Watches
  <2>7. CASE GetLine \/ KeyRead \/ EndLine
    BY <2>5, <2>7 DEF GetLine, KeyRead, EndLine, CanCommand, Watches
  <2>8. CASE Winch
    BY <2>5, <2>8 DEF Winch, Watches
  <2>9. CASE UNCHANGED vars
    BY <2>5, <2>9 DEF vars, Watches
  <2>. QED
    BY <2>1, <2>2, <2>3, <2>4, <2>6, <2>7, <2>8, <2>9 DEF Next
<1>. QED
  BY <1>1, <1>2, PTL DEF Spec

\* There are as many entries as registrations
LEMMA AsManyAsWanted ==
    ASSUME Registers
    PROVE  Len(extfds) = Cardinality(wanted)
<1>. DEFINE f == [i \in 1 .. Len(extfds) |-> <<extfds[i].fd, extfds[i].cb>>]
<1>1. Len(extfds) \in Nat /\ DOMAIN extfds = 1 .. Len(extfds)
  BY DEF Registers
<1>2. f \in [1 .. Len(extfds) -> wanted]
  BY <1>1 DEF Registers, Wants
<1>3. \A i, j \in 1 .. Len(extfds) : f[i] = f[j] => i = j
  BY <1>1 DEF Registers, Distinct
<1>4. \A w \in wanted : \E i \in 1 .. Len(extfds) : f[i] = w
  BY <1>1 DEF Registers, Wants
<1>5. f \in Bijection(1 .. Len(extfds), wanted)
  BY <1>2, <1>3, <1>4 DEF Bijection, Injection, Surjection, IsInjective
<1>6. ExistsBijection(1 .. Len(extfds), wanted)
  BY <1>5 DEF ExistsBijection
<1>. QED
  BY <1>1, <1>6, FS_CountingElements

\* gl_select waits for what is registered, and calls each callback for its own
\* descriptor, once for a result of select, as long as no gap was closed
THEOREM WaitsCorrect == Spec => []WaitsForWanted
<1>1. Watches => WaitsForWanted
  BY AsManyAsWanted DEF Watches, WaitsForWanted, Registers, Wants, Serves, ServedOnce
<1>. QED
  BY <1>1, WatchesInductive, PTL

----------------------------------------------------------------------------
(***************************************************************************)
(* The pager: what is written and what is left is what was given.          *)
(***************************************************************************)

Calls == [left : Seq(STRING), remain : Int, linelen : Int, rows : Int]

\* Whatever the window, a call is the text that is left and its position
PagerTypes ==
    /\ termw \in Nat \ {0} /\ rows \in Nat
    /\ dLines \in Int /\ dColumns \in Int /\ given \in Nat /\ shown \in Nat
    /\ quit \in BOOLEAN /\ asks \in BOOLEAN
    /\ call \in Calls
    /\ call.rows <= 0 => call \in {P!NoCall, P!Crash}
    /\ asks => call.rows > 0

\* The column that the text has reached is inside of the row
InsideOfRow ==
    /\ call # P!Crash
    /\ dColumns \in 0 .. OutputWidth - 1
    /\ given = 0 => dColumns = 0
    /\ call.rows > 0 =>
         /\ call.remain >= 1 /\ call.remain <= call.linelen
         /\ IF given = 0 THEN call.left = << >> /\ call.remain = call.linelen
            ELSE call.linelen <= OutputWidth

\* As long as the user has not ended it
NothingDropped ==
    /\ dLines >= 0
    /\ asks /\ call.rows > 1 => dLines >= 1
    /\ shown + Len(call.left) = given

Pages == PagerTypes /\ (window # "narrower" => InsideOfRow /\ (~quit => NothingDropped))

LEMMA NotACall ==
    /\ P!NoCall \in Calls /\ P!NoCall.rows = 0 /\ P!NoCall.left = << >> /\ Len(P!NoCall.left) = 0
    /\ P!Crash \in Calls /\ P!Crash.rows = -1 /\ P!NoCall # P!Crash
<1>1. << >> \in Seq(STRING) /\ Len(<< >>) = 0
  BY EmptySeq
<1>2. P!Crash = [left |-> << >>, remain |-> 0, linelen |-> 0, rows |-> -1]
  BY DEF P!Crash, P!NoCall
<1>. QED
  BY <1>1, <1>2 DEF P!NoCall, Calls

LEMMA LeastNumber ==
    ASSUME NEW T, T \subseteq Nat, T # {}
    PROVE  P!Min(T) \in T /\ \A m \in T : P!Min(T) <= m
<1>. DEFINE Less == {ss \in Nat \X Nat : ss[1] < ss[2]}
<1>1. IsWellFoundedOn(Less, Nat)
  <2>1. OpToRel(<, Nat) = Less
    BY Zenon DEF OpToRel
  <2>. QED
    BY <2>1, NatLessThanWellFounded, Zenon
<1>. HIDE DEF Less
<1>2. PICK n \in T : \A m \in T : <<m, n>> \notin Less
  BY <1>1, WFMin, Zenon
<1>3. \A m \in T : m \in Nat /\ n \in Nat /\ ~(m < n)
  <2>. SUFFICES ASSUME NEW m \in T PROVE m \in Nat /\ n \in Nat /\ ~(m < n)
    OBVIOUS
  <2>1. <<m, n>> \notin Less /\ m \in Nat /\ n \in Nat
    BY <1>2
  <2>. QED
    BY <2>1 DEF Less
<1>4. n \in T /\ \A m \in T : n <= m
  BY <1>3
<1>5. P!Min(T) = CHOOSE x \in T : \A m \in T : x <= m
  BY Zenon DEF P!Min
<1>. QED
  BY <1>4, <1>5, Zenon

LEMMA LesserNumber ==
    ASSUME NEW a \in Int, NEW b \in Int
    PROVE  /\ P!Min({a, b}) = IF a <= b THEN a ELSE b
           /\ Max({a, b}) = IF a >= b THEN a ELSE b
BY DEF P!Min, Max

LEMMA WidthIsPositive ==
    ASSUME PagerTypes
    PROVE  OutputWidth \in Nat \ {0}
BY DEF PagerTypes, OutputWidth

LEMMA WidthOfWindow ==
    ASSUME NEW w \in Windows
    PROVE  WidthFor(w[1]) \in Nat \ {0} /\ w[2] \in Nat
<1>1. w[1] \in Nat \ {0} /\ w[2] \in Nat /\ MinWidth \in Nat \ {0}
  BY TerminalAssumption
<1>2. \A c \in Nat \ {0} : WidthFor(c) \in Nat \ {0}
  <2>. SUFFICES ASSUME NEW c \in Nat \ {0} PROVE WidthFor(c) \in Nat \ {0}
    OBVIOUS
  <2>1. c \in Int /\ MinWidth \in Int
    BY <1>1
  <2>2. Max({c, MinWidth}) = IF c >= MinWidth THEN c ELSE MinWidth
    BY <2>1, LesserNumber
  <2>. QED
    BY <1>1, <2>2 DEF WidthFor
<1>. QED
  BY <1>1, <1>2

\* A piece of the text, in the rest of the row
LEMMA PieceFits ==
    ASSUME call.left \in Seq(STRING), call.left # << >>,
           call.remain \in Int, call.remain >= 1 \/ P!Taken > 0
    PROVE  /\ call.remain >= 1 /\ P!Taken \in 1 .. Len(call.left)
           /\ ~P!EndsRow => P!Taken = Len(call.left) /\ Len(call.left) < call.remain
<1>1. Len(call.left) \in Nat /\ Len(call.left) >= 1 /\ DOMAIN call.left = 1 .. Len(call.left)
  BY EmptySeq
<1>2. P!RowEnds \subseteq 1 .. Len(call.left)
  BY <1>1 DEF P!RowEnds
<1>3. CASE P!RowEnds # {} /\ P!ToNewline - 1 < call.remain
  <2>1. P!Min(P!RowEnds) \in P!RowEnds
    <3>1. P!RowEnds \subseteq Nat
      BY <1>1, <1>2
    <3>. QED
      BY <1>3, <3>1, LeastNumber
  <2>2. P!Taken = P!Min(P!RowEnds) /\ P!ToNewline = P!Min(P!RowEnds) /\ P!EndsRow
    BY <1>3 DEF P!Taken, P!ToNewline, P!EndsRow
  <2>. QED
    <3>1. P!Taken \in 1 .. Len(call.left) /\ P!Taken - 1 < call.remain
      BY <1>2, <1>3, <2>1, <2>2
    <3>. QED
      BY <1>1, <2>2, <3>1
<1>4. CASE ~(P!RowEnds # {} /\ P!ToNewline - 1 < call.remain)
  <2>1. P!Taken = IF Len(call.left) <= call.remain THEN Len(call.left) ELSE call.remain
    BY <1>1, <1>4, LesserNumber DEF P!Taken
  <2>. QED
    BY <1>1, <2>1 DEF P!EndsRow
<1>. QED
  BY <1>3, <1>4

LEMMA ScrollKeeps ==
    ASSUME Pages, P!Scroll, UNCHANGED <<termw, rows, window>>
    PROVE  Pages'
<1>. DEFINE n == P!Taken
            rest == SubSeq(call.left, n + 1, Len(call.left))
            row == IF P!EndsRow THEN call.linelen ELSE call.remain - n
<1>1. /\ call.rows > 0 /\ ~asks /\ call.left # << >> /\ dLines >= 0 /\ n > 0
      /\ shown' = shown + n
      /\ dLines' = dLines + P!Counted
      /\ call' = [call EXCEPT !.left = rest, !.remain = row]
      /\ asks' = (dLines' >= call.rows - 1)
      /\ UNCHANGED <<dColumns, given, quit>>
  BY DEF P!Scroll, P!Calling
<1>2. PagerTypes
  BY DEF Pages
<1>3. /\ call.remain >= 1 /\ n \in 1 .. Len(call.left)
      /\ ~P!EndsRow => n = Len(call.left) /\ Len(call.left) < call.remain
  BY <1>1, <1>2, PieceFits DEF PagerTypes, Calls
<1>. HIDE DEF n
<1>4. rest \in Seq(STRING) /\ Len(rest) = Len(call.left) - n
  <2>1. call.left \in Seq(STRING) /\ Len(call.left) \in Nat /\ n \in 1 .. Len(call.left)
    BY <1>2, <1>3 DEF PagerTypes, Calls
  <2>. QED
    BY <2>1
<1>. HIDE DEF rest
<1>5. row \in Int
  BY <1>2, <1>3 DEF PagerTypes, Calls
<1>6. P!Counted \in {0, 1}
  BY DEF P!Counted
<1>. HIDE DEF row
<1>7. /\ call'.left = rest /\ call'.remain = row /\ call'.linelen = call.linelen
      /\ call'.rows = call.rows /\ call' \in Calls
  BY <1>1, <1>2, <1>4, <1>5 DEF PagerTypes, Calls
<1>8. PagerTypes'
  <2>1. dLines' \in Int /\ shown' \in Nat /\ asks' \in BOOLEAN
    BY <1>1, <1>2, <1>3, <1>6 DEF PagerTypes
  <2>2. call'.rows > 0 /\ call'.rows \in Int
    BY <1>1, <1>7 DEF Calls
  <2>. QED
    BY <1>1, <1>2, <1>7, <2>1, <2>2 DEF PagerTypes
<1>9. ASSUME window # "narrower" PROVE InsideOfRow'
  <2>1. InsideOfRow
    BY <1>9 DEF Pages
  <2>2. given # 0
    BY <1>1, <2>1 DEF InsideOfRow
  <2>3. row >= 1 /\ row <= call.linelen
    BY <1>1, <1>2, <1>3, <2>1 DEF row, InsideOfRow, PagerTypes, Calls
  <2>4. OutputWidth' = OutputWidth
    BY DEF OutputWidth
  <2>5. call' # P!Crash
    <3>1. call'.rows > 0
      BY <1>1, <1>7
    <3>2. P!Crash.rows = -1 /\ ~(-1 > 0)
      BY NotACall
    <3>. QED
      BY <3>1, <3>2
  <2>. QED
    BY <1>1, <1>7, <2>1, <2>2, <2>3, <2>4, <2>5 DEF InsideOfRow
<1>10. ASSUME window # "narrower", ~quit PROVE NothingDropped'
  <2>1. NothingDropped
    BY <1>10 DEF Pages
  <2>. QED
    <3>1. dLines' >= 0 /\ shown' + Len(call'.left) = given'
      <4>1. /\ dLines \in Int /\ shown \in Nat /\ given \in Nat /\ Len(call.left) \in Nat
            /\ n \in Int
        BY <1>2, <1>3 DEF PagerTypes, Calls
      <4>. QED
        BY <1>1, <1>4, <1>6, <1>7, <2>1, <4>1 DEF NothingDropped
    <3>2. call'.rows \in Int /\ dLines' \in Int
      BY <1>8 DEF PagerTypes, Calls
    <3>3. asks' => dLines' >= call'.rows - 1
      BY <1>1, <1>7
    <3>4. asks' /\ call'.rows > 1 => dLines' >= 1
      BY <3>2, <3>3
    <3>. QED
      BY <3>1, <3>4 DEF NothingDropped
<1>. QED
  BY <1>1, <1>8, <1>9, <1>10 DEF Pages

LEMMA ReturnKeeps ==
    ASSUME Pages, P!Return, UNCHANGED <<termw, rows, window>>
    PROVE  Pages'
<1>1. /\ call.rows > 0 /\ ~asks
      /\ IF call.left = << >> \/ dLines < 0
         THEN dColumns' = call.linelen - call.remain /\ call' = P!NoCall /\ UNCHANGED dLines
         ELSE IF call.remain = 0
         THEN dColumns' = 0 /\ call' = P!NoCall /\ dLines' = dLines + 1
         ELSE call.remain < 0 /\ call' = P!Crash /\ UNCHANGED <<dLines, dColumns>>
      /\ UNCHANGED <<asks, given, shown, quit>>
  BY DEF P!Return, P!Calling, P!ColumnReached
<1>2. PagerTypes
  BY DEF Pages
<1>3. call.remain \in Int /\ call.linelen \in Int /\ dLines \in Int
  BY <1>2 DEF PagerTypes, Calls
<1>4. call' \in {P!NoCall, P!Crash} /\ dColumns' \in Int /\ dLines' \in Int
  BY <1>1, <1>2, <1>3 DEF PagerTypes
<1>5. PagerTypes'
  <2>1. call' \in Calls
    BY <1>4, NotACall
  <2>. QED
    BY <1>1, <1>2, <1>4, <2>1 DEF PagerTypes
<1>6. ASSUME window # "narrower" PROVE InsideOfRow' /\ (~quit => NothingDropped')
  <2>1. InsideOfRow
    BY <1>6 DEF Pages
  <2>2. call.left = << >> \/ dLines < 0
    BY <1>1, <1>3, <2>1 DEF InsideOfRow
  <2>3. dColumns' = call.linelen - call.remain /\ call' = P!NoCall /\ UNCHANGED dLines
    BY <1>1, <2>2
  <2>4. OutputWidth' = OutputWidth /\ OutputWidth \in Nat \ {0}
    BY <1>2, WidthIsPositive DEF OutputWidth
  <2>5. P!NoCall # P!Crash /\ P!NoCall.rows = 0 /\ Len(P!NoCall.left) = 0
    BY NotACall
  <2>6. dColumns' \in 0 .. OutputWidth - 1 /\ (given = 0 => dColumns' = 0)
    BY <1>1, <1>2, <2>1, <2>3, <2>4 DEF InsideOfRow, PagerTypes, Calls
  <2>7. InsideOfRow'
    BY <1>1, <2>3, <2>4, <2>5, <2>6 DEF InsideOfRow
  <2>8. ASSUME ~quit PROVE NothingDropped'
    <3>1. NothingDropped
      BY <1>6, <2>8 DEF Pages
    <3>2. call.left = << >> /\ Len(call.left) = 0
      BY <1>3, <2>2, <3>1, EmptySeq DEF NothingDropped
    <3>. QED
      BY <1>1, <2>3, <2>5, <3>1, <3>2 DEF NothingDropped
  <2>. QED
    BY <2>7, <2>8
<1>. QED
  BY <1>1, <1>5, <1>6 DEF Pages

LEMMA AnswerKeeps ==
    ASSUME Pages, NEW key, NEW columns, P!Answer(key, columns), termw' \in Nat \ {0}, rows' \in Nat,
           window' # "narrower" => window # "narrower" /\ (given = 0 \/ OutputWidth' >= OutputWidth)
    PROVE  Pages'
<1>1. /\ asks /\ asks' = FALSE
      /\ dLines' = CASE key = "CR" -> dLines - 1
                     [] key = "q" -> -1
                     [] key = "?" -> dLines
                     [] OTHER -> 0
      /\ quit' = (quit \/ key = "q" \/ (key = "CR" /\ call.rows = 1))
      /\ UNCHANGED <<dColumns, call, given, shown>>
  BY DEF P!Answer
<1>2. PagerTypes
  BY DEF Pages
<1>3. dLines' \in Int
  BY <1>1, <1>2 DEF PagerTypes
<1>4. PagerTypes'
  BY <1>1, <1>2, <1>3 DEF PagerTypes
<1>5. ASSUME window' # "narrower" PROVE InsideOfRow'
  <2>1. InsideOfRow
    BY <1>5 DEF Pages
  <2>2. OutputWidth' \in Nat \ {0} /\ OutputWidth \in Nat \ {0}
    BY <1>2, WidthIsPositive DEF OutputWidth
  <2>3. given = 0 \/ OutputWidth' >= OutputWidth
    BY <1>5
  <2>4. dColumns' \in 0 .. OutputWidth' - 1
    BY <1>1, <2>1, <2>2, <2>3 DEF InsideOfRow
  <2>5. call.linelen \in Int
    BY <1>2 DEF PagerTypes, Calls
  <2>. QED
    BY <1>1, <2>1, <2>2, <2>3, <2>4, <2>5 DEF InsideOfRow
<1>6. ASSUME window' # "narrower", ~quit' PROVE NothingDropped'
  <2>1. NothingDropped /\ ~quit
    BY <1>1, <1>6 DEF Pages
  <2>2. dLines \in Int /\ dLines >= 0 /\ call.rows \in Int /\ call.rows > 0
    BY <1>1, <1>2, <2>1 DEF NothingDropped, PagerTypes, Calls
  <2>3. CASE key = "CR"
    <3>1. call.rows # 1
      BY <1>1, <1>6, <2>3
    <3>2. dLines >= 1
      BY <1>1, <2>1, <2>2, <3>1 DEF NothingDropped
    <3>. QED
      BY <1>1, <2>1, <2>2, <2>3, <3>2 DEF NothingDropped
  <2>4. CASE key # "CR"
    <3>1. key # "q"
      BY <1>1, <1>6
    <3>2. dLines' = dLines \/ dLines' = 0
      BY <1>1, <2>4, <3>1
    <3>. QED
      BY <1>1, <2>1, <2>2, <3>2 DEF NothingDropped
  <2>. QED
    BY <2>3, <2>4
<1>. QED
  BY <1>4, <1>5, <1>6 DEF Pages

LEMMA OutputKeeps == Pages /\ Output => Pages'
<1>. SUFFICES ASSUME Pages, Output PROVE Pages'
  OBVIOUS
<1>1. call = P!NoCall /\ UNCHANGED <<termw, rows, window>>
  BY DEF Output, CanCommand, redrawVars
<1>2. PICK text \in Chunks : P!cligen_output(text, OutputWidth, rows, Paging)
  BY DEF Output
<1>3. text \in Seq(STRING) /\ Len(text) \in Nat
  BY TerminalAssumption
<1>4. PagerTypes
  BY DEF Pages
<1>5. OutputWidth' = OutputWidth /\ OutputWidth \in Nat \ {0}
  BY <1>1, <1>4, WidthIsPositive DEF OutputWidth
<1>6. P!NoCall # P!Crash /\ P!NoCall.rows = 0 /\ Len(P!NoCall.left) = 0
  BY NotACall
<1>7. given' = given + Len(text)
  BY <1>2 DEF P!cligen_output
<1>8. CASE Paging /\ rows > 0
  <2>1. /\ call' = [left |-> text, remain |-> OutputWidth - dColumns,
                    linelen |-> OutputWidth, rows |-> rows]
        /\ UNCHANGED <<dLines, dColumns, asks, shown, quit>>
    BY <1>2, <1>8 DEF P!cligen_output, P!Enter
  <2>2. PagerTypes'
    <3>1. OutputWidth - dColumns \in Int /\ OutputWidth \in Int /\ rows \in Int
      BY <1>4, <1>5 DEF PagerTypes
    <3>2. call' \in Calls /\ call'.rows = rows
      BY <1>3, <2>1, <3>1 DEF Calls
    <3>3. given' \in Nat
      BY <1>3, <1>4, <1>7 DEF PagerTypes
    <3>. QED
      BY <1>1, <1>4, <1>8, <2>1, <3>1, <3>2, <3>3 DEF PagerTypes
  <2>3. ASSUME window # "narrower" PROVE InsideOfRow'
    <3>1. InsideOfRow
      BY <2>3 DEF Pages
    <3>2. given' = 0 => given = 0 /\ Len(text) = 0
      BY <1>3, <1>4, <1>7 DEF PagerTypes
    <3>3. Len(text) = 0 => text = << >>
      BY <1>3, EmptySeq
    <3>4. call' # P!Crash
      BY <1>8, <2>1 DEF P!Crash, P!NoCall
    <3>. QED
      BY <1>4, <1>5, <2>1, <3>1, <3>2, <3>3, <3>4 DEF InsideOfRow, PagerTypes, Calls
  <2>4. ASSUME window # "narrower", ~quit PROVE NothingDropped'
    <3>1. NothingDropped
      BY <2>4 DEF Pages
    <3>2. ~asks
      BY <1>1, <1>4, <1>6 DEF PagerTypes
    <3>. QED
      BY <1>1, <1>3, <1>4, <1>6, <1>7, <2>1, <3>1, <3>2 DEF NothingDropped, PagerTypes, Calls
  <2>. QED
    BY <1>1, <2>1, <2>2, <2>3, <2>4 DEF Pages
<1>9. CASE ~(Paging /\ rows > 0)
  <2>1. shown' = shown + Len(text) /\ UNCHANGED <<dLines, dColumns, call, asks, quit>>
    BY <1>2, <1>9 DEF P!cligen_output, P!WriteAll
  <2>2. PagerTypes'
    BY <1>1, <1>3, <1>4, <1>7, <2>1 DEF PagerTypes
  <2>3. ASSUME window # "narrower" PROVE InsideOfRow'
    <3>1. InsideOfRow
      BY <2>3 DEF Pages
    <3>2. given' = 0 => given = 0
      BY <1>3, <1>4, <1>7 DEF PagerTypes
    <3>. QED
      BY <1>1, <1>5, <1>6, <2>1, <3>1, <3>2 DEF InsideOfRow
  <2>4. ASSUME window # "narrower", ~quit PROVE NothingDropped'
    <3>1. NothingDropped
      BY <2>4 DEF Pages
    <3>. QED
      BY <1>1, <1>3, <1>4, <1>6, <1>7, <2>1, <3>1 DEF NothingDropped, PagerTypes, Calls
  <2>. QED
    BY <1>1, <2>1, <2>2, <2>3, <2>4 DEF Pages
<1>. QED
  BY <1>8, <1>9

\* A command begins: nothing is counted yet
LEMMA ResetKeeps == Pages /\ GetLine => Pages'
<1>. SUFFICES ASSUME Pages, GetLine PROVE Pages'
  OBVIOUS
<1>1. /\ call = P!NoCall /\ window' = "same" /\ UNCHANGED <<termw, rows, call, asks>>
      /\ dLines' = 0 /\ dColumns' = 0 /\ given' = 0 /\ shown' = 0 /\ quit' = FALSE
  BY DEF GetLine, CanCommand, P!Reset, Start, Becomes
<1>2. PagerTypes
  BY DEF Pages
<1>3. PagerTypes'
  <2>1. asks' = asks /\ call' = call /\ termw' = termw /\ rows' = rows
    BY <1>1
  <2>2. dLines' \in Int /\ dColumns' \in Int /\ given' \in Nat /\ shown' \in Nat
    BY <1>1
  <2>3. quit' \in BOOLEAN
    BY <1>1
  <2>. QED
    BY <1>2, <2>1, <2>2, <2>3 DEF PagerTypes
<1>4. P!NoCall # P!Crash /\ P!NoCall.rows = 0 /\ Len(P!NoCall.left) = 0
  BY NotACall
<1>5. OutputWidth' = OutputWidth /\ OutputWidth \in Nat \ {0}
  BY <1>1, <1>2, WidthIsPositive DEF OutputWidth
<1>6. InsideOfRow'
  BY <1>1, <1>4, <1>5 DEF InsideOfRow
<1>7. ~asks
  BY <1>1, <1>2, <1>4 DEF PagerTypes
<1>8. NothingDropped'
  BY <1>1, <1>4, <1>7 DEF NothingDropped
<1>. QED
  BY <1>3, <1>6, <1>8 DEF Pages

\* A step that the pager does not see
LEMMA OthersKeep ==
    ASSUME Pages, UNCHANGED <<termw, rows, window, dLines, dColumns, call, asks, given, shown, quit>>
    PROVE  Pages'
BY DEF Pages, PagerTypes, InsideOfRow, NothingDropped, OutputWidth

LEMMA KeysKeepWidth == KeyInRow \/ KeyOnNewRow \/ Newline => termw' = termw
<1>1. KeyOnNewRow \/ Newline => termw' = termw
  BY DEF KeyOnNewRow, Newline, DrawAgain, Help, Interrupt, KillAll, Complete, Control, Becomes
<1>2. KeyInRow => termw' = termw
  <2>1. ASSUME NEW l, NEW d, Becomes(l, d) PROVE termw' = termw
    BY <2>1 DEF Becomes
  <2>. QED
    BY <2>1 DEF KeyInRow, AddChar, Adds, Yank, Transpose, Del, KillEnd, KillBegin, KillPiece,
                Killed, KillWord, Move, ToggleOverwrite, StartSearch, SearchKey, Shows,
                EndSearch, Recall, Control
<1>. QED
  BY <1>1, <1>2

\* The window changes, also while the pager is at a piece of the text
LEMMA WinchKeeps == Pages /\ Winch => Pages'
<1>. SUFFICES ASSUME Pages, Winch PROVE Pages'
  OBVIOUS
<1>1. PICK w \in Windows :
        /\ termw' = WidthFor(w[1]) /\ rows' = w[2]
        /\ window' = IF given = 0 THEN window
                     ELSE IF OutputWidth' < OutputWidth THEN "narrower"
                     ELSE IF window = "same" /\ w # <<Columns, rows>> THEN "other" ELSE window
        /\ IF asks THEN P!Answer("signal", w[1])
           ELSE UNCHANGED <<dLines, dColumns, call, asks, given, shown, quit>>
  BY DEF Winch
<1>2. termw' \in Nat \ {0} /\ rows' \in Nat
  BY <1>1, WidthOfWindow
<1>3. PagerTypes
  BY DEF Pages
<1>4. OutputWidth \in Nat \ {0} /\ OutputWidth' \in Nat \ {0}
  BY <1>2, <1>3, WidthIsPositive DEF OutputWidth
<1>5. window' # "narrower" => window # "narrower" /\ (given = 0 \/ OutputWidth' >= OutputWidth)
  BY <1>1, <1>4
<1>6. CASE asks
  BY <1>1, <1>2, <1>5, <1>6, AnswerKeeps
<1>7. CASE ~asks
  <2>1. UNCHANGED <<dLines, dColumns, call, asks, given, shown, quit>>
    BY <1>1, <1>7
  <2>2. PagerTypes'
    BY <1>2, <1>3, <2>1 DEF PagerTypes
  <2>3. ASSUME window' # "narrower" PROVE InsideOfRow' /\ (~quit => NothingDropped')
    <3>1. InsideOfRow /\ (~quit => NothingDropped)
      BY <1>5, <2>3 DEF Pages
    <3>2. InsideOfRow'
      <4>1. given = 0 \/ OutputWidth' >= OutputWidth
        BY <1>5, <2>3
      <4>2. dColumns' \in 0 .. OutputWidth' - 1
        BY <1>4, <2>1, <3>1, <4>1 DEF InsideOfRow
      <4>3. /\ call' # P!Crash
            /\ given' = 0 => dColumns' = 0
        BY <2>1, <3>1 DEF InsideOfRow
      <4>4. call.linelen \in Int /\ call.linelen <= OutputWidth /\ OutputWidth' >= OutputWidth
              => call.linelen <= OutputWidth'
        BY <1>4
      <4>5. call.linelen \in Int
        BY <1>3 DEF PagerTypes, Calls
      <4>. QED
        BY <2>1, <3>1, <4>1, <4>2, <4>3, <4>4, <4>5 DEF InsideOfRow
    <3>. QED
      BY <2>1, <3>1, <3>2 DEF NothingDropped
  <2>. QED
    BY <2>1, <2>2, <2>3 DEF Pages
<1>. QED
  BY <1>6, <1>7

LEMMA PagesInit == Init => Pages
<1>. SUFFICES ASSUME Init PROVE Pages
  OBVIOUS
<1>1. PICK w \in Windows : termw = WidthFor(w[1]) /\ rows = w[2]
  BY DEF Init
<1>2. termw \in Nat \ {0} /\ rows \in Nat
  BY <1>1, WidthOfWindow
<1>3. /\ dLines = 0 /\ dColumns = 0 /\ call = P!NoCall /\ asks = FALSE
      /\ given = 0 /\ shown = 0 /\ quit = FALSE
  BY DEF Init, P!PagerInit
<1>4. PagerTypes
  <2>1. dLines \in Int /\ dColumns \in Int /\ given \in Nat /\ shown \in Nat
    BY <1>3
  <2>2. call \in Calls /\ call \in {P!NoCall, P!Crash}
    BY <1>3, NotACall
  <2>3. quit \in BOOLEAN /\ asks \in BOOLEAN /\ ~asks
    BY <1>3
  <2>. QED
    BY <1>2, <2>1, <2>2, <2>3 DEF PagerTypes
<1>5. OutputWidth \in Nat \ {0}
  BY <1>4, WidthIsPositive
<1>6. P!NoCall # P!Crash /\ P!NoCall.rows = 0 /\ Len(P!NoCall.left) = 0
  BY NotACall
<1>. QED
  BY <1>3, <1>4, <1>5, <1>6 DEF Pages, InsideOfRow, NothingDropped

LEMMA PagesInductive == Spec => []Pages
<1>1. Init => Pages
  BY PagesInit
<1>2. Pages /\ [Next]_vars => Pages'
  <2>. SUFFICES ASSUME Pages, [Next]_vars PROVE Pages'
    OBVIOUS
  <2>1. CASE Output
    BY <2>1, OutputKeeps
  <2>2. CASE Page
    <3>1. UNCHANGED <<termw, rows, window>>
      BY <2>2 DEF Page, redrawVars
    <3>2. ASSUME NEW key, P!Answer(key, Columns) PROVE Pages'
      <4>1. termw' \in Nat \ {0} /\ rows' \in Nat /\ OutputWidth' = OutputWidth
            /\ OutputWidth \in Nat \ {0}
        BY <3>1, WidthIsPositive DEF Pages, PagerTypes, OutputWidth
      <4>. QED
        BY <3>1, <3>2, <4>1, AnswerKeeps
    <3>. QED
      BY <2>2, <3>1, <3>2, ScrollKeeps, ReturnKeeps DEF Page
  <2>3. CASE GetLine
    BY <2>3, ResetKeeps
  <2>4. CASE Winch
    BY <2>4, WinchKeeps
  <2>5. CASE KeyRead \/ EndLine
    <3>1. termw' = termw /\ UNCHANGED <<rows, window, pager>>
      BY <2>5, KeysKeepWidth DEF KeyRead, EndLine
    <3>. QED
      BY <3>1, OthersKeep DEF pager
  <2>6. CASE Register \/ SelectReturns \/ Callbacks \/ CallbackFails \/ UNCHANGED vars
    <3>1. UNCHANGED <<termw, rows, window, pager>>
      BY <2>6 DEF Register, SelectReturns, Callbacks, CallbackFails, redrawVars, vars
    <3>. QED
      BY <3>1, OthersKeep DEF pager
  <2>. QED
    BY <2>1, <2>2, <2>3, <2>4, <2>5, <2>6 DEF Next
<1>. QED
  BY <1>1, <1>2, PTL DEF Spec

\* cligen_output writes all of every text, over any number of calls, pages,
\* answers and changes of the window, unless the window became narrower under
\* the text or the user has ended it
THEOREM OutputCorrect == Spec => []AllIsShown
<1>1. Pages => AllIsShown
  <2>. SUFFICES ASSUME Pages, window # "narrower"
                PROVE  call # P!Crash /\ (call = P!NoCall /\ ~quit => shown = given)
    BY DEF AllIsShown
  <2>1. PagerTypes /\ InsideOfRow /\ (~quit => NothingDropped)
    BY DEF Pages
  <2>2. P!NoCall.left = << >> /\ Len(P!NoCall.left) = 0
    BY NotACall
  <2>. QED
    BY <2>1, <2>2 DEF InsideOfRow, NothingDropped, PagerTypes
<1>. QED
  BY <1>1, PagesInductive, PTL

----------------------------------------------------------------------------
(***************************************************************************)
(* The terminal: where the cursor is after each character                  *)
(***************************************************************************)
LEMMA SetInduction ==
    ASSUME NEW T, 0 \in T, \A n \in Nat : n \in T => n + 1 \in T
    PROVE  \A n \in Nat : n \in T
<1>. SUFFICES ASSUME Nat \ T # {} PROVE FALSE
  OBVIOUS
<1>. DEFINE n == P!Min(Nat \ T)
<1>0. Nat \ T \subseteq Nat
  OBVIOUS
<1>1. n \in Nat \ T /\ \A m \in Nat \ T : n <= m
  BY <1>0, LeastNumber
<1>. HIDE DEF n
<1>2. n - 1 \in Nat /\ n - 1 \notin Nat \ T
  BY <1>1
<1>. QED
  BY <1>1, <1>2

\* After is the function that its definition describes
TypesTo(t, s, n, f) == f = [i \in 0 .. n |-> IF i = 0 THEN t ELSE Put(f[i - 1], s[i])]

LEMMA TypesExist ==
    ASSUME NEW t, NEW s
    PROVE  \A n \in Nat : \E f : TypesTo(t, s, n, f)
<1>. DEFINE T == {n \in Nat : \E f : TypesTo(t, s, n, f)}
<1>1. 0 \in T
  <2>. DEFINE f == [i \in 0 .. 0 |-> t]
  <2>1. f = [i \in 0 .. 0 |-> IF i = 0 THEN t ELSE Put(f[i - 1], s[i])]
    OBVIOUS
  <2>. HIDE DEF f
  <2>2. TypesTo(t, s, 0, f)
    BY <2>1 DEF TypesTo
  <2>. QED
    BY <2>2
<1>2. ASSUME NEW n \in Nat, n \in T PROVE n + 1 \in T
  <2>1. PICK f : TypesTo(t, s, n, f)
    BY <1>2
  <2>2. \A i \in 0 .. n : f[i] = IF i = 0 THEN t ELSE Put(f[i - 1], s[i])
    BY <2>1 DEF TypesTo
  <2>. DEFINE g == [i \in 0 .. n + 1 |-> IF i <= n THEN f[i] ELSE Put(f[n], s[n + 1])]
              E(i) == IF i = 0 THEN t ELSE Put(g[i - 1], s[i])
  <2>3. ASSUME NEW i \in 0 .. n + 1 PROVE g[i] = E(i)
    <3>1. CASE i = 0
      BY <2>2, <3>1
    <3>2. CASE i \in 1 .. n
      <4>1. i \in 0 .. n + 1 /\ i - 1 \in 0 .. n + 1 /\ i <= n /\ i - 1 <= n /\ i # 0
            /\ i \in 0 .. n
        BY <3>2
      <4>2. g[i] = f[i] /\ g[i - 1] = f[i - 1]
        BY <4>1
      <4>. QED
        BY <2>2, <4>1, <4>2
    <3>3. CASE i = n + 1
      <4>1. n \in 0 .. n + 1 /\ n <= n /\ ~(i <= n) /\ i # 0 /\ i - 1 = n
        BY <3>3
      <4>2. g[i] = Put(f[n], s[n + 1]) /\ g[n] = f[n]
        BY <4>1
      <4>. QED
        BY <3>3, <4>1, <4>2
    <3>. QED
      BY <3>1, <3>2, <3>3
  <2>4. g = [i \in 0 .. n + 1 |-> g[i]]
    OBVIOUS
  <2>. HIDE DEF g
  <2>5. g = [i \in 0 .. n + 1 |-> E(i)]
    BY <2>3, <2>4
  <2>6. TypesTo(t, s, n + 1, g)
    BY <2>5, Zenon DEF TypesTo
  <2>. QED
    BY <2>6
<1>. HIDE DEF T
<1>3. \A n \in Nat : n \in T
  BY <1>1, <1>2, SetInduction
<1>. QED
  BY <1>3 DEF T

LEMMA AfterSteps ==
    ASSUME NEW t, NEW s, Len(s) \in Nat
    PROVE  \A i \in 0 .. Len(s) :
             After(t, s)[i] = IF i = 0 THEN t ELSE Put(After(t, s)[i - 1], s[i])
<1>1. \E f : TypesTo(t, s, Len(s), f)
  BY TypesExist
<1>2. After(t, s) = CHOOSE f : TypesTo(t, s, Len(s), f)
  BY Zenon DEF After, TypesTo
<1>3. TypesTo(t, s, Len(s), After(t, s))
  BY <1>1, <1>2, Zenon
<1>. DEFINE W == After(t, s)
            E(i) == IF i = 0 THEN t ELSE Put(W[i - 1], s[i])
<1>4. W = [i \in 0 .. Len(s) |-> E(i)]
  BY <1>3, Zenon DEF TypesTo
<1>. HIDE DEF W, E
<1>5. \A i \in 0 .. Len(s) : W[i] = E(i)
  BY <1>4, Zenon
<1>. QED
  BY <1>5 DEF W, E

\* The pager and the editor write to the same kind of terminal
LEMMA SameTerminal ==
    /\ P!CR = CR /\ P!BS = BS /\ P!NL = NL /\ P!Blank = Blank
    /\ \A t, s : P!Write(t, s) = Write(t, s)
    /\ \A n : P!Fresh(n) = Fresh(n)
    /\ \A t, n : P!Resized(t, n) = Resized(t, n)
BY Zenon DEF P!CR, CR, P!BS, BS, P!NL, NL, P!Blank, Blank, P!Write, Write, P!After, After,
   P!Put, Put, P!NextRow, NextRow, P!Fresh, Fresh, P!BlankRow, BlankRow, P!Type, Type,
   P!Resized, Resized

\* What may be written
Marks == STRING \cup Typed \cup {Blank, CR, BS, NL, Marker, "-", "h", "s", "?"}

\* A terminal of n columns
Screen(t, n) ==
    /\ t \in [row : Seq(Marks), col : Nat, full : BOOLEAN, down : Nat]
    /\ Len(t.row) = n /\ t.col < n

\* The cursor is in column q of row d at the latest; or behind the last column
Reached(t, d, q) ==
    /\ t.down <= d
    /\ IF t.full THEN q = Len(t.row) \/ (q = 0 /\ t.down < d) ELSE t.col = q

LEMMA FreshScreen ==
    ASSUME NEW n \in Nat \ {0}
    PROVE  /\ Screen(Fresh(n), n)
           /\ Fresh(n).col = 0 /\ Fresh(n).full = FALSE /\ Fresh(n).down = 0
<1>0. Blank \in Marks
  BY DEF Marks
<1>1. BlankRow(n) \in Seq(Marks) /\ Len(BlankRow(n)) = n
  <2>. DEFINE r == [c \in 1 .. n |-> Blank]
  <2>1. r \in Seq(Marks) /\ Len(r) = n
    BY <1>0
  <2>. QED
    BY <2>1 DEF BlankRow
<1>2. Fresh(n) \in [row : Seq(Marks), col : Nat, full : BOOLEAN, down : Nat]
      /\ Fresh(n).row = BlankRow(n) /\ Fresh(n).col = 0 /\ Fresh(n).full = FALSE /\ Fresh(n).down = 0
  BY <1>1 DEF Fresh
<1>. QED
  BY <1>1, <1>2 DEF Screen

LEMMA NextRowIs ==
    ASSUME NEW n \in Nat \ {0}, NEW t, Screen(t, n)
    PROVE  /\ Screen(NextRow(t), n) /\ NextRow(t).col = 0 /\ NextRow(t).full = FALSE
           /\ NextRow(t).down = t.down + 1
<1>1. Len(t.row) = n /\ t.down \in Nat
  BY DEF Screen
<1>2. NextRow(t) = [Fresh(n) EXCEPT !.down = t.down + 1]
  BY <1>1 DEF NextRow
<1>. DEFINE b == Fresh(n)
<1>3. b \in [row : Seq(Marks), col : Nat, full : BOOLEAN, down : Nat]
      /\ Len(b.row) = n /\ b.col = 0 /\ b.full = FALSE
  BY FreshScreen DEF Screen
<1>. HIDE DEF b
<1>4. /\ NextRow(t) \in [row : Seq(Marks), col : Nat, full : BOOLEAN, down : Nat]
      /\ NextRow(t).row = b.row /\ NextRow(t).col = 0 /\ NextRow(t).full = FALSE
      /\ NextRow(t).down = t.down + 1
  BY <1>1, <1>2, <1>3 DEF b
<1>. QED
  BY <1>3, <1>4 DEF Screen

LEMMA TypeIs ==
    ASSUME NEW n \in Nat \ {0}, NEW t, Screen(t, n), NEW c \in Marks
    PROVE  /\ Screen(Type(t, c), n)
           /\ Type(t, c).col <= (IF t.full THEN 0 ELSE t.col) + 1
           /\ \A d \in Int, q \in Nat :
                Reached(t, d, q) /\ q < n => Reached(Type(t, c), d, q + 1)
<1>. DEFINE here == IF t.full THEN NextRow(t) ELSE t
            last == here.col + 1 = Len(here.row)
            r == Type(t, c)
<1>1. /\ Screen(here, n)
      /\ here.col = (IF t.full THEN 0 ELSE t.col)
      /\ here.down = (IF t.full THEN t.down + 1 ELSE t.down)
      /\ t.full \in BOOLEAN /\ t.down \in Nat /\ Len(t.row) = n /\ t.col \in Nat
  BY NextRowIs DEF Screen
<1>2. r = [here EXCEPT !.row[here.col + 1] = c,
                       !.col = IF last THEN @ ELSE @ + 1, !.full = last]
  BY DEF Type
<1>. HIDE DEF here
<1>3. /\ here.row \in Seq(Marks) /\ Len(here.row) = n /\ here.col \in Nat /\ here.col < n
      /\ here.down \in Nat
  BY <1>1 DEF Screen
<1>4. /\ [here.row EXCEPT ![here.col + 1] = c] \in Seq(Marks)
      /\ Len([here.row EXCEPT ![here.col + 1] = c]) = n
  BY <1>3
<1>. DEFINE row == [here.row EXCEPT ![here.col + 1] = c]
            col == IF last THEN here.col ELSE here.col + 1
<1>. HIDE DEF last
<1>5. /\ r.row = row /\ r.col = col /\ r.full = last /\ r.down = here.down
      /\ r \in [row : Seq(Marks), col : Nat, full : BOOLEAN, down : Nat]
  <2>1. here \in [row : Seq(Marks), col : Nat, full : BOOLEAN, down : Nat]
    BY <1>1 DEF Screen
  <2>2. row \in Seq(Marks) /\ col \in Nat /\ last \in BOOLEAN
    BY <1>3, <1>4 DEF last
  <2>3. r = [here EXCEPT !.row = row, !.col = col, !.full = last]
    BY <1>2, <2>1
  <2>. HIDE DEF row, col, r
  <2>. QED
    BY <2>1, <2>2, <2>3
<1>. USE DEF last
<1>. HIDE DEF r
<1>6. Screen(r, n)
  BY <1>3, <1>4, <1>5 DEF Screen
<1>7. ASSUME NEW d \in Int, NEW q \in Nat, Reached(t, d, q), q < n
      PROVE  Reached(r, d, q + 1)
  <2>1. here.down <= d /\ here.col = q
    BY <1>1, <1>7 DEF Reached
  <2>. QED
    BY <1>3, <1>4, <1>5, <1>7, <2>1 DEF Reached
<1>. QED
  BY <1>1, <1>3, <1>5, <1>6, <1>7 DEF r

LEMMA PutIs ==
    ASSUME NEW n \in Nat \ {0}, NEW t, Screen(t, n), NEW c \in Marks
    PROVE  /\ Screen(Put(t, c), n)
           /\ c = BS => /\ Put(t, c).full = FALSE
                        /\ Put(t, c).col = IF t.col = 0 THEN 0 ELSE t.col - 1
           /\ c \notin {CR, BS, NL} => Put(t, c) = Type(t, c)
           /\ c = NL => \A d \in Int, q \in Nat : Reached(t, d, q) => Reached(Put(t, c), d + 1, 0)
<1>0. /\ CR # BS /\ CR # NL /\ BS # NL
      /\ t \in [row : Seq(Marks), col : Nat, full : BOOLEAN, down : Nat]
      /\ Len(t.row) = n /\ t.col < n /\ t.col \in Nat /\ t.down \in Nat
  BY DEF CR, BS, NL, Screen
<1>1. CASE c = CR
  <2>1. Put(t, c) = [t EXCEPT !.col = 0, !.full = FALSE]
    BY <1>0, <1>1 DEF Put
  <2>. DEFINE start == 0
  <2>2. start \in Nat /\ start < n
    BY <1>0
  <2>. HIDE DEF start
  <2>3. Put(t, c) = [t EXCEPT !.col = start, !.full = FALSE]
    BY <2>1 DEF start
  <2>4. Screen(Put(t, c), n)
    BY <1>0, <2>2, <2>3 DEF Screen
  <2>. QED
    BY <1>0, <1>1, <2>4
<1>2. CASE c = BS
  <2>1. Put(t, c) = [t EXCEPT !.col = IF @ = 0 THEN 0 ELSE @ - 1, !.full = FALSE]
    BY <1>0, <1>2 DEF Put
  <2>. DEFINE e == IF t.col = 0 THEN 0 ELSE t.col - 1
  <2>2. e \in Nat /\ e < n
    BY <1>0
  <2>3. Put(t, c) = [t EXCEPT !.col = e, !.full = FALSE]
    BY <2>1
  <2>. HIDE DEF e
  <2>4. Screen(Put(t, c), n) /\ Put(t, c).full = FALSE /\ Put(t, c).col = e
    BY <1>0, <2>2, <2>3 DEF Screen
  <2>. QED
    BY <1>0, <1>2, <2>4 DEF e
<1>3. CASE c = NL
  <2>1. Put(t, c) = NextRow(t)
    BY <1>0, <1>3 DEF Put
  <2>2. Screen(NextRow(t), n) /\ NextRow(t).col = 0 /\ NextRow(t).full = FALSE
        /\ NextRow(t).down = t.down + 1
    BY NextRowIs
  <2>3. ASSUME NEW d \in Int, NEW q \in Nat, Reached(t, d, q)
        PROVE  Reached(NextRow(t), d + 1, 0)
    <3>1. t.down <= d
      BY <2>3 DEF Reached
    <3>2. t.down + 1 <= d + 1
      BY <1>0, <3>1
    <3>. QED
      BY <2>2, <3>2 DEF Reached
  <2>. QED
    BY <1>0, <1>3, <2>1, <2>2, <2>3
<1>4. CASE c \notin {CR, BS, NL}
  <2>1. Put(t, c) = Type(t, c)
    BY <1>4 DEF Put
  <2>2. Screen(Type(t, c), n)
    BY TypeIs
  <2>. QED
    BY <1>4, <2>1, <2>2
<1>. QED
  BY <1>1, <1>2, <1>3, <1>4

\* Whatever is written, the terminal keeps its width
LEMMA AfterIsScreen ==
    ASSUME NEW n \in Nat \ {0}, NEW t, Screen(t, n), NEW s \in Seq(Marks)
    PROVE  \A k \in 0 .. Len(s) : Screen(After(t, s)[k], n)
<1>. DEFINE T == {k \in Nat : k <= Len(s) => Screen(After(t, s)[k], n)}
<1>1. \A i \in 0 .. Len(s) :
         After(t, s)[i] = IF i = 0 THEN t ELSE Put(After(t, s)[i - 1], s[i])
  BY AfterSteps
<1>2. 0 \in T
  BY <1>1
<1>3. ASSUME NEW k \in Nat, k \in T PROVE k + 1 \in T
  <2>. SUFFICES ASSUME k + 1 <= Len(s) PROVE Screen(After(t, s)[k + 1], n)
    OBVIOUS
  <2>1. k + 1 \in 1 .. Len(s) /\ k + 1 \in 0 .. Len(s) /\ k + 1 # 0 /\ (k + 1) - 1 = k /\ k <= Len(s)
    OBVIOUS
  <2>2. After(t, s)[k + 1] = Put(After(t, s)[k], s[k + 1]) /\ s[k + 1] \in Marks
    BY <1>1, <2>1
  <2>. QED
    BY <1>3, <2>1, <2>2, PutIs
<1>. HIDE DEF T
<1>4. \A k \in Nat : k \in T
  BY <1>2, <1>3, SetInduction
<1>. QED
  BY <1>4 DEF T

\* A piece of text without a newline, in what is left of the row
LEMMA AfterReaches ==
    ASSUME NEW n \in Nat \ {0}, NEW t, Screen(t, n), NEW s \in Seq(Marks),
           NEW d \in Int, NEW q \in Nat, NEW m \in 0 .. Len(s), q + m <= n,
           \A k \in 1 .. m : s[k] \notin {CR, BS, NL}, Reached(t, d, q)
    PROVE  Reached(After(t, s)[m], d, q + m)
<1>. DEFINE T == {k \in Nat : k <= m => Reached(After(t, s)[k], d, q + k)}
<1>1. \A i \in 0 .. Len(s) :
         After(t, s)[i] = IF i = 0 THEN t ELSE Put(After(t, s)[i - 1], s[i])
  BY AfterSteps
<1>2. 0 \in T
  BY <1>1
<1>3. ASSUME NEW k \in Nat, k \in T PROVE k + 1 \in T
  <2>. SUFFICES ASSUME k + 1 <= m PROVE Reached(After(t, s)[k + 1], d, q + (k + 1))
    OBVIOUS
  <2>1. k + 1 \in 1 .. m /\ k + 1 \in 0 .. Len(s) /\ k + 1 # 0 /\ (k + 1) - 1 = k /\ k \in 0 .. Len(s)
        /\ k + 1 \in 1 .. Len(s) /\ q + k \in Nat /\ q + k < n /\ (q + k) + 1 = q + (k + 1) /\ k <= m
    OBVIOUS
  <2>2. After(t, s)[k + 1] = Put(After(t, s)[k], s[k + 1]) /\ s[k + 1] \in Marks
    BY <1>1, <2>1
  <2>3. Screen(After(t, s)[k], n) /\ Reached(After(t, s)[k], d, q + k)
    BY <1>3, <2>1, AfterIsScreen
  <2>4. After(t, s)[k + 1] = Type(After(t, s)[k], s[k + 1])
    BY <2>1, <2>2, <2>3, PutIs
  <2>5. Reached(Type(After(t, s)[k], s[k + 1]), d, (q + k) + 1)
    BY <2>1, <2>2, <2>3, TypeIs
  <2>. QED
    BY <2>1, <2>4, <2>5
<1>. HIDE DEF T
<1>4. \A k \in Nat : k \in T
  BY <1>2, <1>3, SetInduction
<1>. QED
  BY <1>4 DEF T

LEMMA RowEndReached ==
    ASSUME NEW n \in Nat \ {0}, NEW t, Screen(t, n), NEW d \in Int, Reached(t, d, n)
    PROVE  Reached(t, d + 1, 0)
BY DEF Screen, Reached

----------------------------------------------------------------------------
(***************************************************************************)
(* A page fits into the window.                                            *)
(***************************************************************************)
\* The pager counts every character as a column or as the end of a row
PlainTexts == \A text \in Chunks : \A k \in DOMAIN text : text[k] \notin {CR, BS}

\* The pager counts on the width of the window
WideWindows == \A w \in Windows : w[1] >= MinWidth /\ w[1] # 65535

\* The column that the pager counts on
Reckoned == IF call.rows > 0 THEN call.linelen - call.remain ELSE dColumns

PageStands ==
    /\ given = 0 => dLines = 0 /\ ~asks /\ out.down = 0 /\ out.col = 0 /\ out.full = FALSE
    /\ given # 0 /\ call.rows > 0 => call.rows = rows /\ call.linelen = OutputWidth
    /\ Paging /\ rows > 1 =>
         /\ IF asks THEN dLines = rows - 1 /\ Reckoned = 0 ELSE dLines < rows - 1
         /\ dLines >= 0 => Reached(out, dLines, Reckoned)

Fits ==
    /\ Pages
    /\ Screen(out, OutputWidth)
    /\ \A k \in DOMAIN call.left : call.left[k] \notin {CR, BS}
    /\ call.rows > 0 => Paging
    /\ window = "same" /\ ~helped => PageStands

LEMMA TextIsMarks ==
    ASSUME NEW s \in Seq(STRING)
    PROVE  s \in Seq(Marks)
BY DEF Marks

LEMMA WriteIsScreen ==
    ASSUME NEW n \in Nat \ {0}, NEW t, Screen(t, n), NEW s \in Seq(Marks)
    PROVE  Screen(P!Write(t, s), n)
<1>1. Len(s) \in 0 .. Len(s)
  OBVIOUS
<1>2. P!Write(t, s) = After(t, s)[Len(s)]
  BY SameTerminal DEF Write
<1>. QED
  BY <1>1, <1>2, AfterIsScreen

\* The text of a row, and the newline that ends it
LEMMA LineReaches ==
    ASSUME NEW n \in Nat \ {0}, NEW t, Screen(t, n), NEW s \in Seq(Marks), Len(s) >= 1,
           NEW d \in Int, NEW q \in Nat, q + (Len(s) - 1) <= n,
           \A k \in 1 .. Len(s) - 1 : s[k] \notin {CR, BS, NL}, s[Len(s)] = NL,
           Reached(t, d, q)
    PROVE  Reached(Write(t, s), d + 1, 0)
<1>. DEFINE m == Len(s) - 1
<1>1. m \in 0 .. Len(s) /\ m + 1 = Len(s) /\ Len(s) \in 0 .. Len(s) /\ Len(s) # 0 /\ q + m <= n
      /\ q + m \in Nat
  OBVIOUS
<1>2. Reached(After(t, s)[m], d, q + m) /\ Screen(After(t, s)[m], n)
  BY <1>1, AfterReaches, AfterIsScreen
<1>3. Write(t, s) = Put(After(t, s)[m], NL)
  BY <1>1, AfterSteps DEF Write
<1>4. NL \in Marks
  BY DEF Marks
<1>5. Reached(Put(After(t, s)[m], NL), d + 1, 0)
  <2>. DEFINE u == After(t, s)[m]
              r == q + m
  <2>1. Screen(u, n) /\ Reached(u, d, r) /\ r \in Nat
    BY <1>1, <1>2
  <2>. HIDE DEF u, r
  <2>2. Reached(Put(u, NL), d + 1, 0)
    BY <1>4, <2>1, PutIs
  <2>. QED
    BY <2>2 DEF u
<1>. QED
  BY <1>3, <1>5

\* A question of e characters, and what is written over it
Run(c, e) == [k \in 1 .. e |-> c]
Question(e) == Run("-", e) \o Run(BS, e) \o << >> \o Run(Blank, e) \o Run(BS, e)

Asks(q, e) ==
    /\ q \in Seq(Marks) /\ Len(q) = e + e + e + e
    /\ \A k \in 1 .. e : q[k] = "-"
    /\ \A k \in e + 1 .. e + e : q[k] = BS
    /\ \A k \in e + e + 1 .. e + e + e : q[k] = Blank
    /\ \A k \in e + e + e + 1 .. e + e + e + e : q[k] = BS

\* q is s, of length m, and e characters c
Longer(q, s, m, c, e) ==
    /\ q \in Seq(Marks) /\ Len(q) = m + e
    /\ \A k \in 1 .. m : q[k] = s[k]
    /\ \A k \in m + 1 .. m + e : q[k] = c

LEMMA RunJoined ==
    ASSUME NEW s \in Seq(Marks), NEW m \in Nat, Len(s) = m, NEW c \in Marks, NEW e \in Nat
    PROVE  Longer(s \o Run(c, e), s, m, c, e)
<1>. DEFINE r == Run(c, e)
<1>1. r \in Seq(Marks) /\ Len(r) = e /\ \A k \in 1 .. e : r[k] = c
  BY DEF Run
<1>. HIDE DEF r
<1>2. /\ s \o r \in Seq(Marks) /\ Len(s \o r) = Len(s) + Len(r)
      /\ \A k \in 1 .. Len(s) + Len(r) : (s \o r)[k] = IF k <= Len(s) THEN s[k] ELSE r[k - Len(s)]
  BY <1>1, ConcatProperties
<1>3. ASSUME NEW k \in m + 1 .. m + e PROVE (s \o r)[k] = c
  <2>1. k \in 1 .. Len(s) + Len(r) /\ ~(k <= Len(s)) /\ k - Len(s) \in 1 .. e
    BY <1>1
  <2>. QED
    BY <1>1, <1>2, <2>1
<1>4. ASSUME NEW k \in 1 .. m PROVE (s \o r)[k] = s[k]
  <2>1. k \in 1 .. Len(s) + Len(r) /\ k <= Len(s)
    BY <1>1
  <2>. QED
    BY <1>2, <2>1
<1>. QED
  BY <1>1, <1>2, <1>3, <1>4 DEF r, Longer

\* The question, and then what takes it away
LEMMA QuestionSplits ==
    ASSUME NEW e \in Nat
    PROVE  Question(e) = Run("-", e) \o (Run(BS, e) \o << >> \o Run(Blank, e) \o Run(BS, e))
<1>. DEFINE a == Run("-", e)
            b == Run(BS, e)
            c == Run(Blank, e)
<1>1. a \in Seq(Marks) /\ b \in Seq(Marks) /\ c \in Seq(Marks)
  BY DEF Run, Marks
<1>. HIDE DEF a, b, c
<1>2. \A x, y, z \in Seq(Marks) : (x \o y) \o z = x \o (y \o z) /\ x \o y \in Seq(Marks)
  BY ConcatAssociative, ConcatProperties
<1>3. b \o << >> = b
  BY <1>1
<1>4. a \o b \o << >> = a \o b
  BY <1>1
<1>5. Question(e) = ((a \o b) \o c) \o b
  BY <1>4 DEF Question, a, b, c
<1>6. ((a \o b) \o c) \o b = a \o ((b \o c) \o b)
  <2>1. (a \o b) \o c = a \o (b \o c) /\ b \o c \in Seq(Marks)
    BY <1>1, <1>2
  <2>2. (a \o (b \o c)) \o b = a \o ((b \o c) \o b)
    BY <1>1, <1>2, <2>1
  <2>. QED
    BY <2>1, <2>2
<1>. QED
  BY <1>3, <1>5, <1>6 DEF a, b, c

\* Its characters
LEMMA QuestionIs ==
    ASSUME NEW e \in Nat
    PROVE  Asks(Question(e), e)
<1>. DEFINE a == Run("-", e)
            ab == a \o Run(BS, e)
            abc == ab \o Run(Blank, e)
            all == abc \o Run(BS, e)
<1>2. "-" \in Marks /\ BS \in Marks /\ Blank \in Marks
  BY DEF Marks
<1>3. a \in Seq(Marks) /\ Len(a) = e /\ \A k \in 1 .. e : a[k] = "-"
  BY <1>2 DEF Run
<1>. HIDE DEF a
<1>4. /\ ab \in Seq(Marks) /\ Len(ab) = e + e
      /\ \A k \in 1 .. e : ab[k] = a[k]
      /\ \A k \in e + 1 .. e + e : ab[k] = BS
  <2>1. Longer(ab, a, e, BS, e)
    BY <1>2, <1>3, RunJoined
  <2>. QED
    BY <2>1 DEF Longer
<1>. HIDE DEF ab
<1>5. /\ abc \in Seq(Marks) /\ Len(abc) = (e + e) + e
      /\ \A k \in 1 .. e + e : abc[k] = ab[k]
      /\ \A k \in (e + e) + 1 .. (e + e) + e : abc[k] = Blank
  <2>1. e + e \in Nat
    OBVIOUS
  <2>2. Longer(abc, ab, e + e, Blank, e)
    BY <1>2, <1>4, <2>1, RunJoined, Zenon
  <2>. QED
    BY <2>2 DEF Longer
<1>. HIDE DEF abc
<1>6. /\ all \in Seq(Marks) /\ Len(all) = (e + e + e) + e
      /\ \A k \in 1 .. e + e + e : all[k] = abc[k]
      /\ \A k \in (e + e + e) + 1 .. (e + e + e) + e : all[k] = BS
  <2>1. e + e + e \in Nat
    OBVIOUS
  <2>2. Longer(all, abc, e + e + e, BS, e)
    BY <1>2, <1>5, <2>1, RunJoined, Zenon
  <2>. QED
    BY <2>2 DEF Longer
<1>. HIDE DEF all
<1>7. \A k \in 1 .. e : all[k] = "-"
  <2>. SUFFICES ASSUME NEW k \in 1 .. e PROVE all[k] = "-"
    OBVIOUS
  <2>1. k \in 1 .. e + e + e /\ k \in 1 .. e + e
    OBVIOUS
  <2>. QED
    BY <1>3, <1>4, <1>5, <1>6, <2>1
<1>8. \A k \in e + 1 .. e + e : all[k] = BS
  <2>. SUFFICES ASSUME NEW k \in e + 1 .. e + e PROVE all[k] = BS
    OBVIOUS
  <2>1. k \in 1 .. e + e + e /\ k \in 1 .. e + e
    OBVIOUS
  <2>. QED
    BY <1>4, <1>5, <1>6, <2>1
<1>9. \A k \in e + e + 1 .. e + e + e : all[k] = Blank
  <2>. SUFFICES ASSUME NEW k \in e + e + 1 .. e + e + e PROVE all[k] = Blank
    OBVIOUS
  <2>1. k \in 1 .. e + e + e
    OBVIOUS
  <2>. QED
    BY <1>5, <1>6, <2>1
<1>11. Question(e) = all
  <2>1. ab \o << >> = ab
    BY <1>4
  <2>. QED
    BY <2>1 DEF Question, all, abc, ab, a
<1>. QED
  BY <1>6, <1>7, <1>8, <1>9, <1>11 DEF Asks

\* Where the cursor is at the most, after k characters of the question
Bound(k, e) ==
    IF k <= e THEN k ELSE IF k <= e + e THEN e + e - k
    ELSE IF k <= e + e + e THEN k - (e + e) ELSE e + e + e + e - k

\* In a row with nothing in it, the question leaves nothing, in one row or more
Erases(k, e) == k \in e + 1 .. e + e \/ k \in e + e + e + 1 .. e + e + e + e
Marked(k, e) == k \in 1 .. e \/ k \in e + e + 1 .. e + e + e

LEMMA BackspaceIs ==
    ASSUME NEW n \in Nat \ {0}, NEW t, Screen(t, n)
    PROVE  /\ Put(t, BS).full = FALSE
           /\ Put(t, BS).col = IF t.col = 0 THEN 0 ELSE t.col - 1
<1>1. BS \in Marks
  BY DEF Marks
<1>. QED
  BY <1>1, PutIs

LEMMA AnswerLeavesRow ==
    ASSUME NEW n \in Nat \ {0}, NEW t, Screen(t, n), t.full \/ t.col = 0,
           NEW e \in Nat \ {0}, NEW q, Asks(q, e)
    PROVE  Write(t, q).col = 0 /\ Write(t, q).full = FALSE
<1>. DEFINE W == After(t, q)
            T == {k \in Nat : k <= Len(q) =>
                    /\ k > 0 => W[k].col <= Bound(k, e)
                    /\ Erases(k, e) => W[k].full = FALSE}
<1>1. /\ q \in Seq(Marks) /\ Len(q) = e + e + e + e /\ Len(q) \in Nat /\ Len(q) > 0
      /\ \A k \in Nat : Marked(k, e) => q[k] \in {"-", Blank}
      /\ \A k \in Nat : Erases(k, e) => q[k] = BS
  BY DEF Asks, Marked, Erases
<1>2. W[0] = t /\ \A i \in 1 .. Len(q) : W[i] = Put(W[i - 1], q[i])
  <2>1. \A i \in 0 .. Len(q) :
           After(t, q)[i] = IF i = 0 THEN t ELSE Put(After(t, q)[i - 1], q[i])
    BY <1>1, AfterSteps
  <2>2. 0 \in 0 .. Len(q) /\ \A i \in 1 .. Len(q) : i \in 0 .. Len(q) /\ i # 0
    BY <1>1
  <2>. QED
    BY <1>1, <2>1, <2>2
<1>3. \A i \in 0 .. Len(q) : Screen(W[i], n) /\ W[i].col \in Nat /\ W[i].full \in BOOLEAN
  <2>1. \A i \in 0 .. Len(q) : Screen(After(t, q)[i], n)
    BY <1>1, AfterIsScreen
  <2>2. \A x : Screen(x, n) => x.col \in Nat /\ x.full \in BOOLEAN
    BY DEF Screen
  <2>. QED
    BY <1>1, <2>1, <2>2
<1>. HIDE DEF W
<1>4. 0 \in T
  BY DEF Erases
<1>5. ASSUME NEW k \in Nat, k \in T PROVE k + 1 \in T
  <2>0. k + 1 \in Nat
    OBVIOUS
  <2>. SUFFICES ASSUME k + 1 <= Len(q)
                PROVE  /\ W[k + 1].col <= Bound(k + 1, e)
                       /\ Erases(k + 1, e) => W[k + 1].full = FALSE
    BY <2>0
  <2>1. k \in 0 .. Len(q) /\ k + 1 \in 0 .. Len(q) /\ k + 1 # 0 /\ (k + 1) - 1 = k /\ k + 1 \in 1 .. Len(q)
        /\ k + 1 \in Nat /\ k <= Len(q)
    BY <1>1
  <2>2. k > 0 => W[k].col <= Bound(k, e)
    BY <1>5, <2>1
  <2>. HIDE DEF T
  <2>. DEFINE c == q[k + 1]
              x == W[k]
  <2>3. /\ W[k + 1] = Put(x, c) /\ Screen(x, n) /\ c \in Marks
        /\ x.col \in Nat /\ x.full \in BOOLEAN /\ W[k + 1].col \in Nat
    BY <1>1, <1>2, <1>3, <2>1
  <2>4. CASE Marked(k + 1, e)
    <3>1. c \notin {CR, BS, NL}
      <4>1. c \in {"-", Blank}
        BY <1>1, <2>1, <2>4
      <4>. QED
        BY <4>1 DEF CR, BS, NL, Blank
    <3>. DEFINE m == IF x.full THEN 0 ELSE x.col
    <3>2. W[k + 1].col <= m + 1
      <4>. HIDE DEF c, x
      <4>1. W[k + 1] = Type(x, c)
        <5>1. Put(x, c) = Type(x, c)
          BY <3>1 DEF Put
        <5>. QED
          BY <2>3, <5>1
      <4>. QED
        BY <2>3, <4>1, TypeIs
    <3>3. m \in Nat /\ m + 1 <= Bound(k + 1, e)
      <4>1. CASE k = 0
        BY <1>2, <2>3, <4>1 DEF Bound
      <4>2. CASE k > 0
        <5>1. m \in Nat /\ m <= Bound(k, e)
          BY <2>1, <2>2, <2>3, <2>4, <4>2 DEF Bound, Marked
        <5>. HIDE DEF m
        <5>. QED
          BY <2>4, <4>2, <5>1 DEF Bound, Marked
      <4>. QED
        BY <4>1, <4>2
    <3>. HIDE DEF m
    <3>4. W[k + 1].col <= Bound(k + 1, e)
      <4>1. \A a, b \in Nat, l \in Int : a <= b + 1 /\ b + 1 <= l => a <= l
        OBVIOUS
      <4>2. Bound(k + 1, e) \in Int
        BY <2>1 DEF Bound
      <4>. QED
        BY <2>3, <3>2, <3>3, <4>1, <4>2
    <3>. QED
      BY <2>4, <3>4 DEF Marked, Erases
  <2>5. CASE Erases(k + 1, e)
    <3>1. c = BS
      BY <1>1, <2>1, <2>5
    <3>2. W[k + 1].full = FALSE /\ W[k + 1].col = IF x.col = 0 THEN 0 ELSE x.col - 1
      <4>1. /\ Put(x, BS).full = FALSE
            /\ Put(x, BS).col = IF x.col = 0 THEN 0 ELSE x.col - 1
        BY <2>3, BackspaceIs
      <4>. QED
        BY <2>3, <3>1, <4>1
    <3>3. k > 0 /\ x.col <= Bound(k, e)
      BY <2>2, <2>5 DEF Erases
    <3>4. W[k + 1].col <= Bound(k + 1, e)
      BY <2>3, <2>5, <3>2, <3>3 DEF Bound, Erases
    <3>. QED
      BY <3>2, <3>4
  <2>6. Marked(k + 1, e) \/ Erases(k + 1, e)
    BY <1>1, <2>1 DEF Marked, Erases
  <2>. QED
    BY <2>4, <2>5, <2>6
<1>. HIDE DEF T
<1>6. \A k \in Nat : k \in T
  BY <1>4, <1>5, SetInduction
<1>7. Len(q) \in T
  BY <1>1, <1>6
<1>8. Erases(Len(q), e) /\ Bound(Len(q), e) = 0
  BY <1>1 DEF Bound, Erases
<1>9. W[Len(q)].col <= 0 /\ W[Len(q)].full = FALSE
  BY <1>1, <1>7, <1>8 DEF T
<1>10. W[Len(q)].col = 0
  <2>1. Len(q) \in 0 .. Len(q)
    BY <1>1
  <2>. QED
    BY <1>3, <1>9, <2>1
<1>. QED
  BY <1>9, <1>10 DEF Write, W

LEMMA PutsMarks ==
    ASSUME NEW s \in Seq(STRING), NEW m \in 1 .. Len(s)
    PROVE  LET piece == SubSeq(s, 1, m) IN
           /\ piece \in Seq(Marks) /\ Len(piece) = m
           /\ \A k \in 1 .. m : piece[k] = s[k]
<1>1. s \in Seq(Marks)
  BY TextIsMarks
<1>. QED
  BY <1>1

\* The width that the pager counts on
LEMMA WidthOfRow ==
    ASSUME WideWindows, NEW w \in Windows
    PROVE  w[1] \in Nat \ {0} /\ WidthFor(w[1]) = w[1] /\ w[1] # 65535
<1>1. w[1] \in Nat \ {0} /\ w[1] >= MinWidth /\ w[1] # 65535 /\ MinWidth \in Nat
  BY TerminalAssumption DEF WideWindows
<1>2. Max({w[1], MinWidth}) = w[1]
  <2>1. w[1] \in Int /\ MinWidth \in Int
    BY <1>1
  <2>2. Max({w[1], MinWidth}) = IF w[1] >= MinWidth THEN w[1] ELSE MinWidth
    BY <2>1, LesserNumber
  <2>. QED
    BY <1>1, <2>2
<1>. QED
  BY <1>1, <1>2 DEF WidthFor

LEMMA ResizedIs ==
    ASSUME NEW n \in Nat \ {0}, NEW t, Screen(t, n), NEW m \in Nat \ {0}
    PROVE  /\ Screen(Resized(t, m), m)
           /\ t.col = 0 => Resized(t, m).col = 0
           /\ Resized(t, m).full = FALSE /\ Resized(t, m).down = t.down
<1>. DEFINE row == [c \in 1 .. m |-> IF c <= Len(t.row) THEN t.row[c] ELSE Blank]
            col == IF t.col < m THEN t.col ELSE m - 1
            r == Resized(t, m)
<1>1. /\ t \in [row : Seq(Marks), col : Nat, full : BOOLEAN, down : Nat]
      /\ t.row \in Seq(Marks) /\ t.col \in Nat /\ Len(t.row) = n /\ t.down \in Nat
  BY DEF Screen
<1>2. row \in Seq(Marks) /\ Len(row) = m
  <2>1. Blank \in Marks
    BY DEF Marks
  <2>2. \A c \in 1 .. m : row[c] \in Marks
    BY <1>1, <2>1
  <2>. QED
    BY <2>2
<1>3. col \in Nat /\ col < m /\ (t.col = 0 => col = 0)
  BY <1>1
<1>4. r = [t EXCEPT !.row = row, !.col = col, !.full = FALSE]
  BY DEF Resized
<1>. HIDE DEF row, col, r
<1>5. /\ r \in [row : Seq(Marks), col : Nat, full : BOOLEAN, down : Nat]
      /\ r.row = row /\ r.col = col /\ r.full = FALSE /\ r.down = t.down
  BY <1>1, <1>2, <1>3, <1>4
<1>6. Screen(r, m)
  BY <1>2, <1>3, <1>5 DEF Screen
<1>. QED
  BY <1>3, <1>5, <1>6 DEF r

----------------------------------------------------------------------------
\* A piece of text: to the newline, to the end of the row, or all of it
LEMMA PieceReaches ==
    ASSUME Fits, P!Scroll, NEW n, n = OutputWidth, n \in Nat \ {0}, call.linelen = n,
           Reached(out, dLines, Reckoned)
    PROVE  /\ P!EndsRow => Reached(out', dLines + 1, 0)
           /\ ~P!EndsRow => Reached(out', dLines, Reckoned + P!Taken)
<1>. DEFINE m == P!Taken
            s == SubSeq(call.left, 1, m)
            q == call.linelen - call.remain
<1>1. /\ call.rows > 0 /\ call.left # << >> /\ dLines >= 0 /\ m > 0 /\ out' = P!Write(out, s)
  BY DEF P!Scroll, P!Calling
<1>2. /\ call.left \in Seq(STRING) /\ call.remain \in Int /\ dLines \in Int
      /\ Screen(out, n) /\ Reckoned = q
      /\ \A k \in DOMAIN call.left : call.left[k] \notin {CR, BS}
  BY <1>1 DEF Fits, Pages, PagerTypes, Calls, Reckoned
<1>3. /\ call.remain >= 1 /\ m \in 1 .. Len(call.left)
      /\ ~P!EndsRow => m = Len(call.left) /\ Len(call.left) < call.remain
  BY <1>1, <1>2, PieceFits
<1>4. Len(call.left) \in Nat /\ DOMAIN call.left = 1 .. Len(call.left)
  BY <1>2
<1>5. /\ s \in Seq(Marks) /\ Len(s) = m /\ m \in Nat
      /\ \A k \in 1 .. m : s[k] = call.left[k] /\ s[k] \notin {CR, BS}
  <2>1. s \in Seq(Marks) /\ Len(s) = m /\ \A k \in 1 .. m : s[k] = call.left[k]
    BY <1>2, <1>3, PutsMarks
  <2>. QED
    BY <1>2, <1>3, <1>4, <2>1
<1>6. P!RowEnds \subseteq Nat /\ \A p : p \in P!RowEnds <=> p \in 1 .. Len(call.left) /\ call.left[p] = NL
  BY <1>4, SameTerminal DEF P!RowEnds
<1>7. P!Write(out, s) = Write(out, s)
  BY SameTerminal
<1>8. P!RowEnds # {} => /\ P!ToNewline \in P!RowEnds
                        /\ \A p \in P!RowEnds : P!ToNewline <= p
  BY <1>6, LeastNumber DEF P!ToNewline
<1>9. CASE P!RowEnds # {} /\ P!ToNewline - 1 < call.remain
  <2>1. m = P!ToNewline /\ P!EndsRow
    BY <1>9 DEF P!Taken, P!EndsRow
  <2>2. s[m] = NL /\ \A k \in 1 .. m - 1 : s[k] # NL
    BY <1>3, <1>4, <1>5, <1>6, <1>8, <1>9, <2>1
  <2>3. /\ Len(s) >= 1 /\ \A k \in 1 .. Len(s) - 1 : s[k] \notin {CR, BS, NL}
        /\ s[Len(s)] = NL
    BY <1>3, <1>5, <2>2
  <2>4. q \in Nat /\ q + (Len(s) - 1) <= n
    BY <1>1, <1>2, <1>3, <1>5, <1>9, <2>1 DEF Reached, Screen
  <2>5. Reached(Write(out, s), dLines + 1, 0)
    BY <1>2, <1>5, <2>3, <2>4, LineReaches
  <2>. QED
    BY <1>1, <1>7, <2>1, <2>5
<1>10. CASE ~(P!RowEnds # {} /\ P!ToNewline - 1 < call.remain)
  <2>1. m = IF Len(call.left) <= call.remain THEN Len(call.left) ELSE call.remain
    <3>1. P!Min({Len(call.left), call.remain}) =
             IF Len(call.left) <= call.remain THEN Len(call.left) ELSE call.remain
      BY <1>2, <1>4, LesserNumber
    <3>. QED
      BY <1>10, <3>1 DEF P!Taken
  <2>2. \A k \in 1 .. m : s[k] # NL
    <3>. SUFFICES ASSUME NEW k \in 1 .. m, s[k] = NL PROVE FALSE
      OBVIOUS
    <3>1. k \in P!RowEnds
      BY <1>3, <1>4, <1>5, <1>6
    <3>2. P!ToNewline <= k /\ P!ToNewline \in Nat
      BY <1>6, <1>8, <3>1
    <3>3. m <= call.remain
      BY <1>2, <1>4, <2>1
    <3>. QED
      BY <1>2, <1>5, <1>10, <3>1, <3>2, <3>3
  <2>3. \A k \in 1 .. m : s[k] \notin {CR, BS, NL}
    BY <1>5, <2>2
  <2>4. q \in Nat /\ q + m <= n
    <3>1. q \in Nat
      BY <1>2 DEF Reached, Screen
    <3>2. m <= call.remain /\ call.linelen \in Int
      BY <1>2, <1>4, <2>1
    <3>. QED
      BY <1>2, <1>5, <3>1, <3>2
  <2>5. Reached(Write(out, s), dLines, q + m)
    <3>1. m \in 0 .. Len(s)
      BY <1>5
    <3>2. Reached(After(out, s)[m], dLines, q + m)
      BY <1>2, <1>5, <2>3, <2>4, <3>1, AfterReaches
    <3>. QED
      BY <1>5, <3>2 DEF Write
  <2>6. Screen(Write(out, s), n)
    BY <1>2, <1>5, <1>7, WriteIsScreen
  <2>7. ASSUME P!EndsRow PROVE q + m = n
    <3>1. CASE P!RowEnds = {}
      <4>1. Len(call.left) >= call.remain
        BY <2>7, <3>1 DEF P!EndsRow
      <4>. QED
        BY <1>2, <1>4, <2>1, <4>1
    <3>2. CASE P!RowEnds # {}
      <4>1. P!ToNewline \in 1 .. Len(call.left) /\ P!ToNewline - 1 >= call.remain
        BY <1>2, <1>4, <1>6, <1>8, <1>10, <3>2
      <4>. QED
        BY <1>2, <1>4, <2>1, <4>1
    <3>. QED
      BY <3>1, <3>2
  <2>. QED
    BY <1>1, <1>2, <1>7, <2>5, <2>6, <2>7, RowEndReached
<1>. QED
  BY <1>9, <1>10

LEMMA ScrollFits ==
    ASSUME Fits, P!Scroll, UNCHANGED <<termw, rows, window>>
    PROVE  Fits'
<1>. DEFINE m == P!Taken
            rest == SubSeq(call.left, m + 1, Len(call.left))
            row == IF P!EndsRow THEN call.linelen ELSE call.remain - m
<1>1. /\ call.rows > 0 /\ ~asks /\ call.left # << >> /\ dLines >= 0 /\ m > 0
      /\ dLines' = dLines + P!Counted
      /\ call' = [call EXCEPT !.left = rest, !.remain = row]
      /\ asks' = (dLines' >= call.rows - 1)
      /\ out' = P!Write(out, SubSeq(call.left, 1, m))
      /\ UNCHANGED <<dColumns, given, helped>>
  BY DEF P!Scroll, P!Calling
<1>2. Pages /\ Pages'
  BY ScrollKeeps DEF Fits
<1>3. /\ PagerTypes /\ call \in Calls /\ call.left \in Seq(STRING) /\ call.remain \in Int
      /\ call.linelen \in Int /\ call.rows \in Int /\ dLines \in Int /\ rows \in Nat
  BY <1>2 DEF Pages, PagerTypes, Calls
<1>4. OutputWidth \in Nat \ {0} /\ OutputWidth' = OutputWidth
  BY <1>3, WidthIsPositive DEF OutputWidth
<1>5. /\ call.remain >= 1 /\ m \in 1 .. Len(call.left)
      /\ ~P!EndsRow => m = Len(call.left) /\ Len(call.left) < call.remain
  BY <1>1, <1>3, PieceFits
<1>6. /\ call'.left = rest /\ call'.remain = row /\ call'.linelen = call.linelen
      /\ call'.rows = call.rows
  BY <1>1, <1>3 DEF Calls
<1>7. Screen(out', OutputWidth')
  <2>1. SubSeq(call.left, 1, m) \in Seq(Marks)
    BY <1>3, <1>5, PutsMarks
  <2>. QED
    BY <1>1, <1>4, <2>1, WriteIsScreen DEF Fits
<1>8. \A k \in DOMAIN call'.left : call'.left[k] \notin {CR, BS}
  <2>1. DOMAIN call.left = 1 .. Len(call.left) /\ Len(call.left) \in Nat /\ m \in Nat
    BY <1>3, <1>5
  <2>2. \A k \in DOMAIN rest : m + k \in DOMAIN call.left /\ rest[k] = call.left[m + k]
    <3>1. DOMAIN rest = 1 .. Len(call.left) - m
      BY <1>3, <1>5, <2>1
    <3>2. \A k \in 1 .. Len(call.left) - m : rest[k] = call.left[(m + 1) + k - 1]
      BY <1>3, <1>5, <2>1
    <3>3. \A k \in 1 .. Len(call.left) - m :
             (m + 1) + k - 1 = m + k /\ m + k \in 1 .. Len(call.left)
      BY <1>5, <2>1
    <3>. QED
      BY <2>1, <3>1, <3>2, <3>3
  <2>. QED
    BY <1>6, <2>2 DEF Fits
<1>9. ASSUME window' = "same", ~helped' PROVE PageStands'
  <2>1. PageStands /\ window # "narrower"
    BY <1>1, <1>9 DEF Fits
  <2>2. given # 0
    BY <1>1, <1>2, <2>1 DEF Pages, InsideOfRow
  <2>3. call.rows = rows /\ call.linelen = OutputWidth /\ Paging
    BY <1>1, <2>1, <2>2 DEF PageStands, Fits
  <2>4. P!Counted = IF P!EndsRow THEN 1 ELSE 0
    BY DEF P!Counted
  <2>5. Reckoned = call.linelen - call.remain /\ Reckoned' = call.linelen - row
    BY <1>1, <1>6 DEF Reckoned
  <2>6. ASSUME rows > 1
        PROVE  /\ IF asks' THEN dLines' = rows - 1 /\ Reckoned' = 0 ELSE dLines' < rows - 1
               /\ Reached(out', dLines', Reckoned')
    <3>1. dLines < rows - 1 /\ Reached(out, dLines, Reckoned)
      BY <1>1, <2>1, <2>3, <2>6 DEF PageStands
    <3>2. /\ P!EndsRow => Reached(out', dLines + 1, 0)
          /\ ~P!EndsRow => Reached(out', dLines, Reckoned + m)
      BY <1>4, <2>3, <3>1, PieceReaches
    <3>3. CASE P!EndsRow
      <4>1. dLines' = dLines + 1 /\ Reckoned' = 0
        BY <1>1, <1>3, <2>4, <2>5, <3>3
      <4>2. Reached(out', dLines', Reckoned')
        BY <3>2, <3>3, <4>1
      <4>3. /\ dLines' >= rows - 1 => dLines' = rows - 1
            /\ ~(dLines' >= rows - 1) => dLines' < rows - 1
        BY <1>3, <3>1, <4>1
      <4>4. asks' = (dLines' >= rows - 1)
        BY <1>1, <2>3, Zenon
      <4>5. IF asks' THEN dLines' = rows - 1 ELSE dLines' < rows - 1
        BY <4>3, <4>4, Zenon
      <4>. QED
        BY <4>1, <4>2, <4>5
    <3>4. CASE ~P!EndsRow
      <4>1. dLines' = dLines /\ Reckoned' = Reckoned + m
        <5>1. P!Counted = 0 /\ row = call.remain - m /\ m \in Int
          BY <1>5, <2>4, <3>4
        <5>. QED
          BY <1>1, <1>3, <2>5, <5>1
      <4>2. Reached(out', dLines', Reckoned')
        BY <3>2, <3>4, <4>1
      <4>3. ~(dLines' >= rows - 1) /\ dLines' < rows - 1
        BY <1>3, <3>1, <4>1
      <4>4. asks' = (dLines' >= rows - 1)
        BY <1>1, <2>3, Zenon
      <4>5. ~asks'
        BY <4>3, <4>4, Zenon
      <4>. QED
        BY <4>2, <4>3, <4>5
    <3>. QED
      BY <3>3, <3>4
  <2>. QED
    BY <1>1, <1>4, <1>6, <2>2, <2>3, <2>6 DEF PageStands
<1>. QED
  BY <1>1, <1>2, <1>6, <1>7, <1>8, <1>9 DEF Fits

LEMMA ReturnFits ==
    ASSUME Fits, P!Return, UNCHANGED <<termw, rows, window>>
    PROVE  Fits'
<1>1. /\ call.rows > 0 /\ ~asks
      /\ IF call.left = << >> \/ dLines < 0
         THEN dColumns' = call.linelen - call.remain /\ call' = P!NoCall /\ UNCHANGED dLines
         ELSE IF call.remain = 0
         THEN dColumns' = 0 /\ call' = P!NoCall /\ dLines' = dLines + 1
         ELSE call.remain < 0 /\ call' = P!Crash /\ UNCHANGED <<dLines, dColumns>>
      /\ UNCHANGED <<asks, given, out, helped>>
  BY DEF P!Return, P!Calling, P!ColumnReached
<1>2. Pages /\ Pages'
  BY ReturnKeeps DEF Fits
<1>3. call'.left = << >> /\ call'.rows <= 0
  BY <1>1, NotACall DEF P!Crash, P!NoCall
<1>4. OutputWidth' = OutputWidth
  BY DEF OutputWidth
<1>5. ASSUME window' = "same", ~helped' PROVE PageStands'
  <2>1. PageStands /\ window # "narrower"
    BY <1>1, <1>5 DEF Fits
  <2>2. call.remain >= 1
    BY <1>1, <1>2, <2>1 DEF Pages, InsideOfRow
  <2>3. dColumns' = call.linelen - call.remain /\ call' = P!NoCall /\ dLines' = dLines
    BY <1>1, <1>2, <2>2 DEF Pages, PagerTypes, Calls
  <2>4. call'.rows = 0
    BY <2>3, NotACall
  <2>5. Reckoned' = Reckoned
    BY <1>1, <2>3, <2>4 DEF Reckoned
  <2>. QED
    BY <1>1, <1>4, <2>1, <2>3, <2>4, <2>5 DEF PageStands
<1>6. \A k \in DOMAIN call'.left : call'.left[k] \notin {CR, BS}
  BY <1>3
<1>7. ~(call'.rows > 0)
  BY <1>2, <1>3 DEF Pages, PagerTypes, Calls
<1>8. Screen(out', OutputWidth')
  BY <1>1, <1>4 DEF Fits
<1>. QED
  BY <1>2, <1>5, <1>6, <1>7, <1>8 DEF Fits

\* The question is answered, and taken away
LEMMA AnswerFits ==
    ASSUME Fits, NEW key, NEW columns \in Nat \ {0}, P!Answer(key, columns),
           termw' \in Nat \ {0}, rows' \in Nat, OutputWidth' = columns,
           window' # "narrower" => window # "narrower" /\ (given = 0 \/ OutputWidth' >= OutputWidth),
           window' = "same" => window = "same",
           window' = "same" /\ given # 0 => rows' = rows /\ columns = OutputWidth
    PROVE  Fits'
<1>1. /\ asks /\ asks' = FALSE
      /\ dLines' = CASE key = "CR" -> dLines - 1
                     [] key = "q" -> -1
                     [] key = "?" -> dLines
                     [] OTHER -> 0
      /\ helped' = (helped \/ key = "?")
      /\ UNCHANGED <<dColumns, call, given>>
  BY DEF P!Answer
<1>2. Pages /\ Pages' /\ PagerTypes
  <2>1. Pages
    BY DEF Fits
  <2>. QED
    BY <2>1, AnswerKeeps DEF Pages
<1>3. OutputWidth \in Nat \ {0}
  BY <1>2, WidthIsPositive
<1>. DEFINE rub  == P!Rub(key)
            text == P!MoreText \o rub
            o == P!Rubbed(key, columns)
<1>4. out' = [o EXCEPT !.down = 0]
  BY DEF P!Answer
<1>5. P!MoreText = Run("-", 8) /\ P!Over(P!BS) = Run(BS, 8) /\ P!Over(P!Blank) = Run(Blank, 8)
  BY SameTerminal DEF P!MoreText, P!Over, Run
<1>6. text \in Seq(Marks) /\ rub \in Seq(Marks) /\ P!MoreText \in Seq(Marks)
  <2>1. \A c \in Marks : Run(c, 8) \in Seq(Marks)
    BY DEF Run
  <2>2. {"-", BS, Blank, "h", P!NL} \subseteq Marks
    BY SameTerminal DEF Marks
  <2>3. <<"h", P!NL>> \in Seq(Marks) /\ << >> \in Seq(Marks)
    BY <2>2
  <2>. QED
    BY <1>5, <2>1, <2>2, <2>3, ConcatProperties DEF P!Rub
<1>7. Screen(o, columns) /\ (columns = OutputWidth => o = Write(out, text))
  <2>1. Screen(out, OutputWidth) /\ Len(out.row) = OutputWidth
    BY DEF Fits, Screen
  <2>2. CASE columns = OutputWidth
    <3>1. o = Write(out, text)
      BY <2>1, <2>2, SameTerminal DEF P!Rubbed
    <3>. QED
      BY <1>3, <1>6, <2>1, <2>2, <3>1, WriteIsScreen, SameTerminal
  <2>3. CASE columns # OutputWidth
    <3>. DEFINE x == Write(out, P!MoreText)
                y == Resized(x, columns)
    <3>1. Screen(x, OutputWidth)
      BY <1>3, <1>6, <2>1, WriteIsScreen, SameTerminal
    <3>2. Screen(y, columns)
      <4>. HIDE DEF x
      <4>. QED
        BY <1>3, <3>1, ResizedIs
    <3>3. o = Write(y, rub)
      BY <2>1, <2>3, SameTerminal DEF P!Rubbed
    <3>. HIDE DEF y
    <3>. QED
      BY <1>6, <2>3, <3>2, <3>3, WriteIsScreen, SameTerminal
  <2>. QED
    BY <2>2, <2>3
<1>8. Screen(out', OutputWidth') /\ out'.col = o.col /\ out'.full = o.full /\ out'.down = 0
  <2>. HIDE DEF o
  <2>. DEFINE top == 0
  <2>1. top \in Nat
    OBVIOUS
  <2>2. out' = [o EXCEPT !.down = top]
    BY <1>4
  <2>. HIDE DEF top
  <2>3. o \in [row : Seq(Marks), col : Nat, full : BOOLEAN, down : Nat]
    BY <1>7 DEF Screen
  <2>4. /\ out' \in [row : Seq(Marks), col : Nat, full : BOOLEAN, down : Nat]
        /\ out'.row = o.row /\ out'.col = o.col /\ out'.full = o.full /\ out'.down = top
    BY <2>1, <2>2, <2>3
  <2>5. Screen(out', columns)
    BY <1>7, <2>4 DEF Screen
  <2>. QED
    BY <2>4, <2>5 DEF top
<1>9. ASSUME window' = "same", ~helped' PROVE PageStands'
  <2>1. PageStands /\ window = "same" /\ key # "?"
    BY <1>1, <1>9 DEF Fits
  <2>2. given # 0 /\ given' # 0
    BY <1>1, <2>1 DEF PageStands
  <2>3. /\ call.rows > 0 /\ call.rows = rows /\ call.linelen = OutputWidth /\ rows' = rows
        /\ columns = OutputWidth
    BY <1>1, <1>2, <1>9, <2>1, <2>2 DEF PageStands, PagerTypes
  <2>4. Reckoned' = Reckoned
    BY <1>1 DEF Reckoned
  <2>5. ASSUME rows > 1, Paging
        PROVE  dLines' < rows - 1 /\ (dLines' >= 0 => Reached(out', dLines', Reckoned'))
    <3>1. dLines = rows - 1 /\ Reckoned = 0 /\ Reached(out, dLines, 0) /\ rows \in Nat
      BY <1>1, <1>2, <2>1, <2>5 DEF PageStands, PagerTypes
    <3>2. out.full \/ out.col = 0
      BY <3>1 DEF Reached
    <3>3. text = Question(8)
      BY <1>5, <2>1, QuestionSplits DEF P!Rub
    <3>4. Write(out, Question(8)).col = 0 /\ Write(out, Question(8)).full = FALSE
      <4>1. 8 \in Nat \ {0} /\ 8 \in Nat
        OBVIOUS
      <4>2. Asks(Question(8), 8)
        BY <4>1, QuestionIs
      <4>3. Screen(out, OutputWidth)
        BY DEF Fits
      <4>. QED
        BY <1>3, <3>2, <4>1, <4>2, <4>3, AnswerLeavesRow
    <3>5. o.col = 0 /\ o.full = FALSE
      BY <1>7, <2>3, <3>3, <3>4
    <3>6. dLines' < rows - 1 /\ dLines' \in Int
      BY <1>1, <2>1, <2>5, <3>1
    <3>7. dLines' >= 0 => Reached(out', dLines', 0)
      BY <1>8, <3>5, <3>6 DEF Reached
    <3>. QED
      BY <2>4, <3>1, <3>6, <3>7
  <2>. QED
    BY <1>1, <2>2, <2>3, <2>5 DEF PageStands
<1>. QED
  BY <1>1, <1>2, <1>8, <1>9 DEF Fits

\* A call begins, or writes everything when there are no pages
LEMMA OutputFits ==
    ASSUME PlainTexts, Fits, Output
    PROVE  Fits'
<1>1. /\ call = P!NoCall /\ UNCHANGED <<termw, rows, window>>
      /\ OutputWidth' = OutputWidth
  BY DEF Output, CanCommand, redrawVars, OutputWidth
<1>2. PICK text \in Chunks : P!cligen_output(text, OutputWidth, rows, Paging)
  BY DEF Output
<1>3. text \in Seq(STRING) /\ Len(text) \in Nat /\ DOMAIN text = 1 .. Len(text)
      /\ \A k \in DOMAIN text : text[k] \notin {CR, BS}
  <2>1. text \in Seq(STRING)
    BY TerminalAssumption
  <2>. QED
    BY <2>1 DEF PlainTexts
<1>4. Pages /\ Pages' /\ PagerTypes
  BY OutputKeeps DEF Fits, Pages
<1>5. OutputWidth \in Nat \ {0}
  BY <1>4, WidthIsPositive
<1>6. P!NoCall.rows = 0 /\ P!NoCall.left = << >>
  BY NotACall
<1>7. given' = given + Len(text) /\ (given' = 0 => given = 0 /\ Len(text) = 0 /\ text = << >>)
  <2>1. given' = given + Len(text) /\ given \in Nat
    BY <1>2, <1>4 DEF P!cligen_output, PagerTypes
  <2>. QED
    BY <1>3, <2>1, EmptySeq
<1>8. CASE Paging /\ rows > 0
  <2>1. /\ call' = [left |-> text, remain |-> OutputWidth - dColumns,
                    linelen |-> OutputWidth, rows |-> rows]
        /\ UNCHANGED <<dLines, dColumns, out, asks, helped>>
    BY <1>2, <1>8 DEF P!cligen_output, P!Enter
  <2>2. call'.left = text /\ call'.rows = rows /\ call'.linelen = OutputWidth
        /\ call'.remain = OutputWidth - dColumns
    BY <2>1
  <2>3. Screen(out', OutputWidth')
    BY <1>1, <2>1 DEF Fits
  <2>4. ASSUME window' = "same", ~helped' PROVE PageStands'
    <3>1. PageStands
      BY <1>1, <2>1, <2>4 DEF Fits
    <3>2. Reckoned' = Reckoned
      <4>1. Reckoned = dColumns
        BY <1>1, <1>6 DEF Reckoned
      <4>2. Reckoned' = OutputWidth - (OutputWidth - dColumns)
        BY <1>1, <1>8, <2>2 DEF Reckoned
      <4>. QED
        BY <1>4, <1>5, <4>1, <4>2 DEF PagerTypes
    <3>. QED
      BY <1>1, <1>7, <2>1, <2>2, <3>1, <3>2 DEF PageStands
  <2>. QED
    BY <1>3, <1>4, <1>8, <2>2, <2>3, <2>4 DEF Fits
<1>9. CASE ~(Paging /\ rows > 0)
  <2>1. out' = P!Write(out, text) /\ UNCHANGED <<dLines, dColumns, call, asks, helped>>
    BY <1>2, <1>9 DEF P!cligen_output, P!WriteAll
  <2>2. Screen(out', OutputWidth')
    BY <1>1, <1>3, <1>5, <2>1, TextIsMarks, WriteIsScreen DEF Fits
  <2>3. ASSUME window' = "same", ~helped' PROVE PageStands'
    <3>1. PageStands
      BY <1>1, <2>1, <2>3 DEF Fits
    <3>2. ~(Paging /\ rows > 1)
      BY <1>4, <1>9 DEF PagerTypes
    <3>3. given' = 0 => out' = out
      <4>1. ASSUME given' = 0 PROVE out' = out
        <5>1. text = << >> /\ Len(text) = 0 /\ 0 \in 0 .. Len(text)
          BY <1>7, <4>1
        <5>2. Write(out, text) = After(out, text)[0]
          BY <5>1 DEF Write
        <5>3. After(out, text)[0] = out
          BY <1>3, <5>1, AfterSteps
        <5>. QED
          BY <2>1, <5>2, <5>3, SameTerminal
      <4>. QED
        BY <4>1
    <3>4. ~(call'.rows > 0)
      BY <1>1, <1>6, <2>1
    <3>. QED
      BY <1>1, <1>7, <2>1, <3>1, <3>2, <3>3, <3>4 DEF PageStands
  <2>4. call' = call
    BY <2>1
  <2>. QED
    BY <1>4, <2>2, <2>3, <2>4 DEF Fits
<1>. QED
  BY <1>8, <1>9

\* A command begins on a fresh row
LEMMA ResetFits ==
    ASSUME Fits, GetLine
    PROVE  Fits'
<1>1. /\ call = P!NoCall /\ window' = "same" /\ UNCHANGED <<termw, rows, call, asks>>
      /\ dLines' = 0 /\ dColumns' = 0 /\ given' = 0 /\ out' = P!Fresh(Columns)
  BY DEF GetLine, CanCommand, P!Reset, Start, Becomes
<1>2. Pages /\ Pages' /\ PagerTypes
  BY ResetKeeps DEF Fits, Pages
<1>3. OutputWidth \in Nat \ {0} /\ OutputWidth' = OutputWidth
  BY <1>1, <1>2, WidthIsPositive DEF OutputWidth
<1>4. P!NoCall.rows = 0 /\ P!NoCall.left = << >>
  BY NotACall
<1>5. Columns = OutputWidth
  BY DEF Fits, Screen, Columns
<1>6. /\ out' = Fresh(OutputWidth) /\ Screen(out', OutputWidth')
      /\ out'.down = 0 /\ out'.col = 0 /\ out'.full = FALSE
  BY <1>1, <1>3, <1>5, FreshScreen, SameTerminal
<1>7. ~asks /\ ~(call'.rows > 0) /\ call'.rows = 0
  BY <1>1, <1>2, <1>4 DEF PagerTypes
<1>8. PageStands'
  <2>1. Reckoned' = 0
    BY <1>1, <1>7 DEF Reckoned
  <2>2. Reached(out', 0, 0)
    BY <1>6 DEF Reached
  <2>3. rows > 1 => 0 < rows - 1
    BY <1>2 DEF PagerTypes
  <2>. QED
    BY <1>1, <1>6, <1>7, <2>1, <2>2, <2>3 DEF PageStands
<1>. QED
  BY <1>1, <1>2, <1>4, <1>6, <1>7, <1>8 DEF Fits

\* A step that the pager does not see
LEMMA OthersFit ==
    ASSUME Fits, UNCHANGED <<termw, rows, window, pager>>
    PROVE  Fits'
<1>1. Pages'
  BY OthersKeep DEF Fits, pager
<1>2. UNCHANGED <<termw, rows, window, dLines, dColumns, out, call, asks, given, helped>>
  BY DEF pager
<1>3. OutputWidth' = OutputWidth /\ Reckoned' = Reckoned
  BY <1>2 DEF OutputWidth, Reckoned
<1>4. PageStands => PageStands'
  BY <1>2, <1>3 DEF PageStands
<1>. QED
  BY <1>1, <1>2, <1>3, <1>4 DEF Fits

\* Another window under the output: only before the first character nothing is lost
LEMMA WinchFits ==
    ASSUME WideWindows, Fits, Winch
    PROVE  Fits'
<1>1. PICK w \in Windows :
        /\ termw' = WidthFor(w[1]) /\ rows' = w[2]
        /\ w # <<Columns, rows>> \/ asks
        /\ window' = IF given = 0 THEN window
                     ELSE IF OutputWidth' < OutputWidth THEN "narrower"
                     ELSE IF window = "same" /\ w # <<Columns, rows>> THEN "other" ELSE window
        /\ IF asks THEN P!Answer("signal", w[1])
           ELSE /\ out' = Resized(out, w[1])
                /\ UNCHANGED <<dLines, dColumns, call, asks, given, shown, quit, helped>>
  BY DEF Winch
<1>2. termw' \in Nat \ {0} /\ rows' \in Nat
  BY <1>1, WidthOfWindow
<1>3. Pages /\ Pages' /\ PagerTypes
  BY WinchKeeps DEF Fits, Pages
<1>4. w[1] \in Nat \ {0} /\ OutputWidth' = w[1]
  BY <1>1, WidthOfRow DEF OutputWidth
<1>5. Columns = OutputWidth /\ OutputWidth \in Nat \ {0}
  BY <1>3, WidthIsPositive DEF Fits, Screen, Columns
<1>6. w = <<w[1], w[2]>>
  <2>1. w \in (Nat \ {0}) \X Nat
    BY TerminalAssumption
  <2>. QED
    BY <2>1
<1>7. CASE asks
  <2>1. P!Answer("signal", w[1]) /\ OutputWidth' = w[1]
    BY <1>1, <1>4, <1>7
  <2>2. window' # "narrower" => window # "narrower" /\ (given = 0 \/ OutputWidth' >= OutputWidth)
    BY <1>1, <1>4, <1>5
  <2>3. /\ window' = "same" => window = "same"
        /\ window' = "same" /\ given # 0 => rows' = rows /\ w[1] = OutputWidth
    BY <1>1, <1>5, <1>6
  <2>. QED
    BY <1>2, <1>4, <2>1, <2>2, <2>3, AnswerFits
<1>8. CASE ~asks
  <2>1. out' = Resized(out, w[1])
        /\ UNCHANGED <<dLines, dColumns, call, asks, given, shown, quit, helped>>
    BY <1>1, <1>8
  <2>2. /\ Screen(out', w[1]) /\ (out.col = 0 => out'.col = 0)
        /\ out'.full = FALSE /\ out'.down = out.down
    <3>1. Screen(out, OutputWidth)
      BY DEF Fits
    <3>2. /\ Screen(Resized(out, w[1]), w[1]) /\ (out.col = 0 => Resized(out, w[1]).col = 0)
          /\ Resized(out, w[1]).full = FALSE /\ Resized(out, w[1]).down = out.down
      BY <1>4, <1>5, <3>1, ResizedIs
    <3>. QED
      BY <2>1, <3>2
  <2>3. Screen(out', OutputWidth')
    BY <1>4, <2>2
  <2>4. ASSUME window' = "same", ~helped' PROVE PageStands'
    <3>1. given = 0
      BY <1>1, <1>8, <2>4
    <3>2. window = "same" /\ ~helped /\ PageStands
      BY <1>1, <2>1, <2>4, <3>1 DEF Fits
    <3>3. /\ dLines = 0 /\ out.down = 0 /\ out.col = 0
          /\ out'.down = 0 /\ out'.col = 0 /\ out'.full = FALSE
      BY <2>2, <3>1, <3>2 DEF PageStands
    <3>4. Reckoned = 0
      BY <1>3, <3>1, <3>2 DEF Reckoned, Pages, InsideOfRow, PagerTypes, Calls
    <3>5. Reckoned' = 0
      BY <2>1, <3>4 DEF Reckoned
    <3>6. Reached(out', 0, 0)
      BY <3>3 DEF Reached
    <3>7. rows' > 1 => 0 < rows' - 1
      <4>1. \A r \in Nat : r > 1 => 0 < r - 1
        OBVIOUS
      <4>. QED
        BY <1>2, <4>1
    <3>. QED
      BY <1>8, <2>1, <3>1, <3>3, <3>5, <3>6, <3>7 DEF PageStands
  <2>. QED
    BY <1>3, <2>1, <2>3, <2>4 DEF Fits
<1>. QED
  BY <1>7, <1>8

LEMMA FitsInductive ==
    ASSUME PlainTexts, WideWindows
    PROVE  Spec => []Fits
<1>1. Init => Fits
  <2>. SUFFICES ASSUME Init PROVE Fits
    OBVIOUS
  <2>1. PICK w \in Windows : termw = WidthFor(w[1]) /\ rows = w[2] /\ P!PagerInit(w[1])
    BY DEF Init
  <2>2. Pages
    BY PagesInit
  <2>3. w[1] \in Nat \ {0} /\ OutputWidth = w[1] /\ rows \in Nat
    BY <2>1, <2>2, WidthOfRow DEF OutputWidth, Pages, PagerTypes
  <2>4. /\ dLines = 0 /\ dColumns = 0 /\ call = P!NoCall /\ asks = FALSE
        /\ given = 0 /\ out = P!Fresh(w[1])
    BY <2>1 DEF P!PagerInit
  <2>5. P!NoCall.rows = 0 /\ P!NoCall.left = << >> /\ ~(call.rows > 0)
    BY <2>4, NotACall
  <2>6. Screen(out, OutputWidth) /\ out.col = 0 /\ out.full = FALSE /\ out.down = 0
    BY <2>3, <2>4, FreshScreen, SameTerminal
  <2>7. Reached(out, 0, 0)
    BY <2>6 DEF Reached
  <2>8. rows > 1 => 0 < rows - 1
    BY <2>3
  <2>9. PageStands
    BY <2>4, <2>5, <2>6, <2>7, <2>8 DEF PageStands, Reckoned
  <2>. QED
    BY <2>2, <2>4, <2>5, <2>6, <2>9 DEF Fits
<1>2. Fits /\ [Next]_vars => Fits'
  <2>. SUFFICES ASSUME Fits, [Next]_vars PROVE Fits'
    OBVIOUS
  <2>1. CASE Output
    BY <2>1, OutputFits
  <2>2. CASE Page
    <3>1. UNCHANGED <<termw, rows, window>>
      BY <2>2 DEF Page, redrawVars
    <3>2. ASSUME NEW key, P!Answer(key, Columns) PROVE Fits'
      <4>1. /\ termw' \in Nat \ {0} /\ rows' \in Nat /\ OutputWidth' = OutputWidth
            /\ OutputWidth \in Nat \ {0} /\ Columns = OutputWidth
        BY <3>1, WidthIsPositive DEF Fits, Pages, PagerTypes, OutputWidth, Screen, Columns
      <4>2. window' = window /\ rows' = rows
        BY <3>1
      <4>. QED
        BY <3>2, <4>1, <4>2, AnswerFits
    <3>. QED
      BY <2>2, <3>1, <3>2, ScrollFits, ReturnFits DEF Page
  <2>3. CASE GetLine
    BY <2>3, ResetFits
  <2>4. CASE Winch
    BY <2>4, WinchFits
  <2>5. CASE KeyRead \/ EndLine
    <3>1. termw' = termw /\ UNCHANGED <<rows, window, pager>>
      BY <2>5, KeysKeepWidth DEF KeyRead, EndLine
    <3>. QED
      BY <3>1, OthersFit
  <2>6. CASE Register \/ SelectReturns \/ Callbacks \/ CallbackFails \/ UNCHANGED vars
    <3>1. UNCHANGED <<termw, rows, window, pager>>
      BY <2>6 DEF Register, SelectReturns, Callbacks, CallbackFails, redrawVars, vars
    <3>. QED
      BY <3>1, OthersFit
  <2>. QED
    BY <2>1, <2>2, <2>3, <2>4, <2>5, <2>6 DEF Next
<1>. QED
  BY <1>1, <1>2, PTL DEF Spec

\* When the user is asked, no line that was written since the last answer has
\* left the window: for any texts without carriage returns and backspaces, in
\* any number of calls, in any windows as wide as the pager takes them to be
THEOREM PagesCorrect == PlainTexts /\ WideWindows => (Spec => []PageFits)
<1>. SUFFICES ASSUME PlainTexts, WideWindows PROVE Spec => []PageFits
  OBVIOUS
<1>1. Fits => PageFits
  <2>. SUFFICES ASSUME Fits, asks, call.rows > 1, window = "same", ~helped
                PROVE  out.down < call.rows
    BY DEF PageFits
  <2>1. PageStands /\ Paging /\ PagerTypes /\ call.rows \in Int
    <3>1. call.rows \in Int
      BY DEF Fits, Pages, PagerTypes, Calls
    <3>. QED
      BY <3>1 DEF Fits, Pages
  <2>2. given # 0 /\ call.rows = rows
    BY <2>1 DEF PageStands
  <2>3. dLines = rows - 1 /\ Reached(out, dLines, Reckoned) /\ rows \in Nat
    BY <2>1, <2>2 DEF PageStands, PagerTypes
  <2>4. out.down \in Nat
    BY DEF Fits, Screen
  <2>. QED
    BY <2>2, <2>3, <2>4 DEF Reached
<1>. QED
  BY <1>1, FitsInductive, PTL

----------------------------------------------------------------------------
(***************************************************************************)
(* What a text makes of the row that the cursor is on                      *)
(***************************************************************************)
\* Everything but what moves the cursor
Ink == Marks \ {CR, BS, NL}

\* u is the terminal t after m characters of s, which end inside of the row
OverTo(t, s, m, u, n) ==
    /\ Screen(u, n) /\ u.full = FALSE /\ u.col = t.col + m
    /\ \A k \in 1 .. n : u.row[k] = IF t.col < k /\ k <= t.col + m THEN s[k - t.col] ELSE t.row[k]
Over(t, s, u, n) == OverTo(t, s, Len(s), u, n)

\* u is t with the cursor m columns to the left
Back(t, m, u, n) ==
    /\ Screen(u, n) /\ u.full = FALSE /\ u.col = t.col - m
    /\ u.row = t.row

LEMMA InkIsMarks ==
    /\ Ink \subseteq Marks /\ Blank \in Ink /\ Marker \in Ink /\ "s" \in Ink /\ "?" \in Ink
    /\ CR \in Marks /\ BS \in Marks
    /\ \A c \in Ink : c # CR /\ c # BS /\ c # NL
BY DEF Ink, Marks, Blank, Marker, CR, BS, NL

\* A character is typed
LEMMA TypeOver ==
    ASSUME NEW n \in Nat \ {0}, NEW t, Screen(t, n), t.full = FALSE, t.col + 1 < n,
           NEW c \in Ink
    PROVE  /\ Screen(Put(t, c), n) /\ Put(t, c).full = FALSE /\ Put(t, c).col = t.col + 1
           /\ \A k \in 1 .. n : Put(t, c).row[k] = IF k = t.col + 1 THEN c ELSE t.row[k]
<1>1. /\ t \in [row : Seq(Marks), col : Nat, full : BOOLEAN, down : Nat]
      /\ t.row \in Seq(Marks) /\ Len(t.row) = n /\ t.col \in Nat
  BY DEF Screen
<1>2. c \in Marks /\ c \notin {CR, BS, NL}
  BY InkIsMarks
<1>3. Put(t, c) = Type(t, c) /\ Screen(Put(t, c), n)
  BY <1>2, PutIs
<1>. DEFINE r == [t.row EXCEPT ![t.col + 1] = c]
<1>4. /\ Type(t, c).row = r /\ Type(t, c).col = t.col + 1 /\ Type(t, c).full = FALSE
  <2>1. (t.col + 1 = Len(t.row)) = FALSE
    BY <1>1
  <2>2. Type(t, c) = [t EXCEPT !.row[t.col + 1] = c, !.col = t.col + 1, !.full = FALSE]
    BY <2>1 DEF Type
  <2>. QED
    BY <1>1, <2>2
<1>5. \A k \in 1 .. n : r[k] = IF k = t.col + 1 THEN c ELSE t.row[k]
  BY <1>1
<1>. QED
  BY <1>3, <1>4, <1>5

LEMMA OverIs ==
    ASSUME NEW n \in Nat \ {0}, NEW t, Screen(t, n), t.full = FALSE,
           NEW s \in Seq(Ink), t.col + Len(s) < n
    PROVE  Over(t, s, Write(t, s), n)
<1>. DEFINE W == After(t, s)
            T == {k \in Nat : k <= Len(s) => OverTo(t, s, k, W[k], n)}
<1>0. t.col \in Nat /\ Len(s) \in Nat
  BY DEF Screen
<1>1. W[0] = t /\ \A i \in 1 .. Len(s) : W[i] = Put(W[i - 1], s[i])
  <2>1. \A i \in 0 .. Len(s) :
           After(t, s)[i] = IF i = 0 THEN t ELSE Put(After(t, s)[i - 1], s[i])
    BY <1>0, AfterSteps
  <2>2. 0 \in 0 .. Len(s) /\ \A i \in 1 .. Len(s) : i \in 0 .. Len(s) /\ i # 0
    BY <1>0
  <2>. QED
    BY <2>1, <2>2
<1>. HIDE DEF W
<1>2. 0 \in T
  BY <1>0, <1>1 DEF OverTo
<1>3. ASSUME NEW k \in Nat, k \in T PROVE k + 1 \in T
  <2>. SUFFICES ASSUME k + 1 <= Len(s) PROVE OverTo(t, s, k + 1, W[k + 1], n)
    OBVIOUS
  <2>1. k + 1 \in 1 .. Len(s) /\ (k + 1) - 1 = k /\ k <= Len(s)
    BY <1>0
  <2>. DEFINE x == W[k]
              c == s[k + 1]
  <2>2. W[k + 1] = Put(x, c) /\ c \in Ink
    BY <1>1, <2>1
  <2>3. OverTo(t, s, k, x, n)
    BY <1>3, <2>1
  <2>. HIDE DEF x
  <2>4. /\ Screen(x, n) /\ x.full = FALSE /\ x.col = t.col + k /\ x.col + 1 < n
        /\ \A j \in 1 .. n : x.row[j] = IF t.col < j /\ j <= t.col + k THEN s[j - t.col] ELSE t.row[j]
    BY <1>0, <2>3 DEF OverTo
  <2>5. /\ Screen(Put(x, c), n) /\ Put(x, c).full = FALSE /\ Put(x, c).col = x.col + 1
        /\ \A j \in 1 .. n : Put(x, c).row[j] = IF j = x.col + 1 THEN c ELSE x.row[j]
    <3>. HIDE DEF c
    <3>. QED
      BY <2>2, <2>4, TypeOver
  <2>7. x.col + 1 = t.col + (k + 1)
    <3>. DEFINE a == t.col
                b == x.col
    <3>1. a \in Nat /\ b = a + k
      BY <1>0, <2>4
    <3>. HIDE DEF a, b
    <3>2. b + 1 = a + (k + 1)
      BY <3>1
    <3>. QED
      BY <3>2 DEF a, b
  <2>6. ASSUME NEW j \in 1 .. n
        PROVE  Put(x, c).row[j] = IF t.col < j /\ j <= t.col + (k + 1) THEN s[j - t.col] ELSE t.row[j]
    <3>. DEFINE rj == Put(x, c).row[j]
    <3>1. rj = IF j = x.col + 1 THEN c ELSE x.row[j]
      BY <2>5
    <3>2. x.row[j] = IF t.col < j /\ j <= t.col + k THEN s[j - t.col] ELSE t.row[j]
      BY <2>4
    <3>. HIDE DEF rj
    <3>3. CASE j = t.col + (k + 1)
      <4>1. j - t.col = k + 1 /\ t.col < j /\ j <= t.col + (k + 1) /\ j = x.col + 1
        BY <1>0, <2>7, <3>3
      <4>. QED
        BY <3>1, <4>1 DEF rj
    <3>4. CASE j # t.col + (k + 1)
      <4>1. (j <= t.col + (k + 1) <=> j <= t.col + k) /\ j # x.col + 1
        BY <1>0, <2>4, <3>4
      <4>. QED
        BY <3>1, <3>2, <4>1 DEF rj
    <3>. QED
      BY <3>3, <3>4
  <2>8. OverTo(t, s, k + 1, Put(x, c), n)
    <3>. HIDE DEF c
    <3>. QED
      BY <2>5, <2>6, <2>7 DEF OverTo, c
  <2>. QED
    BY <2>2, <2>8
<1>. HIDE DEF T
<1>4. \A k \in Nat : k \in T
  BY <1>2, <1>3, SetInduction
<1>5. OverTo(t, s, Len(s), W[Len(s)], n)
  BY <1>0, <1>4 DEF T
<1>. QED
  BY <1>5 DEF Write, W, Over

LEMMA BackIs ==
    ASSUME NEW n \in Nat \ {0}, NEW t, Screen(t, n), t.full = FALSE,
           NEW m \in Nat, m <= t.col
    PROVE  Back(t, m, Write(t, Run(BS, m)), n)
<1>. DEFINE s == Run(BS, m)
            W == After(t, s)
            T == {k \in Nat : k <= m => Back(t, k, W[k], n)}
<1>0. /\ t.col \in Nat /\ Len(s) = m /\ \A k \in 1 .. m : s[k] = BS
  BY DEF Screen, Run
<1>. HIDE DEF s
<1>1. W[0] = t /\ \A i \in 1 .. m : W[i] = Put(W[i - 1], BS)
  <2>1. \A i \in 0 .. Len(s) :
           After(t, s)[i] = IF i = 0 THEN t ELSE Put(After(t, s)[i - 1], s[i])
    BY <1>0, AfterSteps
  <2>2. 0 \in 0 .. Len(s) /\ \A i \in 1 .. m : i \in 0 .. Len(s) /\ i # 0
    BY <1>0
  <2>. QED
    BY <1>0, <2>1, <2>2
<1>. HIDE DEF W
<1>2. 0 \in T
  BY <1>0, <1>1 DEF Back
<1>3. ASSUME NEW k \in Nat, k \in T PROVE k + 1 \in T
  <2>. SUFFICES ASSUME k + 1 <= m PROVE Back(t, k + 1, W[k + 1], n)
    OBVIOUS
  <2>1. k + 1 \in 1 .. m /\ (k + 1) - 1 = k /\ k <= m
    OBVIOUS
  <2>2. W[k + 1] = Put(W[k], BS) /\ Back(t, k, W[k], n)
    BY <1>1, <1>3, <2>1
  <2>. DEFINE x == W[k]
  <2>3. /\ Screen(x, n) /\ x.full = FALSE /\ x.col = t.col - k /\ x.row = t.row
        /\ x \in [row : Seq(Marks), col : Nat, full : BOOLEAN, down : Nat] /\ x.col # 0
    BY <1>0, <2>1, <2>2 DEF Back, Screen
  <2>4. /\ Screen(Put(x, BS), n) /\ Put(x, BS).full = FALSE /\ Put(x, BS).col = x.col - 1
    BY <2>3, InkIsMarks, PutIs
  <2>5. Put(x, BS).row = x.row
    <3>0. CR # BS /\ CR # NL /\ BS # NL
      BY DEF CR, BS, NL
    <3>1. ASSUME NEW c, c = BS
          PROVE  Put(x, c) = [x EXCEPT !.col = IF @ = 0 THEN 0 ELSE @ - 1, !.full = FALSE]
      BY <3>0, <3>1 DEF Put
    <3>. QED
      BY <2>3, <3>1
  <2>. HIDE DEF x
  <2>6. x.col - 1 = t.col - (k + 1)
    <3>. DEFINE a == t.col
                b == x.col
    <3>1. a \in Nat /\ b = a - k
      BY <1>0, <2>3
    <3>. HIDE DEF a, b
    <3>2. b - 1 = a - (k + 1)
      BY <3>1
    <3>. QED
      BY <3>2 DEF a, b
  <2>7. Back(t, k + 1, Put(x, BS), n)
    BY <2>3, <2>4, <2>5, <2>6 DEF Back
  <2>. QED
    BY <2>2, <2>7 DEF x
<1>. HIDE DEF T
<1>4. \A k \in Nat : k \in T
  BY <1>2, <1>3, SetInduction
<1>5. Back(t, m, W[m], n)
  BY <1>4 DEF T
<1>. QED
  BY <1>0, <1>5 DEF Write, W, s

\* One text after the other
LEMMA WriteJoined ==
    ASSUME NEW t, NEW a \in Seq(Marks), NEW b \in Seq(Marks)
    PROVE  Write(t, a \o b) = Write(Write(t, a), b)
<1>. DEFINE s == a \o b
            m == Len(a)
            W == After(t, s)
            A == After(t, a)
            B == After(Write(t, a), b)
            TA == {k \in Nat : k <= m => W[k] = A[k]}
            TB == {k \in Nat : k <= Len(b) => W[m + k] = B[k]}
<1>0. /\ m \in Nat /\ Len(b) \in Nat /\ Len(s) = m + Len(b)
      /\ \A k \in 1 .. m : s[k] = a[k]
      /\ \A k \in 1 .. Len(b) : s[m + k] = b[k]
  OBVIOUS
<1>00. Len(s) \in Nat
  BY <1>0
<1>. HIDE DEF s, m
<1>1. W[0] = t /\ \A i \in 1 .. Len(s) : W[i] = Put(W[i - 1], s[i])
  <2>1. \A i \in 0 .. Len(s) :
           After(t, s)[i] = IF i = 0 THEN t ELSE Put(After(t, s)[i - 1], s[i])
    BY <1>00, AfterSteps
  <2>2. 0 \in 0 .. Len(s) /\ \A i \in 1 .. Len(s) : i \in 0 .. Len(s) /\ i # 0
    BY <1>00
  <2>. QED
    BY <2>1, <2>2
<1>2. A[0] = t /\ \A i \in 1 .. m : A[i] = Put(A[i - 1], a[i])
  <2>0. Len(a) \in Nat /\ m = Len(a)
    BY DEF m
  <2>1. \A i \in 0 .. Len(a) :
           After(t, a)[i] = IF i = 0 THEN t ELSE Put(After(t, a)[i - 1], a[i])
    BY <2>0, AfterSteps
  <2>2. 0 \in 0 .. m /\ \A i \in 1 .. m : i \in 0 .. m /\ i # 0
    BY <1>0
  <2>. QED
    BY <2>0, <2>1, <2>2
<1>3. B[0] = Write(t, a) /\ \A i \in 1 .. Len(b) : B[i] = Put(B[i - 1], b[i])
  <2>1. \A i \in 0 .. Len(b) :
           After(Write(t, a), b)[i] = IF i = 0 THEN Write(t, a) ELSE Put(After(Write(t, a), b)[i - 1], b[i])
    BY <1>0, AfterSteps
  <2>2. 0 \in 0 .. Len(b) /\ \A i \in 1 .. Len(b) : i \in 0 .. Len(b) /\ i # 0
    BY <1>0
  <2>. QED
    BY <2>1, <2>2
<1>4. Write(t, a) = A[m] /\ Write(t, s) = W[Len(s)] /\ Write(Write(t, a), b) = B[Len(b)]
  BY DEF Write, m
<1>. HIDE DEF W, A, B
<1>5. \A k \in Nat : k \in TA
  <2>1. 0 \in TA
    BY <1>1, <1>2
  <2>2. ASSUME NEW k \in Nat, k \in TA PROVE k + 1 \in TA
    <3>. SUFFICES ASSUME k + 1 <= m PROVE W[k + 1] = A[k + 1]
      OBVIOUS
    <3>1. k + 1 \in 1 .. m /\ k + 1 \in 1 .. Len(s) /\ (k + 1) - 1 = k /\ k <= m
      BY <1>0
    <3>2. W[k + 1] = Put(W[k], s[k + 1]) /\ A[k + 1] = Put(A[k], a[k + 1]) /\ s[k + 1] = a[k + 1]
      BY <1>0, <1>1, <1>2, <3>1
    <3>. QED
      BY <2>2, <3>1, <3>2
  <2>. HIDE DEF TA
  <2>. QED
    BY <2>1, <2>2, SetInduction
<1>6. W[m] = A[m]
  BY <1>0, <1>5
<1>7. \A k \in Nat : k \in TB
  <2>1. 0 \in TB
    BY <1>0, <1>3, <1>4, <1>6
  <2>2. ASSUME NEW k \in Nat, k \in TB PROVE k + 1 \in TB
    <3>. SUFFICES ASSUME k + 1 <= Len(b) PROVE W[m + (k + 1)] = B[k + 1]
      OBVIOUS
    <3>1. /\ k + 1 \in 1 .. Len(b) /\ m + (k + 1) \in 1 .. Len(s)
          /\ (m + (k + 1)) - 1 = m + k /\ (k + 1) - 1 = k /\ k <= Len(b)
      BY <1>0
    <3>2. /\ W[m + (k + 1)] = Put(W[m + k], s[m + (k + 1)])
          /\ B[k + 1] = Put(B[k], b[k + 1]) /\ s[m + (k + 1)] = b[k + 1]
      BY <1>0, <1>1, <1>3, <3>1
    <3>. QED
      BY <2>2, <3>1, <3>2
  <2>. HIDE DEF TB
  <2>. QED
    BY <2>1, <2>2, SetInduction
<1>8. W[m + Len(b)] = B[Len(b)]
  BY <1>0, <1>7
<1>. QED
  BY <1>0, <1>4, <1>8 DEF s

----------------------------------------------------------------------------
(***************************************************************************)
(* What gl_fixup knows of the row, and where it puts the cursor.  n is the *)
(* width of the window.                                                    *)
(***************************************************************************)
Ttys == [row : Seq(Marks), col : Nat, full : BOOLEAN, down : Nat]
Editors == [pos : Nat, cnt : Int, shift : Nat, left : BOOLEAN, right : BOOLEAN,
            width : Int, prompt : Seq(Ink), tty : Ttys]

\* There is room for a line behind the prompt p: more than a step of scrolling
RoomBehind(p, n) == Len(p) + n \div 3 + 3 <= n

\* The prompt is drawn, and the cursor is where pos and shift say
Begun(d, n) ==
    /\ d \in Editors /\ Screen(d.tty, n) /\ d.tty.full = FALSE
    /\ RoomBehind(d.prompt, n) /\ Len(d.prompt) + d.width = n
    /\ d.shift <= d.pos /\ d.pos - d.shift <= d.width - 1
    /\ d.tty.col = Len(d.prompt) + (d.pos - d.shift)
    /\ \A k \in 1 .. Len(d.prompt) : d.tty.row[k] = d.prompt[k]
    /\ d.left <=> d.shift > 0
    /\ ~d.right => d.cnt - d.shift <= d.width - 1

\* The columns behind the prompt that are drawn on, and nothing behind column e
Reach(d) == IF d.right THEN d.width - 1 ELSE d.cnt - d.shift
EndOf(d) == Len(d.prompt) + Reach(d)
Swept(d, n, e) == \A k \in 1 .. n - 1 : k > e /\ k > Len(d.prompt) => d.tty.row[k] = Blank

\* What is in the k-th column behind the prompt
Cell(d, l, k) ==
    IF k = 1 /\ d.left THEN Marker
    ELSE IF d.right /\ k = d.width - 1 THEN Marker
    ELSE IF d.shift + k <= Len(l) THEN l[d.shift + k] ELSE Blank

\* What gl_fixup knows of the line l
Placed(d, l) ==
    /\ d.cnt = Len(l) /\ d.pos <= Len(l)
    /\ d.shift > 0 => d.shift < d.pos
    /\ d.right <=> d.cnt > d.shift + d.width - 1

Shown(d, l, n) ==
    /\ Begun(d, n) /\ Placed(d, l)
    /\ \A k \in 1 .. d.width - 1 : d.tty.row[Len(d.prompt) + k] = Cell(d, l, k)

\* m is what the editor d is to be, with the cursor at to
Aims(d, m, l, change, to) ==
    /\ m \in Editors /\ m.width = d.width /\ m.prompt = d.prompt /\ m.tty = d.tty
    /\ m.pos = to /\ m.cnt = (IF change >= 0 THEN Len(l) ELSE d.cnt)
    /\ m.shift = ShiftFor(d, to)
    /\ m.left = (IF m.shift # d.shift THEN m.shift > 0 ELSE d.left)
    /\ m.right = (IF m.shift # d.shift \/ change >= 0
                  THEN m.cnt > m.shift + d.width - 1 ELSE d.right)

LEMMA Multiple ==
    ASSUME NEW a \in Nat, NEW b \in Nat \ {0}
    PROVE  /\ (a \div b) * b \in Nat /\ (a \div b) * b <= a /\ a - b < (a \div b) * b
           /\ \A c \in Nat : a <= c => (a \div b) * b <= (c \div b) * b
<1>1. a \div b \in Nat /\ (a \div b) * b <= a /\ a - b < (a \div b) * b
  OBVIOUS
<1>2. (a \div b) * b \in Nat
  BY <1>1
<1>3. ASSUME NEW c \in Nat, a <= c PROVE (a \div b) * b <= (c \div b) * b
  <2>1. a \div b <= c \div b /\ a \div b \in Nat /\ c \div b \in Nat
    BY <1>3
  <2>2. \A x, y \in Nat : x <= y => x * b <= y * b
    OBVIOUS
  <2>. QED
    BY <2>1, <2>2
<1>. QED
  BY <1>1, <1>2, <1>3

LEMMA ShiftIs ==
    ASSUME NEW n \in Nat \ {0}, termw = n, NEW d, Begun(d, n), NEW to \in Nat
    PROVE  LET shift == ShiftFor(d, to) IN
           /\ shift \in Nat /\ shift <= to /\ (shift > 0 => shift < to)
           /\ to - shift <= d.width - 1
           /\ d.right => to - shift <= d.width - 3
<1>1. /\ d.width \in Int /\ d.shift \in Nat /\ Len(d.prompt) \in Nat /\ d.right \in BOOLEAN
      /\ Len(d.prompt) + n \div 3 + 3 <= n /\ Len(d.prompt) + d.width = n
  BY DEF Begun, Editors, RoomBehind
<1>. DEFINE c == n \div 3
            extra == IF d.right \/ (d.left /\ to < d.shift + d.width - scrollw \div 2)
                     THEN 2 ELSE 0
            want == to + extra + c - d.width
<1>2. c \in Nat \ {0} /\ scrollw = c /\ d.width >= c + 3
  <2>1. scrollw = c
    BY DEF scrollw
  <2>2. c + 3 <= n /\ c \in Nat
    <3>1. \A p, q \in Nat : p + q + 3 <= n => q + 3 <= n
      OBVIOUS
    <3>2. c \in Nat
      OBVIOUS
    <3>. QED
      BY <1>1, <3>1, <3>2
  <2>3. c # 0
    BY <2>2
  <2>. HIDE DEF c
  <2>4. Len(d.prompt) + c + 3 <= n
    BY <1>1 DEF c
  <2>. QED
    BY <1>1, <2>1, <2>2, <2>3, <2>4
<1>3. extra \in {0, 2} /\ (d.right => extra = 2)
  OBVIOUS
<1>4. ShiftFor(d, to) = IF want > 0 THEN (want \div c) * c ELSE 0
  BY <1>2 DEF ShiftFor
<1>. HIDE DEF c, extra
<1>5. CASE want > 0
  <2>1. want \in Nat
    BY <1>1, <1>2, <1>3, <1>5
  <2>2. (want \div c) * c \in Nat /\ (want \div c) * c <= want /\ want - c < (want \div c) * c
    <3>. HIDE DEF want
    <3>. QED
      BY <1>2, <2>1, Multiple
  <2>. DEFINE s == (want \div c) * c
  <2>. HIDE DEF s
  <2>3. s \in Nat /\ s <= want /\ want - c < s
    BY <2>2 DEF s
  <2>4. ShiftFor(d, to) = s
    BY <1>4, <1>5 DEF s
  <2>5. want = to + extra + c - d.width
    OBVIOUS
  <2>. HIDE DEF want
  <2>. DEFINE w == d.width
  <2>6. w \in Int /\ w >= c + 3 /\ want = to + extra + c - w
    BY <1>1, <1>2, <2>5
  <2>. HIDE DEF w
  <2>7. s < to /\ to - s <= w - 1 - extra
    BY <1>2, <1>3, <2>3, <2>6
  <2>8. /\ s <= to /\ (s > 0 => s < to) /\ to - s <= w - 1
        /\ extra = 2 => to - s <= w - 3
    BY <1>3, <2>3, <2>6, <2>7
  <2>. QED
    BY <1>3, <2>3, <2>4, <2>8 DEF w
<1>6. CASE ~(want > 0)
  BY <1>1, <1>2, <1>3, <1>4, <1>6
<1>. QED
  BY <1>5, <1>6

\* On a row of its own, a line does not scroll more than it did
LEMMA ShiftIsLeast ==
    ASSUME NEW n \in Nat \ {0}, termw = n, NEW d, Begun(d, n), NEW x, NEW to \in Nat,
           x.width = d.width, x.left = FALSE, x.right = FALSE
    PROVE  ShiftFor(x, to) <= ShiftFor(d, to)
<1>1. /\ d.width \in Int /\ d.shift \in Nat /\ Len(d.prompt) \in Nat
      /\ Len(d.prompt) + n \div 3 + 3 <= n /\ Len(d.prompt) + d.width = n
  BY DEF Begun, Editors, RoomBehind
<1>. DEFINE c == n \div 3
            extra == IF d.right \/ (d.left /\ to < d.shift + d.width - scrollw \div 2)
                     THEN 2 ELSE 0
            want == to + extra + c - d.width
            least == to + 0 + c - d.width
<1>2. c \in Nat \ {0} /\ scrollw = c
  <2>1. scrollw = c
    BY DEF scrollw
  <2>2. c + 3 <= n /\ c \in Nat
    <3>1. \A p, q \in Nat : p + q + 3 <= n => q + 3 <= n
      OBVIOUS
    <3>2. c \in Nat
      OBVIOUS
    <3>. QED
      BY <1>1, <3>1, <3>2
  <2>3. c # 0
    BY <2>2
  <2>. QED
    BY <2>1, <2>2, <2>3
<1>3. ShiftFor(d, to) = IF want > 0 THEN (want \div c) * c ELSE 0
  BY <1>2 DEF ShiftFor
<1>4. ShiftFor(x, to) = IF least > 0 THEN (least \div c) * c ELSE 0
  BY <1>2 DEF ShiftFor
<1>5. extra \in {0, 2}
  OBVIOUS
<1>. HIDE DEF c, extra
<1>6. want \in Int /\ least \in Int /\ least <= want
  BY <1>1, <1>2, <1>5
<1>. HIDE DEF want, least
<1>7. CASE least > 0
  <2>1. least \in Nat /\ want \in Nat /\ want > 0
    BY <1>6, <1>7
  <2>2. (least \div c) * c <= (want \div c) * c
    BY <1>2, <1>6, <2>1, Multiple
  <2>. QED
    BY <1>3, <1>4, <1>7, <2>1, <2>2
<1>8. CASE ~(least > 0)
  <2>1. CASE want > 0
    <3>0. want \in Nat
      BY <1>6, <2>1
    <3>1. (want \div c) * c \in Nat
      BY <1>2, <3>0, Multiple
    <3>2. 0 <= (want \div c) * c
      BY <3>1
    <3>. QED
      BY <1>3, <1>4, <1>8, <2>1, <3>2
  <2>2. CASE ~(want > 0)
    BY <1>3, <1>4, <1>8, <2>2
  <2>. QED
    BY <2>1, <2>2
<1>. QED
  BY <1>7, <1>8

Clamped(cursor, cnt) == IF cursor > cnt THEN cnt ELSE IF cursor < 0 THEN 0 ELSE cursor

LEMMA ShiftNat ==
    ASSUME NEW n \in Nat, n >= 3, termw = n, NEW d \in Editors, NEW to \in Nat
    PROVE  ShiftFor(d, to) \in Nat
<1>. DEFINE c == n \div 3
            extra == IF d.right \/ (d.left /\ to < d.shift + d.width - scrollw \div 2)
                     THEN 2 ELSE 0
            want == to + extra + c - d.width
<1>1. c \in Nat \ {0} /\ scrollw = c
  BY DEF scrollw
<1>2. extra \in {0, 2} /\ d.width \in Int
  BY DEF Editors
<1>3. ShiftFor(d, to) = IF want > 0 THEN (want \div c) * c ELSE 0
  BY <1>1 DEF ShiftFor
<1>. HIDE DEF c, extra
<1>4. want \in Int
  BY <1>1, <1>2
<1>. HIDE DEF want
<1>5. want > 0 => (want \div c) * c \in Nat
  BY <1>1, <1>4, Multiple
<1>. QED
  BY <1>3, <1>5

\* gl_fixup_scroll behind the prompt
LEMMA PromptedIs ==
    ASSUME NEW n \in Nat, n >= 3, termw = n, NEW d \in Editors, NEW l \in Seq(Ink),
           NEW change \in Int, NEW cursor \in Int, NEW extent \in Nat,
           change < 0 => d.cnt = Len(l)
    PROVE  \E m : /\ Aims(d, m, l, change, Clamped(cursor, Len(l)))
                  /\ Prompted(d, l, change, cursor, extent)
                       = [m EXCEPT !.tty = Write(d.tty, Changed(d, m, l, change, extent))]
<1>. DEFINE cnt == IF change >= 0 THEN Len(l) ELSE d.cnt
            to == Clamped(cursor, Len(l))
            shift == ShiftFor(d, to)
            m == [d EXCEPT !.pos = to, !.cnt = cnt, !.shift = shift,
                           !.left = IF shift # d.shift THEN shift > 0 ELSE @,
                           !.right = IF shift # d.shift \/ change >= 0
                                     THEN cnt > shift + d.width - 1 ELSE @]
<1>1. Len(l) \in Nat /\ cnt = Len(l) /\ d \in Editors
  OBVIOUS
<1>2. Max({0, P!Min({cursor, cnt})}) = to /\ to \in Nat
  <2>1. P!Min({cursor, cnt}) = IF cursor <= cnt THEN cursor ELSE cnt
    BY <1>1, LesserNumber
  <2>. DEFINE a == P!Min({cursor, cnt})
  <2>2. a \in Int
    BY <1>1, <2>1
  <2>. HIDE DEF a
  <2>3. Max({0, a}) = IF 0 >= a THEN 0 ELSE a
    <3>1. \A z \in Int : Max({z, a}) = IF z >= a THEN z ELSE a
      BY <2>2, LesserNumber
    <3>. QED
      BY <3>1
  <2>4. a = IF cursor <= cnt THEN cursor ELSE cnt
    BY <2>1 DEF a
  <2>. HIDE DEF cnt
  <2>5. Max({0, a}) = to /\ to \in Nat
    BY <1>1, <2>2, <2>3, <2>4 DEF Clamped
  <2>. QED
    BY <2>5 DEF a
<1>3. Min({cursor, cnt}) = P!Min({cursor, cnt})
  BY Zenon DEF Min, P!Min
<1>4. Prompted(d, l, change, cursor, extent) = Fitted(d, l, change, cnt, to, extent)
  BY <1>2, <1>3 DEF Prompted
<1>5. Fitted(d, l, change, cnt, to, extent) = Shifted(d, l, change, cnt, to, shift, extent)
  BY DEF Fitted
<1>6. Shifted(d, l, change, cnt, to, shift, extent) = Redrawn(d, m, l, change, extent)
  BY DEF Shifted
<1>7. Redrawn(d, m, l, change, extent)
        = [m EXCEPT !.tty = Write(d.tty, Changed(d, m, l, change, extent))]
  BY DEF Redrawn
<1>8. Aims(d, m, l, change, to)
  <2>1. shift \in Nat
    BY <1>2, ShiftNat
  <2>. DEFINE lf == IF shift # d.shift THEN shift > 0 ELSE d.left
              rt == IF shift # d.shift \/ change >= 0 THEN cnt > shift + d.width - 1 ELSE d.right
  <2>2. cnt \in Int /\ to \in Nat /\ lf \in BOOLEAN /\ rt \in BOOLEAN
    <3>1. d.left \in BOOLEAN /\ d.right \in BOOLEAN /\ d.width \in Int
      BY <1>1 DEF Editors
    <3>2. cnt \in Int /\ to \in Nat
      BY <1>1, <1>2
    <3>3. \A i \in Int : (i > 0) \in BOOLEAN
      OBVIOUS
    <3>4. \A i, j, k \in Int : (i > j + k - 1) \in BOOLEAN
      OBVIOUS
    <3>5. shift \in Int
      BY <2>1
    <3>. HIDE DEF cnt, to, shift
    <3>6. (shift > 0) \in BOOLEAN
      BY <3>3, <3>5, Zenon
    <3>7. (cnt > shift + d.width - 1) \in BOOLEAN
      BY <3>1, <3>2, <3>4, <3>5, Zenon
    <3>8. lf \in BOOLEAN /\ rt \in BOOLEAN
      BY <3>1, <3>6, <3>7, Zenon
    <3>. QED
      BY <3>2, <3>8
  <2>. DEFINE x == [d EXCEPT !.pos = to, !.cnt = cnt, !.shift = shift, !.left = lf, !.right = rt]
  <2>3. m = x
    OBVIOUS
  <2>4. /\ x \in Editors /\ x.width = d.width /\ x.prompt = d.prompt /\ x.tty = d.tty
        /\ x.pos = to /\ x.cnt = cnt /\ x.shift = shift /\ x.left = lf /\ x.right = rt
    <3>. HIDE DEF lf, rt, cnt, to, shift
    <3>. QED
      BY <1>1, <2>1, <2>2 DEF Editors
  <2>. HIDE DEF x, m
  <2>5. Aims(d, x, l, change, to)
    BY <1>1, <2>4 DEF Aims
  <2>. QED
    BY <2>3, <2>5
<1>. HIDE DEF m
<1>. QED
  BY <1>4, <1>5, <1>6, <1>7, <1>8

----------------------------------------------------------------------------
(***************************************************************************)
(* What gl_fixup writes, in the order in which it writes it                *)
(***************************************************************************)
\* u is t after b backspaces, the texts f and g and r more backspaces
Painted(t, b, f, g, r, u, n) ==
    /\ Screen(u, n) /\ u.full = FALSE
    /\ u.col = (t.col - b) + Len(f) + Len(g) - r
    /\ \A k \in 1 .. n : u.row[k] =
          IF k <= t.col - b \/ k > (t.col - b) + Len(f) + Len(g) THEN t.row[k]
          ELSE IF k <= (t.col - b) + Len(f) THEN f[k - (t.col - b)]
          ELSE g[k - (t.col - b) - Len(f)]

LEMMA RunIsText ==
    ASSUME NEW c \in Marks, NEW m \in Nat
    PROVE  /\ Run(c, m) \in Seq(Marks) /\ Len(Run(c, m)) = m
           /\ c \in Ink => Run(c, m) \in Seq(Ink)
BY DEF Run

LEMMA TimesIs ==
    ASSUME NEW c, NEW m \in Int
    PROVE  Times(c, m) = IF m >= 0 THEN Run(c, m) ELSE Run(c, 0)
<1>1. \A z \in Int : Max({z, m}) = IF z >= m THEN z ELSE m
  BY LesserNumber
<1>2. Max({0, m}) = IF m >= 0 THEN m ELSE 0
  BY <1>1
<1>. QED
  BY <1>2 DEF Times, Run

LEMMA InkText == \A s \in Seq(Ink) : s \in Seq(Marks)
BY InkIsMarks

LEMMA PaintsIs ==
    ASSUME NEW n \in Nat \ {0}, NEW t, Screen(t, n), t.full = FALSE,
           NEW b \in Nat, b <= t.col, NEW f \in Seq(Ink), NEW g \in Seq(Ink),
           (t.col - b) + Len(f) + Len(g) < n,
           NEW r \in Nat, r <= (t.col - b) + Len(f) + Len(g)
    PROVE  Painted(t, b, f, g, r, Write(t, Run(BS, b) \o f \o g \o Run(BS, r)), n)
<1>. DEFINE t1 == Write(t, Run(BS, b))
            t2 == Write(t1, f)
            t3 == Write(t2, g)
            t4 == Write(t3, Run(BS, r))
<1>1. /\ Run(BS, b) \in Seq(Marks) /\ Run(BS, r) \in Seq(Marks)
      /\ f \in Seq(Marks) /\ g \in Seq(Marks)
  BY InkIsMarks, InkText, RunIsText
<1>3. Write(t, Run(BS, b) \o f \o g \o Run(BS, r)) = t4
  <2>. DEFINE p == Run(BS, b) \o f
              q == p \o g
  <2>1. Write(t, p) = t2 /\ p \in Seq(Marks)
    BY <1>1, WriteJoined
  <2>. HIDE DEF p
  <2>2. Write(t, q) = t3 /\ q \in Seq(Marks)
    BY <1>1, <2>1, WriteJoined
  <2>. HIDE DEF q
  <2>3. Write(t, q \o Run(BS, r)) = t4
    BY <1>1, <2>2, WriteJoined
  <2>. QED
    BY <2>3 DEF p, q
<1>4. t.col \in Nat /\ Len(f) \in Nat /\ Len(g) \in Nat
  BY DEF Screen
<1>5. Back(t, b, t1, n)
  BY BackIs
<1>. HIDE DEF t1
<1>6. Over(t1, f, t2, n)
  <2>1. Screen(t1, n) /\ t1.full = FALSE /\ t1.col + Len(f) < n
    BY <1>4, <1>5 DEF Back
  <2>. QED
    BY <2>1, OverIs
<1>. HIDE DEF t2
<1>7. Over(t2, g, t3, n)
  <2>1. Screen(t2, n) /\ t2.full = FALSE /\ t2.col + Len(g) < n
    BY <1>4, <1>5, <1>6 DEF Back, Over, OverTo
  <2>. QED
    BY <2>1, OverIs
<1>. HIDE DEF t3
<1>8. Back(t3, r, t4, n)
  <2>1. Screen(t3, n) /\ t3.full = FALSE /\ r <= t3.col
    BY <1>4, <1>5, <1>6, <1>7 DEF Back, Over, OverTo
  <2>. QED
    BY <2>1, BackIs
<1>. HIDE DEF t4
<1>9. Painted(t, b, f, g, r, t4, n)
  <2>1. t1.col = t.col - b /\ t2.col = (t.col - b) + Len(f) /\ t3.col = (t.col - b) + Len(f) + Len(g)
    BY <1>4, <1>5, <1>6, <1>7 DEF Back, Over, OverTo
  <2>2. Screen(t4, n) /\ t4.full = FALSE /\ t4.col = (t.col - b) + Len(f) + Len(g) - r
    <3>1. Screen(t4, n) /\ t4.full = FALSE /\ t4.col = t3.col - r
      BY <1>8 DEF Back
    <3>2. t3.col - r = (t.col - b) + Len(f) + Len(g) - r
      BY <1>4, <2>1
    <3>. QED
      BY <3>1, <3>2, Zenon
  <2>3. ASSUME NEW k \in 1 .. n
        PROVE  t4.row[k] =
          IF k <= t.col - b \/ k > (t.col - b) + Len(f) + Len(g) THEN t.row[k]
          ELSE IF k <= (t.col - b) + Len(f) THEN f[k - (t.col - b)]
          ELSE g[k - (t.col - b) - Len(f)]
    <3>1. t1.row = t.row /\ t4.row = t3.row
      BY <1>5, <1>8 DEF Back
    <3>2. t2.row[k] = IF t1.col < k /\ k <= t1.col + Len(f) THEN f[k - t1.col] ELSE t1.row[k]
      BY <1>6 DEF Over, OverTo
    <3>3. t3.row[k] = IF t2.col < k /\ k <= t2.col + Len(g) THEN g[k - t2.col] ELSE t2.row[k]
      BY <1>7 DEF Over, OverTo
    <3>. DEFINE c == t.col - b
                lf == Len(f)
                lg == Len(g)
    <3>4. c \in Nat /\ lf \in Nat /\ lg \in Nat /\ t1.col = c /\ t2.col = c + lf
      BY <1>4, <2>1
    <3>5. k - (c + lf) = k - c - lf
      BY <3>4
    <3>. HIDE DEF c, lf, lg
    <3>6. t2.row[k] = IF c < k /\ k <= c + lf THEN f[k - c] ELSE t.row[k]
      BY <3>1, <3>2, <3>4 DEF lf
    <3>7. t3.row[k] = IF c + lf < k /\ k <= c + lf + lg THEN g[k - c - lf] ELSE t2.row[k]
      BY <3>3, <3>4, <3>5 DEF lg
    <3>8. t3.row[k] = IF k <= c \/ k > c + lf + lg THEN t.row[k]
                      ELSE IF k <= c + lf THEN f[k - c] ELSE g[k - c - lf]
      BY <3>4, <3>6, <3>7
    <3>. QED
      BY <3>1, <3>8 DEF c, lf, lg
  <2>. QED
    BY <2>2, <2>3 DEF Painted
<1>. QED
  BY <1>3, <1>9

\* A part of the line
LEMMA PieceIs ==
    ASSUME NEW l \in Seq(Ink), NEW a \in Nat, NEW c \in Nat, a <= c, c <= Len(l)
    PROVE  /\ Piece(l, a, c) \in Seq(Ink) /\ Len(Piece(l, a, c)) = c - a
           /\ \A k \in 1 .. c - a : Piece(l, a, c)[k] = l[a + k]
<1>1. Piece(l, a, c) = [k \in 1 .. c - a |-> l[a + k]]
  <2>1. Piece(l, a, c) = SubSeq(l, a + 1, c)
    BY DEF Piece
  <2>2. SubSeq(l, a + 1, c) = [k \in 1 .. (1 + c - (a + 1)) |-> l[k + (a + 1) - 1]]
    OBVIOUS
  <2>3. 1 + c - (a + 1) = c - a /\ \A k \in 1 .. c - a : k + (a + 1) - 1 = a + k
    OBVIOUS
  <2>. QED
    BY <2>1, <2>2, <2>3
<1>2. c - a \in Nat /\ \A k \in 1 .. c - a : a + k \in 1 .. Len(l)
  <2>1. \A m \in Nat : c <= m => \A k \in 1 .. c - a : a + k \in 1 .. m
    OBVIOUS
  <2>. QED
    BY <2>1
<1>3. \A k \in 1 .. c - a : l[a + k] \in Ink
  BY <1>2
<1>. HIDE DEF Piece
<1>. QED
  BY <1>1, <1>2, <1>3

LEMMA NothingLeft ==
    ASSUME NEW s \in Seq(Marks), Len(s) = 0
    PROVE  s = Run(BS, 0)
BY DEF Run

\* The cursor goes back
LEMMA CursorIs ==
    ASSUME NEW l \in Seq(Ink), NEW from \in Nat, NEW to \in Nat, to <= from, to <= Len(l)
    PROVE  Cursor(l, from, to) = Run(BS, from - to)
<1>1. CASE from > to
  <2>1. Cursor(l, from, to) = Times(BS, from - to)
    BY <1>1 DEF Cursor
  <2>2. from - to \in Int /\ from - to >= 0
    OBVIOUS
  <2>. QED
    BY <2>1, <2>2, TimesIs
<1>2. CASE from = to
  <2>1. Piece(l, to, to) \in Seq(Ink) /\ Len(Piece(l, to, to)) = 0
    BY PieceIs
  <2>2. Piece(l, to, to) = Run(BS, 0)
    BY <2>1, NothingLeft, InkText
  <2>. QED
    BY <1>2, <2>2 DEF Cursor
<1>. QED
  BY <1>1, <1>2

RightEnd(m) == IF m.right THEN m.shift + m.width - 2 ELSE m.cnt
Upto(d, m, left, extent) ==
    IF m.shift = d.shift /\ extent > 0 /\ RightEnd(m) > left + extent
    THEN left + extent ELSE RightEnd(m)
GoesOn(d, m, left, extent) == m.right /\ Upto(d, m, left, extent) = RightEnd(m)

Padding(d, m) == IF Reach(d) > Reach(m) THEN Reach(d) - Reach(m) ELSE 0

\* m is the editor d with what the line l is to be
Targets(d, m, l) ==
    /\ m \in Editors /\ m.width = d.width /\ m.prompt = d.prompt /\ m.tty = d.tty
    /\ m.cnt = Len(l) /\ m.shift <= m.pos /\ m.pos <= Len(l) /\ m.pos - m.shift <= m.width - 1
    /\ m.left <=> m.shift > 0
    /\ m.shift > 0 => m.shift < m.pos
    /\ m.right <=> m.cnt > m.shift + m.width - 1

\* Column j behind the prompt when the line was drawn from left to upto, and
\* then a marker or so many blanks; c is what was there
Redrew(m, l, left, upto, goeson, pad, j, c) ==
    IF j <= left - m.shift THEN c
    ELSE IF j <= upto - m.shift THEN IF j = 1 /\ m.left THEN Marker ELSE l[m.shift + j]
    ELSE IF goeson THEN IF j = upto - m.shift + 1 THEN Marker ELSE c
    ELSE IF j <= upto - m.shift + pad THEN Blank ELSE c

Drew(d, m, l, left, extent, t, n) ==
    /\ Screen(t, n) /\ t.full = FALSE
    /\ t.col = Len(d.prompt) + (m.pos - m.shift)
    /\ \A k \in 1 .. n : t.row[k] = Redrew(m, l, left, Upto(d, m, left, extent),
                                           GoesOn(d, m, left, extent), Padding(d, m),
                                           k - Len(d.prompt), d.tty.row[k])

\* Where a part of the line can be drawn from
CanDraw(d, m, left, extent) ==
    /\ m.shift <= left /\ left <= RightEnd(m)
    /\ left - m.shift <= d.pos - d.shift
    /\ extent > 0 /\ m.shift = d.shift => m.pos <= left + extent

First(m, l, left, upto) ==
    IF left = m.shift /\ m.left THEN <<Marker>> \o Piece(l, left + 1, upto)
    ELSE Piece(l, left, upto)

LEMMA FirstIs ==
    ASSUME NEW m, NEW l \in Seq(Ink), NEW left \in Nat, NEW upto \in Nat,
           left <= upto, upto <= Len(l), left = m.shift /\ m.left => left < upto
    PROVE  /\ First(m, l, left, upto) \in Seq(Ink) /\ Len(First(m, l, left, upto)) = upto - left
           /\ \A k \in 1 .. upto - left : First(m, l, left, upto)[k] =
                IF k = 1 /\ left = m.shift /\ m.left THEN Marker ELSE l[left + k]
<1>1. CASE left = m.shift /\ m.left
  <2>. DEFINE s == Piece(l, left + 1, upto)
              q == <<Marker>> \o s
  <2>0. left + 1 \in Nat /\ left + 1 <= upto
    BY <1>1
  <2>1. /\ s \in Seq(Ink) /\ Len(s) = upto - (left + 1)
        /\ \A k \in 1 .. upto - (left + 1) : s[k] = l[(left + 1) + k]
    BY <2>0, PieceIs
  <2>. HIDE DEF s
  <2>2. /\ q \in Seq(Ink) /\ Len(q) = 1 + (upto - (left + 1)) /\ q[1] = Marker
        /\ \A k \in 1 .. upto - (left + 1) : q[1 + k] = s[k]
    BY <2>1, InkIsMarks
  <2>. HIDE DEF q
  <2>3. ASSUME NEW k \in 1 .. upto - left, k # 1 PROVE q[k] = l[left + k]
    <3>1. k - 1 \in 1 .. upto - (left + 1) /\ 1 + (k - 1) = k /\ (left + 1) + (k - 1) = left + k
      BY <2>3
    <3>2. q[1 + (k - 1)] = l[(left + 1) + (k - 1)]
      BY <2>1, <2>2, <3>1
    <3>. QED
      BY <3>1, <3>2
  <2>4. 1 + (upto - (left + 1)) = upto - left
    OBVIOUS
  <2>5. First(m, l, left, upto) = q
    BY <1>1 DEF First, q, s
  <2>. QED
    BY <1>1, <2>2, <2>3, <2>4, <2>5
<1>2. CASE ~(left = m.shift /\ m.left)
  BY <1>2, PieceIs DEF First
<1>. QED
  BY <1>1, <1>2

LEMMA BehindIs ==
    ASSUME NEW goeson, NEW pad \in Nat
    PROVE  LET g == IF goeson THEN <<Marker>> ELSE Times(Blank, pad) IN
           /\ g \in Seq(Ink) /\ Len(g) = IF goeson THEN 1 ELSE pad
           /\ \A k \in 1 .. Len(g) : g[k] = IF goeson THEN Marker ELSE Blank
<1>1. Times(Blank, pad) = Run(Blank, pad)
  BY TimesIs
<1>2. Run(Blank, pad) \in Seq(Ink) /\ Len(Run(Blank, pad)) = pad
  BY InkIsMarks, RunIsText
<1>3. \A k \in 1 .. pad : Run(Blank, pad)[k] = Blank
  BY DEF Run
<1>4. <<Marker>> \in Seq(Ink) /\ Len(<<Marker>>) = 1 /\ <<Marker>>[1] = Marker
  BY InkIsMarks
<1>5. CASE goeson
  BY <1>4, <1>5
<1>6. CASE ~goeson
  BY <1>1, <1>2, <1>3, <1>6
<1>. QED
  BY <1>5, <1>6

LEMMA PadIs ==
    ASSUME NEW d \in Editors, NEW m \in Editors
    PROVE  Pad(Reach(d), Reach(m)) = Padding(d, m) /\ Padding(d, m) \in Nat
<1>1. Reach(d) \in Int /\ Reach(m) \in Int
  BY DEF Reach, Editors
<1>. DEFINE a == Reach(d)
            b == Reach(m)
<1>. HIDE DEF a, b
<1>2. a \in Int /\ b \in Int /\ a - b \in Int
  BY <1>1 DEF a, b
<1>3. \A z \in Int : Max({z, a - b}) = IF z >= a - b THEN z ELSE a - b
  BY <1>2, LesserNumber
<1>4. Max({0, a - b}) = IF a > b THEN a - b ELSE 0
  BY <1>2, <1>3
<1>5. (IF a > b THEN a - b ELSE 0) \in Nat
  BY <1>2
<1>. QED
  BY <1>4, <1>5 DEF Pad, Padding, a, b

\* The numbers that are reckoned with
DrawsIn(p, w, len, dpos, dshift, pos, shift, left, right, same, from, extent,
        re, upto, goeson, old, new, pad, more) ==
    /\ p \in Nat /\ w \in Int /\ w >= 3 /\ len \in Nat /\ dpos \in Nat /\ dshift \in Nat
    /\ pos \in Nat /\ shift \in Nat /\ from \in Nat /\ extent \in Nat /\ pad \in Nat
    /\ dshift <= dpos /\ shift <= pos /\ pos <= len /\ pos - shift <= w - 1
    /\ left => shift < pos
    /\ right => len > shift + w - 1 /\ re = shift + w - 2 /\ new = w - 1
    /\ ~right => len <= shift + w - 1 /\ re = len /\ new = len - shift
    /\ shift <= from /\ from <= re /\ from - shift <= dpos - dshift
    /\ same /\ extent > 0 => pos <= from + extent
    /\ same /\ extent > 0 /\ re > from + extent => upto = from + extent
    /\ ~(same /\ extent > 0 /\ re > from + extent) => upto = re
    /\ goeson <=> right /\ upto = re
    /\ old \in Int /\ old <= w - 1
    /\ old > new => pad = old - new
    /\ ~(old > new) => pad = 0
    /\ goeson => more = 1
    /\ ~goeson => more = pad

\* Nothing is drawn past the last column but one, and the cursor not ahead of it
LEMMA DrawnFits ==
    ASSUME NEW p, NEW w, NEW len, NEW dpos, NEW dshift, NEW pos, NEW shift, NEW left, NEW right,
           NEW same, NEW from, NEW extent, NEW re, NEW upto, NEW goeson, NEW old, NEW new,
           NEW pad, NEW more,
           DrawsIn(p, w, len, dpos, dshift, pos, shift, left, right, same, from, extent,
                   re, upto, goeson, old, new, pad, more)
    PROVE  /\ re \in Nat /\ ~(from > re) /\ upto \in Nat /\ from <= upto /\ upto <= len
           /\ more \in Nat /\ upto - shift + more <= w - 1 /\ pos <= upto + more
           /\ left /\ from = shift => from < upto
<1>1. /\ re \in Nat /\ re <= len /\ re - shift <= w - 1 /\ (left => shift < re)
  BY DEF DrawsIn
<1>2. upto \in Nat /\ from <= upto /\ upto <= re /\ (left /\ from = shift => from < upto)
  BY <1>1 DEF DrawsIn
<1>3. new \in Int /\ new <= w - 1 /\ re - shift <= new
  BY DEF DrawsIn
<1>4. CASE goeson
  BY <1>1, <1>2, <1>3, <1>4 DEF DrawsIn
<1>5. CASE ~goeson
  <2>1. more = pad /\ more \in Nat
    BY <1>5 DEF DrawsIn
  <2>2. upto - shift + pad <= w - 1
    BY <1>1, <1>2, <1>3 DEF DrawsIn
  <2>3. pos <= upto + pad
    BY <1>1, <1>2, <1>3, <1>5 DEF DrawsIn
  <2>. QED
    BY <1>1, <1>2, <2>1, <2>2, <2>3 DEF DrawsIn
<1>. QED
  BY <1>4, <1>5

\* What is written when something is drawn
LEMMA DrawnIs ==
    ASSUME NEW n \in Nat \ {0}, NEW d, Begun(d, n), NEW m, NEW l \in Seq(Ink), Targets(d, m, l),
           NEW left \in Nat, NEW extent \in Nat, CanDraw(d, m, left, extent),
           NEW backup, backup = (d.pos - d.shift) - (left - m.shift)
    PROVE  Drew(d, m, l, left, extent, Write(d.tty, Drawn(d, m, l, left, backup, extent)), n)
<1>. DEFINE p == Len(d.prompt)
            w == d.width
            len == Len(l)
            dp == d.pos
            ds == d.shift
            mp == m.pos
            ms == m.shift
            col == d.tty.col
            upto == Upto(d, m, left, extent)
            goeson == GoesOn(d, m, left, extent)
            pad == Padding(d, m)
            more == IF goeson THEN 1 ELSE pad
            re == RightEnd(m)
            old == Reach(d)
            new == Reach(m)
            f == First(m, l, left, upto)
            g == IF goeson THEN <<Marker>> ELSE Times(Blank, pad)
            b == left - ms
            back == (upto + more) - mp
            t == Write(d.tty, Drawn(d, m, l, left, backup, extent))
<1>1. /\ d \in Editors /\ m \in Editors /\ dp \in Nat /\ ds \in Nat /\ mp \in Nat
      /\ ms \in Nat /\ w \in Int /\ p \in Nat /\ len \in Nat /\ d.cnt \in Int
      /\ m.right \in BOOLEAN /\ d.right \in BOOLEAN
  <2>1. d \in Editors /\ m \in Editors
    BY DEF Begun, Targets
  <2>2. /\ d.pos \in Nat /\ d.shift \in Nat /\ d.width \in Int /\ d.cnt \in Int
        /\ d.right \in BOOLEAN /\ d.prompt \in Seq(Ink)
    BY <2>1 DEF Editors
  <2>3. m.pos \in Nat /\ m.shift \in Nat /\ m.right \in BOOLEAN
    BY <2>1 DEF Editors
  <2>. QED
    BY <2>1, <2>2, <2>3
<1>2. /\ Screen(d.tty, n) /\ d.tty.full = FALSE /\ col = p + (dp - ds)
      /\ p + w = n /\ w >= 3 /\ ds <= dp
      /\ ~d.right => d.cnt - ds <= w - 1
  <2>1. /\ Screen(d.tty, n) /\ d.tty.full = FALSE /\ col = p + (dp - ds)
        /\ p + w = n /\ ds <= dp
    BY DEF Begun
  <2>2. ~d.right => d.cnt - ds <= w - 1
    BY DEF Begun
  <2>3. w >= 3
    <3>. DEFINE e == n \div 3
    <3>1. e \in Nat /\ p + e + 3 <= n
      <4>1. n \div 3 \in Nat
        OBVIOUS
      <4>2. Len(d.prompt) + n \div 3 + 3 <= n
        BY DEF Begun, RoomBehind
      <4>. QED
        BY <4>1, <4>2
    <3>. HIDE DEF e, p, w
    <3>. QED
      BY <1>1, <2>1, <3>1
  <2>. QED
    BY <2>1, <2>2, <2>3
<1>3. /\ m.width = w /\ m.cnt = len /\ ms <= mp /\ mp <= len
      /\ mp - ms <= w - 1 /\ (m.left => ms < mp)
      /\ m.right <=> len > ms + w - 1
  BY DEF Targets
<1>4. /\ ms <= left /\ left <= re /\ left - ms <= dp - ds
      /\ extent > 0 /\ ms = ds => mp <= left + extent
  BY DEF CanDraw
<1>5. /\ m.right => re = ms + w - 2 /\ new = w - 1
      /\ ~m.right => re = len /\ new = len - ms
      /\ ms = ds /\ extent > 0 /\ re > left + extent => upto = left + extent
      /\ ~(ms = ds /\ extent > 0 /\ re > left + extent) => upto = re
      /\ goeson <=> m.right /\ upto = re
  BY <1>3 DEF RightEnd, Upto, GoesOn, Reach
<1>6. /\ pad \in Nat /\ Pad(old, new) = pad
      /\ old = IF d.right THEN w - 1 ELSE d.cnt - ds
      /\ pad = IF old > new THEN old - new ELSE 0
  BY <1>1, <1>3, PadIs DEF Reach, Padding
<1>7. (goeson => more = 1) /\ (~goeson => more = pad)
  OBVIOUS
<1>8. left <= re =>
      Drawn(d, m, l, left, backup, extent)
        = Times(BS, backup) \o f \o g \o Cursor(l, upto + more, mp)
  <2>1. Pad(IF d.right THEN d.width - 1 ELSE d.cnt - d.shift,
            IF m.right THEN m.width - 1 ELSE m.cnt - m.shift) = pad
    BY <1>6 DEF Reach
  <2>. HIDE DEF pad
  <2>. SUFFICES ASSUME left <= re
                PROVE  Drawn(d, m, l, left, backup, extent)
                         = Times(BS, backup) \o f \o g \o Cursor(l, upto + more, mp)
    OBVIOUS
  <2>2. re \in Int
    <3>. HIDE DEF re, ms, w, len, new, upto, goeson
    <3>1. CASE m.right
      BY <1>1, <1>5, <3>1
    <3>2. CASE ~m.right
      BY <1>1, <1>5, <3>2
    <3>. QED
      BY <3>1, <3>2
  <2>3. ~(left > re)
    <3>1. left \in Int /\ left <= re
      OBVIOUS
    <3>. HIDE DEF re
    <3>. QED
      BY <2>2, <3>1
  <2>. QED
    BY <2>1, <2>3 DEF Drawn, RightEnd, Upto, GoesOn, First
<1>. HIDE DEF p, w, len, dp, ds, mp, ms, col, upto, goeson, pad, more, re, old, new
<1>9. DrawsIn(p, w, len, dp, ds, mp, ms, m.left, m.right,
              ms = ds, left, extent, re, upto, goeson, old, new, pad, more)
  <2>1. /\ old \in Int /\ old <= w - 1
        /\ old > new => pad = old - new
        /\ ~(old > new) => pad = 0
    <3>1. old \in Int /\ old <= w - 1
      <4>1. CASE d.right
        BY <1>1, <1>6, <4>1
      <4>2. CASE ~d.right
        BY <1>1, <1>2, <1>6, <4>2
      <4>. QED
        BY <4>1, <4>2
    <3>. QED
      BY <1>6, <3>1
  <2>2. (m.right => len > ms + w - 1) /\ (~m.right => len <= ms + w - 1)
    <3>1. CASE m.right
      BY <1>3, <3>1
    <3>2. CASE ~m.right
      BY <1>1, <1>3, <3>2
    <3>. QED
      BY <3>1, <3>2
  <2>3. /\ p \in Nat /\ w \in Int /\ w >= 3 /\ len \in Nat /\ dp \in Nat /\ ds \in Nat
        /\ mp \in Nat /\ ms \in Nat /\ left \in Nat /\ extent \in Nat /\ pad \in Nat
        /\ ds <= dp /\ ms <= mp /\ mp <= len /\ mp - ms <= w - 1
    BY <1>1, <1>2, <1>3, <1>6
  <2>4. /\ m.right => len > ms + w - 1 /\ re = ms + w - 2 /\ new = w - 1
        /\ ~m.right => len <= ms + w - 1 /\ re = len /\ new = len - ms
    BY <1>5, <2>2, Zenon
  <2>. QED
    BY <1>3, <1>4, <1>5, <1>7, <2>1, <2>3, <2>4, Zenon DEF DrawsIn
<1>10. /\ upto \in Nat /\ left <= upto /\ upto <= len
       /\ more \in Nat /\ upto - ms + more <= w - 1 /\ mp <= upto + more
       /\ m.left /\ left = ms => left < upto
  <2>. DEFINE same == ms = ds
              ml == m.left
              mr == m.right
  <2>1. DrawsIn(p, w, len, dp, ds, mp, ms, ml, mr, same, left, extent, re, upto, goeson,
                old, new, pad, more)
    BY <1>9
  <2>. HIDE DEF same, ml, mr
  <2>2. /\ upto \in Nat /\ left <= upto /\ upto <= len
        /\ more \in Nat /\ upto - ms + more <= w - 1 /\ mp <= upto + more
        /\ ml /\ left = ms => left < upto
    BY ONLY <2>1, DrawnFits
  <2>. QED
    BY <2>2 DEF ml
<1>11. /\ f \in Seq(Ink) /\ Len(f) = upto - left
       /\ \A k \in 1 .. upto - left : f[k] =
            IF k = 1 /\ left = ms /\ m.left THEN Marker ELSE l[left + k]
  <2>1. left = m.shift /\ m.left => left < upto
    BY <1>10 DEF ms
  <2>2. upto <= Len(l)
    BY <1>10 DEF len
  <2>. QED
    BY <1>10, <2>1, <2>2, FirstIs DEF ms
<1>12. /\ g \in Seq(Ink) /\ Len(g) = more
       /\ \A k \in 1 .. more : g[k] = IF goeson THEN Marker ELSE Blank
  BY <1>6, BehindIs DEF more
<1>. HIDE DEF f, g, b, back
<1>13. b \in Nat /\ back \in Nat /\ back <= p + b + Len(f) + Len(g)
       /\ p + b + Len(f) + Len(g) < n
       /\ p + b + Len(f) + Len(g) - back = p + (mp - ms)
       /\ b = left - ms /\ back = (upto + more) - mp
  <2>1. Len(f) = upto - left /\ Len(g) = more
    BY <1>11, <1>12
  <2>2. b \in Nat /\ b = left - ms /\ back = (upto + more) - mp /\ back \in Nat
    BY <1>1, <1>4, <1>10 DEF b, back
  <2>3. p + b + (upto - left) + more < n
    BY <1>1, <1>2, <1>10, <2>2
  <2>4. back <= p + b + (upto - left) + more
    BY <1>1, <1>3, <1>10, <2>2
  <2>5. p + b + (upto - left) + more - back = p + (mp - ms)
    BY <1>1, <1>10, <2>2
  <2>. QED
    BY <2>1, <2>2, <2>3, <2>4, <2>5
<1>14. backup \in Nat /\ backup <= col /\ col - backup = p + b
  <2>1. backup = (dp - ds) - b
    BY DEF dp, ds, ms, b
  <2>. DEFINE x == dp - ds
  <2>2. b <= x /\ x \in Nat /\ col = p + x /\ backup = x - b
    <3>1. b <= x
      BY <1>4, <1>13
    <3>2. dp \in Nat /\ ds \in Nat /\ ds <= dp
      BY <1>1, <1>2
    <3>3. x \in Nat
      BY <3>2
    <3>4. col = p + x
      BY <1>2
    <3>. QED
      BY <2>1, <3>1, <3>3, <3>4
  <2>. HIDE DEF x
  <2>3. p \in Nat /\ b \in Nat
    BY <1>1, <1>13
  <2>. QED
    BY <2>2, <2>3
<1>15. Times(BS, backup) = Run(BS, backup) /\ Cursor(l, upto + more, mp) = Run(BS, back)
  <2>1. Times(BS, backup) = Run(BS, backup)
    BY <1>14, TimesIs
  <2>2. upto + more \in Nat /\ mp <= Len(l)
    BY <1>3, <1>10 DEF len
  <2>. QED
    BY <1>1, <1>10, <2>1, <2>2, CursorIs DEF back
<1>16. Painted(d.tty, backup, f, g, back, t, n)
  <2>1. left <= re
    BY <1>4
  <2>2. t = Write(d.tty, Run(BS, backup) \o f \o g \o Run(BS, back))
    BY <1>8, <1>15, <2>1
  <2>3. /\ backup <= d.tty.col
        /\ (d.tty.col - backup) + Len(f) + Len(g) < n
        /\ back <= (d.tty.col - backup) + Len(f) + Len(g)
    BY <1>13, <1>14 DEF col
  <2>. HIDE DEF t
  <2>4. Painted(d.tty, backup, f, g, back, Write(d.tty, Run(BS, backup) \o f \o g \o Run(BS, back)), n)
    BY <1>2, <1>11, <1>12, <1>13, <1>14, <2>3, PaintsIs
  <2>. QED
    BY <2>2, <2>4
<1>. HIDE DEF t
<1>17. Screen(t, n) /\ t.full = FALSE /\ t.col = p + (mp - ms)
  <2>1. /\ Screen(t, n) /\ t.full = FALSE
        /\ t.col = (col - backup) + Len(f) + Len(g) - back
    BY <1>16 DEF Painted, col
  <2>. QED
    BY <1>13, <1>14, <2>1
<1>18. ASSUME NEW k \in 1 .. n
       PROVE  t.row[k] = Redrew(m, l, left, upto, goeson, pad, k - p, d.tty.row[k])
  <2>. DEFINE j == k - p
              v == t.row[k]
              c == d.tty.row[k]
              u == upto - ms
              i == k - (p + b)
  <2>1. /\ b \in Nat /\ u \in Nat /\ b <= u /\ j \in Int /\ u - b = upto - left
        /\ i = j - b /\ u = upto - ms /\ i \in Int /\ j = k - p
    BY <1>1, <1>4, <1>10, <1>13
  <2>2. v = IF k <= p + b \/ k > p + b + Len(f) + Len(g) THEN c
            ELSE IF k <= p + b + Len(f) THEN f[k - (p + b)]
            ELSE g[k - (p + b) - Len(f)]
    <3>1. v = IF k <= col - backup \/ k > (col - backup) + Len(f) + Len(g) THEN c
              ELSE IF k <= (col - backup) + Len(f) THEN f[k - (col - backup)]
              ELSE g[k - (col - backup) - Len(f)]
      BY <1>16 DEF Painted, col
    <3>. QED
      BY <1>14, <3>1
  <2>3. v = IF j <= b \/ j > u + more THEN c
            ELSE IF j <= u THEN f[i] ELSE g[j - u]
    <3>1. (k <= p + b <=> j <= b) /\ (k > p + b + Len(f) + Len(g) <=> j > u + more)
      BY <1>1, <1>10, <1>11, <1>12, <2>1
    <3>2. (k <= p + b + Len(f) <=> j <= u) /\ k - (p + b) - Len(f) = j - u
      BY <1>1, <1>10, <1>11, <1>12, <2>1
    <3>. HIDE DEF v, c, u, j
    <3>. QED
      BY <2>2, <3>1, <3>2
  <2>. HIDE DEF v, c, u, j, i
  <2>4. CASE j <= b
    BY <2>3, <2>4 DEF Redrew, v, c, j, b, ms
  <2>5. CASE ~(j <= b) /\ j <= u
    <3>1. /\ i \in 1 .. upto - left /\ left + i = ms + j /\ ~(j > u + more)
          /\ i = 1 /\ left = ms <=> j = 1
      BY <1>1, <1>4, <1>10, <1>13, <2>1, <2>5
    <3>2. v = f[i]
      BY <2>3, <2>5, <3>1
    <3>3. f[i] = IF i = 1 /\ left = ms /\ m.left THEN Marker ELSE l[left + i]
      BY <1>11, <3>1
    <3>4. v = IF j = 1 /\ m.left THEN Marker ELSE l[ms + j]
      BY <3>1, <3>2, <3>3
    <3>5. ~(j <= left - m.shift) /\ j <= upto - m.shift
      BY <2>1, <2>5, <1>13 DEF ms
    <3>. QED
      BY <3>4, <3>5 DEF Redrew, v, ms, j
  <2>6. CASE ~(j <= u) /\ ~(j > u + more)
    <3>1. ~(j <= b) /\ j - u \in 1 .. more
      <4>1. more \in Nat /\ u \in Nat /\ j \in Int /\ b \in Nat /\ b <= u
        BY <1>10, <2>1
      <4>. QED
        BY <2>6, <4>1
    <3>2. v = IF goeson THEN Marker ELSE Blank
      BY <1>12, <2>3, <2>6, <3>1
    <3>3. (goeson => j = u + 1) /\ (~goeson => j <= u + pad)
      <4>1. more \in Nat /\ u \in Nat /\ j \in Int
        BY <1>10, <2>1
      <4>. QED
        BY <1>7, <2>6, <4>1
    <3>4. ~(j <= left - m.shift) /\ ~(j <= upto - m.shift) /\ u = upto - m.shift
      BY <2>1, <2>6, <3>1, <1>13 DEF ms
    <3>. QED
      BY <3>2, <3>3, <3>4 DEF Redrew, v, j
  <2>7. CASE ~(j <= u) /\ j > u + more
    <3>1. v = c /\ ~(j <= b)
      BY <2>1, <2>3, <2>7
    <3>2. (goeson => j # u + 1) /\ (~goeson => ~(j <= u + pad))
      <4>1. more \in Nat /\ u \in Nat /\ j \in Int
        BY <1>10, <2>1
      <4>. QED
        BY <1>7, <2>7, <4>1
    <3>3. ~(j <= left - m.shift) /\ ~(j <= upto - m.shift) /\ u = upto - m.shift
      BY <2>1, <2>7, <3>1, <1>13 DEF ms
    <3>. QED
      BY <3>1, <3>2, <3>3 DEF Redrew, v, c, j
  <2>. QED
    BY <2>4, <2>5, <2>6, <2>7
<1>. QED
  BY <1>17, <1>18 DEF Drew, upto, goeson, pad, t, p, mp, ms

----------------------------------------------------------------------------
(***************************************************************************)
(* From where gl_fixup draws, and what it leaves as it is                  *)
(***************************************************************************)
Clip(change, cnt) == IF change <= cnt THEN change ELSE cnt

\* Whether all of the line is drawn, and what part of it otherwise
DrawsAllOf(d, m, change) ==
    m.shift # d.shift \/ Clip(change, m.cnt) < m.shift + (IF m.left THEN 1 ELSE 0)
From(d, m, change) == IF DrawsAllOf(d, m, change) THEN m.shift ELSE Clip(change, m.cnt)

\* The numbers of an editor and of what it is to be
LEMMA TargetNumbers ==
    ASSUME NEW n \in Nat \ {0}, NEW d, Begun(d, n), NEW m, NEW l \in Seq(Ink), Targets(d, m, l)
    PROVE  /\ d.pos \in Nat /\ d.shift \in Nat /\ d.width \in Int /\ d.cnt \in Int
           /\ m.pos \in Nat /\ m.shift \in Nat /\ Len(d.prompt) \in Nat /\ Len(l) \in Nat
           /\ m.cnt = Len(l) /\ m.width = d.width /\ m.prompt = d.prompt /\ m.tty = d.tty
           /\ d.left \in BOOLEAN /\ d.right \in BOOLEAN /\ m.left \in BOOLEAN /\ m.right \in BOOLEAN
           /\ Len(d.prompt) + d.width = n /\ d.width >= 3 /\ d.shift <= d.pos
           /\ m.shift <= m.pos /\ m.pos <= Len(l) /\ m.pos - m.shift <= d.width - 1
           /\ m.left => m.shift < m.pos
           /\ m.right => Len(l) > m.shift + d.width - 1
           /\ ~m.right => Len(l) <= m.shift + d.width - 1
           /\ ~d.right => d.cnt - d.shift <= d.width - 1
<1>1. d \in Editors /\ m \in Editors
  BY DEF Begun, Targets
<1>2. /\ d.pos \in Nat /\ d.shift \in Nat /\ d.width \in Int /\ d.cnt \in Int
      /\ d.left \in BOOLEAN /\ d.right \in BOOLEAN /\ d.prompt \in Seq(Ink)
  BY <1>1 DEF Editors
<1>3. m.pos \in Nat /\ m.shift \in Nat /\ m.left \in BOOLEAN /\ m.right \in BOOLEAN
  BY <1>1 DEF Editors
<1>4. /\ m.cnt = Len(l) /\ m.width = d.width /\ m.prompt = d.prompt /\ m.tty = d.tty
      /\ m.shift <= m.pos /\ m.pos <= Len(l) /\ m.pos - m.shift <= d.width - 1
      /\ m.left => m.shift < m.pos
      /\ m.right <=> Len(l) > m.shift + d.width - 1
  BY DEF Targets
<1>5. d.width >= 3
  <2>. DEFINE e == n \div 3
              p == Len(d.prompt)
              w == d.width
  <2>1. n \div 3 \in Nat
    OBVIOUS
  <2>2. e \in Nat /\ p \in Nat /\ w \in Int /\ p + e + 3 <= n /\ p + w = n
    <3>1. Len(d.prompt) + n \div 3 + 3 <= n /\ Len(d.prompt) + d.width = n
      BY DEF Begun, RoomBehind
    <3>2. Len(d.prompt) \in Nat /\ d.width \in Int
      BY <1>2
    <3>. QED
      BY <2>1, <3>1, <3>2
  <2>. HIDE DEF e, p, w
  <2>3. w >= 3
    BY <2>2
  <2>. QED
    BY <2>3 DEF w
<1>6. /\ Len(d.prompt) + d.width = n /\ d.width >= 3 /\ d.shift <= d.pos
      /\ ~d.right => d.cnt - d.shift <= d.width - 1
  BY <1>5 DEF Begun
<1>7. ~m.right => Len(l) <= m.shift + d.width - 1
  <2>. DEFINE x == Len(l)
              y == m.shift + d.width - 1
  <2>1. x \in Int /\ y \in Int /\ (m.right <=> x > y)
    BY <1>2, <1>3, <1>4
  <2>. HIDE DEF x, y
  <2>2. ~m.right => x <= y
    BY <2>1
  <2>. QED
    BY <2>2 DEF x, y
<1>. QED
  BY <1>2, <1>3, <1>4, <1>6, <1>7

LEMMA ChangedIs ==
    ASSUME NEW n \in Nat \ {0}, NEW d, Begun(d, n), NEW m, NEW l \in Seq(Ink), Targets(d, m, l),
           NEW change \in Int, NEW extent \in Nat, ~(m.shift = d.shift /\ change < 0),
           CanDraw(d, m, From(d, m, change), extent)
    PROVE  Drew(d, m, l, From(d, m, change), extent, Write(d.tty, Changed(d, m, l, change, extent)), n)
<1>. DEFINE at == Min({change, m.cnt})
            all == m.shift # d.shift \/ at < m.shift + (IF m.left THEN 1 ELSE 0)
            left == IF all THEN m.shift ELSE at
            backup == d.pos - (IF all \/ change < 0 THEN d.shift ELSE at)
<1>0. /\ d.pos \in Nat /\ d.shift \in Nat /\ m.shift \in Nat /\ m.cnt \in Nat
  BY TargetNumbers
<1>1. at = Clip(change, m.cnt)
  <2>1. Min({change, m.cnt}) = P!Min({change, m.cnt})
    BY Zenon DEF Min, P!Min
  <2>. QED
    BY <1>0, <2>1, LesserNumber DEF Clip
<1>2. Changed(d, m, l, change, extent) = Drawn(d, m, l, left, backup, extent)
  BY Zenon DEF Changed
<1>3. left = From(d, m, change)
  BY <1>1, Zenon DEF From, DrawsAllOf
<1>4. at \in Int /\ left \in Nat
  <2>1. at \in Int
    BY <1>0, <1>1 DEF Clip
  <2>. HIDE DEF at
  <2>2. ~all => at >= 0
    BY <1>0, <2>1
  <2>. QED
    BY <1>0, <2>1, <2>2
<1>5. backup = (d.pos - d.shift) - (left - m.shift)
  <2>. HIDE DEF at
  <2>1. CASE all
    BY <1>0, <2>1
  <2>2. CASE ~all
    <3>1. m.shift = d.shift /\ ~(change < 0)
      BY <2>2
    <3>. QED
      BY <1>0, <1>4, <2>2, <3>1
  <2>. QED
    BY <2>1, <2>2
<1>. HIDE DEF left, backup
<1>6. CanDraw(d, m, left, extent)
  BY <1>3
<1>7. Drew(d, m, l, left, extent, Write(d.tty, Drawn(d, m, l, left, backup, extent)), n)
  BY <1>4, <1>5, <1>6, DrawnIs
<1>. QED
  BY <1>2, <1>3, <1>7

\* The prompt stays, and the cursor is where it is expected
LEMMA DrewBegun ==
    ASSUME NEW n \in Nat \ {0}, NEW d, Begun(d, n), NEW m, NEW l \in Seq(Ink), Targets(d, m, l),
           NEW t, Screen(t, n), t.full = FALSE, t.col = Len(d.prompt) + (m.pos - m.shift),
           \A k \in 1 .. Len(d.prompt) : t.row[k] = d.tty.row[k]
    PROVE  Begun([m EXCEPT !.tty = t], n)
<1>. DEFINE r == [m EXCEPT !.tty = t]
<1>1. m \in Editors /\ (m.left <=> m.shift > 0)
  BY DEF Targets
<1>2. t \in Ttys
  BY DEF Screen, Ttys
<1>3. /\ r \in Editors /\ r.tty = t /\ r.pos = m.pos /\ r.shift = m.shift /\ r.cnt = m.cnt
      /\ r.width = m.width /\ r.prompt = m.prompt /\ r.left = m.left /\ r.right = m.right
  BY <1>1, <1>2 DEF Editors
<1>4. ~m.right => m.cnt - m.shift <= d.width - 1
  <2>1. /\ m.cnt = Len(l) /\ (~m.right => Len(l) <= m.shift + d.width - 1)
        /\ Len(l) \in Nat /\ m.shift \in Nat /\ d.width \in Int
    BY TargetNumbers
  <2>. DEFINE x == Len(l)
  <2>2. x \in Nat /\ m.cnt = x /\ (~m.right => x <= m.shift + d.width - 1)
    BY <2>1
  <2>. HIDE DEF x
  <2>. QED
    BY <2>1, <2>2
<1>5. /\ m.width = d.width /\ m.prompt = d.prompt /\ m.shift <= m.pos
      /\ m.pos - m.shift <= d.width - 1
  BY TargetNumbers
<1>6. /\ RoomBehind(d.prompt, n) /\ Len(d.prompt) + d.width = n
      /\ \A k \in 1 .. Len(d.prompt) : d.tty.row[k] = d.prompt[k]
  BY DEF Begun
<1>. HIDE DEF r
<1>7. r.left <=> r.shift > 0
  BY <1>1, <1>3
<1>8. Begun(r, n)
  BY <1>3, <1>4, <1>5, <1>6, <1>7 DEF Begun
<1>. QED
  BY <1>8 DEF r

LEMMA ShownIs ==
    ASSUME NEW n \in Nat \ {0}, NEW d, Begun(d, n), NEW m, NEW l \in Seq(Ink), Targets(d, m, l),
           NEW t, Screen(t, n), t.full = FALSE, t.col = Len(d.prompt) + (m.pos - m.shift),
           \A k \in 1 .. Len(d.prompt) : t.row[k] = d.tty.row[k],
           \A k \in 1 .. d.width - 1 : t.row[Len(d.prompt) + k] = Cell(m, l, k)
    PROVE  Shown([m EXCEPT !.tty = t], l, n)
<1>. DEFINE r == [m EXCEPT !.tty = t]
<1>1. m \in Editors /\ m.width = d.width /\ m.prompt = d.prompt
  BY DEF Targets
<1>2. t \in Ttys
  BY DEF Screen, Ttys
<1>3. /\ r \in Editors /\ r.tty = t /\ r.pos = m.pos /\ r.shift = m.shift /\ r.cnt = m.cnt
      /\ r.width = m.width /\ r.prompt = m.prompt /\ r.left = m.left /\ r.right = m.right
  BY <1>1, <1>2 DEF Editors
<1>4. Begun(r, n)
  BY DrewBegun
<1>. HIDE DEF r
<1>5. Placed(r, l)
  <2>1. /\ m.cnt = Len(l) /\ m.pos <= Len(l)
        /\ m.shift > 0 => m.shift < m.pos
        /\ m.right <=> m.cnt > m.shift + m.width - 1
    BY DEF Targets
  <2>. QED
    BY <1>3, <2>1 DEF Placed
<1>6. \A k : Cell(r, l, k) = Cell(m, l, k)
  BY <1>3 DEF Cell
<1>7. Shown(r, l, n)
  BY <1>1, <1>3, <1>4, <1>5, <1>6 DEF Shown
<1>. QED
  BY <1>7 DEF r

\* The line is drawn up to the end of the row
LEMMA DrawnToEnd ==
    ASSUME NEW n \in Nat \ {0}, NEW d, Begun(d, n), NEW m, NEW l \in Seq(Ink), Targets(d, m, l),
           NEW left \in Nat, m.shift <= left, left <= RightEnd(m), NEW pad \in Nat,
           NEW j \in 1 .. d.width - 1, NEW c, j > left - m.shift,
           ~m.right /\ j > Len(l) - m.shift + pad => c = Blank,
           NEW goeson, goeson <=> m.right
    PROVE  Redrew(m, l, left, RightEnd(m), goeson, pad, j, c) = Cell(m, l, j)
<1>. DEFINE len == Len(l)
            ms == m.shift
            w == d.width
            re == RightEnd(m)
<1>1. /\ ms \in Nat /\ w \in Int /\ w >= 3 /\ len \in Nat /\ m.width = w
      /\ (m.right => len > ms + w - 1) /\ (~m.right => len <= ms + w - 1) /\ m.cnt = len
      /\ m.right \in BOOLEAN
  BY TargetNumbers
<1>2. (m.right => re = ms + w - 2) /\ (~m.right => re = len)
  BY <1>1 DEF RightEnd
<1>3. ~(j <= left - ms) /\ j \in Int
  BY <1>1
<1>4. ~m.right /\ j > len - ms + pad => c = Blank
  OBVIOUS
<1>. HIDE DEF len, ms, w, re
<1>5. CASE m.right
  <2>1. re - ms = w - 2 /\ ms + j <= len /\ j <= w - 1
    BY <1>1, <1>2, <1>5 DEF w
  <2>2. CASE j <= w - 2
    <3>1. j # w - 1 /\ j <= re - ms
      BY <1>1, <2>1, <2>2
    <3>. QED
      BY <1>1, <1>3, <2>1, <3>1 DEF Redrew, Cell, re, ms, len, w
  <2>3. CASE j = w - 1
    <3>1. ~(j <= re - ms) /\ j = re - ms + 1
      BY <1>1, <2>1, <2>3
    <3>. QED
      BY <1>1, <1>3, <1>5, <2>3, <3>1 DEF Redrew, Cell, re, ms, len, w
  <2>. QED
    BY <1>1, <1>3, <2>1, <2>2, <2>3
<1>6. CASE ~m.right
  <2>1. re = len
    BY <1>2, <1>6
  <2>2. CASE j <= len - ms
    <3>1. ms + j <= len /\ j <= re - ms
      BY <1>1, <1>3, <2>1, <2>2
    <3>. QED
      BY <1>3, <1>6, <3>1 DEF Redrew, Cell, re, ms, len
  <2>3. CASE ~(j <= len - ms)
    <3>1. ~(ms + j <= len) /\ ~(j <= re - ms)
      BY <1>1, <1>3, <2>1, <2>3
    <3>2. ~(j <= re - ms + pad) => c = Blank
      BY <1>1, <1>3, <1>4, <1>6, <2>1
    <3>3. ~(j = 1 /\ m.left)
      <4>1. m.left => ms < len
        BY TargetNumbers DEF ms, len
      <4>. QED
        BY <1>1, <2>3, <4>1
    <3>. QED
      BY <1>3, <1>6, <3>1, <3>2, <3>3 DEF Redrew, Cell, re, ms, len
  <2>. QED
    BY <2>2, <2>3
<1>. QED
  BY <1>5, <1>6

\* What was drawn reaches as far as the old line did
LEMMA PaddedIs ==
    ASSUME NEW n \in Nat \ {0}, NEW d, Begun(d, n), NEW m, NEW l \in Seq(Ink), Targets(d, m, l),
           ~m.right
    PROVE  /\ Padding(d, m) \in Nat /\ Reach(d) \in Int /\ Reach(m) = Len(l) - m.shift
           /\ Reach(d) <= Len(l) - m.shift + Padding(d, m)
<1>1. d \in Editors /\ m \in Editors /\ m.cnt = Len(l)
  BY DEF Begun, Targets
<1>2. Padding(d, m) \in Nat
  BY <1>1, PadIs
<1>3. Reach(d) \in Int /\ Reach(m) \in Int
  BY <1>1 DEF Reach, Editors
<1>4. Reach(m) = Len(l) - m.shift
  BY <1>1 DEF Reach
<1>. DEFINE x == Reach(d)
            y == Reach(m)
            pad == Padding(d, m)
<1>5. pad = IF x > y THEN x - y ELSE 0
  BY DEF Padding
<1>. HIDE DEF x, y, pad
<1>6. x <= y + pad
  BY <1>3, <1>5 DEF x, y
<1>. QED
  BY <1>2, <1>3, <1>4, <1>6 DEF x, y, pad

\* All of the line is drawn, on a row where nothing is but what pad erases
LEMMA DrawsAll ==
    ASSUME NEW n \in Nat \ {0}, NEW d, Begun(d, n), NEW m, NEW l \in Seq(Ink), Targets(d, m, l),
           NEW change \in Int, NEW extent \in Nat, ~(m.shift = d.shift /\ change < 0),
           From(d, m, change) = m.shift, extent = 0 \/ m.shift # d.shift,
           NEW e \in Int, Swept(d, n, e),
           e <= Len(d.prompt) + Reach(d) \/ e <= Len(d.prompt) + Reach(m)
    PROVE  Shown([m EXCEPT !.tty = Write(d.tty, Changed(d, m, l, change, extent))], l, n)
<1>. DEFINE p == Len(d.prompt)
            t == Write(d.tty, Changed(d, m, l, change, extent))
            re == RightEnd(m)
            pad == Padding(d, m)
            goeson == GoesOn(d, m, m.shift, extent)
<1>1. /\ d.pos \in Nat /\ d.shift \in Nat /\ d.width \in Int /\ m.pos \in Nat /\ m.shift \in Nat
      /\ p \in Nat /\ Len(l) \in Nat /\ m.cnt = Len(l) /\ m.right \in BOOLEAN /\ m.width = d.width
      /\ p + d.width = n /\ d.width >= 3 /\ d.shift <= d.pos /\ m.shift <= m.pos /\ m.pos <= Len(l)
  BY TargetNumbers
<1>2. re \in Nat /\ m.shift <= re
  <2>1. (m.right => re = m.shift + d.width - 2) /\ (~m.right => re = Len(l))
    BY <1>1 DEF RightEnd
  <2>. DEFINE y == m.shift
              w == d.width
              len == Len(l)
  <2>2. /\ y \in Nat /\ w \in Int /\ w >= 3 /\ len \in Nat /\ y <= len
        /\ re = y + w - 2 \/ re = len
    BY <1>1, <2>1
  <2>. HIDE DEF re, y, w, len
  <2>3. re \in Nat /\ y <= re
    BY <2>2
  <2>. QED
    BY <2>3 DEF y
<1>3. CanDraw(d, m, m.shift, extent)
  <2>1. ~(extent > 0 /\ m.shift = d.shift)
    OBVIOUS
  <2>2. m.shift - m.shift <= d.pos - d.shift
    BY <1>1
  <2>. QED
    BY <1>1, <1>2, <2>1, <2>2 DEF CanDraw
<1>4. Drew(d, m, l, m.shift, extent, t, n)
  BY <1>3, ChangedIs
<1>5. Upto(d, m, m.shift, extent) = re /\ (goeson <=> m.right)
  <2>1. ~(m.shift = d.shift /\ extent > 0)
    OBVIOUS
  <2>. QED
    BY <2>1 DEF Upto, GoesOn
<1>. HIDE DEF t
<1>6. /\ Screen(t, n) /\ t.full = FALSE /\ t.col = p + (m.pos - m.shift)
      /\ \A k \in 1 .. n : t.row[k] = Redrew(m, l, m.shift, Upto(d, m, m.shift, extent),
                                             goeson, pad, k - p, d.tty.row[k])
  BY <1>4 DEF Drew
<1>. HIDE DEF re, pad, goeson
<1>7. \A k \in 1 .. n : t.row[k] = Redrew(m, l, m.shift, re, goeson, pad, k - p, d.tty.row[k])
  BY <1>5, <1>6
<1>8. \A k \in 1 .. p : t.row[k] = d.tty.row[k]
  <2>. SUFFICES ASSUME NEW k \in 1 .. p PROVE t.row[k] = d.tty.row[k]
    OBVIOUS
  <2>. DEFINE y == m.shift
              w == d.width
  <2>1. y \in Nat /\ w \in Int /\ w >= 3 /\ p + w = n /\ p \in Nat
    BY <1>1
  <2>. HIDE DEF p, y, w
  <2>2. k \in 1 .. n /\ k - p <= y - y
    BY <2>1
  <2>. QED
    BY <1>7, <2>2 DEF Redrew, y
<1>9. \A j \in 1 .. d.width - 1 : t.row[p + j] = Cell(m, l, j)
  <2>. SUFFICES ASSUME NEW j \in 1 .. d.width - 1 PROVE t.row[p + j] = Cell(m, l, j)
    OBVIOUS
  <2>. DEFINE c == d.tty.row[p + j]
  <2>1. p + j \in 1 .. n /\ (p + j) - p = j /\ p + j \in 1 .. n - 1 /\ p + j > p /\ j > m.shift - m.shift
    <3>. DEFINE w == d.width
    <3>1. p \in Nat /\ w \in Int /\ p + w = n /\ j \in 1 .. w - 1
      BY <1>1
    <3>2. m.shift - m.shift = 0
      BY <1>1
    <3>. HIDE DEF p, w
    <3>. QED
      BY <3>1, <3>2
  <2>2. t.row[p + j] = Redrew(m, l, m.shift, re, goeson, pad, j, c)
    BY <1>7, <2>1
  <2>3. ~m.right /\ j > Len(l) - m.shift + pad => c = Blank
    <3>. SUFFICES ASSUME ~m.right, j > Len(l) - m.shift + pad PROVE p + j > e
      BY <2>1 DEF Swept
    <3>1. /\ pad \in Nat /\ Reach(d) \in Int /\ Reach(m) = Len(l) - m.shift
          /\ Reach(d) <= Len(l) - m.shift + pad
      BY PaddedIs DEF pad
    <3>. DEFINE x == Len(l) - m.shift
                y == Reach(d)
    <3>2. x \in Int /\ y \in Int /\ pad \in Nat /\ y <= x + pad /\ j > x + pad /\ Reach(m) = x
      BY <1>1, <3>1
    <3>. HIDE DEF x, y
    <3>3. j > x /\ j > y
      BY <3>2
    <3>4. e <= p + y \/ e <= p + x
      BY <3>2 DEF y
    <3>. QED
      BY <1>1, <3>2, <3>3, <3>4
  <2>. HIDE DEF c
  <2>4. pad \in Nat
    BY PadIs DEF pad, Begun, Targets
  <2>5. Redrew(m, l, m.shift, RightEnd(m), goeson, pad, j, c) = Cell(m, l, j)
    <3>1. m.shift \in Nat /\ m.shift <= m.shift /\ m.shift <= RightEnd(m) /\ j > m.shift - m.shift
      <4>. DEFINE y == m.shift
                  w == d.width - 1
      <4>1. y \in Nat /\ w \in Int /\ j \in 1 .. w
        BY <1>1
      <4>. HIDE DEF y, w
      <4>2. y <= y /\ j > y - y
        BY <4>1
      <4>. QED
        BY <1>2, <4>1, <4>2 DEF re, y
    <3>. QED
      BY <1>5, <2>3, <2>4, <3>1, DrawnToEnd
  <2>. QED
    BY <2>2, <2>5 DEF re
<1>10. Shown([m EXCEPT !.tty = t], l, n)
  BY <1>6, <1>8, <1>9, ShownIs
<1>. QED
  BY <1>10 DEF t

\* Behind the line the row is empty
LEMMA ShownSwept ==
    ASSUME NEW n \in Nat \ {0}, NEW d, NEW l \in Seq(Ink), Shown(d, l, n)
    PROVE  /\ Reach(d) \in Nat /\ Reach(d) <= d.width - 1
           /\ \A j \in 1 .. d.width - 1 : j > Reach(d) => d.tty.row[Len(d.prompt) + j] = Blank
           /\ Swept(d, n, EndOf(d))
<1>. DEFINE p == Len(d.prompt)
            w == d.width
            len == Len(l)
            ds == d.shift
            x == Reach(d)
<1>1. d \in Editors
  BY DEF Shown, Begun
<1>2. /\ d.pos \in Nat /\ ds \in Nat /\ w \in Int /\ d.prompt \in Seq(Ink)
      /\ d.left \in BOOLEAN /\ d.right \in BOOLEAN
  BY <1>1 DEF Editors
<1>3. p \in Nat /\ len \in Nat /\ p + w = n /\ w >= 3
  <2>1. Len(d.prompt) + n \div 3 + 3 <= n /\ Len(d.prompt) + d.width = n
    BY DEF Shown, Begun, RoomBehind
  <2>2. p \in Nat /\ len \in Nat
    BY <1>2
  <2>. DEFINE c == n \div 3
  <2>3. c \in Nat
    OBVIOUS
  <2>4. p + c + 3 <= n /\ p + w = n /\ w \in Int
    BY <1>2, <2>1
  <2>. HIDE DEF c, p, w, len
  <2>. QED
    BY <2>2, <2>3, <2>4
<1>4. /\ d.cnt = len /\ d.pos <= len /\ ds <= d.pos
      /\ d.left <=> ds > 0
      /\ ds > 0 => ds < d.pos
      /\ ~d.right => len - ds <= w - 1
      /\ \A k \in 1 .. w - 1 : d.tty.row[p + k] = Cell(d, l, k)
  BY DEF Shown, Begun, Placed
<1>5. (d.right => x = w - 1) /\ (~d.right => x = len - ds)
  BY <1>4 DEF Reach
<1>. HIDE DEF p, w, len, ds, x
<1>6. x \in Nat /\ x <= w - 1
  <2>1. CASE d.right
    BY <1>2, <1>3, <1>5, <2>1
  <2>2. CASE ~d.right
    BY <1>2, <1>3, <1>4, <1>5, <2>2
  <2>. QED
    BY <2>1, <2>2
<1>7. ASSUME NEW j \in 1 .. w - 1, j > x PROVE d.tty.row[p + j] = Blank
  <2>1. ~d.right
    BY <1>2, <1>5, <1>7
  <2>2. ~(ds + j <= len)
    BY <1>2, <1>3, <1>5, <1>7, <2>1
  <2>3. ~(j = 1 /\ d.left)
    BY <1>2, <1>3, <1>4, <1>5, <1>7, <2>1
  <2>4. Cell(d, l, j) = Blank
    BY <2>1, <2>2, <2>3 DEF Cell, ds, len
  <2>. QED
    BY <1>4, <2>4
<1>8. Swept(d, n, p + x)
  <2>. SUFFICES ASSUME NEW k \in 1 .. n - 1, k > p + x, k > p PROVE d.tty.row[k] = Blank
    BY DEF Swept, p
  <2>1. k - p \in 1 .. w - 1 /\ k - p > x /\ p + (k - p) = k
    <3>1. n - 1 = p + (w - 1) /\ k \in Int /\ 1 <= k /\ k <= n - 1
      BY <1>2, <1>3
    <3>. QED
      BY <1>2, <1>3, <1>6, <3>1
  <2>2. d.tty.row[p + (k - p)] = Blank
    BY <1>7, <2>1
  <2>. QED
    BY <2>1, <2>2
<1>. QED
  BY <1>6, <1>7, <1>8 DEF EndOf, p, w, x

\* A change at one place of the line leaves what is ahead of it; and, when as
\* many characters were replaced by as many others, what is behind them
Agrees(l0, l, change, extent) ==
    /\ change <= Len(l0) /\ change <= Len(l)
    /\ \A i \in 1 .. change : l[i] = l0[i]
    /\ extent > 0 => /\ Len(l) = Len(l0) \/ Len(l) <= change + extent
                     /\ \A i \in 1 .. Len(l) : i > change + extent => l[i] = l0[i]

LEMMA SameCell ==
    ASSUME NEW d, NEW m, NEW l0, NEW l, NEW j,
           m.shift = d.shift, m.width = d.width, m.left <=> d.left,
           j = d.width - 1 => (m.right <=> d.right),
           d.shift + j <= Len(l0) <=> d.shift + j <= Len(l),
           d.shift + j <= Len(l) => l[d.shift + j] = l0[d.shift + j]
    PROVE  Cell(m, l, j) = Cell(d, l0, j)
BY DEF Cell

\* Where the drawing begins
LEMMA FromIs ==
    ASSUME NEW n \in Nat \ {0}, NEW d, Begun(d, n), NEW m, NEW l \in Seq(Ink), Targets(d, m, l),
           NEW change \in Nat, change <= Len(l), NEW left, left = From(d, m, change)
    PROVE  /\ left \in Nat /\ m.shift <= left
           /\ left > m.shift => m.shift = d.shift /\ left = change
           /\ m.shift = d.shift => change <= left
<1>1. m.shift \in Nat /\ d.shift \in Nat /\ m.cnt = Len(l) /\ Len(l) \in Nat
  BY TargetNumbers
<1>2. Clip(change, m.cnt) = change
  BY <1>1 DEF Clip
<1>3. CASE DrawsAllOf(d, m, change)
  <2>1. left = m.shift
    BY <1>3 DEF From
  <2>2. m.shift = d.shift => change < m.shift + (IF m.left THEN 1 ELSE 0)
    BY <1>2, <1>3 DEF DrawsAllOf
  <2>. QED
    BY <1>1, <2>1, <2>2
<1>4. CASE ~DrawsAllOf(d, m, change)
  <2>1. left = change
    BY <1>2, <1>4 DEF From
  <2>2. m.shift = d.shift /\ ~(change < m.shift + (IF m.left THEN 1 ELSE 0))
    BY <1>2, <1>4 DEF DrawsAllOf
  <2>. QED
    BY <1>1, <2>1, <2>2
<1>. QED
  BY <1>3, <1>4

LEMMA DrawsEdit ==
    ASSUME NEW n \in Nat \ {0}, NEW d, NEW l0 \in Seq(Ink), Shown(d, l0, n),
           NEW m, NEW l \in Seq(Ink), Targets(d, m, l),
           NEW change \in Nat, NEW extent \in Nat, Agrees(l0, l, change, extent),
           change <= d.pos, change <= m.pos,
           extent > 0 => m.pos <= change + extent,
           change < m.pos \/ Len(l) <= Len(l0),
           d.right => m.pos - m.shift <= d.width - 3
    PROVE  Shown([m EXCEPT !.tty = Write(d.tty, Changed(d, m, l, change, extent))], l, n)
<1>. DEFINE p == Len(d.prompt)
            w == d.width
            len == Len(l)
            len0 == Len(l0)
            ms == m.shift
            ds == d.shift
            mp == m.pos
            dp == d.pos
            left == From(d, m, change)
            re == RightEnd(m)
            u == Upto(d, m, left, extent)
            goeson == GoesOn(d, m, left, extent)
            pad == Padding(d, m)
            t == Write(d.tty, Changed(d, m, l, change, extent))
<1>0. Begun(d, n)
  BY DEF Shown
<1>1. /\ dp \in Nat /\ ds \in Nat /\ w \in Int /\ mp \in Nat /\ ms \in Nat
      /\ p \in Nat /\ len \in Nat /\ len0 \in Nat /\ m.cnt = len /\ m.width = w
      /\ p + w = n /\ w >= 3 /\ ds <= dp /\ ms <= mp /\ mp <= len /\ mp - ms <= w - 1
      /\ m.right \in BOOLEAN /\ d.right \in BOOLEAN
      /\ (m.right => len > ms + w - 1) /\ (~m.right => len <= ms + w - 1)
  BY <1>0, TargetNumbers
<1>2. /\ (d.left <=> ds > 0) /\ (m.left <=> ms > 0) /\ d.cnt = len0
      /\ (d.right <=> len0 > ds + w - 1)
      /\ \A k \in 1 .. w - 1 : d.tty.row[p + k] = Cell(d, l0, k)
  BY DEF Shown, Begun, Placed, Targets
<1>3. (m.right => re = ms + w - 2) /\ (~m.right => re = len)
  BY <1>1 DEF RightEnd
<1>4. /\ change <= len0 /\ change <= len
      /\ \A i \in 1 .. change : l[i] = l0[i]
      /\ extent > 0 => /\ len = len0 \/ len <= change + extent
                       /\ \A i \in 1 .. len : i > change + extent => l[i] = l0[i]
  BY DEF Agrees
<1>5. /\ left \in Nat /\ ms <= left
      /\ left > ms => ms = ds /\ left = change
      /\ ms = ds => change <= left
  <2>. HIDE DEF left
  <2>1. left = From(d, m, change) /\ change <= Len(l)
    BY <1>4 DEF left
  <2>. QED
    BY <1>0, <2>1, FromIs
<1>6. /\ change <= dp /\ change <= mp
      /\ extent > 0 => mp <= change + extent
      /\ change < mp \/ len <= len0
      /\ d.right => mp - ms <= w - 3
  OBVIOUS
<1>7. /\ (ms = ds /\ extent > 0 /\ re > left + extent => u = left + extent)
      /\ (~(ms = ds /\ extent > 0 /\ re > left + extent) => u = re)
      /\ goeson <=> m.right /\ u = re
  BY DEF Upto, GoesOn
<1>. HIDE DEF p, w, len, len0, ms, ds, mp, dp, left, re, u, goeson, pad
<1>8. re \in Nat /\ re <= len /\ ms <= re /\ (m.right => re = ms + w - 2)
  <2>1. CASE m.right
    BY <1>1, <1>3, <2>1
  <2>2. CASE ~m.right
    BY <1>1, <1>3, <2>2
  <2>. QED
    BY <2>1, <2>2
<1>9. left <= re
  <2>1. CASE left = ms
    BY <1>8, <2>1
  <2>2. CASE left # ms
    <3>1. left > ms /\ ms = ds /\ left = change
      BY <1>1, <1>5, <2>2
    <3>2. CASE ~m.right
      BY <1>3, <1>4, <3>1, <3>2
    <3>3. CASE m.right
      <4>1. CASE change < mp
        BY <1>1, <1>3, <1>6, <3>1, <3>3, <4>1
      <4>2. CASE len <= len0
        <5>1. d.right
          BY <1>1, <1>2, <3>1, <3>3, <4>2
        <5>. QED
          BY <1>1, <1>3, <1>6, <3>1, <3>3, <5>1
      <4>. QED
        BY <1>6, <4>1, <4>2
    <3>. QED
      BY <3>2, <3>3
  <2>. QED
    BY <2>1, <2>2
<1>10. Drew(d, m, l, left, extent, t, n)
  <2>1. left - ms <= dp - ds
    BY <1>1, <1>5, <1>6
  <2>2. extent > 0 /\ ms = ds => mp <= left + extent
    BY <1>1, <1>4, <1>5, <1>6
  <2>3. CanDraw(d, m, left, extent)
    BY <1>5, <1>9, <2>1, <2>2 DEF CanDraw, ms, ds, mp, dp, re
  <2>4. ~(m.shift = d.shift /\ change < 0) /\ change \in Int
    OBVIOUS
  <2>5. CanDraw(d, m, From(d, m, change), extent)
    BY <2>3 DEF left
  <2>6. Drew(d, m, l, From(d, m, change), extent, t, n)
    BY <1>0, <2>4, <2>5, ChangedIs
  <2>. QED
    BY <2>6 DEF left
<1>. HIDE DEF t
<1>11. /\ Screen(t, n) /\ t.full = FALSE /\ t.col = p + (mp - ms)
       /\ \A k \in 1 .. n : t.row[k] = Redrew(m, l, left, u, goeson, pad, k - p, d.tty.row[k])
  BY <1>10 DEF Drew, u, goeson, pad, p, mp, ms
<1>12. \A k \in 1 .. p : t.row[k] = d.tty.row[k]
  <2>. SUFFICES ASSUME NEW k \in 1 .. p PROVE t.row[k] = d.tty.row[k]
    OBVIOUS
  <2>1. k \in 1 .. n /\ k - p <= left - ms
    BY <1>1, <1>5
  <2>2. t.row[k] = Redrew(m, l, left, u, goeson, pad, k - p, d.tty.row[k])
    BY <1>11, <2>1
  <2>. QED
    BY <2>1, <2>2 DEF Redrew, ms
<1>13. ASSUME NEW j \in 1 .. w - 1 PROVE t.row[p + j] = Cell(m, l, j)
  <2>. DEFINE c == d.tty.row[p + j]
              x == t.row[p + j]
  <2>1. p + j \in 1 .. n /\ (p + j) - p = j /\ j \in Int
    BY <1>1
  <2>2. x = Redrew(m, l, left, u, goeson, pad, j, c)
    BY <1>11, <2>1
  <2>3. c = Cell(d, l0, j)
    BY <1>2
  <2>. HIDE DEF c, x
  <2>4. CASE j <= left - ms
    <3>1. left > ms /\ ms = ds /\ left = change
      BY <1>1, <1>5, <2>4
    <3>2. x = c
      BY <2>2, <2>4 DEF Redrew, ms
    <3>3. ds + j <= len0 /\ ds + j <= len /\ ds + j \in 1 .. change
      <4>1. ds + j <= change /\ ds + j >= 1 /\ ds + j \in Int
        BY <1>1, <2>4, <3>1
      <4>. QED
        BY <1>1, <1>4, <4>1
    <3>4. j = w - 1 => ~m.right /\ ~d.right
      <4>1. SUFFICES ASSUME j = w - 1 PROVE ~m.right /\ ~d.right
        OBVIOUS
      <4>2. ~m.right
        BY <1>1, <1>5, <1>8, <1>9, <2>4, <4>1
      <4>3. ~d.right
        BY <1>1, <1>6, <2>4, <3>1, <4>1
      <4>. QED
        BY <4>2, <4>3
    <3>5. l[ds + j] = l0[ds + j]
      BY <1>4, <3>3
    <3>6. m.shift = d.shift /\ (m.left <=> d.left) /\ m.width = d.width
      BY <1>1, <1>2, <3>1 DEF ms, ds, w
    <3>7. Cell(m, l, j) = Cell(d, l0, j)
      BY <3>3, <3>4, <3>5, <3>6, SameCell DEF ds, w, len, len0
    <3>. QED
      BY <2>3, <3>2, <3>7 DEF x
  <2>5. CASE ~(j <= left - ms) /\ u = re
    <3>1. goeson <=> m.right
      BY <1>7, <2>5
    <3>2. pad \in Nat
      BY <1>0, PadIs DEF pad, Begun, Targets
    <3>3. ~m.right /\ j > len - ms + pad => c = Blank
      <4>. SUFFICES ASSUME ~m.right, j > len - ms + pad PROVE c = Blank
        OBVIOUS
      <4>1. pad \in Nat /\ Reach(d) \in Int /\ Reach(d) <= len - ms + pad
        BY <1>0, PaddedIs DEF pad, len, ms
      <4>2. j > Reach(d)
        BY <1>1, <4>1
      <4>. QED
        BY <4>2, ShownSwept DEF c, w, p
    <3>4. j > left - ms
      BY <1>1, <1>5, <2>5
    <3>5. Redrew(m, l, left, RightEnd(m), goeson, pad, j, c) = Cell(m, l, j)
      BY <1>0, <1>5, <1>9, <3>1, <3>2, <3>3, <3>4, DrawnToEnd DEF ms, re, len, w
    <3>. QED
      BY <2>2, <2>5, <3>5 DEF x, re
  <2>6. CASE ~(j <= left - ms) /\ u # re
    <3>1. /\ ms = ds /\ extent > 0 /\ re > left + extent /\ u = left + extent /\ ~goeson
      BY <1>7, <2>6
    <3>2. change <= left
      BY <1>5, <3>1
    <3>3. len = len0 /\ \A i \in 1 .. len : i > change + extent => l[i] = l0[i]
      BY <1>1, <1>4, <1>5, <1>8, <3>1, <3>2
    <3>4. m.right <=> d.right
      <4>1. (m.right => len > ds + w - 1) /\ (~m.right => len <= ds + w - 1)
        BY <1>1, <3>1
      <4>2. d.right <=> len > ds + w - 1
        BY <1>2, <3>3
      <4>3. CASE m.right
        BY <4>1, <4>2, <4>3
      <4>4. CASE ~m.right
        <5>1. ~(len > ds + w - 1)
          BY <1>1, <4>1, <4>4
        <5>. QED
          BY <4>2, <4>4, <5>1
      <4>. QED
        BY <4>3, <4>4
    <3>5. pad = 0
      <4>1. Reach(d) = Reach(m)
        BY <1>1, <1>2, <3>1, <3>3, <3>4 DEF Reach, ms, ds, w
      <4>2. Reach(m) \in Int
        <5>1. n \in Nat \ {0} /\ Begun(d, n) /\ l \in Seq(Ink) /\ Targets(d, m, l)
          BY <1>0
        <5>2. /\ d.width \in Int /\ m.width = d.width /\ m.cnt = Len(l) /\ Len(l) \in Nat
              /\ m.shift \in Nat
          BY ONLY <5>1, TargetNumbers
        <5>. QED
          BY <5>2 DEF Reach
      <4>. HIDE DEF Reach
      <4>. QED
        BY <4>1, <4>2 DEF pad, Padding
    <3>6. CASE j <= u - ms
      <4>1. x = IF j = 1 /\ m.left THEN Marker ELSE l[ms + j]
        BY <2>2, <2>6, <3>6 DEF Redrew, ms
      <4>2. ms + j <= len /\ ~(m.right /\ j = w - 1)
        <5>1. ms + j <= u /\ u < re
          BY <1>1, <1>5, <1>8, <3>1, <3>6
        <5>2. ms + j <= len
          BY <1>1, <1>8, <5>1, <3>1, <1>5
        <5>3. m.right => j < w - 2
          BY <1>1, <1>8, <5>1, <3>1, <1>5
        <5>. QED
          BY <1>1, <5>2, <5>3
      <4>. QED
        BY <1>1, <4>1, <4>2 DEF Cell, x, ms, len, w
    <3>7. CASE ~(j <= u - ms)
      <4>1. x = c
        <5>1. ~(j <= u - ms + 0)
          BY <1>1, <1>5, <3>1, <3>7
        <5>. QED
          BY <2>2, <2>6, <3>1, <3>5, <3>7, <5>1 DEF Redrew, ms
      <4>2. ds + j <= len => l[ds + j] = l0[ds + j]
        <5>1. ds + j > change + extent /\ ds + j >= 1 /\ ds + j \in Int
          BY <1>1, <1>5, <3>1, <3>2, <3>7
        <5>. QED
          BY <1>1, <3>3, <5>1
      <4>3. m.shift = d.shift /\ (m.left <=> d.left) /\ m.width = d.width
        BY <1>1, <1>2, <3>1 DEF ms, ds, w
      <4>4. Cell(m, l, j) = Cell(d, l0, j)
        BY <3>3, <3>4, <4>2, <4>3, SameCell DEF ds, w, len, len0
      <4>. QED
        BY <2>3, <4>1, <4>4 DEF x
    <3>. QED
      BY <3>6, <3>7
  <2>. QED
    BY <2>4, <2>5, <2>6
<1>14. Shown([m EXCEPT !.tty = t], l, n)
  BY <1>0, <1>11, <1>12, <1>13, ShownIs DEF p, w, mp, ms
<1>. QED
  BY <1>14 DEF t

\* Nothing but the cursor moves; to the right, over what is there
LEMMA DrawsMove ==
    ASSUME NEW n \in Nat \ {0}, NEW d, NEW l \in Seq(Ink), Shown(d, l, n),
           NEW m, Targets(d, m, l), m.shift = d.shift,
           NEW change \in Int, change < 0, NEW extent,
           d.right => m.pos - m.shift <= d.width - 3
    PROVE  Shown([m EXCEPT !.tty = Write(d.tty, Changed(d, m, l, change, extent))], l, n)
<1>. DEFINE p == Len(d.prompt)
            w == d.width
            len == Len(l)
            ds == d.shift
            mp == m.pos
            dp == d.pos
            s == Cursor(l, dp, mp)
            t == Write(d.tty, s)
<1>0. Begun(d, n)
  BY DEF Shown
<1>1. /\ dp \in Nat /\ ds \in Nat /\ w \in Int /\ mp \in Nat /\ m.shift = ds
      /\ p \in Nat /\ len \in Nat /\ m.cnt = len /\ m.width = w
      /\ p + w = n /\ w >= 3 /\ ds <= dp /\ ds <= mp /\ mp <= len
      /\ mp - ds <= w - 1
  BY <1>0, TargetNumbers
<1>2. /\ (d.left <=> ds > 0) /\ (m.left <=> ds > 0) /\ d.cnt = len /\ (m.left => ds < dp)
      /\ (d.right <=> len > ds + w - 1) /\ (m.right <=> len > ds + w - 1)
      /\ \A k \in 1 .. w - 1 : d.tty.row[p + k] = Cell(d, l, k)
      /\ dp <= len
  BY <1>1 DEF Shown, Begun, Placed, Targets
<1>3. /\ Screen(d.tty, n) /\ d.tty.full = FALSE /\ d.tty.col = p + (dp - ds)
  BY DEF Shown, Begun
<1>4. Changed(d, m, l, change, extent) = s
  BY DEF Changed
<1>5. d.right => mp - ds <= w - 3
  BY <1>1
<1>6. \A j : Cell(m, l, j) = Cell(d, l, j)
  BY <1>1, <1>2 DEF Cell
<1>7. /\ Screen(t, n) /\ t.full = FALSE /\ t.col = p + (mp - ds)
      /\ \A k \in 1 .. p : t.row[k] = d.tty.row[k]
      /\ \A j \in 1 .. w - 1 : t.row[p + j] = Cell(m, l, j)
  <2>1. CASE mp <= dp
    <3>1. s = Run(BS, dp - mp)
      BY <1>1, <2>1, CursorIs
    <3>2. dp - mp \in Nat /\ dp - mp <= d.tty.col /\ d.tty.col - (dp - mp) = p + (mp - ds)
      <4>. HIDE DEF p, dp, mp, ds
      <4>. QED
        BY <1>1, <1>3, <2>1
    <3>3. Back(d.tty, dp - mp, t, n)
      BY <1>3, <3>1, <3>2, BackIs
    <3>. HIDE DEF t, p, dp, mp, ds, w
    <3>4. Screen(t, n) /\ t.full = FALSE /\ t.col = p + (mp - ds) /\ t.row = d.tty.row
      BY <3>2, <3>3 DEF Back
    <3>. QED
      BY <1>2, <1>6, <3>4
  <2>2. CASE ~(mp <= dp)
    <3>1. ~(dp > mp) /\ dp <= mp
      <4>. HIDE DEF dp, mp
      <4>. QED
        BY <1>1, <2>2
    <3>2. s = Piece(l, dp, mp)
      BY <3>1 DEF Cursor
    <3>3. s \in Seq(Ink) /\ Len(s) = mp - dp /\ \A k \in 1 .. mp - dp : s[k] = l[dp + k]
      <4>. HIDE DEF s, dp, mp
      <4>1. mp <= Len(l)
        BY <1>1
      <4>2. /\ Piece(l, dp, mp) \in Seq(Ink) /\ Len(Piece(l, dp, mp)) = mp - dp
            /\ \A k \in 1 .. mp - dp : Piece(l, dp, mp)[k] = l[dp + k]
        BY <1>1, <3>1, <4>1, PieceIs
      <4>. QED
        BY <3>2, <4>2
    <3>. HIDE DEF s
    <3>4. d.tty.col + Len(s) < n /\ d.tty.col + Len(s) = p + (mp - ds)
      <4>. HIDE DEF p, dp, mp, ds, w
      <4>. QED
        BY <1>1, <1>3, <3>1, <3>3
    <3>5. Over(d.tty, s, t, n)
      BY <1>3, <3>3, <3>4, OverIs
    <3>. HIDE DEF t, p, dp, mp, ds, w, len
    <3>6. /\ Screen(t, n) /\ t.full = FALSE /\ t.col = p + (mp - ds)
          /\ \A k \in 1 .. n : t.row[k] =
                IF d.tty.col < k /\ k <= d.tty.col + Len(s) THEN s[k - d.tty.col] ELSE d.tty.row[k]
      BY <3>4, <3>5 DEF Over, OverTo
    <3>7. \A k \in 1 .. p : t.row[k] = d.tty.row[k]
      <4>. SUFFICES ASSUME NEW k \in 1 .. p PROVE t.row[k] = d.tty.row[k]
        OBVIOUS
      <4>1. k \in 1 .. n /\ ~(d.tty.col < k)
        BY <1>1, <1>3
      <4>. QED
        BY <3>6, <4>1
    <3>8. ASSUME NEW j \in 1 .. w - 1 PROVE t.row[p + j] = Cell(m, l, j)
      <4>1. p + j \in 1 .. n
        BY <1>1
      <4>2. CASE d.tty.col < p + j /\ p + j <= d.tty.col + Len(s)
        <5>1. /\ (p + j) - d.tty.col \in 1 .. mp - dp /\ dp + ((p + j) - d.tty.col) = ds + j
              /\ ds + j <= len /\ j > dp - ds /\ j <= mp - ds
          BY <1>1, <1>3, <3>1, <3>4, <4>2
        <5>2. t.row[p + j] = l[ds + j]
          BY <3>3, <3>6, <4>1, <4>2, <5>1
        <5>3. ~(j = 1 /\ m.left)
          BY <1>1, <1>2, <5>1
        <5>4. ~(m.right /\ j = w - 1)
          <6>1. m.right => d.right
            BY <1>2
          <6>2. d.right => j # w - 1
            BY <1>1, <1>5, <5>1
          <6>. QED
            BY <6>1, <6>2
        <5>. QED
          BY <1>1, <5>1, <5>2, <5>3, <5>4 DEF Cell, w, ds, len
      <4>3. CASE ~(d.tty.col < p + j /\ p + j <= d.tty.col + Len(s))
        <5>1. t.row[p + j] = d.tty.row[p + j]
          BY <3>6, <4>1, <4>3
        <5>. QED
          BY <1>2, <1>6, <5>1
      <4>. QED
        BY <4>2, <4>3
    <3>. QED
      BY <3>6, <3>7, <3>8
  <2>. QED
    BY <2>1, <2>2
<1>. HIDE DEF t
<1>8. Shown([m EXCEPT !.tty = t], l, n)
  <2>1. t.col = Len(d.prompt) + (m.pos - m.shift)
    BY <1>1, <1>7
  <2>. QED
    BY <1>0, <1>7, <2>1, ShownIs
<1>. QED
  BY <1>4, <1>8 DEF t

\* A line that became shorter ahead of the change, on a row that is not looked
\* at before it is drawn again: nothing is behind it
LEMMA DrawsShorter ==
    ASSUME NEW n \in Nat \ {0}, NEW d, Begun(d, n), Swept(d, n, EndOf(d)),
           NEW m, NEW l \in Seq(Ink), Targets(d, m, l),
           NEW change \in Nat, m.pos <= change, change <= d.pos
    PROVE  LET r == [m EXCEPT !.tty = Write(d.tty, Changed(d, m, l, change, 0))]
           IN  Begun(r, n) /\ Swept(r, n, EndOf(r))
<1>. DEFINE p == Len(d.prompt)
            w == d.width
            len == Len(l)
            ms == m.shift
            ds == d.shift
            mp == m.pos
            dp == d.pos
            at == Clip(change, m.cnt)
            left == From(d, m, change)
            re == RightEnd(m)
            pad == Padding(d, m)
            t == Write(d.tty, Changed(d, m, l, change, 0))
            r == [m EXCEPT !.tty = t]
<1>1. /\ dp \in Nat /\ ds \in Nat /\ w \in Int /\ mp \in Nat /\ ms \in Nat
      /\ p \in Nat /\ len \in Nat /\ m.cnt = len /\ m.width = w
      /\ p + w = n /\ w >= 3 /\ ds <= dp /\ ms <= mp /\ mp <= len /\ mp - ms <= w - 1
      /\ m.right \in BOOLEAN /\ d.right \in BOOLEAN
      /\ (m.right => len > ms + w - 1) /\ (~m.right => len <= ms + w - 1)
      /\ change <= dp /\ mp <= change
  BY TargetNumbers
<1>2. /\ Screen(d.tty, n) /\ d.tty.full = FALSE /\ d.tty.col = p + (dp - ds)
  BY DEF Begun
<1>3. (m.right => re = ms + w - 2) /\ (~m.right => re = len)
  BY <1>1 DEF RightEnd
<1>4. at \in Nat /\ at <= change /\ at <= len
  BY <1>1 DEF Clip
<1>5. /\ left \in Nat /\ ms <= left
      /\ left > ms => ms = ds /\ left = at
  <2>1. Clip(at, m.cnt) = at
    BY <1>1, <1>4 DEF Clip
  <2>2. left = From(d, m, at)
    BY <2>1 DEF From, DrawsAllOf
  <2>3. at <= Len(l)
    BY <1>4
  <2>. HIDE DEF left, at
  <2>. QED
    BY <1>4, <2>2, <2>3, FromIs DEF ms, ds
<1>. HIDE DEF p, w, len, ms, ds, mp, dp, left, re, pad, at, r
<1>6. re \in Nat /\ re <= len /\ ms <= re /\ (m.right => re = ms + w - 2)
  <2>1. CASE m.right
    BY <1>1, <1>3, <2>1
  <2>2. CASE ~m.right
    BY <1>1, <1>3, <2>2
  <2>. QED
    BY <2>1, <2>2
<1>7. /\ Screen(t, n) /\ t.full = FALSE /\ t.col = p + (mp - ms)
      /\ \A k \in 1 .. p : t.row[k] = d.tty.row[k]
      /\ ~m.right => \A j \in 1 .. w - 1 : j > len - ms => t.row[p + j] = Blank
  <2>1. CASE left <= re
    <3>1. CanDraw(d, m, From(d, m, change), 0)
      <4>1. left - ms <= dp - ds
        BY <1>1, <1>4, <1>5
      <4>2. ~(0 > 0)
        OBVIOUS
      <4>3. CanDraw(d, m, left, 0)
        BY <1>5, <2>1, <4>1, <4>2 DEF CanDraw, ms, ds, mp, dp, re
      <4>. QED
        BY <4>3 DEF left
    <3>2. Drew(d, m, l, From(d, m, change), 0, t, n)
      <4>1. ~(m.shift = d.shift /\ change < 0) /\ change \in Int /\ 0 \in Nat
        OBVIOUS
      <4>. QED
        BY <3>1, <4>1, ChangedIs
    <3>. DEFINE goeson == GoesOn(d, m, left, 0)
                u == Upto(d, m, left, 0)
    <3>3. u = re /\ (goeson <=> m.right)
      BY DEF Upto, GoesOn, re
    <3>. HIDE DEF t, u, goeson
    <3>4. /\ Screen(t, n) /\ t.full = FALSE /\ t.col = p + (mp - ms)
          /\ \A k \in 1 .. n : t.row[k] = Redrew(m, l, left, u, goeson, pad, k - p, d.tty.row[k])
      BY <3>2 DEF Drew, u, goeson, pad, p, mp, ms, left
    <3>5. \A k \in 1 .. p : t.row[k] = d.tty.row[k]
      <4>. SUFFICES ASSUME NEW k \in 1 .. p PROVE t.row[k] = d.tty.row[k]
        OBVIOUS
      <4>1. k \in 1 .. n /\ k - p <= left - ms
        BY <1>1, <1>5
      <4>2. t.row[k] = Redrew(m, l, left, u, goeson, pad, k - p, d.tty.row[k])
        BY <3>4, <4>1
      <4>. QED
        BY <4>1, <4>2 DEF Redrew, ms
    <3>6. ASSUME ~m.right, NEW j \in 1 .. w - 1, j > len - ms PROVE t.row[p + j] = Blank
      <4>. DEFINE c == d.tty.row[p + j]
                  x == t.row[p + j]
      <4>1. p + j \in 1 .. n /\ p + j \in 1 .. n - 1 /\ (p + j) - p = j /\ p + j > p
        BY <1>1
      <4>2. x = Redrew(m, l, left, u, goeson, pad, j, c)
        BY <3>4, <4>1
      <4>3. pad \in Nat /\ Reach(d) \in Int /\ Reach(d) <= len - ms + pad
        BY <3>6, PaddedIs DEF pad, len, ms
      <4>4. j > len - ms + pad => c = Blank
        <5>. SUFFICES ASSUME j > len - ms + pad PROVE p + j > EndOf(d)
          BY <4>1 DEF Swept, p
        <5>1. EndOf(d) = p + Reach(d)
          BY DEF EndOf, p
        <5>. QED
          BY <1>1, <4>3, <5>1
      <4>. HIDE DEF c, x
      <4>5. /\ ~(j <= left - ms) /\ ~(j <= u - ms) /\ ~goeson
            /\ ~(j <= u - ms + pad) => c = Blank
        BY <1>1, <1>3, <1>5, <2>1, <3>3, <3>6, <4>3, <4>4
      <4>6. x = Blank
        BY <4>2, <4>5 DEF Redrew, ms
      <4>. QED
        BY <4>6 DEF x
    <3>. QED
      BY <3>4, <3>5, <3>6
  <2>2. CASE ~(left <= re)
    <3>1. left > re /\ left > ms /\ ms = ds /\ left = at
      BY <1>1, <1>5, <1>6, <2>2
    <3>2. m.right
      <4>. SUFFICES ASSUME ~m.right PROVE FALSE
        BY <1>1
      <4>1. re = len
        BY <1>3
      <4>. QED
        BY <1>1, <1>4, <3>1, <4>1
    <3>3. Changed(d, m, l, change, 0) = Cursor(l, dp, mp)
      <4>1. Min({change, m.cnt}) = P!Min({change, m.cnt})
        BY Zenon DEF Min, P!Min
      <4>2. Min({change, m.cnt}) = at
        BY <1>1, <4>1, LesserNumber DEF Clip, at
      <4>3. left > (IF m.right THEN m.shift + m.width - 2 ELSE m.cnt)
        BY <3>1 DEF re, RightEnd
      <4>4. ~(m.shift = d.shift /\ change < 0)
        OBVIOUS
      <4>5. left = IF m.shift # d.shift \/ at < m.shift + (IF m.left THEN 1 ELSE 0) THEN m.shift ELSE at
        BY DEF left, at, From, DrawsAllOf
      <4>. DEFINE b == d.pos - (IF (m.shift # d.shift \/ at < m.shift + (IF m.left THEN 1 ELSE 0)) \/ change < 0
                                THEN d.shift ELSE at)
      <4>6. Changed(d, m, l, change, 0) = Drawn(d, m, l, left, b, 0)
        BY <4>2, <4>4, <4>5 DEF Changed
      <4>7. Drawn(d, m, l, left, b, 0) = Cursor(l, dp, mp)
        BY <4>3 DEF Drawn, dp, mp
      <4>. QED
        BY <4>6, <4>7
    <3>4. Cursor(l, dp, mp) = Run(BS, dp - mp)
      <4>1. mp <= dp /\ mp <= Len(l)
        BY <1>1 DEF len
      <4>. QED
        BY <1>1, <4>1, CursorIs
    <3>5. dp - mp \in Nat /\ dp - mp <= d.tty.col /\ d.tty.col - (dp - mp) = p + (mp - ms)
      BY <1>1, <1>2, <3>1
    <3>6. Back(d.tty, dp - mp, t, n)
      BY <1>2, <3>3, <3>4, <3>5, BackIs
    <3>. HIDE DEF t
    <3>7. Screen(t, n) /\ t.full = FALSE /\ t.col = p + (mp - ms) /\ t.row = d.tty.row
      BY <3>5, <3>6 DEF Back
    <3>. QED
      BY <3>2, <3>7
  <2>. QED
    BY <2>1, <2>2
<1>. HIDE DEF t
<1>8. Begun(r, n)
  <2>1. Begun([m EXCEPT !.tty = t], n)
    BY <1>7, DrewBegun DEF p, mp, ms
  <2>. QED
    BY <2>1 DEF r
<1>9. Swept(r, n, EndOf(r))
  <2>1. m \in Editors /\ m.prompt = d.prompt /\ r = [m EXCEPT !.tty = t]
    BY DEF Targets, r
  <2>2. r.tty = t /\ r.right = m.right /\ r.width = w /\ r.cnt = len /\ r.shift = ms /\ r.prompt = d.prompt
    BY <1>1, <2>1 DEF Editors, ms
  <2>3. EndOf(r) = p + (IF m.right THEN w - 1 ELSE len - ms)
    BY <2>2 DEF EndOf, Reach, p
  <2>4. ASSUME NEW k \in 1 .. n - 1, k > EndOf(r), k > Len(r.prompt) PROVE r.tty.row[k] = Blank
    <3>1. Len(r.prompt) = p
      BY <2>2 DEF p
    <3>2. ~m.right
      BY <1>1, <2>3, <2>4
    <3>3. k - p \in 1 .. w - 1 /\ k - p > len - ms /\ p + (k - p) = k
      BY <1>1, <2>3, <2>4, <3>1, <3>2
    <3>4. t.row[p + (k - p)] = Blank
      BY <1>7, <3>2, <3>3
    <3>. QED
      BY <2>2, <3>3, <3>4
  <2>. QED
    BY <2>4 DEF Swept
<1>. QED
  BY <1>8, <1>9 DEF r, t

----------------------------------------------------------------------------
(***************************************************************************)
(* The prompt, and the line behind it                                      *)
(***************************************************************************)
\* Nothing is behind column e
Clear(t, e, n) == \A k \in 1 .. n - 1 : k > e => t.row[k] = Blank

\* However long a text is, what is behind its last column stays empty
LEMMA WriteClears ==
    ASSUME NEW n \in Nat \ {0}, NEW t, Screen(t, n), NEW s \in Seq(Ink),
           Clear(t, t.col + Len(s), n)
    PROVE  Screen(Write(t, s), n) /\ Clear(Write(t, s), t.col + Len(s), n)
<1>. DEFINE W == After(t, s)
            e == t.col + Len(s)
            A(k) == Screen(W[k], n) /\ Clear(W[k], e, n) /\ W[k].col <= t.col + k
            T == {k \in Nat : k <= Len(s) => A(k)}
<1>0. t.col \in Nat /\ Len(s) \in Nat /\ e \in Nat
  BY DEF Screen
<1>1. W[0] = t /\ \A i \in 1 .. Len(s) : W[i] = Put(W[i - 1], s[i])
  <2>1. \A i \in 0 .. Len(s) :
           After(t, s)[i] = IF i = 0 THEN t ELSE Put(After(t, s)[i - 1], s[i])
    BY <1>0, AfterSteps
  <2>2. 0 \in 0 .. Len(s) /\ \A i \in 1 .. Len(s) : i \in 0 .. Len(s) /\ i # 0
    BY <1>0
  <2>. QED
    BY <2>1, <2>2
<1>. HIDE DEF W
<1>2. 0 \in T
  BY <1>0, <1>1
<1>3. ASSUME NEW k \in Nat, k \in T PROVE k + 1 \in T
  <2>. SUFFICES ASSUME k + 1 <= Len(s) PROVE A(k + 1)
    OBVIOUS
  <2>1. k + 1 \in 1 .. Len(s) /\ (k + 1) - 1 = k /\ k <= Len(s)
    BY <1>0
  <2>. DEFINE x == W[k]
              c == s[k + 1]
              here == IF x.full THEN NextRow(x) ELSE x
              y == Type(here, c)
  <2>2. W[k + 1] = Put(x, c) /\ c \in Ink
    BY <1>1, <2>1
  <2>3. Screen(x, n) /\ Clear(x, e, n) /\ x.col <= t.col + k
    BY <1>3, <2>1
  <2>. HIDE DEF x, c
  <2>4. Put(x, c) = Type(x, c) /\ Screen(Put(x, c), n)
    BY <2>2, <2>3, InkIsMarks, PutIs
  <2>5. /\ Screen(here, n) /\ here.full = FALSE /\ here.col <= t.col + k /\ Clear(here, e, n)
    <3>1. CASE x.full
      <4>1. /\ x.row \in Seq(Marks) /\ Len(x.row) = n /\ x.down \in Nat
        BY <2>3 DEF Screen
      <4>4. /\ Screen(NextRow(x), n) /\ NextRow(x).col = 0 /\ NextRow(x).full = FALSE
            /\ NextRow(x).row = BlankRow(n)
        <5>. DEFINE z == Fresh(n)
        <5>1. z \in [row : Seq(Marks), col : Nat, full : BOOLEAN, down : Nat]
          BY FreshScreen DEF Screen
        <5>2. z.row = BlankRow(n)
          BY DEF Fresh
        <5>3. NextRow(x) = [z EXCEPT !.down = x.down + 1]
          BY <4>1 DEF NextRow
        <5>. HIDE DEF z
        <5>4. NextRow(x).row = BlankRow(n)
          BY <5>1, <5>2, <5>3
        <5>. QED
          BY <2>3, <5>4, NextRowIs
      <4>5. Clear(NextRow(x), e, n)
        BY <4>4 DEF Clear, BlankRow
      <4>. QED
        BY <1>0, <3>1, <4>4, <4>5
    <3>2. CASE ~x.full
      <4>1. x.full = FALSE
        BY <2>3, <3>2 DEF Screen
      <4>. QED
        BY <2>3, <3>2, <4>1
    <3>. QED
      BY <3>1, <3>2
  <2>6. Type(x, c) = y
    BY <2>5 DEF Type
  <2>. HIDE DEF here
  <2>7. /\ here \in Ttys /\ here.row \in Seq(Marks) /\ Len(here.row) = n /\ here.col \in Nat
        /\ here.col < n
    BY <2>5 DEF Screen, Ttys
  <2>8. y = [here EXCEPT !.row[here.col + 1] = c,
                         !.col = IF here.col + 1 = n THEN @ ELSE @ + 1, !.full = (here.col + 1 = n)]
    BY <2>5, <2>7 DEF Type
  <2>9. y.col <= here.col + 1 /\ y.row = [here.row EXCEPT ![here.col + 1] = c]
    BY <2>7, <2>8 DEF Ttys
  <2>. HIDE DEF y
  <2>10. y.col <= t.col + (k + 1) /\ here.col + 1 <= e
    <3>1. y.col \in Nat
      BY <2>4, <2>6 DEF Screen
    <3>2. here.col + 1 <= t.col + (k + 1) /\ here.col + 1 \in Nat
      BY <1>0, <2>5, <2>7
    <3>. QED
      BY <1>0, <2>9, <3>1, <3>2
  <2>11. Clear(y, e, n)
    <3>. SUFFICES ASSUME NEW j \in 1 .. n - 1, j > e PROVE y.row[j] = Blank
      BY DEF Clear
    <3>1. here.row[j] = Blank
      BY <2>5 DEF Clear
    <3>2. j # here.col + 1 /\ j \in 1 .. n
      BY <1>0, <2>7, <2>10
    <3>. QED
      BY <2>7, <2>9, <3>1, <3>2
  <2>12. Put(x, c) = y
    BY <2>4, <2>6
  <2>. QED
    BY <2>2, <2>4, <2>10, <2>11, <2>12
<1>. HIDE DEF T
<1>4. \A k \in Nat : k \in T
  BY <1>2, <1>3, SetInduction
<1>5. A(Len(s))
  BY <1>0, <1>4 DEF T
<1>. QED
  BY <1>5 DEF Write, W

\* A carriage return, and the prompt
FromFirst(p) == <<CR>> \o p
Preceded(u, t, p, n) ==
    /\ Screen(u, n) /\ u.full = FALSE /\ u.col = Len(p)
    /\ \A k \in 1 .. n : u.row[k] = IF k <= Len(p) THEN p[k] ELSE t.row[k]

LEMMA PromptIs ==
    ASSUME NEW n \in Nat \ {0}, NEW t, Screen(t, n), NEW p \in Seq(Ink), Len(p) < n,
           NEW u, u = Write(t, FromFirst(p))
    PROVE  Preceded(u, t, p, n)
<1>. DEFINE x == Write(t, <<CR>>)
<1>0. /\ t \in [row : Seq(Marks), col : Nat, full : BOOLEAN, down : Nat]
      /\ Len(t.row) = n /\ Len(p) \in Nat
  BY DEF Screen
<1>1. x = [t EXCEPT !.col = 0, !.full = FALSE]
  <2>. DEFINE s == <<CR>>
  <2>0. Len(s) \in Nat
    OBVIOUS
  <2>1. Len(s) = 1 /\ s[1] = CR
    OBVIOUS
  <2>. HIDE DEF s
  <2>2. \A i \in 0 .. Len(s) : After(t, s)[i] = IF i = 0 THEN t ELSE Put(After(t, s)[i - 1], s[i])
    BY <2>0, AfterSteps
  <2>3. After(t, s)[0] = t /\ After(t, s)[1] = Put(After(t, s)[0], s[1])
    <3>1. 0 \in 0 .. Len(s) /\ 1 \in 0 .. Len(s) /\ 1 - 1 = 0 /\ 1 # 0
      BY <2>1
    <3>. QED
      BY <2>2, <3>1
  <2>4. Write(t, s) = Put(t, CR)
    BY <2>1, <2>3 DEF Write
  <2>5. ASSUME NEW c, c = CR PROVE Put(t, c) = [t EXCEPT !.col = 0, !.full = FALSE]
    <3>1. CR # BS /\ CR # NL /\ BS # NL
      BY DEF CR, BS, NL
    <3>. QED
      BY <2>5, <3>1 DEF Put
  <2>. QED
    BY <2>4, <2>5 DEF s
<1>2. Screen(x, n) /\ x.full = FALSE /\ x.col = 0 /\ x.row = t.row
  <2>1. t.col \in Nat /\ t.col < n
    BY DEF Screen
  <2>. DEFINE b == FALSE
              c == 0
  <2>2. x = [t EXCEPT !.col = c, !.full = b] /\ b \in BOOLEAN /\ c \in Nat /\ c < n
    BY <1>1
  <2>. HIDE DEF x, b, c
  <2>3. /\ x \in [row : Seq(Marks), col : Nat, full : BOOLEAN, down : Nat]
        /\ x.row = t.row /\ x.col = c /\ x.full = b
    BY <1>0, <2>2
  <2>4. Screen(x, n)
    BY <1>0, <2>2, <2>3 DEF Screen
  <2>. QED
    BY <2>3, <2>4 DEF b, c
<1>3. u = Write(x, p)
  <2>. DEFINE cr == <<CR>>
  <2>1. cr \in Seq(Marks) /\ p \in Seq(Marks) /\ FromFirst(p) = cr \o p /\ x = Write(t, cr)
    BY InkIsMarks, InkText DEF FromFirst
  <2>. HIDE DEF cr, x
  <2>2. Write(t, cr \o p) = Write(Write(t, cr), p)
    BY <2>1, WriteJoined
  <2>. QED
    BY <2>1, <2>2
<1>. HIDE DEF x
<1>4. Over(x, p, u, n)
  <2>1. x.col + Len(p) < n
    BY <1>0, <1>2
  <2>. QED
    BY <1>2, <1>3, <2>1, OverIs
<1>5. /\ Screen(u, n) /\ u.full = FALSE /\ u.col = 0 + Len(p)
      /\ \A k \in 1 .. n : u.row[k] = IF 0 < k /\ k <= 0 + Len(p) THEN p[k - 0] ELSE t.row[k]
  BY <1>2, <1>4 DEF Over, OverTo
<1>6. ASSUME NEW k \in 1 .. n PROVE u.row[k] = IF k <= Len(p) THEN p[k] ELSE t.row[k]
  <2>1. 0 < k /\ (k <= 0 + Len(p) <=> k <= Len(p)) /\ k - 0 = k
    BY <1>0
  <2>. QED
    BY <1>5, <2>1
<1>. QED
  BY <1>0, <1>5, <1>6 DEF Preceded

LEMMA BegunIs ==
    ASSUME NEW n \in Nat \ {0}, NEW d, Begun(d, n)
    PROVE  d \in Editors /\ n >= 3
<1>1. d \in Editors /\ Len(d.prompt) + n \div 3 + 3 <= n
  BY DEF Begun, RoomBehind
<1>2. d.prompt \in Seq(Ink)
  BY <1>1 DEF Editors
<1>. DEFINE p == Len(d.prompt)
            c == n \div 3
<1>3. p \in Nat /\ c \in Nat
  BY <1>2
<1>4. p + c + 3 <= n
  BY <1>1
<1>. HIDE DEF p, c
<1>. QED
  BY <1>1, <1>3, <1>4

LEMMA ClampedIs ==
    ASSUME NEW cursor \in Int, NEW c \in Nat
    PROVE  /\ Clamped(cursor, c) \in Nat /\ Clamped(cursor, c) <= c
           /\ cursor >= 0 /\ cursor <= c => Clamped(cursor, c) = cursor
           /\ cursor >= 0 => Clamped(cursor, c) <= cursor
BY DEF Clamped

\* What gl_fixup aims at, the shift included
FixAims(d, l, change, cursor, extent) ==
    \E m : /\ Targets(d, m, l) /\ m.pos = Clamped(cursor, Len(l))
           /\ m.shift = ShiftFor(d, Clamped(cursor, Len(l)))
           /\ d.right => m.pos - m.shift <= d.width - 3
           /\ Prompted(d, l, change, cursor, extent)
                = [m EXCEPT !.tty = Write(d.tty, Changed(d, m, l, change, extent))]

LEMMA FixIs ==
    ASSUME NEW n \in Nat \ {0}, termw = n, NEW d, Begun(d, n), NEW l \in Seq(Ink),
           NEW change \in Int, NEW cursor \in Int, NEW extent \in Nat,
           change < 0 => d.cnt = Len(l) /\ (d.right <=> d.cnt > d.shift + d.width - 1)
    PROVE  FixAims(d, l, change, cursor, extent)
<1>. DEFINE to == Clamped(cursor, Len(l))
<1>1. Len(l) \in Nat /\ to \in Nat /\ to <= Len(l)
  <2>1. Len(l) \in Nat
    OBVIOUS
  <2>. QED
    BY <2>1, ClampedIs
<1>2. PICK m : /\ Aims(d, m, l, change, to)
               /\ Prompted(d, l, change, cursor, extent)
                    = [m EXCEPT !.tty = Write(d.tty, Changed(d, m, l, change, extent))]
  BY BegunIs, PromptedIs
<1>. HIDE DEF to
<1>3. /\ m \in Editors /\ m.width = d.width /\ m.prompt = d.prompt /\ m.tty = d.tty
      /\ m.pos = to /\ m.cnt = (IF change >= 0 THEN Len(l) ELSE d.cnt)
      /\ m.shift = ShiftFor(d, to)
      /\ m.left = (IF m.shift # d.shift THEN m.shift > 0 ELSE d.left)
      /\ m.right = (IF m.shift # d.shift \/ change >= 0
                    THEN m.cnt > m.shift + d.width - 1 ELSE d.right)
  BY <1>2 DEF Aims
<1>4. /\ m.shift \in Nat /\ m.shift <= to /\ (m.shift > 0 => m.shift < to)
      /\ to - m.shift <= d.width - 1
      /\ d.right => to - m.shift <= d.width - 3
  BY <1>1, <1>3, ShiftIs
<1>5. m.cnt = Len(l)
  BY <1>3
<1>6. m.left <=> m.shift > 0
  <2>1. CASE m.shift # d.shift
    BY <1>3, <2>1
  <2>2. CASE m.shift = d.shift
    <3>1. d.left <=> d.shift > 0
      BY DEF Begun
    <3>. QED
      BY <1>3, <2>2, <3>1
  <2>. QED
    BY <2>1, <2>2
<1>7. m.right <=> m.cnt > m.shift + m.width - 1
  <2>1. CASE m.shift # d.shift \/ change >= 0
    BY <1>3, <2>1
  <2>2. CASE ~(m.shift # d.shift \/ change >= 0)
    <3>1. change < 0 /\ m.shift = d.shift /\ m.right = d.right /\ m.cnt = d.cnt
      BY <1>3, <2>2
    <3>. QED
      BY <1>3, <3>1
  <2>. QED
    BY <2>1, <2>2
<1>8. Targets(d, m, l)
  BY <1>1, <1>3, <1>4, <1>5, <1>6, <1>7 DEF Targets
<1>. QED
  BY <1>2, <1>3, <1>4, <1>8 DEF to, FixAims

\* r is the editor after gl_fixup
Fixed(r, l, p, to, n) == Shown(r, l, n) /\ r.pos = to /\ r.prompt = p

LEMMA SetTty ==
    ASSUME NEW m \in Editors, NEW t
    PROVE  /\ [m EXCEPT !.tty = t].pos = m.pos /\ [m EXCEPT !.tty = t].prompt = m.prompt
           /\ [m EXCEPT !.tty = t].shift = m.shift /\ [m EXCEPT !.tty = t].cnt = m.cnt
           /\ [m EXCEPT !.tty = t].width = m.width /\ [m EXCEPT !.tty = t].right = m.right
           /\ [m EXCEPT !.tty = t].left = m.left /\ [m EXCEPT !.tty = t].tty = t
BY DEF Editors

\* A change of the line
LEMMA FixEdit ==
    ASSUME NEW n \in Nat \ {0}, termw = n, NEW d, NEW l0 \in Seq(Ink), Shown(d, l0, n),
           NEW l \in Seq(Ink), NEW change \in Nat, NEW cursor \in Int, NEW extent \in Nat,
           Agrees(l0, l, change, extent), change <= d.pos, change <= Clamped(cursor, Len(l)),
           extent > 0 => Clamped(cursor, Len(l)) <= change + extent,
           change < Clamped(cursor, Len(l)) \/ Len(l) <= Len(l0)
    PROVE  Fixed(gl_fixup_scroll(d, l, d.prompt, change, cursor, extent),
                 l, d.prompt, Clamped(cursor, Len(l)), n)
<1>. DEFINE to == Clamped(cursor, Len(l))
            t(m) == Write(d.tty, Changed(d, m, l, change, extent))
<1>0. Begun(d, n)
  BY DEF Shown
<1>1. gl_fixup_scroll(d, l, d.prompt, change, cursor, extent) = Prompted(d, l, change, cursor, extent)
  BY DEF gl_fixup_scroll
<1>2. PICK m : /\ Targets(d, m, l) /\ m.pos = to
               /\ d.right => m.pos - m.shift <= d.width - 3
               /\ Prompted(d, l, change, cursor, extent) = [m EXCEPT !.tty = t(m)]
  <2>1. change \in Int /\ ~(change < 0)
    OBVIOUS
  <2>2. FixAims(d, l, change, cursor, extent)
    BY <1>0, <2>1, FixIs
  <2>. QED
    BY <2>2 DEF FixAims
<1>. HIDE DEF to
<1>3. /\ change <= to /\ (extent > 0 => to <= change + extent)
      /\ change < to \/ Len(l) <= Len(l0)
  BY DEF to
<1>4. Shown([m EXCEPT !.tty = t(m)], l, n)
  BY <1>2, <1>3, DrawsEdit
<1>5. m \in Editors /\ m.prompt = d.prompt
  BY <1>2 DEF Targets
<1>6. Fixed([m EXCEPT !.tty = t(m)], l, d.prompt, to, n)
  BY <1>2, <1>4, <1>5, SetTty DEF Fixed
<1>. QED
  BY <1>1, <1>2, <1>6 DEF to

\* The cursor moves
LEMMA FixMove ==
    ASSUME NEW n \in Nat \ {0}, termw = n, NEW d, NEW l \in Seq(Ink), Shown(d, l, n),
           NEW cursor \in Int
    PROVE  Fixed(gl_fixup_scroll(d, l, d.prompt, -1, cursor, 0),
                 l, d.prompt, Clamped(cursor, Len(l)), n)
<1>. DEFINE change == -1
            none == 0
            to == Clamped(cursor, Len(l))
            t(m) == Write(d.tty, Changed(d, m, l, change, none))
<1>0. /\ Begun(d, n) /\ d.cnt = Len(l)
      /\ (d.right <=> d.cnt > d.shift + d.width - 1)
  BY DEF Shown, Placed
<1>00. change \in Int /\ change < 0 /\ none \in Nat /\ none = 0
  OBVIOUS
<1>1. gl_fixup_scroll(d, l, d.prompt, change, cursor, none) = Prompted(d, l, change, cursor, none)
  BY DEF gl_fixup_scroll
<1>. HIDE DEF change, none
<1>2. PICK m : /\ Targets(d, m, l) /\ m.pos = to
               /\ d.right => m.pos - m.shift <= d.width - 3
               /\ Prompted(d, l, change, cursor, none) = [m EXCEPT !.tty = t(m)]
  <2>1. change < 0 => d.cnt = Len(l) /\ (d.right <=> d.cnt > d.shift + d.width - 1)
    BY <1>0
  <2>2. Begun(d, n)
    BY <1>0
  <2>. HIDE DEF t
  <2>3. PICK m : /\ Targets(d, m, l) /\ m.pos = Clamped(cursor, Len(l))
                 /\ m.shift = ShiftFor(d, Clamped(cursor, Len(l)))
                 /\ d.right => m.pos - m.shift <= d.width - 3
                 /\ Prompted(d, l, change, cursor, none)
                      = [m EXCEPT !.tty = Write(d.tty, Changed(d, m, l, change, none))]
    <3>1. /\ n \in Nat \ {0} /\ termw = n /\ l \in Seq(Ink) /\ change \in Int /\ cursor \in Int
          /\ none \in Nat
      BY <1>00
    <3>2. FixAims(d, l, change, cursor, none)
      BY ONLY <2>1, <2>2, <3>1, FixIs
    <3>. QED
      BY ONLY <3>2 DEF FixAims
  <2>. QED
    BY <2>3 DEF t, to
<1>. HIDE DEF to
<1>3. Shown([m EXCEPT !.tty = t(m)], l, n)
  <2>1. CASE m.shift = d.shift
    BY <1>00, <1>2, <2>1, DrawsMove
  <2>2. CASE m.shift # d.shift
    <3>1. From(d, m, change) = m.shift
      BY <2>2 DEF From, DrawsAllOf
    <3>2. Swept(d, n, EndOf(d)) /\ EndOf(d) = Len(d.prompt) + Reach(d) /\ Reach(d) \in Nat
      BY ShownSwept DEF EndOf
    <3>3. d.prompt \in Seq(Ink)
      BY <1>0 DEF Begun, Editors
    <3>4. EndOf(d) \in Int /\ EndOf(d) <= Len(d.prompt) + Reach(d)
      BY <3>2, <3>3
    <3>5. ~(m.shift = d.shift /\ change < 0)
      BY <2>2
    <3>. QED
      BY <1>0, <1>00, <1>2, <2>2, <3>1, <3>2, <3>4, <3>5, DrawsAll
  <2>. QED
    BY <2>1, <2>2
<1>4. m \in Editors /\ m.prompt = d.prompt
  BY <1>2 DEF Targets
<1>5. Fixed([m EXCEPT !.tty = t(m)], l, d.prompt, to, n)
  BY <1>2, <1>3, <1>4, SetTty DEF Fixed
<1>. QED
  BY <1>1, <1>2, <1>5 DEF to, change, none

\* All of the line is drawn, from the first column behind the prompt
LEMMA FixAll ==
    ASSUME NEW n \in Nat \ {0}, termw = n, NEW d, Begun(d, n), NEW l \in Seq(Ink),
           NEW cursor \in Int, NEW e \in Int, Swept(d, n, e),
           \/ e <= EndOf(d)
           \/ e <= Len(d.prompt) + (Len(l) - ShiftFor(d, Clamped(cursor, Len(l))))
    PROVE  Fixed(Prompted(d, l, 0, cursor, 0), l, d.prompt, Clamped(cursor, Len(l)), n)
<1>. DEFINE none == 0
            to == Clamped(cursor, Len(l))
            t(m) == Write(d.tty, Changed(d, m, l, none, none))
<1>0. none \in Nat /\ none \in Int /\ ~(none < 0) /\ none = 0
  OBVIOUS
<1>1. d \in Editors /\ n >= 3 /\ Len(l) \in Nat /\ Len(d.prompt) \in Nat /\ to \in Nat
  <2>1. d \in Editors /\ n >= 3 /\ Len(l) \in Nat
    BY BegunIs
  <2>2. Len(d.prompt) \in Nat
    BY <2>1 DEF Editors
  <2>3. to \in Nat
    BY <2>1, ClampedIs
  <2>. QED
    BY <2>1, <2>2, <2>3
<1>. HIDE DEF none
<1>2. PICK m : /\ Targets(d, m, l) /\ m.pos = to /\ m.shift = ShiftFor(d, to)
               /\ Prompted(d, l, none, cursor, none) = [m EXCEPT !.tty = t(m)]
  <2>. HIDE DEF t
  <2>1. none < 0 => d.cnt = Len(l) /\ (d.right <=> d.cnt > d.shift + d.width - 1)
    BY <1>0
  <2>2. /\ n \in Nat \ {0} /\ termw = n /\ l \in Seq(Ink) /\ none \in Int /\ cursor \in Int
        /\ none \in Nat /\ Begun(d, n)
    BY <1>0
  <2>3. PICK m : /\ Targets(d, m, l) /\ m.pos = Clamped(cursor, Len(l))
                 /\ m.shift = ShiftFor(d, Clamped(cursor, Len(l)))
                 /\ d.right => m.pos - m.shift <= d.width - 3
                 /\ Prompted(d, l, none, cursor, none)
                      = [m EXCEPT !.tty = Write(d.tty, Changed(d, m, l, none, none))]
    <3>1. FixAims(d, l, none, cursor, none)
      BY ONLY <2>1, <2>2, FixIs
    <3>. QED
      BY ONLY <3>1 DEF FixAims
  <2>. QED
    BY <2>3 DEF t, to
<1>. HIDE DEF to
<1>3. /\ m \in Editors /\ m.prompt = d.prompt /\ m.width = d.width /\ m.cnt = Len(l)
      /\ m.shift \in Nat /\ m.right \in BOOLEAN
  BY <1>2 DEF Targets, Editors
<1>4. From(d, m, none) = m.shift
  <2>1. Clip(none, m.cnt) = 0
    BY <1>0, <1>1, <1>3 DEF Clip
  <2>2. ~DrawsAllOf(d, m, none) => m.shift = 0
    BY <1>3, <2>1 DEF DrawsAllOf
  <2>. QED
    BY <2>1, <2>2 DEF From
<1>5. d.width \in Int /\ Len(d.prompt) + d.width = n
  BY <1>1 DEF Begun, Editors
<1>6. Shown([m EXCEPT !.tty = t(m)], l, n)
  <2>1. CASE m.right
    <3>. DEFINE f == n - 1
    <3>1. f \in Int /\ Swept(d, n, f)
      BY DEF Swept
    <3>2. f <= Len(d.prompt) + Reach(m)
      <4>1. Reach(m) = d.width - 1
        BY <1>3, <2>1 DEF Reach
      <4>2. f = Len(d.prompt) + (d.width - 1)
        BY <1>1, <1>5
      <4>. QED
        BY <1>1, <1>5, <4>1, <4>2
    <3>. HIDE DEF f
    <3>. QED
      BY <1>0, <1>2, <1>4, <3>1, <3>2, DrawsAll
  <2>2. CASE ~m.right
    <3>1. Reach(m) = Len(l) - ShiftFor(d, to)
      BY <1>2, <1>3, <2>2 DEF Reach
    <3>2. e <= Len(d.prompt) + Reach(d) \/ e <= Len(d.prompt) + Reach(m)
      BY <3>1 DEF EndOf, to
    <3>. QED
      BY <1>0, <1>2, <1>4, <3>2, DrawsAll
  <2>. QED
    BY <2>1, <2>2
<1>7. Fixed([m EXCEPT !.tty = t(m)], l, d.prompt, to, n)
  BY <1>2, <1>3, <1>6, SetTty DEF Fixed
<1>. QED
  BY <1>2, <1>7 DEF to, none

\* r is the editor d behind the prompt p
Reprinted(r, d, p, keeps, n) ==
    /\ r \in Editors /\ Screen(r.tty, n) /\ r.tty.full = FALSE /\ r.tty.col = Len(p)
    /\ \A k \in 1 .. n : r.tty.row[k] = IF k <= Len(p) THEN p[k] ELSE d.tty.row[k]
    /\ r.prompt = p /\ r.width = n - Len(p)
    /\ keeps => /\ r.pos = d.shift /\ r.shift = d.shift
                /\ r.left = d.left /\ r.right = d.right
                /\ r.cnt = d.cnt + Len(d.prompt) - Len(p)
    /\ ~keeps => /\ r.pos = 0 /\ r.shift = 0 /\ r.left = FALSE /\ r.right = FALSE /\ r.cnt = 0

LEMMA ReprintsIs ==
    ASSUME NEW n \in Nat \ {0}, termw = n, NEW d \in Editors, Screen(d.tty, n),
           NEW p \in Seq(Ink), Len(p) < n, NEW keeps \in BOOLEAN
    PROVE  Reprinted(ReprintsPrompt(d, p, keeps), d, p, keeps, n)
<1>. DEFINE u == Write(d.tty, <<CR>> \o p)
            pos == IF keeps THEN d.shift ELSE 0
            cnt == IF keeps THEN d.cnt + Len(d.prompt) - Len(p) ELSE 0
            shift == IF keeps THEN d.shift ELSE 0
            left == keeps /\ d.left
            right == keeps /\ d.right
            r == [d EXCEPT !.pos = pos, !.cnt = cnt, !.shift = shift, !.left = left,
                           !.right = right, !.width = n - Len(p), !.prompt = p, !.tty = u]
<1>1. r = ReprintsPrompt(d, p, keeps)
  BY DEF ReprintsPrompt
<1>2. /\ Screen(u, n) /\ u.full = FALSE /\ u.col = Len(p)
      /\ \A k \in 1 .. n : u.row[k] = IF k <= Len(p) THEN p[k] ELSE d.tty.row[k]
  <2>. DEFINE t == d.tty
  <2>1. Screen(t, n) /\ u = Write(t, FromFirst(p))
    BY DEF FromFirst
  <2>. HIDE DEF t, u
  <2>2. Preceded(u, t, p, n)
    BY <2>1, PromptIs
  <2>. QED
    BY <2>2 DEF t, Preceded
<1>3. u \in Ttys
  BY <1>2 DEF Screen, Ttys
<1>. HIDE DEF u
<1>4. /\ pos \in Nat /\ cnt \in Int /\ shift \in Nat /\ n - Len(p) \in Int
      /\ d.left \in BOOLEAN /\ d.right \in BOOLEAN
  BY DEF Editors
<1>5. left \in BOOLEAN /\ right \in BOOLEAN /\ (keeps => left = d.left /\ right = d.right)
      /\ (~keeps => left = FALSE /\ right = FALSE)
  BY <1>4, Zenon
<1>6. /\ keeps => pos = d.shift /\ shift = d.shift /\ cnt = d.cnt + Len(d.prompt) - Len(p)
      /\ ~keeps => pos = 0 /\ shift = 0 /\ cnt = 0
  OBVIOUS
<1>. HIDE DEF pos, cnt, shift, left, right
<1>7. /\ r \in Editors /\ r.tty = u /\ r.pos = pos /\ r.cnt = cnt /\ r.shift = shift
      /\ r.left = left /\ r.right = right /\ r.width = n - Len(p) /\ r.prompt = p
  BY <1>3, <1>4, <1>5 DEF Editors
<1>. HIDE DEF r
<1>8. /\ r \in Editors /\ Screen(r.tty, n) /\ r.tty.full = FALSE /\ r.tty.col = Len(p)
      /\ \A k \in 1 .. n : r.tty.row[k] = IF k <= Len(p) THEN p[k] ELSE d.tty.row[k]
      /\ r.prompt = p /\ r.width = n - Len(p)
      /\ keeps => /\ r.pos = d.shift /\ r.shift = d.shift
                  /\ r.left = d.left /\ r.right = d.right
                  /\ r.cnt = d.cnt + Len(d.prompt) - Len(p)
      /\ ~keeps => /\ r.pos = 0 /\ r.shift = 0 /\ r.left = FALSE /\ r.right = FALSE /\ r.cnt = 0
  BY <1>2, <1>5, <1>6, <1>7
<1>9. Reprinted(r, d, p, keeps, n)
  BY <1>8 DEF Reprinted
<1>. QED
  BY <1>1, <1>9

LEMMA PromptNumbers ==
    ASSUME NEW n \in Nat \ {0}, NEW p \in Seq(Ink), RoomBehind(p, n)
    PROVE  /\ Len(p) \in Nat /\ Len(p) + 3 <= n /\ Len(p) < n /\ n >= 3
<1>. DEFINE k == Len(p)
            c == n \div 3
<1>1. k \in Nat /\ c \in Nat /\ k + c + 3 <= n
  BY DEF RoomBehind
<1>. HIDE DEF k, c
<1>2. k + 3 <= n /\ k < n /\ n >= 3
  BY <1>1
<1>. QED
  BY <1>1, <1>2 DEF k

\* Another prompt, as a search begins, goes on and ends
LEMMA FixPrompt ==
    ASSUME NEW n \in Nat \ {0}, termw = n, NEW d, NEW l0 \in Seq(Ink), Shown(d, l0, n),
           NEW l \in Seq(Ink), NEW p \in Seq(Ink), RoomBehind(p, n), p # d.prompt,
           NEW change \in Int, change # -2, NEW cursor \in Int
    PROVE  Fixed(gl_fixup_scroll(d, l, p, change, cursor, 0), l, p, Clamped(cursor, Len(l)), n)
<1>. DEFINE r == ReprintsPrompt(d, p, change # -2)
            y == ReprintsPrompt(d, p, TRUE)
<1>1. gl_fixup_scroll(d, l, p, change, cursor, 0) = Prompted(r, l, 0, cursor, 0)
  BY DEF gl_fixup_scroll
<1>2. r = y
  <2>1. (change # -2) = TRUE
    OBVIOUS
  <2>. QED
    BY <2>1
<1>3. Begun(d, n) /\ d \in Editors /\ Screen(d.tty, n)
  BY DEF Shown, Begun
<1>4. Len(p) \in Nat /\ Len(p) < n /\ Len(p) + 3 <= n
  BY PromptNumbers
<1>5. /\ y \in Editors /\ Screen(y.tty, n) /\ y.tty.full = FALSE /\ y.tty.col = Len(p)
      /\ \A k \in 1 .. n : y.tty.row[k] = IF k <= Len(p) THEN p[k] ELSE d.tty.row[k]
      /\ y.prompt = p /\ y.width = n - Len(p)
      /\ y.pos = d.shift /\ y.shift = d.shift /\ y.left = d.left /\ y.right = d.right
      /\ y.cnt = d.cnt + Len(d.prompt) - Len(p)
  <2>. DEFINE keeps == TRUE
  <2>1. keeps \in BOOLEAN /\ keeps
    OBVIOUS
  <2>2. y = ReprintsPrompt(d, p, keeps)
    OBVIOUS
  <2>. HIDE DEF keeps, y
  <2>3. Reprinted(y, d, p, keeps, n)
    BY <1>3, <1>4, <2>1, <2>2, ReprintsIs
  <2>. QED
    BY <2>1, <2>3 DEF Reprinted
<1>. HIDE DEF r, y
<1>. DEFINE lp == Len(p)
            l1 == Len(d.prompt)
            c == d.cnt
            s == d.shift
<1>6. /\ lp \in Nat /\ l1 \in Nat /\ c \in Int /\ s \in Nat /\ d.right \in BOOLEAN /\ d.width \in Int
      /\ l1 + d.width = n /\ (~d.right => c - s <= d.width - 1) /\ (d.left <=> s > 0)
  BY <1>3, <1>4 DEF Begun, Editors
<1>7. y.cnt = (c + l1) - lp /\ lp + 3 <= n
  BY <1>4, <1>5, <1>6
<1>. HIDE DEF lp, l1, c, s
<1>8. Begun(y, n)
  <2>1. y.pos - y.shift = 0 /\ y.shift <= y.pos /\ 0 <= y.width - 1 /\ lp + y.width = n
    <3>1. y.pos = s /\ y.shift = s /\ y.width = n - lp
      BY <1>5 DEF lp, s
    <3>. QED
      BY <1>6, <1>7, <3>1
  <2>2. ~y.right => y.cnt - y.shift <= y.width - 1
    <3>1. ~y.right => c - s <= d.width - 1
      BY <1>5, <1>6
    <3>2. y.cnt - y.shift = ((c + l1) - lp) - s /\ y.width = n - lp
      BY <1>5, <1>7 DEF s, lp
    <3>3. c - s <= d.width - 1 => ((c + l1) - lp) - s <= (n - lp) - 1
      BY <1>6
    <3>. QED
      BY <3>1, <3>2, <3>3
  <2>3. y.tty.col = Len(y.prompt) + (y.pos - y.shift)
    BY <1>4, <1>5, <2>1
  <2>4. \A k \in 1 .. Len(y.prompt) : y.tty.row[k] = y.prompt[k]
    <3>1. \A k \in 1 .. Len(p) : k \in 1 .. n /\ k <= Len(p)
      BY <1>4
    <3>. QED
      BY <1>5, <3>1
  <2>5. y.left <=> y.shift > 0
    BY <1>5, <1>6 DEF s
  <2>. QED
    BY <1>5, <2>1, <2>2, <2>3, <2>4, <2>5 DEF Begun, lp
<1>9. EndOf(y) = EndOf(d) /\ EndOf(d) \in Int
  <2>1. CASE d.right
    <3>1. EndOf(d) = l1 + (d.width - 1)
      BY <2>1 DEF EndOf, Reach, l1
    <3>2. y.right /\ y.prompt = p /\ y.width = n - lp
      BY <1>5, <2>1 DEF lp
    <3>3. EndOf(y) = lp + ((n - lp) - 1)
      BY <3>2 DEF EndOf, Reach, lp
    <3>. DEFINE w == d.width
    <3>4. EndOf(d) = l1 + (w - 1) /\ l1 + w = n /\ w \in Int
      BY <1>6, <3>1
    <3>. HIDE DEF w
    <3>5. l1 + (w - 1) = n - 1 /\ lp + ((n - lp) - 1) = n - 1 /\ n - 1 \in Int
      BY <1>6, <3>4
    <3>. QED
      BY <3>3, <3>4, <3>5
  <2>2. CASE ~d.right
    <3>1. EndOf(d) = l1 + (c - s) /\ EndOf(y) = lp + (((c + l1) - lp) - s)
      BY <1>5, <1>7, <2>2 DEF EndOf, Reach, l1, lp, c, s
    <3>. QED
      BY <1>6, <3>1
  <2>. QED
    BY <1>6, <2>1, <2>2
<1>10. Swept(y, n, EndOf(d))
  <2>1. Swept(d, n, EndOf(d)) /\ Reach(d) \in Nat /\ EndOf(d) = l1 + Reach(d)
    BY ShownSwept DEF EndOf, l1
  <2>2. ASSUME NEW k \in 1 .. n - 1, k > EndOf(d), k > Len(y.prompt)
        PROVE  y.tty.row[k] = Blank
    <3>1. k > l1 /\ k \in 1 .. n /\ ~(k <= Len(p))
      BY <1>4, <1>5, <1>6, <2>1, <2>2
    <3>2. d.tty.row[k] = Blank
      BY <2>1, <2>2, <3>1 DEF Swept, l1
    <3>. QED
      BY <1>5, <3>1, <3>2
  <2>. QED
    BY <2>2 DEF Swept
<1>11. Fixed(Prompted(y, l, 0, cursor, 0), l, y.prompt, Clamped(cursor, Len(l)), n)
  <2>. DEFINE e == EndOf(d)
  <2>1. e \in Int /\ Swept(y, n, e) /\ e <= EndOf(y)
    BY <1>9, <1>10
  <2>. HIDE DEF e
  <2>. QED
    BY <1>8, <2>1, FixAll
<1>. QED
  BY <1>1, <1>2, <1>5, <1>11

\* The line is drawn on a row that is empty behind column e
LEMMA FixRow ==
    ASSUME NEW n \in Nat \ {0}, termw = n, NEW d \in Editors, Screen(d.tty, n),
           NEW l \in Seq(Ink), NEW p \in Seq(Ink), RoomBehind(p, n), NEW cursor \in Int,
           NEW e \in Int, Clear(d.tty, e, n),
           \/ e <= Len(p)
           \/ \E x : /\ Begun(x, n) /\ x.prompt = p
                     /\ e <= Len(p) + (Len(l) - ShiftFor(x, Clamped(cursor, Len(l))))
    PROVE  Fixed(gl_fixup_scroll(d, l, p, -2, cursor, 0), l, p, Clamped(cursor, Len(l)), n)
<1>. DEFINE r == ReprintsPrompt(d, p, -2 # -2)
            y == ReprintsPrompt(d, p, FALSE)
            to == Clamped(cursor, Len(l))
<1>1. gl_fixup_scroll(d, l, p, -2, cursor, 0) = Prompted(r, l, 0, cursor, 0)
  BY DEF gl_fixup_scroll
<1>2. r = y
  OBVIOUS
<1>4. Len(p) \in Nat /\ Len(p) < n /\ Len(p) + 3 <= n
  BY PromptNumbers
<1>5. /\ y \in Editors /\ Screen(y.tty, n) /\ y.tty.full = FALSE /\ y.tty.col = Len(p)
      /\ \A k \in 1 .. n : y.tty.row[k] = IF k <= Len(p) THEN p[k] ELSE d.tty.row[k]
      /\ y.prompt = p /\ y.width = n - Len(p)
      /\ y.pos = 0 /\ y.shift = 0 /\ y.left = FALSE /\ y.right = FALSE /\ y.cnt = 0
  <2>. DEFINE keeps == FALSE
  <2>1. keeps \in BOOLEAN /\ ~keeps
    OBVIOUS
  <2>2. y = ReprintsPrompt(d, p, keeps)
    OBVIOUS
  <2>. HIDE DEF keeps, y
  <2>3. Reprinted(y, d, p, keeps, n)
    BY <1>4, <2>1, <2>2, ReprintsIs
  <2>. QED
    BY <2>1, <2>3 DEF Reprinted
<1>. HIDE DEF r, y
<1>6. Begun(y, n)
  <2>1. /\ y.pos - y.shift = 0 /\ y.shift <= y.pos /\ 0 <= y.width - 1 /\ Len(p) + y.width = n
        /\ y.cnt - y.shift = 0
    BY <1>4, <1>5
  <2>2. y.tty.col = Len(y.prompt) + (y.pos - y.shift)
    BY <1>4, <1>5, <2>1
  <2>3. \A k \in 1 .. Len(y.prompt) : y.tty.row[k] = y.prompt[k]
    BY <1>4, <1>5
  <2>4. y.left <=> y.shift > 0
    BY <1>5
  <2>. QED
    BY <1>5, <2>1, <2>2, <2>3, <2>4 DEF Begun
<1>7. Swept(y, n, e)
  BY <1>4, <1>5 DEF Swept, Clear
<1>8. EndOf(y) = Len(p)
  BY <1>4, <1>5 DEF EndOf, Reach
<1>9. Len(l) \in Nat /\ to \in Nat
  <2>1. Len(l) \in Nat
    OBVIOUS
  <2>. QED
    BY <2>1, ClampedIs
<1>10. e <= EndOf(y) \/ e <= Len(y.prompt) + (Len(l) - ShiftFor(y, to))
  <2>1. CASE e <= Len(p)
    BY <1>8, <2>1
  <2>2. CASE ~(e <= Len(p))
    <3>1. PICK x : Begun(x, n) /\ x.prompt = p /\ e <= Len(p) + (Len(l) - ShiftFor(x, to))
      BY <2>2
    <3>2. y.width = x.width
      <4>1. x.width \in Int /\ Len(p) + x.width = n
        BY <3>1 DEF Begun, Editors
      <4>2. y.width = n - Len(p) /\ Len(p) \in Nat
        BY <1>4, <1>5
      <4>. DEFINE w == x.width
                  k == Len(p)
      <4>. HIDE DEF w, k
      <4>3. w \in Int /\ k \in Nat /\ k + w = n /\ y.width = n - k
        BY <4>1, <4>2 DEF w, k
      <4>4. y.width = w
        BY <4>3
      <4>. QED
        BY <4>4 DEF w
    <3>3. ShiftFor(y, to) <= ShiftFor(x, to)
      BY <1>5, <1>9, <3>1, <3>2, ShiftIsLeast
    <3>. DEFINE a == ShiftFor(y, to)
                b == ShiftFor(x, to)
    <3>. HIDE DEF a, b
    <3>4. a \in Nat /\ b \in Nat
      <4>1. n \in Nat /\ n >= 3 /\ x \in Editors
        BY <3>1, BegunIs
      <4>. QED
        BY <1>5, <1>9, <4>1, ShiftNat DEF a, b
    <3>5. e <= Len(p) + (Len(l) - b) /\ a <= b
      BY <3>1, <3>3 DEF a, b
    <3>6. e <= Len(p) + (Len(l) - a)
      BY <1>4, <1>9, <3>4, <3>5
    <3>. QED
      BY <1>5, <3>6 DEF a
  <2>. QED
    BY <2>1, <2>2
<1>11. Fixed(Prompted(y, l, 0, cursor, 0), l, y.prompt, to, n)
  BY <1>6, <1>7, <1>10, FixAll
<1>. QED
  BY <1>1, <1>2, <1>5, <1>11

\* r is the editor d after a part of the line before the cursor was taken away
Shortened(r, d, l, from, n) ==
    /\ Begun(r, n) /\ Swept(r, n, EndOf(r))
    /\ r.prompt = d.prompt /\ r.pos = from /\ r.cnt = Len(l) /\ r.shift = ShiftFor(d, from)
    /\ r.right <=> r.cnt > r.shift + r.width - 1

LEMMA FixShorter ==
    ASSUME NEW n \in Nat \ {0}, termw = n, NEW d, NEW l0 \in Seq(Ink), Shown(d, l0, n),
           NEW l \in Seq(Ink), NEW change \in Nat, change <= d.pos,
           NEW from \in Nat, from <= change, from <= Len(l)
    PROVE  Shortened(gl_fixup_scroll(d, l, d.prompt, change, from, 0), d, l, from, n)
<1>. DEFINE none == 0
            t(m) == Write(d.tty, Changed(d, m, l, change, none))
<1>1. Begun(d, n) /\ Swept(d, n, EndOf(d))
  BY ShownSwept DEF Shown
<1>2. Clamped(from, Len(l)) = from
  <2>1. Len(l) \in Nat
    OBVIOUS
  <2>. QED
    BY <2>1, ClampedIs
<1>3. gl_fixup_scroll(d, l, d.prompt, change, from, none) = Prompted(d, l, change, from, none)
  BY DEF gl_fixup_scroll
<1>4. none \in Nat /\ none = 0
  OBVIOUS
<1>. HIDE DEF none
<1>5. PICK m : /\ Targets(d, m, l) /\ m.pos = from /\ m.shift = ShiftFor(d, from)
               /\ Prompted(d, l, change, from, none) = [m EXCEPT !.tty = t(m)]
  <2>. HIDE DEF t
  <2>1. change < 0 => d.cnt = Len(l) /\ (d.right <=> d.cnt > d.shift + d.width - 1)
    OBVIOUS
  <2>2. /\ n \in Nat \ {0} /\ termw = n /\ l \in Seq(Ink) /\ change \in Int /\ from \in Int
        /\ none \in Nat /\ Begun(d, n)
    BY <1>1, <1>4
  <2>3. PICK m : /\ Targets(d, m, l) /\ m.pos = Clamped(from, Len(l))
                 /\ m.shift = ShiftFor(d, Clamped(from, Len(l)))
                 /\ d.right => m.pos - m.shift <= d.width - 3
                 /\ Prompted(d, l, change, from, none)
                      = [m EXCEPT !.tty = Write(d.tty, Changed(d, m, l, change, none))]
    <3>1. FixAims(d, l, change, from, none)
      BY ONLY <2>1, <2>2, FixIs
    <3>. QED
      BY ONLY <3>1 DEF FixAims
  <2>. QED
    BY <1>2, <2>3 DEF t
<1>. DEFINE r == [m EXCEPT !.tty = t(m)]
<1>6. Begun(r, n) /\ Swept(r, n, EndOf(r))
  BY <1>1, <1>4, <1>5, DrawsShorter
<1>7. m \in Editors /\ m.prompt = d.prompt /\ m.cnt = Len(l)
      /\ (m.right <=> m.cnt > m.shift + m.width - 1)
  BY <1>5 DEF Targets
<1>8. Shortened(r, d, l, from, n)
  <2>1. /\ r.pos = m.pos /\ r.prompt = m.prompt /\ r.shift = m.shift /\ r.cnt = m.cnt
        /\ r.width = m.width /\ r.right = m.right
    BY <1>7, SetTty
  <2>. HIDE DEF r
  <2>. QED
    BY <1>5, <1>6, <1>7, <2>1 DEF Shortened
<1>. QED
  BY <1>3, <1>5, <1>8 DEF none

\* What gl_kill_begin and gl_kill_word write of the rest
LEMMA RewrittenIs ==
    ASSUME NEW n \in Nat \ {0}, NEW d, NEW l \in Seq(Ink), NEW from \in Nat, from <= Len(l),
           NEW r, Shortened(r, d, l, from, n),
           NEW e, e = Len(d.prompt) + (Len(l) - ShiftFor(d, from))
    PROVE  /\ Rewritten(r, l) \in Editors /\ Screen(Rewritten(r, l).tty, n)
           /\ e \in Int /\ Clear(Rewritten(r, l).tty, e, n)
<1>. DEFINE lp == Len(d.prompt)
            len == Len(l)
            s == r.shift
            w == r.width
            p == Piece(l, r.pos, r.cnt)
            u == Write(r.tty, p)
<1>1. /\ Begun(r, n) /\ Swept(r, n, EndOf(r)) /\ r \in Editors /\ Screen(r.tty, n)
      /\ r.prompt = d.prompt /\ r.pos = from /\ r.cnt = len /\ s = ShiftFor(d, from)
      /\ (r.right <=> r.cnt > s + w - 1)
  BY DEF Shortened, Begun
<1>2. /\ lp \in Nat /\ len \in Nat /\ s \in Nat /\ w \in Int /\ lp + w = n /\ r.right \in BOOLEAN
      /\ s <= from /\ r.tty.col = lp + (from - s)
  BY <1>1 DEF Begun, Editors
<1>3. p \in Seq(Ink) /\ Len(p) = len - from
  <2>. DEFINE q == Len(l)
  <2>1. p = Piece(l, from, q)
    BY <1>1
  <2>2. q \in Nat /\ from <= q /\ q <= Len(l) /\ q = len
    OBVIOUS
  <2>. HIDE DEF p, q, len
  <2>3. p \in Seq(Ink) /\ Len(p) = q - from
    BY <2>1, <2>2, PieceIs
  <2>. QED
    BY <2>2, <2>3
<1>. HIDE DEF lp, len, s, w, p
<1>4. e \in Int /\ e = r.tty.col + Len(p) /\ e >= lp
  <2>1. e = lp + (len - s)
    BY <1>1 DEF lp, len
  <2>. QED
    <3>1. from <= len
      BY DEF len
    <3>2. r.tty.col + Len(p) = (lp + (from - s)) + (len - from)
      BY <1>2, <1>3
    <3>3. (lp + (from - s)) + (len - from) = lp + (len - s) /\ lp + (len - s) \in Int
          /\ lp + (len - s) >= lp
      BY <1>2, <3>1
    <3>. QED
      BY <2>1, <3>2, <3>3
<1>5. Clear(r.tty, e, n)
  <2>1. e = lp + (len - s)
    BY <1>1 DEF lp, len
  <2>2. CASE r.right
    <3>1. len > s + w - 1
      BY <1>1, <2>2
    <3>2. e > n - 1
      BY <1>2, <2>1, <3>1
    <3>. QED
      BY <1>4, <3>2 DEF Clear
  <2>3. CASE ~r.right
    <3>1. EndOf(r) = e
      BY <1>1, <2>1, <2>3 DEF EndOf, Reach, lp, s
    <3>2. Len(r.prompt) = lp
      BY <1>1 DEF lp
    <3>. QED
      BY <1>1, <1>2, <1>4, <3>1, <3>2 DEF Clear, Swept
  <2>. QED
    BY <1>2, <2>2, <2>3
<1>6. Screen(u, n) /\ Clear(u, e, n)
  BY <1>1, <1>3, <1>4, <1>5, WriteClears
<1>7. u \in Ttys
  BY <1>6 DEF Screen, Ttys
<1>8. Rewritten(r, l) = [r EXCEPT !.tty = u]
  BY DEF Rewritten, p
<1>. HIDE DEF u
<1>9. Rewritten(r, l) \in Editors /\ Rewritten(r, l).tty = u
  BY <1>1, <1>7, <1>8 DEF Editors
<1>. QED
  BY <1>4, <1>6, <1>9

\* A kill of what is before the cursor
LEMMA FixKill ==
    ASSUME NEW n \in Nat \ {0}, termw = n, NEW d, NEW l0 \in Seq(Ink), Shown(d, l0, n),
           NEW l \in Seq(Ink), NEW change \in Nat, change <= d.pos,
           NEW from \in Nat, from <= change, from <= Len(l),
           NEW r, r = gl_fixup_scroll(d, l, d.prompt, change, from, 0)
    PROVE  Fixed(gl_fixup_scroll(Rewritten(r, l), l, d.prompt, -2, from, 0), l, d.prompt, from, n)
<1>. DEFINE e == Len(d.prompt) + (Len(l) - ShiftFor(d, from))
            x == Rewritten(r, l)
<1>1. Shortened(r, d, l, from, n)
  BY FixShorter
<1>2. x \in Editors /\ Screen(x.tty, n) /\ e \in Int /\ Clear(x.tty, e, n)
  BY <1>1, RewrittenIs
<1>3. Begun(d, n) /\ d.prompt \in Seq(Ink) /\ RoomBehind(d.prompt, n)
  BY DEF Shown, Begun, Editors
<1>4. Clamped(from, Len(l)) = from
  <2>1. Len(l) \in Nat
    OBVIOUS
  <2>. QED
    BY <2>1, ClampedIs
<1>5. e <= Len(d.prompt) + (Len(l) - ShiftFor(d, Clamped(from, Len(l))))
  BY <1>2, <1>4
<1>. HIDE DEF x, e
<1>6. Fixed(gl_fixup_scroll(x, l, d.prompt, -2, from, 0), l, d.prompt, Clamped(from, Len(l)), n)
  <2>1. from \in Int
    OBVIOUS
  <2>. QED
    BY <1>2, <1>3, <1>5, <2>1, FixRow
<1>. QED
  BY <1>4, <1>6 DEF x

----------------------------------------------------------------------------
(***************************************************************************)
(* What holds of gl_fixup whatever it is told: when the width of the       *)
(* window changes, it is told what is not so.                              *)
(***************************************************************************)
LEMMA PieceAny ==
    ASSUME NEW l \in Seq(Ink), NEW a \in Nat, NEW c \in Int, c <= Len(l)
    PROVE  Piece(l, a, c) \in Seq(Ink)
<1>1. CASE a <= c
  <2>1. c \in Nat
    BY <1>1
  <2>. QED
    BY <1>1, <2>1, PieceIs
<1>2. CASE a > c
  <2>1. SubSeq(l, a + 1, c) = [k \in 1 .. (1 + c - (a + 1)) |-> l[k + (a + 1) - 1]]
    OBVIOUS
  <2>2. 1 + c - (a + 1) < 1
    BY <1>2
  <2>3. 1 .. (1 + c - (a + 1)) = {}
    BY <2>2
  <2>4. SubSeq(l, a + 1, c) = << >>
    BY <2>1, <2>3
  <2>. QED
    BY <2>4 DEF Piece
<1>. QED
  BY <1>1, <1>2

LEMMA CursorAny ==
    ASSUME NEW l \in Seq(Ink), NEW from \in Nat, NEW to \in Nat, to <= Len(l)
    PROVE  Cursor(l, from, to) \in Seq(Marks)
<1>1. CASE from > to
  <2>1. Cursor(l, from, to) = Times(BS, from - to)
    BY <1>1 DEF Cursor
  <2>2. from - to \in Int /\ from - to >= 0 /\ from - to \in Nat
    BY <1>1
  <2>3. Cursor(l, from, to) = Run(BS, from - to)
    BY <2>1, <2>2, TimesIs
  <2>. QED
    BY <2>2, <2>3, InkIsMarks, RunIsText
<1>2. CASE ~(from > to)
  <2>1. Cursor(l, from, to) = Piece(l, from, to)
    BY <1>2 DEF Cursor
  <2>2. to \in Int
    OBVIOUS
  <2>. QED
    BY <2>1, <2>2, PieceAny, InkText
<1>. QED
  BY <1>1, <1>2

LEMMA TimesAny ==
    ASSUME NEW c \in Marks, NEW m \in Int
    PROVE  Times(c, m) \in Seq(Marks)
<1>1. CASE m >= 0
  <2>1. m \in Nat
    BY <1>1
  <2>. QED
    BY <1>1, <2>1, TimesIs, RunIsText
<1>2. CASE ~(m >= 0)
  <2>. DEFINE z == 0
  <2>1. z \in Nat /\ Times(c, m) = Run(c, z)
    BY <1>2, TimesIs
  <2>. HIDE DEF z
  <2>. QED
    BY <2>1, RunIsText
<1>. QED
  BY <1>1, <1>2

\* Whatever gl_fixup believes, it writes a text
LEMMA DrawnText ==
    ASSUME NEW d \in Editors, NEW m \in Editors, NEW l \in Seq(Ink),
           m.cnt = Len(l), m.pos <= Len(l), m.width >= 3,
           m.right <=> m.cnt > m.shift + m.width - 1,
           NEW left \in Nat, NEW backup \in Int, NEW extent \in Nat
    PROVE  Drawn(d, m, l, left, backup, extent) \in Seq(Marks)
<1>. DEFINE right == IF m.right THEN m.shift + m.width - 2 ELSE m.cnt
            upto == IF m.shift = d.shift /\ extent > 0 /\ right > left + extent
                    THEN left + extent ELSE right
            pad == Pad(IF d.right THEN d.width - 1 ELSE d.cnt - d.shift,
                       IF m.right THEN m.width - 1 ELSE m.cnt - m.shift)
            goeson == m.right /\ upto = right
            first == IF left = m.shift /\ m.left THEN <<Marker>> \o Piece(l, left + 1, upto)
                     ELSE Piece(l, left, upto)
            behind == IF goeson THEN <<Marker>> ELSE Times(Blank, pad)
            at == upto + (IF goeson THEN 1 ELSE pad)
<1>1. /\ m.shift \in Nat /\ m.width \in Int /\ m.cnt \in Nat /\ m.pos \in Nat /\ d.pos \in Nat
      /\ m.right \in BOOLEAN
  BY DEF Editors
<1>2. Drawn(d, m, l, left, backup, extent) =
        IF left > right THEN Cursor(l, d.pos, m.pos)
        ELSE Times(BS, backup) \o first \o behind \o Cursor(l, at, m.pos)
  BY DEF Drawn
<1>3. right \in Nat /\ right <= Len(l)
  <2>1. CASE m.right
    <3>. DEFINE a == m.shift
                b == m.width
                c == Len(l)
    <3>1. a \in Nat /\ b \in Int /\ b >= 3 /\ c \in Nat /\ c > a + b - 1 /\ right = a + b - 2
      BY <1>1, <2>1
    <3>. HIDE DEF a, b, c, right
    <3>2. right \in Nat /\ right <= c
      BY <3>1
    <3>. QED
      BY <3>2 DEF c
  <2>2. CASE ~m.right
    BY <1>1, <2>2
  <2>. QED
    BY <1>1, <2>1, <2>2
<1>4. pad \in Nat
  <2>1. pad = Pad(Reach(d), Reach(m))
    BY DEF Reach
  <2>. HIDE DEF pad
  <2>. QED
    BY <2>1, PadIs
<1>. HIDE DEF right, pad
<1>5. upto \in Nat /\ upto \in Int /\ upto <= Len(l)
  BY <1>3
<1>. HIDE DEF upto
<1>6. at \in Nat
  BY <1>4, <1>5
<1>7. <<Marker>> \in Seq(Marks)
  BY InkIsMarks
<1>8. first \in Seq(Marks)
  <2>1. left + 1 \in Nat
    OBVIOUS
  <2>2. Piece(l, left + 1, upto) \in Seq(Marks) /\ Piece(l, left, upto) \in Seq(Marks)
    BY <1>5, <2>1, PieceAny, InkText
  <2>3. <<Marker>> \o Piece(l, left + 1, upto) \in Seq(Marks)
    BY <1>7, <2>2
  <2>. QED
    BY <2>2, <2>3
<1>9. behind \in Seq(Marks)
  <2>1. Times(Blank, pad) \in Seq(Marks)
    BY <1>4, InkIsMarks, TimesAny
  <2>. QED
    BY <1>7, <2>1
<1>10. Times(BS, backup) \in Seq(Marks)
  BY InkIsMarks, TimesAny
<1>. HIDE DEF at, first, behind
<1>11. Cursor(l, d.pos, m.pos) \in Seq(Marks) /\ Cursor(l, at, m.pos) \in Seq(Marks)
  BY <1>1, <1>6, CursorAny
<1>. DEFINE x == Times(BS, backup)
            y == Cursor(l, at, m.pos)
<1>12. x \in Seq(Marks) /\ y \in Seq(Marks)
  BY <1>10, <1>11
<1>. HIDE DEF x, y
<1>13. x \o first \o behind \o y \in Seq(Marks)
  <2>1. x \o first \in Seq(Marks)
    BY <1>8, <1>12
  <2>2. (x \o first) \o behind \in Seq(Marks)
    BY <1>9, <2>1
  <2>. QED
    BY <1>12, <2>2
<1>. QED
  BY <1>2, <1>11, <1>13 DEF x, y

\* What holds of the editor even when the window changed under its row
Kept(r, l, p, n) ==
    /\ l \in Seq(Ink) /\ r \in Editors /\ Screen(r.tty, n)
    /\ r.cnt = Len(l) /\ r.pos <= Len(l) /\ r.width >= 3 /\ r.prompt = p

LEMMA ChangedText ==
    ASSUME NEW d \in Editors, NEW m \in Editors, NEW l \in Seq(Ink),
           m.cnt = Len(l), m.pos <= Len(l), m.width >= 3,
           NEW change \in Int, NEW extent \in Nat,
           ~(m.shift = d.shift /\ change < 0) => (m.right <=> m.cnt > m.shift + m.width - 1)
    PROVE  Changed(d, m, l, change, extent) \in Seq(Marks)
<1>. DEFINE at == Min({change, m.cnt})
            all == m.shift # d.shift \/ at < m.shift + (IF m.left THEN 1 ELSE 0)
            left == IF all THEN m.shift ELSE at
            backup == d.pos - (IF all \/ change < 0 THEN d.shift ELSE at)
<1>1. d.pos \in Nat /\ d.shift \in Nat /\ m.shift \in Nat /\ m.cnt \in Nat /\ m.pos \in Nat
  BY DEF Editors
<1>2. at = Clip(change, m.cnt)
  <2>1. Min({change, m.cnt}) = P!Min({change, m.cnt})
    BY Zenon DEF Min, P!Min
  <2>2. m.cnt \in Int
    BY <1>1
  <2>. QED
    BY <2>1, <2>2, LesserNumber DEF Clip
<1>3. at \in Int
  BY <1>1, <1>2 DEF Clip
<1>4. Changed(d, m, l, change, extent) =
        IF m.shift = d.shift /\ change < 0 THEN Cursor(l, d.pos, m.pos)
        ELSE Drawn(d, m, l, left, backup, extent)
  BY DEF Changed
<1>5. left \in Nat /\ backup \in Int
  <2>. HIDE DEF at
  <2>1. CASE all
    BY <1>1, <2>1
  <2>2. CASE ~all
    <3>1. ~(at < m.shift + (IF m.left THEN 1 ELSE 0))
      BY <2>2
    <3>2. at >= m.shift
      BY <1>1, <1>3, <3>1
    <3>. QED
      BY <1>1, <1>3, <2>2, <3>2
  <2>. QED
    BY <2>1, <2>2
<1>6. Cursor(l, d.pos, m.pos) \in Seq(Marks)
  BY <1>1, CursorAny
<1>7. ASSUME ~(m.shift = d.shift /\ change < 0)
      PROVE  Drawn(d, m, l, left, backup, extent) \in Seq(Marks)
  <2>1. m.right <=> m.cnt > m.shift + m.width - 1
    BY <1>7
  <2>. HIDE DEF left, backup
  <2>. QED
    BY <1>5, <2>1, DrawnText
<1>. HIDE DEF left, backup
<1>. QED
  BY <1>4, <1>6, <1>7

LEMMA EditorWith ==
    ASSUME NEW m \in Editors, NEW t \in Ttys
    PROVE  [m EXCEPT !.tty = t] \in Editors
BY DEF Editors

LEMMA WriteScreen ==
    ASSUME NEW n \in Nat \ {0}, NEW t, Screen(t, n), NEW s \in Seq(Marks)
    PROVE  Screen(Write(t, s), n) /\ Write(t, s) \in Ttys
<1>1. Len(s) \in 0 .. Len(s)
  OBVIOUS
<1>2. Screen(Write(t, s), n)
  BY <1>1, AfterIsScreen DEF Write
<1>. QED
  BY <1>2 DEF Screen, Ttys

\* gl_fixup keeps to the line, to the prompt and to the row of the terminal
Turned(r, l, p, to, n) == Kept(r, l, p, n) /\ r.pos = to

LEMMA PromptedKeeps ==
    ASSUME NEW n \in Nat \ {0}, n >= 3, termw = n, NEW d \in Editors, Screen(d.tty, n),
           d.width >= 3, NEW l \in Seq(Ink), NEW change \in Int, NEW cursor \in Int,
           NEW extent \in Nat, change < 0 => d.cnt = Len(l)
    PROVE  Turned(Prompted(d, l, change, cursor, extent), l, d.prompt,
                  Clamped(cursor, Len(l)), n)
<1>. DEFINE to == Clamped(cursor, Len(l))
            t(m) == Write(d.tty, Changed(d, m, l, change, extent))
<1>1. Len(l) \in Nat /\ to \in Nat /\ to <= Len(l)
  <2>1. Len(l) \in Nat
    OBVIOUS
  <2>. QED
    BY <2>1, ClampedIs
<1>2. PICK m : /\ Aims(d, m, l, change, to)
               /\ Prompted(d, l, change, cursor, extent) = [m EXCEPT !.tty = t(m)]
  <2>1. n \in Nat
    OBVIOUS
  <2>. QED
    BY <2>1, PromptedIs
<1>. HIDE DEF to
<1>3. /\ m \in Editors /\ m.width = d.width /\ m.prompt = d.prompt /\ m.pos = to
      /\ m.cnt = (IF change >= 0 THEN Len(l) ELSE d.cnt)
      /\ m.right = (IF m.shift # d.shift \/ change >= 0
                    THEN m.cnt > m.shift + d.width - 1 ELSE d.right)
  BY <1>2 DEF Aims
<1>4. m.cnt = Len(l)
  BY <1>3
<1>5. ~(m.shift = d.shift /\ change < 0) => (m.right <=> m.cnt > m.shift + m.width - 1)
  <2>1. CASE m.shift # d.shift \/ change >= 0
    BY <1>3, <2>1
  <2>2. CASE ~(m.shift # d.shift \/ change >= 0)
    BY <2>2
  <2>. QED
    BY <2>1, <2>2
<1>6. Changed(d, m, l, change, extent) \in Seq(Marks)
  <2>1. m.pos <= Len(l) /\ m.width >= 3
    BY <1>1, <1>3
  <2>. QED
    BY <1>3, <1>4, <1>5, <2>1, ChangedText
<1>7. Screen(t(m), n) /\ t(m) \in Ttys
  BY <1>6, WriteScreen
<1>. DEFINE u == t(m)
            r == [m EXCEPT !.tty = u]
<1>. HIDE DEF u
<1>8. /\ r.pos = m.pos /\ r.prompt = m.prompt /\ r.cnt = m.cnt /\ r.width = m.width
      /\ r.tty = u /\ r \in Editors
  <2>1. u \in Ttys
    BY <1>7 DEF u
  <2>. QED
    BY <1>3, <2>1, SetTty, EditorWith
<1>9. Screen(u, n)
  BY <1>7 DEF u
<1>10. Prompted(d, l, change, cursor, extent) = r
  BY <1>2 DEF u
<1>. HIDE DEF r
<1>11. Turned(r, l, d.prompt, to, n)
  BY <1>1, <1>3, <1>4, <1>8, <1>9 DEF Turned, Kept
<1>. QED
  BY <1>10, <1>11 DEF to

LEMMA FixKeeps ==
    ASSUME NEW n \in Nat \ {0}, termw = n, NEW d \in Editors, Screen(d.tty, n),
           NEW l \in Seq(Ink), NEW p \in Seq(Ink), RoomBehind(p, n),
           NEW change \in Int, NEW cursor \in Int, NEW extent \in Nat,
           change # -2 /\ p = d.prompt => /\ d.width >= 3
                                          /\ change < 0 => d.cnt = Len(l)
    PROVE  Turned(gl_fixup_scroll(d, l, p, change, cursor, extent), l, p,
                  Clamped(cursor, Len(l)), n)
<1>0. Len(p) \in Nat /\ Len(p) < n /\ Len(p) + 3 <= n /\ n >= 3
  BY PromptNumbers
<1>1. CASE change = -2 \/ p # d.prompt
  <2>. DEFINE none == 0
              keeps == change # -2
              y == ReprintsPrompt(d, p, keeps)
  <2>1. gl_fixup_scroll(d, l, p, change, cursor, extent) = Prompted(y, l, none, cursor, extent)
    BY <1>1 DEF gl_fixup_scroll
  <2>2. keeps \in BOOLEAN /\ none \in Int /\ ~(none < 0)
    OBVIOUS
  <2>. HIDE DEF keeps, none
  <2>3. Reprinted(y, d, p, keeps, n)
    BY <1>0, <2>2, ReprintsIs
  <2>. HIDE DEF y
  <2>4. y \in Editors /\ Screen(y.tty, n) /\ y.prompt = p /\ y.width = n - Len(p)
    BY <2>3 DEF Reprinted
  <2>5. y.width >= 3
    BY <1>0, <2>4
  <2>6. Turned(Prompted(y, l, none, cursor, extent), l, y.prompt, Clamped(cursor, Len(l)), n)
    BY <1>0, <2>2, <2>4, <2>5, PromptedKeeps
  <2>. QED
    BY <2>1, <2>4, <2>6
<1>2. CASE ~(change = -2 \/ p # d.prompt)
  <2>1. gl_fixup_scroll(d, l, p, change, cursor, extent) = Prompted(d, l, change, cursor, extent)
    BY <1>2 DEF gl_fixup_scroll
  <2>2. d.width >= 3 /\ (change < 0 => d.cnt = Len(l)) /\ p = d.prompt
    BY <1>2
  <2>3. Turned(Prompted(d, l, change, cursor, extent), l, d.prompt, Clamped(cursor, Len(l)), n)
    BY <1>0, <2>2, PromptedKeeps
  <2>. QED
    BY <2>1, <2>2, <2>3
<1>. QED
  BY <1>1, <1>2

\* The editor d with the line l0 goes on as r with the line l
Goes(d, l0, r, l, p, to, n) ==
    /\ Turned(r, l, p, to, n)
    /\ Shown(d, l0, n) => Shown(r, l, n)

LEMMA EndIs ==
    ASSUME NEW n \in Nat \ {0}, NEW d, NEW l \in Seq(Ink), Shown(d, l, n)
    PROVE  Begun(d, n) /\ EndOf(d) \in Int /\ Swept(d, n, EndOf(d)) /\ d.prompt \in Seq(Ink)
<1>1. Begun(d, n) /\ d \in Editors
  BY DEF Shown, Begun
<1>2. d.prompt \in Seq(Ink)
  BY <1>1 DEF Editors
<1>3. Len(d.prompt) \in Nat
  BY <1>2
<1>4. Reach(d) \in Nat /\ Swept(d, n, EndOf(d))
  BY ShownSwept
<1>5. EndOf(d) \in Int
  BY <1>3, <1>4 DEF EndOf
<1>. QED
  BY <1>1, <1>2, <1>4, <1>5

\* Another line is drawn from its first character on
LEMMA FixWhole ==
    ASSUME NEW n \in Nat \ {0}, termw = n, NEW d, NEW l0 \in Seq(Ink), Shown(d, l0, n),
           NEW l \in Seq(Ink), NEW p \in Seq(Ink), RoomBehind(p, n), NEW cursor \in Int
    PROVE  Fixed(gl_fixup_scroll(d, l, p, 0, cursor, 0), l, p, Clamped(cursor, Len(l)), n)
<1>1. CASE p = d.prompt
  <2>1. gl_fixup_scroll(d, l, p, 0, cursor, 0) = Prompted(d, l, 0, cursor, 0)
    BY <1>1 DEF gl_fixup_scroll
  <2>. DEFINE e == EndOf(d)
  <2>2. Begun(d, n) /\ e \in Int /\ Swept(d, n, e) /\ e <= EndOf(d)
    BY EndIs
  <2>. HIDE DEF e
  <2>3. Fixed(Prompted(d, l, 0, cursor, 0), l, d.prompt, Clamped(cursor, Len(l)), n)
    BY <2>2, FixAll
  <2>. QED
    BY <1>1, <2>1, <2>3
<1>2. CASE p # d.prompt
  <2>. DEFINE none == 0
  <2>1. none \in Int /\ none # -2
    OBVIOUS
  <2>2. gl_fixup_scroll(d, l, p, 0, cursor, 0) = gl_fixup_scroll(d, l, p, none, cursor, 0)
    OBVIOUS
  <2>. HIDE DEF none
  <2>3. Fixed(gl_fixup_scroll(d, l, p, none, cursor, 0), l, p, Clamped(cursor, Len(l)), n)
    BY <1>2, <2>1, FixPrompt
  <2>. QED
    BY <2>2, <2>3
<1>. QED
  BY <1>1, <1>2

LEMMA GoesWhole ==
    ASSUME NEW n \in Nat \ {0}, termw = n, NEW d, NEW l0, NEW q, Kept(d, l0, q, n),
           NEW l \in Seq(Ink), NEW p \in Seq(Ink), RoomBehind(p, n), NEW cursor \in Int
    PROVE  Goes(d, l0, gl_fixup_scroll(d, l, p, 0, cursor, 0), l, p, Clamped(cursor, Len(l)), n)
<1>. DEFINE none == 0
            r == gl_fixup_scroll(d, l, p, none, cursor, none)
<1>1. l0 \in Seq(Ink) /\ d \in Editors /\ Screen(d.tty, n) /\ d.width >= 3
  BY DEF Kept
<1>2. none \in Int /\ none \in Nat /\ ~(none < 0) /\ none = 0
  OBVIOUS
<1>3. Turned(r, l, p, Clamped(cursor, Len(l)), n)
  <2>. HIDE DEF none
  <2>. QED
    BY <1>1, <1>2, FixKeeps
<1>4. Shown(d, l0, n) => Shown(r, l, n)
  <2>. SUFFICES ASSUME Shown(d, l0, n) PROVE Shown(r, l, n)
    OBVIOUS
  <2>1. Fixed(gl_fixup_scroll(d, l, p, 0, cursor, 0), l, p, Clamped(cursor, Len(l)), n)
    BY <1>1, FixWhole
  <2>. QED
    BY <2>1 DEF Fixed
<1>. QED
  BY <1>3, <1>4 DEF Goes

\* A part of the line is drawn
LEMMA GoesEdit ==
    ASSUME NEW n \in Nat \ {0}, termw = n, NEW d, NEW l0, NEW p \in Seq(Ink), Kept(d, l0, p, n),
           RoomBehind(p, n), NEW l \in Seq(Ink), NEW change \in Nat, NEW cursor \in Int,
           NEW extent \in Nat,
           Agrees(l0, l, change, extent), change <= d.pos, change <= Clamped(cursor, Len(l)),
           extent > 0 => Clamped(cursor, Len(l)) <= change + extent,
           change < Clamped(cursor, Len(l)) \/ Len(l) <= Len(l0)
    PROVE  Goes(d, l0, gl_fixup_scroll(d, l, p, change, cursor, extent), l, p,
                Clamped(cursor, Len(l)), n)
<1>. DEFINE r == gl_fixup_scroll(d, l, p, change, cursor, extent)
<1>1. l0 \in Seq(Ink) /\ d \in Editors /\ Screen(d.tty, n) /\ d.width >= 3 /\ d.prompt = p
  BY DEF Kept
<1>2. change \in Int /\ ~(change < 0)
  OBVIOUS
<1>3. Turned(r, l, p, Clamped(cursor, Len(l)), n)
  BY <1>1, <1>2, FixKeeps
<1>4. Shown(d, l0, n) => Shown(r, l, n)
  <2>. SUFFICES ASSUME Shown(d, l0, n) PROVE Shown(r, l, n)
    OBVIOUS
  <2>. HIDE DEF r
  <2>1. Fixed(gl_fixup_scroll(d, l, d.prompt, change, cursor, extent), l, d.prompt,
              Clamped(cursor, Len(l)), n)
    BY <1>1, FixEdit
  <2>. QED
    BY <1>1, <2>1 DEF Fixed, r
<1>. QED
  BY <1>3, <1>4 DEF Goes

LEMMA GoesMove ==
    ASSUME NEW n \in Nat \ {0}, termw = n, NEW d, NEW l, NEW p \in Seq(Ink), Kept(d, l, p, n),
           RoomBehind(p, n), NEW cursor \in Int
    PROVE  Goes(d, l, gl_fixup_scroll(d, l, p, -1, cursor, 0), l, p, Clamped(cursor, Len(l)), n)
<1>. DEFINE change == -1
            none == 0
            r == gl_fixup_scroll(d, l, p, change, cursor, none)
<1>1. /\ l \in Seq(Ink) /\ d \in Editors /\ Screen(d.tty, n) /\ d.width >= 3 /\ d.prompt = p
      /\ d.cnt = Len(l)
  BY DEF Kept
<1>2. change \in Int /\ none \in Nat
  OBVIOUS
<1>3. Turned(r, l, p, Clamped(cursor, Len(l)), n)
  <2>. HIDE DEF none, change
  <2>. QED
    BY <1>1, <1>2, FixKeeps
<1>4. Shown(d, l, n) => Shown(r, l, n)
  <2>. SUFFICES ASSUME Shown(d, l, n) PROVE Shown(r, l, n)
    OBVIOUS
  <2>1. Fixed(gl_fixup_scroll(d, l, d.prompt, -1, cursor, 0), l, d.prompt, Clamped(cursor, Len(l)), n)
    BY <1>1, FixMove
  <2>. QED
    BY <1>1, <2>1 DEF Fixed
<1>. QED
  BY <1>3, <1>4 DEF Goes

\* On a row of its own the line is shown, whatever was before
LEMMA GoesFresh ==
    ASSUME NEW n \in Nat \ {0}, termw = n, NEW d \in Editors, Screen(d.tty, n),
           Clear(d.tty, 0, n), NEW l \in Seq(Ink), NEW p \in Seq(Ink), RoomBehind(p, n),
           NEW cursor \in Int
    PROVE  /\ Turned(gl_fixup_scroll(d, l, p, -2, cursor, 0), l, p, Clamped(cursor, Len(l)), n)
           /\ Shown(gl_fixup_scroll(d, l, p, -2, cursor, 0), l, n)
<1>. DEFINE change == -2
            none == 0
            r == gl_fixup_scroll(d, l, p, change, cursor, none)
<1>1. change \in Int /\ none \in Nat /\ change = -2
  OBVIOUS
<1>2. Turned(r, l, p, Clamped(cursor, Len(l)), n)
  <2>. HIDE DEF none, change
  <2>1. ~(change # -2 /\ p = d.prompt)
    BY <1>1
  <2>. QED
    BY <1>1, <2>1, FixKeeps
<1>3. Fixed(gl_fixup_scroll(d, l, p, -2, cursor, 0), l, p, Clamped(cursor, Len(l)), n)
  <2>. DEFINE e == 0
  <2>1. e \in Int /\ Clear(d.tty, e, n) /\ e <= Len(p)
    BY PromptNumbers
  <2>. HIDE DEF e
  <2>. QED
    BY <2>1, FixRow
<1>. QED
  BY <1>2, <1>3 DEF Fixed

\* A kill of what is before the cursor: the rest is written, and drawn again
LEMMA GoesKill ==
    ASSUME NEW n \in Nat \ {0}, termw = n, NEW d, NEW l0, NEW p \in Seq(Ink), Kept(d, l0, p, n),
           RoomBehind(p, n), NEW l \in Seq(Ink), NEW change \in Nat, change <= d.pos,
           NEW from \in Nat, from <= change, from <= Len(l),
           NEW x, x = gl_fixup_scroll(d, l, p, change, from, 0)
    PROVE  Goes(d, l0, gl_fixup_scroll(Rewritten(x, l), l, p, -2, from, 0), l, p, from, n)
<1>. DEFINE minus == -2
            none == 0
            y == Rewritten(x, l)
            r == gl_fixup_scroll(y, l, p, minus, from, none)
<1>1. l0 \in Seq(Ink) /\ d \in Editors /\ Screen(d.tty, n) /\ d.width >= 3 /\ d.prompt = p
  BY DEF Kept
<1>2. Clamped(from, Len(l)) = from
  <2>1. Len(l) \in Nat
    OBVIOUS
  <2>. QED
    BY <2>1, ClampedIs
<1>3. minus \in Int /\ none \in Nat /\ minus = -2 /\ none = 0 /\ from \in Int
  OBVIOUS
<1>4. Turned(x, l, p, from, n)
  <2>1. change \in Int /\ ~(change < 0) /\ x = gl_fixup_scroll(d, l, p, change, from, none)
    OBVIOUS
  <2>. HIDE DEF none
  <2>2. Turned(gl_fixup_scroll(d, l, p, change, from, none), l, p, Clamped(from, Len(l)), n)
    BY <1>1, <1>3, <2>1, FixKeeps
  <2>. QED
    BY <1>2, <2>1, <2>2
<1>5. y \in Editors /\ Screen(y.tty, n)
  <2>1. x \in Editors /\ Screen(x.tty, n) /\ x.pos = from /\ x.cnt = Len(l)
    BY <1>4 DEF Turned, Kept
  <2>. DEFINE c == Len(l)
              s == Piece(l, from, c)
              u == Write(x.tty, s)
  <2>2. c \in Int /\ c <= Len(l)
    OBVIOUS
  <2>3. s \in Seq(Marks)
    <3>. HIDE DEF c
    <3>. QED
      BY <2>2, PieceAny, InkText
  <2>. HIDE DEF s
  <2>4. Screen(u, n) /\ u \in Ttys
    BY <2>1, <2>3, WriteScreen
  <2>5. y = [x EXCEPT !.tty = u]
    BY <2>1 DEF Rewritten, s
  <2>. HIDE DEF u, y
  <2>6. y \in Editors /\ y.tty = u
    BY <2>1, <2>4, <2>5, SetTty, EditorWith
  <2>. QED
    BY <2>4, <2>6
<1>6. Turned(r, l, p, from, n)
  <2>. HIDE DEF minus, none, y
  <2>1. ~(minus # -2 /\ p = y.prompt)
    BY <1>3
  <2>2. Turned(r, l, p, Clamped(from, Len(l)), n)
    BY <1>3, <1>5, <2>1, FixKeeps
  <2>. QED
    BY <1>2, <2>2
<1>7. Shown(d, l0, n) => Shown(r, l, n)
  <2>. SUFFICES ASSUME Shown(d, l0, n) PROVE Shown(r, l, n)
    OBVIOUS
  <2>1. x = gl_fixup_scroll(d, l, d.prompt, change, from, 0)
    BY <1>1
  <2>. HIDE DEF y
  <2>2. Fixed(gl_fixup_scroll(Rewritten(x, l), l, d.prompt, -2, from, 0), l, d.prompt, from, n)
    BY <1>1, <2>1, FixKill
  <2>. QED
    BY <1>1, <2>2 DEF Fixed, y
<1>. QED
  BY <1>6, <1>7 DEF Goes

----------------------------------------------------------------------------
(***************************************************************************)
(* What the keys make of the line                                          *)
(***************************************************************************)
\* What is in the line l0 from p to q is replaced by s
Spliced(l0, s, p, q) == Piece(l0, 0, p) \o s \o Piece(l0, q, Len(l0))
Rest(l0, q) == IF q <= Len(l0) THEN Len(l0) - q ELSE 0

SplicedAs(l, l0, s, p, q) ==
    /\ l \in Seq(Ink) /\ Len(l) = p + Len(s) + Rest(l0, q)
    /\ \A i \in 1 .. p : l[i] = l0[i]
    /\ q = p + Len(s) => \A i \in 1 .. Len(l) : i > q => l[i] = l0[i]

LEMMA PieceNone ==
    ASSUME NEW l \in Seq(Ink), NEW a \in Nat, NEW c \in Int, a > c
    PROVE  Piece(l, a, c) = << >>
<1>1. SubSeq(l, a + 1, c) = [k \in 1 .. (1 + c - (a + 1)) |-> l[k + (a + 1) - 1]]
  OBVIOUS
<1>2. 1 + c - (a + 1) < 1
  OBVIOUS
<1>3. 1 .. (1 + c - (a + 1)) = {}
  BY <1>2
<1>4. SubSeq(l, a + 1, c) = << >>
  BY <1>1, <1>3
<1>. QED
  BY <1>4 DEF Piece

LEMMA RestIs ==
    ASSUME NEW l0 \in Seq(Ink), NEW q \in Nat
    PROVE  /\ Rest(l0, q) \in Nat
           /\ Piece(l0, q, Len(l0)) \in Seq(Ink)
           /\ Len(Piece(l0, q, Len(l0))) = Rest(l0, q)
           /\ \A k \in 1 .. Rest(l0, q) : Piece(l0, q, Len(l0))[k] = l0[q + k]
<1>. DEFINE len == Len(l0)
<1>0. len \in Nat /\ len \in Int /\ len <= Len(l0)
  OBVIOUS
<1>. HIDE DEF len
<1>1. CASE q <= len
  <2>1. Piece(l0, q, len) \in Seq(Ink) /\ Len(Piece(l0, q, len)) = len - q
        /\ \A k \in 1 .. len - q : Piece(l0, q, len)[k] = l0[q + k]
    BY <1>0, <1>1, PieceIs
  <2>2. Rest(l0, q) = len - q
    BY <1>1 DEF Rest, len
  <2>. QED
    BY <1>0, <1>1, <2>1, <2>2 DEF len
<1>2. CASE ~(q <= len)
  <2>1. Piece(l0, q, len) = << >>
    BY <1>0, <1>2, PieceNone
  <2>2. Rest(l0, q) = 0
    BY <1>2 DEF Rest, len
  <2>. DEFINE x == Piece(l0, q, len)
  <2>3. x \in Seq(Ink) /\ Len(x) = 0
    BY <2>1
  <2>. QED
    BY <2>2, <2>3 DEF len
<1>. QED
  BY <1>1, <1>2

Joined(z, x, y) ==
    /\ z \in Seq(Ink) /\ Len(z) = Len(x) + Len(y)
    /\ \A i \in 1 .. Len(x) : z[i] = x[i]
    /\ \A k \in 1 .. Len(y) : z[Len(x) + k] = y[k]

LEMMA JoinedIs ==
    ASSUME NEW x \in Seq(Ink), NEW y \in Seq(Ink)
    PROVE  Joined(x \o y, x, y)
BY DEF Joined

LEMMA SplicedIs ==
    ASSUME NEW l0 \in Seq(Ink), NEW s \in Seq(Ink), NEW p \in Nat, p <= Len(l0),
           NEW q \in Nat, p <= q
    PROVE  SplicedAs(Spliced(l0, s, p, q), l0, s, p, q)
<1>. DEFINE a == Piece(l0, 0, p)
            b == Piece(l0, q, Len(l0))
            l == a \o s \o b
            r == Rest(l0, q)
            m == Len(s)
<1>1. a \in Seq(Ink) /\ Len(a) = p /\ \A i \in 1 .. p : a[i] = l0[i]
  <2>. DEFINE z == 0
  <2>1. z \in Nat /\ z <= p /\ z = 0
    OBVIOUS
  <2>. HIDE DEF z
  <2>2. Piece(l0, z, p) \in Seq(Ink) /\ Len(Piece(l0, z, p)) = p - z
        /\ \A k \in 1 .. p - z : Piece(l0, z, p)[k] = l0[z + k]
    BY <2>1, PieceIs
  <2>3. p - 0 = p /\ \A k \in 1 .. p : 0 + k = k
    OBVIOUS
  <2>. QED
    BY <2>1, <2>2, <2>3
<1>2. r \in Nat /\ b \in Seq(Ink) /\ Len(b) = r /\ \A k \in 1 .. r : b[k] = l0[q + k]
  BY RestIs
<1>3. m \in Nat
  OBVIOUS
<1>. HIDE DEF a, b, r, m
<1>4. /\ l \in Seq(Ink) /\ Len(l) = p + m + r
      /\ \A i \in 1 .. p : l[i] = a[i]
      /\ \A k \in 1 .. r : l[p + m + k] = b[k]
  <2>. DEFINE x == a \o s
  <2>1. s \in Seq(Ink) /\ l = x \o b
    OBVIOUS
  <2>2. Joined(x, a, s)
    BY <1>1, <2>1, JoinedIs
  <2>3. x \in Seq(Ink) /\ Len(x) = p + m /\ \A i \in 1 .. p : x[i] = a[i]
    BY <1>1, <2>2 DEF Joined, m
  <2>. HIDE DEF x, l
  <2>4. Joined(l, x, b)
    BY <1>2, <2>1, <2>3, JoinedIs
  <2>5. l \in Seq(Ink) /\ Len(l) = (p + m) + r
    BY <1>2, <2>3, <2>4 DEF Joined
  <2>6. ASSUME NEW i \in 1 .. p PROVE l[i] = x[i]
    <3>1. i \in 1 .. Len(x)
      BY <1>3, <2>3
    <3>. QED
      BY <2>4, <3>1 DEF Joined
  <2>7. ASSUME NEW k \in 1 .. r PROVE l[(p + m) + k] = b[k]
    BY <1>2, <2>3, <2>4 DEF Joined
  <2>. QED
    BY <2>3, <2>5, <2>6, <2>7
<1>. HIDE DEF l
<1>5. ASSUME q = p + m, NEW i \in 1 .. Len(l), i > q PROVE l[i] = l0[i]
  <2>. DEFINE k == i - q
  <2>1. i \in Int /\ i <= p + m + r /\ i > q /\ q = p + m /\ p + m \in Int
    BY <1>2, <1>3, <1>4, <1>5
  <2>2. k \in 1 .. r /\ p + m + k = i /\ q + k = i
    BY <1>2, <2>1
  <2>. HIDE DEF k
  <2>3. l[p + m + k] = b[k] /\ b[k] = l0[q + k]
    BY <1>2, <1>4, <2>2
  <2>. QED
    BY <2>2, <2>3
<1>6. SplicedAs(l, l0, s, p, q)
  BY <1>1, <1>4, <1>5 DEF SplicedAs, r, m
<1>. QED
  BY <1>6 DEF Spliced, l, a, b

\* The text s is inserted
Inserts(l, l0, s, p) ==
    /\ l \in Seq(Ink) /\ Len(l) = Len(l0) + Len(s)
    /\ \A i \in 1 .. p : l[i] = l0[i]

LEMMA InsertAgrees ==
    ASSUME NEW l0 \in Seq(Ink), NEW s \in Seq(Ink), NEW p \in Nat, p <= Len(l0),
           NEW l, l = Spliced(l0, s, p, p)
    PROVE  Inserts(l, l0, s, p)
<1>1. SplicedAs(l, l0, s, p, p)
  BY SplicedIs
<1>2. Len(l0) \in Nat /\ Len(s) \in Nat
  OBVIOUS
<1>3. Rest(l0, p) = Len(l0) - p
  BY DEF Rest
<1>4. Len(l) = p + Len(s) + (Len(l0) - p)
  BY <1>1, <1>3 DEF SplicedAs
<1>. QED
  BY <1>1, <1>2, <1>4 DEF SplicedAs, Inserts

\* ... or replaces as much of the line
Replaces(l, l0, s, p) ==
    /\ l \in Seq(Ink) /\ Len(l) >= Len(l0) /\ Len(l) >= p + Len(s)
    /\ Len(l) = Len(l0) \/ Len(l) = p + Len(s)
    /\ \A i \in 1 .. p : l[i] = l0[i]
    /\ \A i \in 1 .. Len(l) : i > p + Len(s) => l[i] = l0[i]

LEMMA ReplaceAgrees ==
    ASSUME NEW l0 \in Seq(Ink), NEW s \in Seq(Ink), NEW p \in Nat, p <= Len(l0),
           NEW l, l = Spliced(l0, s, p, p + Len(s))
    PROVE  Replaces(l, l0, s, p)
<1>. DEFINE q == p + Len(s)
<1>2. Len(l0) \in Nat /\ Len(s) \in Nat /\ q \in Nat /\ p <= q
  OBVIOUS
<1>1. SplicedAs(l, l0, s, p, q)
  <2>1. l = Spliced(l0, s, p, q)
    OBVIOUS
  <2>. HIDE DEF q
  <2>. QED
    BY <1>2, <2>1, SplicedIs
<1>3. Len(l) = q + Rest(l0, q) /\ l \in Seq(Ink)
  BY <1>1 DEF SplicedAs
<1>4. CASE q <= Len(l0)
  <2>1. Rest(l0, q) = Len(l0) - q
    BY <1>4 DEF Rest
  <2>2. Len(l) = Len(l0)
    <3>. HIDE DEF q
    <3>. QED
      BY <1>2, <1>3, <2>1
  <2>. QED
    BY <1>1, <1>2, <1>4, <2>2 DEF SplicedAs, Replaces
<1>5. CASE ~(q <= Len(l0))
  <2>1. Rest(l0, q) = 0
    BY <1>5 DEF Rest
  <2>2. Len(l) = q
    <3>. HIDE DEF q
    <3>. QED
      BY <1>2, <1>3, <2>1
  <2>. QED
    BY <1>1, <1>2, <1>5, <2>2 DEF SplicedAs, Replaces
<1>. QED
  BY <1>4, <1>5 DEF Replaces

\* What is from p to q is taken away
Cuts(l, l0, p, q) ==
    /\ l \in Seq(Ink) /\ Len(l) = p + (Len(l0) - q)
    /\ \A i \in 1 .. p : l[i] = l0[i]

LEMMA WithoutAgrees ==
    ASSUME NEW l0 \in Seq(Ink), NEW p \in Nat, NEW q \in Nat, p <= q, q <= Len(l0),
           NEW l, l = Piece(l0, 0, p) \o Piece(l0, q, Len(l0))
    PROVE  Cuts(l, l0, p, q)
<1>. DEFINE s == << >>
<1>0. s \in Seq(Ink) /\ Len(s) = 0 /\ Len(l0) \in Nat
  OBVIOUS
<1>1. l = Spliced(l0, s, p, q)
  <2>1. Piece(l0, 0, p) \in Seq(Ink)
    <3>. DEFINE z == 0
    <3>1. z \in Nat /\ p \in Int /\ p <= Len(l0)
      BY <1>0
    <3>. HIDE DEF z
    <3>2. Piece(l0, z, p) \in Seq(Ink)
      BY <3>1, PieceAny
    <3>. QED
      BY <3>2 DEF z
  <2>2. Piece(l0, 0, p) \o s = Piece(l0, 0, p)
    BY <2>1
  <2>. QED
    BY <2>2 DEF Spliced
<1>. HIDE DEF s
<1>2. SplicedAs(l, l0, s, p, q)
  <2>0. p <= Len(l0)
    BY <1>0
  <2>1. SplicedAs(Spliced(l0, s, p, q), l0, s, p, q)
    BY <1>0, <2>0, SplicedIs
  <2>. QED
    BY <1>1, <2>1
<1>3. Rest(l0, q) = Len(l0) - q
  BY DEF Rest
<1>4. Len(l) = p + 0 + (Len(l0) - q)
  BY <1>0, <1>2, <1>3 DEF SplicedAs
<1>. QED
  BY <1>0, <1>2, <1>4 DEF SplicedAs, Cuts

\* The terminal is another one that looks the same
LooksLike(t, u, n) ==
    /\ Screen(t, n) /\ t.col = u.col
    /\ \A k \in 1 .. n : t.row[k] = u.row[k]

\* The terminal is another one, of another width
LEMMA ResizedKept ==
    ASSUME NEW n \in Nat \ {0}, NEW d, NEW l, NEW p, Kept(d, l, p, n),
           NEW m \in Nat \ {0}, NEW t, Screen(t, m)
    PROVE  Kept([d EXCEPT !.tty = t], l, p, m)
<1>. DEFINE r == [d EXCEPT !.tty = t]
<1>1. d \in Editors /\ t \in Ttys
  BY DEF Kept, Screen, Ttys
<1>2. /\ r \in Editors /\ r.tty = t /\ r.pos = d.pos /\ r.cnt = d.cnt
      /\ r.width = d.width /\ r.prompt = d.prompt
  BY <1>1, SetTty, EditorWith
<1>. HIDE DEF r
<1>3. Kept(r, l, p, m)
  BY <1>2 DEF Kept
<1>. QED
  BY <1>3 DEF r

LEMMA SameShown ==
    ASSUME NEW n \in Nat \ {0}, NEW d, NEW l, Shown(d, l, n),
           NEW t, LooksLike(t, d.tty, n), t.full = FALSE
    PROVE  Shown([d EXCEPT !.tty = t], l, n)
<1>. DEFINE r == [d EXCEPT !.tty = t]
<1>0. Begun(d, n) /\ d \in Editors
  BY DEF Shown, Begun
<1>1. t \in Ttys
  BY DEF LooksLike, Screen, Ttys
<1>2. /\ r \in Editors /\ r.tty = t /\ r.pos = d.pos /\ r.cnt = d.cnt /\ r.shift = d.shift
      /\ r.width = d.width /\ r.prompt = d.prompt /\ r.left = d.left /\ r.right = d.right
  BY <1>0, <1>1, SetTty, EditorWith
<1>. HIDE DEF r
<1>3. /\ Len(d.prompt) \in Nat /\ d.width \in Int /\ Len(d.prompt) + d.width = n
      /\ \A k \in 1 .. Len(d.prompt) : k \in 1 .. n
      /\ \A k \in 1 .. d.width - 1 : Len(d.prompt) + k \in 1 .. n
  <2>1. d.prompt \in Seq(Ink) /\ d.width \in Int /\ Len(d.prompt) + d.width = n
        /\ d.pos - d.shift <= d.width - 1 /\ d.shift <= d.pos /\ d.pos \in Nat /\ d.shift \in Nat
    BY <1>0 DEF Begun, Editors
  <2>. DEFINE a == Len(d.prompt)
              w == d.width
  <2>2. a \in Nat /\ w \in Int /\ a + w = n /\ w >= 1
    BY <2>1
  <2>. HIDE DEF a, w
  <2>3. /\ \A k \in 1 .. a : k \in 1 .. n
        /\ \A k \in 1 .. w - 1 : a + k \in 1 .. n
    BY <2>2
  <2>. QED
    BY <2>2, <2>3 DEF a, w
<1>4. Begun(r, n)
  <2>1. \A k \in 1 .. Len(r.prompt) : r.tty.row[k] = r.prompt[k]
    BY <1>0, <1>2, <1>3 DEF Begun, LooksLike
  <2>2. r.tty.col = Len(r.prompt) + (r.pos - r.shift)
    BY <1>0, <1>2 DEF Begun, LooksLike
  <2>3. Screen(r.tty, n)
    BY <1>2 DEF LooksLike
  <2>4. r.left <=> r.shift > 0
    BY <1>0, <1>2 DEF Begun
  <2>5. ~r.right => r.cnt - r.shift <= r.width - 1
    BY <1>0, <1>2 DEF Begun
  <2>6. /\ RoomBehind(r.prompt, n) /\ Len(r.prompt) + r.width = n
        /\ r.shift <= r.pos /\ r.pos - r.shift <= r.width - 1
    BY <1>0, <1>2 DEF Begun
  <2>. QED
    BY <1>2, <2>1, <2>2, <2>3, <2>4, <2>5, <2>6 DEF Begun
<1>5. Placed(r, l)
  BY <1>2 DEF Shown, Placed
<1>6. ASSUME NEW k \in 1 .. r.width - 1
      PROVE  r.tty.row[Len(r.prompt) + k] = Cell(r, l, k)
  <2>1. d.tty.row[Len(d.prompt) + k] = Cell(d, l, k)
    BY <1>2 DEF Shown
  <2>2. Cell(r, l, k) = Cell(d, l, k)
    BY <1>2 DEF Cell
  <2>3. Len(d.prompt) + k \in 1 .. n
    BY <1>2, <1>3
  <2>. QED
    BY <1>2, <2>1, <2>2, <2>3 DEF LooksLike
<1>7. Shown(r, l, n)
  BY <1>4, <1>5, <1>6 DEF Shown
<1>. QED
  BY <1>7 DEF r

\* The row that Becomes counts from is this one
LEMMA DownReset ==
    ASSUME NEW n \in Nat \ {0}, NEW t, Screen(t, n)
    PROVE  LooksLike([t EXCEPT !.down = 0], t, n) /\ [t EXCEPT !.down = 0].full = t.full
<1>1. t \in [row : Seq(Marks), col : Nat, full : BOOLEAN, down : Nat]
  BY DEF Screen
<1>. DEFINE u == [t EXCEPT !.down = 0]
<1>2. /\ u \in [row : Seq(Marks), col : Nat, full : BOOLEAN, down : Nat]
      /\ u.row = t.row /\ u.col = t.col /\ u.full = t.full
  BY <1>1
<1>. HIDE DEF u
<1>3. Screen(u, n)
  BY <1>2 DEF Screen
<1>4. LooksLike(u, t, n)
  BY <1>2, <1>3 DEF LooksLike
<1>. QED
  BY <1>2, <1>4 DEF u

----------------------------------------------------------------------------
(***************************************************************************)
(* The keys.  n is the width of the window.                                *)
(***************************************************************************)
PlainLines ==
    Prompt \in Seq(Ink) /\ Yanked \in Seq(Ink) /\ Recallable \subseteq Seq(Ink) /\ Typed \subseteq Ink

\* What holds while a line is edited, even when the window changed under it
Held(n) ==
    /\ Kept(ed, line, ed.prompt, n)
    /\ searching \in Int /\ searching >= -1
    /\ searching = -1 => ed.prompt = Prompt

LEMMA BecomesIs ==
    ASSUME NEW n \in Nat \ {0}, NEW d, NEW l, NEW p, NEW to, Turned(d, l, p, to, n), Becomes(l, d)
    PROVE  /\ line' = l /\ Kept(ed', l, p, n) /\ ed'.prompt = p /\ ed'.pos = to
           /\ Shown(d, l, n) => Shown(ed', l, n)
<1>. DEFINE t == [d.tty EXCEPT !.down = 0]
<1>1. line' = l /\ ed' = [d EXCEPT !.tty = t]
  BY DEF Becomes
<1>2. Kept(d, l, p, n) /\ d \in Editors /\ Screen(d.tty, n) /\ d.pos = to /\ d.prompt = p
  BY DEF Turned, Kept
<1>3. LooksLike(t, d.tty, n) /\ t.full = d.tty.full /\ Screen(t, n)
  BY <1>2, DownReset DEF LooksLike
<1>. HIDE DEF t
<1>4. Kept(ed', l, p, n) /\ ed'.prompt = p /\ ed'.pos = to
  <2>1. Kept([d EXCEPT !.tty = t], l, p, n)
    BY <1>2, <1>3, ResizedKept
  <2>2. [d EXCEPT !.tty = t].pos = d.pos /\ [d EXCEPT !.tty = t].prompt = d.prompt
    BY <1>2, SetTty
  <2>. QED
    BY <1>1, <1>2, <2>1, <2>2
<1>5. Shown(d, l, n) => Shown(ed', l, n)
  <2>. SUFFICES ASSUME Shown(d, l, n) PROVE Shown(ed', l, n)
    OBVIOUS
  <2>1. t.full = FALSE
    BY <1>3 DEF Shown, Begun
  <2>2. Shown([d EXCEPT !.tty = t], l, n)
    BY <1>3, <2>1, SameShown
  <2>. QED
    BY <1>1, <2>2
<1>. QED
  BY <1>1, <1>4, <1>5

\* What a key in the row must achieve
Follows(n) == Held(n)' /\ (Shown(ed, line, n) => Shown(ed', line', n))

LEMMA ControlIs ==
    ASSUME NEW n \in Nat \ {0}, NEW d, NEW l, NEW to, Goes(ed, line, d, l, Prompt, to, n),
           Becomes(l, d), searching' \in Int, searching' >= -1
    PROVE  Follows(n)
<1>1. Turned(d, l, Prompt, to, n) /\ (Shown(ed, line, n) => Shown(d, l, n))
  BY DEF Goes
<1>2. /\ line' = l /\ Kept(ed', l, Prompt, n) /\ ed'.prompt = Prompt
      /\ Shown(d, l, n) => Shown(ed', l, n)
  BY <1>1, BecomesIs
<1>3. Held(n)'
  BY <1>2 DEF Held
<1>4. Shown(ed, line, n) => Shown(ed', line', n)
  BY <1>1, <1>2
<1>. QED
  BY <1>3, <1>4 DEF Follows

LEMMA ClampedSame ==
    ASSUME NEW a \in Nat, NEW c \in Nat, a <= c
    PROVE  Clamped(a, c) = a
BY DEF Clamped

LEMMA ReadyIs ==
    ASSUME NEW n \in Nat \ {0}, termw = n, PlainLines, RoomBehind(Prompt, n), Held(n)
    PROVE  Goes(ed, line, Ready, line, Prompt, ed.pos, n)
<1>1. /\ Kept(ed, line, ed.prompt, n) /\ line \in Seq(Ink) /\ ed.pos \in Nat
      /\ ed.pos <= Len(line) /\ searching \in Int /\ searching >= -1
      /\ (searching = -1 => ed.prompt = Prompt)
  BY DEF Held, Kept, Editors
<1>2. CASE searching >= 0
  <2>1. Ready = gl_fixup_scroll(ed, line, Prompt, 0, ed.pos, 0)
    BY <1>2 DEF Ready, Fixup
  <2>2. Clamped(ed.pos, Len(line)) = ed.pos
    <3>1. Len(line) \in Nat
      BY <1>1
    <3>. QED
      BY <1>1, <3>1, ClampedSame
  <2>. DEFINE c == ed.pos
              q == ed.prompt
  <2>3. c \in Int /\ Kept(ed, line, q, n) /\ Prompt \in Seq(Ink)
    BY <1>1 DEF PlainLines
  <2>. HIDE DEF c, q
  <2>4. Goes(ed, line, gl_fixup_scroll(ed, line, Prompt, 0, c, 0), line, Prompt,
             Clamped(c, Len(line)), n)
    BY <1>1, <2>3, GoesWhole
  <2>. QED
    BY <2>1, <2>2, <2>4 DEF c
<1>3. CASE ~(searching >= 0)
  <2>1. searching = -1
    BY <1>1, <1>3
  <2>2. Ready = ed /\ ed.prompt = Prompt
    BY <1>1, <1>3, <2>1 DEF Ready
  <2>3. Turned(ed, line, Prompt, ed.pos, n)
    BY <1>1, <2>2 DEF Turned
  <2>. QED
    BY <2>2, <2>3 DEF Goes
<1>. QED
  BY <1>2, <1>3

LEMMA GoesOnFrom ==
    ASSUME NEW n, NEW a, NEW la, NEW b, NEW lb, NEW c, NEW lc, NEW p, NEW q, NEW i, NEW j,
           Goes(a, la, b, lb, p, i, n), Goes(b, lb, c, lc, q, j, n)
    PROVE  Goes(a, la, c, lc, q, j, n)
BY DEF Goes

\* The numbers of the line that is edited
Begins(n) ==
    /\ n \in Nat \ {0} /\ termw = n /\ PlainLines /\ RoomBehind(Prompt, n) /\ Held(n)

LEMMA LineIs ==
    ASSUME NEW n, Begins(n)
    PROVE  /\ line \in Seq(Ink) /\ Len(line) \in Nat /\ ed.pos \in Nat /\ ed.pos <= Len(line)
           /\ ed.cnt = Len(line) /\ ed \in Editors /\ Screen(ed.tty, n)
BY DEF Begins, Held, Kept, Editors

LEMMA InkCharacter ==
    ASSUME NEW c \in Ink
    PROVE  <<c>> \in Seq(Ink) /\ Len(<<c>>) = 1
OBVIOUS

LEMMA AddCharFollows ==
    ASSUME NEW n, Begins(n), NEW c \in Typed, AddChar(c)
    PROVE  Follows(n)
<1>. DEFINE p == ed.pos
            s == <<c>>
            q == p + 1
<1>1. /\ n \in Nat \ {0} /\ termw = n /\ Prompt \in Seq(Ink) /\ RoomBehind(Prompt, n)
      /\ Kept(ed, line, Prompt, n) /\ line \in Seq(Ink) /\ p \in Nat /\ p <= Len(line)
      /\ Len(line) \in Nat /\ ed.cnt = Len(line) /\ ed.pos = p
      /\ searching' = -1
  BY LineIs DEF Begins, Held, PlainLines, AddChar
<1>2. s \in Seq(Ink) /\ Len(s) = 1
  <2>1. c \in Ink
    BY DEF Begins, PlainLines
  <2>. QED
    BY <2>1, InkCharacter
<1>3. q \in Int /\ q = p + 1
  BY <1>1
<1>. HIDE DEF p, s, q
<1>4. CASE overwrite /\ ed.pos < ed.cnt
  <2>. DEFINE l == Replaced(s, p)
              one == 1
  <2>1. Becomes(l, gl_fixup_scroll(ed, l, Prompt, p, q, one))
    BY <1>4 DEF AddChar, Adds, Fixup, p, q, s
  <2>2. l = Spliced(line, s, p, p + Len(s)) /\ one \in Nat /\ one = 1
    BY DEF Replaced, Spliced
  <2>. HIDE DEF l, one
  <2>3. /\ l \in Seq(Ink) /\ Len(l) >= Len(line) /\ Len(l) >= p + Len(s)
        /\ Len(l) = Len(line) \/ Len(l) = p + Len(s)
        /\ \A i \in 1 .. p : l[i] = line[i]
        /\ \A i \in 1 .. Len(l) : i > p + Len(s) => l[i] = line[i]
    <3>1. Replaces(l, line, s, p)
      BY <1>1, <1>2, <2>2, ReplaceAgrees
    <3>. QED
      BY <3>1 DEF Replaces
  <2>4. Clamped(q, Len(l)) = q /\ Len(l) \in Nat
    BY <1>1, <1>2, <1>3, <2>3, ClampedSame
  <2>5. Agrees(line, l, p, one)
    BY <1>1, <1>2, <2>2, <2>3, <2>4 DEF Agrees
  <2>6. Goes(ed, line, gl_fixup_scroll(ed, l, Prompt, p, q, one), l, Prompt, Clamped(q, Len(l)), n)
    <3>1. p <= ed.pos /\ p <= Clamped(q, Len(l)) /\ (one > 0 => Clamped(q, Len(l)) <= p + one)
          /\ p < Clamped(q, Len(l))
      BY <1>1, <1>3, <2>2, <2>4
    <3>. QED
      BY <1>1, <1>3, <2>2, <2>3, <2>5, <3>1, GoesEdit
  <2>. QED
    BY <1>1, <2>1, <2>6, ControlIs
<1>5. CASE ~(overwrite /\ ed.pos < ed.cnt)
  <2>. DEFINE l == Inserted(s, p)
              none == 0
  <2>1. Becomes(l, gl_fixup_scroll(ed, l, Prompt, p, q, none))
    BY <1>5 DEF AddChar, Adds, Fixup, p, q, s
  <2>2. l = Spliced(line, s, p, p) /\ none \in Nat /\ none = 0
    BY DEF Inserted, Spliced
  <2>. HIDE DEF l, none
  <2>3. /\ l \in Seq(Ink) /\ Len(l) = Len(line) + Len(s)
        /\ \A i \in 1 .. p : l[i] = line[i]
    <3>1. Inserts(l, line, s, p)
      BY <1>1, <1>2, <2>2, InsertAgrees
    <3>. QED
      BY <3>1 DEF Inserts
  <2>4. Clamped(q, Len(l)) = q /\ Len(l) \in Nat
    BY <1>1, <1>2, <1>3, <2>3, ClampedSame
  <2>5. Agrees(line, l, p, none)
    BY <1>1, <1>2, <2>2, <2>3, <2>4 DEF Agrees
  <2>6. Goes(ed, line, gl_fixup_scroll(ed, l, Prompt, p, q, none), l, Prompt, Clamped(q, Len(l)), n)
    <3>1. p <= ed.pos /\ p <= Clamped(q, Len(l)) /\ (none > 0 => Clamped(q, Len(l)) <= p + none)
          /\ p < Clamped(q, Len(l))
      BY <1>1, <1>3, <2>2, <2>4
    <3>. QED
      BY <1>1, <1>3, <2>2, <2>3, <2>5, <3>1, GoesEdit
  <2>. QED
    BY <1>1, <2>1, <2>6, ControlIs
<1>. QED
  BY <1>4, <1>5

\* The editor without the search
LEMMA ReadyKept ==
    ASSUME NEW n, Begins(n)
    PROVE  /\ Goes(ed, line, Ready, line, Prompt, ed.pos, n)
           /\ Kept(Ready, line, Prompt, n) /\ Ready.pos = ed.pos
<1>1. Goes(ed, line, Ready, line, Prompt, ed.pos, n)
  BY ReadyIs DEF Begins
<1>. QED
  BY <1>1 DEF Goes, Turned

\* An edit after which the line is l, with the cursor at q
LEMMA EditFollows ==
    ASSUME NEW n, Begins(n), NEW l \in Seq(Ink), NEW p \in Nat, NEW q \in Nat, NEW extent \in Nat,
           Agrees(line, l, p, extent), p <= ed.pos, p <= q, q <= Len(l),
           extent > 0 => q <= p + extent, p < q \/ Len(l) <= Len(line),
           Control(l, gl_fixup_scroll(Ready, l, Prompt, p, q, extent))
    PROVE  Follows(n)
<1>. DEFINE d == Ready
            r == gl_fixup_scroll(d, l, Prompt, p, q, extent)
<1>1. /\ n \in Nat \ {0} /\ termw = n /\ Prompt \in Seq(Ink) /\ RoomBehind(Prompt, n)
  BY DEF Begins, PlainLines
<1>2. Goes(ed, line, d, line, Prompt, ed.pos, n) /\ Kept(d, line, Prompt, n) /\ d.pos = ed.pos
  BY ReadyKept
<1>3. Becomes(l, r) /\ searching' = -1
  BY DEF Control
<1>4. Len(l) \in Nat /\ Clamped(q, Len(l)) = q /\ q \in Int
  BY ClampedSame
<1>. HIDE DEF d
<1>5. Goes(d, line, r, l, Prompt, Clamped(q, Len(l)), n)
  BY <1>1, <1>2, <1>4, GoesEdit
<1>. HIDE DEF r
<1>6. Goes(ed, line, r, l, Prompt, q, n)
  BY <1>2, <1>4, <1>5, GoesOnFrom
<1>7. searching' \in Int /\ searching' >= -1
  BY <1>3
<1>. QED
  BY <1>1, <1>3, <1>6, <1>7, ControlIs

LEMMA YankFollows ==
    ASSUME NEW n, Begins(n), Yank
    PROVE  Follows(n)
<1>. DEFINE p == ed.pos
            s == Yanked
            q == p + Len(s)
<1>1. /\ line \in Seq(Ink) /\ p \in Nat /\ p <= Len(line) /\ Len(line) \in Nat /\ p <= ed.pos
  BY LineIs
<1>2. s \in Seq(Ink) /\ Len(s) \in Nat
  BY DEF Begins, PlainLines
<1>3. q \in Nat /\ q = p + Len(s)
  BY <1>1, <1>2
<1>. HIDE DEF p, s, q
<1>4. CASE overwrite
  <2>. DEFINE l == Replaced(s, p)
              e == Len(s)
  <2>1. Control(l, gl_fixup_scroll(Ready, l, Prompt, p, q, e))
    BY <1>4 DEF Yank, Fixup, p, q, s
  <2>2. l = Spliced(line, s, p, p + Len(s))
    BY DEF Replaced, Spliced
  <2>. HIDE DEF l
  <2>3. Replaces(l, line, s, p)
    BY <1>1, <1>2, <2>2, ReplaceAgrees
  <2>4. /\ l \in Seq(Ink) /\ Len(l) >= Len(line) /\ Len(l) >= p + e
        /\ Len(l) = Len(line) \/ Len(l) = p + e
        /\ \A i \in 1 .. p : l[i] = line[i]
        /\ \A i \in 1 .. Len(l) : i > p + e => l[i] = line[i]
    BY <2>3 DEF Replaces
  <2>. HIDE DEF e
  <2>5. e \in Nat /\ Len(l) \in Nat /\ q = p + e
    BY <1>2, <1>3, <2>4 DEF e
  <2>6. Agrees(line, l, p, e)
    BY <1>1, <2>4, <2>5 DEF Agrees
  <2>7. p <= q /\ q <= Len(l) /\ (e > 0 => q <= p + e) /\ (p < q \/ Len(l) <= Len(line))
    BY <1>1, <2>4, <2>5
  <2>. QED
    BY <1>1, <1>3, <2>1, <2>4, <2>5, <2>6, <2>7, EditFollows
<1>5. CASE ~overwrite
  <2>. DEFINE l == Inserted(s, p)
              e == 0
  <2>1. Control(l, gl_fixup_scroll(Ready, l, Prompt, p, q, e))
    BY <1>5 DEF Yank, Fixup, p, q, s
  <2>2. l = Spliced(line, s, p, p) /\ e \in Nat /\ e = 0
    BY DEF Inserted, Spliced
  <2>. HIDE DEF l, e
  <2>3. Inserts(l, line, s, p)
    BY <1>1, <1>2, <2>2, InsertAgrees
  <2>4. /\ l \in Seq(Ink) /\ Len(l) = Len(line) + Len(s)
        /\ \A i \in 1 .. p : l[i] = line[i]
    BY <2>3 DEF Inserts
  <2>5. Len(l) \in Nat
    BY <2>4
  <2>6. Agrees(line, l, p, e)
    BY <1>1, <1>2, <2>2, <2>4, <2>5 DEF Agrees
  <2>7. p <= q /\ q <= Len(l) /\ (e > 0 => q <= p + e) /\ (p < q \/ Len(l) <= Len(line))
    BY <1>1, <1>2, <1>3, <2>2, <2>4
  <2>. QED
    BY <1>1, <1>3, <2>1, <2>2, <2>4, <2>6, <2>7, EditFollows
<1>. QED
  BY <1>4, <1>5

LEMMA TransposeFollows ==
    ASSUME NEW n, Begins(n), Transpose
    PROVE  Follows(n)
<1>. DEFINE q == ed.pos
            p == q - 1
            s == <<line[q + 1], line[q]>>
            l == Replaced(s, p)
            e == 2
<1>1. /\ line \in Seq(Ink) /\ q \in Nat /\ q > 0 /\ q < Len(line) /\ Len(line) \in Nat /\ q = ed.pos
  BY LineIs DEF Transpose
<1>2. Control(l, gl_fixup_scroll(Ready, l, Prompt, p, q, e))
  BY DEF Transpose, Fixup
<1>3. s \in Seq(Ink) /\ Len(s) = 2
  <2>1. line[q + 1] \in Ink /\ line[q] \in Ink
    BY <1>1
  <2>. QED
    BY <2>1
<1>4. l = Spliced(line, s, p, p + Len(s))
  BY DEF Replaced, Spliced
<1>5. p \in Nat /\ p + 1 = q /\ e \in Nat /\ e = 2
  BY <1>1
<1>. HIDE DEF p, q, s, l, e
<1>6. Replaces(l, line, s, p)
  <2>1. p <= Len(line)
    BY <1>1, <1>5
  <2>. QED
    BY <1>1, <1>3, <1>4, <1>5, <2>1, ReplaceAgrees
<1>7. /\ l \in Seq(Ink) /\ Len(l) >= Len(line)
      /\ Len(l) = Len(line) \/ Len(l) = p + 2
      /\ \A i \in 1 .. p : l[i] = line[i]
      /\ \A i \in 1 .. Len(l) : i > p + 2 => l[i] = line[i]
  BY <1>3, <1>6 DEF Replaces
<1>8. Agrees(line, l, p, e)
  BY <1>1, <1>5, <1>7 DEF Agrees
<1>9. p <= ed.pos /\ p <= q /\ q <= Len(l) /\ (e > 0 => q <= p + e) /\ (p < q \/ Len(l) <= Len(line))
  BY <1>1, <1>5, <1>7
<1>. QED
  BY <1>1, <1>2, <1>5, <1>7, <1>8, <1>9, EditFollows

\* A part of the line up to the cursor, or behind it, is taken away
LEMMA CutFollows ==
    ASSUME NEW n, Begins(n), NEW p \in Nat, p <= ed.pos, NEW q \in Nat, p <= q, q <= Len(line),
           NEW l, Cuts(l, line, p, q),
           Control(l, gl_fixup_scroll(Ready, l, Prompt, p, p, 0))
    PROVE  Follows(n)
<1>. DEFINE e == 0
<1>1. line \in Seq(Ink) /\ Len(line) \in Nat
  BY LineIs
<1>2. l \in Seq(Ink) /\ Len(l) = p + (Len(line) - q) /\ \A i \in 1 .. p : l[i] = line[i]
  BY DEF Cuts
<1>3. e \in Nat /\ e = 0 /\ Control(l, gl_fixup_scroll(Ready, l, Prompt, p, p, e))
  OBVIOUS
<1>. HIDE DEF e
<1>4. p <= Len(l) /\ Len(l) <= Len(line) /\ p <= Len(line)
  BY <1>1, <1>2
<1>5. Agrees(line, l, p, e)
  BY <1>2, <1>3, <1>4 DEF Agrees
<1>. QED
  BY <1>2, <1>3, <1>4, <1>5, EditFollows

LEMMA DelFollows ==
    ASSUME NEW n, Begins(n), NEW loc \in {0, -1}, Del(loc)
    PROVE  Follows(n)
<1>. DEFINE p == ed.pos + loc
            q == p + 1
            l == Without(p, q)
<1>1. line \in Seq(Ink) /\ ed.pos \in Nat /\ Len(line) \in Nat /\ ed.pos <= Len(line) /\ ed.cnt = Len(line)
  BY LineIs
<1>2. Control(l, gl_fixup_scroll(Ready, l, Prompt, p, p, 0))
  BY DEF Del, Fixup
<1>3. p \in Nat /\ p <= ed.pos /\ q \in Nat /\ p <= q /\ q <= Len(line)
  <2>1. CASE loc = 0
    BY <1>1, <2>1 DEF Del
  <2>2. CASE loc = -1
    BY <1>1, <2>2 DEF Del
  <2>. QED
    BY <2>1, <2>2
<1>4. l = Piece(line, 0, p) \o Piece(line, q, Len(line))
  BY DEF Without
<1>. HIDE DEF p, q, l
<1>5. Cuts(l, line, p, q)
  BY <1>1, <1>3, <1>4, WithoutAgrees
<1>. QED
  BY <1>2, <1>3, <1>5, CutFollows

LEMMA KillEndFollows ==
    ASSUME NEW n, Begins(n), KillEnd
    PROVE  Follows(n)
<1>. DEFINE p == ed.pos
            q == Len(line)
            z == 0
            l == Piece(line, z, p)
<1>1. line \in Seq(Ink) /\ p \in Nat /\ q \in Nat /\ p <= q /\ q = Len(line) /\ p <= ed.pos
  BY LineIs
<1>2. Control(l, gl_fixup_scroll(Ready, l, Prompt, p, p, 0))
  BY DEF KillEnd, Fixup
<1>3. z \in Nat /\ z = 0 /\ l = Piece(line, z, p)
  OBVIOUS
<1>. HIDE DEF p, q, z, l
<1>4. l \in Seq(Ink) /\ Len(l) = p - z /\ \A k \in 1 .. p - z : l[k] = line[z + k]
  <2>1. line \in Seq(Ink) /\ z \in Nat /\ p \in Nat /\ z <= p /\ p <= Len(line)
    BY <1>1, <1>3
  <2>2. /\ Piece(line, z, p) \in Seq(Ink) /\ Len(Piece(line, z, p)) = p - z
        /\ \A k \in 1 .. p - z : Piece(line, z, p)[k] = line[z + k]
    BY ONLY <2>1, PieceIs
  <2>. QED
    BY <1>3, <2>2
<1>5. Cuts(l, line, p, q)
  BY <1>1, <1>3, <1>4 DEF Cuts
<1>. QED
  BY <1>1, <1>2, <1>5, CutFollows

LEMMA MoveFollows ==
    ASSUME NEW n, Begins(n), NEW to \in Int,
           Control(line, gl_fixup_scroll(Ready, line, Prompt, -1, to, 0))
    PROVE  Follows(n)
<1>. DEFINE d == Ready
            r == gl_fixup_scroll(d, line, Prompt, -1, to, 0)
<1>1. /\ n \in Nat \ {0} /\ termw = n /\ Prompt \in Seq(Ink) /\ RoomBehind(Prompt, n)
  BY DEF Begins, PlainLines
<1>2. Goes(ed, line, d, line, Prompt, ed.pos, n) /\ Kept(d, line, Prompt, n) /\ d.pos = ed.pos
  BY ReadyKept
<1>3. Becomes(line, r) /\ searching' = -1
  BY DEF Control
<1>. HIDE DEF d
<1>5. Goes(d, line, r, line, Prompt, Clamped(to, Len(line)), n)
  BY <1>1, <1>2, GoesMove
<1>. HIDE DEF r
<1>6. Goes(ed, line, r, line, Prompt, Clamped(to, Len(line)), n)
  BY <1>2, <1>5, GoesOnFrom
<1>7. searching' \in Int /\ searching' >= -1
  BY <1>3
<1>. QED
  BY <1>1, <1>3, <1>6, <1>7, ControlIs

\* What is before the cursor is killed, from there on
LEMMA KillFollows ==
    ASSUME NEW n, Begins(n), NEW from \in Nat, NEW change \in Nat, from <= change, change <= ed.pos,
           KillPiece(from, change)
    PROVE  Follows(n)
<1>. DEFINE d == Ready
            q == ed.pos
            l == Without(from, q)
            x == gl_fixup_scroll(d, l, Prompt, change, from, 0)
            r == gl_fixup_scroll(Rewritten(x, l), l, Prompt, -2, from, 0)
<1>1. /\ n \in Nat \ {0} /\ termw = n /\ Prompt \in Seq(Ink) /\ RoomBehind(Prompt, n)
  BY DEF Begins, PlainLines
<1>2. Goes(ed, line, d, line, Prompt, ed.pos, n) /\ Kept(d, line, Prompt, n) /\ d.pos = ed.pos
  BY ReadyKept
<1>3. Becomes(l, r) /\ searching' = -1
  BY DEF KillPiece, Killed, Control, Fixup
<1>4. line \in Seq(Ink) /\ q \in Nat /\ Len(line) \in Nat /\ q <= Len(line) /\ from <= q
  BY LineIs
<1>5. l = Piece(line, 0, from) \o Piece(line, q, Len(line))
  BY DEF Without
<1>. HIDE DEF d, q, l
<1>6. Cuts(l, line, from, q)
  BY <1>4, <1>5, WithoutAgrees
<1>7. l \in Seq(Ink) /\ from <= Len(l)
  <2>1. l \in Seq(Ink) /\ Len(l) = from + (Len(line) - q)
    BY <1>6 DEF Cuts
  <2>. QED
    BY <1>4, <2>1
<1>8. change <= d.pos
  BY <1>2
<1>. HIDE DEF x
<1>9. Goes(d, line, r, l, Prompt, from, n)
  <2>1. x = gl_fixup_scroll(d, l, Prompt, change, from, 0)
    BY DEF x
  <2>. QED
    BY <1>1, <1>2, <1>7, <1>8, <2>1, GoesKill
<1>. HIDE DEF r
<1>10. Goes(ed, line, r, l, Prompt, from, n)
  BY <1>2, <1>9, GoesOnFrom
<1>11. searching' \in Int /\ searching' >= -1
  BY <1>3
<1>. QED
  BY <1>1, <1>3, <1>10, <1>11, ControlIs

LEMMA GreatestNumber ==
    ASSUME NEW b \in Nat, NEW T, T \subseteq 0 .. b, T # {}
    PROVE  Max(T) \in T
<1>. DEFINE U == {b - y : y \in T}
<1>1. U \subseteq Nat /\ U # {}
  <2>1. \A y \in T : y \in 0 .. b
    OBVIOUS
  <2>2. \A y \in 0 .. b : b - y \in Nat
    OBVIOUS
  <2>3. \A y \in T : b - y \in Nat
    BY <2>1, <2>2
  <2>4. PICK y \in T : TRUE
    OBVIOUS
  <2>5. b - y \in U
    OBVIOUS
  <2>6. U # {}
    BY <2>5
  <2>. QED
    BY <2>3, <2>6
<1>2. P!Min(U) \in U /\ \A m \in U : P!Min(U) <= m
  BY <1>1, LeastNumber
<1>3. PICK x \in T : P!Min(U) = b - x
  BY <1>2
<1>4. \A y \in T : x >= y
  <2>. TAKE y \in T
  <2>1. b - x <= b - y
    BY <1>2, <1>3
  <2>2. x \in 0 .. b /\ y \in 0 .. b
    OBVIOUS
  <2>. QED
    BY <2>1, <2>2
<1>. QED
  BY <1>4 DEF Max

LEMMA WordStartIs ==
    ASSUME NEW p \in Nat
    PROVE  WordStart(p) \in Nat /\ WordStart(p) <= p
<1>. DEFINE ends == {k \in 0 .. p - 1 : line[k + 1] # Blank}
            e == IF ends = {} THEN 0 ELSE Max(ends)
            gaps == {k \in 0 .. e - 1 : ~(line[k + 1] # Blank)}
            r == IF gaps = {} THEN 0 ELSE Max(gaps) + 1
<1>1. WordStart(p) = r
  BY DEF WordStart
<1>2. e \in Nat /\ e <= p
  <2>1. CASE ends = {}
    BY <2>1
  <2>2. CASE ends # {}
    <3>1. p \in Nat /\ ends \subseteq 0 .. p
      OBVIOUS
    <3>2. Max(ends) \in ends
      <4>. HIDE DEF ends
      <4>. QED
        BY <2>2, <3>1, GreatestNumber
    <3>. QED
      BY <2>2, <3>2
  <2>. QED
    BY <2>1, <2>2
<1>. HIDE DEF e
<1>3. r \in Nat /\ r <= e
  <2>1. CASE gaps = {}
    BY <1>2, <2>1
  <2>2. CASE gaps # {}
    <3>1. e \in Nat /\ gaps \subseteq 0 .. e
      BY <1>2
    <3>2. Max(gaps) \in gaps
      <4>. HIDE DEF gaps
      <4>. QED
        BY <2>2, <3>1, GreatestNumber
    <3>3. Max(gaps) \in 0 .. e - 1
      BY <3>2
    <3>. QED
      BY <1>2, <2>2, <3>3
  <2>. QED
    BY <2>1, <2>2
<1>. QED
  <2>. HIDE DEF r
  <2>. QED
    BY <1>1, <1>2, <1>3

LEMMA NextWordIs ==
    ASSUME NEW p \in Nat, ed.cnt \in Nat
    PROVE  NextWord(p) \in Nat
<1>. DEFINE gaps  == {k \in p .. ed.cnt - 1 : ~(line[k + 1] # Blank)}
            e     == IF gaps = {} THEN ed.cnt ELSE Min(gaps)
            words == {k \in e .. ed.cnt - 1 : line[k + 1] # Blank}
            r     == IF words = {} THEN ed.cnt ELSE Min(words)
<1>1. NextWord(p) = r
  BY DEF NextWord
<1>2. \A T \in SUBSET Nat : T # {} => Min(T) \in Nat
  <2>. SUFFICES ASSUME NEW T \in SUBSET Nat, T # {} PROVE Min(T) \in Nat
    OBVIOUS
  <2>1. P!Min(T) \in T
    BY LeastNumber
  <2>2. Min(T) = P!Min(T)
    BY Zenon DEF Min, P!Min
  <2>. QED
    BY <2>1, <2>2
<1>3. e \in Nat
  <2>1. gaps \in SUBSET Nat
    OBVIOUS
  <2>. HIDE DEF gaps
  <2>. QED
    BY <1>2, <2>1
<1>. HIDE DEF e
<1>4. r \in Nat
  <2>1. words \in SUBSET Nat
    BY <1>3
  <2>. HIDE DEF words
  <2>. QED
    BY <1>2, <2>1
<1>. HIDE DEF r
<1>. QED
  BY <1>1, <1>4

\* There is room for a line behind the prompt of every search
SearchRoom(n) == (MaxSearch + 2) + n \div 3 + 3 <= n

LEMMA SearchPromptIs ==
    ASSUME NEW n \in Nat \ {0}, SearchRoom(n), NEW m \in 0 .. MaxSearch
    PROVE  SearchPrompt(m) \in Seq(Ink) /\ RoomBehind(SearchPrompt(m), n)
<1>. DEFINE a == Times("s", m)
            b == <<"?", Blank>>
            s == a \o b
            c == n \div 3
<1>1. MaxSearch \in Nat /\ m \in Nat /\ m <= MaxSearch /\ c \in Nat
  BY RedrawAssumption
<1>2. a \in Seq(Ink) /\ Len(a) = m
  <2>1. \A x \in Ink : x \in Marks
    BY InkIsMarks
  <2>2. "s" \in Ink /\ m >= 0 /\ m \in Int
    BY <1>1, InkIsMarks
  <2>3. \A x \in Ink : Run(x, m) \in Seq(Ink) /\ Len(Run(x, m)) = m
    BY <1>1, <2>1, RunIsText
  <2>4. \A x : Times(x, m) = Run(x, m)
    BY <2>2, TimesIs
  <2>. QED
    BY <2>2, <2>3, <2>4
<1>3. b \in Seq(Ink) /\ Len(b) = 2
  BY InkIsMarks
<1>. HIDE DEF a, b
<1>4. Joined(s, a, b)
  BY <1>2, <1>3, JoinedIs
<1>5. s \in Seq(Ink) /\ Len(s) = m + 2
  BY <1>2, <1>3, <1>4 DEF Joined
<1>6. (MaxSearch + 2) + c + 3 <= n
  BY DEF SearchRoom
<1>. HIDE DEF c, s
<1>7. (m + 2) + c + 3 <= n
  BY <1>1, <1>6
<1>8. RoomBehind(s, n)
  BY <1>5, <1>7 DEF RoomBehind, c
<1>. QED
  BY <1>5, <1>8 DEF SearchPrompt, s, a, b

LEMMA ShowsFollows ==
    ASSUME NEW n, Begins(n), SearchRoom(n), NEW m \in 0 .. MaxSearch, NEW l \in Seq(Ink),
           NEW at \in Int, Shows(m, l, at)
    PROVE  Follows(n)
<1>. DEFINE p == SearchPrompt(m)
            q == ed.prompt
            r == gl_fixup_scroll(ed, l, p, 0, at, 0)
<1>1. n \in Nat \ {0} /\ termw = n /\ Kept(ed, line, q, n)
  BY DEF Begins, Held
<1>2. p \in Seq(Ink) /\ RoomBehind(p, n)
  BY <1>1, SearchPromptIs
<1>3. Becomes(l, r) /\ searching' = m
  BY DEF Shows
<1>. HIDE DEF p, q
<1>4. Goes(ed, line, r, l, p, Clamped(at, Len(l)), n)
  BY <1>1, <1>2, GoesWhole
<1>. HIDE DEF r
<1>5. Turned(r, l, p, Clamped(at, Len(l)), n) /\ (Shown(ed, line, n) => Shown(r, l, n))
  BY <1>4 DEF Goes
<1>6. /\ line' = l /\ Kept(ed', l, p, n) /\ ed'.prompt = p
      /\ Shown(r, l, n) => Shown(ed', l, n)
  BY <1>1, <1>3, <1>5, BecomesIs
<1>7. searching' \in Int /\ searching' >= -1 /\ searching' # -1
  <2>1. m \in Int /\ m >= 0
    OBVIOUS
  <2>. QED
    BY <1>3, <2>1
<1>8. Held(n)'
  BY <1>6, <1>7 DEF Held
<1>. QED
  BY <1>5, <1>6, <1>8 DEF Follows

LEMMA RecallFollows ==
    ASSUME NEW n, Begins(n), NEW l \in Recallable, Recall(l)
    PROVE  Follows(n)
<1>. DEFINE c == Len(l)
            r == gl_fixup_scroll(ed, l, Prompt, 0, c, 0)
<1>1. /\ n \in Nat \ {0} /\ termw = n /\ Prompt \in Seq(Ink) /\ RoomBehind(Prompt, n)
      /\ Kept(ed, line, Prompt, n)
  BY DEF Begins, Held, PlainLines, Recall
<1>2. l \in Seq(Ink) /\ c \in Int
  <2>1. l \in Seq(Ink)
    BY DEF Begins, PlainLines
  <2>. QED
    BY <2>1
<1>3. Becomes(l, r) /\ searching' = -1
  BY DEF Recall, Control, Fixup
<1>. HIDE DEF c
<1>4. Goes(ed, line, r, l, Prompt, Clamped(c, Len(l)), n)
  BY <1>1, <1>2, GoesWhole
<1>. HIDE DEF r
<1>5. searching' \in Int /\ searching' >= -1
  BY <1>3
<1>. QED
  BY <1>1, <1>3, <1>4, <1>5, ControlIs

LEMMA EndSearchFollows ==
    ASSUME NEW n, Begins(n), EndSearch
    PROVE  Follows(n)
<1>1. n \in Nat \ {0}
  BY DEF Begins
<1>2. Goes(ed, line, Ready, line, Prompt, ed.pos, n)
  BY ReadyKept
<1>3. Becomes(line, Ready) /\ searching' = -1
  BY DEF EndSearch, Control
<1>4. searching' \in Int /\ searching' >= -1
  BY <1>3
<1>. QED
  BY <1>1, <1>2, <1>3, <1>4, ControlIs

\* Every key that does not leave the row
LEMMA KeyInRowFollows ==
    ASSUME NEW n, Begins(n), SearchRoom(n), KeyInRow
    PROVE  Follows(n)
<1>1. ASSUME NEW c \in Typed, AddChar(c) PROVE Follows(n)
  BY <1>1, AddCharFollows
<1>2. CASE Yank
  BY <1>2, YankFollows
<1>3. CASE Transpose
  BY <1>3, TransposeFollows
<1>4. CASE Del(0) \/ Del(-1)
  <2>1. \A loc \in {0, -1} : Del(loc) => Follows(n)
    BY DelFollows
  <2>. QED
    BY <1>4, <2>1
<1>5. CASE KillEnd
  BY <1>5, KillEndFollows
<1>6. CASE KillBegin
  <2>1. ed.pos \in Nat
    BY LineIs
  <2>. DEFINE z == 0
  <2>2. z \in Nat /\ z <= z /\ z <= ed.pos /\ KillPiece(z, z)
    BY <1>6, <2>1 DEF KillBegin
  <2>. HIDE DEF z
  <2>. QED
    BY <2>2, KillFollows
<1>7. CASE KillWord
  <2>1. ed.pos \in Nat
    BY LineIs
  <2>. DEFINE p == ed.pos
              w == WordStart(p)
  <2>2. w \in Nat /\ w <= p
    BY <2>1, WordStartIs
  <2>3. KillPiece(w, p)
    BY <1>7 DEF KillWord
  <2>4. p \in Nat /\ p <= ed.pos
    BY <2>1
  <2>. HIDE DEF p, w
  <2>. QED
    BY <2>2, <2>3, <2>4, KillFollows
<1>8. CASE Move
  <2>1. PICK to \in {0, ed.pos - 1, ed.pos + 1, ed.cnt, WordStart(ed.pos), NextWord(ed.pos)} :
             Control(line, Fixup(Ready, line, -1, to, 0))
    BY <1>8 DEF Move
  <2>2. ed.pos \in Nat /\ ed.cnt \in Nat
    BY LineIs
  <2>3. WordStart(ed.pos) \in Nat /\ NextWord(ed.pos) \in Nat
    BY <2>2, WordStartIs, NextWordIs
  <2>4. to \in Int
    BY <2>2, <2>3
  <2>5. Control(line, gl_fixup_scroll(Ready, line, Prompt, -1, to, 0))
    BY <2>1 DEF Fixup
  <2>. QED
    BY <2>4, <2>5, MoveFollows
<1>9. CASE ToggleOverwrite
  <2>1. /\ line' = line /\ ed' = ed /\ searching' = searching
    BY <1>9 DEF ToggleOverwrite
  <2>. QED
    BY <2>1 DEF Begins, Held, Follows
<1>10. CASE StartSearch
  <2>. DEFINE z == 0
              e == << >>
  <2>1. Shows(z, e, z) /\ z \in 0 .. MaxSearch /\ z \in Int /\ e \in Seq(Ink)
    BY <1>10, RedrawAssumption DEF StartSearch
  <2>. HIDE DEF z, e
  <2>. QED
    BY <2>1, ShowsFollows
<1>11. CASE SearchKey
  <2>. DEFINE z == 0
              e == << >>
  <2>1. PICK m \in {searching - 1, searching, searching + 1} \cap 0 .. MaxSearch,
             l \in Recallable \cup {<< >>} :
               IF l = << >> \/ m = 0 THEN Shows(m, e, z)
               ELSE \E at \in {0, Len(l) - m} : Shows(m, l, at)
    BY <1>11 DEF SearchKey
  <2>2. m \in 0 .. MaxSearch /\ m \in Int /\ l \in Seq(Ink) /\ Len(l) - m \in Int
        /\ z \in Int /\ e \in Seq(Ink)
    <3>1. m \in 0 .. MaxSearch /\ MaxSearch \in Nat
      BY RedrawAssumption
    <3>2. Recallable \subseteq Seq(Ink) /\ e \in Seq(Ink)
      BY DEF Begins, PlainLines
    <3>3. l \in Seq(Ink)
      BY <3>2
    <3>. QED
      BY <3>1, <3>2, <3>3
  <2>. HIDE DEF z, e
  <2>3. CASE l = << >> \/ m = 0
    <3>1. Shows(m, e, z)
      BY <2>1, <2>3
    <3>. QED
      BY <2>2, <3>1, ShowsFollows
  <2>4. CASE ~(l = << >> \/ m = 0)
    <3>1. PICK at \in {0, Len(l) - m} : Shows(m, l, at)
      BY <2>1, <2>4
    <3>2. at \in Int
      BY <2>2
    <3>. QED
      BY <2>2, <3>1, <3>2, ShowsFollows
  <2>. QED
    BY <2>3, <2>4
<1>12. CASE EndSearch
  BY <1>12, EndSearchFollows
<1>13. ASSUME NEW l \in Recallable, Recall(l) PROVE Follows(n)
  BY <1>13, RecallFollows
<1>. QED
  BY <1>1, <1>2, <1>3, <1>4, <1>5, <1>6, <1>7, <1>8, <1>9, <1>10, <1>11, <1>12, <1>13 DEF KeyInRow

LEMMA NewRowIs ==
    ASSUME NEW n \in Nat \ {0}, NEW d \in Editors, Screen(d.tty, n)
    PROVE  /\ OnNewRow(d) \in Editors /\ Screen(OnNewRow(d).tty, n)
           /\ Clear(OnNewRow(d).tty, 0, n)
<1>. DEFINE t == Fresh(n)
            r == [d EXCEPT !.tty = t]
<1>1. OnNewRow(d) = r
  BY DEF OnNewRow, Screen
<1>2. Screen(t, n) /\ t \in Ttys
  BY FreshScreen DEF Screen, Ttys
<1>3. \A k \in 1 .. n : t.row[k] = Blank
  BY DEF Fresh, BlankRow
<1>. HIDE DEF t
<1>4. r \in Editors /\ r.tty = t
  BY <1>2, SetTty, EditorWith
<1>5. Clear(t, 0, n)
  BY <1>3 DEF Clear
<1>. HIDE DEF r
<1>. QED
  BY <1>1, <1>2, <1>4, <1>5

\* The line on a row of its own
LEMMA DrawnAfresh ==
    ASSUME NEW n \in Nat \ {0}, termw = n, PlainLines, RoomBehind(Prompt, n),
           NEW d \in Editors, Screen(d.tty, n), NEW l \in Seq(Ink), NEW cursor \in Int,
           NEW x, x = Fixup(OnNewRow(d), l, -2, cursor, 0)
    PROVE  Turned(x, l, Prompt, Clamped(cursor, Len(l)), n) /\ Shown(x, l, n)
<1>. DEFINE b == OnNewRow(d)
<1>1. b \in Editors /\ Screen(b.tty, n) /\ Clear(b.tty, 0, n) /\ Prompt \in Seq(Ink)
  BY NewRowIs DEF PlainLines
<1>2. x = gl_fixup_scroll(b, l, Prompt, -2, cursor, 0)
  BY DEF Fixup
<1>. HIDE DEF b
<1>. QED
  BY <1>1, <1>2, GoesFresh

\* What a key must achieve that starts a new row
Redone(n) == Held(n)' /\ Shown(ed', line', n)

LEMMA RedoneIs ==
    ASSUME NEW n \in Nat \ {0}, NEW d, NEW l, NEW to, Turned(d, l, Prompt, to, n), Shown(d, l, n),
           Becomes(l, d), searching' \in Int, searching' >= -1
    PROVE  Redone(n)
<1>1. /\ line' = l /\ Kept(ed', l, Prompt, n) /\ ed'.prompt = Prompt
      /\ Shown(d, l, n) => Shown(ed', l, n)
  BY BecomesIs
<1>2. Held(n)'
  BY <1>1 DEF Held
<1>. QED
  BY <1>1, <1>2 DEF Redone

LEMMA StartRedone ==
    ASSUME NEW n \in Nat \ {0}, termw = n, PlainLines, RoomBehind(Prompt, n),
           ed \in Editors, Screen(ed.tty, n), searching \in Int, searching >= -1, Start
    PROVE  Redone(n)
<1>. DEFINE l == << >>
            z == 0
            x == Fixup(OnNewRow(ed), l, -2, z, 0)
<1>1. l \in Seq(Ink) /\ z \in Int /\ Becomes(l, x) /\ searching' = searching
  BY DEF Start
<1>. HIDE DEF l, z
<1>2. Turned(x, l, Prompt, Clamped(z, Len(l)), n) /\ Shown(x, l, n)
  BY <1>1, DrawnAfresh
<1>. HIDE DEF x
<1>3. searching' \in Int /\ searching' >= -1
  BY <1>1
<1>. QED
  BY <1>1, <1>2, <1>3, RedoneIs

LEMMA AfreshRedone ==
    ASSUME NEW n, Begins(n), NEW d \in Editors, Screen(d.tty, n), NEW l \in Seq(Ink),
           NEW cursor \in Int, Becomes(l, Fixup(OnNewRow(d), l, -2, cursor, 0)),
           searching' \in {-1, searching}
    PROVE  Redone(n)
<1>. DEFINE x == Fixup(OnNewRow(d), l, -2, cursor, 0)
<1>1. n \in Nat \ {0} /\ termw = n /\ PlainLines /\ RoomBehind(Prompt, n)
  BY DEF Begins
<1>2. Turned(x, l, Prompt, Clamped(cursor, Len(l)), n) /\ Shown(x, l, n)
  BY <1>1, DrawnAfresh
<1>3. searching' \in Int /\ searching' >= -1
  BY DEF Begins, Held
<1>. QED
  BY <1>1, <1>2, <1>3, RedoneIs

LEMMA InterruptRedone ==
    ASSUME NEW n, Begins(n), Interrupt
    PROVE  Redone(n)
<1>. DEFINE d == Ready
            c == ed.pos
            x == Fixup(OnNewRow(d), line, -2, c, 0)
<1>1. /\ n \in Nat \ {0} /\ termw = n /\ PlainLines /\ RoomBehind(Prompt, n) /\ Prompt \in Seq(Ink)
  BY DEF Begins, PlainLines
<1>2. line \in Seq(Ink) /\ c \in Int
  BY LineIs
<1>3. d \in Editors /\ Screen(d.tty, n)
  BY ReadyKept DEF Kept
<1>4. KillAll(x)
  BY DEF Interrupt
<1>. HIDE DEF d, c
<1>5. Turned(x, line, Prompt, Clamped(c, Len(line)), n) /\ Shown(x, line, n)
  BY <1>1, <1>2, <1>3, DrawnAfresh
<1>. HIDE DEF x
<1>6. CASE x.cnt = 0
  <2>1. Becomes(line, x) /\ searching' = -1
    BY <1>4, <1>6 DEF KillAll, Control
  <2>2. searching' \in Int /\ searching' >= -1
    BY <2>1
  <2>. QED
    BY <1>1, <1>5, <2>1, <2>2, RedoneIs
<1>7. CASE x.cnt # 0
  <2>. DEFINE l == << >>
              z == 0
              y == gl_fixup_scroll(x, l, Prompt, 0, z, 0)
  <2>1. Becomes(l, y) /\ searching' = -1 /\ l \in Seq(Ink) /\ z \in Int
    BY <1>4, <1>7 DEF KillAll, Control, Fixup
  <2>2. Kept(x, line, Prompt, n)
    BY <1>5 DEF Turned
  <2>. HIDE DEF l, z
  <2>3. Goes(x, line, y, l, Prompt, Clamped(z, Len(l)), n)
    BY <1>1, <2>1, <2>2, GoesWhole
  <2>. HIDE DEF y
  <2>4. Turned(y, l, Prompt, Clamped(z, Len(l)), n) /\ Shown(y, l, n)
    BY <1>5, <2>3 DEF Goes
  <2>5. searching' \in Int /\ searching' >= -1
    BY <2>1
  <2>. QED
    BY <1>1, <2>1, <2>4, <2>5, RedoneIs
<1>. QED
  BY <1>6, <1>7

LEMMA CompleteRedone ==
    ASSUME NEW n, Begins(n), NEW c \in Typed, Complete(c)
    PROVE  Redone(n)
<1>. DEFINE p == ed.pos
            s == <<c>>
            l == Inserted(s, p)
            q == p + 1
            d == Ready
<1>1. line \in Seq(Ink) /\ p \in Nat /\ p <= Len(line) /\ q \in Int
  BY LineIs
<1>2. s \in Seq(Ink)
  <2>1. c \in Ink
    BY DEF Begins, PlainLines
  <2>. QED
    BY <2>1, InkCharacter
<1>3. d \in Editors /\ Screen(d.tty, n)
  BY ReadyKept DEF Kept
<1>4. Becomes(l, Fixup(OnNewRow(d), l, -2, q, 0)) /\ searching' \in {-1, searching}
  BY DEF Complete, Control
<1>5. l = Spliced(line, s, p, p)
  BY DEF Inserted, Spliced
<1>. HIDE DEF p, s, q, l, d
<1>6. l \in Seq(Ink)
  <2>1. Inserts(l, line, s, p)
    BY <1>1, <1>2, <1>5, InsertAgrees
  <2>. QED
    BY <2>1 DEF Inserts
<1>. QED
  BY <1>1, <1>3, <1>4, <1>6, AfreshRedone

\* Every key after which the line is on a row of its own
LEMMA KeyOnNewRowRedone ==
    ASSUME NEW n, Begins(n), KeyOnNewRow
    PROVE  Redone(n)
<1>1. CASE DrawAgain
  <2>. DEFINE d == Ready
              c == ed.pos
  <2>1. d \in Editors /\ Screen(d.tty, n)
    BY ReadyKept DEF Kept
  <2>2. line \in Seq(Ink) /\ c \in Int
    BY LineIs
  <2>3. Becomes(line, Fixup(OnNewRow(d), line, -2, c, 0)) /\ searching' \in {-1, searching}
    BY <1>1 DEF DrawAgain, Control
  <2>. HIDE DEF d, c
  <2>. QED
    BY <2>1, <2>2, <2>3, AfreshRedone
<1>2. CASE Help
  <2>. DEFINE c == ed.pos
  <2>1. ed \in Editors /\ Screen(ed.tty, n) /\ line \in Seq(Ink) /\ c \in Int
    BY LineIs
  <2>2. Becomes(line, Fixup(OnNewRow(ed), line, -2, c, 0)) /\ searching' \in {-1, searching}
    BY <1>2 DEF Help
  <2>. HIDE DEF c
  <2>. QED
    BY <2>1, <2>2, AfreshRedone
<1>3. CASE Interrupt
  BY <1>3, InterruptRedone
<1>4. ASSUME NEW c \in Typed, Complete(c) PROVE Redone(n)
  BY <1>4, CompleteRedone
<1>. QED
  BY <1>1, <1>2, <1>3, <1>4 DEF KeyOnNewRow

----------------------------------------------------------------------------
(***************************************************************************)
(* The steps of Terminal                                                   *)
(***************************************************************************)
\* There is room for a line behind each prompt, in every window
RoomToEdit == \A w \in Windows : RoomBehind(Prompt, w[1]) /\ SearchRoom(w[1])

\* In every state: what the editor knows is true of the row
RowHolds ==
    /\ \E w \in Windows : termw = w[1]
    /\ searching \in Int /\ searching >= -1
    /\ ed \in Editors /\ Screen(ed.tty, termw)
    /\ phase # "command" => /\ Held(termw)
                            /\ ~disturbed => Shown(ed, line, termw)

LEMMA WindowIs ==
    ASSUME WideWindows, NEW w \in Windows
    PROVE  w[1] \in Nat \ {0} /\ WidthFor(w[1]) = w[1]
<1>1. w[1] \in Nat \ {0} /\ MinWidth \in Nat \ {0} /\ w[1] >= MinWidth
  BY TerminalAssumption DEF WideWindows
<1>. DEFINE c == w[1]
<1>2. c \in Int /\ MinWidth \in Int /\ c # 0 /\ c >= MinWidth
  BY <1>1
<1>. HIDE DEF c
<1>3. Max({c, MinWidth}) = c
  BY <1>2, LesserNumber
<1>4. WidthFor(c) = c
  BY <1>2, <1>3 DEF WidthFor
<1>. QED
  BY <1>1, <1>4 DEF c

LEMMA NotDrawnIs ==
    ASSUME NEW n \in Nat \ {0}
    PROVE  /\ NotDrawn(n) \in Editors /\ Screen(NotDrawn(n).tty, n)
           /\ [NotDrawn(n) EXCEPT !.tty.down = 0] \in Editors
           /\ Screen([NotDrawn(n) EXCEPT !.tty.down = 0].tty, n)
<1>. DEFINE t == Fresh(n)
            e == << >>
            d == [pos |-> 0, cnt |-> 0, shift |-> 0, left |-> FALSE, right |-> FALSE,
                  width |-> 0, prompt |-> e, tty |-> t]
            u == [t EXCEPT !.down = 0]
<1>1. Screen(t, n)
  BY FreshScreen
<1>2. t \in Ttys
  BY <1>1 DEF Screen, Ttys
<1>3. Screen(u, n)
  BY <1>1, DownReset DEF LooksLike
<1>4. u \in Ttys /\ e \in Seq(Ink)
  BY <1>3 DEF Screen, Ttys
<1>5. NotDrawn(n) = d
  BY DEF NotDrawn
<1>. HIDE DEF t, e
<1>6. d \in Editors /\ d.tty = t
  BY <1>2, <1>4 DEF Editors
<1>7. [d EXCEPT !.tty.down = 0] = [d EXCEPT !.tty = u]
  BY <1>6
<1>. HIDE DEF d, u
<1>8. [d EXCEPT !.tty = u] \in Editors /\ [d EXCEPT !.tty = u].tty = u
  BY <1>4, <1>6, SetTty, EditorWith
<1>. QED
  BY <1>1, <1>3, <1>5, <1>6, <1>7, <1>8

\* The window keeps its width
LEMMA ResizedSame ==
    ASSUME NEW n \in Nat \ {0}, NEW t, Screen(t, n)
    PROVE  LooksLike(Resized(t, n), t, n) /\ Resized(t, n).full = FALSE
<1>. DEFINE row == [c \in 1 .. n |-> IF c <= Len(t.row) THEN t.row[c] ELSE Blank]
            r == Resized(t, n)
<1>1. /\ t \in [row : Seq(Marks), col : Nat, full : BOOLEAN, down : Nat]
      /\ t.col \in Nat /\ Len(t.row) = n /\ t.col < n
  BY DEF Screen
<1>2. r = [t EXCEPT !.row = row, !.col = t.col, !.full = FALSE]
  BY <1>1 DEF Resized
<1>3. Screen(r, n) /\ r.full = FALSE
  BY ResizedIs
<1>4. r.row = row /\ r.col = t.col
  BY <1>1, <1>2
<1>. HIDE DEF r
<1>5. \A k \in 1 .. n : r.row[k] = t.row[k]
  BY <1>1, <1>4
<1>6. LooksLike(r, t, n)
  BY <1>3, <1>4, <1>5 DEF LooksLike
<1>. QED
  BY <1>3, <1>6 DEF r

LEMMA RowInit ==
    ASSUME WideWindows, Init
    PROVE  RowHolds
<1>1. PICK w \in Windows : /\ termw = WidthFor(w[1]) /\ searching = -1 /\ ed = NotDrawn(w[1])
                           /\ phase = "command"
  BY DEF Init
<1>2. w[1] \in Nat \ {0} /\ termw = w[1]
  BY <1>1, WindowIs
<1>3. ed \in Editors /\ Screen(ed.tty, termw)
  BY <1>1, <1>2, NotDrawnIs
<1>. QED
  BY <1>1, <1>2, <1>3 DEF RowHolds

LEMMA RowNumbers ==
    ASSUME WideWindows, RoomToEdit, RowHolds
    PROVE  termw \in Nat \ {0} /\ RoomBehind(Prompt, termw) /\ SearchRoom(termw)
<1>1. PICK w \in Windows : termw = w[1]
  BY DEF RowHolds
<1>2. w[1] \in Nat \ {0}
  BY WindowIs
<1>. QED
  BY <1>1, <1>2 DEF RoomToEdit

LEMMA RowSame ==
    ASSUME RowHolds, UNCHANGED <<redrawVars, phase, disturbed>>
    PROVE  RowHolds'
BY DEF RowHolds, redrawVars, Held

LEMMA RowRead ==
    ASSUME PlainLines, WideWindows, RoomToEdit, RowHolds, KeyRead
    PROVE  RowHolds'
<1>0. PICK w \in Windows : termw = w[1]
  BY DEF RowHolds
<1>. DEFINE n == w[1]
<1>1. n \in Nat \ {0} /\ RoomBehind(Prompt, n) /\ SearchRoom(n)
  BY <1>0, RowNumbers
<1>2. phase = "read" /\ Held(n) /\ (~disturbed => Shown(ed, line, n))
  BY <1>0 DEF KeyRead, RowHolds
<1>3. Begins(n)
  BY <1>0, <1>1, <1>2 DEF Begins
<1>4. CASE KeyInRow /\ UNCHANGED disturbed
  <2>1. termw' = n
    BY <1>0, <1>4 DEF KeyInRow, AddChar, Adds, Becomes, Yank, Transpose, Del, KillEnd, KillBegin,
                KillWord, KillPiece, Killed, Move, ToggleOverwrite, StartSearch, SearchKey, EndSearch,
                Recall, Control, Shows
  <2>2. Follows(n)
    BY <1>1, <1>3, <1>4, KeyInRowFollows
  <2>3. Held(n)' /\ (Shown(ed, line, n) => Shown(ed', line', n))
    BY <2>2 DEF Follows
  <2>4. ed' \in Editors /\ Screen(ed'.tty, n) /\ searching' \in Int /\ searching' >= -1
    BY <2>3 DEF Held, Kept
  <2>5. ~disturbed' => Shown(ed', line', n)
    BY <1>2, <1>4, <2>3
  <2>. QED
    BY <2>1, <2>3, <2>4, <2>5 DEF RowHolds
<1>5. CASE KeyOnNewRow /\ disturbed' = FALSE
  <2>1. termw' = n
    BY <1>0, <1>5 DEF KeyOnNewRow, DrawAgain, Help, Interrupt, KillAll, Complete, Control, Becomes
  <2>2. Redone(n)
    BY <1>3, <1>5, KeyOnNewRowRedone
  <2>3. Held(n)' /\ Shown(ed', line', n)
    BY <2>2 DEF Redone
  <2>4. ed' \in Editors /\ Screen(ed'.tty, n) /\ searching' \in Int /\ searching' >= -1
    BY <2>3 DEF Held, Kept
  <2>. QED
    BY <2>1, <2>3, <2>4 DEF RowHolds
<1>. QED
  BY <1>4, <1>5 DEF KeyRead

LEMMA RowGetLine ==
    ASSUME PlainLines, WideWindows, RoomToEdit, RowHolds, GetLine
    PROVE  RowHolds'
<1>1. PICK w \in Windows : termw = w[1]
  BY DEF RowHolds
<1>. DEFINE n == w[1]
<1>2. n \in Nat \ {0} /\ RoomBehind(Prompt, n)
  BY <1>1, RowNumbers
<1>3. Start /\ termw' = n
  BY <1>1 DEF GetLine, Start, Becomes
<1>4. ed \in Editors /\ Screen(ed.tty, n) /\ searching \in Int /\ searching >= -1
  BY <1>1 DEF RowHolds
<1>5. Redone(n)
  BY <1>1, <1>2, <1>3, <1>4, StartRedone
<1>6. Held(n)' /\ Shown(ed', line', n)
  BY <1>5 DEF Redone
<1>7. ed' \in Editors /\ Screen(ed'.tty, n) /\ searching' \in Int /\ searching' >= -1
  BY <1>6 DEF Held, Kept
<1>. QED
  BY <1>3, <1>6, <1>7 DEF RowHolds

LEMMA RowEndLine ==
    ASSUME WideWindows, RowHolds, EndLine
    PROVE  RowHolds'
<1>1. PICK w \in Windows : termw = w[1]
  BY DEF RowHolds
<1>. DEFINE n == w[1]
            d == NotDrawn(n)
            u == [d EXCEPT !.tty.down = 0]
<1>2. n \in Nat \ {0}
  BY WindowIs
<1>3. Len(ed.tty.row) = n
  BY <1>1 DEF RowHolds, Screen
<1>4. Control(<< >>, d) /\ phase' = "command"
  BY <1>3 DEF EndLine, Newline
<1>5. u \in Editors /\ Screen(u.tty, n)
  BY <1>2, NotDrawnIs
<1>. HIDE DEF d
<1>6. ed' = u /\ termw' = termw /\ searching' = -1
  BY <1>4 DEF Control, Becomes
<1>. QED
  BY <1>1, <1>4, <1>5, <1>6 DEF RowHolds

\* A change of the window leaves what is known of the line; and what is drawn,
\* unless it is a change of the width
LEMMA RowWinch ==
    ASSUME WideWindows, RowHolds, Winch
    PROVE  RowHolds'
<1>1. PICK v \in Windows : termw = v[1]
  BY DEF RowHolds
<1>2. PICK w \in Windows : /\ termw' = WidthFor(w[1])
                           /\ ed' = [ed EXCEPT !.tty = Resized(@, w[1])]
                           /\ disturbed' = (disturbed \/ (phase # "command" /\ w[1] # Len(ed.tty.row)))
  BY DEF Winch
<1>. DEFINE n == v[1]
            m == w[1]
            t == Resized(ed.tty, m)
            p == ed.prompt
<1>3. n \in Nat \ {0} /\ m \in Nat \ {0} /\ termw' = m
  BY <1>2, WindowIs
<1>4. /\ line' = line /\ searching' = searching
      /\ phase = "command" <=> phase' = "command"
  BY DEF Winch
<1>5. ed \in Editors /\ Screen(ed.tty, n) /\ Len(ed.tty.row) = n
  BY <1>1 DEF RowHolds, Screen
<1>6. Screen(t, m)
  BY <1>3, <1>5, ResizedIs
<1>7. n = m => LooksLike(t, ed.tty, n) /\ t.full = FALSE
  <2>. SUFFICES ASSUME n = m PROVE LooksLike(Resized(ed.tty, n), ed.tty, n) /\ Resized(ed.tty, n).full = FALSE
    OBVIOUS
  <2>. QED
    BY <1>3, <1>5, ResizedSame
<1>8. ed' = [ed EXCEPT !.tty = t]
  BY <1>2
<1>. HIDE DEF t
<1>9. ed' \in Editors /\ ed'.tty = t /\ ed'.prompt = p
  <2>1. t \in Ttys
    BY <1>6 DEF Screen, Ttys
  <2>. QED
    BY <1>5, <1>8, <2>1, SetTty, EditorWith
<1>. HIDE DEF p
<1>10. ASSUME phase # "command"
       PROVE  Held(m)'
  <2>1. Held(n)
    BY <1>1, <1>10 DEF RowHolds
  <2>2. Kept(ed, line, p, n) /\ (searching = -1 => p = Prompt)
    BY <2>1 DEF Held, p
  <2>3. Kept([ed EXCEPT !.tty = t], line, p, m)
    BY <1>3, <1>6, <2>2, ResizedKept
  <2>4. Kept(ed', line', ed'.prompt, m)
    BY <1>4, <1>8, <1>9, <2>3
  <2>5. searching \in Int /\ searching >= -1
    BY DEF RowHolds
  <2>. QED
    BY <1>4, <1>9, <2>2, <2>4, <2>5 DEF Held
<1>11. ASSUME phase # "command", ~disturbed'
       PROVE  Shown(ed', line', m)
  <2>1. n = m /\ ~disturbed
    BY <1>2, <1>5, <1>11
  <2>2. Shown(ed, line, n)
    BY <1>1, <1>11, <2>1 DEF RowHolds
  <2>3. LooksLike(t, ed.tty, n) /\ t.full = FALSE
    BY <1>7, <2>1
  <2>4. Shown([ed EXCEPT !.tty = t], line, n)
    BY <1>3, <2>2, <2>3, SameShown
  <2>. QED
    BY <1>4, <1>8, <2>1, <2>4
<1>12. searching' \in Int /\ searching' >= -1
  BY <1>4 DEF RowHolds
<1>. QED
  BY <1>3, <1>4, <1>6, <1>9, <1>10, <1>11, <1>12 DEF RowHolds

LEMMA RowNext ==
    ASSUME PlainLines, WideWindows, RoomToEdit, RowHolds, [Next]_vars
    PROVE  RowHolds'
<1>1. CASE Output \/ Page \/ Register \/ SelectReturns \/ UNCHANGED vars
  <2>1. UNCHANGED <<redrawVars, phase, disturbed>>
    BY <1>1 DEF Output, Page, Register, SelectReturns, vars
  <2>. QED
    BY <2>1, RowSame
<1>2. CASE Callbacks \/ CallbackFails
  <2>1. UNCHANGED <<redrawVars, disturbed>> /\ phase = "select"
    BY <1>2 DEF Callbacks, CallbackFails
  <2>. QED
    BY <2>1 DEF RowHolds, redrawVars, Held
<1>3. CASE GetLine
  BY <1>3, RowGetLine
<1>4. CASE KeyRead
  BY <1>4, RowRead
<1>5. CASE EndLine
  BY <1>5, RowEndLine
<1>6. CASE Winch
  BY <1>6, RowWinch
<1>. QED
  BY <1>1, <1>2, <1>3, <1>4, <1>5, <1>6 DEF Next

\* What gl_fixup knows of the row is so in every state
THEOREM RowInductive == PlainLines /\ WideWindows /\ RoomToEdit => (Spec => []RowHolds)
<1>. SUFFICES ASSUME PlainLines, WideWindows, RoomToEdit PROVE Spec => []RowHolds
  OBVIOUS
<1>1. Init => RowHolds
  BY RowInit
<1>2. RowHolds /\ [Next]_vars => RowHolds'
  BY RowNext
<1>. QED
  BY <1>1, <1>2, PTL DEF Spec

----------------------------------------------------------------------------
(***************************************************************************)
(* What is known of the row is what ScreenShowsLine says of it.            *)
(***************************************************************************)
\* What fits into m columns, from character s on
PartOf(l, s, m) ==
    LET rest == Piece(l, s, Len(l))
    IN  IF Len(rest) > m THEN Piece(rest, 0, m - 1) \o <<Marker>> ELSE rest

\* The part, and the marker for what is before it
Columned(q, l, s, m) ==
    /\ q \in Seq(Ink) /\ Len(q) = (IF Len(l) - s > m THEN m ELSE Len(l) - s)
    /\ \A k \in 1 .. Len(q) :
         q[k] = IF k = 1 /\ s > 0 THEN Marker
                ELSE IF Len(l) - s > m /\ k = m THEN Marker ELSE l[s + k]

LEMMA PartIs ==
    ASSUME NEW l \in Seq(Ink), NEW s \in Nat, NEW m \in Nat, m >= 2, s <= Len(l)
    PROVE  /\ PartOf(l, s, m) \in Seq(Ink)
           /\ Len(PartOf(l, s, m)) = (IF Len(l) - s > m THEN m ELSE Len(l) - s)
           /\ \A k \in 1 .. Len(PartOf(l, s, m)) :
                PartOf(l, s, m)[k] = IF Len(l) - s > m /\ k = m THEN Marker ELSE l[s + k]
<1>. DEFINE c == Len(l)
            r == Piece(l, s, c)
            f == Piece(r, 0, m - 1)
            q == PartOf(l, s, m)
<1>1. c \in Nat /\ s <= c /\ c <= Len(l) /\ c = Len(l)
  OBVIOUS
<1>. HIDE DEF c
<1>2. r \in Seq(Ink) /\ Len(r) = c - s /\ \A k \in 1 .. c - s : r[k] = l[s + k]
  <2>1. /\ Piece(l, s, c) \in Seq(Ink) /\ Len(Piece(l, s, c)) = c - s
        /\ \A k \in 1 .. c - s : Piece(l, s, c)[k] = l[s + k]
    BY <1>1, PieceIs
  <2>2. r = Piece(l, s, c)
    BY <1>1
  <2>. QED
    BY <2>1, <2>2
<1>3. Marker \in Ink
  BY InkIsMarks
<1>. HIDE DEF r
<1>4. CASE c - s > m
  <2>. DEFINE z == 0
              e == m - 1
  <2>1. z \in Nat /\ z = 0 /\ e \in Nat /\ z <= e /\ e <= Len(r) /\ e - z = e
    BY <1>1, <1>2, <1>4
  <2>2. f = Piece(r, z, e)
    OBVIOUS
  <2>. HIDE DEF z, e, f
  <2>3. f \in Seq(Ink) /\ Len(f) = e /\ \A k \in 1 .. e : f[k] = r[z + k]
    <3>0. r \in Seq(Ink) /\ z \in Nat /\ e \in Nat /\ z <= e /\ e <= Len(r)
      BY <1>2, <2>1
    <3>1. /\ Piece(r, z, e) \in Seq(Ink) /\ Len(Piece(r, z, e)) = e - z
          /\ \A k \in 1 .. e - z : Piece(r, z, e)[k] = r[z + k]
      BY ONLY <3>0, PieceIs
    <3>. QED
      BY <2>1, <2>2, <3>1
  <2>4. q = f \o <<Marker>>
    BY <1>2, <1>4 DEF PartOf, c, r, f, e
  <2>5. e + 1 = m /\ \A k \in 1 .. m : k = m \/ (k \in 1 .. e /\ k \in 1 .. c - s /\ z + k = k /\ k # m)
    BY <1>1, <1>4, <2>1 DEF e
  <2>6. q \in Seq(Ink) /\ Len(q) = m
    BY <1>3, <2>3, <2>4, <2>5
  <2>7. \A k \in 1 .. m : q[k] = IF k = m THEN Marker ELSE f[k]
    BY <1>3, <2>3, <2>4, <2>5
  <2>. HIDE DEF q
  <2>8. ASSUME NEW k \in 1 .. m PROVE q[k] = IF k = m THEN Marker ELSE l[s + k]
    <3>1. CASE k = m
      BY <2>7, <3>1
    <3>2. CASE k # m
      <4>1. k \in 1 .. e /\ k \in 1 .. c - s /\ z + k = k
        BY <2>5, <3>2
      <4>2. f[k] = r[k] /\ r[k] = l[s + k]
        BY <1>2, <2>3, <4>1
      <4>. QED
        BY <2>7, <3>2, <4>2
    <3>. QED
      BY <3>1, <3>2
  <2>. QED
    BY <1>4, <2>6, <2>8 DEF c, q
<1>5. CASE ~(c - s > m)
  <2>1. q = r
    BY <1>2, <1>5 DEF PartOf, c, r
  <2>. HIDE DEF q
  <2>. QED
    BY <1>2, <1>5, <2>1 DEF c, q
<1>. QED
  BY <1>4, <1>5

LEMMA MarkedTail ==
    ASSUME NEW q \in Seq(Ink), Len(q) >= 1
    PROVE  /\ <<Marker>> \o Tail(q) \in Seq(Ink) /\ Len(<<Marker>> \o Tail(q)) = Len(q)
           /\ \A k \in 1 .. Len(q) : (<<Marker>> \o Tail(q))[k] = IF k = 1 THEN Marker ELSE q[k]
<1>1. Marker \in Ink
  BY InkIsMarks
<1>. DEFINE t == Tail(q)
            c == Len(q)
<1>2. t \in Seq(Ink) /\ Len(t) = c - 1 /\ c \in Nat /\ c >= 1 /\ \A k \in 1 .. c - 1 : t[k] = q[k + 1]
  OBVIOUS
<1>. HIDE DEF t, c
<1>. DEFINE u == <<Marker>> \o t
<1>3. u \in Seq(Ink) /\ Len(u) = c /\ \A k \in 1 .. c : u[k] = IF k = 1 THEN Marker ELSE t[k - 1]
  BY <1>1, <1>2
<1>. HIDE DEF u
<1>4. \A k \in 1 .. c : k # 1 => k - 1 \in 1 .. c - 1 /\ (k - 1) + 1 = k
  BY <1>2
<1>5. \A k \in 1 .. c : u[k] = IF k = 1 THEN Marker ELSE q[k]
  BY <1>2, <1>3, <1>4
<1>. QED
  BY <1>3, <1>5 DEF u, t, c

LEMMA PieceFromIs ==
    ASSUME line \in Seq(Ink), NEW s \in Nat, Room \in Nat, Room >= 2,
           s <= Len(line), s > 0 => s < Len(line)
    PROVE  Columned(PieceFrom(s), line, s, Room)
<1>. DEFINE m == Room
            l == line
            q == PartOf(l, s, m)
            c == Len(l)
            u == <<Marker>> \o Tail(q)
<1>0. c \in Nat /\ l \in Seq(Ink) /\ m \in Nat /\ m >= 2 /\ s <= c /\ (s > 0 => s < c)
  OBVIOUS
<1>1. PieceFrom(s) = IF s = 0 THEN q ELSE u
  BY DEF PieceFrom, PartOf
<1>. HIDE DEF m, l
<1>2. /\ q \in Seq(Ink) /\ Len(q) = (IF c - s > m THEN m ELSE c - s)
      /\ \A k \in 1 .. Len(q) : q[k] = IF c - s > m /\ k = m THEN Marker ELSE l[s + k]
  BY <1>0, PartIs
<1>. HIDE DEF q, c
<1>3. CASE s = 0
  <2>1. PieceFrom(s) = q /\ ~(s > 0)
    BY <1>1, <1>3
  <2>2. Columned(q, l, s, m)
    BY <1>2, <2>1 DEF Columned, c
  <2>. QED
    BY <2>1, <2>2 DEF l, m
<1>4. CASE s > 0
  <2>1. PieceFrom(s) = u
    BY <1>1, <1>4
  <2>2. Len(q) >= 1
    BY <1>0, <1>2, <1>4
  <2>3. /\ u \in Seq(Ink) /\ Len(u) = Len(q)
        /\ \A k \in 1 .. Len(q) : u[k] = IF k = 1 THEN Marker ELSE q[k]
    BY <1>2, <2>2, MarkedTail
  <2>. HIDE DEF u
  <2>4. Columned(u, l, s, m)
    BY <1>2, <1>4, <2>3 DEF Columned, c
  <2>. QED
    BY <2>1, <2>4 DEF l, m
<1>. QED
  BY <1>3, <1>4

\* The same for the row of the terminal
LEMMA RowPiece ==
    ASSUME NEW r \in Seq(Marks), NEW e \in Nat, e <= Len(r)
    PROVE  /\ Piece(r, 0, e) \in Seq(Marks) /\ Len(Piece(r, 0, e)) = e
           /\ \A k \in 1 .. e : Piece(r, 0, e)[k] = r[k]
<1>1. Piece(r, 0, e) = [k \in 1 .. e |-> r[k]]
  <2>1. Piece(r, 0, e) = SubSeq(r, 1, e)
    BY DEF Piece
  <2>2. SubSeq(r, 1, e) = [k \in 1 .. (1 + e - 1) |-> r[k + 1 - 1]]
    OBVIOUS
  <2>3. 1 + e - 1 = e /\ \A k \in 1 .. e : k + 1 - 1 = k
    OBVIOUS
  <2>. QED
    BY <2>1, <2>2, <2>3
<1>2. \A k \in 1 .. e : r[k] \in Marks
  OBVIOUS
<1>3. [k \in 1 .. e |-> r[k]] \in Seq(Marks) /\ Len([k \in 1 .. e |-> r[k]]) = e
  BY <1>2
<1>. QED
  BY <1>1, <1>3

\* A prompt, a text, and blanks
LEMMA Padded ==
    ASSUME NEW p \in Seq(Ink), NEW q \in Seq(Ink), NEW m \in Nat, Len(q) <= m
    PROVE  /\ p \o q \o Times(Blank, m - Len(q)) \in Seq(Marks)
           /\ Len(p \o q \o Times(Blank, m - Len(q))) = Len(p) + m
           /\ \A k \in 1 .. Len(p) : (p \o q \o Times(Blank, m - Len(q)))[k] = p[k]
           /\ \A k \in 1 .. m : (p \o q \o Times(Blank, m - Len(q)))[Len(p) + k]
                                = IF k <= Len(q) THEN q[k] ELSE Blank
<1>. DEFINE a == Len(p)
            c == Len(q)
            b == Times(Blank, m - c)
            g == p \o q \o b
<1>1. a \in Nat /\ c \in Nat /\ c <= m /\ m - c \in Nat /\ m - c \in Int /\ m - c >= 0
      /\ a = Len(p) /\ c = Len(q)
  OBVIOUS
<1>2. p \in Seq(Marks) /\ q \in Seq(Marks) /\ Blank \in Marks
  BY InkText, InkIsMarks
<1>. HIDE DEF a, c
<1>3. b \in Seq(Marks) /\ Len(b) = m - c /\ \A k \in 1 .. m - c : b[k] = Blank
  <2>1. b = Run(Blank, m - c)
    BY <1>1, TimesIs
  <2>. DEFINE h == m - c
  <2>2. h \in Nat
    BY <1>1
  <2>. HIDE DEF h
  <2>3. [k \in 1 .. h |-> Blank] \in Seq(Marks) /\ Len([k \in 1 .. h |-> Blank]) = h
        /\ \A k \in 1 .. h : [j \in 1 .. h |-> Blank][k] = Blank
    BY <1>2, <2>2
  <2>. QED
    BY <2>1, <2>3 DEF Run, h
<1>. HIDE DEF b
<1>4. g \in Seq(Marks) /\ Len(g) = a + c + (m - c)
  <2>. DEFINE h == p \o q
  <2>1. h \in Seq(Marks) /\ Len(h) = a + c
    BY <1>1, <1>2
  <2>. HIDE DEF h
  <2>2. h \o b \in Seq(Marks) /\ Len(h \o b) = Len(h) + Len(b)
    BY <1>3, <2>1
  <2>3. g = h \o b
    BY DEF h
  <2>. HIDE DEF g
  <2>. QED
    BY <1>3, <2>1, <2>2, <2>3
<1>5. a + c + (m - c) = a + m
  BY <1>1
<1>6. \A k \in 1 .. a : g[k] = p[k]
  BY <1>1, <1>2, <1>3
<1>7. \A k \in 1 .. c : g[a + k] = q[k]
  BY <1>1, <1>2, <1>3
<1>8. \A k \in 1 .. m - c : g[a + c + k] = b[k]
  BY <1>1, <1>2, <1>3
<1>9. \A k \in 1 .. m : ~(k <= c) => k - c \in 1 .. m - c /\ a + c + (k - c) = a + k
  BY <1>1
<1>10. \A k \in 1 .. m : k <= c => k \in 1 .. c
  BY <1>1
<1>. HIDE DEF g
<1>11. \A k \in 1 .. m : g[a + k] = IF k <= c THEN q[k] ELSE Blank
  BY <1>3, <1>7, <1>8, <1>9, <1>10
<1>. QED
  BY <1>4, <1>5, <1>6, <1>11 DEF g, b, a, c

LEMMA ShownIsInRow ==
    ASSUME NEW n \in Nat \ {0}, Shown(ed, line, n), Kept(ed, line, ed.prompt, n)
    PROVE  /\ Piece(ed.tty.row, 0, Len(ed.prompt) + Room) = InRow(ed.shift)
           /\ ed.shift \in 0 .. ed.pos /\ (ed.shift > 0 => ed.shift < Len(line))
           /\ ed.tty.col = Len(ed.prompt) + ed.pos - ed.shift
<1>. DEFINE a == Len(ed.prompt)
            s == ed.shift
            p == ed.prompt
            r == ed.tty.row
            w == ed.width
            m == Room
            c == Len(line)
            q == PieceFrom(s)
            to == ed.pos
            col == ed.tty.col
            right == ed.right
            left == ed.left
<1>1. /\ p \in Seq(Ink) /\ line \in Seq(Ink) /\ r \in Seq(Marks) /\ Len(r) = n
      /\ a \in Nat /\ a = Len(p) /\ c \in Nat /\ c = Len(line) /\ w \in Int /\ s \in Nat /\ to \in Nat
      /\ right \in BOOLEAN /\ left \in BOOLEAN
      /\ w >= 3 /\ a + w = n /\ s <= to /\ to <= c /\ (s > 0 => s < to) /\ m = w - 1
      /\ col = a + (to - s)
  BY DEF Kept, Shown, Begun, Placed, Editors, Screen, Room
<1>2. (left <=> s > 0) /\ (right <=> c > s + w - 1)
  BY DEF Shown, Begun, Placed
<1>3. /\ \A k \in 1 .. a : r[k] = p[k]
      /\ \A k \in 1 .. w - 1 : r[a + k] = Cell(ed, line, k)
  BY DEF Shown, Begun
<1>4. \A k \in 1 .. w - 1 : Cell(ed, line, k) =
           IF k = 1 /\ left THEN Marker ELSE IF right /\ k = w - 1 THEN Marker
           ELSE IF s + k <= c THEN line[s + k] ELSE Blank
  BY DEF Cell
<1>. HIDE DEF a, s, p, r, w, m, c, to, col, right, left
<1>5. /\ m \in Nat /\ m >= 2 /\ s <= c /\ (s > 0 => s < c) /\ a + m \in Nat /\ a + m <= n
      /\ s \in 0 .. to /\ col = a + to - s
      /\ (right <=> c - s > m) /\ w - 1 = m
  BY <1>1, <1>2
<1>6. Columned(q, line, s, m)
  <2>1. line \in Seq(Ink) /\ s \in Nat /\ Room \in Nat /\ Room >= 2 /\ s <= Len(line) /\ (s > 0 => s < Len(line))
    BY <1>1, <1>5 DEF m
  <2>2. Columned(PieceFrom(s), line, s, Room)
    BY <2>1, PieceFromIs
  <2>. QED
    BY <2>2 DEF m
<1>. HIDE DEF q
<1>7. /\ q \in Seq(Ink) /\ Len(q) = (IF c - s > m THEN m ELSE c - s)
      /\ \A k \in 1 .. Len(q) :
           q[k] = IF k = 1 /\ s > 0 THEN Marker
                  ELSE IF c - s > m /\ k = m THEN Marker ELSE line[s + k]
  BY <1>6 DEF Columned, c
<1>. DEFINE e == Len(q)
            f == Piece(r, 0, a + m)
            g == p \o q \o Times(Blank, m - e)
<1>8. e \in Nat /\ e <= m /\ e = (IF c - s > m THEN m ELSE c - s) /\ e = Len(q)
  BY <1>1, <1>5, <1>7
<1>9. f \in Seq(Marks) /\ Len(f) = a + m /\ \A k \in 1 .. a + m : f[k] = r[k]
  <2>1. r \in Seq(Marks) /\ a + m \in Nat /\ a + m <= Len(r)
    BY <1>1, <1>5
  <2>. QED
    BY ONLY <2>1, RowPiece
<1>10. /\ g \in Seq(Marks) /\ Len(g) = a + m
       /\ \A k \in 1 .. a : g[k] = p[k]
       /\ \A k \in 1 .. m : g[a + k] = IF k <= e THEN q[k] ELSE Blank
  <2>1. p \in Seq(Ink) /\ q \in Seq(Ink) /\ m \in Nat /\ Len(q) <= m
    BY <1>1, <1>5, <1>7, <1>8
  <2>. DEFINE h == p \o q \o Times(Blank, m - Len(q))
  <2>2. /\ h \in Seq(Marks) /\ Len(h) = Len(p) + m
        /\ \A k \in 1 .. Len(p) : h[k] = p[k]
        /\ \A k \in 1 .. m : h[Len(p) + k] = IF k <= Len(q) THEN q[k] ELSE Blank
    BY ONLY <2>1, Padded
  <2>3. g = h
    OBVIOUS
  <2>. HIDE DEF g, h
  <2>. QED
    BY <1>1, <1>8, <2>2, <2>3
<1>. HIDE DEF e, f, g
<1>11. ASSUME NEW k \in 1 .. m
       PROVE  r[a + k] = g[a + k]
  <2>1. r[a + k] = IF k = 1 /\ left THEN Marker ELSE IF right /\ k = m THEN Marker
                   ELSE IF s + k <= c THEN line[s + k] ELSE Blank
    BY <1>3, <1>4, <1>5
  <2>2. CASE k <= e
    <3>0. e <= c - s
      BY <1>1, <1>5, <1>8
    <3>1. k \in 1 .. Len(q) /\ s + k <= c
      <4>1. e \in Nat /\ c \in Nat /\ s \in Nat /\ e = Len(q)
        BY <1>1, <1>8, Zenon
      <4>2. k \in Int /\ 1 <= k
        BY <1>5
      <4>. QED
        BY ONLY <2>2, <3>0, <4>1, <4>2
    <3>. QED
      BY <1>2, <1>5, <1>7, <1>10, <2>1, <2>2, <3>1
  <2>3. CASE ~(k <= e)
    <3>1. ~(s + k <= c) /\ ~right /\ ~(k = 1 /\ left)
      BY <1>1, <1>2, <1>5, <1>8, <2>3
    <3>. QED
      BY <1>10, <2>1, <2>3, <3>1
  <2>. QED
    BY <2>2, <2>3
<1>12. \A k \in 1 .. a + m : f[k] = g[k]
  <2>. SUFFICES ASSUME NEW k \in 1 .. a + m PROVE f[k] = g[k]
    OBVIOUS
  <2>1. CASE k <= a
    <3>1. k \in 1 .. a
      BY <1>1, <1>5, <2>1
    <3>. QED
      BY <1>3, <1>9, <1>10, <3>1
  <2>2. CASE ~(k <= a)
    <3>1. k - a \in 1 .. m /\ a + (k - a) = k
      BY <1>1, <1>5, <2>2
    <3>2. r[a + (k - a)] = g[a + (k - a)]
      BY <1>11, <3>1
    <3>. QED
      BY <1>9, <3>1, <3>2
  <2>. QED
    BY <2>1, <2>2
<1>13. f = g
  BY <1>9, <1>10, <1>12, SeqEqual
<1>14. g = InRow(s)
  BY DEF g, e, q, InRow, p, m
<1>. QED
  BY <1>1, <1>5, <1>13, <1>14 DEF f, r, a, s, m, to, c, col

(***************************************************************************)
(* The row on the terminal is the prompt and a piece of the line, with the *)
(* cursor on its character, whatever keys were pressed and whatever the    *)
(* line, the prompt, the history and the windows are - if behind the       *)
(* prompt, and behind that of a search, there is room for more than a step *)
(* of scrolling.                                                           *)
(***************************************************************************)
THEOREM RowCorrect == PlainLines /\ WideWindows /\ RoomToEdit => (Spec => []ScreenShowsLine)
<1>. SUFFICES ASSUME PlainLines, WideWindows, RoomToEdit PROVE Spec => []ScreenShowsLine
  OBVIOUS
<1>1. RowHolds => ScreenShowsLine
  <2>. SUFFICES ASSUME RowHolds, phase \in {"select", "read"}, ~disturbed
                PROVE  \E s \in 0 .. ed.pos :
                         /\ s > 0 => s < Len(line)
                         /\ Piece(ed.tty.row, 0, Len(ed.prompt) + Room) = InRow(s)
                         /\ ed.tty.col = Len(ed.prompt) + ed.pos - s
    BY DEF ScreenShowsLine
  <2>1. PICK w \in Windows : termw = w[1]
    BY DEF RowHolds
  <2>2. w[1] \in Nat \ {0} /\ Shown(ed, line, w[1]) /\ Kept(ed, line, ed.prompt, w[1])
    BY <2>1, WindowIs DEF RowHolds, Held
  <2>3. /\ Piece(ed.tty.row, 0, Len(ed.prompt) + Room) = InRow(ed.shift)
        /\ ed.shift \in 0 .. ed.pos /\ (ed.shift > 0 => ed.shift < Len(line))
        /\ ed.tty.col = Len(ed.prompt) + ed.pos - ed.shift
    BY <2>2, ShownIsInRow
  <2>. QED
    BY <2>3
<1>. QED
  BY <1>1, RowInductive, PTL
=============================================================================
