-------------------------------- MODULE Prompt --------------------------------
(***************************************************************************)
(* A user at the prompt: words are typed, TAB completes them and shows     *)
(* what could follow, `?` shows it, and Enter has the line matched for its *)
(* callback (cligen_read.c).  What matching does is in Pattern, what the   *)
(* specification says in Language.  The cursor is at the end of the line:  *)
(* what the code does with words behind it is left out.                    *)
(***************************************************************************)
EXTENDS Pattern

CONSTANTS
    Specs,          \* the specifications
    Words,          \* what can be typed
    Modes,          \* subsets of {"STEPS", "SHOW", "COLUMNS"}
    MaxWords,       \* typed words of a line, at most
    MaxCompleted    \* words of a line, at most: only a completion without end
                    \* gets there

ASSUME PromptAssumption ==
    /\ MaxWords \in Nat /\ MaxCompleted \in Nat /\ MaxWords < MaxCompleted

VARIABLES
    mode,           \* the tab mode of the handle
    words,          \* the line; the last word is empty behind a space
    tabbing,        \* TAB is completing
    shown,          \* what `?` or TAB showed last
    result          \* what Enter found last

vars == <<spec, mode, words, tabbing, shown, result>>

Empty == << << >> >>
Nothing == [line |-> << >>, cr |-> FALSE, names |-> << >>]
NoResult == [line |-> << >>, objs |-> << >>, reason |-> "", cvv |-> << >>]

Init ==
    /\ spec \in Specs
    /\ mode \in Modes
    /\ words = Empty
    /\ tabbing = FALSE
    /\ shown = Nothing
    /\ result = NoResult

\* cli_trim
Trimmed(line) == IF Last(line) = << >> THEN Front(line) ELSE line

\* Bound: a line that nothing can be read from is not typed any further
Typing ==
    /\ ~tabbing
    /\ Readings(Trimmed(words)) # {}
    /\ shown' = Nothing
    /\ result' = NoResult
    /\ UNCHANGED <<spec, mode, tabbing>>

Type(w) ==
    /\ Typing
    /\ Last(words) = << >>
    /\ Len(words) <= MaxWords
    /\ words' = Front(words) \o <<w>>

Space ==
    /\ Typing
    /\ Last(words) # << >>
    /\ Len(words) < MaxWords
    /\ words' = Append(words, << >>)

----------------------------------------------------------------------------
(***************************************************************************)
(* What help shows.  Behind a space it also shows whether the line could   *)
(* be entered as it is; equal names that follow each other are shown once. *)
(***************************************************************************)
Name(o) == IF o.type = "command" THEN o.word ELSE <<o.id>>

cligen_help_eq(names, name) == names # << >> /\ Last(names) = name

print_help_lines(objs) ==
    FoldLeft(LAMBDA names, o : IF cligen_help_eq(names, Name(o)) THEN names
                               ELSE Append(names, Name(o)), << >>, objs)

\* Plausible bug: the empty word behind the space is matched as well
WithTheEmptyWord(line) == Len(match_pattern_exact(line, "help").objs) = 1
CanEnter(line) == Len(match_pattern_exact(Front(line), "help").objs) = 1
HasCr(line) == Len(line) > 1 /\ Last(line) = << >> /\ CanEnter(line)

show_help_columns(line, mr) == [line |-> line, cr |-> FALSE, names |-> print_help_lines(mr.objs)]
show_help_line(line, mr) ==
    [line |-> line, cr |-> HasCr(line), names |-> print_help_lines(mr.objs)]

cli_qmark_hook ==
    /\ ~tabbing
    /\ shown' = show_help_line(words, match_pattern(words, FALSE, "help"))
    /\ UNCHANGED <<spec, mode, words, tabbing, result>>

----------------------------------------------------------------------------
(***************************************************************************)
(* cli_tab_hook: the line is completed, in the mode STEPS until nothing is *)
(* added; what follows is shown when nothing was, or in the mode SHOW.     *)
(***************************************************************************)
\* Bound: where no completion of a line that long is followed
TabPressed ==
    /\ ~tabbing
    /\ Len(words) <= MaxCompleted
    /\ tabbing' = TRUE
    /\ UNCHANGED <<spec, mode, words, shown, result>>

Help(line) ==
    LET mr == match_pattern(line, FALSE, "help")
    IN  IF "COLUMNS" \in mode THEN show_help_line(line, mr) ELSE show_help_columns(line, mr)

cli_tab_hook ==
    /\ tabbing
    /\ Len(words) <= MaxCompleted
    /\ words' = match_complete_mr(words, match_pattern(words, FALSE, "help"))
    /\ tabbing' = ("STEPS" \in mode /\ words' # words)
    /\ shown' = IF ~tabbing' /\ (words' = words \/ "SHOW" \in mode) THEN Help(words') ELSE shown
    /\ UNCHANGED <<spec, mode, result>>

----------------------------------------------------------------------------
cliread_parse(line) ==
    LET mr == match_pattern_exact(line, "root")
    IN  [line |-> line, objs |-> mr.objs, reason |-> mr.reason, cvv |-> mr.cvv]

\* cliread: an empty line is read again
cliread_eval ==
    /\ ~tabbing
    /\ Trimmed(words) # << >>
    /\ result' = cliread_parse(Trimmed(words))
    /\ words' = Empty
    /\ shown' = Nothing
    /\ UNCHANGED <<spec, mode, tabbing>>

Next ==
    \/ \E w \in Words : Type(w)
    \/ Space
    \/ cli_qmark_hook
    \/ TabPressed
    \/ cli_tab_hook
    \/ cliread_eval

\* The loop of cli_tab_hook is not left alone: weak fairness of it, with the
\* condition that enables it written out
Loops == []<>~(tabbing /\ Len(words) <= MaxCompleted) \/ []<><<cli_tab_hook>>_vars

Spec == Init /\ [][Next]_vars /\ Loops

----------------------------------------------------------------------------
TheReading(line) == CHOOSE r \in Readings(line) : TRUE

\* The ways to read a line as a command
Commands(line) == {r \in Readings(line) : IsCommand(r)}

\* What is entered is run only when the specification can be read so, and when
\* there is one way to read it and it is a command, then it is run: the
\* iteration over sets and the fallbacks of match_pattern_sets lose nothing.
RunsAsRead ==
    LET line == result.line
    IN  /\ Len(result.objs) = 1 =>
            \E r \in Readings(line) : IsCommand(r) /\ Last(r.read).id = result.objs[1].id
        /\ line # << >> /\ IsClear(line) /\ Commands(line) # {} =>
            Len(result.objs) = 1

\* Another way to begin the line ends with a reference that adds an argument
TriedInVain(r, line) ==
    \E k \in DOMAIN line : \E o \in Readings(SubSeq(line, 1, k)) :
        Adds(Last(o.read)) /\ o.read # SubSeq(r.read, 1, k)

\* A command calls what the innermost reference calls that it is written below,
\* with its own arguments and those of that reference; nothing comes from what
\* was read before it in a set or tried in vain.  Only references that add an
\* argument (prepend_me) do so from then on, each of them once and the last one
\* in front, also for the objects of the set beside them.  What is left out are
\* lines where such a reference was tried in vain: its argument stays, too.
CalledAsWritten ==
    Len(result.objs) = 1 /\ Cardinality(Commands(result.line)) = 1 =>
        LET r == CHOOSE r \in Commands(result.line) : TRUE
        IN  ~TriedInVain(r, result.line) => result.objs[1].fns = Called(r)

\* What can follow a reading: what fits the word in the innermost level that
\* has anything that does
Fitting(b, w) == {o \in Candidates(b) : ~o.hidden /\ (w = << >> \/ Fits(o, w))}
Following(r, w) ==
    IF IsRest(r) THEN {Last(r.read)}
    ELSE LET offers == {b \in Leaves(r) : Fitting(b, w) # {}}
         IN  UNION {Fitting(b, w) : b \in {b \in offers :
                        \A c \in offers : Len(c.open) <= Len(b.open)}}

Guided(front) ==
    /\ IsClear(front)
    /\ Readings(front) # {}
    /\ \A o \in ToSet(TheReading(front).read) : ~o.hidden

\* What help shows is what can follow, no more and no less, and it says that
\* the line can be entered exactly when it is a command.
ShowsWhatFollows ==
    LET line == shown.line
    IN  line # << >> /\ Guided(Front(line)) =>
            LET r == TheReading(Front(line))
            IN  /\ ToSet(shown.names) = {Name(o) : o \in Following(r, Last(line))}
                /\ shown.cr => IsCommand(r)
                /\ IsCommand(r) /\ Last(line) = << >> /\ (mode = {"COLUMNS"}) => shown.cr

\* Completion keeps what was typed and every keyword that could follow it, and
\* what it makes of a line that can be read can be read.
CompletionLeadsOn ==
    [][words' # words /\ tabbing =>
        /\ IsPrefix(Front(words), words')
        /\ Readings(Trimmed(words)) # {} => Readings(Trimmed(words')) # {}
        /\ Guided(Front(words)) =>
            \A o \in Following(TheReading(Front(words)), Last(words)) :
                o.type = "command" => IsPrefix(words'[Len(words)], o.word)]_vars

\* The levels that the one keyword leads to that can follow a reading, or is on
\* a level
LeadTo(objs) ==
    LET keywords == {o \in objs : o.type = "command" /\ ~o.hidden}
    IN  IF Cardinality({o.word : o \in keywords}) = 1 THEN {o.below : o \in keywords} ELSE {}

\* More levels than there are, one below the other with one keyword each: the
\* specification refers to itself there
GoesRound(n) ==
    LET below[k \in 0 .. Cardinality(DOMAIN spec)] ==
            IF k = 0 THEN {n} ELSE UNION {LeadTo(ToSet(Level(m).objs)) : m \in below[k - 1]}
    IN  below[Cardinality(DOMAIN spec)] # {}

Unending ==
    \E r \in Readings(Front(words)) : \E n \in LeadTo(Following(r, Last(words))) : GoesRound(n)

\* TAB comes to an end in every tab mode, with specifications that refer to
\* themselves, too.  In the mode STEPS it does not where one keyword follows the
\* other for ever.
TabEnds == tabbing /\ ~("STEPS" \in mode /\ Unending) ~> ~tabbing

\* There is one argument for each word of the line, in their order.
ArgumentsAsTyped ==
    Len(result.objs) = 1 /\ Cardinality(Commands(result.line)) = 1 =>
        LET r == CHOOSE r \in Commands(result.line) : TRUE
        IN  [i \in DOMAIN result.cvv |-> result.cvv[i].name] = [i \in DOMAIN r.read |-> r.read[i].id]
=============================================================================
