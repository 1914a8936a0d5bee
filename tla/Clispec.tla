------------------------------ MODULE Clispec -------------------------------
(***************************************************************************)
(* What a command specification says: the grammar of cligen_parse.y as the *)
(* tokens that may come next, and the command lines that the tutorial      *)
(* gives to what was written.                                              *)
(*                                                                         *)
(* A word of a command line is a keyword or a kind of variable.  A part of *)
(* a specification means a set of command lines: a sequence of parts means *)
(* the concatenations, a choice the union, an option also the empty line,  *)
(* and the lines in braces continue the line before the brace.             *)
(*                                                                         *)
(* Only the language is defined here.  How the parser builds a tree while  *)
(* it reads is in CligenParse.                                             *)
(***************************************************************************)
EXTENDS Naturals, Sequences

CONSTANTS
    Word,       \* keywords and kinds of variables
    Callback,   \* names of callback functions
    TreeName,   \* names of trees
    MaxTokens,  \* bound: tokens of a specification
    MaxDepth    \* bound: nested brackets

ASSUME BoundAssumption == MaxTokens \in Nat /\ MaxDepth \in Nat

VARIABLES
    tokens,     \* number of tokens read
    phase,      \* what the grammar expects next
    nest,       \* open brackets, each with the meaning of what is in it
    name,       \* name of the tree that is being written
    options,    \* the callbacks and the hide flag after the last comma
    written,    \* <<name, line>> of all commands that were written
    runs,       \* the callbacks of each command of this tree, in order
    flags,      \* <<flag, line>> of lines written hidden or with a set
    bare,       \* a choice was written outside of ( ) and [ ]
    carried     \* options were written before a { and not before a ;
language == <<tokens, phase, nest, name, options, written, runs, flags,
              bare, carried>>

Line  == Seq(Word)
Phase == {"line", "alternative", "declaration", "option", "end"}
NoOptions == [calls |-> <<>>, hide |-> FALSE]

(***************************************************************************)
(* Concatenation of two sets of command lines.                             *)
(***************************************************************************)
Cat(A, B) == {a \o b : a \in A, b \in B}

(***************************************************************************)
(* A bracket "(", "[" or "{" with the lines it continues (of a brace), the *)
(* finished alternatives in it and the current one.                        *)
(***************************************************************************)
Bracket(kind, prefix) ==
    [kind |-> kind, prefix |-> prefix, alts |-> {}, cur |-> {<<>>}]
Inner    == nest[Len(nest)]
InBraces == Inner.kind = "{"
OpenLine == Cat(Inner.prefix, Inner.alts \cup Inner.cur)
Value(b) == b.alts \cup b.cur \cup (IF b.kind = "[" THEN {<<>>} ELSE {})

WithInner(b) == [nest EXCEPT ![Len(nest)] = b]
Extend(b, V) == [b EXCEPT !.cur = Cat(@, V)]
Closed ==   \* the bracket is a part of the one around it
    LET outer == SubSeq(nest, 1, Len(nest) - 1)
    IN  [outer EXCEPT ![Len(outer)] = Extend(@, Value(Inner))]

LanguageInit ==
    /\ tokens = 0
    /\ phase = "line"
    /\ nest = <<Bracket("{", {<<>>})>>
    /\ name \in TreeName
    /\ options = NoOptions
    /\ written = {}
    /\ runs = [line \in {} |-> <<>>]
    /\ flags = {}
    /\ bare = FALSE
    /\ carried = FALSE

Read == tokens < MaxTokens /\ tokens' = tokens + 1
Deeper == Len(nest) < MaxDepth

(***************************************************************************)
(* Declarations: a word, ( ) and [ ], and | between alternatives.          *)
(***************************************************************************)
DeclPhase == phase \in {"line", "alternative", "declaration"}

Declare(w) ==
    /\ Read /\ DeclPhase
    /\ phase' = "declaration"
    /\ nest' = WithInner(Extend(Inner, {<<w>>}))
    /\ UNCHANGED <<name, options, written, runs, flags, bare, carried>>

Open(kind) ==
    /\ Read /\ DeclPhase /\ Deeper
    /\ phase' = "alternative"
    /\ nest' = Append(nest, Bracket(kind, {}))
    /\ UNCHANGED <<name, options, written, runs, flags, bare, carried>>

Choose ==
    /\ Read /\ phase = "declaration"
    /\ phase' = "alternative"
    /\ nest' = WithInner([Inner EXCEPT !.alts = @ \cup Inner.cur, !.cur = {<<>>}])
    /\ bare' = (bare \/ InBraces)
    /\ UNCHANGED <<name, options, written, runs, flags, carried>>

Close(kind) ==
    /\ Read /\ phase = "declaration" /\ Inner.kind = kind
    /\ nest' = Closed
    /\ UNCHANGED <<phase, name, options, written, runs, flags, bare, carried>>

(***************************************************************************)
(* Options of a line.                                                      *)
(***************************************************************************)
Option(o) ==
    /\ Read /\ phase \in {"declaration", "option"} /\ InBraces
    /\ phase' = "option"
    /\ options' = o
    /\ UNCHANGED <<nest, name, written, runs, flags, bare, carried>>
Call(f) == Option([options EXCEPT !.calls = Append(@, f)])
Hide    == Option([options EXCEPT !.hide = TRUE])

(***************************************************************************)
(* Ends of a line: ";", "{" and ";{".                                      *)
(***************************************************************************)
LineEnd == phase \in {"declaration", "option"} /\ InBraces
NewLine == [Inner EXCEPT !.alts = {}, !.cur = {<<>>}]
Flags(s) ==
    flags \cup (IF options.hide THEN {"hide"} \X OpenLine ELSE {})
          \cup (IF s THEN {"sets"} \X OpenLine ELSE {})
Runs(line) == IF line \in DOMAIN runs THEN runs[line] ELSE <<>>
Command ==
    /\ written' = written \cup ({name} \X OpenLine)
    /\ runs' = [line \in DOMAIN runs \cup OpenLine |->
                  Runs(line) \o (IF line \in OpenLine THEN options.calls ELSE <<>>)]
    /\ options' = NoOptions

Semicolon ==
    /\ Read /\ LineEnd
    /\ phase' = "line"
    /\ nest' = WithInner(NewLine)
    /\ Command
    /\ flags' = Flags(FALSE)
    /\ UNCHANGED <<name, bare, carried>>

(* the lines in the brace continue this one, which then is over            *)
Brace == Append(WithInner(NewLine), Bracket("{", OpenLine))

Block(set) ==
    /\ Read /\ LineEnd /\ Deeper
    /\ phase' = "line"
    /\ nest' = Brace
    /\ flags' = Flags(set)
    /\ options' = NoOptions
    /\ carried' = (carried \/ options # NoOptions)
    /\ UNCHANGED <<name, written, runs, bare>>

CommandBlock(set) ==
    /\ Read /\ LineEnd /\ Deeper
    /\ phase' = "line"
    /\ nest' = Brace
    /\ Command
    /\ flags' = Flags(set)
    /\ UNCHANGED <<name, bare, carried>>

EndBlock ==
    /\ Read /\ phase = "line" /\ Len(nest) > 1
    /\ nest' = SubSeq(nest, 1, Len(nest) - 1)
    /\ UNCHANGED <<phase, name, options, written, runs, flags, bare, carried>>

(***************************************************************************)
(* Between the lines of the outermost level.                               *)
(***************************************************************************)
Treename(n) ==
    /\ Read /\ phase = "line" /\ Len(nest) = 1
    /\ name' = n
    /\ runs' = [line \in {} |-> <<>>]
    /\ flags' = {}
    /\ UNCHANGED <<phase, nest, options, written, bare, carried>>

EndOfFile ==
    /\ phase = "line" /\ Len(nest) = 1
    /\ phase' = "end"
    /\ UNCHANGED <<tokens, nest, name, options, written, runs, flags, bare, carried>>
=============================================================================
