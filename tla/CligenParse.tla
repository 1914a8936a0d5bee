---------------------------- MODULE CligenParse -----------------------------
(***************************************************************************)
(* The actions of the specification parser (cligen_parse.y) that build the *)
(* tree of commands, one for each token of the language of Clispec.        *)
(*                                                                         *)
(* An object of the tree is named by the words from the top object to it:  *)
(* co_insert returns the sister that is equal to a new object, so siblings *)
(* differ, and a word stands for all objects that co_eq holds equal.  The  *)
(* parser keeps a list of the objects that the next token extends and a    *)
(* stack of such lists.  Their order is not kept (cgy_list_push turns it   *)
(* round): only how often an object is in a list has an effect.            *)
(***************************************************************************)
EXTENDS Clispec, FiniteSets

VARIABLES
    cy_list,        \* the current objects
    cy_stack,       \* [list, saved] of each level, the top of the stack last
    cy_callbacks,   \* callbacks for the end of the line
    cy_hide,        \* "hide" is in cy_cvec
    cy_treename,
    cot,            \* the tree under the fake top object
    heads,          \* list of [name, tree]: the registered trees
    twice           \* a line's callbacks went to one object more than once
parser == <<cy_list, cy_stack, cy_callbacks, cy_hide, cy_treename, cot, heads,
            twice>>
vars == <<language, parser>>

(***************************************************************************)
(* A tree: the callbacks of each of its objects, and <<mark, object>> for  *)
(* the objects with an empty child, the flag hide or a set of children.    *)
(***************************************************************************)
Top     == <<>>
Objects(t)  == DOMAIN t.callbacks
Commands(t) == {co \in Objects(t) : <<"empty", co>> \in t.marks}
NewTree == [callbacks |-> [co \in {Top} |-> <<>>], marks |-> {}]
pt_len_is_0(t) == Objects(t) = {Top} /\ <<"empty", Top>> \notin t.marks

InList(list)    == {list[i] : i \in 1..Len(list)}
Times(co, list) == Cardinality({i \in 1..Len(list) : list[i] = co})
Repeat(s, n)    == [i \in 1..(n * Len(s)) |-> s[((i - 1) % Len(s)) + 1]]
Mark(t, mark, cos) == [t EXCEPT !.marks = t.marks \cup ({mark} \X cos)]

Init ==
    /\ LanguageInit
    /\ cy_list = <<Top>>
    /\ cy_stack = <<[list |-> <<Top>>, saved |-> <<>>]>>
    /\ cy_callbacks = <<>>
    /\ cy_hide = FALSE
    /\ cy_treename = name
    /\ cot = NewTree
    /\ heads = <<>>
    /\ twice = FALSE

(***************************************************************************)
(* Every current object gets a child, new or already there, which becomes  *)
(* the current one in its place.                                           *)
(***************************************************************************)
InsertBelow(t, cos, w) ==
    LET children == {Append(co, w) : co \in cos}
    IN  [t EXCEPT !.callbacks =
            [co \in Objects(t) \cup children |->
                IF co \in Objects(t) THEN t.callbacks[co] ELSE <<>>]]

cgy_cmd(w) ==
    /\ Declare(w)
    /\ cot' = InsertBelow(cot, InList(cy_list), w)
    /\ cy_list' = [i \in 1..Len(cy_list) |-> Append(cy_list[i], w)]
    /\ UNCHANGED <<cy_stack, cy_callbacks, cy_hide, cy_treename, heads, twice>>

(***************************************************************************)
(* The stack.                                                              *)
(***************************************************************************)
cs  == cy_stack[Len(cy_stack)]
Pop == SubSeq(cy_stack, 1, Len(cy_stack) - 1)
Push == Append(cy_stack, [list |-> cy_list, saved |-> <<>>])
Pushed(t, sets) ==      \* what ctx_push does to the current objects
    LET hidden == IF cy_hide THEN Mark(t, "hide", InList(cy_list)) ELSE t
    IN  IF sets THEN Mark(hidden, "sets", InList(cy_list)) ELSE hidden

ctx_push(kind) ==
    /\ Open(kind)
    /\ cy_stack' = Push
    /\ cot' = Pushed(cot, FALSE)
    /\ UNCHANGED <<cy_list, cy_callbacks, cy_hide, cy_treename, heads, twice>>

ctx_peek_swap ==
    /\ Choose
    /\ cy_stack' = [cy_stack EXCEPT ![Len(cy_stack)].saved = cy_list \o @]
    /\ cy_list' = cs.list
    /\ UNCHANGED <<cy_callbacks, cy_hide, cy_treename, cot, heads, twice>>

ctx_pop_last ==     \* mutant: the saved objects are left out
    /\ Close("(")
    /\ cy_stack' = Pop
    /\ UNCHANGED <<cy_list, cy_callbacks, cy_hide, cy_treename, cot, heads, twice>>
ctx_pop ==
    /\ Close("(")
    /\ cy_stack' = Pop
    /\ cy_list' = cs.saved \o cy_list
    /\ UNCHANGED <<cy_callbacks, cy_hide, cy_treename, cot, heads, twice>>

ctx_pop_add ==
    /\ Close("[")
    /\ cy_stack' = Pop
    /\ cy_list' = cs.saved \o cs.list \o cy_list
    /\ UNCHANGED <<cy_callbacks, cy_hide, cy_treename, cot, heads, twice>>

(***************************************************************************)
(* Options wait for the end of the line.                                   *)
(***************************************************************************)
cgy_callback(f) ==
    /\ Call(f)
    /\ cy_callbacks' = Append(cy_callbacks, f)
    /\ UNCHANGED <<cy_list, cy_stack, cy_hide, cy_treename, cot, heads, twice>>

cgy_flag ==
    /\ Hide
    /\ cy_hide' = TRUE
    /\ UNCHANGED <<cy_list, cy_stack, cy_callbacks, cy_treename, cot, heads, twice>>

(***************************************************************************)
(* The end of a command: every current object gets the callbacks, the flag *)
(* hide and an empty child.                                                *)
(***************************************************************************)
Terminated(t) ==
    LET cos    == InList(cy_list)
        called == [t EXCEPT !.callbacks =
                     [co \in Objects(t) |->
                        @[co] \o Repeat(cy_callbacks, Times(co, cy_list))]]
        hidden == IF cy_hide THEN Mark(called, "hide", cos) ELSE called
    IN  Mark(hidden, "empty", cos)
cgy_terminal_keeps ==   \* mutant: the list of callbacks is not reset
    /\ cy_hide' = FALSE
    /\ UNCHANGED <<cy_callbacks, twice>>
cgy_terminal ==
    /\ twice' = (\/ twice
                 \/ /\ cy_callbacks # <<>>
                    /\ \E i, j \in 1..Len(cy_list) : i # j /\ cy_list[i] = cy_list[j])
    /\ cy_callbacks' = <<>>
    /\ cy_hide' = FALSE

(* ";": cgy_terminal and ctx_peek_swap2                                    *)
Line2Semicolon ==
    /\ Semicolon
    /\ cgy_terminal
    /\ cot' = Terminated(cot)
    /\ cy_list' = cs.list
    /\ UNCHANGED <<cy_stack, cy_treename, heads>>

(* "{": ctx_push                                                           *)
Line2Block(sets) ==
    /\ Block(sets)
    /\ cot' = Pushed(cot, sets)
    /\ cy_stack' = Push
    /\ UNCHANGED <<cy_list, cy_callbacks, cy_hide, cy_treename, heads, twice>>

(* ";{": cgy_terminal and ctx_push                                         *)
Line2CommandBlock(sets) ==
    /\ CommandBlock(sets)
    /\ cgy_terminal
    /\ cot' = LET t == Terminated(cot)
              IN  IF sets THEN Mark(t, "sets", InList(cy_list)) ELSE t
    /\ cy_stack' = Push
    /\ UNCHANGED <<cy_list, cy_treename, heads>>

(* "}": ctx_pop and ctx_peek_swap2                                         *)
Line2EndBlock ==
    /\ EndBlock
    /\ cy_stack' = Pop
    /\ cy_list' = cy_stack[Len(cy_stack) - 1].list
    /\ UNCHANGED <<cy_callbacks, cy_hide, cy_treename, cot, heads, twice>>

(***************************************************************************)
(* A new name registers the tree so far under the old one, and the end of  *)
(* the file the last one (clispec_parse_str).                              *)
(***************************************************************************)
cligen_ph_add(n, t) == Append(heads, [name |-> n, tree |-> t])

cgy_treename(n) ==
    /\ Treename(n)
    /\ IF pt_len_is_0(cot)
       THEN UNCHANGED <<cot, heads>>
       ELSE /\ heads' = cligen_ph_add(cy_treename, cot)
            /\ cot' = NewTree
    /\ cy_treename' = n
    /\ UNCHANGED <<cy_list, cy_stack, cy_callbacks, cy_hide, twice>>

clispec_parse_str ==
    /\ EndOfFile
    /\ heads' = cligen_ph_add(cy_treename, cot)
    /\ UNCHANGED <<cy_list, cy_stack, cy_callbacks, cy_hide, cy_treename, cot, twice>>

Next ==
    \/ \E w \in Word : cgy_cmd(w)
    \/ \E kind \in {"(", "["} : ctx_push(kind)
    \/ ctx_peek_swap \/ ctx_pop \/ ctx_pop_add
    \/ \E f \in Callback : cgy_callback(f)
    \/ cgy_flag
    \/ Line2Semicolon
    \/ \E sets \in BOOLEAN : Line2Block(sets) \/ Line2CommandBlock(sets)
    \/ Line2EndBlock
    \/ \E n \in TreeName : cgy_treename(n)
    \/ clispec_parse_str

Spec == Init /\ [][Next]_vars

-----------------------------------------------------------------------------
IsTree(t) ==
    /\ \A co \in Objects(t) : co \in Line /\ t.callbacks[co] \in Seq(Callback)
    /\ Top \in Objects(t)
    /\ t.marks \subseteq {"empty", "hide", "sets"} \X Objects(t)
IsLevel(i) ==
    /\ InList(cy_stack[i].list) \subseteq Objects(cot)
    /\ nest[i].kind # "{" => InList(cy_stack[i].saved) \subseteq Objects(cot)

(* Types; the parser points only to objects of the tree it builds (but for *)
(* what a choice outside of brackets saved, which is dropped unused), and  *)
(* its stack has one level for each open bracket.                          *)
TypeOK ==
    /\ phase \in Phase /\ cy_hide \in BOOLEAN
    /\ IsTree(cot)
    /\ \A i \in 1..Len(heads) : heads[i].name \in TreeName /\ IsTree(heads[i].tree)
    /\ InList(cy_list) \subseteq Objects(cot)
    /\ cy_callbacks \in Seq(Callback) /\ cy_treename = name
    /\ Len(cy_stack) = Len(nest)
    /\ \A i \in 1..Len(cy_stack) : IsLevel(i)

(* The trees registered under a name, with the one that is being built, have *)
(* exactly the command lines that the specification wrote under that name:  *)
(* every alternative reaches the end of its line, however choices, options  *)
(* and blocks are nested, and nothing else is a command.                    *)
TreesOf(n) ==
    {heads[i].tree : i \in {j \in 1..Len(heads) : heads[j].name = n}}
    \cup (IF n = cy_treename THEN {cot} ELSE {})
CommandsOf(n) == UNION {Commands(t) : t \in TreesOf(n)}
WrittenAs(n)  == {line \in {w[2] : w \in written} : <<n, line>> \in written}
AcceptsWhatIsWritten ==
    ~bare => \A n \in TreeName : CommandsOf(n) = WrittenAs(n)

(* A command runs the callbacks it was written with, each once and in the  *)
(* order they were written.                                                *)
RunsAsWritten ==
    ~(bare \/ carried \/ twice) =>
        \A co \in Objects(cot) \ {Top} : cot.callbacks[co] = Runs(co)

(* What was written so is hidden or has a set, and nothing else is, but    *)
(* for what gets a hide flag that was carried over from before a brace.    *)
FlaggedAsWritten ==
    ~bare =>
        \A co \in Objects(cot) \ {Top}, flag \in {"hide", "sets"} :
            /\ <<flag, co>> \in flags => <<flag, co>> \in cot.marks
            /\ (flag = "sets" \/ ~carried) =>
                 (<<flag, co>> \in cot.marks => <<flag, co>> \in flags)

=============================================================================
