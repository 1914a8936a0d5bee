# A TLA+ verification of cligen

cligen is a C library for interactive command-line interfaces.  An application
describes its commands in a specification file; cligen parses it to a tree,
reads command lines from a terminal with its own line editor and history,
matches them against the tree, completes and expands them, and calls the
application's callbacks.

## Inventory

| component | source | state | operations | hard behaviours | what makes it correct |
|---|---|---|---|---|---|
| command history | `cligen_history.c` | circular array of lines, separator slot, cursor, pointer to the line saved before | add, previous, next, set position, init/resize, load, save | wrap-around, the one-slot-free separator, pointer into a slot that is freed later, lines with newlines inside | behaves as a list of the last N lines; the pointer never dangles; a saved file gives the history back |
| line editor | `cligen_getline.c` | line buffer, cursor, length cache, kill buffer, overwrite flag, search mode with its own prompt and string, scroll offset of the screen line | one handler per key; incremental search over the history; redraw | every key must keep the cached length and cursor in step with the buffer; search mode is left by most other keys and shares the history cursor with recall; incremental redraw | cursor inside the line, length cache right, search shows a line that contains the search string, screen equals the line |
| line buffers | `cligen_handle.c` | line and kill buffer of a handle; their sizes are process globals | increase | the size is global and the buffer is not: with two handles it is stale | a buffer is at least as long as what is written to it |
| evaluation and output pipe | `cligen_read.c` | matched object, callback list, socket and child process of an output pipe | read, parse, evaluate, fork pipe, drain pipe, reap | two processes and two socket buffers, blocking writes, a drain that gives up after one second, callbacks that fail in between | output arrives in order and complete, the child is reaped, the global output socket is reset |
| output and pager | `cligen_io.c` | global count of lines and columns of the page, global pipe socket | output, reset, status | a line broken over several calls, page keys, quit | no line lost, prompt after a page, silence after quit |
| matching | `cligen_match.c`, `cligen_result.c` | match result (objects, level, reason, tokens), MATCH flag on objects for sets | match a token, match a line, exact match, completion | preferences between keywords and variables, sets whose members match in any order once, marks left behind by a failed branch | result is exactly the best matches; one match means one command |
| parse tree and objects | `cligen_parsetree.c`, `cligen_object.c` | vector of objects per level, sorted | insert, merge, sort, copy, free, find | binary search with an order that compares different kinds differently; sharing of subtrees between the grammar and its expansion | sorted, no duplicates, merge loses no command |
| expansion | `cligen_expand.c` | shadow tree of the grammar with references, choices and expand callbacks resolved | expand, cleanup | expansion shares children with the grammar it was made from; references to references | the grammar is unchanged after cleanup |
| parse-tree heads | `cligen_pt_head.c` | list of named trees, active tree, working point | add, find, set active, working point set/up/top | a name that is not found deactivates all trees | one active tree |
| callbacks | `cligen_callback.c` | list per object | copy, free | handed down from tree references through the recursion of the match, and changed on the way | a command gets its own callbacks and those of the references above it |
| string buffers | `cligen_buf.c` | buffer, allocated size, length; process-wide start and threshold | append, truncate, reset | growth at the threshold, overflow of `size_t`, an allocation that fails | text and its zero are inside of the memory |
| variable vectors, variables | `cligen_cvec.c`, `cligen_cv.c` | typed values and the strings they own | parse, print, compare, range checks, copy, delete, split of a line | ends of integer types, values read twice with different widths, copies that fail half-way | what is accepted is what the type and the ranges hold; what is printed is read again; each string has one owner |
| specification parser | `cligen_parse.y`, `cligen_parse.l`, `cligen_syntax.c` | stack of object sets under construction | push, swap, pop-and-add | nesting of choices, options and sets | stack empty at the end, every alternative reaches the top |
| regular expressions | `cligen_regex.c` | none | compile, match | external libraries | an inverted expression refuses what it matches |
| print, util, programs | `cligen_print.c`, ... | none | | | |

How they interact: `cliread_eval` (read) calls `cliread`, which calls the line
editor and then `hist_add`; the editor calls back into read for `?` and TAB,
which expand and match the current line.  The line that was read is expanded,
matched, and evaluated by `cligen_eval`, whose callbacks print through
`cligen_output` to the pager or, while a pipe function runs, to a socket.

## Modules

| module | models | role |
|---|---|---|
| `CligenHistory` | `cligen_history.c` | detailed |
| `HistoryLog` | what the history promises | abstract; `CligenHistory` refines it |
| `LineEdit` | editing keys of `gl_getline`, growth of the buffers | component |
| `Getline` | `gl_getline` and `cliread` | composes `LineEdit` and an instance of `CligenHistory` |
| `Tty` | a row of a terminal | data type, external |
| `Redraw` | `gl_fixup` and the keys that call it | component, on `Tty` |
| `Pager` | `cligen_output`, `cligen_output_scroll` | component, on `Tty` |
| `Select` | `gl_regfd`, `gl_unregfd`, `gl_select` | component |
| `Terminal` | `gl_getline`, `gl_getc`, window changes | composes `Redraw`, `Pager` and `Select` |
| `EvalPipe` | `cligen_eval`, `cligen_eval_pipe_pre/post`, `cligen_output`, the forked filter | detailed, two processes |
| `MatchVec` | `match_vec`, `match_pattern_sets_local`, preferences of objects | algorithm, one step per iteration |
| `Language` | which words read as which objects of a specification | reference definitions |
| `Pattern` | `match_pattern_sets`, `match_pattern_exact`, `match_complete` | algorithm, as operators |
| `Prompt` | TAB, `?` and Enter (`cligen_read.c`) | composes `Pattern` with a user, stated against `Language` |
| `Clispec` | the grammar of specifications and the command lines they mean | abstract |
| `CligenParse` | the actions of `cligen_parse.y`, registration of trees | extends `Clispec`: reads the same tokens |
| `ParseTree` | one level of a tree: `co_insert1`, `co_find_one`, `cligen_alias_add` | detailed, one step per call of a search |
| `Expand` | `pt_expand`, working points, the active tree | detailed, one step per object |
| `Cv` | values: `cv_parse1`, `cv_validate`, `cv2str`, `cv_cmp` | algorithms, as operators |
| `Cvec` | vectors of values and their strings; the split of a line | component |
| `Cbuf` | string buffers | component |
| `Values` | `match_variable`, and `Cv`, `Cvec` and `Cbuf` in turn | composes these three |
| `MC*` | constants for TLC | |
| `*Proofs` | theorems | extend their component |

### Command history

`histBuf`, `histCur`, `histLast`, `histPre` and `histSize` are the `ch_hist_*`
fields of the handle.  `ch_hist_pre` always aims at a string that a slot owns,
so it is the index of that slot; that the slot still owns it is part of
`RingInv`.  `HistAdd`, `HistPrev`, `HistNext` and `HistInit` are the functions;
load and save of a file take one step for each iteration of their loops (the
rewind loop of the save is one that only ends because of the shape of the
ring).  A line is a sequence of characters of which newline and blank are told
apart, because `hist_add` treats them specially and because a newline inside a
line becomes two lines of the file.  A file can be loaded into any history, as
in the code; `fresh` is a history variable that tells whether it was empty.
`LoadRestores` says that after a load the newest lines are those of the file,
in their order, and that a fresh history is what the file makes of it.

`HistoryLog` is the promise: the last N lines, newest first, and a position.
The refinement mapping reads the ring backwards from the separator.  Only what
happens with a line with a newline inside is left open there, since the
comparison in `hist_add` takes the first newline for the end of the line.

### Evaluation and output pipe

The CLI (`cligen_eval`, its callbacks, the drain) and the filter are two
processes over a socket pair of bounded capacity.  `phase` is where the CLI is;
`Outputs` is one call of `cligen_output` from a callback, and it blocks when the
socket is full.  Descriptors are modelled by number, since the code closes one
twice and keeps a copy of one in `PIPE_OUTPUT_SOCKET`.  What the environment may
do is the parameter `Faults`: a filter that exits early or is silent for longer
than the poll of the drain, signals, a failed fork, and an application with
descriptors of its own.  Callbacks that fail are always possible.  `cut` says
that an evaluation was disturbed by a reset, a signal or a write error, `late`
that its filter was given up after a second of silence. A stale
`PIPE_OUTPUT_SOCKET` can be a descriptor of the application, or of a socket pair
that a failed fork left open; such a pair, which nobody reads, takes all texts
of the model, where a real one would block when it is full.  SIGPIPE is taken to
be ignored: otherwise the write error that the code handles would never be seen.

### Matching of a token

`pt` is one level of the tree.  What `match_object` says of the token (exact,
prefix, failed constraint, mismatch) is part of an object; the preferences are
those of `cligen_object.c`.  `MatchVec` keeps the loop's variables and makes
one step per iteration; the result is compared with `Wanted`, which is defined
on the level as a whole.

### Line editor

`LineEdit` has the line, the kill buffer, the cursor, and `cnt`, the editor's
cached length, which only `gl_fixup` corrects.  What is drawn is in `Redraw`
(below). `Getline` adds the prompt, the escape, recall (`^P`, `^N`), the
incremental search with its own string and saved position, and what `cliread`
does with a line that was entered (trim, `hist_add`).  One step is a key, except
that one iteration of `search_back` or `search_forw` is a step.  The history is
`CligenHistory` itself, instantiated on the editor's variables.

### Level of a parse tree

`pt` is the array of objects of one level, with the flag that tells an alias.
The two binary searches are recursive in the code and make one step per call
here: `low` and `upper` are their parameters, `pos` is what they return.
`Insert` is `co_insert1` from the parser or from the expansion, `Find` is
`co_find_one` from `reference_path_match`; `Adding` and what follows is
`cligen_alias_add`, which deletes, inserts through the parser and searches.
`CoEq` is the comparison of the code; names, types and options of variables
are numbers in the order in which the code has them.  The children of an
object are left out, so merging equal objects changes nothing here.

`co_eq` is an order on some sets of objects and not on others.  `Consistent`
says that it is one on the objects given so far, `OrderedByName` that it is the
order of the names; the properties say what holds then.  `seen` and `written`
are history variables.

### Specification parser

`Clispec` says what comes next in a specification (`phase`, `nest`) and, with
every token, what was said so far: a part of a specification is a set of
command lines, a sequence concatenates, a choice is a union, an option adds
the empty line, a brace continues the line before it.  `CligenParse` reads the
same tokens and does what the grammar actions do: `cy_list` is the list of the
current objects, `cy_stack` the stack of lists with the saved alternatives,
`cy_callbacks` and `cy_hide` (the part of `cy_cvec` with an effect) the
options that wait, `cot` the tree below the fake top object, `heads` the trees
registered by `cgy_treename` and at the end of the file.

Abstractions: an object is named by the words that lead to it, since
`co_insert` returns the sister that is equal to a new object (a word stands
for a class of objects that `co_eq` holds equal, so of a variable it is the
kind that counts); the order of a list is left out, since only how often an
object is in it has an effect.  Variables are words.  Callbacks added to the
fake top object (by a command that may be empty) are freed with it and not
looked at.  Help strings, tree references, attributes of variables, arguments of
callbacks, `CO_FLAGS_OPTION` (only printing reads it) and variables other than
`hide` and `treename` are left out.

`bare`, `carried` and `twice` are history variables that name the three
circumstances in which the parser does not do what was written (below); the
properties say what holds otherwise.

### Expansion

An object of a parsed tree is named by its path, and `live` has those that are
not freed.  A shadow that an expansion makes is a record with the path of its
original.  `Start` is a call of `pt_expand`; `todo` and `level` are the level of
the tree and the one that is made of it; `stack` has the calls of
`co_expand_treeref_copy_shallow`, which copies what a reference reaches to
`temp`, from where each object goes through `pt_expand1_co` in its turn.  A
filter is the set of labels that a reference removes and the set it adds, of
which the first option for a label counts (`cligen_expand.c:312-335`); the
expand callbacks of the application are external and give any of their words, or
fail.  `WpSet`, `WpUp`, `WpTop` and `Activate` are the functions that move
working points and activate a tree; they come between commands.

What a level should offer is said by the trees alone: `Offers` are its own
objects and those of every tree that its references reach, each with the rules of
the references on the way.  `ways` is a history variable: the rules that the
references on each way to the level have, from the outermost one; it is never
read by an action.  `Wanted` are the offers that a way leaves.

`stuck` has the labels that a failing callback leaves on an object of a tree.
The phase "lost" is reached when an insertion frees objects of a tree (below),
"crashed" when no tree is active, or when what a reference reaches is being
copied already, which the code goes on with until its stack is full; nothing is
said of what follows.

### Values

`Cv` has the conversions as operators on sequences of symbols: what
`strtoll`, the look for a point, a slash or an "@" can tell apart.  Integers
have 3, 4, 5 and 7 bits in place of 8, 16, 32 and 64, and the members of the
union that `cv_cmp` and `cv_validate` read a value through are these widths.
`match_variable` parses twice, as 64 bits to look at the ranges and as what the
variable is; so does its operator.

`Cvec` names a string by the cell it is in: `heap` has the live cells, a member
of a vector points to up to two.  `Set`, `AppendVar`, `Arguments` and the others
are the functions on vectors, each with the outcomes of an allocation that
fails.  `dangling` marks the one that leaves a pointer to freed memory.  The
second half of the module, `next_token` and `Turn`, is `cligen_str2cvv` on a
line that has a text of the application in it, escaped as `pt_expand_fn` does.

`Cbuf` keeps what a buffer says of its size (`buflen`) apart from the memory it
has (`room`), since the code raises the one before it asks for the other.

### Terminal

`Tty` is the row that the cursor is on, with the last column of a VT100, where
the cursor waits for one more character before it goes on.  `Redraw` is
`gl_fixup`: `ed` has its static variables, `gl_pos`, `gl_cnt` and the row, and
each key is the change of the line and the call that `gl_getline` makes for it.
`Pager` has `D_LINES` and `D_COLUMNS` and makes one step for each `--More--`:
the state in between is what the user sees.  `Select` has the array of
descriptors with its gap bug as it is: `gl_unregfd` copies too few bytes.  In
`Terminal` the three are interleaved as in a program: a command writes its
output, `gl_getline` starts, descriptors are served while no key is there, a
signal for a changed window comes at any time and ends a `select`.  What the
other parts know of the window they learn at different moments; a signal at
`--More--`, which is the answer "next page", can bring another width, too.

The variables `disturbed`, `window`, `gap` and `helped` name the circumstances
in which the code does not do what it should (below).

### Matching of a line

`Language` says what a line means without a word of the algorithm: a reading is
a choice of an object for each word, with the stack of levels that are open; a
level that is a set stays open for the objects not yet read.  `Pattern` is the
recursion of the code, with the marks on objects, the fall-back of the iteration
over a set, the callbacks and the arguments that are handed down, and
`match_complete` with its common prefixes.  A specification is given level by
level in the form that `pt_expand` leaves it in; references only count for their
callbacks here.  In `Prompt` a user types words, and each of TAB, `?` and Enter
is a step; the loop of TAB is one step per turn.  The cursor is at the end of the
line: at TAB and `?` the code cuts the line at the cursor and moves the rest
along (`cligen_read.c:213-257`, 281), which is left out.

`Pattern` uses recursive operators and is for TLC only.  Its operators were also
compared with the compiled functions on six of the specifications of `MCPrompt`:
167 946 command lines, and help for lines of up to five words, gave the same
result.

## Runs

| run | question | result |
|---|---|---|
| `history` | ring, refinement of `HistoryLog`, files written and read, ends of loops; histories of 1 to 3 lines, with resizing | holds |
| `getline` | all keys, recall, search, growth of buffers | holds |
| `pipe` | output of a pipe complete and in order, descriptors closed once and by their owner, every evaluation ends, with all faults | holds |
| `pipe_wait` | an evaluation ends, with more text than fits in both directions of the socket | violated: both processes wait in write |
| `match_vec` | result, reason and uniqueness for all levels of up to three objects | holds |
| `parse` | accepted commands, with their callbacks, for all specifications of up to eight tokens | holds |
| `tree` | order of the level and aliases on levels of up to four objects | holds |
| `expand` | what a level offers, what is left of the trees, working points, the end of an expansion | holds |
| `values` | numbers, decimals, prefixes and texts read, validated, written and compared; owners of strings; tokens; buffers | holds |
| `terminal` | the row shows the line, pages fit, no text is lost, descriptors are served | holds |
| `prompt` | what Enter runs and calls, what `?` shows, what TAB completes, that TAB ends | holds |
| `prompt_arguments` | one argument for each word | violated: a match that failed leaves one behind |

The runs that are violated are disagreements between the code and what its
comments say; `PROJECT.json` quotes them.

Where a property has an exception (`Incomparable`, `Unprintable`, `gap`,
`disturbed`, `helped`, "lost", ...), the code is known not to do what it should
there: the exception names the circumstance as narrowly as the model can tell
it, and the behaviour is listed below under "Observed besides".

### Bounds

*history*: `MaxLines = 3` gives rings of two, three and four slots, so that a
ring without a NULL, one full and wrapped, and one of a single line all occur;
two plain lines, one the start of the other, and lines with blanks and newlines
are all the comparisons of `hist_add` tell apart.  Nothing counts steps: the
state space is the whole one.

*getline*: the line buffer starts with three bytes and has to grow; lines of
three characters are typed and one of four is recalled; the history wraps with
its third line.  A `CONSTRAINT` (`Regime`) cuts the product of independent
parts: kills and overwriting with an empty history, free typing with an empty
history, and recall and search on lines of the history or short typed ones.
What the constraint cuts off is combinations of a kill with a search, which
share no state but the line.

*pipe*: `Cap = 1`, `Hold = 1` is the smallest pipe that fills; three texts over
two evaluations fill it and leave one over; two evaluations are needed for
state that outlives one.  In `pipe` three texts fit in socket and filter and
the deadlock needs a fourth, which is what `pipe_wait` has: `EvalEnds` in `pipe`
says that nothing but a full pipe stops an evaluation.

*match_vec*: any three objects, in any order, of fifteen kinds (each outcome
with low, high, overriding and equal preferences, marked and not).  The loop
keeps one object, one bound and one reason from the objects seen before, so
three objects show every pair of decisions; the theorems need no bound.

*parse*: eight tokens and two open brackets: enough for `(a|b)` within `[ ]`,
or a choice with a block under both alternatives, and for three trees under two
names.

*tree*: ten kinds of objects: three keywords, variables before, between and
behind them in both orders of type and name, one with the name of a keyword,
references with a low and a high name, and an empty object.  Four objects make
the searches go left and right twice and let both run past the end.  The
theorems need no bound.

*expand*: four trees.  One refers to two others with and without a filter, these
to each other, to themselves further down and to a name that no tree has; they
share names at the top and below.  `MaxLevel = 3` is a command of three words,
which is enough to move a working point below an object that a reference reached
and to come back through another reference.  `Sub` has a `b` with a label that
`Main` filters and refers to `Data`, which has a `b` without it: the pair of
equal objects that is the exception of `OffersAll`.  Nothing bounds the depth of
references: an expansion that comes to a place it is in already ends in the
phase "crashed".

*values*: the widths of 3, 4, 5 and 7 bits are all different, as those of the
code are, and each value of each type occurs; numerals are all texts of up to
three symbols of `- 0 1 8 x`, and every boundary of every width in the three
bases.  Decimals have one or two digits behind the point (and three, which
is one too many), with texts of up to five symbols around the ends of the type.
Four strings in memory let a vector of two and its copy be full.  A buffer
starts with one byte, doubles up to four, grows by four, and has to stop at 20.

*terminal*: the prompt leaves room for twelve characters in a window of 21 (the
smallest width that the editor accepts); lines of 5, 12 and 20 characters need
no, one and two steps of scrolling.  Windows have three, two and no rows and
three widths.  Texts end before, at and behind the end of a row.  Events are
bounded together, with different weights: two lines of input with some keys
each, up to four calls of the application, or two signals.

*prompt*: seven specifications: a set, a set with a keyword at two places, a set
in a set, variables beside keywords with the rest of a line, references with
callbacks, and two that refer to themselves, one with a choice at every turn and
one in which one keyword follows the other for ever (`Round`).  Each is run in
every tab mode.  Five words of three letters and a
digit can be typed; a line that nothing can be read from is not typed any
further.  `MaxCompleted` stops the completion of `Round`; no other line gets there,
and if one did, `TabEnds` would be violated.

### Fairness

*history*: file operations run to their end (they are loops within one call).
*pipe*: the CLI runs on, callbacks print finitely often and return, the filter
reads, writes and exits when its input ends; it need not exit earlier, faults
need not happen.  *getline*: the search loop runs without waiting for a key.
*expand*: the steps of an expansion are one call, with no wait in it.  *prompt*:
the turns of `cli_tab_hook` are a loop of one call; `Loops` is the weak fairness
of that action, with its enabling condition written out.  No other run has
liveness.  Users, callbacks and files are never obliged to do anything.

## Proofs

For all values of the constants, under the named assumptions of each module:

* `CligenHistoryProofs` - `TypeCorrect`, `RingCorrect`, `Refinement`.  The
  invariant is `TypeOK`, the shape of the ring `RingInv` and `LoopInv` (the
  index of a file loop is a slot).  `RingInv` is needed for the types already:
  `hist_add` may free a slot because the separator is elsewhere.  The refinement
  maps each action: the mapping reads the ring backwards, so the lemmas are
  about modular distances. `SaveCorrect` and `LoadCorrect`, the latter for loads
  into any history: while a file is written the lines in it are the list as far
  as the index has come (`SaveInv`, with the distance that is left to go), and
  what `LogOnFile` makes of a file is what a load has put into the ring so far
  (`LoadInv`).
* `MatchVecProofs` - `TypeCorrect`, `PassIsBest`, `NothingPartial`,
  `FailureExplained`, `OneOrNone`.  `LoopInv` says that what the loop keeps is
  what the definition of the best result gives for the part of the level already
  seen, `GaveUpRightly` that it gave up only for a reason: the result differs
  from the wanted one only when more than one object is wanted, or when what is
  wanted matches only in part and a variable has rejected the token by its
  constraint.
* `GetlineProofs` - first of the editing keys alone (`EditSpec`):
  `CursorStaysInLine`, `BuffersHoldLine`; then of all keys: `CursorCorrect`,
  `SearchCorrect`, `CopiesFromUsedSlot`, `BuffersCorrect`, `SearchNewest`.  The
  invariant adds to these the shape of the ring and that the line shown in a
  search is the one at the history's cursor whenever the loop waits for a key.
  `BuffersFit` needs what every key does to the two lengths (`RoomInv`), and
  that doubling a size ends above any length.  For `SearchFindsNewest` no line
  that a search has passed contains the string, for as long as letters are added
  and deleted only (`FindInv`).
* `EvalPipeProofs` - `FilteredCorrect`, `SuccessCorrect`, `DescriptorsCorrect`.
  None of the three is inductive: which descriptor `cligen_output` finds in
  `PIPE_OUTPUT_SOCKET` depends on the phase and on what went wrong in earlier
  evaluations, and that a success is complete on what the poll had seen when the
  read met the end of the file, or else on the filter having been given up.
  `IInv` says so.
* `ExpandProofs` - `TreesCorrect`, `WorkpointsCorrect`, `LevelCorrect`.  The
  invariant says of each level under construction where its objects come from
  (`LevelStands`, `CopyStands`, `ReferenceStands`, `StackStands`), that each of
  these places is in the trees (`TreesStand`, `PointsStand`), and `NoLoop`: a
  level that a reference of its own reaches is never done with, because the
  phase "crashed" comes first.  That the children that a merge moves are still
  below an object of the trees follows the merges from one object to the next
  (`Way`).

  `LevelCorrect` proves `OffersNothingElse`, one of the two halves of
  `LevelComplete`: nothing hidden or filtered is offered, and nothing that is in
  no tree of the level.  Its invariant says of each object of a level, of the
  copy of a tree and of the calls under way that it comes from the level or from
  a place that references of the level lead to, and that the rules of those
  references, outer and inner ones, permit it (`Permitted`, `Reached`).  The
  code knows the outermost rules only; that they are those of one of the `ways`
  to the level is `WayKnown`, which `ChildWayKnown` carries down a level.
  `Sources`, which the property is stated with, goes only as many references deep
  as there are trees; that this is deep enough is because the calls of
  `co_expand_treeref_copy_shallow` are nested along references and no two of
  them are at one place (`Nested`), so that there are not more calls than trees.
* `ParseTreeProofs` - `TypeCorrect`, `SortedLevel`, `SisterFound`,
  `NameSearchCorrect`, `AliasCorrect`, `WrittenCorrect`.  The invariant of a
  search: left of `low` everything is smaller and right of `upper` everything
  greater.  That a half can be given up rests on `co_eq` being transitive on the
  objects of the level, which `Consistent` assumes.  For aliases it is joined
  by the facts that no object of the name is on the level before the insertion,
  just one is after it, and what a specification wrote is not flagged.
* `CligenParseProofs` - `AcceptCorrect`, `TypeCorrect`, `FlagsCorrect`,
  `RunsCorrect`.  The core is `Correspondence`: level by level, the list saved
  at an open bracket stands for the lines before the bracket, the saved
  alternatives for these continued by the alternatives that are complete, and
  the current list for the lines before the innermost bracket continued by its
  current alternative.  A pop is then a concatenation that is distributed over
  a union.  `AcceptsWhatIsWritten` is inductive with it.  For flags and
  callbacks it is joined by what is known of the options that wait.
* `TerminalProofs` - `WaitsCorrect`, `OutputCorrect`, `PagesCorrect`,
  `RowCorrect`.  As long
  as no gap was closed, the array has an entry for each registration and no
  descriptor twice, and whatever was served for the last result of `select` is
  at an entry before the one whose turn it is (`Watches`).  The latter is why
  nothing is served twice although callbacks change the array under the loop:
  they can take away the last entry and add behind it, and the entries that stay
  keep their descriptors.

  What the pager has written and what is left of the call is what it was given
  (`Pages`); it goes on for as long as the column that the text has reached is
  inside of the row, which a wider window cannot change.  A page fits because
  the pager reckons as the terminal does (`Fits`): the cursor is in the row and
  column that `D_LINES` and the rest of the row say, but behind a full row it
  has not gone down yet; `--More--`, which in a narrow window takes several rows
  itself, is asked at the start of a row and leaves the cursor there.
  `PagesCorrect` has two hypotheses, `PlainTexts` and `WideWindows`: a carriage
  return or a backspace is a column for the pager, and a window narrower than
  the least width counts as one of that width (65535 columns stand for no
  window).  The texts and windows of `MCTerminal` fulfil both.

  `RowCorrect` is about `gl_fixup`, which never draws a whole row: it draws what
  it holds to be different.  The invariant (`RowHolds`) has two parts.  `Kept`
  is what the editor believes: `gl_pos`, `gl_cnt`, the shift and the two `$` fit
  each other and the line, and the cursor of the terminal is where they say.  It
  holds even after a changed window.  `Shown` says of each column what stands in
  it (`Cell`: the left `$`, a character of the line, a blank, the right `$`), so
  that a key may draw from the first column that changed and leave the rest.
  The proof has three layers: what `Type`, `Put` and the copies of a character
  do to a row (`Tty`); what `gl_fixup` and each part of it (`Prompted`, `Fitted`,
  `Changed`, `Drawn`) make of a row that was `Shown`, for a line that changed
  behind a column (`FixShows`, `FixAdds`, `FixShorter`, ...); and a lemma for each
  key, which says that it changes the line only behind the column it passes.
  `^W` and `^U` over a scrolled line leave a stale character behind the row, in
  the last column of the window (below); neither `Shown` nor `ScreenShowsLine`
  speaks of that column.  There are three hypotheses: `PlainLines` (no return,
  backspace or newline in the prompt, in lines, or typed), `WideWindows`, and
  `RoomToEdit`, room for more than a step of scrolling behind the prompt and the
  prompt of a search (below).  `MCTerminal` fulfils them.

`RingCorrect`, `CopiesFromUsedSlot`, `NothingPartial`, `FlagsCorrect`,
`SisterFound` and `NameSearchCorrect` state invariants that no run has any
more: with the proof there is nothing left for TLC to find.

The library's induction theorems are out of the provers' reach, so induction
over numbers is by the least counterexample (`SetInduction`): that a recursive
function like `After`, `Way`, `LogOnFile` or `Doubling` is what its equation says,
and what holds of all its values, is proved that way.

Only checked by TLC: liveness (`FileOpEnds`, `SearchEnds`, `EvalEnds`,
`ExpansionEnds`, `TabEnds`), which is out of the provers' reach; `OffersAll`,
the other half of `LevelComplete`, with its exception for equal objects; all of
`Prompt`, whose recursive operators the provers do not take, and of `Values`,
whose conversions recur over digits.

## Observed besides

Behaviour met while modelling that is not a run of its own.  The first group
was once stated as a property and found violated; each of the others is what
an exception in a property stands for, or what a model cannot do without.

Disagreements with documentation:

* A filter that exits with unread input makes the `read` of the drain fail, and
  the buffer is printed all the same, with what was in it (`cligen_read.c:1066`;
  the comment at 1020 promises the filter's output).
* A partial keyword is suppressed when a sibling variable rejects the token by
  its constraint (comment, `cligen_match.c:535`); the code looks only at the
  variable of the lowest preference among those that reject.
* `a | b;` outside of brackets loses alternatives (`cligen_parse.y:1362`,
  `cligen_tutorial.tex:828`).
* Options before a `{` without `;` stay for the next command: `a, hide {} b;`
  hides `b` (`cligen_parse.y:1362`, `cligen_tutorial.tex:274`); callbacks too
  (`carried`).
* `co_insert` misses an equal sister where `co_eq` is no order: `<x:int32>` is
  on a level twice with `<a:string>`, `k` and `m` (`cligen_object.c:946`).
* `aa [[bb] cc]` accepts `aa`, `aa cc`, `aa bb cc` and not `aa bb`, contrary to
  the tutorial's list.

History, editor and pipe:

* `hist_prev` on the oldest line of a history that is not full goes on to the
  empty line instead of staying on the oldest one.
* A line typed over several lines that is the previous one plus one character
  is not saved in the history: `hist_add` takes the first newline for the last
  character.
* A callback that fails in a piped command leaves the filter as a zombie and
  `PIPE_OUTPUT_SOCKET` set: the next text that is printed without a pipe is
  lost.  After a write error `ch_spipe` is closed a second time by the drain.  A
  filter silent for one second is killed and the evaluation a success
  (`cligen_read.c:1071`): what is still in the socket is not shown (`late`).
* `^W` and `^U` write the rest of a scrolled line past the end of the row, and
  the last column keeps a stale character.  The cursor can be on the column
  behind the right `$`.  A window of less than 21 columns counts as 21.
* A window whose width changed under a line garbles the row until it is drawn
  again (`disturbed`).  A narrower one wraps what is on the row.  After a wider
  one `gl_width` is still that of the old window, but `gl_scrollw` is a third of
  the new one (`gl_setwidth`, `cligen_getline.c:565`), so that a step of
  scrolling can take the shift past the cursor.
* `gl_fixup` needs room for more than a step of scrolling behind the prompt: with
  a longer prompt, or a search text that grows into the row, the shift it comes
  to (`cligen_getline.c:1340`) can be past the cursor in any window.
* A failing callback of a descriptor, or a signal, makes `gl_select` return -1:
  the descriptors are not served until a key is pressed.
* `gl_unregfd` copies `n - i` bytes, not entries, so that a descriptor gets
  the callback of another one (`gap`, `cligen_getline.c:321`).

Pager:

* When the window becomes narrower than the column the text has reached,
  the space left on the line is negative: text is lost, or the length of a copy is
  (`cligen_io.c:157`; `Crash`).
* `?` at `--More--` writes a line of help and keeps the old count of columns
  (`helped`).  A row that is exactly full and is followed by a newline counts
  twice.  A change of the window at `--More--` counts as "next page".
* In a window of one row RETURN at `--More--` ends the output like `q`: it takes
  one from a count of no lines (`cligen_io.c:201-202`).  The line and the
  question do not fit there either (`PageFits` is about more rows).

Objects and trees:

* The preferences of integers with and without a range are equal constants, so
  the range never decides.
* Objects can be twice in `cy_list`, as after `x [<a:int32>] [<b:int32>]`,
  and then register their callbacks twice (`twice`).
* A variable is equal to a keyword of its name for `co_eq`: in
  `name; <name:string>;` the variable is dropped for the keyword.
* `co_insert1` gives the children of the object it drops to the one it keeps,
  but not its callbacks.
* `co_find_one` misses names on a level where variables or references stand
  against the order of the names; `cligen_alias_add` then fails with ENOENT
  and leaves its command without the flag.
* An alias whose text is no specification is left as a bare word without the
  flag, the old alias is gone, and defining it again fails with EEXIST.
* Two trees with one name can both be registered; the first one is found.

Expansion:

* An insertion among shadows that meets an equal one frees what is below its
  original (`co_insert` called at `cligen_expand.c:441`): the tree of the
  specification loses commands (phase "lost").  Children that are merged point
  up to a shadow that is freed.
* A choice in a referenced tree leaves `co_ref` at a freed object
  (`cligen_expand.c:714`, used at `cligen_match.c:934`).  An absorbed static
  keyword takes the reference of the other one.
* The filter of an inner reference is lost one level further down
  (`cligen_expand.c:915`), although "`@t, @remove:local` removes all nodes
  labelled with `local` in tree `t`" (`CHANGELOG.md:377`).  It is the exception
  of `OffersNothingElse`.
* A working point at an object whose children refer to its own tree is followed
  for ever (phase "crashed").
* An object of the level that is equal to one that a reference reached takes over
  its `co_ref` (`cligen_expand.c:905-913`).  The working point that is set there
  is the reference, which for the reference of a default pipe is freed with the
  expansion (`Doubled`).
* In the copy of a tree that refers to others, of two equal objects only the first
  is kept (`co_insert` at `cligen_expand.c:441`), and only then the rules are
  applied, to the labels of the one kept (`cligen_expand.c:849`).  When it is
  filtered, the other one is not offered, though no rule removes it.  It is the
  exception of `OffersAll`, which `MCExpand` has a case of.
* Trees that refer to each other in a circle, with no object in between, are
  copied until the stack ends (`GoRound`, the exception of `ExpansionEnds`).
* An expand callback that fails leaves the labels of `@add` on the object
  (`stuck`, `cligen_expand.c:601`).
* With no active tree, `cligen_pt_active_get` dereferences NULL
  (`cligen_pt_head.c:425`; phase "crashed").

Values:

* `cv_cmp` of -1 and 1 is 1: integers are compared as unsigned
  (`cv_to_int64`, `cligen_cv.c:3522`), and the difference of two decimals is
  cut to an `int` (`cligen_cv.c:3642`), against the contract at 3603.
* The smallest decimal is written with two minus signs (`cligen_cv.c:2295`).
  The empty text is accepted as the decimal 0, and `.-5` as -0.05.
* A token in quotes that starts with `|` ends after it (`cligen_cvec.c:801`).
* The URL `x://@h/p@q` is written and read again differently.
* A copy that fails half-way leaves pointers that are freed with it
  (`dangling`, `cligen_cv.c:3705`, `cligen_cvec.c:260`).
* `cbuf_realloc` raises the size before it fails (`short`, `cligen_buf.c:228`).
  A start size of 0 loops for ever, which `CbufAssumption` excludes.
* `cv_validate` in `match_variable` looks at a wide value through the member of
  the narrow type.

Match and completion:

* In a tab mode with variables, a typed value that is longer than the name of
  its variable is compared behind the end of the name
  (`cligen_match.c:1436`), and the name of a lone variable is inserted as text.
* In a tab mode that completes step by step (`STEPS`), a tree that refers to
  itself and has one keyword on each level on the way is completed for ever
  (`cligen_read.c:262`).  It is the exception of `TabEnds` (`Unending`); other trees
  that refer to themselves are completed to an end.
* Two equal commands that collapse to one do not get the callbacks of the
  reference (`cligen_match.c:922`).  A reference that adds an argument
  (`prepend_me`) adds it to all that is read in its set from then on, not only to
  the commands below it (`cligen_match.c:831-848`): `CalledAsWritten` says so.  Its
  argument stays when it was tried in vain, too (`TriedInVain`).
* Inside of a set in a set, TAB and `?` offer only the inner set.  A match does
  not go back on a word beyond the fall-back of the sets.
* The last word of a line in quotes beside a rest variable is completed by the
  length of the rest of the line (`cligen_match.c:1405`).

## Not modelled

Completion to the names of variables, the editor's mode without scrolling,
characters of several bytes; help strings, attributes of variables,
tree references and the arguments of callbacks in the parser; a second handle
in one process; copies of whole trees; the setup of the terminal
(`gl_char_init` and the signals of job control); the engines of regular
expressions; printing of trees; the scanner, which is generated; the example
programs.  The types `interface`, `ipv4addr` and `ipv6addr` are words that
`inet_pton` and the system judge.  `PROJECT.json` says for each component what
is left out.

In what is modelled these paths are left out.  Allocations that fail, but for
those in `Cvec` and `Cbuf`: in `hist_add`, where a `hist_save` that fails leaves
a NULL at `ch_hist_last`, and `cligen_buf_increase` after it
(`cligen_history.c:122-134`); and in `cv_cp` within the copy of the arguments,
whose result `cligen_cvec.c:475` does not look at (`Arguments`).  The orders of
names: `ParseTree` and `Expand` have one, that of `strcmp`.  With
`cligen_ignorecase_set` or `cligen_lexicalorder_set` (`cligen_handle.c:850-911`,
both off by default) the order of keywords is another (`str_cmp`,
`cligen_object.c:946`), while a keyword is still compared with a variable, and
an alias looked for, by `strcmp` (`cligen_syntax.c:468`).

## Plan for what is left

1. Attributes of variables and tree references in `CligenParse`; `Clispec`
   says what they mean.
2. A second handle: the sizes of the buffers are variables of the process
   (`cligen_handle.c:1063`), a hazard that no property covers.
3. Completion by the names of variables in `Prompt`.
4. Proofs: `OffersAll`, with its exception; the owners of strings in `Cvec`.

The set of runs is kept small: a new component replaces one of the runs that
are violated, whose result then moves to the observations above.
