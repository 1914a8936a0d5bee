------------------------------- MODULE Expand --------------------------------
(***************************************************************************)
(* Expansion of a level of a parse tree (pt_expand of cligen_expand.c) and *)
(* the heads of the trees with their working points (cligen_pt_head.c).    *)
(*                                                                         *)
(* An object of a tree is named by its path: <<t, i, j>> is object j below *)
(* object i at the top of tree t, and <<t>> the tree itself.  What an      *)
(* object says is Object[i], whatever its path; the numbers are in the     *)
(* order of co_eq, references last; its name is what co_eq compares.  An   *)
(* expansion makes shadow objects, that point to the children of the original: inserting one that is equal *)
(* to a shadow of the level merges these children.  The loops over a tree, *)
(* the nested ones of co_expand_treeref_copy_shallow included, make one    *)
(* step for each object.                                                   *)
(***************************************************************************)
EXTENDS Integers, Sequences, FiniteSets, SequencesExt

CONSTANTS
    Tree,           \* names of the parse trees
    Unknown,        \* a name that no tree has
    Object,         \* the objects of the specifications
    Written,        \* paths of the objects that the parser made
    Barred,         \* objects that the application's node filter refuses
    Wrapper,        \* the tree that a name stands for
    MaxLevel,       \* bound: levels of a command
    Strict,         \* label ac-strict-expand
    NULL

Id    == DOMAIN Object
Label == UNION {Object[i].labels \cup {Object[i].rules[k][2] : k \in DOMAIN Object[i].rules} :
                    i \in Id}

IsObject(co) ==
    /\ co.kind \in {"empty", "command", "variable", "choice", "expand", "reference"}
    /\ co.hide \in BOOLEAN /\ co.callback \in BOOLEAN
    /\ co.kind = "reference" => co.tree \in Tree \cup {Unknown}
    /\ co.pipe \in BOOLEAN /\ (co.pipe => co.kind = "reference")
    /\ \A k \in DOMAIN co.rules : co.rules[k][1] \in {"remove", "add"}

ASSUME ObjectAssumption ==
    /\ Id \subseteq Nat
    /\ \A i \in Id : IsObject(Object[i])
    /\ \A p \in Written :
         /\ Len(p) \in Nat /\ Len(p) >= 2 /\ p = [k \in 1 .. Len(p) |-> p[k]]
         /\ p[1] \in Tree /\ \A k \in 2 .. Len(p) : p[k] \in Id
         /\ Len(p) > 2 => Front(p) \in Written
    /\ NULL \notin Seq(Tree \cup Id)
    /\ NULL \notin Tree /\ Unknown \notin Tree /\ Wrapper \in [Tree -> Tree]
    /\ IsFiniteSet(Tree) /\ MaxLevel \in Nat

VARIABLES
    live,           \* objects of the trees
    stuck,          \* labels that were added to them and not taken away
    wp, active,     \* ph_workpt of each head; the active head or NULL
    phase,          \* "idle", "level", "copy", "temp", "done", "lost",
                    \* or "crashed"
    at, rules,      \* what is expanded: path, and the filter of the parent
    ways,           \* history: the rules of the references on each way there
    by,             \* tree of the last one of them that has callbacks
    depth,          \* levels of the command
    hide, expandvar, copipe,        \* parameters of pt_expand
    todo,           \* objects of the level that are still to expand
    coref,          \* the reference that is being expanded
    stack,          \* calls of co_expand_treeref_copy_shallow
    temp,           \* pttmp
    level,          \* ptn
    retval

heads  == <<wp, active>>
params == <<at, rules, ways, by, depth, hide, expandvar, copipe>>
vars   == <<live, stuck, heads, phase, params, todo, coref, stack, temp, level, retval>>

----------------------------------------------------------------------------
(***************************************************************************)
(* Objects                                                                 *)
(***************************************************************************)
Said(p)   == Object[p[Len(p)]]
Gone      == <<>>                       \* an object that was freed
IsKind(p, k) == Said(p).kind = k
Labels(p) == Said(p).labels \cup {x \in Label : <<p, x>> \in stuck}
Kids(p)   == {q \in live : Front(q) = p}
First(S)  == CHOOSE p \in S : \A q \in S : p[Len(p)] <= q[Len(q)]

Up(p) == IF Len(p) <= 2 THEN NULL ELSE Front(p)        \* co_up

(***************************************************************************)
(* Filters: a label has a rule of its own reference or, if that says       *)
(* nothing, of the reference around it.  A label is filtered by any rule,  *)
(* also one that adds it.                                                  *)
(***************************************************************************)
NoRules  == [remove |-> {}, add |-> {}]
RulesOf(p) ==           \* the first rule for a label counts
    LET said     == Said(p).rules
        counts   == {k \in DOMAIN said : \A j \in DOMAIN said : said[j][2] = said[k][2] => k <= j}
        that(do) == {said[k][2] : k \in {k \in counts : said[k][1] = do}}
    IN [remove |-> that("remove"), add |-> that("add")]
Merged(own, outer) ==
    [remove |-> own.remove \cup (outer.remove \ own.add),
     add    |-> own.add \cup (outer.add \ own.remove)]
IsFilter(rule, labels) == labels \cap (rule.remove \cup rule.add) # {}

(***************************************************************************)
(* Shadows                                                                 *)
(***************************************************************************)
Original(p) ==          \* an object itself, as pt_expand sees it
    [orig |-> p, name |-> Said(p).name, kind |-> Said(p).kind,
     filter |-> NoRules, ref |-> NULL, treeref |-> NULL, appended |-> FALSE,
     by |-> by]

(* co_expand_sub of an object in a referenced tree *)
TopOfTree(p, filter) ==
    [Original(p) EXCEPT !.filter = filter, !.ref = coref, !.treeref = p,
                        !.by = IF Said(coref).callback THEN Said(coref).tree ELSE by]

Transient(x) == x.treeref # NULL

(* co_expand_sub: of a shadow that is itself transient it keeps co_ref *)
Shadow(x) ==
    [x EXCEPT !.ref = IF Transient(x) THEN x.ref ELSE x.orig,
              !.filter = IF rules = NoRules THEN x.filter ELSE rules]

AsCommand(x, word) ==               \* transform_var_to_cmd
    [Shadow(x) EXCEPT !.name = word, !.kind = "command"]

(* pt_expand_choice leaves co_ref at the transient object, soon freed *)
ChoiceRef(x) == IF Transient(x) THEN Gone ELSE x.orig

Same(x, y)    == x.name = y.name /\ x.kind = y.kind              \* co_eq
Equals(S, x)  == {y \in S : Same(x, y)}
SameId(i, j)  == Object[i].name = Object[j].name /\ Object[i].kind = Object[j].kind

(***************************************************************************)
(* cligen_parsetree_merge: what is below q comes below p; what is there    *)
(* already keeps its place, and the other objects are copied.              *)
(***************************************************************************)
Below(p)    == {q \in live : Len(q) > Len(p) /\ SubSeq(q, 1, Len(p)) = p}
Tail1(q, p) == SubSeq(q, Len(p) + 1, Len(q))
Landing(p, i) ==
    LET there == {q \in Kids(p) : SameId(q[Len(q)], i)}
    IN IF there # {} THEN First(there) ELSE Append(p, i)
Way(p, s) ==
    LET to[i \in 0 .. Len(s)] == IF i = 0 THEN p ELSE Landing(to[i - 1], s[i]) IN to
Moved(p, s) == Way(p, s)[Len(s)]
Merge(p, q) == IF p = q THEN {} ELSE {Moved(p, Tail1(r, q)) : r \in Below(q)}

----------------------------------------------------------------------------
Init ==
    /\ live = Written /\ stuck = {}
    /\ wp = [t \in Tree |-> NULL] /\ active \in Tree
    /\ phase = "idle"
    /\ at = NULL /\ rules = NoRules /\ ways = {} /\ by = NULL /\ depth = 0
    /\ hide = FALSE /\ expandvar = FALSE /\ copipe = NULL
    /\ todo = {} /\ coref = NULL /\ stack = <<>> /\ temp = {} /\ level = {}
    /\ retval = 0

----------------------------------------------------------------------------
(***************************************************************************)
(* tree_resolve: the tree of that name, or what its working point has      *)
(* below it.                                                               *)
(***************************************************************************)
Resolve(p) ==
    LET t == Wrapper[Said(p).tree] IN IF wp[t] = NULL THEN <<t>> ELSE wp[t]
Resolves(p) == Said(p).tree \in Tree

(***************************************************************************)
(* What a level offers, defined at once: its own objects, and those of all *)
(* trees that its references reach, each under the rules of all references *)
(* on the way to it.                                                       *)
(***************************************************************************)
Refs(p) == {q \in Kids(p) : IsKind(q, "reference")}
Source(q, outer) == [at |-> Resolve(q), rule |-> Merged(RulesOf(q), outer)]
Sources(q) ==
    LET f[d \in 0 .. Cardinality(Tree)] ==
          IF d = 0 THEN {Source(q, NoRules)}
          ELSE f[d - 1] \cup UNION {{Source(r, s.rule) : r \in Refs(s.at)} : s \in f[d - 1]}
    IN f[Cardinality(Tree)]

HasEnd == \E p \in Kids(at) : IsKind(p, "empty")
References ==
    Refs(at) \cup
    IF copipe # NULL /\ HasEnd /\ Len(at) > 1 /\ Said(at).callback THEN {copipe} ELSE {}

OwnOffers == {[orig |-> p, rule |-> NoRules] : p \in Kids(at) \ Refs(at)}
OffersOf(q) ==
    UNION {{[orig |-> p, rule |-> s.rule] :
              p \in {r \in Kids(s.at) \ Refs(s.at) : ~IsKind(r, "empty")}}
           : s \in Sources(q)}
Offers == OwnOffers \cup UNION {OffersOf(q) : q \in References}

(* outer: the rules of the references on the way to the level              *)
Stays(o, outer) ==
    /\ ~(hide /\ Said(o.orig).hide)
    /\ ~IsFilter(o.rule, Labels(o.orig)) /\ ~IsFilter(outer, Labels(o.orig))
    /\ o.orig[Len(o.orig)] \notin Barred
    /\ ~(IsKind(o.orig, "variable") /\ expandvar /\ Strict \in outer.add)

(* Of the references on a way only the outermost that has rules counts.    *)
Outermost(way) == IF way = <<>> THEN NoRules ELSE way[1]
Wanted(way) == {o \in Offers : Stays(o, Outermost(way))}

Longer(way, rule) == IF rule = NoRules THEN way ELSE Append(way, rule)
WaysTo(p) ==
    UNION {{Longer(way, o.rule) : o \in {o \in Wanted(way) : o.orig = p}} : way \in ways}

Reads(o) ==         \* what the user can type for it: name and kind
    IF IsKind(o.orig, "choice") THEN Said(o.orig).words \X {"command"}
    ELSE IF IsKind(o.orig, "expand") THEN {}
    ELSE {<<Said(o.orig).name, Said(o.orig).kind>>}

----------------------------------------------------------------------------
(***************************************************************************)
(* pt_expand: called for the top of the active tree, and for the children  *)
(* of an object of the level that the user's command has matched.          *)
(***************************************************************************)
Start(owner, filter, past, tree, h, e, pipe) ==
    /\ phase' = "level"
    /\ at' = owner /\ rules' = filter /\ ways' = past /\ by' = tree
    /\ hide' = h /\ expandvar' = e /\ copipe' = pipe
    /\ todo' = Kids(owner) /\ level' = {}
    /\ UNCHANGED <<live, stuck, heads, coref, stack, temp, retval>>

(* the reference that match_pattern_sets makes for ph_output_pipe *)
Pipes == {<<Unknown, i>> : i \in {j \in Id : Object[j].pipe}} \cup {NULL}

ExpandTop ==
    /\ phase = "idle" /\ active # NULL
    /\ depth' = 1
    /\ \E h \in BOOLEAN : Start(<<active>>, NoRules, {<<>>}, NULL, h, FALSE, NULL)

NoActive ==             \* cligen_pt_active_get reads ph_parsetree of no head
    /\ phase = "idle" /\ active = NULL
    /\ phase' = "crashed"
    /\ UNCHANGED <<live, stuck, heads, params, todo, coref, stack, temp, level, retval>>

ExpandChild(x) ==
    /\ phase = "done" /\ x \in level
    /\ x.kind # "empty" /\ depth < MaxLevel
    /\ depth' = depth + 1
    /\ \E h \in BOOLEAN, e \in BOOLEAN, pipe \in Pipes :
          /\ ~e => h /\ pipe = NULL
          /\ Start(x.orig, x.filter, WaysTo(x.orig), x.by, h, e, pipe)

Fails ==
    /\ phase' = "idle" /\ retval' = -1
    /\ todo' = {} /\ stack' = <<>> /\ temp' = {} /\ level' = {}
    /\ UNCHANGED <<params, coref, heads>>

----------------------------------------------------------------------------
(***************************************************************************)
(* A reference of the level                                                *)
(***************************************************************************)
Frame(p, filter) == [at |-> Resolve(p), todo |-> Kids(Resolve(p)), filter |-> filter]

(* pt_expand_reference *)
BeginReference(p) ==
    IF Resolves(p)
      THEN /\ phase' = "copy" /\ coref' = p
           /\ stack' = <<Frame(p, RulesOf(p))>>
           /\ temp' = {}
           /\ UNCHANGED <<heads, params, retval>>
      ELSE FALSE

LevelReference ==
    /\ phase = "level" /\ todo # {}
    /\ LET p == First(todo) IN
         /\ IsKind(p, "reference")
         /\ todo' = todo \ {p}
         /\ BeginReference(p)
    /\ UNCHANGED <<live, stuck, level>>

----------------------------------------------------------------------------
(***************************************************************************)
(* co_expand_treeref_copy_shallow: stack[1] is the innermost call.         *)
(***************************************************************************)
Copying ==
    /\ phase = "copy" /\ stack # <<>>
    /\ UNCHANGED <<stuck, heads, params, todo, coref, level, retval>>

Rest    == Tail(stack)
SameAgain(p) ==         \* mutant: no next object after an empty one
    IF IsKind(p, "empty") THEN stack[1] ELSE [stack[1] EXCEPT !.todo = @ \ {p}]
Without(p) == [stack[1] EXCEPT !.todo = @ \ {p}]

CopyEmpty ==
    /\ Copying /\ stack[1].todo # {}
    /\ LET p == First(stack[1].todo) IN
         IsKind(p, "empty") /\ stack' = <<Without(p)>> \o Rest
    /\ UNCHANGED <<live, phase, temp>>

(* A tree that is copied already: the calls never return ("crashed").      *)
Entered == {stack[k].at : k \in DOMAIN stack}
CopyReference ==
    /\ Copying /\ stack[1].todo # {}
    /\ LET p == First(stack[1].todo) IN
         /\ IsKind(p, "reference") /\ Resolves(p)
         /\ IF Resolve(p) \in Entered THEN phase' = "crashed" /\ UNCHANGED stack
            ELSE /\ stack' = <<Frame(p, Merged(RulesOf(p), stack[1].filter)), Without(p)>> \o Rest
                 /\ UNCHANGED phase
    /\ UNCHANGED <<live, temp>>

(* co_insert: an equal shadow takes over the children, and the new shadow  *)
(* is freed with what is below it, which belongs to the tree: from there   *)
(* on the program uses memory that it has freed ("lost").                  *)
CopyObject ==
    /\ Copying /\ stack[1].todo # {}
    /\ LET p  == First(stack[1].todo)
           x  == TopOfTree(p, stack[1].filter)
           eq == Equals(temp, x) IN
         /\ ~IsKind(p, "empty") /\ ~IsKind(p, "reference")
         /\ stack' = <<Without(p)>> \o Rest
         /\ IF eq = {} THEN temp' = temp \cup {x} /\ UNCHANGED <<live, phase>>
            ELSE /\ UNCHANGED temp
                 /\ phase' = IF Below(p) = {} THEN phase ELSE "lost"
                 /\ live' = (live \cup UNION {Merge(y.orig, p) : y \in eq}) \ Below(p)

CopyReturns ==
    /\ Copying /\ stack[1].todo = {}
    /\ stack' = Rest
    /\ UNCHANGED <<live, phase, temp>>

EndOfCopy ==
    /\ phase = "copy" /\ stack = <<>>
    /\ phase' = "temp"
    /\ UNCHANGED <<live, stuck, heads, params, todo, coref, stack, temp, level, retval>>

EndOfReference ==
    /\ phase = "temp" /\ temp = {}
    /\ phase' = "level"
    /\ UNCHANGED <<live, stuck, heads, params, todo, coref, stack, temp, level, retval>>

----------------------------------------------------------------------------
(***************************************************************************)
(* pt_expand1_co: one object, of the level or of the transient copy.       *)
(***************************************************************************)
FirstTemp == CHOOSE x \in temp : \A y \in temp : x.orig[Len(x.orig)] <= y.orig[Len(y.orig)]

Item(x) ==
    \/ /\ phase = "level" /\ todo # {}
       /\ x = Original(First(todo)) /\ x.kind # "reference"
    \/ phase = "temp" /\ temp # {} /\ x = FirstTemp

(* the default output pipe follows the end of a command with callbacks *)
PipeFollows(x) ==
    /\ phase = "level" /\ x.kind = "empty" /\ copipe # NULL
    /\ Len(x.orig) > 2 /\ Said(Front(x.orig)).callback

NoSuchTree ==           \* "CLIgen tree '%s' not found"
    /\ \/ /\ phase = "level" /\ todo # {}
          /\ IsKind(First(todo), "reference") /\ ~Resolves(First(todo))
       \/ /\ phase = "copy" /\ stack # <<>> /\ stack[1].todo # {}
          /\ IsKind(First(stack[1].todo), "reference")
          /\ ~Resolves(First(stack[1].todo))
       \/ /\ phase = "level" /\ todo # {}
          /\ PipeFollows(Original(First(todo))) /\ ~Resolves(copipe)
    /\ Fails /\ UNCHANGED <<live, stuck>>

Advance(x) ==
    \/ /\ phase = "level" /\ todo' = todo \ {x.orig}
       /\ IF PipeFollows(x) THEN BeginReference(copipe)
          ELSE UNCHANGED <<phase, coref, stack, temp, heads, params, retval>>
    \/ /\ phase = "temp" /\ temp' = temp \ {x}
       /\ UNCHANGED <<phase, coref, stack, todo, heads, params, retval>>

Hidden(x)   == hide /\ Said(x.orig).hide
OnlyByLevel(x) == IsFilter(rules, Labels(x.orig))                   \* mutant
Filtered(x) == IsFilter(x.filter, Labels(x.orig)) \/ IsFilter(rules, Labels(x.orig))
Refused(x)  == x.orig[Len(x.orig)] \in Barred
StrictlyExpanded(x) == x.kind = "variable" /\ expandvar /\ Strict \in rules.add
NotCalled(x) == x.kind = "expand" /\ ~expandvar

Skips(x) ==
    Hidden(x) \/ Filtered(x) \/ Refused(x) \/ StrictlyExpanded(x) \/ NotCalled(x)

SkipObject(x) ==
    /\ Item(x) /\ Skips(x)
    /\ Advance(x)
    /\ UNCHANGED <<live, stuck, level>>

(***************************************************************************)
(* co_insert1 merges the children into those of an equal shadow.  Words of *)
(* a callback stand behind the others until the level is sorted, and then  *)
(* the search for an equal one may miss any.                               *)
(***************************************************************************)
FreesChildren(x) == Below(x.orig)                               \* mutant
KeepsChildren(x) == {}
Absorbed(x, eq) ==
    live' = (live \cup UNION {Merge(y.orig, x.orig) : y \in eq}) \ KeepsChildren(x)

MayMiss(eq) == eq = {} \/ \E y \in level : y.appended

Taken(y, x) ==          \* co_ref and co_filter are set in what was found
    [y EXCEPT !.ref = IF Transient(x) THEN x.ref ELSE @,
              !.filter = IF rules = NoRules THEN @ ELSE rules]

CopyItem(x) ==
    /\ Item(x) /\ ~Skips(x) /\ x.kind \in {"empty", "command", "variable"}
    /\ \/ /\ MayMiss(Equals(level, x))
          /\ level' = level \cup {Shadow(x)} /\ UNCHANGED live
       \/ \E y \in Equals(level, x) :
             level' = (level \ {y}) \cup {Taken(y, x)} /\ Absorbed(x, {y})
    /\ Advance(x) /\ UNCHANGED stuck

ChoiceItem(x) ==
    /\ Item(x) /\ ~Skips(x) /\ x.kind = "choice"
    /\ LET words == {[AsCommand(x, w) EXCEPT !.ref = ChoiceRef(x)] : w \in Said(x.orig).words}
       IN \E missed \in SUBSET words, eq \in SUBSET level :
            /\ \A c \in missed : MayMiss(Equals(level, c))
            /\ \A c \in words : Cardinality(Equals(eq, c)) = IF c \in missed THEN 0 ELSE 1
            /\ \A y \in eq : \E c \in words : Same(y, c)
            /\ level' = level \cup missed
            /\ Absorbed(x, eq)
    /\ Advance(x) /\ UNCHANGED stuck

(* pt_expand_fn: the callback of the application gives any of its words.   *)
CallbackItem(x) ==
    /\ Item(x) /\ ~Skips(x) /\ x.kind = "expand"
    /\ \E W \in SUBSET Said(x.orig).words :
          level' = level \cup {[AsCommand(x, w) EXCEPT !.appended = TRUE] : w \in W}
    /\ Advance(x) /\ UNCHANGED <<live, stuck>>

(* It fails, and the labels that were added to the object for its sake are *)
(* not taken away; a transient object is freed.                            *)
LeftBehind(x) == IF Transient(x) \/ Labels(x.orig) = {} THEN {} ELSE {x.orig} \X rules.add
CallbackFails(x) ==
    /\ Item(x) /\ ~Skips(x) /\ x.kind = "expand"
    /\ stuck' = stuck \cup LeftBehind(x)
    /\ Fails /\ UNCHANGED live

EndOfLevel ==           \* cligen_parsetree_sort
    /\ phase = "level" /\ todo = {}
    /\ phase' = "done" /\ retval' = 0
    /\ UNCHANGED <<live, stuck, heads, params, todo, coref, stack, temp, level>>

----------------------------------------------------------------------------
(***************************************************************************)
(* Between two levels and two commands                                     *)
(***************************************************************************)
EndOfCommand ==         \* the shadows are freed
    /\ phase = "done"
    /\ phase' = "idle" /\ level' = {}
    /\ UNCHANGED <<live, stuck, heads, params, todo, coref, stack, temp, retval>>

Callback ==
    /\ UNCHANGED <<live, stuck, params, todo, coref, stack, temp, retval>>

(* cligen_wp_set, as the callback of a reference: x is co_match            *)
RefFirst(x) == IF x.ref # NULL THEN x.ref ELSE x.treeref        \* mutant
WorkpointOf(x) == IF x.treeref # NULL THEN x.treeref ELSE x.ref
WpSet(t) ==
    /\ phase = "done"
    /\ \E x \in level :
          /\ x.kind # "empty" /\ x.by = t
          /\ WorkpointOf(x) # NULL
          /\ wp' = [wp EXCEPT ![t] = WorkpointOf(x)]
    /\ phase' = "idle" /\ level' = {}
    /\ UNCHANGED active /\ Callback

WpUp(t) ==
    /\ phase = "idle" /\ wp[t] # NULL
    /\ wp' = [wp EXCEPT ![t] = Up(wp[t])]
    /\ UNCHANGED <<phase, level, active>> /\ Callback

WpTop(t) ==
    /\ phase = "idle"
    /\ wp' = [wp EXCEPT ![t] = NULL]
    /\ UNCHANGED <<phase, level, active>> /\ Callback

Activate(name) ==       \* "If parse-tree not found all are inactivated."
    /\ phase = "idle"
    /\ active' = IF name \in Tree THEN name ELSE NULL
    /\ UNCHANGED <<phase, level, wp>> /\ Callback

----------------------------------------------------------------------------
Steps ==
    \/ LevelReference \/ NoSuchTree
    \/ CopyEmpty \/ CopyReference \/ CopyObject \/ CopyReturns
    \/ EndOfCopy \/ EndOfReference
    \/ \E x \in temp \cup {Original(p) : p \in todo} :
          SkipObject(x) \/ CopyItem(x) \/ ChoiceItem(x) \/ CallbackItem(x) \/ CallbackFails(x)
    \/ EndOfLevel

Next ==
    \/ ExpandTop \/ NoActive
    \/ \E x \in level : ExpandChild(x)
    \/ Steps
    \/ EndOfCommand
    \/ \E t \in Tree : WpSet(t) \/ WpUp(t) \/ WpTop(t)
    \/ \E name \in Tree \cup {Unknown} : Activate(name)

Spec == Init /\ [][Next]_vars /\ WF_vars(Steps)

----------------------------------------------------------------------------
(***************************************************************************)
(* Properties                                                              *)
(***************************************************************************)

(* A level that was expanded offers nothing that is hidden or that a rule  *)
(* of a reference on the way to it filters, and nothing that is in none of *)
(* the trees it refers to; the words of a callback only where the callback *)
(* is.  Down a way through several references the rules of the inner ones  *)
(* count for their level only, those of the outermost for all levels.      *)
OffersNothingElse ==
    phase = "done" => \E way \in ways :
        /\ {<<x.name, x.kind>> : x \in {y \in level : ~y.appended}}
             \subseteq UNION {Reads(o) : o \in Wanted(way)}
        /\ \A x \in level : x.appended =>
             expandvar /\ \E o \in Wanted(way) : o.orig = x.orig /\ x.name \in Said(o.orig).words

(* It offers every keyword, variable and choice of its own, and of each    *)
(* reference all that is in the trees it reaches, directly and through     *)
(* others, unless a rule on the way filters it.  Only of equal objects     *)
(* that one reference reaches is one taken, and the rules and labels of    *)
(* that one decide about all.                                              *)
Offered(o) == Reads(o) \subseteq {<<x.name, x.kind>> : x \in level}
Equal(o, f) == SameId(o.orig[Len(o.orig)], f.orig[Len(f.orig)])
OffersAll ==
    phase = "done" => \E way \in ways :
        /\ \A o \in OwnOffers \cap Wanted(way) : Offered(o)
        /\ \A q \in References : \A o \in OffersOf(q) :
             \E f \in OffersOf(q) : Equal(o, f) /\ (f \in Wanted(way) => Offered(f))

(* A level that pt_expand is done with offers what stands in its trees and *)
(* passes the rules of the references on the way there, no less and no     *)
(* more, but for the two exceptions above: inner rules are lost below      *)
(* their own level, and equal objects of one reference stand or fall as    *)
(* one of them.                                                            *)
LevelComplete == OffersNothingElse /\ OffersAll

(* The objects of the parsed trees are there after any number of commands, *)
(* also those of equal name in several trees of a level, which the         *)
(* expansion merges into one another.  Not so when one reference reaches   *)
(* two of them, in a tree and in one that it refers to: what is below the  *)
(* second one is freed.                                                    *)
NothingLost == phase # "lost" => Written \subseteq live

(* A working point is an object of a tree, neither a shadow of an earlier  *)
(* command nor the reference through which the object was reached, after   *)
(* any commands that go down, up and to the top.  Not so for an object of  *)
(* a level that refers to a tree with an equal one, which takes over the   *)
(* reference (Taken): there the working point is the reference, that of a  *)
(* default pipe even after it was freed.                                   *)
Spells(p) ==
    IF Said(p).kind \in {"choice", "expand"} THEN Said(p).words \X {"command"}
    ELSE {<<Said(p).name, Said(p).kind>>}
Doubled(r) ==
    \/ r \in Pipes
    \/ \E p \in Kids(Front(r)), q \in live :
          p # q /\ ~IsKind(p, "reference") /\ ~IsKind(q, "reference")
          /\ Spells(p) \cap Spells(q) # {}
WorkpointStands ==
    phase # "lost" =>
      \A t \in Tree : wp[t] # NULL =>
        /\ wp[t] \in live \cup Pipes
        /\ IsKind(wp[t], "reference") => Doubled(wp[t])

(* More places than there are trees, each below a reference in the one     *)
(* before: the trees refer to each other in a circle.                      *)
GoRound(q) ==
    LET after[n \in 0 .. Cardinality(Tree)] ==
            IF n = 0 THEN {Resolve(q)}
            ELSE UNION {{Resolve(r) : r \in {r \in Refs(a) : Resolves(r)}} : a \in after[n - 1]}
    IN after[Cardinality(Tree)] # {}

(* Expanding a level comes to an end, with nested references and trees     *)
(* that refer to themselves further down.  Only trees that refer to each   *)
(* other in a circle, without an object in between, are copied until the   *)
(* stack of the process ends.                                              *)
ExpansionEnds ==
    phase \in {"level", "copy", "temp"} ~>
        IF phase = "crashed" THEN coref # NULL /\ GoRound(coref)
        ELSE phase \in {"done", "idle", "lost"}
=============================================================================
