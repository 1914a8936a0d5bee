----------------------------- MODULE ParseTree ------------------------------
(***************************************************************************)
(* One level of a parse tree (cligen_object.c, cligen_parsetree.c): an     *)
(* array of objects that co_insert1 keeps in the order of co_eq by binary  *)
(* search, that co_find_one searches by name, and in which                 *)
(* cligen_alias_add (cligen_syntax.c) replaces a command.                  *)
(*                                                                         *)
(* co_eq is one comparison for objects of all kinds: two variables by type *)
(* and options, a variable and a command by name.  Names, types and the    *)
(* options of a variable are numbers in the order that the code gives      *)
(* them.  The recursive searches make one step for each call.  Indices     *)
(* count from 1.                                                           *)
(***************************************************************************)
EXTENDS Integers, Sequences, FiniteSets

CONSTANTS
    Object,     \* objects of the instance
    MaxLen,     \* bound: objects of a level
    NULL

Kinds == {"empty", "command", "variable", "reference"}
IsObject(co) ==
    /\ co.kind \in Kinds
    /\ co.name \in Nat /\ (co.name = 0 <=> co.kind = "empty")   \* 0: NULL
    /\ co.kind = "variable" => co.vtype \in Nat /\ co.options \in Nat

ASSUME ObjectAssumption ==
    /\ MaxLen \in Nat /\ NULL \notin Object
    /\ \A co \in Object : IsObject(co)

VARIABLES
    pt,         \* the level: a sequence of [co, alias]
    phase,      \* "idle", "search", "place", "find", "found"
    co1,        \* the object to insert
    key,        \* the name to find
    low, upper, \* parameters of co_insert_pos and co_search1
    pos,        \* what they return, 0 for NULL
    adding,     \* inside of cligen_alias_add
    retval,     \* of cligen_alias_add
    seen,       \* every object that was given to co_insert1
    written     \* the objects that a specification added to the level

search == <<co1, key, low, upper, pos>>
vars   == <<pt, phase, search, adding, retval, seen, written>>

----------------------------------------------------------------------------
Compare(a, b) == IF a < b THEN -1 ELSE IF a > b THEN 1 ELSE 0

(* empty objects are first and references last *)
KindRank == [empty |-> 0, command |-> 1, variable |-> 1, reference |-> 2]

CoEq(x, y) ==
    IF x.kind = y.kind
      THEN IF x.kind = "variable"
             THEN IF x.vtype # y.vtype THEN Compare(x.vtype, y.vtype)
                                       ELSE Compare(x.options, y.options)
             ELSE Compare(x.name, y.name)
      ELSE IF KindRank[x.kind] # KindRank[y.kind]
             THEN Compare(KindRank[x.kind], KindRank[y.kind])
             ELSE Compare(x.name, y.name)

Mid == (low + upper) \div 2
LowAfter(m)     == m + 1
UpperAfter(m)   == m - 1

Init ==
    /\ pt = <<>>
    /\ phase = "idle"
    /\ co1 = NULL /\ key = 0 /\ low = 1 /\ upper = 0 /\ pos = 0
    /\ adding = FALSE /\ retval = 0
    /\ seen = {} /\ written = {}

----------------------------------------------------------------------------
(***************************************************************************)
(* co_insert1: the search for the position, and what is done there.        *)
(***************************************************************************)
EndSearch ==        \* the variables of the search are gone
    /\ phase' = "idle"
    /\ co1' = NULL /\ key' = 0 /\ low' = 1 /\ upper' = 0 /\ pos' = 0

StartInsert(co) ==
    /\ phase' = "search"
    /\ co1' = co /\ seen' = seen \cup {co}
    /\ low' = 1 /\ upper' = Len(pt') + 1
    /\ key' = 0 /\ pos' = 0

Insert(co) ==
    /\ phase = "idle"
    /\ Len(pt) < MaxLen
    /\ UNCHANGED <<pt, adding, retval, written>>
    /\ StartInsert(co)

InsertAt(p) ==
    /\ phase' = "place" /\ pos' = p
    /\ UNCHANGED <<pt, co1, key, low, upper, adding, retval, seen, written>>

EqualTo(co) == CoEq(co1, co) = 0
BeforeEnd   == IF pt = <<>> THEN 1 ELSE Len(pt)     \* mutant: one too early
AtEnd       == Len(pt) + 1
Inside      == low <= upper /\ Mid <= Len(pt)

EndOfSearch == phase = "search" /\ upper < low /\ InsertAt(low)
PastTheEnd  == phase = "search" /\ low <= upper /\ ~Inside /\ InsertAt(AtEnd)
FindEqual   == phase = "search" /\ Inside /\ EqualTo(pt[Mid].co) /\ InsertAt(Mid)

Halve(comparison) ==
    /\ Inside
    /\ \/ comparison < 0 /\ upper' = UpperAfter(Mid) /\ UNCHANGED low
       \/ comparison > 0 /\ low' = LowAfter(Mid) /\ UNCHANGED upper
    /\ UNCHANGED <<pt, phase, co1, key, pos, adding, retval, seen, written>>

HalveInsert == phase = "search" /\ Halve(CoEq(co1, pt[Mid].co))

Inserted(p, entry) ==
    [j \in 1 .. Len(pt) + 1 |->
        IF j < p THEN pt[j] ELSE IF j = p THEN entry ELSE pt[j - 1]]

(* An equal object takes the place of the new one, which is freed. *)
Absorbs == pos <= Len(pt) /\ EqualTo(pt[pos].co)

StartFind(name) ==
    /\ phase' = "find"
    /\ key' = name /\ low' = 1 /\ upper' = Len(pt') + 1
    /\ pos' = 0 /\ UNCHANGED <<co1, seen>>

Placed == IF Absorbs THEN pt ELSE Inserted(pos, [co |-> co1, alias |-> FALSE])

Place ==
    /\ phase = "place"
    /\ pt' = Placed
    /\ \/ adding /\ StartFind(co1.name) /\ UNCHANGED written
       \/ /\ ~adding /\ EndSearch /\ UNCHANGED seen
          /\ written' = IF Absorbs THEN written ELSE written \cup {co1}
    /\ UNCHANGED <<adding, retval>>

----------------------------------------------------------------------------
(***************************************************************************)
(* co_find_one: the search by name.                                        *)
(***************************************************************************)
Names == {co.name : co \in Object} \ {0}

Find(name) ==
    /\ phase = "idle"
    /\ UNCHANGED <<pt, adding, retval, written>>
    /\ StartFind(name)

Answer(p) ==
    /\ phase' = "found" /\ pos' = p
    /\ UNCHANGED <<pt, co1, key, low, upper, adding, retval, seen, written>>

NotFound  == phase = "find" /\ ~Inside /\ Answer(0)
NameFound == phase = "find" /\ Inside /\ pt[Mid].co.name = key /\ Answer(Mid)
With(co)    == Compare(key, co.name)
HalveFind   == phase = "find" /\ Halve(With(pt[Mid].co))

Return(value) ==
    /\ EndSearch
    /\ adding' = FALSE /\ retval' = value
    /\ UNCHANGED <<seen, written>>

FindReturns ==
    /\ phase = "found" /\ ~adding
    /\ UNCHANGED pt
    /\ Return(retval)

----------------------------------------------------------------------------
(***************************************************************************)
(* cligen_alias_add: an alias of that name is removed, the new one is      *)
(* parsed, that is inserted, and looked up to be flagged.  The name is one *)
(* word.  A level with an empty object is left out: the code compares its  *)
(* name, NULL, by strcmp.                                                  *)
(***************************************************************************)
Named(name) == {j \in 1 .. Len(pt) : pt[j].co.name = name}
First(name) == {j \in Named(name) : \A k \in Named(name) : j <= k}

NeverTaken(name) == FALSE       \* mutant: a command of that name is no obstacle
IsTaken(name)    == \E j \in First(name) : ~pt[j].alias

Removed(p) == [j \in 1 .. Len(pt) - 1 |-> IF j < p THEN pt[j] ELSE pt[j + 1]]

AliasStart(co) ==
    /\ phase = "idle"
    /\ co.kind = "command"
    /\ \A j \in 1 .. Len(pt) : pt[j].co.kind # "empty"
    /\ Named(co.name) = {} => Len(pt) < MaxLen
    /\ UNCHANGED written

AliasExists(co) ==              \* errno EEXIST
    /\ AliasStart(co)
    /\ IsTaken(co.name)
    /\ retval' = -1
    /\ UNCHANGED <<pt, phase, search, adding, seen>>

KeepOld(name) == pt' = pt       \* mutant: no look at an old one
RemoveAlias(name) ==
    /\ ~IsTaken(name)
    /\ \/ Named(name) = {} /\ UNCHANGED pt
       \/ \E j \in First(name) : pt' = Removed(j)

AliasNotParsed(co) ==           \* no buffer or no scanner for the text
    /\ AliasStart(co)
    /\ RemoveAlias(co.name)
    /\ retval' = -1
    /\ UNCHANGED <<phase, search, adding, seen>>

AliasParsed(co) ==
    /\ AliasStart(co)
    /\ RemoveAlias(co.name)
    /\ adding' = TRUE /\ UNCHANGED retval
    /\ StartInsert(co)

(* The parser inserts a word as soon as it has read it; the text after the *)
(* word may be no specification.                                           *)
AliasParseError ==
    /\ phase = "place" /\ adding
    /\ pt' = Placed
    /\ Return(-1)

AliasLost ==                    \* errno ENOENT
    /\ phase = "found" /\ adding /\ pos = 0
    /\ UNCHANGED pt
    /\ Return(-1)

(* What was found is flagged.  If it is another object of that name it may *)
(* have no callback to set.                                                *)
AliasFlagged ==
    /\ phase = "found" /\ adding /\ pos # 0
    /\ pt' = [pt EXCEPT ![pos].alias = TRUE]
    /\ \/ Return(0)
       \/ Named(key) # {pos} /\ Return(-1)

----------------------------------------------------------------------------
Searching == EndOfSearch \/ PastTheEnd \/ FindEqual \/ HalveInsert
Finding   == NotFound \/ NameFound \/ HalveFind \/ FindReturns
Adding(co) == AliasExists(co) \/ AliasNotParsed(co) \/ AliasParsed(co)

Next ==
    \/ \E co \in Object : Insert(co)
    \/ Searching
    \/ Place
    \/ \E name \in Names : Find(name)
    \/ Finding
    \/ \E co \in Object : Adding(co)
    \/ AliasParseError
    \/ AliasLost
    \/ AliasFlagged

Spec == Init /\ [][Next]_vars

----------------------------------------------------------------------------
Entry == [co : Object, alias : BOOLEAN]

(* Types, and the ranges that the parameters of the searches keep. *)
TypeOK ==
    /\ pt \in Seq(Entry)
    /\ phase \in {"idle", "search", "place", "find", "found"}
    /\ co1 \in Object \cup {NULL}
    /\ key \in Nat
    /\ low \in Nat \ {0} /\ upper \in Nat
    /\ pos \in 0 .. Len(pt) + 1
    /\ phase \in {"search", "place"} => co1 \in Object
    /\ adding \in BOOLEAN /\ retval \in {0, -1}
    /\ seen \subseteq Object /\ written \subseteq Object

(***************************************************************************)
(* co_eq is an order on S; it is not one on every set of objects: a        *)
(* keyword can be between two variables by name which their types put in   *)
(* the other order.                                                        *)
(***************************************************************************)
Consistent(S) ==
    \A x, y, z \in S : CoEq(x, y) <= 0 /\ CoEq(y, z) <= 0 => CoEq(x, z) <= 0

(* co_eq is the order of the names, as on a level of commands.             *)
OrderedByName(S) == \A x, y \in S : CoEq(x, y) = Compare(x.name, y.name)

EqualIn(co) == \E j \in 1 .. Len(pt) : CoEq(co, pt[j].co) = 0

(* A level whose objects co_eq can put in order is in that order, and no   *)
(* two of its objects are equal, after any insertions and deletions: the   *)
(* binary search of co_insert_pos never misses the place of an object.     *)
LevelSorted ==
    Consistent(seen) =>
        \A i, j \in 1 .. Len(pt) : i < j => CoEq(pt[i].co, pt[j].co) < 0

(* On such a level co_insert1 finds the sister that is equal to the new    *)
(* object if there is one.                                                 *)
FindsSister == Consistent(seen) /\ phase = "place" => (Absorbs <=> EqualIn(co1))

(* On a level that is ordered by name co_find_one finds a name if and only *)
(* if an object has it.                                                    *)
FindsByName ==
    OrderedByName(seen) /\ phase = "found" => (pos # 0 <=> Named(key) # {})

(* On such a level cligen_alias_add ends well once the text was parsed: it *)
(* finds the command it has inserted, the only one of its name.            *)
AliasFindsItself ==
    OrderedByName(seen) /\ phase = "found" /\ adding =>
        pos # 0 /\ pt[pos].co = co1 /\ Named(key) = {pos}

(* On such a level no number of aliases, defined and defined anew, removes *)
(* an object that a specification put there.                               *)
WrittenStays ==
    OrderedByName(seen) =>
        \A co \in written : \E j \in 1 .. Len(pt) : pt[j].co = co
=============================================================================
