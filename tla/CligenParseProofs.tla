------------------------- MODULE CligenParseProofs --------------------------
(***************************************************************************)
(* Proofs about CligenParse: for every specification, of any length and    *)
(* nesting, the trees of the parser have exactly the command lines that    *)
(* the language gives to it (AcceptsWhatIsWritten).                        *)
(*                                                                         *)
(* The argument is a correspondence between the brackets of the language   *)
(* and the stack of the parser.  The language knows of a bracket only what *)
(* is in it; the parser knows only whole paths from the top object.  The   *)
(* invariant says that the objects saved when a bracket was opened are the *)
(* paths that lead to it, so that what is in the bracket, put behind them, *)
(* gives the objects that are current.                                     *)
(***************************************************************************)
EXTENDS CligenParse, SequenceTheorems, FiniteSetTheorems, TLAPS

Paths(list) == InList(list)

(***************************************************************************)
(* Sets of command lines.                                                  *)
(***************************************************************************)
LEMMA CatElements ==
    \A A, B, line : line \in Cat(A, B) <=> \E a \in A, b \in B : line = a \o b
  BY SMT DEF Cat

LEMMA CatOne ==
    \A A, b, line : line \in Cat(A, {b}) <=> \E a \in A : line = a \o b
  BY CatElements, SMTT(30)

LEMMA CatLines ==
    ASSUME NEW A \in SUBSET Line, NEW B \in SUBSET Line
    PROVE  Cat(A, B) \in SUBSET Line
  <1>1. \A a \in A, b \in B : a \o b \in Line
    BY DEF Line
  <1>2. ASSUME NEW line \in Cat(A, B)
        PROVE  line \in Line
    <2>1. PICK a \in A, b \in B : line = a \o b
      BY CatElements
    <2> QED
      BY <1>1, <2>1, Zenon
  <1> QED
    BY <1>2

LEMMA CatUnit ==
    ASSUME NEW A \in SUBSET Line
    PROVE  Cat(A, {<<>>}) = A
  <1>1. \A a \in A : a \o <<>> = a
    BY ConcatEmptySeq DEF Line
  <1>2. \A line : line \in Cat(A, {<<>>}) <=> \E a \in A : line = a \o <<>>
    BY CatOne, Zenon
  <1>3. \A line : line \in Cat(A, {<<>>}) <=> line \in A
    BY <1>1, <1>2
  <1> QED
    BY <1>3

LEMMA CatUnion ==
    ASSUME NEW A, NEW B, NEW C
    PROVE  Cat(A, B \cup C) = Cat(A, B) \cup Cat(A, C)
  BY CatElements

LEMMA CatEmpty ==
    ASSUME NEW A
    PROVE  Cat(A, {}) = {}
  BY CatElements

LEMMA CatAssociative ==
    ASSUME NEW A \in SUBSET Line, NEW B \in SUBSET Line, NEW C \in SUBSET Line
    PROVE  Cat(Cat(A, B), C) = Cat(A, Cat(B, C))
  <1>1. \A a \in A, b \in B, c \in C : (a \o b) \o c = a \o (b \o c)
    BY ConcatAssociative DEF Line
  <1>2. ASSUME NEW line \in Cat(Cat(A, B), C)
        PROVE  line \in Cat(A, Cat(B, C))
    <2>1. PICK ab \in Cat(A, B), c \in C : line = ab \o c
      BY <1>2, CatElements
    <2>2. PICK a \in A, b \in B : ab = a \o b
      BY CatElements
    <2>3. b \o c \in Cat(B, C) /\ line = a \o (b \o c)
      BY <1>1, <2>1, <2>2, CatElements
    <2> QED
      BY <2>3, CatElements
  <1>3. ASSUME NEW line \in Cat(A, Cat(B, C))
        PROVE  line \in Cat(Cat(A, B), C)
    <2>1. PICK a \in A, bc \in Cat(B, C) : line = a \o bc
      BY <1>3, CatElements
    <2>2. PICK b \in B, c \in C : bc = b \o c
      BY CatElements
    <2>3. a \o b \in Cat(A, B) /\ line = (a \o b) \o c
      BY <1>1, <2>1, <2>2, CatElements
    <2> QED
      BY <2>3, CatElements
  <1> QED
    BY <1>2, <1>3, Zenon

Children(A, w) == {Append(a, w) : a \in A}

LEMMA CatWord ==
    ASSUME NEW A \in SUBSET Line, NEW w \in Word
    PROVE  /\ <<w>> \in Line
           /\ Cat(A, {<<w>>}) = Children(A, w)
           /\ Children(A, w) \in SUBSET Line
  <1>1. <<w>> \in Line
    BY DEF Line
  <1>2. \A a \in A : a \o <<w>> = Append(a, w)
    BY DEF Line
  <1>3. Cat(A, {<<w>>}) = Children(A, w)
    <2>1. \A line : line \in Cat(A, {<<w>>}) <=> \E a \in A : line = a \o <<w>>
      BY CatOne, Zenon
    <2>2. \A line : line \in Children(A, w) <=> \E a \in A : line = Append(a, w)
      BY Zenon DEF Children
    <2>3. \A line : line \in Cat(A, {<<w>>}) <=> line \in Children(A, w)
      <3>1. ASSUME NEW line, NEW a \in A PROVE line = a \o <<w>> <=> line = Append(a, w)
        BY <1>2
      <3> QED
        BY <2>1, <2>2, <3>1, Zenon
    <2> QED
      BY <2>3
  <1>4. {<<w>>} \in SUBSET Line
    BY <1>1, Zenon
  <1> QED
    BY <1>1, <1>3, <1>4, CatLines

(***************************************************************************)
(* Lists of objects.                                                       *)
(***************************************************************************)
LEMMA PathsElements ==
    \A list, co : co \in Paths(list) <=> \E i \in 1..Len(list) : co = list[i]
  BY Zenon DEF Paths, InList

LEMMA PathsOfList ==
    ASSUME NEW list \in Seq(Line)
    PROVE  Paths(list) \in SUBSET Line
  BY DEF Paths, InList

LEMMA PathsOfConcat ==
    ASSUME NEW l \in Seq(Line), NEW m \in Seq(Line)
    PROVE  /\ l \o m \in Seq(Line)
           /\ Paths(l \o m) = Paths(l) \cup Paths(m)
  <1>1. l \o m \in Seq(Line)
    OBVIOUS
  <1>2. \A i \in 1..Len(l \o m) :
          \/ \E j \in 1..Len(l) : (l \o m)[i] = l[j]
          \/ \E j \in 1..Len(m) : (l \o m)[i] = m[j]
    <2> TAKE i \in 1..Len(l \o m)
    <2>1. CASE i <= Len(l)
      BY <2>1
    <2>2. CASE i > Len(l)
      <3>1. i - Len(l) \in 1..Len(m) /\ (l \o m)[i] = m[i - Len(l)]
        BY <2>2
      <3> QED
        BY <3>1, Zenon
    <2> QED
      BY <2>1, <2>2
  <1>3. \A i \in 1..Len(l) : (l \o m)[i] = l[i] /\ i \in 1..Len(l \o m)
    OBVIOUS
  <1>4. \A i \in 1..Len(m) : (l \o m)[i + Len(l)] = m[i] /\ i + Len(l) \in 1..Len(l \o m)
    OBVIOUS
  <1>5. ASSUME NEW co \in Paths(l \o m)
        PROVE  co \in Paths(l) \cup Paths(m)
    <2>1. PICK i \in 1..Len(l \o m) : co = (l \o m)[i]
      BY <1>5, PathsElements, Zenon
    <2> QED
      BY <1>2, <2>1, PathsElements, Zenon
  <1>6. ASSUME NEW co \in Paths(l)
        PROVE  co \in Paths(l \o m)
    <2>1. PICK i \in 1..Len(l) : co = l[i]
      BY <1>6, PathsElements, Zenon
    <2> QED
      BY <1>3, <2>1, PathsElements, Zenon
  <1>7. ASSUME NEW co \in Paths(m)
        PROVE  co \in Paths(l \o m)
    <2>1. PICK i \in 1..Len(m) : co = m[i]
      BY <1>7, PathsElements, Zenon
    <2> QED
      BY <1>4, <2>1, PathsElements, Zenon
  <1> QED
    BY <1>1, <1>5, <1>6, <1>7

LEMMA PathsOfChildren ==
    ASSUME NEW list \in Seq(Line), NEW w \in Word
    PROVE  LET new == [i \in 1..Len(list) |-> Append(list[i], w)]
           IN  /\ new \in Seq(Line)
               /\ Paths(new) = Children(Paths(list), w)
  <1> DEFINE new == [i \in 1..Len(list) |-> Append(list[i], w)]
  <1>1. \A i \in 1..Len(list) : Append(list[i], w) \in Line
    BY DEF Line
  <1>2. new \in Seq(Line)
    BY <1>1
  <1>3. Len(new) = Len(list)
    OBVIOUS
  <1>4. \A i \in 1..Len(list) : new[i] = Append(list[i], w)
    OBVIOUS
  <1> QED
    BY <1>2, <1>3, <1>4, Zenon DEF Paths, InList, Children

(***************************************************************************)
(* The correspondence of the open brackets with the stack and the current  *)
(* objects of the parser.  Of a bracket p and its level s in a tree of the *)
(* objects O, b is TRUE when a choice was written outside of brackets.     *)
(***************************************************************************)
BracketSet == [kind : {"(", "[", "{"}, prefix : SUBSET Line,
               alts : SUBSET Line, cur : SUBSET Line]
LevelSet   == [list : Seq(Line), saved : Seq(Line)]

Fresh(p) == p.kind = "{" /\ p.cur = {<<>>} /\ p.alts = {}
Nested(p, s, q, t) ==   \* the bracket q is the next one inside p
    IF q.kind = "{" THEN Fresh(p)
    ELSE Paths(t.list) = Cat(Paths(s.list), p.cur)
Level(p, s, b, O) ==
    /\ Paths(s.list) \subseteq O
    /\ p.kind # "{" => /\ Paths(s.saved) = Cat(Paths(s.list), p.alts)
                       /\ Paths(s.saved) \subseteq O
    /\ p.kind = "{" /\ ~b => Paths(s.list) = p.prefix /\ p.alts = {}
Outermost(p, s) == p.kind = "{" /\ Paths(s.list) = {<<>>}

Correspondence ==
    /\ nest \in Seq(BracketSet) /\ nest # <<>>
    /\ cy_stack \in Seq(LevelSet) /\ Len(cy_stack) = Len(nest)
    /\ cy_list \in Seq(Line)
    /\ Outermost(nest[1], cy_stack[1])
    /\ \A i \in 1..(Len(nest) - 1) :
          Nested(nest[i], cy_stack[i], nest[i + 1], cy_stack[i + 1])
    /\ \A i \in 1..Len(nest) : Level(nest[i], cy_stack[i], bare, Objects(cot))
    /\ Paths(cy_list) \subseteq Objects(cot)
    /\ Paths(cy_list) = Cat(Paths(cy_stack[Len(nest)].list), nest[Len(nest)].cur)

LEMMA DropLast ==
    ASSUME NEW E, NEW s \in Seq(E), Len(s) > 1
    PROVE  /\ SubSeq(s, 1, Len(s) - 1) \in Seq(E)
           /\ Len(SubSeq(s, 1, Len(s) - 1)) = Len(s) - 1
           /\ SubSeq(s, 1, Len(s) - 1) # <<>>
           /\ \A i \in 1..(Len(s) - 1) : SubSeq(s, 1, Len(s) - 1)[i] = s[i]
  <1>1. SubSeq(s, 1, Len(s) - 1) \in Seq(E)
    OBVIOUS
  <1>2. Len(SubSeq(s, 1, Len(s) - 1)) = Len(s) - 1
    OBVIOUS
  <1>3. \A i \in 1..(Len(s) - 1) : SubSeq(s, 1, Len(s) - 1)[i] = s[i]
    OBVIOUS
  <1>4. SubSeq(s, 1, Len(s) - 1) # <<>>
    <2>1. \A t \in Seq(E) : Len(t) > 0 => t # <<>>
      OBVIOUS
    <2>2. Len(SubSeq(s, 1, Len(s) - 1)) > 0
      BY <1>2
    <2> QED
      BY <1>1, <2>1, <2>2, Zenon
  <1> QED
    BY <1>1, <1>2, <1>3, <1>4, Zenon

(***************************************************************************)
(* Trees.                                                                  *)
(***************************************************************************)
CallsSet == UNION {[O -> Seq(Callback)] : O \in SUBSET Line}
MarkSet  == SUBSET ({"empty", "hide", "sets"} \X Line)
TreeSet  ==
    {t \in [callbacks : CallsSet, marks : MarkSet] :
        Top \in Objects(t) /\ \A m \in t.marks : m[2] \in Objects(t)}

LEMMA TreeParts ==
    ASSUME NEW t \in TreeSet
    PROVE  /\ Objects(t) \in SUBSET Line /\ Top \in Objects(t)
           /\ t.callbacks \in [Objects(t) -> Seq(Callback)]
           /\ t.marks \in MarkSet
           /\ \A mark, co : <<mark, co>> \in t.marks => co \in Objects(t)
           /\ t = [callbacks |-> t.callbacks, marks |-> t.marks]
  <1>1. t.callbacks \in CallsSet /\ t.marks \in MarkSet
    BY DEF TreeSet
  <1>2. PICK O \in SUBSET Line : t.callbacks \in [O -> Seq(Callback)]
    BY <1>1, Zenon DEF CallsSet
  <1>3. Objects(t) = O
    BY <1>2 DEF Objects
  <1>4. Top \in Objects(t) /\ \A m \in t.marks : m[2] \in Objects(t)
    BY DEF TreeSet
  <1>5. \A mark, co : <<mark, co>> \in t.marks => co \in Objects(t)
    <2> TAKE mark, co
    <2> HAVE <<mark, co>> \in t.marks
    <2>1. <<mark, co>>[2] \in Objects(t)
      BY <1>4, Zenon
    <2> QED
      BY <2>1
  <1>6. t = [callbacks |-> t.callbacks, marks |-> t.marks]
    BY DEF TreeSet
  <1> QED
    BY <1>1, <1>2, <1>3, <1>4, <1>5, <1>6, Zenon

LEMMA TreeFromParts ==
    ASSUME NEW O \in SUBSET Line, Top \in O, NEW calls \in [O -> Seq(Callback)],
           NEW marks \in MarkSet,
           \A mark, co : <<mark, co>> \in marks => co \in O
    PROVE  LET t == [callbacks |-> calls, marks |-> marks]
           IN  t \in TreeSet /\ Objects(t) = O
  <1> DEFINE t == [callbacks |-> calls, marks |-> marks]
  <1>1. Objects(t) = O
    BY DEF Objects
  <1>2. calls \in CallsSet
    BY Zenon DEF CallsSet
  <1>3. \A m \in t.marks : m[2] \in Objects(t)
    <2> TAKE m \in t.marks
    <2>1. m = <<m[1], m[2]>>
      BY DEF MarkSet
    <2>2. m \in marks
      OBVIOUS
    <2> QED
      BY <1>1, <2>1, <2>2
  <1> QED
    BY <1>1, <1>2, <1>3 DEF TreeSet

LEMMA EmptyTree == NewTree \in TreeSet /\ Objects(NewTree) = {Top} /\ Commands(NewTree) = {}
  <1>1. {Top} \in SUBSET Line
    BY DEF Top, Line
  <1>2. [co \in {Top} |-> <<>>] \in [{Top} -> Seq(Callback)]
    OBVIOUS
  <1>3. {} \in MarkSet
    BY DEF MarkSet
  <1>4. NewTree \in TreeSet /\ Objects(NewTree) = {Top}
    BY <1>1, <1>2, <1>3, TreeFromParts DEF NewTree
  <1> QED
    BY <1>4 DEF NewTree, Commands

(* A mark is set on objects of a tree. *)
LEMMA MarkTree ==
    ASSUME NEW t \in TreeSet, NEW cos \in SUBSET Objects(t),
           NEW mark \in {"empty", "hide", "sets"}
    PROVE  /\ Mark(t, mark, cos) \in TreeSet
           /\ Objects(Mark(t, mark, cos)) = Objects(t)
           /\ Mark(t, mark, cos).callbacks = t.callbacks
           /\ \A m, co : <<m, co>> \in Mark(t, mark, cos).marks <=>
                <<m, co>> \in t.marks \/ (m = mark /\ co \in cos)
           /\ Commands(Mark(t, mark, cos)) =
                Commands(t) \cup (IF mark = "empty" THEN cos ELSE {})
  <1> DEFINE marks == t.marks \cup ({mark} \X cos)
             new   == [callbacks |-> t.callbacks, marks |-> marks]
  <1>1. new = Mark(t, mark, cos)
    <2>1. t = [callbacks |-> t.callbacks, marks |-> t.marks]
      BY TreeParts
    <2>2. \A m : [t EXCEPT !.marks = m] = [callbacks |-> t.callbacks, marks |-> m]
      BY <2>1
    <2> QED
      BY <2>2 DEF Mark
  <1>2. \A m, co : <<m, co>> \in marks <=> <<m, co>> \in t.marks \/ (m = mark /\ co \in cos)
    OBVIOUS
  <1>3. marks \in MarkSet
    BY TreeParts DEF MarkSet
  <1>4. \A m, co : <<m, co>> \in marks => co \in Objects(t)
    BY <1>2, TreeParts, Zenon
  <1>5. new \in TreeSet /\ Objects(new) = Objects(t)
    BY <1>3, <1>4, TreeParts, TreeFromParts, Zenon
  <1>6. Commands(new) = Commands(t) \cup (IF mark = "empty" THEN cos ELSE {})
    <2>1. \A co : co \in Commands(new) <=> co \in Objects(t) /\ <<"empty", co>> \in marks
      BY <1>5 DEF Commands
    <2>2. \A co : co \in Commands(t) <=> co \in Objects(t) /\ <<"empty", co>> \in t.marks
      BY DEF Commands
    <2>3. \A co : <<"empty", co>> \in marks <=>
            <<"empty", co>> \in t.marks \/ ("empty" = mark /\ co \in cos)
      BY <1>2, Zenon
    <2> QED
      BY <2>1, <2>2, <2>3
  <1>7. new.callbacks = t.callbacks /\ new.marks = marks
    OBVIOUS
  <1> HIDE DEF new, marks
  <1> QED
    BY <1>1, <1>2, <1>5, <1>6, <1>7

(* The tree after a declaration; a new object has no callbacks. *)
CallsOf(t, co) == IF co \in Objects(t) THEN t.callbacks[co] ELSE <<>>

LEMMA InsertTree ==
    ASSUME NEW t \in TreeSet, NEW cos \in SUBSET Objects(t), NEW w \in Word
    PROVE  /\ InsertBelow(t, cos, w) \in TreeSet
           /\ Objects(InsertBelow(t, cos, w)) = Objects(t) \cup Children(cos, w)
           /\ InsertBelow(t, cos, w).marks = t.marks
           /\ \A co : co \in Objects(InsertBelow(t, cos, w)) =>
                InsertBelow(t, cos, w).callbacks[co] = CallsOf(t, co)
           /\ Commands(InsertBelow(t, cos, w)) = Commands(t)
  <1> DEFINE O     == Objects(t) \cup Children(cos, w)
             calls == [co \in O |-> IF co \in Objects(t) THEN t.callbacks[co] ELSE <<>>]
             tree  == [callbacks |-> calls, marks |-> t.marks]
  <1>1. tree = InsertBelow(t, cos, w)
    <2>1. t = [callbacks |-> t.callbacks, marks |-> t.marks]
      BY TreeParts
    <2>2. tree = [t EXCEPT !.callbacks = calls]
      BY <2>1
    <2> QED
      BY <2>2 DEF InsertBelow, Children
  <1>2. O \in SUBSET Line /\ Top \in O
    <2>1. Objects(t) \in SUBSET Line /\ Top \in Objects(t)
      BY TreeParts
    <2>2. Children(cos, w) \in SUBSET Line
      BY <2>1, CatWord
    <2> QED
      BY <2>1, <2>2
  <1>3. calls \in [O -> Seq(Callback)]
    BY TreeParts
  <1>4. tree \in TreeSet /\ Objects(tree) = O
    <2>1. \A m, co : <<m, co>> \in t.marks => co \in O
      BY TreeParts, Zenon
    <2> QED
      BY <1>2, <1>3, <2>1, TreeParts, TreeFromParts, Zenon
  <1>5. Commands(tree) = Commands(t)
    <2>1. \A co : <<"empty", co>> \in t.marks => co \in Objects(t)
      BY TreeParts, Zenon
    <2> QED
      BY <1>4, <2>1 DEF Commands
  <1>6. /\ tree.marks = t.marks
        /\ \A co \in O :
             tree.callbacks[co] = CallsOf(t, co)
    BY DEF CallsOf
  <1> HIDE DEF tree
  <1> QED
    BY <1>1, <1>4, <1>5, <1>6

LEMMA Inserted ==
    ASSUME cot \in TreeSet, Paths(cy_list) \in SUBSET Objects(cot), NEW w \in Word,
           cot' = InsertBelow(cot, Paths(cy_list), w)
    PROVE  /\ cot' \in TreeSet
           /\ Objects(cot)' = Objects(cot) \cup Children(Paths(cy_list), w)
           /\ cot'.marks = cot.marks
           /\ \A co : co \in Objects(cot)' => cot'.callbacks[co] = CallsOf(cot, co)
           /\ Commands(cot)' = Commands(cot)
  <1> DEFINE grown == InsertBelow(cot, Paths(cy_list), w)
  <1>1. /\ grown \in TreeSet
        /\ Objects(grown) = Objects(cot) \cup Children(Paths(cy_list), w)
        /\ grown.marks = cot.marks
        /\ Commands(grown) = Commands(cot)
    BY InsertTree
  <1>2. \A co : co \in Objects(grown) => grown.callbacks[co] = CallsOf(cot, co)
    BY InsertTree, Zenon
  <1>3. cot' = grown
    OBVIOUS
  <1> HIDE DEF grown
  <1> QED
    BY <1>1, <1>2, <1>3

LEMMA TimesIsNat ==
    ASSUME NEW list \in Seq(Line), NEW co
    PROVE  Times(co, list) \in Nat
  <1>1. IsFiniteSet(1..Len(list))
    BY FS_Interval
  <1>2. IsFiniteSet({i \in 1..Len(list) : list[i] = co})
    BY <1>1, FS_Subset
  <1> QED
    BY <1>2, FS_CardinalityType DEF Times

LEMMA RepeatIsSeq ==
    ASSUME NEW s \in Seq(Callback), NEW n \in Nat
    PROVE  Repeat(s, n) \in Seq(Callback)
  <1>1. n * Len(s) \in Nat
    OBVIOUS
  <1>2. \A i \in 1..(n * Len(s)) : ((i - 1) % Len(s)) + 1 \in 1..Len(s)
    <2> TAKE i \in 1..(n * Len(s))
    <2>1. Len(s) > 0
      OBVIOUS
    <2> QED
      BY <2>1
  <1> QED
    BY <1>1, <1>2 DEF Repeat

(* The tree after the end of a command. *)
LEMMA TerminateTree ==
    ASSUME NEW t \in TreeSet, cy_list \in Seq(Line), Paths(cy_list) \subseteq Objects(t),
           cy_callbacks \in Seq(Callback), cy_hide \in BOOLEAN
    PROVE  /\ Terminated(t) \in TreeSet
           /\ Objects(Terminated(t)) = Objects(t)
           /\ \A co \in Objects(t) :
                Terminated(t).callbacks[co] =
                    t.callbacks[co] \o Repeat(cy_callbacks, Times(co, cy_list))
           /\ \A m, co : <<m, co>> \in Terminated(t).marks <=>
                \/ <<m, co>> \in t.marks
                \/ m = "hide" /\ cy_hide /\ co \in Paths(cy_list)
                \/ m = "empty" /\ co \in Paths(cy_list)
           /\ Commands(Terminated(t)) = Commands(t) \cup Paths(cy_list)
  <1> DEFINE calls  == [co \in Objects(t) |->
                          t.callbacks[co] \o Repeat(cy_callbacks, Times(co, cy_list))]
             called == [callbacks |-> calls, marks |-> t.marks]
             hidden == IF cy_hide THEN Mark(called, "hide", Paths(cy_list)) ELSE called
  <1>1. Terminated(t) = Mark(hidden, "empty", Paths(cy_list))
    <2>1. t = [callbacks |-> t.callbacks, marks |-> t.marks]
      BY TreeParts
    <2>2. \A c : [t EXCEPT !.callbacks = c] = [callbacks |-> c, marks |-> t.marks]
      BY <2>1
    <2> QED
      BY <2>2 DEF Terminated, Paths
  <1>2. calls \in [Objects(t) -> Seq(Callback)]
    <2> SUFFICES ASSUME NEW co \in Objects(t)
                 PROVE  t.callbacks[co] \o Repeat(cy_callbacks, Times(co, cy_list))
                            \in Seq(Callback)
      BY Zenon
    <2>1. t.callbacks[co] \in Seq(Callback)
      BY TreeParts
    <2>2. Repeat(cy_callbacks, Times(co, cy_list)) \in Seq(Callback)
      BY TimesIsNat, RepeatIsSeq
    <2> QED
      BY <2>1, <2>2
  <1>3. called \in TreeSet /\ Objects(called) = Objects(t)
    BY <1>2, TreeParts, TreeFromParts, Zenon
  <1>4. Commands(called) = Commands(t)
    BY <1>3 DEF Commands
  <1>5. called.callbacks = calls /\ called.marks = t.marks
    OBVIOUS
  <1>6. /\ hidden \in TreeSet /\ Objects(hidden) = Objects(t)
        /\ hidden.callbacks = calls
        /\ \A m, co : <<m, co>> \in hidden.marks <=>
             <<m, co>> \in t.marks \/ (m = "hide" /\ cy_hide /\ co \in Paths(cy_list))
        /\ Commands(hidden) = Commands(t)
    <2> HIDE DEF calls, called
    <2>1. CASE cy_hide
      <3>1. hidden = Mark(called, "hide", Paths(cy_list))
        BY <2>1
      <3> HIDE DEF hidden
      <3>2. Paths(cy_list) \in SUBSET Objects(called)
        BY <1>3
      <3>3. /\ hidden \in TreeSet /\ Objects(hidden) = Objects(called)
            /\ hidden.callbacks = called.callbacks
            /\ \A m, co : <<m, co>> \in hidden.marks <=>
                 <<m, co>> \in called.marks \/ (m = "hide" /\ co \in Paths(cy_list))
            /\ Commands(hidden) = Commands(called) \cup {}
        BY <1>3, <3>1, <3>2, MarkTree
      <3> QED
        BY <1>3, <1>4, <1>5, <2>1, <3>3
    <2>2. CASE ~cy_hide
      <3>1. hidden = called
        BY <2>2
      <3> HIDE DEF hidden
      <3> QED
        BY <1>3, <1>4, <1>5, <2>2, <3>1
    <2> QED
      BY <2>1, <2>2
  <1> DEFINE new == Mark(hidden, "empty", Paths(cy_list))
  <1> HIDE DEF hidden
  <1>7. /\ new \in TreeSet /\ Objects(new) = Objects(hidden)
        /\ new.callbacks = hidden.callbacks
        /\ \A m, co : <<m, co>> \in new.marks <=>
             <<m, co>> \in hidden.marks \/ (m = "empty" /\ co \in Paths(cy_list))
        /\ Commands(new) = Commands(hidden) \cup Paths(cy_list)
    <2>1. Paths(cy_list) \in SUBSET Objects(hidden)
      BY <1>6
    <2> QED
      BY <1>6, <2>1, MarkTree
  <1>8. \A co \in Objects(t) :
            calls[co] = t.callbacks[co] \o Repeat(cy_callbacks, Times(co, cy_list))
    BY Zenon
  <1> HIDE DEF new, calls
  <1>9. Terminated(t) = new
    BY <1>1 DEF new
  <1> QED
    BY <1>6, <1>7, <1>8, <1>9

(* The tree after ctx_push. *)
LEMMA PushTree ==
    ASSUME NEW t \in TreeSet, cy_list \in Seq(Line), Paths(cy_list) \subseteq Objects(t),
           cy_hide \in BOOLEAN, NEW sets \in BOOLEAN
    PROVE  /\ Pushed(t, sets) \in TreeSet
           /\ Objects(Pushed(t, sets)) = Objects(t)
           /\ Pushed(t, sets).callbacks = t.callbacks
           /\ \A m, co : <<m, co>> \in Pushed(t, sets).marks <=>
                \/ <<m, co>> \in t.marks
                \/ m = "hide" /\ cy_hide /\ co \in Paths(cy_list)
                \/ m = "sets" /\ sets /\ co \in Paths(cy_list)
           /\ Commands(Pushed(t, sets)) = Commands(t)
  <1> DEFINE hidden == IF cy_hide THEN Mark(t, "hide", Paths(cy_list)) ELSE t
  <1>1. /\ hidden \in TreeSet /\ Objects(hidden) = Objects(t)
        /\ hidden.callbacks = t.callbacks
        /\ \A m, co : <<m, co>> \in hidden.marks <=>
             <<m, co>> \in t.marks \/ (m = "hide" /\ cy_hide /\ co \in Paths(cy_list))
        /\ Commands(hidden) = Commands(t)
    <2>1. CASE cy_hide
      <3>1. hidden = Mark(t, "hide", Paths(cy_list))
        BY <2>1
      <3> HIDE DEF hidden
      <3>2. /\ hidden \in TreeSet /\ Objects(hidden) = Objects(t)
            /\ hidden.callbacks = t.callbacks
            /\ \A m, co : <<m, co>> \in hidden.marks <=>
                 <<m, co>> \in t.marks \/ (m = "hide" /\ co \in Paths(cy_list))
            /\ Commands(hidden) = Commands(t) \cup {}
        BY <3>1, MarkTree
      <3> QED
        BY <2>1, <3>2
    <2>2. CASE ~cy_hide
      BY <2>2
    <2> QED
      BY <2>1, <2>2
  <1>2. Pushed(t, sets) = IF sets THEN Mark(hidden, "sets", Paths(cy_list)) ELSE hidden
    BY DEF Pushed, Paths
  <1> HIDE DEF hidden
  <1>3. CASE sets
    <2>1. Paths(cy_list) \in SUBSET Objects(hidden)
      BY <1>1
    <2> DEFINE new == Mark(hidden, "sets", Paths(cy_list))
    <2>2. /\ new \in TreeSet /\ Objects(new) = Objects(hidden)
          /\ new.callbacks = hidden.callbacks
          /\ \A m, co : <<m, co>> \in new.marks <=>
               <<m, co>> \in hidden.marks \/ (m = "sets" /\ co \in Paths(cy_list))
          /\ Commands(new) = Commands(hidden) \cup {}
      BY <1>1, <2>1, MarkTree
    <2>3. Pushed(t, sets) = new
      BY <1>2, <1>3
    <2> HIDE DEF new
    <2> QED
      BY <1>1, <1>3, <2>2, <2>3
  <1>4. CASE ~sets
    BY <1>1, <1>2, <1>4
  <1> QED
    BY <1>3, <1>4

(***************************************************************************)
(* The inductive invariant.                                                *)
(***************************************************************************)
HeadSet == [name : TreeName, tree : TreeSet]
StateInv ==
    /\ phase \in Phase
    /\ bare \in BOOLEAN /\ carried \in BOOLEAN
    /\ options \in [calls : Seq(Callback), hide : BOOLEAN]
    /\ cy_callbacks \in Seq(Callback) /\ cy_hide \in BOOLEAN
    /\ name \in TreeName /\ cy_treename = name
    /\ cot \in TreeSet
    /\ heads \in Seq(HeadSet)
StackInv ==
    /\ Correspondence
    /\ phase = "line" => Fresh(Inner)
IInv == StateInv /\ StackInv /\ AcceptsWhatIsWritten

(* The innermost bracket and the level on top of the stack.                *)
LEMMA OnTop ==
    ASSUME StackInv, StateInv
    PROVE  /\ Inner \in BracketSet /\ cs \in LevelSet
           /\ Len(nest) \in Nat \ {0} /\ Len(cy_stack) = Len(nest)
           /\ nest \in Seq(BracketSet) /\ cy_stack \in Seq(LevelSet)
           /\ cy_list \in Seq(Line)
           /\ Paths(cy_list) \subseteq Objects(cot)
           /\ Paths(cy_list) = Cat(Paths(cs.list), Inner.cur)
           /\ Len(nest) = 1 => Outermost(Inner, cs)
           /\ Level(Inner, cs, bare, Objects(cot))
           /\ Paths(cs.list) \in SUBSET Line
           /\ cy_stack = [cy_stack EXCEPT ![Len(cy_stack)] = cs]
  <1>1. /\ nest \in Seq(BracketSet) /\ nest # <<>>
        /\ cy_stack \in Seq(LevelSet) /\ Len(cy_stack) = Len(nest)
        /\ cy_list \in Seq(Line)
        /\ Len(nest) \in Nat \ {0}
    BY DEF StackInv, Correspondence
  <1>2. Inner \in BracketSet /\ cs \in LevelSet
    BY <1>1 DEF Inner, cs
  <1>3. cy_stack = [cy_stack EXCEPT ![Len(cy_stack)] = cs]
    BY <1>1 DEF cs
  <1>4. /\ Paths(cy_list) \subseteq Objects(cot)
        /\ Paths(cy_list) = Cat(Paths(cs.list), Inner.cur)
        /\ Len(nest) = 1 => Outermost(Inner, cs)
        /\ Level(Inner, cs, bare, Objects(cot))
    <2>1. Len(nest) \in 1..Len(nest)
      BY <1>1
    <2> QED
      BY <1>1, <2>1 DEF StackInv, Correspondence, Inner, cs
  <1>5. Paths(cs.list) \in SUBSET Line
    <2>1. cs.list \in Seq(Line)
      BY <1>2 DEF LevelSet
    <2> QED
      BY <2>1, PathsOfList
  <1> QED
    BY <1>1, <1>2, <1>3, <1>4, <1>5

(* The bracket around it.                                                  *)
LEMMA Around ==
    ASSUME StackInv, StateInv, Len(nest) > 1
    PROVE  LET outer == nest[Len(nest) - 1]
               level == cy_stack[Len(cy_stack) - 1]
           IN  /\ outer \in BracketSet /\ level \in LevelSet
               /\ Nested(outer, level, Inner, cs)
               /\ Level(outer, level, bare, Objects(cot))
               /\ Paths(level.list) \in SUBSET Line
               /\ Paths(level.list) \subseteq Objects(cot)
               /\ Len(nest) = 2 => Outermost(outer, level)
               /\ Len(nest) > 2 =>
                    Nested(nest[Len(nest) - 2], cy_stack[Len(nest) - 2], outer, level)
  <1> DEFINE outer == nest[Len(nest) - 1]
             level == cy_stack[Len(cy_stack) - 1]
  <1>1. /\ nest \in Seq(BracketSet) /\ cy_stack \in Seq(LevelSet)
        /\ Len(nest) \in Nat \ {0} /\ Len(cy_stack) = Len(nest)
    BY OnTop
  <1>2. /\ Len(nest) - 1 \in 1..(Len(nest) - 1) /\ Len(nest) - 1 \in 1..Len(nest)
        /\ (Len(nest) - 1) + 1 = Len(nest)
    BY <1>1
  <1>3. outer \in BracketSet /\ level \in LevelSet
    BY <1>1, <1>2
  <1>4. Nested(outer, level, Inner, cs) /\ Level(outer, level, bare, Objects(cot))
    <2>1. Nested(nest[Len(nest) - 1], cy_stack[Len(nest) - 1],
                 nest[(Len(nest) - 1) + 1], cy_stack[(Len(nest) - 1) + 1])
      BY <1>2, Zenon DEF StackInv, Correspondence
    <2> QED
      BY <1>1, <1>2, <2>1 DEF StackInv, Correspondence, Inner, cs
  <1>5. Paths(level.list) \in SUBSET Line
    <2>1. level.list \in Seq(Line)
      BY <1>3 DEF LevelSet
    <2> QED
      BY <2>1, PathsOfList
  <1>6. Paths(level.list) \subseteq Objects(cot)
    BY <1>4 DEF Level
  <1>7. Len(nest) = 2 => Outermost(outer, level)
    BY <1>1 DEF StackInv, Correspondence
  <1>8. ASSUME Len(nest) > 2
        PROVE  Nested(nest[Len(nest) - 2], cy_stack[Len(nest) - 2], outer, level)
    <2> DEFINE i == Len(nest) - 2
    <2>1. i \in 1..(Len(nest) - 1) /\ i + 1 = Len(nest) - 1 /\ i + 1 = Len(cy_stack) - 1
      BY <1>1, <1>8
    <2> HIDE DEF i
    <2>2. Nested(nest[i], cy_stack[i], nest[i + 1], cy_stack[i + 1])
      BY <2>1, Zenon DEF StackInv, Correspondence
    <2> QED
      BY <2>1, <2>2 DEF i
  <1> QED
    BY <1>3, <1>4, <1>5, <1>6, <1>7, <1>8

(* In braces, and when no choice was written outside of brackets, the      *)
(* current objects are the line that is open.                              *)
LEMMA ListIsOpenLine ==
    ASSUME StackInv, StateInv, InBraces, ~bare
    PROVE  Paths(cy_list) = OpenLine
  <1>1. Paths(cs.list) = Inner.prefix /\ Inner.alts = {}
    BY OnTop DEF Level, InBraces
  <1>2. OpenLine = Cat(Inner.prefix, Inner.cur)
    <2>1. Inner.alts \cup Inner.cur = Inner.cur
      BY <1>1
    <2> QED
      BY <2>1 DEF OpenLine
  <1> QED
    BY <1>1, <1>2, OnTop

LEMMA TopPaths == Paths(<<Top>>) = {Top} /\ <<Top>> \in Seq(Line)
  BY DEF Paths, InList, Top, Line

LEMMA Singleton ==
    ASSUME NEW E, NEW e \in E
    PROVE  /\ <<e>> \in Seq(E) /\ <<e>> # <<>>
           /\ Len(<<e>>) = 1 /\ <<e>>[1] = e
  OBVIOUS

LEMMA InitCorresponds ==
    ASSUME Init
    PROVE  Correspondence
  <1> DEFINE p == Bracket("{", {<<>>})
             s == [list |-> <<Top>>, saved |-> <<>>]
  <1>1. <<>> \in Line /\ {<<>>} \in SUBSET Line /\ {} \in SUBSET Line
    BY DEF Line
  <1>2. p \in BracketSet /\ p.kind = "{" /\ p.prefix = {<<>>} /\ p.alts = {}
        /\ p.cur = {<<>>}
    BY <1>1 DEF Bracket, BracketSet
  <1>3. s \in LevelSet /\ Paths(s.list) = {<<>>}
    BY TopPaths DEF LevelSet, Top
  <1> HIDE DEF p, s
  <1>4. nest = <<p>> /\ cy_stack = <<s>> /\ cy_list = <<Top>> /\ bare = FALSE
    BY DEF Init, LanguageInit, p, s
  <1>5. Objects(cot) = {<<>>}
    BY EmptyTree DEF Init, Top
  <1>6. Level(p, s, bare, Objects(cot)) /\ Outermost(p, s)
    BY <1>2, <1>3, <1>5 DEF Level, Outermost
  <1>7. Paths(cy_list) = {<<>>} /\ cy_list \in Seq(Line)
    BY <1>4, TopPaths DEF Top
  <1>8. Paths(cy_list) = Cat(Paths(s.list), p.cur)
    BY <1>1, <1>2, <1>3, <1>7, CatUnit
  <1>9. /\ nest \in Seq(BracketSet) /\ nest # <<>> /\ Len(nest) = 1 /\ nest[1] = p
        /\ cy_stack \in Seq(LevelSet) /\ Len(cy_stack) = 1 /\ cy_stack[1] = s
    BY <1>2, <1>3, <1>4, Singleton
  <1> QED
    BY <1>5, <1>6, <1>7, <1>8, <1>9 DEF Correspondence

(* A step that keeps the first k levels has to be right on the others.     *)
LEMMA KeepsLevels ==
    ASSUME StackInv, StateInv, bare' \in BOOLEAN, bare => bare',
           Objects(cot) \subseteq Objects(cot)',
           NEW k \in Nat, k <= Len(nest), k <= Len(nest'),
           nest' \in Seq(BracketSet), nest' # <<>>,
           cy_stack' \in Seq(LevelSet), Len(cy_stack') = Len(nest'),
           cy_list' \in Seq(Line), Paths(cy_list)' \subseteq Objects(cot)',
           \A i \in 1..k : nest'[i] = nest[i] /\ cy_stack'[i] = cy_stack[i],
           k = 0 => Outermost(nest'[1], cy_stack'[1]),
           \A i \in 1..(Len(nest') - 1) :
               i >= k => Nested(nest'[i], cy_stack'[i], nest'[i + 1], cy_stack'[i + 1]),
           \A i \in 1..Len(nest') :
               i > k => Level(nest'[i], cy_stack'[i], bare', Objects(cot)'),
           Paths(cy_list)' = Cat(Paths(cy_stack'[Len(nest')].list), nest'[Len(nest')].cur)
    PROVE  Correspondence'
  <1>1. /\ Len(nest) \in Nat /\ Len(nest') \in Nat /\ bare \in BOOLEAN
        /\ Correspondence
    BY OnTop DEF StateInv, StackInv, Correspondence
  <1>2. Outermost(nest'[1], cy_stack'[1])
    <2>1. CASE k > 0
      <3>1. 1 \in 1..k
        BY <2>1
      <3> QED
        BY <1>1, <3>1 DEF Correspondence
    <2> QED
      BY <2>1
  <1>3. ASSUME NEW i \in 1..(Len(nest') - 1)
        PROVE  Nested(nest'[i], cy_stack'[i], nest'[i + 1], cy_stack'[i + 1])
    <2>1. CASE i < k
      <3>1. i \in 1..k /\ i + 1 \in 1..k /\ i \in 1..(Len(nest) - 1)
        BY <1>1, <2>1
      <3>2. Nested(nest[i], cy_stack[i], nest[i + 1], cy_stack[i + 1])
        BY <1>1, <3>1, Zenon DEF Correspondence
      <3> QED
        BY <3>1, <3>2
    <2> QED
      BY <2>1
  <1>4. ASSUME NEW i \in 1..Len(nest')
        PROVE  Level(nest'[i], cy_stack'[i], bare', Objects(cot)')
    <2>1. CASE i <= k
      <3>1. i \in 1..k /\ i \in 1..Len(nest)
        BY <1>1, <2>1
      <3>2. Level(nest[i], cy_stack[i], bare, Objects(cot))
        BY <1>1, <3>1, Zenon DEF Correspondence
      <3>3. Level(nest[i], cy_stack[i], bare', Objects(cot)')
        BY <1>1, <3>2, Zenon DEF Level
      <3> QED
        BY <3>1, <3>3
    <2> QED
      BY <2>1
  <1> QED
    BY <1>2, <1>3, <1>4 DEF Correspondence

(* A step changes the innermost bracket and the top of the stack.          *)
LEMMA InnerChanges ==
    ASSUME StackInv, StateInv, bare' \in BOOLEAN, bare => bare',
           Objects(cot) \subseteq Objects(cot)',
           NEW p \in BracketSet, NEW s \in LevelSet,
           nest' = [nest EXCEPT ![Len(nest)] = p],
           cy_stack' = [cy_stack EXCEPT ![Len(cy_stack)] = s],
           Len(nest) = 1 => Outermost(p, s),
           Len(nest) > 1 => Nested(nest[Len(nest) - 1], cy_stack[Len(nest) - 1], p, s),
           Level(p, s, bare', Objects(cot)'),
           cy_list' \in Seq(Line), Paths(cy_list)' \subseteq Objects(cot)',
           Paths(cy_list)' = Cat(Paths(s.list), p.cur)
    PROVE  Correspondence'
  <1> DEFINE k == Len(nest) - 1
  <1>1. /\ nest \in Seq(BracketSet) /\ cy_stack \in Seq(LevelSet)
        /\ Len(nest) \in Nat \ {0} /\ Len(cy_stack) = Len(nest)
        /\ k \in Nat /\ k <= Len(nest) /\ Len(nest) = k + 1
    BY OnTop
  <1>2. /\ nest' \in Seq(BracketSet) /\ Len(nest') = Len(nest) /\ nest' # <<>>
        /\ nest'[k + 1] = p /\ \A i \in 1..k : nest'[i] = nest[i]
    BY <1>1
  <1>3. /\ cy_stack' \in Seq(LevelSet) /\ Len(cy_stack') = Len(nest')
        /\ cy_stack'[k + 1] = s /\ \A i \in 1..k : cy_stack'[i] = cy_stack[i]
    BY <1>1, <1>2
  <1> HIDE DEF k
  <1>4. k = 0 => Outermost(nest'[1], cy_stack'[1])
    BY <1>1, <1>2, <1>3
  <1>5. ASSUME NEW i \in 1..(Len(nest') - 1), i >= k
        PROVE  Nested(nest'[i], cy_stack'[i], nest'[i + 1], cy_stack'[i + 1])
    <2>1. i = k /\ k \in 1..k /\ Len(nest) > 1 /\ Len(nest) - 1 = k
      BY <1>1, <1>2, <1>5
    <2> QED
      BY <1>2, <1>3, <2>1
  <1>6. ASSUME NEW i \in 1..Len(nest'), i > k
        PROVE  Level(nest'[i], cy_stack'[i], bare', Objects(cot)')
    <2>1. i = k + 1
      BY <1>1, <1>2, <1>6
    <2> QED
      BY <1>2, <1>3, <2>1
  <1>7. /\ k <= Len(nest')
        /\ Paths(cy_list)' = Cat(Paths(cy_stack'[Len(nest')].list), nest'[Len(nest')].cur)
    BY <1>1, <1>2, <1>3
  <1> QED
    BY <1>1, <1>2, <1>3, <1>4, <1>5, <1>6, <1>7, KeepsLevels

(* A step changes the innermost bracket and opens another one in it.       *)
LEMMA BracketOpens ==
    ASSUME StackInv, StateInv, bare' \in BOOLEAN, bare => bare',
           Objects(cot) \subseteq Objects(cot)',
           NEW p \in BracketSet, NEW q \in BracketSet, NEW t \in LevelSet,
           nest' = Append([nest EXCEPT ![Len(nest)] = p], q),
           cy_stack' = Append(cy_stack, t),
           Len(nest) = 1 => Outermost(p, cs),
           Len(nest) > 1 => Nested(nest[Len(nest) - 1], cy_stack[Len(nest) - 1], p, cs),
           Nested(p, cs, q, t),
           Level(p, cs, bare', Objects(cot)'),
           Level(q, t, bare', Objects(cot)'),
           cy_list' \in Seq(Line), Paths(cy_list)' \subseteq Objects(cot)',
           Paths(cy_list)' = Cat(Paths(t.list), q.cur)
    PROVE  Correspondence'
  <1> DEFINE k == Len(nest) - 1
             n == [nest EXCEPT ![Len(nest)] = p]
  <1>1. /\ nest \in Seq(BracketSet) /\ cy_stack \in Seq(LevelSet)
        /\ Len(nest) \in Nat \ {0} /\ Len(cy_stack) = Len(nest)
        /\ k \in Nat /\ k <= Len(nest) /\ Len(nest) = k + 1
    BY OnTop
  <1>2. /\ n \in Seq(BracketSet) /\ Len(n) = k + 1
        /\ n[k + 1] = p /\ \A i \in 1..k : n[i] = nest[i]
    BY <1>1
  <1>3. cy_stack[k + 1] = cs
    BY <1>1 DEF cs
  <1>4. nest' = Append(n, q)
    OBVIOUS
  <1> HIDE DEF k, n
  <1>5. /\ nest' \in Seq(BracketSet) /\ Len(nest') = k + 2 /\ nest' # <<>>
        /\ nest'[k + 1] = p /\ nest'[k + 2] = q /\ \A i \in 1..k : nest'[i] = nest[i]
    BY <1>1, <1>2, <1>4
  <1>6. /\ cy_stack' \in Seq(LevelSet) /\ Len(cy_stack') = Len(nest')
        /\ cy_stack'[k + 1] = cs /\ cy_stack'[k + 2] = t
        /\ \A i \in 1..k : cy_stack'[i] = cy_stack[i]
    BY <1>1, <1>3, <1>5
  <1>7. k = 0 => Outermost(nest'[1], cy_stack'[1])
    BY <1>1, <1>5, <1>6
  <1>8. ASSUME NEW i \in 1..(Len(nest') - 1), i >= k
        PROVE  Nested(nest'[i], cy_stack'[i], nest'[i + 1], cy_stack'[i + 1])
    <2>1. CASE i = k
      <3>1. k \in 1..k /\ Len(nest) > 1 /\ Len(nest) - 1 = k
        BY <1>1, <2>1
      <3> QED
        BY <1>5, <1>6, <2>1, <3>1
    <2>2. CASE i # k
      <3>1. i = k + 1 /\ i + 1 = k + 2
        BY <1>1, <1>5, <1>8, <2>2
      <3> QED
        BY <1>5, <1>6, <3>1
    <2> QED
      BY <2>1, <2>2
  <1>9. ASSUME NEW i \in 1..Len(nest'), i > k
        PROVE  Level(nest'[i], cy_stack'[i], bare', Objects(cot)')
    <2>1. i = k + 1 \/ i = k + 2
      BY <1>1, <1>5, <1>9
    <2> QED
      BY <1>5, <1>6, <2>1
  <1>10. /\ k <= Len(nest')
         /\ Paths(cy_list)' = Cat(Paths(cy_stack'[Len(nest')].list), nest'[Len(nest')].cur)
    BY <1>1, <1>5, <1>6
  <1> QED
    BY <1>1, <1>5, <1>6, <1>7, <1>8, <1>9, <1>10, KeepsLevels

(* A step closes the innermost bracket and changes the one around it.      *)
LEMMA BracketCloses ==
    ASSUME StackInv, StateInv, bare' \in BOOLEAN, bare => bare',
           Objects(cot) \subseteq Objects(cot)', Len(nest) > 1,
           NEW p \in BracketSet, NEW s, s = cy_stack[Len(cy_stack) - 1],
           nest' = [SubSeq(nest, 1, Len(nest) - 1) EXCEPT ![Len(nest) - 1] = p],
           cy_stack' = SubSeq(cy_stack, 1, Len(cy_stack) - 1),
           Len(nest) = 2 => Outermost(p, s),
           Len(nest) > 2 => Nested(nest[Len(nest) - 2], cy_stack[Len(nest) - 2], p, s),
           Level(p, s, bare', Objects(cot)'),
           cy_list' \in Seq(Line), Paths(cy_list)' \subseteq Objects(cot)',
           Paths(cy_list)' = Cat(Paths(s.list), p.cur)
    PROVE  Correspondence'
  <1> DEFINE k == Len(nest) - 2
             n == SubSeq(nest, 1, Len(nest) - 1)
  <1>1. /\ nest \in Seq(BracketSet) /\ cy_stack \in Seq(LevelSet)
        /\ Len(nest) \in Nat \ {0} /\ Len(cy_stack) = Len(nest) /\ Len(cy_stack) > 1
        /\ k \in Nat /\ k <= Len(nest) /\ Len(nest) = k + 2
    BY OnTop
  <1>2. /\ n \in Seq(BracketSet) /\ Len(n) = k + 1
        /\ \A i \in 1..(k + 1) : n[i] = nest[i]
    <2>1. /\ n \in Seq(BracketSet) /\ Len(n) = Len(nest) - 1
          /\ \A i \in 1..(Len(nest) - 1) : n[i] = nest[i]
      BY <1>1, DropLast, Zenon
    <2> QED
      BY <1>1, <2>1
  <1>3. nest' = [n EXCEPT ![Len(n)] = p]
    BY <1>1, <1>2
  <1>4. /\ cy_stack' \in Seq(LevelSet) /\ Len(cy_stack') = k + 1
        /\ \A i \in 1..(k + 1) : cy_stack'[i] = cy_stack[i]
    <2>1. /\ cy_stack' \in Seq(LevelSet) /\ Len(cy_stack') = Len(cy_stack) - 1
          /\ \A i \in 1..(Len(cy_stack) - 1) : cy_stack'[i] = cy_stack[i]
      BY <1>1, DropLast, Zenon
    <2> QED
      BY <1>1, <2>1
  <1> HIDE DEF k, n
  <1>5. /\ nest' \in Seq(BracketSet) /\ Len(nest') = k + 1 /\ nest' # <<>>
        /\ nest'[k + 1] = p /\ \A i \in 1..k : nest'[i] = nest[i]
    <2>1. nest' \in Seq(BracketSet) /\ Len(nest') = k + 1
      BY <1>1, <1>2, <1>3
    <2>2. nest'[k + 1] = p
      BY <1>1, <1>2, <1>3
    <2>3. ASSUME NEW i \in 1..k PROVE nest'[i] = nest[i]
      <3>1. i \in 1..(k + 1) /\ i # Len(n) /\ i \in 1..Len(n)
        BY <1>1, <1>2
      <3>2. nest'[i] = n[i]
        <4>1. \A m \in Seq(BracketSet) : \A j \in 1..Len(m) :
                  j # Len(m) => [m EXCEPT ![Len(m)] = p][j] = m[j]
          OBVIOUS
        <4> QED
          BY <1>2, <1>3, <3>1, <4>1, Zenon
      <3> QED
        BY <1>2, <3>1, <3>2
    <2>4. k \in Nat
      BY <1>1
    <2>5. ASSUME nest' = <<>> PROVE FALSE
      <3>0. Len(<<>>) = 0
        OBVIOUS
      <3>1. Len(nest') = 0
        BY <2>5, <3>0, Zenon
      <3>2. k + 1 # 0
        BY <2>4
      <3> QED
        BY <2>1, <3>1, <3>2, Zenon
    <2>6. \A i \in 1..k : nest'[i] = nest[i]
      BY <2>3, Zenon
    <2> QED
      BY <2>1, <2>2, <2>5, <2>6, Zenon
  <1>6. cy_stack'[k + 1] = s /\ \A i \in 1..k : cy_stack'[i] = cy_stack[i]
    BY <1>1, <1>4
  <1>7. k = 0 => Outermost(nest'[1], cy_stack'[1])
    BY <1>1, <1>5, <1>6
  <1>8. ASSUME NEW i \in 1..(Len(nest') - 1), i >= k
        PROVE  Nested(nest'[i], cy_stack'[i], nest'[i + 1], cy_stack'[i + 1])
    <2>1. i = k /\ k \in 1..k /\ Len(nest) > 2 /\ Len(nest) - 2 = k
      BY <1>1, <1>5, <1>8
    <2> QED
      BY <1>5, <1>6, <2>1
  <1>9. ASSUME NEW i \in 1..Len(nest'), i > k
        PROVE  Level(nest'[i], cy_stack'[i], bare', Objects(cot)')
    <2>1. i = k + 1
      BY <1>1, <1>5, <1>9
    <2> QED
      BY <1>5, <1>6, <2>1
  <1>10. /\ k <= Len(nest') /\ Len(cy_stack') = Len(nest')
         /\ Paths(cy_list)' = Cat(Paths(cy_stack'[Len(nest')].list), nest'[Len(nest')].cur)
    BY <1>1, <1>4, <1>5, <1>6
  <1> QED
    BY <1>1, <1>4, <1>5, <1>6, <1>7, <1>8, <1>9, <1>10, KeepsLevels

LEMMA DeclareCorresponds ==
    ASSUME StackInv, StateInv, NEW w \in Word, cgy_cmd(w)
    PROVE  Correspondence'
  <1> DEFINE p == Extend(Inner, {<<w>>})
  <1>1. /\ Inner \in BracketSet /\ cs \in LevelSet
        /\ Paths(cs.list) \in SUBSET Line
        /\ cy_list \in Seq(Line) /\ Paths(cy_list) \subseteq Objects(cot)
        /\ Level(Inner, cs, bare, Objects(cot))
        /\ Len(nest) = 1 => Outermost(Inner, cs)
    BY OnTop
  <1>2. Inner.cur \in SUBSET Line /\ {<<w>>} \in SUBSET Line
    <2>1. Inner.cur \in SUBSET Line
      BY <1>1 DEF BracketSet
    <2>2. <<w>> \in Line
      BY DEF Line
    <2> QED
      BY <2>1, <2>2
  <1>3. p.cur = Cat(Inner.cur, {<<w>>}) /\ p \in BracketSet
        /\ p.kind = Inner.kind /\ p.prefix = Inner.prefix /\ p.alts = Inner.alts
    <2>1. Cat(Inner.cur, {<<w>>}) \in SUBSET Line
      BY <1>2, CatLines
    <2> QED
      BY <1>1, <2>1 DEF Extend, BracketSet
  <1> HIDE DEF p
  <1>4. /\ nest' = [nest EXCEPT ![Len(nest)] = p]
        /\ cy_stack' = cy_stack
        /\ cy_list' = [i \in 1..Len(cy_list) |-> Append(cy_list[i], w)]
        /\ bare' = bare
        /\ cot' = InsertBelow(cot, Paths(cy_list), w)
    BY DEF cgy_cmd, Declare, WithInner, p, Paths
  <1>5. Objects(cot)' = Objects(cot) \cup Children(Paths(cy_list), w)
    <2>1. cot \in TreeSet
      BY DEF StateInv
    <2> QED
      BY <1>1, <1>4, <2>1, Inserted
  <1>6. cy_list' \in Seq(Line) /\ Paths(cy_list') = Children(Paths(cy_list), w)
    BY <1>1, <1>4, PathsOfChildren
  <1>7. Paths(cy_list') = Cat(Paths(cs.list), p.cur)
    <2>1. Paths(cy_list) \in SUBSET Line
      BY <1>1, PathsOfList
    <2>2. Children(Paths(cy_list), w) = Cat(Cat(Paths(cs.list), Inner.cur), {<<w>>})
      BY <2>1, CatWord, OnTop
    <2>3. @ = Cat(Paths(cs.list), Cat(Inner.cur, {<<w>>}))
      BY <1>1, <1>2, CatAssociative
    <2> QED
      BY <1>3, <1>6, <2>2, <2>3
  <1>8. Level(p, cs, bare, Objects(cot)')
    BY <1>1, <1>3, <1>5 DEF Level
  <1>9. Len(nest) > 1 => Nested(nest[Len(nest) - 1], cy_stack[Len(nest) - 1], p, cs)
    BY <1>3, Around, OnTop DEF Nested
  <1>10. Len(nest) = 1 => Outermost(p, cs)
    BY <1>1, <1>3 DEF Outermost
  <1>11. cs \in LevelSet /\ cy_stack' = [cy_stack EXCEPT ![Len(cy_stack)] = cs]
    BY <1>4, OnTop
  <1>12. /\ bare \in BOOLEAN
         /\ Objects(cot) \subseteq Objects(cot)'
         /\ Paths(cy_list)' \subseteq Objects(cot)'
    BY <1>5, <1>6 DEF StateInv
  <1> QED
    BY <1>3, <1>4, <1>6, <1>7, <1>8, <1>9, <1>10, <1>11, <1>12, InnerChanges

LEMMA InnerNested ==
    ASSUME StackInv, StateInv
    PROVE  /\ Len(nest) = 1 => Outermost(Inner, cs)
           /\ Len(nest) > 1 =>
                Nested(nest[Len(nest) - 1], cy_stack[Len(nest) - 1], Inner, cs)
  BY Around, OnTop

LEMMA BracketParts ==
    ASSUME NEW p \in BracketSet
    PROVE  p.prefix \in SUBSET Line /\ p.alts \in SUBSET Line /\ p.cur \in SUBSET Line
  BY DEF BracketSet

LEMMA EmptyLine == <<>> \in Line /\ {<<>>} \in SUBSET Line /\ {} \in SUBSET Line
  BY DEF Line

(* The level that ctx_push puts on the stack.                              *)
LEMMA PushedLevel ==
    ASSUME cy_list \in Seq(Line)
    PROVE  LET t == [list |-> cy_list, saved |-> <<>>]
           IN  t \in LevelSet /\ t.list = cy_list /\ Paths(t.saved) = {}
  <1>1. Paths(<<>>) = {}
    BY DEF Paths, InList
  <1> QED
    BY <1>1 DEF LevelSet

(* "(" and "[": the objects that are current lead to the bracket.          *)
LEMMA OpenCorresponds ==
    ASSUME StackInv, StateInv, NEW kind \in {"(", "["}, ctx_push(kind)
    PROVE  Correspondence'
  <1> DEFINE q == Bracket(kind, {})
             t == [list |-> cy_list, saved |-> <<>>]
  <1>1. /\ Inner \in BracketSet /\ cs \in LevelSet
        /\ cy_list \in Seq(Line) /\ Paths(cy_list) \subseteq Objects(cot)
        /\ Paths(cy_list) = Cat(Paths(cs.list), Inner.cur)
        /\ Level(Inner, cs, bare, Objects(cot))
        /\ nest \in Seq(BracketSet) /\ Len(nest) \in Nat \ {0}
    BY OnTop
  <1>2. /\ q \in BracketSet /\ q.kind # "{" /\ q.alts = {} /\ q.cur = {<<>>}
    BY EmptyLine DEF Bracket, BracketSet
  <1>3. t \in LevelSet /\ t.list = cy_list /\ Paths(t.saved) = {}
    BY <1>1, PushedLevel
  <1>4. /\ nest' = Append(nest, q) /\ cy_stack' = Append(cy_stack, t)
        /\ cy_list' = cy_list /\ bare' = bare /\ cot' = Pushed(cot, FALSE)
    BY DEF ctx_push, Open, Push
  <1> HIDE DEF q, t
  <1>5. nest' = Append([nest EXCEPT ![Len(nest)] = Inner], q)
    <2>1. nest = [nest EXCEPT ![Len(nest)] = Inner]
      BY <1>1 DEF Inner
    <2> QED
      BY <1>4, <2>1
  <1>6. Objects(cot)' = Objects(cot)
    BY <1>1, <1>4, PushTree DEF StateInv
  <1>7. Paths(cy_list) \in SUBSET Line
    BY <1>1, PathsOfList
  <1>8. Nested(Inner, cs, q, t)
    BY <1>1, <1>2, <1>3 DEF Nested
  <1>9. Level(q, t, bare, Objects(cot))
    BY <1>1, <1>2, <1>3, CatEmpty DEF Level
  <1>10. Paths(cy_list) = Cat(Paths(t.list), q.cur)
    BY <1>2, <1>3, <1>7, CatUnit
  <1>11. /\ bare' \in BOOLEAN /\ (bare => bare')
         /\ cy_list' \in Seq(Line) /\ Paths(cy_list)' \subseteq Objects(cot)'
         /\ Paths(cy_list)' = Cat(Paths(t.list), q.cur)
         /\ Objects(cot) \subseteq Objects(cot)'
         /\ Level(Inner, cs, bare', Objects(cot)') /\ Level(q, t, bare', Objects(cot)')
    BY <1>1, <1>4, <1>6, <1>9, <1>10 DEF StateInv
  <1> QED
    BY <1>1, <1>2, <1>3, <1>4, <1>5, <1>8, <1>11, InnerNested, BracketOpens

(* "|": what is current joins the saved objects.                           *)
LEMMA ChooseCorresponds ==
    ASSUME StackInv, StateInv, ctx_peek_swap
    PROVE  Correspondence'
  <1> DEFINE p == [Inner EXCEPT !.alts = Inner.alts \cup Inner.cur, !.cur = {<<>>}]
             s == [cs EXCEPT !.saved = cy_list \o cs.saved]
  <1>1. /\ Inner \in BracketSet /\ cs \in LevelSet
        /\ cy_list \in Seq(Line) /\ Paths(cy_list) \subseteq Objects(cot)
        /\ Paths(cy_list) = Cat(Paths(cs.list), Inner.cur)
        /\ Paths(cs.list) \in SUBSET Line
        /\ Level(Inner, cs, bare, Objects(cot))
        /\ cy_stack \in Seq(LevelSet) /\ Len(cy_stack) = Len(nest)
        /\ Len(nest) \in Nat \ {0}
    BY OnTop
  <1>2. /\ p \in BracketSet /\ p.kind = Inner.kind /\ p.prefix = Inner.prefix
        /\ p.alts = Inner.alts \cup Inner.cur /\ p.cur = {<<>>}
    BY <1>1, EmptyLine DEF BracketSet
  <1>3. /\ cs.list \in Seq(Line) /\ cs.saved \in Seq(Line)
        /\ cy_list \o cs.saved \in Seq(Line)
        /\ Paths(cy_list \o cs.saved) = Paths(cy_list) \cup Paths(cs.saved)
    BY <1>1, PathsOfConcat DEF LevelSet
  <1>4. s \in LevelSet /\ s.list = cs.list /\ s.saved = cy_list \o cs.saved
    BY <1>1, <1>3 DEF LevelSet
  <1>5. /\ nest' = [nest EXCEPT ![Len(nest)] = p]
        /\ cy_stack' = [cy_stack EXCEPT ![Len(cy_stack)] = s]
        /\ cy_list' = cs.list /\ bare' = (bare \/ InBraces) /\ cot' = cot
    <2>1. cy_stack' = [cy_stack EXCEPT ![Len(cy_stack)].saved = cy_list \o @]
      BY DEF ctx_peek_swap
    <2>2. cy_stack' = [cy_stack EXCEPT ![Len(cy_stack)] = s]
      BY <1>1, <2>1 DEF cs
    <2> QED
      BY <2>2 DEF ctx_peek_swap, Choose, WithInner
  <1> HIDE DEF p, s
  <1>6. bare \in BOOLEAN /\ bare' \in BOOLEAN /\ (bare => bare')
    BY <1>5 DEF StateInv, InBraces
  <1>7. Level(p, s, bare', Objects(cot))
    <2>1. Paths(s.list) \subseteq Objects(cot)
      BY <1>1, <1>4 DEF Level
    <2>2. ASSUME p.kind # "{"
          PROVE  /\ Paths(s.saved) = Cat(Paths(s.list), p.alts)
                 /\ Paths(s.saved) \subseteq Objects(cot)
      <3>1. /\ Paths(cs.saved) = Cat(Paths(cs.list), Inner.alts)
            /\ Paths(cs.saved) \subseteq Objects(cot)
        BY <1>1, <1>2, <2>2 DEF Level
      <3>2. Cat(Paths(cs.list), p.alts)
                = Cat(Paths(cs.list), Inner.alts) \cup Cat(Paths(cs.list), Inner.cur)
        BY <1>2, CatUnion
      <3> QED
        BY <1>1, <1>3, <1>4, <3>1, <3>2
    <2>3. p.kind = "{" => bare'
      BY <1>2, <1>5 DEF InBraces
    <2> QED
      BY <2>1, <2>2, <2>3 DEF Level
  <1>8. /\ Len(nest) = 1 => Outermost(p, s)
        /\ Len(nest) > 1 => Nested(nest[Len(nest) - 1], cy_stack[Len(nest) - 1], p, s)
    BY <1>2, <1>4, InnerNested DEF Outermost, Nested
  <1>9. Paths(cs.list) = Cat(Paths(s.list), p.cur)
    BY <1>1, <1>2, <1>4, CatUnit
  <1>10. /\ cy_list' \in Seq(Line) /\ Paths(cy_list)' \subseteq Objects(cot)'
         /\ Paths(cy_list)' = Cat(Paths(s.list), p.cur)
         /\ Objects(cot) \subseteq Objects(cot)'
         /\ Level(p, s, bare', Objects(cot)')
    BY <1>1, <1>3, <1>5, <1>7, <1>9 DEF Level
  <1> QED
    BY <1>2, <1>4, <1>5, <1>6, <1>8, <1>10, InnerChanges

(* ")" and "]": the bracket becomes a part of the one around it.           *)
LEMMA Closes ==
    ASSUME StackInv, StateInv, Inner.kind \in {"(", "["},
           NEW V \in SUBSET Line, V = Value(Inner),
           nest' = Closed, cy_stack' = Pop, cot' = cot, bare' = bare,
           cy_list' \in Seq(Line), Paths(cy_list)' = Cat(Paths(cs.list), V),
           Paths(cy_list)' \subseteq Objects(cot)
    PROVE  Correspondence'
  <1>1. Len(nest) > 1 /\ nest \in Seq(BracketSet) /\ Len(nest) \in Nat
    <2>1. nest \in Seq(BracketSet) /\ Len(nest) \in Nat \ {0}
      BY OnTop
    <2>2. Len(nest) # 1
      BY OnTop, "(" # "{", "[" # "{" DEF Outermost
    <2>3. \A k \in Nat \ {0} : k # 1 => k > 1 /\ k \in Nat
      OBVIOUS
    <2> QED
      BY <2>1, <2>2, <2>3, Zenon
  <1> DEFINE n     == Len(nest) - 1
             outer == nest[n]
             s     == cy_stack[Len(cy_stack) - 1]
             p     == Extend(outer, V)
  <1>2. /\ outer \in BracketSet /\ s \in LevelSet
        /\ Nested(outer, s, Inner, cs) /\ Level(outer, s, bare, Objects(cot))
        /\ Paths(s.list) \in SUBSET Line
        /\ Len(nest) = 2 => Outermost(outer, s)
        /\ Len(nest) > 2 =>
             Nested(nest[Len(nest) - 2], cy_stack[Len(nest) - 2], outer, s)
    BY <1>1, Around
  <1>3. outer.cur \in SUBSET Line
    BY <1>2, BracketParts
  <1>4. /\ p \in BracketSet /\ p.kind = outer.kind /\ p.prefix = outer.prefix
        /\ p.alts = outer.alts /\ p.cur = Cat(outer.cur, V)
    <2>1. Cat(outer.cur, V) \in SUBSET Line
      BY <1>3, CatLines
    <2> QED
      BY <1>2, <2>1 DEF Extend, BracketSet
  <1>5. nest' = [SubSeq(nest, 1, Len(nest) - 1) EXCEPT ![Len(nest) - 1] = p]
    <2> DEFINE m == SubSeq(nest, 1, Len(nest) - 1)
    <2>1. Len(m) = n /\ m[n] = outer
      BY <1>1
    <2>2. nest' = [m EXCEPT ![Len(m)] = Extend(m[Len(m)], V)]
      BY DEF Closed
    <2> HIDE DEF m
    <2>3. nest' = [m EXCEPT ![n] = p]
      BY <2>1, <2>2
    <2> QED
      BY <2>3 DEF m
  <1>6. cy_stack' = SubSeq(cy_stack, 1, Len(cy_stack) - 1)
    BY DEF Pop
  <1> HIDE DEF outer, s, p, n
  <1>7. Paths(cy_list)' = Cat(Paths(s.list), p.cur)
    <2>1. Paths(cs.list) = Cat(Paths(s.list), outer.cur)
      BY <1>2 DEF Nested
    <2>2. Cat(Cat(Paths(s.list), outer.cur), V) = Cat(Paths(s.list), Cat(outer.cur, V))
      BY <1>2, <1>3, CatAssociative
    <2> QED
      BY <1>4, <2>1, <2>2
  <1>8. /\ Level(p, s, bare', Objects(cot)')
        /\ Len(nest) = 2 => Outermost(p, s)
        /\ Len(nest) > 2 => Nested(nest[Len(nest) - 2], cy_stack[Len(nest) - 2], p, s)
    BY <1>2, <1>4 DEF Level, Outermost, Nested
  <1>9. /\ bare' \in BOOLEAN /\ (bare => bare')
        /\ Objects(cot) \subseteq Objects(cot)' /\ Paths(cy_list)' \subseteq Objects(cot)'
    BY DEF StateInv
  <1>10. s = cy_stack[Len(cy_stack) - 1]
    BY DEF s
  <1> QED
    BY <1>1, <1>4, <1>5, <1>6, <1>7, <1>8, <1>9, <1>10, BracketCloses

LEMMA PopCorresponds ==
    ASSUME StackInv, StateInv, ctx_pop
    PROVE  Correspondence'
  <1> DEFINE V == Inner.alts \cup Inner.cur
  <1>1. Inner.kind = "(" /\ nest' = Closed /\ cy_stack' = Pop /\ cot' = cot
        /\ bare' = bare /\ cy_list' = cs.saved \o cy_list
    BY DEF ctx_pop, Close
  <1>2. /\ Inner \in BracketSet /\ cs \in LevelSet
        /\ cy_list \in Seq(Line) /\ Paths(cy_list) \subseteq Objects(cot)
        /\ Paths(cy_list) = Cat(Paths(cs.list), Inner.cur)
        /\ Level(Inner, cs, bare, Objects(cot))
    BY OnTop
  <1>3. V \in SUBSET Line /\ V = Value(Inner)
    BY <1>1, <1>2, BracketParts DEF Value
  <1>4. /\ Paths(cs.saved) = Cat(Paths(cs.list), Inner.alts)
        /\ Paths(cs.saved) \subseteq Objects(cot)
    BY <1>1, <1>2 DEF Level
  <1>5. /\ cy_list' \in Seq(Line)
        /\ Paths(cy_list)' = Paths(cs.saved) \cup Paths(cy_list)
    <2>1. cs.saved \in Seq(Line)
      BY <1>2 DEF LevelSet
    <2> QED
      BY <1>1, <1>2, <2>1, PathsOfConcat
  <1>6. Cat(Paths(cs.list), V) = Cat(Paths(cs.list), Inner.alts) \cup Cat(Paths(cs.list), Inner.cur)
    BY CatUnion
  <1> HIDE DEF V
  <1>7. Paths(cy_list)' = Cat(Paths(cs.list), V) /\ Paths(cy_list)' \subseteq Objects(cot)
    BY <1>2, <1>4, <1>5, <1>6
  <1> QED
    BY <1>1, <1>3, <1>5, <1>7, Closes

LEMMA PopAddCorresponds ==
    ASSUME StackInv, StateInv, ctx_pop_add
    PROVE  Correspondence'
  <1> DEFINE V == (Inner.alts \cup Inner.cur) \cup {<<>>}
  <1>1. Inner.kind = "[" /\ nest' = Closed /\ cy_stack' = Pop /\ cot' = cot
        /\ bare' = bare /\ cy_list' = cs.saved \o cs.list \o cy_list
    BY DEF ctx_pop_add, Close
  <1>2. /\ Inner \in BracketSet /\ cs \in LevelSet
        /\ cy_list \in Seq(Line) /\ Paths(cy_list) \subseteq Objects(cot)
        /\ Paths(cy_list) = Cat(Paths(cs.list), Inner.cur)
        /\ Paths(cs.list) \in SUBSET Line
        /\ Level(Inner, cs, bare, Objects(cot))
    BY OnTop
  <1>3. V \in SUBSET Line /\ V = Value(Inner)
    BY <1>1, <1>2, BracketParts, EmptyLine DEF Value
  <1>4. /\ Paths(cs.saved) = Cat(Paths(cs.list), Inner.alts)
        /\ Paths(cs.saved) \subseteq Objects(cot) /\ Paths(cs.list) \subseteq Objects(cot)
    BY <1>1, <1>2 DEF Level
  <1>5. /\ cy_list' \in Seq(Line)
        /\ Paths(cy_list)' = (Paths(cs.saved) \cup Paths(cs.list)) \cup Paths(cy_list)
    <2>1. cs.saved \in Seq(Line) /\ cs.list \in Seq(Line)
      BY <1>2 DEF LevelSet
    <2>2. /\ cs.saved \o cs.list \in Seq(Line)
          /\ Paths(cs.saved \o cs.list) = Paths(cs.saved) \cup Paths(cs.list)
      BY <2>1, PathsOfConcat
    <2>3. cy_list' = (cs.saved \o cs.list) \o cy_list
      BY <1>1
    <2> DEFINE l == cs.saved \o cs.list
    <2> HIDE DEF l
    <2>4. l \o cy_list \in Seq(Line) /\ Paths(l \o cy_list) = Paths(l) \cup Paths(cy_list)
      BY <1>2, <2>2, PathsOfConcat DEF l
    <2> QED
      BY <2>2, <2>3, <2>4 DEF l
  <1>6. /\ Cat(Paths(cs.list), V) = Cat(Paths(cs.list), Inner.alts \cup Inner.cur) \cup Cat(Paths(cs.list), {<<>>})
        /\ Cat(Paths(cs.list), Inner.alts \cup Inner.cur)
             = Cat(Paths(cs.list), Inner.alts) \cup Cat(Paths(cs.list), Inner.cur)
        /\ Cat(Paths(cs.list), {<<>>}) = Paths(cs.list)
    BY <1>2, CatUnion, CatUnit
  <1> HIDE DEF V
  <1>7. Paths(cy_list)' = Cat(Paths(cs.list), V) /\ Paths(cy_list)' \subseteq Objects(cot)
    BY <1>2, <1>4, <1>5, <1>6
  <1> QED
    BY <1>1, <1>3, <1>5, <1>7, Closes

(* The end of a line, and the braces after it.                             *)
LEMMA NewLineParts ==
    ASSUME StackInv, StateInv
    PROVE  /\ NewLine \in BracketSet /\ NewLine.kind = Inner.kind
           /\ NewLine.prefix = Inner.prefix /\ NewLine.alts = {} /\ NewLine.cur = {<<>>}
           /\ InBraces => Fresh(NewLine)
           /\ InBraces => Level(NewLine, cs, bare, Objects(cot))
           /\ Len(nest) = 1 => Outermost(NewLine, cs)
           /\ Len(nest) > 1 =>
                Nested(nest[Len(nest) - 1], cy_stack[Len(nest) - 1], NewLine, cs)
  <1>1. Inner \in BracketSet /\ Level(Inner, cs, bare, Objects(cot))
    BY OnTop
  <1>2. /\ NewLine \in BracketSet /\ NewLine.kind = Inner.kind
        /\ NewLine.prefix = Inner.prefix /\ NewLine.alts = {} /\ NewLine.cur = {<<>>}
    BY <1>1, EmptyLine DEF NewLine, BracketSet
  <1> QED
    BY <1>1, <1>2, InnerNested DEF Level, Fresh, Nested, Outermost, InBraces

LEMMA SemicolonCorresponds ==
    ASSUME StackInv, StateInv, Line2Semicolon
    PROVE  Correspondence'
  <1>1. /\ InBraces /\ bare' = bare
        /\ nest' = [nest EXCEPT ![Len(nest)] = NewLine] /\ cy_stack' = cy_stack
        /\ cy_list' = cs.list /\ cot' = Terminated(cot)
    BY DEF Line2Semicolon, Semicolon, LineEnd, WithInner
  <1>2. /\ cs \in LevelSet /\ cs.list \in Seq(Line)
        /\ cy_stack' = [cy_stack EXCEPT ![Len(cy_stack)] = cs]
        /\ cy_list \in Seq(Line) /\ Paths(cy_list) \subseteq Objects(cot)
        /\ Paths(cs.list) \in SUBSET Line
        /\ Level(Inner, cs, bare, Objects(cot))
    BY <1>1, OnTop DEF LevelSet
  <1>3. Objects(cot)' = Objects(cot)
    BY <1>1, <1>2, TerminateTree DEF StateInv
  <1>4. Paths(cs.list) = Cat(Paths(cs.list), NewLine.cur)
    BY <1>2, NewLineParts, CatUnit
  <1>5. /\ bare' \in BOOLEAN /\ (bare => bare') /\ Objects(cot) \subseteq Objects(cot)'
        /\ Level(NewLine, cs, bare', Objects(cot)')
        /\ cy_list' \in Seq(Line) /\ Paths(cy_list)' \subseteq Objects(cot)'
        /\ Paths(cy_list)' = Cat(Paths(cs.list), NewLine.cur)
    BY <1>1, <1>2, <1>3, <1>4, NewLineParts DEF StateInv, Level
  <1> QED
    BY <1>1, <1>2, <1>5, NewLineParts, InnerChanges

LEMMA OpenLineIsLine ==
    ASSUME StackInv, StateInv
    PROVE  OpenLine \in SUBSET Line
  <1>1. Inner.prefix \in SUBSET Line /\ Inner.alts \cup Inner.cur \in SUBSET Line
    BY OnTop, BracketParts
  <1> QED
    BY <1>1, CatLines DEF OpenLine

LEMMA BraceCorresponds ==
    ASSUME StackInv, StateInv, InBraces, nest' = Brace, cy_stack' = Push,
           cy_list' = cy_list, bare' = bare, Objects(cot)' = Objects(cot)
    PROVE  Correspondence'
  <1> DEFINE q == Bracket("{", OpenLine)
             t == [list |-> cy_list, saved |-> <<>>]
  <1>1. /\ cs \in LevelSet
        /\ cy_list \in Seq(Line) /\ Paths(cy_list) \subseteq Objects(cot)
        /\ Paths(cy_list) \in SUBSET Line
    BY OnTop, PathsOfList
  <1>2. q \in BracketSet /\ q.kind = "{" /\ q.alts = {} /\ q.cur = {<<>>} /\ q.prefix = OpenLine
    BY EmptyLine, OpenLineIsLine DEF Bracket, BracketSet
  <1>3. t \in LevelSet /\ t.list = cy_list
    BY <1>1, PushedLevel
  <1>4. nest' = Append([nest EXCEPT ![Len(nest)] = NewLine], q) /\ cy_stack' = Append(cy_stack, t)
    BY DEF Brace, WithInner, Push
  <1> HIDE DEF q, t
  <1>5. Nested(NewLine, cs, q, t)
    BY <1>2, NewLineParts DEF Nested
  <1>6. Level(q, t, bare, Objects(cot))
    BY <1>1, <1>2, <1>3, ListIsOpenLine DEF Level
  <1>7. Paths(cy_list) = Cat(Paths(t.list), q.cur)
    BY <1>1, <1>2, <1>3, CatUnit
  <1>8. /\ bare' \in BOOLEAN /\ (bare => bare')
        /\ cy_list' \in Seq(Line) /\ Paths(cy_list)' \subseteq Objects(cot)'
        /\ Paths(cy_list)' = Cat(Paths(t.list), q.cur)
        /\ Objects(cot) \subseteq Objects(cot)'
        /\ Level(NewLine, cs, bare', Objects(cot)') /\ Level(q, t, bare', Objects(cot)')
    BY <1>1, <1>6, <1>7, NewLineParts DEF StateInv
  <1> QED
    BY <1>1, <1>2, <1>3, <1>4, <1>5, <1>8, NewLineParts, BracketOpens

(* "}": back to the line before the brace, which was over.                 *)
LEMMA EndBlockCorresponds ==
    ASSUME StackInv, StateInv, Line2EndBlock
    PROVE  Correspondence' /\ Fresh(Inner)'
  <1> DEFINE p == nest[Len(nest) - 1]
             s == cy_stack[Len(cy_stack) - 1]
             n == SubSeq(nest, 1, Len(nest) - 1)
  <1>1. /\ phase = "line" /\ Len(nest) > 1 /\ nest' = n /\ cy_stack' = Pop
        /\ cy_list' = s.list /\ cot' = cot /\ bare' = bare
    BY DEF Line2EndBlock, EndBlock
  <1>2. /\ p \in BracketSet /\ s \in LevelSet
        /\ Nested(p, s, Inner, cs) /\ Level(p, s, bare, Objects(cot))
        /\ Paths(s.list) \in SUBSET Line /\ Paths(s.list) \subseteq Objects(cot)
        /\ Len(nest) = 2 => Outermost(p, s)
        /\ Len(nest) > 2 => Nested(nest[Len(nest) - 2], cy_stack[Len(nest) - 2], p, s)
    BY <1>1, Around
  <1>3. Fresh(p)
    <2>1. Inner.kind = "{"
      BY <1>1 DEF StackInv, Fresh
    <2> QED
      BY <1>2, <2>1 DEF Nested
  <1>4. n = [n EXCEPT ![Len(nest) - 1] = p] /\ n[Len(n)] = p
    <2>1. /\ n \in Seq(BracketSet) /\ Len(n) = Len(nest) - 1
          /\ \A i \in 1..(Len(nest) - 1) : n[i] = nest[i]
      BY <1>1, OnTop, DropLast, Zenon
    <2>2. Len(nest) - 1 \in 1..(Len(nest) - 1)
      BY <1>1, OnTop
    <2>3. p = nest[Len(nest) - 1]
      OBVIOUS
    <2> HIDE DEF n, p
    <2>4. n[Len(nest) - 1] = p
      BY <2>1, <2>2, <2>3
    <2> QED
      BY <2>1, <2>2, <2>4
  <1>5. Paths(s.list) = Cat(Paths(s.list), p.cur)
    BY <1>2, <1>3, CatUnit DEF Fresh
  <1>6. s.list \in Seq(Line)
    BY <1>2 DEF LevelSet
  <1>7. /\ bare' \in BOOLEAN /\ (bare => bare') /\ Objects(cot) \subseteq Objects(cot)'
        /\ nest' = [SubSeq(nest, 1, Len(nest) - 1) EXCEPT ![Len(nest) - 1] = p]
        /\ cy_stack' = SubSeq(cy_stack, 1, Len(cy_stack) - 1)
        /\ s = cy_stack[Len(cy_stack) - 1]
    BY <1>1, <1>4 DEF StateInv, Pop
  <1>8. Fresh(Inner)'
    BY <1>1, <1>3, <1>4 DEF Inner
  <1> HIDE DEF p, s, n
  <1>9. /\ Level(p, s, bare', Objects(cot)')
        /\ cy_list' \in Seq(Line) /\ Paths(cy_list)' \subseteq Objects(cot)'
        /\ Paths(cy_list)' = Cat(Paths(s.list), p.cur)
    BY <1>1, <1>2, <1>5, <1>6
  <1> QED
    BY <1>1, <1>2, <1>7, <1>8, <1>9, BracketCloses

(* Between the lines of the outermost level only the top object is         *)
(* current, also when a new tree is begun.                                 *)
LEMMA OutermostCorresponds ==
    ASSUME StackInv, StateInv, phase = "line", Len(nest) = 1,
           nest' = nest, cy_stack' = cy_stack, cy_list' = cy_list, bare' = bare,
           cot' = cot \/ cot' = NewTree
    PROVE  Correspondence'
  <1>1. /\ nest \in Seq(BracketSet) /\ cy_stack \in Seq(LevelSet)
        /\ Len(cy_stack) = 1 /\ cy_list \in Seq(Line)
        /\ Inner = nest[1] /\ cs = cy_stack[1]
    BY OnTop DEF Inner, cs
  <1>2. Paths(cs.list) = {<<>>} /\ Fresh(Inner) /\ Outermost(Inner, cs)
    BY OnTop DEF StackInv, Outermost
  <1>3. Paths(cy_list) = {<<>>}
    <2>1. Paths(cy_list) = Cat({<<>>}, {<<>>})
      BY <1>2, OnTop DEF Fresh
    <2> QED
      BY <2>1, CatUnit, EmptyLine
  <1>4. <<>> \in Objects(cot)'
    <2>1. <<>> \in Objects(cot)
      BY <1>3, OnTop
    <2>2. <<>> \in Objects(NewTree)
      BY EmptyTree DEF Top
    <2> QED
      BY <2>1, <2>2
  <1>5. Level(Inner, cs, bare, Objects(cot)')
    BY <1>2, <1>4, OnTop DEF Level, Outermost
  <1>6. Paths(cy_list) = Cat(Paths(cs.list), Inner.cur)
    BY OnTop
  <1>7. nest # <<>>
    BY OnTop
  <1>8. (\A i \in 1..(Len(nest) - 1) : FALSE) /\ (\A i \in 1..Len(nest) : i = 1)
    OBVIOUS
  <1>9. /\ Paths(cy_list)' = Paths(cy_list)
        /\ Len(nest') = 1 /\ nest'[1] = Inner /\ cy_stack'[1] = cs
        /\ Level(Inner, cs, bare', Objects(cot)')
        /\ Paths(cy_list) \subseteq Objects(cot)'
    BY <1>1, <1>3, <1>4, <1>5
  <1>10. /\ nest' \in Seq(BracketSet) /\ nest' # <<>>
         /\ cy_stack' \in Seq(LevelSet) /\ Len(cy_stack') = Len(nest')
         /\ cy_list' \in Seq(Line)
    BY <1>1, <1>7
  <1> QED
    BY <1>2, <1>6, <1>8, <1>9, <1>10 DEF Correspondence

LEMMA InnerReplaced ==
    ASSUME NEW n \in Seq(BracketSet), Len(n) \in Nat \ {0}, NEW b \in BracketSet
    PROVE  [n EXCEPT ![Len(n)] = b] \in Seq(BracketSet)
  OBVIOUS

(***************************************************************************)
(* The stack corresponds to the open brackets.                             *)
(***************************************************************************)
LEMMA StackStep ==
    ASSUME StackInv, StateInv, [Next]_vars
    PROVE  StackInv'
  <1>1. Correspondence' /\ (phase' = "line" => Fresh(Inner)') => StackInv'
    BY DEF StackInv
  <1>2. ASSUME NEW w \in Word, cgy_cmd(w) PROVE StackInv'
    <2>1. phase' # "line"
      BY <1>2 DEF cgy_cmd, Declare
    <2> QED
      BY <1>1, <1>2, <2>1, DeclareCorresponds
  <1>3. ASSUME NEW kind \in {"(", "["}, ctx_push(kind) PROVE StackInv'
    <2>1. phase' # "line"
      BY <1>3 DEF ctx_push, Open
    <2> QED
      BY <1>1, <1>3, <2>1, OpenCorresponds
  <1>4. CASE ctx_peek_swap
    <2>1. phase' # "line"
      BY <1>4 DEF ctx_peek_swap, Choose
    <2> QED
      BY <1>1, <1>4, <2>1, ChooseCorresponds
  <1>5. CASE ctx_pop
    <2>1. phase' # "line"
      BY <1>5 DEF ctx_pop, Close
    <2> QED
      BY <1>1, <1>5, <2>1, PopCorresponds
  <1>6. CASE ctx_pop_add
    <2>1. phase' # "line"
      BY <1>6 DEF ctx_pop_add, Close
    <2> QED
      BY <1>1, <1>6, <2>1, PopAddCorresponds
  <1>7. ASSUME nest' = nest, cy_stack' = cy_stack, cy_list' = cy_list, bare' = bare,
               cot' = cot, phase' # "line"
        PROVE  StackInv'
    BY <1>7 DEF StackInv, Correspondence
  <1>8. ASSUME NEW f \in Callback, cgy_callback(f) PROVE StackInv'
    BY <1>7, <1>8 DEF cgy_callback, Call, Option
  <1>9. CASE cgy_flag
    BY <1>7, <1>9 DEF cgy_flag, Hide, Option
  <1>10. CASE Line2Semicolon
    <2>1. InBraces /\ nest' = [nest EXCEPT ![Len(nest)] = NewLine]
      BY <1>10 DEF Line2Semicolon, Semicolon, LineEnd, WithInner
    <2>2. Inner' = NewLine
      BY <2>1, OnTop DEF Inner
    <2>3. Fresh(NewLine)
      BY <2>1, NewLineParts
    <2>4. Fresh(Inner)'
      BY <2>2, <2>3 DEF Fresh
    <2> QED
      BY <1>1, <1>10, <2>4, SemicolonCorresponds
  <1>11. ASSUME InBraces, nest' = Brace, cy_stack' = Push, cy_list' = cy_list,
                bare' = bare, Objects(cot)' = Objects(cot)
         PROVE  StackInv'
    <2>1. Inner' = Bracket("{", OpenLine)
      <3> DEFINE m == [nest EXCEPT ![Len(nest)] = NewLine]
                 q == Bracket("{", OpenLine)
      <3>1. m \in Seq(BracketSet) /\ q \in BracketSet
        <4>1. q \in BracketSet
          BY EmptyLine, OpenLineIsLine DEF Bracket, BracketSet
        <4>2. nest \in Seq(BracketSet) /\ Len(nest) \in Nat \ {0} /\ NewLine \in BracketSet
          BY OnTop, NewLineParts
        <4> QED
          BY <4>1, <4>2, InnerReplaced
      <3>2. nest' = Append(m, q)
        BY <1>11 DEF Brace, WithInner
      <3> HIDE DEF m, q
      <3>3. nest'[Len(nest')] = q
        BY <3>1, <3>2
      <3> QED
        BY <3>3 DEF Inner, q
    <2>2. Fresh(Inner)'
      BY <2>1 DEF Bracket, Fresh
    <2> QED
      BY <1>1, <1>11, <2>2, BraceCorresponds
  <1>12. ASSUME NEW sets \in BOOLEAN, Line2Block(sets) PROVE StackInv'
    <2>1. Objects(cot)' = Objects(cot)
      BY <1>12, PushTree, OnTop DEF Line2Block, StateInv
    <2> QED
      BY <1>11, <1>12, <2>1 DEF Line2Block, Block, LineEnd
  <1>13. ASSUME NEW sets \in BOOLEAN, Line2CommandBlock(sets) PROVE StackInv'
    <2>1. Terminated(cot) \in TreeSet /\ Objects(Terminated(cot)) = Objects(cot)
          /\ Paths(cy_list) \in SUBSET Objects(cot)
      BY TerminateTree, OnTop DEF StateInv
    <2>2. cot' = IF sets THEN Mark(Terminated(cot), "sets", Paths(cy_list))
                         ELSE Terminated(cot)
      BY <1>13 DEF Line2CommandBlock, Paths
    <2>3. Objects(Mark(Terminated(cot), "sets", Paths(cy_list))) = Objects(cot)
      BY <2>1, MarkTree
    <2>4. Objects(cot)' = Objects(cot)
      BY <2>1, <2>2, <2>3
    <2> QED
      BY <1>11, <1>13, <2>4 DEF Line2CommandBlock, CommandBlock, LineEnd
  <1>14. CASE Line2EndBlock
    BY <1>1, <1>14, EndBlockCorresponds
  <1>15. ASSUME NEW n \in TreeName, cgy_treename(n) PROVE StackInv'
    <2>1. /\ nest' = nest /\ cy_stack' = cy_stack /\ cy_list' = cy_list /\ bare' = bare
          /\ phase = "line" /\ Len(nest) = 1 /\ (cot' = cot \/ cot' = NewTree)
      BY <1>15 DEF cgy_treename, Treename
    <2>2. Fresh(Inner)'
      BY <2>1 DEF StackInv, Inner
    <2> QED
      BY <1>1, <2>1, <2>2, OutermostCorresponds
  <1>16. CASE clispec_parse_str
    BY <1>7, <1>16 DEF clispec_parse_str, EndOfFile
  <1>17. CASE UNCHANGED vars
    BY <1>17 DEF vars, language, parser, StackInv, Correspondence, Inner
  <1> QED
    BY <1>2, <1>3, <1>4, <1>5, <1>6, <1>8, <1>9, <1>10, <1>12, <1>13, <1>14, <1>15,
       <1>16, <1>17 DEF Next

(***************************************************************************)
(* The other variables, and the trees that are registered.                 *)
(***************************************************************************)
LEMMA StateStep ==
    ASSUME StackInv, StateInv, [Next]_vars
    PROVE  StateInv'
  <1>1. /\ cy_list \in Seq(Line) /\ Paths(cy_list) \in SUBSET Objects(cot)
        /\ cot \in TreeSet
    BY OnTop DEF StateInv
  <1>2. ASSUME NEW w \in Word, cgy_cmd(w) PROVE StateInv'
    <2>1. cot' = InsertBelow(cot, Paths(cy_list), w)
      BY <1>2 DEF cgy_cmd, Paths
    <2>2. cot' \in TreeSet
      BY <1>1, <2>1, Inserted
    <2> QED
      BY <1>2, <2>2 DEF cgy_cmd, Declare, StateInv, Phase
  <1>3. ASSUME NEW kind \in {"(", "["}, ctx_push(kind) PROVE StateInv'
    <2>1. cot' \in TreeSet
      BY <1>1, <1>3, PushTree DEF ctx_push, StateInv
    <2> QED
      BY <1>3, <2>1 DEF ctx_push, Open, StateInv, Phase
  <1>4. CASE ctx_peek_swap
    <2>1. bare' = (bare \/ InBraces) /\ bare \in BOOLEAN
      BY <1>4 DEF ctx_peek_swap, Choose, StateInv
    <2>2. bare' \in BOOLEAN
      BY <2>1 DEF InBraces
    <2> QED
      BY <1>4, <2>2 DEF ctx_peek_swap, Choose, StateInv, Phase
  <1>5. CASE ctx_pop
    BY <1>5 DEF ctx_pop, Close, StateInv, Phase
  <1>6. CASE ctx_pop_add
    BY <1>6 DEF ctx_pop_add, Close, StateInv, Phase
  <1>7. ASSUME NEW f \in Callback, cgy_callback(f) PROVE StateInv'
    <2>1. options' = [options EXCEPT !.calls = Append(options.calls, f)]
      BY <1>7 DEF cgy_callback, Call, Option
    <2>2. options' \in [calls : Seq(Callback), hide : BOOLEAN]
      <3>1. options \in [calls : Seq(Callback), hide : BOOLEAN]
        BY DEF StateInv
      <3>2. Append(options.calls, f) \in Seq(Callback)
        BY <1>7, <3>1
      <3> QED
        BY <2>1, <3>1, <3>2
    <2> QED
      BY <1>7, <2>2 DEF cgy_callback, Call, Option, StateInv, Phase
  <1>8. CASE cgy_flag
    BY <1>8 DEF cgy_flag, Hide, Option, StateInv, Phase
  <1>9. NoOptions \in [calls : Seq(Callback), hide : BOOLEAN] /\ <<>> \in Seq(Callback)
    BY DEF NoOptions
  <1>10. Terminated(cot) \in TreeSet /\ Paths(cy_list) \in SUBSET Objects(Terminated(cot))
    BY <1>1, TerminateTree DEF StateInv
  <1>11. CASE Line2Semicolon
    BY <1>9, <1>10, <1>11
       DEF Line2Semicolon, Semicolon, Command, cgy_terminal, StateInv, Phase
  <1>12. ASSUME NEW sets \in BOOLEAN, Line2Block(sets) PROVE StateInv'
    <2>1. cot' \in TreeSet
      BY <1>1, <1>12, PushTree DEF Line2Block, StateInv
    <2>2. carried' \in BOOLEAN
      <3>1. carried' = (carried \/ options # NoOptions) /\ carried \in BOOLEAN
        BY <1>12 DEF Line2Block, Block, StateInv
      <3> QED
        BY <3>1, Zenon
    <2> QED
      BY <1>9, <1>12, <2>1, <2>2 DEF Line2Block, Block, StateInv, Phase
  <1>13. ASSUME NEW sets \in BOOLEAN, Line2CommandBlock(sets) PROVE StateInv'
    <2>1. cot' = IF sets THEN Mark(Terminated(cot), "sets", Paths(cy_list))
                         ELSE Terminated(cot)
      BY <1>13 DEF Line2CommandBlock, Paths
    <2>2. cot' \in TreeSet
      BY <1>10, <2>1, MarkTree
    <2> QED
      BY <1>9, <1>13, <2>2
         DEF Line2CommandBlock, CommandBlock, Command, cgy_terminal, StateInv, Phase
  <1>14. CASE Line2EndBlock
    BY <1>14 DEF Line2EndBlock, EndBlock, StateInv
  <1>15. \A n \in TreeName, t \in TreeSet :
            [name |-> n, tree |-> t] \in HeadSet
    BY DEF HeadSet
  <1>16. ASSUME heads' = cligen_ph_add(cy_treename, cot) PROVE heads' \in Seq(HeadSet)
    <2>1. [name |-> cy_treename, tree |-> cot] \in HeadSet
      BY <1>1, <1>15 DEF StateInv
    <2> QED
      BY <1>16, <2>1 DEF cligen_ph_add, StateInv
  <1>17. ASSUME NEW n \in TreeName, cgy_treename(n) PROVE StateInv'
    <2>1. cot' \in TreeSet /\ heads' \in Seq(HeadSet)
      BY <1>16, <1>17, EmptyTree DEF cgy_treename, StateInv
    <2> QED
      BY <1>17, <2>1 DEF cgy_treename, Treename, StateInv
  <1>18. CASE clispec_parse_str
    BY <1>16, <1>18 DEF clispec_parse_str, EndOfFile, StateInv, Phase
  <1>19. CASE UNCHANGED vars
    BY <1>19 DEF vars, language, parser, StateInv
  <1> QED
    BY <1>2, <1>3, <1>4, <1>5, <1>6, <1>7, <1>8, <1>11, <1>12, <1>13, <1>14, <1>17,
       <1>18, <1>19 DEF Next

(***************************************************************************)
(* AcceptsWhatIsWritten, command line by command line.                     *)
(***************************************************************************)
InHeads(n, line) ==
    \E i \in 1..Len(heads) : heads[i].name = n /\ line \in Commands(heads[i].tree)
InTree(n, line) == n = cy_treename /\ line \in Commands(cot)
LineByLine ==
    \A n \in TreeName : \A line :
        InHeads(n, line) \/ InTree(n, line) <=> <<n, line>> \in written

LEMMA AcceptsLineByLine ==
    AcceptsWhatIsWritten <=> (~bare => LineByLine)
  <1>1. ASSUME NEW n, NEW line
        PROVE  line \in CommandsOf(n) <=> InHeads(n, line) \/ InTree(n, line)
    <2>1. line \in CommandsOf(n) <=> \E t \in TreesOf(n) : line \in Commands(t)
      BY Zenon DEF CommandsOf
    <2>2. \A t : t \in TreesOf(n) <=>
            \/ \E i \in 1..Len(heads) : heads[i].name = n /\ t = heads[i].tree
            \/ n = cy_treename /\ t = cot
      BY DEF TreesOf
    <2> QED
      BY <2>1, <2>2, Zenon DEF InHeads, InTree
  <1>2. ASSUME NEW n, NEW line
        PROVE  line \in WrittenAs(n) <=> <<n, line>> \in written
    <2>1. <<n, line>>[2] = line
      OBVIOUS
    <2>2. <<n, line>> \in written => line \in {w[2] : w \in written}
      BY <2>1, Zenon
    <2> QED
      BY <2>2, Zenon DEF WrittenAs
  <1>3. ASSUME NEW n
        PROVE  CommandsOf(n) = WrittenAs(n) <=>
                 \A line : line \in CommandsOf(n) <=> line \in WrittenAs(n)
    <2> DEFINE A == CommandsOf(n)
               B == WrittenAs(n)
    <2>1. A = B => \A line : line \in A <=> line \in B
      OBVIOUS
    <2> HIDE DEF A, B
    <2>2. (\A line : line \in A <=> line \in B) => A = B
      OBVIOUS
    <2> QED
      BY <2>1, <2>2 DEF A, B
  <1>4. ASSUME NEW n
        PROVE  CommandsOf(n) = WrittenAs(n) <=>
                 \A line : InHeads(n, line) \/ InTree(n, line) <=> <<n, line>> \in written
    BY <1>1, <1>2, <1>3, Zenon
  <1> QED
    BY <1>4, Zenon DEF AcceptsWhatIsWritten, LineByLine

(* A step that leaves the commands of the trees as they are.               *)
LEMMA SameCommands ==
    ASSUME AcceptsWhatIsWritten, bare' \in BOOLEAN, bare \in BOOLEAN, bare => bare',
           heads' = heads, cy_treename' = cy_treename, written' = written,
           Commands(cot)' = Commands(cot)
    PROVE  AcceptsWhatIsWritten'
  <1>1. ~bare => LineByLine
    BY AcceptsLineByLine
  <1>2. LineByLine => LineByLine'
    BY DEF LineByLine, InHeads, InTree
  <1>3. AcceptsWhatIsWritten' <=> (~bare' => LineByLine')
    BY AcceptsLineByLine, PTL
  <1> QED
    BY <1>1, <1>2, <1>3, Zenon

(* The end of a command.                                                   *)
LEMMA MoreCommands ==
    ASSUME AcceptsWhatIsWritten, StackInv, StateInv, InBraces, bare' = bare,
           heads' = heads, cy_treename' = cy_treename,
           written' = written \cup ({name} \X OpenLine),
           Commands(cot)' = Commands(cot) \cup Paths(cy_list)
    PROVE  AcceptsWhatIsWritten'
  <1>1. AcceptsWhatIsWritten' <=> (~bare' => LineByLine')
    BY AcceptsLineByLine, PTL
  <1>2. ASSUME ~bare PROVE LineByLine'
    <2>1. LineByLine
      BY <1>2, AcceptsLineByLine
    <2>2. Paths(cy_list) = OpenLine
      BY <1>2, ListIsOpenLine
    <2>3. cy_treename = name
      BY DEF StateInv
    <2>4. ASSUME NEW n, NEW line
          PROVE  /\ InHeads(n, line)' <=> InHeads(n, line)
                 /\ InTree(n, line)' <=>
                      InTree(n, line) \/ (n = name /\ line \in OpenLine)
                 /\ <<n, line>> \in written' <=>
                      <<n, line>> \in written \/ (n = name /\ line \in OpenLine)
      BY <2>2, <2>3 DEF InHeads, InTree
    <2> QED
      BY <2>1, <2>4, Zenon DEF LineByLine
  <1> QED
    BY <1>1, <1>2, Zenon

(* A tree is registered, and the next one is empty or the same.            *)
LEMMA TreeRegistered ==
    ASSUME AcceptsWhatIsWritten, StateInv, bare' = bare, written' = written,
           heads' = cligen_ph_add(cy_treename, cot),
           \/ cot' = NewTree
           \/ cot' = cot /\ cy_treename' = cy_treename
    PROVE  AcceptsWhatIsWritten'
  <1>1. AcceptsWhatIsWritten' <=> (~bare' => LineByLine')
    BY AcceptsLineByLine, PTL
  <1>2. ASSUME ~bare PROVE LineByLine'
    <2>1. LineByLine
      BY <1>2, AcceptsLineByLine
    <2> DEFINE h == [name |-> cy_treename, tree |-> cot]
    <2>2. /\ heads \in Seq(HeadSet) /\ h \in HeadSet /\ heads' = Append(heads, h)
          /\ h.name = cy_treename /\ h.tree = cot
      BY DEF StateInv, HeadSet, cligen_ph_add
    <2> HIDE DEF h
    <2>3. /\ Len(heads) \in Nat /\ Len(heads') = Len(heads) + 1
          /\ \A i \in 1..Len(heads) : heads'[i] = heads[i]
          /\ heads'[Len(heads) + 1] = h
      BY <2>2
    <2>4. \A i : i \in 1..Len(heads') <=> i \in 1..Len(heads) \/ i = Len(heads) + 1
      BY <2>3
    <2>5. ASSUME NEW n, NEW line
          PROVE  InHeads(n, line)' <=> InHeads(n, line) \/ InTree(n, line)
      BY <2>2, <2>3, <2>4, Zenon DEF InHeads, InTree
    <2>6. ASSUME NEW n, NEW line
          PROVE  InTree(n, line)' => InTree(n, line)
      <3>1. CASE cot' = NewTree
        <4>1. ~InTree(n, line)'
          BY <3>1, EmptyTree DEF InTree
        <4> QED
          BY <4>1
      <3>2. CASE cot' = cot /\ cy_treename' = cy_treename
        BY <3>2 DEF InTree
      <3> QED
        BY <3>1, <3>2
    <2> QED
      BY <2>1, <2>5, <2>6, Zenon DEF LineByLine
  <1> QED
    BY <1>1, <1>2, Zenon

LEMMA AcceptsStep ==
    ASSUME StackInv, StateInv, AcceptsWhatIsWritten, StateInv', [Next]_vars
    PROVE  AcceptsWhatIsWritten'
  <1>1. /\ cy_list \in Seq(Line) /\ Paths(cy_list) \in SUBSET Objects(cot)
        /\ cot \in TreeSet /\ bare \in BOOLEAN /\ bare' \in BOOLEAN
    BY OnTop DEF StateInv
  <1>2. ASSUME NEW w \in Word, cgy_cmd(w) PROVE AcceptsWhatIsWritten'
    <2>1. cot' = InsertBelow(cot, Paths(cy_list), w)
      BY <1>2 DEF cgy_cmd, Paths
    <2>2. Commands(cot)' = Commands(cot)
      BY <1>1, <2>1, Inserted
    <2> QED
      BY <1>1, <1>2, <2>2, SameCommands DEF cgy_cmd, Declare
  <1>3. ASSUME NEW kind \in {"(", "["}, ctx_push(kind) PROVE AcceptsWhatIsWritten'
    <2>1. Commands(cot)' = Commands(cot)
      BY <1>1, <1>3, PushTree DEF ctx_push, StateInv
    <2> QED
      BY <1>1, <1>3, <2>1, SameCommands DEF ctx_push, Open
  <1>4. ASSUME bare => bare', heads' = heads, cy_treename' = cy_treename,
               written' = written, cot' = cot
        PROVE  AcceptsWhatIsWritten'
    BY <1>1, <1>4, SameCommands
  <1>5. CASE ctx_peek_swap
    <2>1. bare => bare'
      BY <1>5 DEF ctx_peek_swap, Choose
    <2> QED
      BY <1>4, <1>5, <2>1 DEF ctx_peek_swap, Choose
  <1>6. CASE ctx_pop
    BY <1>4, <1>6 DEF ctx_pop, Close
  <1>7. CASE ctx_pop_add
    BY <1>4, <1>7 DEF ctx_pop_add, Close
  <1>8. ASSUME NEW f \in Callback, cgy_callback(f) PROVE AcceptsWhatIsWritten'
    BY <1>4, <1>8 DEF cgy_callback, Call, Option
  <1>9. CASE cgy_flag
    BY <1>4, <1>9 DEF cgy_flag, Hide, Option
  <1>10. /\ Terminated(cot) \in TreeSet /\ Paths(cy_list) \in SUBSET Objects(Terminated(cot))
         /\ Commands(Terminated(cot)) = Commands(cot) \cup Paths(cy_list)
    BY <1>1, TerminateTree DEF StateInv
  <1>11. CASE Line2Semicolon
    BY <1>10, <1>11, MoreCommands
       DEF Line2Semicolon, Semicolon, LineEnd, Command, cgy_terminal
  <1>12. ASSUME NEW sets \in BOOLEAN, Line2Block(sets) PROVE AcceptsWhatIsWritten'
    <2>1. Commands(cot)' = Commands(cot)
      BY <1>1, <1>12, PushTree DEF Line2Block, StateInv
    <2> QED
      BY <1>1, <1>12, <2>1, SameCommands DEF Line2Block, Block
  <1>13. ASSUME NEW sets \in BOOLEAN, Line2CommandBlock(sets) PROVE AcceptsWhatIsWritten'
    <2>1. cot' = IF sets THEN Mark(Terminated(cot), "sets", Paths(cy_list))
                         ELSE Terminated(cot)
      BY <1>13 DEF Line2CommandBlock, Paths
    <2>2. Commands(Mark(Terminated(cot), "sets", Paths(cy_list)))
            = Commands(Terminated(cot)) \cup {}
      BY <1>10, MarkTree
    <2>3. Commands(cot)' = Commands(cot) \cup Paths(cy_list)
      BY <1>10, <2>1, <2>2
    <2> QED
      BY <1>13, <2>3, MoreCommands
         DEF Line2CommandBlock, CommandBlock, LineEnd, Command, cgy_terminal
  <1>14. CASE Line2EndBlock
    BY <1>4, <1>14 DEF Line2EndBlock, EndBlock
  <1>15. ASSUME NEW n \in TreeName, cgy_treename(n) PROVE AcceptsWhatIsWritten'
    <2>1. bare' = bare /\ written' = written
      BY <1>15 DEF cgy_treename, Treename
    <2>2. CASE pt_len_is_0(cot)
      <3>1. heads' = heads /\ cot' = cot
        BY <1>15, <2>2 DEF cgy_treename
      <3>2. Commands(cot) = {}
        BY <2>2 DEF pt_len_is_0, Commands
      <3>3. LineByLine => LineByLine'
        BY <2>1, <3>1, <3>2 DEF LineByLine, InHeads, InTree
      <3>4. AcceptsWhatIsWritten' <=> (~bare' => LineByLine')
        BY AcceptsLineByLine, PTL
      <3> QED
        BY <2>1, <3>3, <3>4, AcceptsLineByLine, Zenon
    <2>3. CASE ~pt_len_is_0(cot)
      BY <1>15, <2>1, <2>3, TreeRegistered DEF cgy_treename
    <2> QED
      BY <2>2, <2>3
  <1>16. CASE clispec_parse_str
    BY <1>16, TreeRegistered DEF clispec_parse_str, EndOfFile
  <1>17. CASE UNCHANGED vars
    BY <1>4, <1>17 DEF vars, language, parser
  <1> QED
    BY <1>2, <1>3, <1>5, <1>6, <1>7, <1>8, <1>9, <1>11, <1>12, <1>13, <1>14, <1>15,
       <1>16, <1>17 DEF Next

(***************************************************************************)
(* The theorems.                                                           *)
(***************************************************************************)
LEMMA InitIInv == Init => IInv
  <1> SUFFICES ASSUME Init PROVE IInv
    OBVIOUS
  <1>1. StateInv
    <2>1. NoOptions \in [calls : Seq(Callback), hide : BOOLEAN] /\ <<>> \in Seq(Callback)
      BY DEF NoOptions
    <2>2. <<>> \in Seq(HeadSet)
      OBVIOUS
    <2> QED
      BY <2>1, <2>2, EmptyTree DEF Init, LanguageInit, StateInv, Phase
  <1>2. StackInv
    <2>1. Inner = Bracket("{", {<<>>})
      BY DEF Init, LanguageInit, Inner
    <2>2. Fresh(Inner)
      BY <2>1 DEF Fresh, Bracket
    <2> QED
      BY <2>2, InitCorresponds DEF StackInv, Correspondence
  <1>3. AcceptsWhatIsWritten
    <2>1. heads = <<>> /\ cot = NewTree /\ written = {}
      BY DEF Init, LanguageInit
    <2>2. \A n, line : ~InHeads(n, line)
      BY <2>1 DEF InHeads
    <2>3. \A n, line : ~InTree(n, line)
      BY <2>1, EmptyTree DEF InTree
    <2>4. LineByLine
      BY <2>1, <2>2, <2>3 DEF LineByLine
    <2> QED
      BY <2>4, AcceptsLineByLine
  <1> QED
    BY <1>1, <1>2, <1>3 DEF IInv

LEMMA NextIInv == IInv /\ [Next]_vars => IInv'
  BY StackStep, StateStep, AcceptsStep DEF IInv

LEMMA Inductive == Spec => []IInv
  BY InitIInv, NextIInv, PTL DEF Spec

(* Whatever is written, the registered trees and the one that is built     *)
(* accept exactly the command lines that the language gives to it.         *)
THEOREM AcceptCorrect == Spec => []AcceptsWhatIsWritten
  <1>1. IInv => AcceptsWhatIsWritten
    BY DEF IInv
  <1> QED
    BY <1>1, Inductive, PTL

(* The parser never loses count of the open brackets, and points only to   *)
(* objects of the tree that it builds.                                     *)
THEOREM TypeCorrect == Spec => []TypeOK
  <1>1. ASSUME NEW t \in TreeSet PROVE IsTree(t)
    <2>1. t.marks \subseteq {"empty", "hide", "sets"} \X Objects(t)
      <3>1. ASSUME NEW m \in t.marks PROVE m \in {"empty", "hide", "sets"} \X Objects(t)
        BY DEF TreeSet, MarkSet
      <3> QED
        BY <3>1
    <2> QED
      BY <2>1, TreeParts DEF IsTree
  <1>2. ASSUME IInv PROVE TypeOK
    <2>1. StateInv /\ StackInv
      BY <1>2 DEF IInv
    <2>2. \A i \in 1..Len(heads) : heads[i].name \in TreeName /\ IsTree(heads[i].tree)
      <3> TAKE i \in 1..Len(heads)
      <3>1. heads[i] \in HeadSet
        BY <2>1 DEF StateInv
      <3>2. heads[i].name \in TreeName /\ heads[i].tree \in TreeSet
        BY <3>1 DEF HeadSet
      <3> QED
        BY <1>1, <3>2
    <2>3. ASSUME NEW i \in 1..Len(cy_stack) PROVE IsLevel(i)
      <3>1. Level(nest[i], cy_stack[i], bare, Objects(cot))
        BY <2>1 DEF StackInv, Correspondence
      <3> QED
        BY <3>1 DEF Level, IsLevel, Paths
    <2> QED
      BY <1>1, <2>1, <2>2, <2>3, OnTop DEF StateInv, TypeOK, Paths
  <1> QED
    BY <1>2, Inductive, PTL

(***************************************************************************)
(* Options.  Without a brace that carries options over, they are those of  *)
(* the line that is read, and a line begins without any; with one, what is *)
(* written hidden still is.                                                *)
(***************************************************************************)
OptionsInv ==
    /\ options.hide => cy_hide
    /\ ~carried =>
         /\ cy_hide = options.hide /\ cy_callbacks = options.calls
         /\ phase # "option" => options = NoOptions
Flagged ==
    ~bare =>
        /\ \A flag, co : <<flag, co>> \in flags => co \in Objects(cot)
        /\ \A co, flag : flag \in {"hide", "sets"} /\ co # Top =>
             /\ <<flag, co>> \in flags => <<flag, co>> \in cot.marks
             /\ (flag = "sets" \/ ~carried) =>
                  (<<flag, co>> \in cot.marks => <<flag, co>> \in flags)

LEMMA OptionsStep ==
    ASSUME IInv, OptionsInv, [Next]_vars
    PROVE  OptionsInv'
  <1>1. /\ carried \in BOOLEAN /\ cy_hide \in BOOLEAN
        /\ options \in [calls : Seq(Callback), hide : BOOLEAN]
    BY DEF IInv, StateInv
  <1>2. NoOptions.calls = <<>> /\ NoOptions.hide = FALSE
    BY DEF NoOptions
  <1>3. ASSUME UNCHANGED <<carried, cy_hide, cy_callbacks, options>>,
               phase' # "option" => phase # "option"
        PROVE  OptionsInv'
    BY <1>3 DEF OptionsInv
  <1>4. ASSUME NEW w \in Word, cgy_cmd(w) PROVE OptionsInv'
    BY <1>3, <1>4 DEF cgy_cmd, Declare, DeclPhase
  <1>5. ASSUME NEW kind \in {"(", "["}, ctx_push(kind) PROVE OptionsInv'
    BY <1>3, <1>5 DEF ctx_push, Open, DeclPhase
  <1>6. CASE ctx_peek_swap \/ ctx_pop \/ ctx_pop_add
    BY <1>3, <1>6 DEF ctx_peek_swap, Choose, ctx_pop, ctx_pop_add, Close
  <1>7. ASSUME NEW f \in Callback, cgy_callback(f) PROVE OptionsInv'
    <2>1. /\ options' = [options EXCEPT !.calls = Append(options.calls, f)]
          /\ cy_callbacks' = Append(cy_callbacks, f) /\ cy_hide' = cy_hide
          /\ phase' = "option" /\ carried' = carried
      BY <1>7 DEF cgy_callback, Call, Option
    <2>2. options'.calls = Append(options.calls, f) /\ options'.hide = options.hide
      BY <1>1, <2>1
    <2> QED
      BY <2>1, <2>2 DEF OptionsInv
  <1>8. CASE cgy_flag
    <2>1. /\ options' = [options EXCEPT !.hide = TRUE]
          /\ cy_callbacks' = cy_callbacks /\ cy_hide' = TRUE
          /\ phase' = "option" /\ carried' = carried
      BY <1>8 DEF cgy_flag, Hide, Option
    <2>2. options'.calls = options.calls /\ options'.hide = TRUE
      BY <1>1, <2>1
    <2> QED
      BY <2>1, <2>2 DEF OptionsInv
  <1>9. ASSUME options' = NoOptions, cy_callbacks' = <<>>, cy_hide' = FALSE
        PROVE  OptionsInv'
    BY <1>2, <1>9 DEF OptionsInv
  <1>10. CASE Line2Semicolon
    BY <1>9, <1>10 DEF Line2Semicolon, Semicolon, Command, cgy_terminal
  <1>11. ASSUME NEW sets \in BOOLEAN, Line2CommandBlock(sets) PROVE OptionsInv'
    BY <1>9, <1>11 DEF Line2CommandBlock, CommandBlock, Command, cgy_terminal
  <1>12. ASSUME NEW sets \in BOOLEAN, Line2Block(sets) PROVE OptionsInv'
    <2>1. /\ options' = NoOptions /\ cy_callbacks' = cy_callbacks /\ cy_hide' = cy_hide
          /\ carried' = (carried \/ options # NoOptions)
      BY <1>12 DEF Line2Block, Block
    <2>2. ~carried' => ~carried /\ options = NoOptions
      BY <2>1
    <2> QED
      BY <1>2, <2>1, <2>2 DEF OptionsInv
  <1>13. CASE Line2EndBlock
    BY <1>3, <1>13 DEF Line2EndBlock, EndBlock
  <1>14. ASSUME NEW n \in TreeName, cgy_treename(n) PROVE OptionsInv'
    BY <1>3, <1>14 DEF cgy_treename, Treename
  <1>15. CASE clispec_parse_str
    BY <1>3, <1>15 DEF clispec_parse_str, EndOfFile
  <1>16. CASE UNCHANGED vars
    BY <1>3, <1>16 DEF vars, language, parser
  <1> QED
    BY <1>4, <1>5, <1>6, <1>7, <1>8, <1>10, <1>11, <1>12, <1>13, <1>14, <1>15, <1>16
       DEF Next

(* Nothing is marked, and marks go with the flags of the language.         *)
LEMMA SameMarks ==
    ASSUME Flagged, bare \in BOOLEAN, carried \in BOOLEAN, bare => bare', carried => carried',
           flags' = flags, Objects(cot) \subseteq Objects(cot)', cot'.marks = cot.marks
    PROVE  Flagged'
  BY DEF Flagged

LEMMA MoreMarks ==
    ASSUME Flagged, IInv, OptionsInv, bare' = bare, carried => carried',
           carried \in BOOLEAN, carried' \in BOOLEAN,
           InBraces, NEW sets \in BOOLEAN, flags' = Flags(sets),
           Objects(cot)' = Objects(cot),
           \A flag, co : flag \in {"hide", "sets"} =>
              (<<flag, co>> \in cot'.marks <=>
                 \/ <<flag, co>> \in cot.marks
                 \/ flag = "hide" /\ cy_hide /\ co \in Paths(cy_list)
                 \/ flag = "sets" /\ sets /\ co \in Paths(cy_list))
    PROVE  Flagged'
  <1> SUFFICES ASSUME ~bare' PROVE Flagged'
    BY DEF Flagged
  <1>1. ~bare
    OBVIOUS
  <1>2. (options.hide => cy_hide) /\ (~carried => cy_hide = options.hide)
    BY DEF OptionsInv
  <1>3. OpenLine = Paths(cy_list) /\ Paths(cy_list) \subseteq Objects(cot)
    BY <1>1, ListIsOpenLine, OnTop DEF IInv
  <1>4. \A flag, co : <<flag, co>> \in flags' <=>
              \/ <<flag, co>> \in flags
              \/ flag = "hide" /\ options.hide /\ co \in Paths(cy_list)
              \/ flag = "sets" /\ sets /\ co \in Paths(cy_list)
    BY <1>3 DEF Flags
  <1>5. /\ \A flag, co : <<flag, co>> \in flags => co \in Objects(cot)
        /\ \A co, flag : flag \in {"hide", "sets"} /\ co # Top =>
             /\ <<flag, co>> \in flags => <<flag, co>> \in cot.marks
             /\ (flag = "sets" \/ ~carried) =>
                  (<<flag, co>> \in cot.marks => <<flag, co>> \in flags)
    BY <1>1 DEF Flagged
  <1>6. \A flag, co : <<flag, co>> \in flags' => co \in Objects(cot)'
    BY <1>3, <1>4, <1>5
  <1>7. \A co, flag : flag \in {"hide", "sets"} /\ co # Top =>
             /\ <<flag, co>> \in flags' => <<flag, co>> \in cot'.marks
             /\ (flag = "sets" \/ ~carried') =>
                  (<<flag, co>> \in cot'.marks => <<flag, co>> \in flags')
    <2> TAKE co, flag
    <2> HAVE flag \in {"hide", "sets"} /\ co # Top
    <2>0. /\ <<flag, co>> \in flags => <<flag, co>> \in cot.marks
          /\ (flag = "sets" \/ ~carried) =>
               (<<flag, co>> \in cot.marks => <<flag, co>> \in flags)
      BY <1>5, Zenon
    <2>1. <<flag, co>> \in cot'.marks <=>
               \/ <<flag, co>> \in cot.marks
               \/ flag = "hide" /\ cy_hide /\ co \in Paths(cy_list)
               \/ flag = "sets" /\ sets /\ co \in Paths(cy_list)
      OBVIOUS
    <2>2. <<flag, co>> \in flags' <=>
               \/ <<flag, co>> \in flags
               \/ flag = "hide" /\ options.hide /\ co \in Paths(cy_list)
               \/ flag = "sets" /\ sets /\ co \in Paths(cy_list)
      BY <1>4, Zenon
    <2>3. <<flag, co>> \in flags' => <<flag, co>> \in cot'.marks
      BY <1>2, <2>0, <2>1, <2>2
    <2>4. (flag = "sets" \/ ~carried') =>
               (<<flag, co>> \in cot'.marks => <<flag, co>> \in flags')
      BY <1>2, <2>0, <2>1, <2>2
    <2> QED
      BY <2>3, <2>4
  <1> QED
    BY <1>6, <1>7 DEF Flagged

LEMMA FlaggedStep ==
    ASSUME IInv, OptionsInv, Flagged, IInv', [Next]_vars
    PROVE  Flagged'
  <1>1. /\ cy_list \in Seq(Line) /\ Paths(cy_list) \in SUBSET Objects(cot)
        /\ Paths(cy_list) \subseteq Objects(cot) /\ cot \in TreeSet
        /\ bare \in BOOLEAN /\ carried \in BOOLEAN /\ carried' \in BOOLEAN
        /\ cy_hide \in BOOLEAN /\ cy_callbacks \in Seq(Callback)
        /\ StackInv /\ StateInv
    BY OnTop DEF IInv, StateInv
  <1>2. ASSUME NEW w \in Word, cgy_cmd(w) PROVE Flagged'
    <2>1. cot' = InsertBelow(cot, Paths(cy_list), w)
      BY <1>2 DEF cgy_cmd, Paths
    <2>2. Objects(cot) \subseteq Objects(cot)' /\ cot'.marks = cot.marks
      BY <1>1, <2>1, Inserted
    <2> QED
      BY <1>1, <1>2, <2>2, SameMarks DEF cgy_cmd, Declare
  <1>3. ASSUME NEW kind \in {"(", "["}, ctx_push(kind) PROVE Flagged'
    <2>1. /\ Objects(cot)' = Objects(cot) /\ bare' = bare /\ carried' = carried
          /\ flags' = flags /\ phase # "option"
          /\ \A m, co : <<m, co>> \in cot'.marks <=>
                \/ <<m, co>> \in cot.marks
                \/ m = "hide" /\ cy_hide /\ co \in Paths(cy_list)
      BY <1>1, <1>3, PushTree DEF ctx_push, Open, DeclPhase
    <2>2. CASE carried
      BY <2>1, <2>2 DEF Flagged
    <2>3. CASE ~carried
      <3>1. ~cy_hide
        BY <2>1, <2>3 DEF OptionsInv, NoOptions
      <3>2. \A m, co : <<m, co>> \in cot'.marks <=> <<m, co>> \in cot.marks
        BY <2>1, <3>1
      <3> QED
        BY <2>1, <3>2 DEF Flagged
    <2> QED
      BY <1>1, <2>2, <2>3
  <1>4. ASSUME bare => bare', carried' = carried, flags' = flags, cot' = cot
        PROVE  Flagged'
    BY <1>1, <1>4, SameMarks
  <1>5. CASE ctx_peek_swap
    <2>1. bare => bare'
      BY <1>5 DEF ctx_peek_swap, Choose
    <2> QED
      BY <1>4, <1>5, <2>1 DEF ctx_peek_swap, Choose
  <1>6. CASE ctx_pop \/ ctx_pop_add \/ cgy_flag
    BY <1>4, <1>6 DEF ctx_pop, ctx_pop_add, Close, cgy_flag, Hide, Option
  <1>7. ASSUME NEW f \in Callback, cgy_callback(f) PROVE Flagged'
    BY <1>4, <1>7 DEF cgy_callback, Call, Option
  <1>8. /\ Terminated(cot) \in TreeSet /\ Objects(Terminated(cot)) = Objects(cot)
        /\ \A m, co : <<m, co>> \in Terminated(cot).marks <=>
             \/ <<m, co>> \in cot.marks
             \/ m = "hide" /\ cy_hide /\ co \in Paths(cy_list)
             \/ m = "empty" /\ co \in Paths(cy_list)
    BY <1>1, TerminateTree
  <1>9. CASE Line2Semicolon
    BY <1>1, <1>8, <1>9, MoreMarks DEF Line2Semicolon, Semicolon, LineEnd
  <1>10. ASSUME NEW sets \in BOOLEAN, Line2CommandBlock(sets) PROVE Flagged'
    <2>1. cot' = IF sets THEN Mark(Terminated(cot), "sets", Paths(cy_list))
                         ELSE Terminated(cot)
      BY <1>10 DEF Line2CommandBlock, Paths
    <2> DEFINE T == Terminated(cot)
               M == Mark(T, "sets", Paths(cy_list))
    <2>2. /\ Objects(M) = Objects(T)
          /\ \A m, co : <<m, co>> \in M.marks <=>
               <<m, co>> \in T.marks \/ (m = "sets" /\ co \in Paths(cy_list))
      <3>1. T \in TreeSet /\ Paths(cy_list) \in SUBSET Objects(T)
        BY <1>1, <1>8
      <3> HIDE DEF T
      <3> QED
        BY <3>1, MarkTree
    <2>3. cot' = IF sets THEN M ELSE T
      BY <2>1
    <2> HIDE DEF M
    <2>4. Objects(cot)' = Objects(cot)
      BY <1>8, <2>2, <2>3
    <2>5. \A m, co : <<m, co>> \in cot'.marks <=>
             \/ <<m, co>> \in T.marks
             \/ m = "sets" /\ sets /\ co \in Paths(cy_list)
      BY <2>2, <2>3
    <2> QED
      BY <1>1, <1>8, <1>10, <2>4, <2>5, MoreMarks
         DEF Line2CommandBlock, CommandBlock, LineEnd
  <1>11. ASSUME NEW sets \in BOOLEAN, Line2Block(sets) PROVE Flagged'
    <2>1. /\ Objects(cot)' = Objects(cot)
          /\ \A m, co : <<m, co>> \in cot'.marks <=>
                \/ <<m, co>> \in cot.marks
                \/ m = "hide" /\ cy_hide /\ co \in Paths(cy_list)
                \/ m = "sets" /\ sets /\ co \in Paths(cy_list)
      BY <1>1, <1>11, PushTree DEF Line2Block
    <2>2. bare' = bare /\ (carried => carried') /\ flags' = Flags(sets) /\ InBraces
      BY <1>11 DEF Line2Block, Block, LineEnd
    <2> QED
      BY <1>1, <2>1, <2>2, MoreMarks
  <1>12. CASE Line2EndBlock
    BY <1>4, <1>12 DEF Line2EndBlock, EndBlock
  <1>13. ASSUME NEW n \in TreeName, cgy_treename(n) PROVE Flagged'
    <2>1. flags' = {} /\ bare' = bare /\ carried' = carried
      BY <1>13 DEF cgy_treename, Treename
    <2>2. \A co, flag : <<flag, co>> \in cot'.marks => co = Top
      <3>1. CASE pt_len_is_0(cot)
        BY <1>1, <1>13, <3>1, TreeParts DEF cgy_treename, pt_len_is_0
      <3>2. CASE ~pt_len_is_0(cot)
        BY <1>13, <3>2 DEF cgy_treename, NewTree
      <3> QED
        BY <3>1, <3>2
    <2> QED
      BY <2>1, <2>2 DEF Flagged
  <1>14. CASE clispec_parse_str
    BY <1>4, <1>14 DEF clispec_parse_str, EndOfFile
  <1>15. CASE UNCHANGED vars
    BY <1>4, <1>15 DEF vars, language, parser
  <1> QED
    BY <1>2, <1>3, <1>5, <1>6, <1>7, <1>9, <1>10, <1>11, <1>12, <1>13, <1>14, <1>15
       DEF Next

(* What is hidden, and what is a set, is what was written so.              *)
THEOREM FlagsCorrect == Spec => []FlaggedAsWritten
  <1>1. Init => OptionsInv /\ Flagged
    <2> SUFFICES ASSUME Init PROVE OptionsInv /\ Flagged
      OBVIOUS
    <2>1. options = NoOptions /\ cy_callbacks = <<>> /\ cy_hide = FALSE
          /\ flags = {} /\ cot = NewTree
      BY DEF Init, LanguageInit
    <2>2. OptionsInv
      BY <2>1 DEF OptionsInv, NoOptions
    <2>3. Flagged
      BY <2>1 DEF Flagged, NewTree
    <2> QED
      BY <2>2, <2>3
  <1>2. IInv /\ OptionsInv /\ Flagged /\ IInv' /\ [Next]_vars
            => OptionsInv' /\ Flagged'
    BY OptionsStep, FlaggedStep
  <1>3. OptionsInv /\ Flagged => FlaggedAsWritten
    BY DEF Flagged, FlaggedAsWritten
  <1> QED
    BY <1>1, <1>2, <1>3, Inductive, PTL DEF Spec

(***************************************************************************)
(* Callbacks.  An object that is in the list once gets them once.          *)
(***************************************************************************)
LEMMA RepeatLen ==
    ASSUME NEW s \in Seq(Callback), NEW n \in Nat
    PROVE  Len(Repeat(s, n)) = n * Len(s)
  <1>1. n * Len(s) \in Nat
    OBVIOUS
  <1> QED
    BY <1>1 DEF Repeat

LEMMA RepeatNone ==
    ASSUME NEW s \in Seq(Callback), NEW n \in Nat, n = 0 \/ s = <<>>
    PROVE  Repeat(s, n) = <<>>
  <1>1. n * Len(s) = 0
    BY EmptySeq
  <1>2. Repeat(s, n) \in Seq(Callback) /\ Len(Repeat(s, n)) = 0
    <2>1. Len(Repeat(s, n)) = n * Len(s)
      BY RepeatLen
    <2> QED
      BY <1>1, <2>1, RepeatIsSeq
  <1>3. \A t \in Seq(Callback) : Len(t) = 0 => t = <<>>
    BY EmptySeq
  <1> QED
    BY <1>2, <1>3

LEMMA RepeatOnce ==
    ASSUME NEW s \in Seq(Callback)
    PROVE  Repeat(s, 1) = s
  <1>1. Repeat(s, 1) \in Seq(Callback) /\ Len(Repeat(s, 1)) = Len(s)
    BY RepeatIsSeq, RepeatLen
  <1>2. \A i \in 1..Len(s) : ((i - 1) % Len(s)) + 1 = i
    <2>1. \A a \in Nat, m \in Nat \ {0} : a < m => a % m = a
      OBVIOUS
    <2> TAKE i \in 1..Len(s)
    <2>2. i - 1 \in Nat /\ Len(s) \in Nat \ {0} /\ i - 1 < Len(s)
      OBVIOUS
    <2>3. (i - 1) % Len(s) = i - 1
      BY <2>1, <2>2
    <2> QED
      BY <2>3
  <1>3. 1 * Len(s) = Len(s)
    OBVIOUS
  <1>4. \A i \in 1..Len(s) : Repeat(s, 1)[i] = s[i]
    BY <1>2, <1>3 DEF Repeat
  <1> QED
    BY <1>1, <1>4, SeqEqual

LEMMA TimesOfOne ==
    ASSUME NEW list \in Seq(Line),
           ~\E i, j \in 1..Len(list) : i # j /\ list[i] = list[j],
           NEW co
    PROVE  Times(co, list) = IF co \in Paths(list) THEN 1 ELSE 0
  <1> DEFINE found == {i \in 1..Len(list) : list[i] = co}
  <1>1. CASE co \in Paths(list)
    <2>1. PICK i \in 1..Len(list) : co = list[i]
      BY <1>1, PathsElements
    <2>2. found = {i}
      BY <2>1
    <2> QED
      BY <1>1, <2>2, FS_Singleton DEF Times
  <1>2. CASE co \notin Paths(list)
    <2>1. found = {}
      BY <1>2, PathsElements
    <2> QED
      BY <1>2, <2>1, FS_EmptySet DEF Times
  <1> QED
    BY <1>1, <1>2

LEMMA TimesOfNone ==
    ASSUME NEW list \in Seq(Line), NEW co, co \notin Paths(list)
    PROVE  Times(co, list) = 0
  <1>1. {i \in 1..Len(list) : list[i] = co} = {}
    BY PathsElements
  <1> QED
    BY <1>1, FS_EmptySet DEF Times

RunsInv ==
    ~(bare \/ carried \/ twice) =>
        /\ \A line : line \in DOMAIN runs => line \in Objects(cot)
        /\ \A co : co \in Objects(cot) /\ co # Top => cot.callbacks[co] = Runs(co)

LEMMA SameCalls ==
    ASSUME RunsInv, bare \in BOOLEAN, carried \in BOOLEAN, twice \in BOOLEAN,
           bare => bare', carried => carried', twice => twice', runs' = runs,
           Objects(cot) \subseteq Objects(cot)',
           \A co : co \in Objects(cot)' =>
               cot'.callbacks[co] = CallsOf(cot, co)
    PROVE  RunsInv'
  <1> SUFFICES ASSUME ~(bare' \/ carried' \/ twice') PROVE RunsInv'
    BY DEF RunsInv
  <1>1. /\ \A line : line \in DOMAIN runs => line \in Objects(cot)
        /\ \A co : co \in Objects(cot) /\ co # Top => cot.callbacks[co] = Runs(co)
    BY DEF RunsInv
  <1>2. \A co : Runs(co)' = Runs(co)
    BY DEF Runs
  <1>3. \A co : co \notin Objects(cot) => Runs(co) = <<>>
    BY <1>1 DEF Runs
  <1> QED
    BY <1>1, <1>2, <1>3 DEF RunsInv, CallsOf

LEMMA MoreCalls ==
    ASSUME RunsInv, IInv, OptionsInv, twice \in BOOLEAN, bare' = bare, carried' = carried,
           InBraces, Command, cgy_terminal,
           Objects(cot)' = Objects(cot),
           \A co : co \in Objects(cot) =>
              cot'.callbacks[co] =
                  cot.callbacks[co] \o Repeat(cy_callbacks, Times(co, cy_list))
    PROVE  RunsInv'
  <1> SUFFICES ASSUME ~(bare' \/ carried' \/ twice') PROVE RunsInv'
    BY DEF RunsInv
  <1>1. /\ ~bare /\ ~carried
        /\ twice' = (\/ twice
                     \/ /\ cy_callbacks # <<>>
                        /\ \E i, j \in 1..Len(cy_list) : i # j /\ cy_list[i] = cy_list[j])
    BY DEF cgy_terminal
  <1>2. /\ ~twice
        /\ \/ cy_callbacks = <<>>
           \/ ~\E i, j \in 1..Len(cy_list) : i # j /\ cy_list[i] = cy_list[j]
    BY <1>1
  <1>3. /\ cy_callbacks = options.calls /\ cy_callbacks \in Seq(Callback)
        /\ cy_list \in Seq(Line) /\ OpenLine = Paths(cy_list)
        /\ Paths(cy_list) \subseteq Objects(cot)
    BY <1>1, ListIsOpenLine, OnTop DEF IInv, OptionsInv, StateInv
  <1>4. ASSUME NEW co
        PROVE  Repeat(cy_callbacks, Times(co, cy_list))
                  = IF co \in OpenLine THEN options.calls ELSE <<>>
    <2>1. Times(co, cy_list) \in Nat
      BY <1>3, TimesIsNat
    <2>2. CASE cy_callbacks = <<>>
      BY <1>3, <2>1, <2>2, RepeatNone
    <2>3. CASE co \notin OpenLine
      BY <1>3, <2>1, <2>3, TimesOfNone, RepeatNone
    <2>4. CASE /\ co \in OpenLine
               /\ ~\E i, j \in 1..Len(cy_list) : i # j /\ cy_list[i] = cy_list[j]
      BY <1>3, <2>1, <2>4, TimesOfOne, RepeatOnce
    <2> QED
      BY <1>2, <2>2, <2>3, <2>4
  <1>5. /\ \A line : line \in DOMAIN runs => line \in Objects(cot)
        /\ \A co : co \in Objects(cot) /\ co # Top => cot.callbacks[co] = Runs(co)
    BY <1>1, <1>2 DEF RunsInv
  <1>6. DOMAIN runs' = DOMAIN runs \cup OpenLine
    BY DEF Command
  <1>7. ASSUME NEW co
        PROVE  Runs(co)' = IF co \in DOMAIN runs \cup OpenLine
                           THEN Runs(co) \o (IF co \in OpenLine THEN options.calls ELSE <<>>)
                           ELSE <<>>
    BY <1>6 DEF Command, Runs
  <1>8. ASSUME NEW co, co \in Objects(cot), co # Top
        PROVE  cot'.callbacks[co] = Runs(co)'
    <2>1. cot'.callbacks[co]
            = Runs(co) \o (IF co \in OpenLine THEN options.calls ELSE <<>>)
      BY <1>4, <1>5, <1>8
    <2>2. CASE co \in DOMAIN runs \cup OpenLine
      BY <1>7, <2>1, <2>2
    <2>3. CASE co \notin DOMAIN runs \cup OpenLine
      <3>1. Runs(co) = <<>> /\ Runs(co)' = <<>> /\ <<>> \o <<>> = <<>>
        BY <1>7, <2>3 DEF Runs
      <3> QED
        BY <2>1, <2>3, <3>1
    <2> QED
      BY <2>2, <2>3
  <1>9. \A line : line \in DOMAIN runs' => line \in Objects(cot)'
    BY <1>3, <1>5, <1>6
  <1>10. \A co : co \in Objects(cot)' /\ co # Top => cot'.callbacks[co] = Runs(co)'
    BY <1>8
  <1> QED
    BY <1>9, <1>10 DEF RunsInv

LEMMA RunsStep ==
    ASSUME IInv, OptionsInv, RunsInv, twice \in BOOLEAN, IInv', [Next]_vars
    PROVE  RunsInv' /\ twice' \in BOOLEAN
  <1>1. /\ cy_list \in Seq(Line) /\ Paths(cy_list) \in SUBSET Objects(cot)
        /\ Paths(cy_list) \subseteq Objects(cot) /\ cot \in TreeSet
        /\ bare \in BOOLEAN /\ carried \in BOOLEAN /\ carried' \in BOOLEAN
        /\ cy_hide \in BOOLEAN /\ cy_callbacks \in Seq(Callback)
    BY OnTop DEF IInv, StateInv
  <1>2. ASSUME bare => bare', carried => carried', twice' = twice, runs' = runs,
               Objects(cot)' = Objects(cot), cot'.callbacks = cot.callbacks
        PROVE  RunsInv' /\ twice' \in BOOLEAN
    <2>1. \A co : co \in Objects(cot)' => cot'.callbacks[co] = CallsOf(cot, co)
      BY <1>2 DEF CallsOf
    <2> QED
      BY <1>1, <1>2, <2>1, SameCalls
  <1>3. ASSUME NEW w \in Word, cgy_cmd(w) PROVE RunsInv' /\ twice' \in BOOLEAN
    <2>1. cot' = InsertBelow(cot, Paths(cy_list), w)
      BY <1>3 DEF cgy_cmd, Paths
    <2>2. /\ Objects(cot) \subseteq Objects(cot)'
          /\ \A co : co \in Objects(cot)' =>
               cot'.callbacks[co] = CallsOf(cot, co)
      BY <1>1, <2>1, Inserted
    <2>3. bare' = bare /\ carried' = carried /\ runs' = runs /\ twice' = twice
      BY <1>3 DEF cgy_cmd, Declare
    <2> QED
      BY <1>1, <2>2, <2>3, SameCalls
  <1>4. ASSUME NEW kind \in {"(", "["}, ctx_push(kind) PROVE RunsInv' /\ twice' \in BOOLEAN
    <2>1. Objects(cot)' = Objects(cot) /\ cot'.callbacks = cot.callbacks
      BY <1>1, <1>4, PushTree DEF ctx_push
    <2> QED
      BY <1>2, <1>4, <2>1 DEF ctx_push, Open
  <1>5. CASE ctx_peek_swap
    <2>1. bare => bare'
      BY <1>5 DEF ctx_peek_swap, Choose
    <2> QED
      BY <1>2, <1>5, <2>1 DEF ctx_peek_swap, Choose
  <1>6. CASE ctx_pop \/ ctx_pop_add \/ cgy_flag
    BY <1>2, <1>6 DEF ctx_pop, ctx_pop_add, Close, cgy_flag, Hide, Option
  <1>7. ASSUME NEW f \in Callback, cgy_callback(f) PROVE RunsInv' /\ twice' \in BOOLEAN
    BY <1>2, <1>7 DEF cgy_callback, Call, Option
  <1>8. /\ Terminated(cot) \in TreeSet /\ Objects(Terminated(cot)) = Objects(cot)
        /\ \A co \in Objects(cot) : Terminated(cot).callbacks[co] =
             cot.callbacks[co] \o Repeat(cy_callbacks, Times(co, cy_list))
    BY <1>1, TerminateTree
  <1>9. cgy_terminal => twice' \in BOOLEAN
    BY Zenon DEF cgy_terminal
  <1>10. CASE Line2Semicolon
    <2>1. /\ InBraces /\ Command /\ cgy_terminal /\ bare' = bare /\ carried' = carried
          /\ cot' = Terminated(cot)
      BY <1>10 DEF Line2Semicolon, Semicolon, LineEnd
    <2> QED
      BY <1>8, <1>9, <2>1, MoreCalls
  <1>11. ASSUME NEW sets \in BOOLEAN, Line2CommandBlock(sets)
         PROVE  RunsInv' /\ twice' \in BOOLEAN
    <2>1. /\ InBraces /\ Command /\ cgy_terminal /\ bare' = bare /\ carried' = carried
          /\ cot' = IF sets THEN Mark(Terminated(cot), "sets", Paths(cy_list))
                            ELSE Terminated(cot)
      BY <1>11 DEF Line2CommandBlock, CommandBlock, LineEnd, Paths
    <2> DEFINE T == Terminated(cot)
               M == Mark(T, "sets", Paths(cy_list))
    <2>2. Objects(M) = Objects(T) /\ M.callbacks = T.callbacks
      <3>1. T \in TreeSet /\ Paths(cy_list) \in SUBSET Objects(T)
        BY <1>1, <1>8
      <3> HIDE DEF T
      <3> QED
        BY <3>1, MarkTree
    <2>3. cot' = M \/ cot' = T
      BY <2>1
    <2> HIDE DEF M
    <2>4. Objects(cot)' = Objects(T) /\ cot'.callbacks = T.callbacks
      BY <2>2, <2>3
    <2> QED
      BY <1>8, <1>9, <2>1, <2>4, MoreCalls
  <1>12. ASSUME NEW sets \in BOOLEAN, Line2Block(sets) PROVE RunsInv' /\ twice' \in BOOLEAN
    <2>1. Objects(cot)' = Objects(cot) /\ cot'.callbacks = cot.callbacks
      BY <1>1, <1>12, PushTree DEF Line2Block
    <2> QED
      BY <1>2, <1>12, <2>1 DEF Line2Block, Block
  <1>13. CASE Line2EndBlock
    BY <1>2, <1>13 DEF Line2EndBlock, EndBlock
  <1>14. ASSUME NEW n \in TreeName, cgy_treename(n) PROVE RunsInv' /\ twice' \in BOOLEAN
    <2>1. DOMAIN runs' = {} /\ twice' = twice
      BY <1>14 DEF cgy_treename, Treename
    <2>2. Objects(cot)' = {Top}
      <3>1. CASE pt_len_is_0(cot)
        BY <1>14, <3>1 DEF cgy_treename, pt_len_is_0
      <3>2. CASE ~pt_len_is_0(cot)
        BY <1>14, <3>2, EmptyTree DEF cgy_treename
      <3> QED
        BY <3>1, <3>2
    <2> QED
      BY <2>1, <2>2 DEF RunsInv
  <1>15. CASE clispec_parse_str
    BY <1>2, <1>15 DEF clispec_parse_str, EndOfFile
  <1>16. CASE UNCHANGED vars
    BY <1>2, <1>16 DEF vars, language, parser
  <1> QED
    BY <1>3, <1>4, <1>5, <1>6, <1>7, <1>10, <1>11, <1>12, <1>13, <1>14, <1>15, <1>16
       DEF Next

(* A command runs the callbacks it was written with.                       *)
THEOREM RunsCorrect == Spec => []RunsAsWritten
  <1>1. Init => OptionsInv /\ RunsInv /\ twice \in BOOLEAN
    <2> SUFFICES ASSUME Init PROVE OptionsInv /\ RunsInv /\ twice \in BOOLEAN
      OBVIOUS
    <2>1. options = NoOptions /\ cy_callbacks = <<>> /\ cy_hide = FALSE
          /\ runs = [line \in {} |-> <<>>] /\ cot = NewTree /\ twice = FALSE
      BY DEF Init, LanguageInit
    <2>2. OptionsInv
      BY <2>1 DEF OptionsInv, NoOptions
    <2>3. RunsInv
      BY <2>1, EmptyTree DEF RunsInv
    <2> QED
      BY <2>1, <2>2, <2>3
  <1>2. IInv /\ OptionsInv /\ RunsInv /\ twice \in BOOLEAN /\ IInv' /\ [Next]_vars
            => OptionsInv' /\ RunsInv' /\ (twice \in BOOLEAN)'
    BY OptionsStep, RunsStep
  <1>3. RunsInv => RunsAsWritten
    BY DEF RunsInv, RunsAsWritten
  <1> QED
    BY <1>1, <1>2, <1>3, Inductive, PTL DEF Spec
=============================================================================
