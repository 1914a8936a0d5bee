--------------------------- MODULE ParseTreeProofs --------------------------
(***************************************************************************)
(* Proofs about ParseTree, for every set of objects and every length of a  *)
(* level.  The invariant of a search says what is left of low and right of *)
(* upper; that it survives a step rests on co_eq being transitive on the   *)
(* objects seen.  The second half is on levels that are ordered by name.   *)
(***************************************************************************)
EXTENDS ParseTree, TLAPS

Pos == 1 .. Len(pt)

(* The parameters of both searches. *)
Ranges ==
    phase \in {"search", "find"} =>
        low \in 1 .. Len(pt) + 1 /\ upper \in 0 .. Len(pt) + 1 /\ low <= upper + 1

NoResult == phase = "idle" => pos = 0

(* Everything on the level was inserted. *)
Known ==
    /\ \A j \in Pos : pt[j].co \in seen
    /\ phase \in {"search", "place"} => co1 \in seen

Split(x, lo, up) ==
    /\ \A j \in Pos : j < lo => CoEq(x, pt[j].co) > 0
    /\ \A j \in Pos : j > up => CoEq(x, pt[j].co) < 0

InsertInv ==
    /\ Consistent(seen) /\ phase = "search" => Split(co1, low, upper)
    /\ phase = "place" => pos \in 1 .. Len(pt) + 1
    /\ Consistent(seen) /\ phase = "place" => Absorbs \/ Split(co1, pos, pos - 1)

IInv == TypeOK /\ Ranges /\ NoResult /\ Known /\ InsertInv /\ LevelSorted

----------------------------------------------------------------------------
(* co_eq of two objects and of the same two the other way round. *)
LEMMA CoEqSymmetry ==
    ASSUME NEW x \in Object, NEW y \in Object
    PROVE  /\ CoEq(x, y) \in {-1, 0, 1}
           /\ CoEq(y, x) = 0 - CoEq(x, y)
           /\ CoEq(x, x) = 0
  <1>1. IsObject(x) /\ IsObject(y)
    BY ObjectAssumption
  <1>2. /\ x.kind \in Kinds /\ y.kind \in Kinds
        /\ x.name \in Int /\ y.name \in Int
        /\ x.kind = "variable" => x.vtype \in Int /\ x.options \in Int
        /\ y.kind = "variable" => y.vtype \in Int /\ y.options \in Int
    BY <1>1 DEF IsObject
  <1>3. \A k \in Kinds : KindRank[k] \in Int
    BY DEF Kinds, KindRank
  <1>4. \A a, b \in Int : /\ Compare(a, b) \in {-1, 0, 1}
                          /\ Compare(b, a) = 0 - Compare(a, b)
                          /\ Compare(a, a) = 0
    BY DEF Compare
  <1> HIDE DEF Compare
  <1> QED
    BY <1>2, <1>3, <1>4 DEF CoEq

(* Where co_eq is transitive, strict order goes over to a third object. *)
LEMMA StrictlyTransitive ==
    ASSUME NEW S \in SUBSET Object, Consistent(S),
           NEW x \in S, NEW y \in S, NEW z \in S,
           CoEq(x, y) <= 0, CoEq(y, z) <= 0,
           CoEq(x, y) < 0 \/ CoEq(y, z) < 0
    PROVE  CoEq(x, z) < 0
  <1>1. CoEq(x, z) <= 0
    BY DEF Consistent
  <1>2. ASSUME CoEq(x, z) = 0 PROVE FALSE
    <2>1. CoEq(z, x) <= 0
      BY <1>2, CoEqSymmetry
    <2>2. CoEq(z, y) <= 0 /\ CoEq(y, x) <= 0
      BY <2>1 DEF Consistent
    <2> QED
      BY <2>2, CoEqSymmetry
  <1> QED
    BY <1>1, <1>2, CoEqSymmetry

LEMMA Converse ==
    ASSUME NEW x \in Object, NEW y \in Object
    PROVE  /\ CoEq(x, y) < 0 <=> CoEq(y, x) > 0
           /\ CoEq(x, y) = 0 <=> CoEq(y, x) = 0
           /\ CoEq(x, y) \in Int
  BY CoEqSymmetry

(* A smaller set of objects is ordered if the larger is. *)
LEMMA SubsetConsistent ==
    ASSUME NEW S, NEW T, S \subseteq T, Consistent(T)
    PROVE  Consistent(S)
  BY DEF Consistent

----------------------------------------------------------------------------
(* What pt_vec_i_insert and pt_vec_i_delete leave on the level. *)
LEMMA InsertedEntries ==
    ASSUME TypeOK, NEW p \in 1 .. Len(pt) + 1, NEW e \in Entry
    PROVE  /\ Inserted(p, e) \in Seq(Entry)
           /\ Len(Inserted(p, e)) = Len(pt) + 1
           /\ \A j \in 1 .. Len(pt) + 1 :
                Inserted(p, e)[j] = IF j < p THEN pt[j] ELSE IF j = p THEN e ELSE pt[j - 1]
  <1>1. pt \in Seq(Entry) /\ Len(pt) \in Nat /\ \A j \in Pos : pt[j] \in Entry
    BY DEF TypeOK, Pos
  <1>2. \A j \in 1 .. Len(pt) + 1 :
            (IF j < p THEN pt[j] ELSE IF j = p THEN e ELSE pt[j - 1]) \in Entry
    <2> SUFFICES ASSUME NEW j \in 1 .. Len(pt) + 1
                 PROVE  (IF j < p THEN pt[j] ELSE IF j = p THEN e ELSE pt[j - 1]) \in Entry
      OBVIOUS
    <2>1. j < p => j \in Pos
      BY <1>1 DEF Pos
    <2>2. j > p => j - 1 \in Pos
      BY <1>1 DEF Pos
    <2> QED
      BY <1>1, <2>1, <2>2
  <1> QED
    BY <1>1, <1>2 DEF Inserted

LEMMA RemovedEntries ==
    ASSUME TypeOK, NEW p \in Pos
    PROVE  /\ Removed(p) \in Seq(Entry)
           /\ Len(Removed(p)) = Len(pt) - 1
           /\ \A j \in 1 .. Len(pt) - 1 :
                Removed(p)[j] = IF j < p THEN pt[j] ELSE pt[j + 1]
  <1>1. pt \in Seq(Entry) /\ Len(pt) \in Nat /\ \A j \in Pos : pt[j] \in Entry
    BY DEF TypeOK, Pos
  <1>2. \A j \in 1 .. Len(pt) - 1 : j \in Pos /\ j + 1 \in Pos
    BY <1>1 DEF Pos
  <1>3. Len(pt) - 1 \in Nat
    BY <1>1 DEF Pos
  <1> QED
    BY <1>1, <1>2, <1>3 DEF Removed

----------------------------------------------------------------------------
LEMMA InitInv == Init => IInv
  <1> SUFFICES ASSUME Init PROVE IInv
    OBVIOUS
  <1>1. pt = <<>> /\ Len(pt) = 0 /\ Pos = {} /\ 1 .. Len(pt) = {}
    BY DEF Init, Pos
  <1>2. pt \in Seq(Entry)
    BY <1>1
  <1>3. seen = {} /\ written = {} /\ phase = "idle" /\ adding = FALSE
    BY DEF Init
  <1>5. co1 \in Object \cup {NULL} /\ key \in Nat /\ low \in Nat \ {0} /\ upper \in Nat
        /\ pos \in 0 .. Len(pt) + 1 /\ retval \in {0, -1}
    BY <1>1 DEF Init
  <1>6. adding \in BOOLEAN
    BY <1>3, Zenon
  <1>4. TypeOK
    BY <1>2, <1>3, <1>5, <1>6, Zenon DEF TypeOK
  <1> QED
    BY <1>1, <1>3, <1>4 DEF Init, IInv, Ranges, NoResult, Known, InsertInv, LevelSorted

----------------------------------------------------------------------------
LEMMA MidBetween ==
    ASSUME low \in Nat, upper \in Nat, low <= upper
    PROVE  Mid \in Nat /\ low <= Mid /\ Mid <= upper /\ 2 * Mid <= low + upper
  BY DEF Mid

(* The start of a search: nothing is left of 1 or right of the end. *)
LEMMA StartInsertInv ==
    ASSUME IInv, NEW co \in Object, StartInsert(co),
           pt' \in Seq(Entry), \A j \in Pos' : pt'[j].co \in seen,
           Consistent(seen) => LevelSorted',
           adding' \in BOOLEAN, retval' \in {0, -1}, written' \subseteq Object
    PROVE  IInv'
  <1>1. Len(pt') \in Nat /\ seen \subseteq seen' /\ seen' \subseteq Object /\ co \in seen'
    BY DEF StartInsert, IInv, TypeOK
  <1>2. TypeOK'
    BY <1>1 DEF TypeOK, StartInsert
  <1>3. Ranges' /\ NoResult' /\ Known'
    BY <1>1 DEF Ranges, NoResult, Known, StartInsert, Pos
  <1>4. InsertInv'
    BY <1>1 DEF InsertInv, Split, StartInsert, Pos
  <1>5. LevelSorted'
    <2>1. CASE Consistent(seen)
      BY <2>1
    <2>2. CASE ~Consistent(seen')
      BY <2>2 DEF LevelSorted
    <2> QED
      BY <1>1, <2>1, <2>2, SubsetConsistent
  <1> QED
    BY <1>2, <1>3, <1>4, <1>5 DEF IInv

LEMMA StartFindInv ==
    ASSUME IInv, NEW name \in Nat, StartFind(name),
           pt' \in Seq(Entry), \A j \in Pos' : pt'[j].co \in seen,
           LevelSorted',
           adding' \in BOOLEAN, retval' \in {0, -1}, written' \subseteq Object
    PROVE  IInv'
  <1>1. Len(pt') \in Nat /\ seen' = seen /\ seen \subseteq Object
        /\ co1' \in Object \cup {NULL}
    BY DEF StartFind, IInv, TypeOK
  <1>2. TypeOK'
    BY <1>1 DEF TypeOK, StartFind
  <1>3. Ranges' /\ NoResult' /\ Known' /\ InsertInv'
    BY <1>1 DEF Ranges, NoResult, Known, InsertInv, StartFind, Pos
  <1> QED
    BY <1>2, <1>3 DEF IInv

LEMMA EndSearchInv ==
    ASSUME IInv, EndSearch,
           pt' \in Seq(Entry), \A j \in Pos' : pt'[j].co \in seen, seen' = seen,
           LevelSorted',
           adding' \in BOOLEAN, retval' \in {0, -1}, written' \subseteq Object
    PROVE  IInv'
  <1>1. Len(pt') \in Nat /\ seen \subseteq Object
    BY DEF IInv, TypeOK
  <1>2. TypeOK'
    BY <1>1 DEF TypeOK, EndSearch
  <1>3. Ranges' /\ NoResult' /\ Known' /\ InsertInv'
    BY <1>1 DEF Ranges, NoResult, Known, InsertInv, EndSearch, Pos
  <1> QED
    BY <1>2, <1>3 DEF IInv

(* A step of a search leaves the level alone. *)
LEMMA LevelKept ==
    ASSUME IInv, UNCHANGED <<pt, seen>>
    PROVE  LevelSorted'
  BY DEF IInv, LevelSorted
LEMMA InsertedInv ==        \* InsertAt
    ASSUME IInv, phase = "search", NEW p \in 1 .. Len(pt) + 1, InsertAt(p),
           Consistent(seen) => (p \in Pos /\ CoEq(co1, pt[p].co) = 0) \/ Split(co1, p, p - 1)
    PROVE  IInv'
  <1>1. Len(pt) \in Nat /\ co1 \in Object /\ pt' = pt /\ co1' = co1 /\ seen' = seen /\ pos' = p
    BY DEF InsertAt, IInv, TypeOK
  <1>2. TypeOK'
    BY <1>1 DEF TypeOK, InsertAt, IInv
  <1>3. Ranges' /\ NoResult' /\ Known'
    BY <1>1 DEF Ranges, NoResult, Known, InsertAt, Pos, IInv
  <1>4. InsertInv'
    BY <1>1 DEF InsertInv, InsertAt, Absorbs, EqualTo, Split, Pos
  <1> QED
    BY <1>2, <1>3, <1>4, <1>1, LevelKept DEF IInv

LEMMA SearchStep == IInv /\ (EndOfSearch \/ PastTheEnd \/ FindEqual) => IInv'
  <1> SUFFICES ASSUME IInv, EndOfSearch \/ PastTheEnd \/ FindEqual PROVE IInv'
    OBVIOUS
  <1>1. /\ Len(pt) \in Nat /\ phase = "search"
        /\ low \in 1 .. Len(pt) + 1 /\ upper \in 0 .. Len(pt) + 1 /\ low <= upper + 1
        /\ Consistent(seen) => Split(co1, low, upper)
    BY DEF IInv, TypeOK, Ranges, InsertInv, EndOfSearch, PastTheEnd, FindEqual
  <1>2. CASE EndOfSearch
    <2>1. low = upper + 1
      BY <1>1, <1>2 DEF EndOfSearch
    <2>2. Consistent(seen) => Split(co1, low, low - 1)
      BY <1>1, <2>1
    <2> QED
      BY <1>1, <1>2, <2>2, InsertedInv DEF EndOfSearch
  <1>3. CASE PastTheEnd
    <2>1. low = Len(pt) + 1 /\ upper = Len(pt) + 1
      BY <1>1, <1>3, MidBetween DEF PastTheEnd, Inside
    <2>2. Consistent(seen) => Split(co1, AtEnd, AtEnd - 1)
      BY <1>1, <2>1 DEF Split, Pos, AtEnd
    <2>3. AtEnd \in 1 .. Len(pt) + 1 /\ InsertAt(AtEnd)
      BY <1>1, <1>3 DEF PastTheEnd, AtEnd
    <2> QED
      BY <1>1, <2>2, <2>3, InsertedInv
  <1>4. CASE FindEqual
    <2>1. Mid \in Pos
      BY <1>1, <1>4, MidBetween DEF FindEqual, Inside, Pos
    <2> QED
      BY <1>1, <1>4, <2>1, InsertedInv DEF FindEqual, EqualTo, Pos
  <1> QED
    BY <1>2, <1>3, <1>4

(* Half of the level is out: what is there compares as the middle does. *)
LEMMA HalveInsertInv == IInv /\ HalveInsert => IInv'
  <1> SUFFICES ASSUME IInv, HalveInsert PROVE IInv'
    OBVIOUS
  <1>1. /\ Len(pt) \in Nat /\ phase = "search" /\ phase' = "search"
        /\ low \in 1 .. Len(pt) + 1 /\ upper \in 0 .. Len(pt) + 1
        /\ low <= upper /\ Mid <= Len(pt)
        /\ UNCHANGED <<pt, co1, key, pos, adding, retval, seen, written>>
        /\ seen \subseteq Object /\ co1 \in seen /\ \A j \in Pos : pt[j].co \in seen
    BY DEF IInv, TypeOK, Ranges, Known, HalveInsert, Halve, Inside
  <1>2. Mid \in Pos /\ low <= Mid /\ Mid <= upper
    BY <1>1, MidBetween DEF Pos
  <1>3. \/ CoEq(co1, pt[Mid].co) < 0 /\ upper' = Mid - 1 /\ low' = low
        \/ CoEq(co1, pt[Mid].co) > 0 /\ low' = Mid + 1 /\ upper' = upper
    BY DEF HalveInsert, Halve, LowAfter, UpperAfter
  <1>4. low' \in 1 .. Len(pt) + 1 /\ upper' \in 0 .. Len(pt) + 1 /\ low' <= upper' + 1
    BY <1>1, <1>2, <1>3 DEF Pos
  <1>5. TypeOK'
    BY <1>1, <1>4 DEF IInv, TypeOK
  <1>6. Consistent(seen) => Split(co1, low', upper')
    <2> SUFFICES ASSUME Consistent(seen) PROVE Split(co1, low', upper')
      OBVIOUS
    <2>1. Split(co1, low, upper)
      BY <1>1 DEF IInv, InsertInv
    <2>2. \A i, j \in Pos : i < j => CoEq(pt[i].co, pt[j].co) < 0
      BY DEF IInv, LevelSorted, Pos
    <2>3. CASE CoEq(co1, pt[Mid].co) < 0 /\ upper' = Mid - 1 /\ low' = low
      <3>1. ASSUME NEW j \in Pos, j > upper' PROVE CoEq(co1, pt[j].co) < 0
        <4>1. j = Mid \/ Mid < j
          BY <1>2, <2>3, <3>1 DEF Pos
        <4>2. CASE Mid < j
          <5>1. CoEq(pt[Mid].co, pt[j].co) < 0
            BY <1>2, <2>2, <4>2
          <5>2. pt[j].co \in seen /\ pt[Mid].co \in seen
            BY <1>1, <1>2
          <5>4. CoEq(co1, pt[Mid].co) \in Int /\ CoEq(pt[Mid].co, pt[j].co) \in Int
            BY <1>1, <5>2, Converse
          <5>3. CoEq(co1, pt[Mid].co) <= 0 /\ CoEq(pt[Mid].co, pt[j].co) <= 0
            BY <2>3, <5>1, <5>4
          <5> QED
            BY <1>1, <2>3, <5>1, <5>2, <5>3, StrictlyTransitive, Converse
        <4> QED
          BY <2>3, <4>1, <4>2
      <3> QED
        BY <2>1, <2>3, <3>1 DEF Split
    <2>4. CASE CoEq(co1, pt[Mid].co) > 0 /\ low' = Mid + 1 /\ upper' = upper
      <3>1. ASSUME NEW j \in Pos, j < low' PROVE CoEq(co1, pt[j].co) > 0
        <4>1. j = Mid \/ j < Mid
          BY <1>2, <2>4, <3>1 DEF Pos
        <4>2. CASE j < Mid
          <5>1. CoEq(pt[j].co, pt[Mid].co) < 0
            BY <1>2, <2>2, <4>2
          <5>2. CoEq(pt[Mid].co, co1) < 0
            BY <1>1, <1>2, <2>4, Converse
          <5>4. pt[j].co \in seen /\ pt[Mid].co \in seen /\ co1 \in seen /\ seen \in SUBSET Object
            BY <1>1, <1>2
          <5>5. CoEq(pt[j].co, pt[Mid].co) \in Int /\ CoEq(pt[Mid].co, co1) \in Int
            BY <5>4, Converse
          <5>6. CoEq(pt[j].co, pt[Mid].co) <= 0 /\ CoEq(pt[Mid].co, co1) <= 0
            BY <5>1, <5>2, <5>5
          <5>3. CoEq(pt[j].co, co1) < 0
            BY <5>1, <5>4, <5>6, StrictlyTransitive
          <5> QED
            BY <1>1, <5>3, Converse
        <4> QED
          BY <2>4, <4>1, <4>2
      <3> QED
        BY <2>1, <2>4, <3>1 DEF Split
    <2> QED
      BY <1>3, <2>3, <2>4
  <1>7. Ranges' /\ NoResult' /\ Known'
    BY <1>1, <1>4 DEF Ranges, NoResult, Known, Pos
  <1>8. InsertInv'
    BY <1>1, <1>6 DEF InsertInv, Split, Pos
  <1> QED
    BY <1>1, <1>5, <1>7, <1>8, LevelKept DEF IInv
----------------------------------------------------------------------------
(* The level after the new object was put between its smaller and its      *)
(* greater sisters.                                                        *)
LEMMA InsertedSorted ==
    ASSUME IInv, phase = "place", ~Absorbs,
           NEW e \in Entry, e.co = co1, pt' = Inserted(pos, e)
    PROVE  /\ pt' \in Seq(Entry) /\ Len(pt') = Len(pt) + 1
           /\ \A j \in Pos' : pt'[j].co \in seen
           /\ \A j \in Pos : \E k \in Pos' : pt'[k] = pt[j]
           /\ pos \in Pos' /\ pt'[pos] = e
           /\ Consistent(seen) =>
                \A i, j \in Pos' : i < j => CoEq(pt'[i].co, pt'[j].co) < 0
  <1>1. /\ Len(pt) \in Nat /\ pos \in 1 .. Len(pt) + 1
        /\ seen \subseteq Object /\ co1 \in seen
        /\ \A j \in Pos : pt[j].co \in seen
    BY DEF IInv, TypeOK, InsertInv, Known
  <1>2. /\ pt' \in Seq(Entry) /\ Len(pt') = Len(pt) + 1
        /\ \A j \in 1 .. Len(pt) + 1 :
             pt'[j] = IF j < pos THEN pt[j] ELSE IF j = pos THEN e ELSE pt[j - 1]
    <2>1. TypeOK
      BY DEF IInv
    <2>2. \A d \in Entry :
            /\ Inserted(pos, d) \in Seq(Entry)
            /\ Len(Inserted(pos, d)) = Len(pt) + 1
            /\ \A j \in 1 .. Len(pt) + 1 :
                 Inserted(pos, d)[j] = IF j < pos THEN pt[j] ELSE IF j = pos THEN d ELSE pt[j - 1]
      BY <1>1, <2>1, InsertedEntries
    <2> QED
      BY <2>2
  <1>3. Pos' = 1 .. Len(pt) + 1
    BY <1>2 DEF Pos
  <1>4. \A j \in Pos' : /\ j < pos => j \in Pos /\ pt'[j] = pt[j]
                        /\ j = pos => pt'[j] = e
                        /\ j > pos => j - 1 \in Pos /\ pt'[j] = pt[j - 1]
    BY <1>1, <1>2, <1>3 DEF Pos
  <1>5. \A j \in Pos' : pt'[j].co \in seen
    BY <1>1, <1>3, <1>4
  <1>6. \A j \in Pos : \E k \in Pos' : pt'[k] = pt[j]
    <2> SUFFICES ASSUME NEW j \in Pos PROVE \E k \in Pos' : pt'[k] = pt[j]
      OBVIOUS
    <2>1. CASE j < pos
      <3>1. j \in Pos' /\ pt'[j] = pt[j]
        BY <1>1, <1>3, <1>4, <2>1 DEF Pos
      <3> QED
        BY <3>1
    <2>2. CASE j >= pos
      <3>1. j + 1 \in Pos' /\ j + 1 > pos /\ (j + 1) - 1 = j
        BY <1>1, <1>3, <2>2 DEF Pos
      <3>2. pt'[j + 1] = pt[j]
        BY <1>4, <3>1
      <3> QED
        BY <3>1, <3>2
    <2> QED
      BY <1>1, <2>1, <2>2 DEF Pos
  <1>7. ASSUME Consistent(seen), NEW i \in Pos', NEW j \in Pos', i < j
        PROVE  CoEq(pt'[i].co, pt'[j].co) < 0
    <2>1. /\ \A k \in Pos : k < pos => CoEq(co1, pt[k].co) > 0
          /\ \A k \in Pos : k > pos - 1 => CoEq(co1, pt[k].co) < 0
      BY <1>7 DEF IInv, InsertInv, Split
    <2>2. \A k, l \in Pos : k < l => CoEq(pt[k].co, pt[l].co) < 0
      BY <1>7 DEF IInv, LevelSorted, Pos
    <2>3. \A k \in Pos : k < pos => CoEq(pt[k].co, co1) < 0
      BY <1>1, <2>1, Converse
    <2>4. i \in Int /\ j \in Int /\ pos \in Int
      BY <1>1, <1>3
    <2>5. CASE j < pos
      BY <1>4, <1>7, <2>2, <2>4, <2>5
    <2>6. CASE j = pos
      BY <1>4, <1>7, <2>3, <2>4, <2>6
    <2>7. CASE j > pos /\ i < pos
      <3>1. i \in Pos /\ j - 1 \in Pos /\ pt'[i] = pt[i] /\ pt'[j] = pt[j - 1] /\ i < j - 1
        BY <1>4, <1>7, <2>4, <2>7
      <3> QED
        BY <2>2, <3>1
    <2>8. CASE j > pos /\ i = pos
      <3>1. j - 1 \in Pos /\ pt'[i] = e /\ pt'[j] = pt[j - 1] /\ j - 1 > pos - 1
        BY <1>4, <1>7, <2>4, <2>8
      <3> QED
        BY <2>1, <3>1
    <2>9. CASE j > pos /\ i > pos
      <3>1. i - 1 \in Pos /\ j - 1 \in Pos /\ pt'[i] = pt[i - 1] /\ pt'[j] = pt[j - 1]
            /\ i - 1 < j - 1
        BY <1>4, <1>7, <2>4, <2>9
      <3> QED
        BY <2>2, <3>1
    <2> QED
      BY <2>4, <2>5, <2>6, <2>7, <2>8, <2>9
  <1>8. pos \in Pos' /\ pt'[pos] = e
    BY <1>1, <1>3, <1>4
  <1> QED
    BY <1>2, <1>5, <1>6, <1>7, <1>8

(* What co_insert1 leaves on the level. *)
LEMMA PlacedInv ==
    ASSUME IInv, phase = "place", pt' = Placed, seen' = seen
    PROVE  /\ pt' \in Seq(Entry) /\ \A j \in Pos' : pt'[j].co \in seen
           /\ LevelSorted'
  <1> DEFINE e == [co |-> co1, alias |-> FALSE]
  <1>1. /\ co1 \in Object /\ pt \in Seq(Entry)
        /\ \A j \in Pos : pt[j].co \in seen
    BY DEF IInv, TypeOK, Known
  <1>2. e \in Entry /\ e.co = co1
    BY <1>1 DEF Entry
  <1>3. CASE Absorbs
    <2>1. pt' = pt
      BY <1>3 DEF Placed
    <2> QED
      BY <1>1, <2>1, LevelKept DEF Pos
  <1>4. CASE ~Absorbs
    <2>1. pt' = Inserted(pos, e)
      BY <1>4 DEF Placed
    <2>2. /\ pt' \in Seq(Entry) /\ \A j \in Pos' : pt'[j].co \in seen
          /\ Consistent(seen) =>
               \A i, j \in Pos' : i < j => CoEq(pt'[i].co, pt'[j].co) < 0
      BY <1>1, <1>2, <1>4, <2>1, InsertedSorted
    <2> QED
      BY <2>2 DEF LevelSorted, Pos
  <1> QED
    BY <1>3, <1>4

LEMMA PlaceInv == IInv /\ Place => IInv'
  <1> SUFFICES ASSUME IInv, Place PROVE IInv'
    OBVIOUS
  <1>1. /\ phase = "place" /\ co1 \in Object /\ pt' = Placed
        /\ adding' = adding /\ retval' = retval /\ written \subseteq Object
        /\ co1.name \in Nat
    BY ObjectAssumption DEF IInv, TypeOK, Known, Place, IsObject
  <1>3. seen' = seen
    BY DEF Place, StartFind
  <1>4. /\ pt' \in Seq(Entry) /\ \A j \in Pos' : pt'[j].co \in seen
        /\ LevelSorted'
    BY <1>1, <1>3, PlacedInv
  <1>5. adding' \in BOOLEAN /\ retval' \in {0, -1}
    BY <1>1, Zenon DEF IInv, TypeOK
  <1>6. CASE adding
    <2>1. StartFind(co1.name) /\ written' = written
      BY <1>6 DEF Place
    <2> QED
      BY <1>1, <1>4, <1>5, <2>1, StartFindInv
  <1>7. CASE ~adding
    <2>1. EndSearch /\ written' \subseteq Object
      BY <1>1, <1>7 DEF Place
    <2> QED
      BY <1>3, <1>4, <1>5, <2>1, EndSearchInv
  <1> QED
    BY <1>6, <1>7
(* Removing an object keeps the order of the others. *)
LEMMA RemovedSorted ==
    ASSUME IInv, NEW p \in Pos, pt' = Removed(p)
    PROVE  /\ pt' \in Seq(Entry) /\ Len(pt') <= Len(pt)
           /\ \A j \in Pos' : pt'[j].co \in seen
           /\ \A k \in Pos : k # p => \E j \in Pos' : pt'[j] = pt[k]
           /\ \A j \in Pos' : \E k \in Pos : k # p /\ pt'[j] = pt[k]
           /\ Consistent(seen) =>
                \A i, j \in Pos' : i < j => CoEq(pt'[i].co, pt'[j].co) < 0
  <1>1. Len(pt) \in Nat /\ p \in 1 .. Len(pt) /\ \A j \in Pos : pt[j].co \in seen
    BY DEF IInv, TypeOK, Known, Pos
  <1>2. /\ pt' \in Seq(Entry) /\ Len(pt') = Len(pt) - 1
        /\ \A j \in 1 .. Len(pt) - 1 : pt'[j] = IF j < p THEN pt[j] ELSE pt[j + 1]
    BY RemovedEntries DEF IInv
  <1>3. Pos' = 1 .. Len(pt) - 1
    BY <1>2 DEF Pos
  <1>4. \A j \in Pos' : /\ j < p => j \in Pos /\ pt'[j] = pt[j]
                        /\ j >= p => j + 1 \in Pos /\ j + 1 > p /\ pt'[j] = pt[j + 1]
    BY <1>1, <1>2, <1>3 DEF Pos
  <1>5. \A j \in Pos' : j \in Int
    BY <1>1, <1>3
  <1>6. \A j \in Pos' : \E k \in Pos : k # p /\ pt'[j] = pt[k]
    <2> SUFFICES ASSUME NEW j \in Pos' PROVE \E k \in Pos : k # p /\ pt'[j] = pt[k]
      OBVIOUS
    <2>1. CASE j < p
      BY <1>1, <1>4, <1>5, <2>1
    <2>2. CASE j >= p
      <3>1. j + 1 \in Pos /\ j + 1 # p /\ pt'[j] = pt[j + 1]
        BY <1>1, <1>4, <1>5, <2>2
      <3> QED
        BY <3>1
    <2> QED
      BY <1>1, <1>5, <2>1, <2>2
  <1>7. \A k \in Pos : k # p => \E j \in Pos' : pt'[j] = pt[k]
    <2> SUFFICES ASSUME NEW k \in Pos, k # p PROVE \E j \in Pos' : pt'[j] = pt[k]
      OBVIOUS
    <2>1. CASE k < p
      <3>1. k \in Pos' /\ pt'[k] = pt[k]
        BY <1>1, <1>3, <1>4, <2>1 DEF Pos
      <3> QED
        BY <3>1
    <2>2. CASE k > p
      <3>1. k - 1 \in Pos' /\ k - 1 >= p /\ (k - 1) + 1 = k
        BY <1>1, <1>3, <2>2 DEF Pos
      <3>2. pt'[k - 1] = pt[k]
        BY <1>4, <3>1
      <3> QED
        BY <3>1, <3>2
    <2> QED
      BY <1>1, <2>1, <2>2 DEF Pos
  <1>8. ASSUME Consistent(seen), NEW i \in Pos', NEW j \in Pos', i < j
        PROVE  CoEq(pt'[i].co, pt'[j].co) < 0
    <2>1. \A k, l \in Pos : k < l => CoEq(pt[k].co, pt[l].co) < 0
      BY <1>8 DEF IInv, LevelSorted, Pos
    <2>2. i \in Int /\ j \in Int /\ p \in Int
      BY <1>1, <1>5
    <2>3. CASE j < p
      BY <1>4, <1>8, <2>1, <2>2, <2>3
    <2>4. CASE i < p /\ j >= p
      <3>1. i \in Pos /\ j + 1 \in Pos /\ pt'[i] = pt[i] /\ pt'[j] = pt[j + 1] /\ i < j + 1
        BY <1>4, <1>8, <2>2, <2>4
      <3> QED
        BY <2>1, <3>1
    <2>5. CASE i >= p
      <3>1. i + 1 \in Pos /\ j + 1 \in Pos /\ pt'[i] = pt[i + 1] /\ pt'[j] = pt[j + 1]
            /\ i + 1 < j + 1
        BY <1>4, <1>8, <2>2, <2>5
      <3> QED
        BY <2>1, <3>1
    <2> QED
      BY <1>8, <2>2, <2>3, <2>4, <2>5
  <1>9. \A j \in Pos' : pt'[j].co \in seen
    BY <1>1, <1>6
  <1> QED
    BY <1>1, <1>2, <1>6, <1>7, <1>8, <1>9

(* The level when an alias of that name was removed, if there was one. *)
LEMMA RemoveAliasInv ==
    ASSUME IInv, NEW name, RemoveAlias(name), seen \subseteq seen'
    PROVE  /\ pt' \in Seq(Entry) /\ Len(pt') <= Len(pt)
           /\ \A j \in Pos' : pt'[j].co \in seen
           /\ Consistent(seen) => LevelSorted'
  <1>1. pt \in Seq(Entry) /\ Len(pt) \in Nat /\ \A j \in Pos : pt[j].co \in seen
    BY DEF IInv, TypeOK, Known
  <1>2. CASE pt' = pt
    BY <1>1, <1>2 DEF IInv, LevelSorted, Pos
  <1>3. CASE \E j \in First(name) : pt' = Removed(j)
    <2>1. PICK j \in Pos : pt' = Removed(j)
      BY <1>3 DEF First, Named, Pos
    <2> QED
      BY <2>1, RemovedSorted DEF LevelSorted, Pos
  <1> QED
    BY <1>2, <1>3 DEF RemoveAlias

LEMMA AliasInv == ASSUME NEW co \in Object PROVE IInv /\ Adding(co) => IInv'
  <1> SUFFICES ASSUME IInv, Adding(co) PROVE IInv'
    OBVIOUS
  <1>1. /\ phase = "idle" /\ written' = written /\ co \in Object
        /\ written \subseteq Object /\ pt \in Seq(Entry) /\ pos = 0
    BY DEF Adding, AliasExists, AliasNotParsed, AliasParsed, AliasStart, IInv, TypeOK, NoResult
  <1>2. CASE AliasExists(co)
    <2>1. UNCHANGED <<pt, phase, search, adding, seen, written>> /\ retval' \in {0, -1}
      BY <1>1, <1>2 DEF AliasExists
    <2>2. TypeOK'
      BY <2>1 DEF IInv, TypeOK, search
    <2> QED
      BY <1>1, <2>1, <2>2, LevelKept DEF IInv, Ranges, NoResult, Known, InsertInv, Pos, search
  <1>3. CASE AliasNotParsed(co)
    <2>1. /\ UNCHANGED <<phase, search, adding, seen, written>> /\ retval' \in {0, -1}
          /\ RemoveAlias(co.name)
      BY <1>1, <1>3 DEF AliasNotParsed
    <2>2. /\ pt' \in Seq(Entry) /\ \A j \in Pos' : pt'[j].co \in seen
          /\ Consistent(seen) => LevelSorted'
      BY <2>1, RemoveAliasInv
    <2>3. Len(pt') \in Nat
      BY <2>2
    <2>4. TypeOK'
      BY <1>1, <2>1, <2>2, <2>3 DEF IInv, TypeOK, search
    <2>5. LevelSorted'
      BY <2>1, <2>2 DEF LevelSorted
    <2> QED
      BY <1>1, <2>1, <2>2, <2>4, <2>5
         DEF IInv, Ranges, NoResult, Known, InsertInv, Pos, search
  <1>4. CASE AliasParsed(co)
    <2>1. StartInsert(co) /\ RemoveAlias(co.name) /\ adding' = TRUE /\ retval' = retval
      BY <1>4 DEF AliasParsed
    <2>2. seen \subseteq seen'
      BY <2>1 DEF StartInsert
    <2>3. adding' \in BOOLEAN /\ retval' \in {0, -1}
      BY <2>1, Zenon DEF IInv, TypeOK
    <2> QED
      BY <1>1, <2>1, <2>2, <2>3, RemoveAliasInv, StartInsertInv
  <1> QED
    BY <1>2, <1>3, <1>4 DEF Adding
----------------------------------------------------------------------------
LEMMA InsertInvStep == ASSUME NEW co \in Object PROVE IInv /\ Insert(co) => IInv'
  <1> SUFFICES ASSUME IInv, Insert(co) PROVE IInv'
    OBVIOUS
  <1>1. /\ pt' = pt /\ written' = written /\ written \subseteq Object
        /\ pt \in Seq(Entry) /\ \A j \in Pos : pt[j].co \in seen
        /\ StartInsert(co)
    BY DEF Insert, IInv, TypeOK, Known
  <1>2. adding' \in BOOLEAN /\ retval' \in {0, -1}
    BY Zenon DEF Insert, IInv, TypeOK
  <1>3. \A j \in Pos' : pt'[j].co \in seen
    BY <1>1 DEF Pos
  <1>4. Consistent(seen) => LevelSorted'
    BY <1>1 DEF IInv, LevelSorted
  <1> QED
    BY <1>1, <1>2, <1>3, <1>4, StartInsertInv

LEMMA FindInvStep == ASSUME NEW name \in Names PROVE IInv /\ Find(name) => IInv'
  <1> SUFFICES ASSUME IInv, Find(name) PROVE IInv'
    OBVIOUS
  <1>1. /\ pt' = pt /\ seen' = seen /\ written' = written /\ written \subseteq Object
        /\ pt \in Seq(Entry) /\ \A j \in Pos : pt[j].co \in seen
        /\ StartFind(name)
    BY DEF Find, StartFind, IInv, TypeOK, Known
  <1>2. adding' \in BOOLEAN /\ retval' \in {0, -1}
    BY Zenon DEF Find, IInv, TypeOK
  <1>3. \A j \in Pos' : pt'[j].co \in seen
    BY <1>1 DEF Pos
  <1>4. name \in Nat
    BY ObjectAssumption DEF Names, IsObject
  <1> QED
    BY <1>1, <1>2, <1>3, <1>4, LevelKept, StartFindInv

LEMMA FindingInv == IInv /\ Finding => IInv'
  <1> SUFFICES ASSUME IInv, Finding PROVE IInv'
    OBVIOUS
  <1>1. /\ pt \in Seq(Entry) /\ Len(pt) \in Nat /\ \A j \in Pos : pt[j].co \in seen
        /\ low \in Nat \ {0} /\ upper \in Nat /\ seen \subseteq Object
        /\ phase = "find" =>
             low \in 1 .. Len(pt) + 1 /\ upper \in 0 .. Len(pt) + 1 /\ low <= upper + 1
    BY DEF IInv, TypeOK, Known, Ranges
  <1>2. CASE NotFound \/ NameFound
    <2>1. PICK p \in 0 .. Len(pt) : Answer(p) /\ phase = "find"
      BY <1>1, <1>2, MidBetween DEF NotFound, NameFound, Inside
    <2>2. TypeOK'
      BY <1>1, <2>1 DEF IInv, TypeOK, Answer
    <2>3. LevelSorted'
      BY <2>1, LevelKept DEF Answer
    <2> QED
      BY <2>1, <2>2, <2>3 DEF IInv, Answer, Ranges, NoResult, Known, InsertInv, Pos
  <1>3. CASE HalveFind
    <2>1. /\ phase = "find" /\ low <= upper /\ Mid <= Len(pt)
          /\ UNCHANGED <<pt, phase, co1, key, pos, adding, retval, seen, written>>
          /\ \/ upper' = Mid - 1 /\ low' = low
             \/ low' = Mid + 1 /\ upper' = upper
      BY <1>3 DEF HalveFind, Halve, Inside, LowAfter, UpperAfter
    <2>2. low' \in 1 .. Len(pt) + 1 /\ upper' \in 0 .. Len(pt) + 1 /\ low' <= upper' + 1
      BY <1>1, <2>1, MidBetween
    <2>3. TypeOK'
      BY <1>1, <2>1, <2>2 DEF IInv, TypeOK
    <2>4. LevelSorted'
      BY <2>1, LevelKept
    <2> QED
      BY <2>1, <2>2, <2>3, <2>4 DEF IInv, Ranges, NoResult, Known, InsertInv, Pos
  <1>4. CASE FindReturns
    <2>1. /\ EndSearch /\ pt' = pt /\ seen' = seen /\ written' \subseteq Object
          /\ adding' = FALSE /\ retval' = retval
      BY <1>4 DEF FindReturns, Return, IInv, TypeOK
    <2>2. adding' \in BOOLEAN /\ retval' \in {0, -1}
      BY <2>1, Zenon DEF IInv, TypeOK
    <2>3. \A j \in Pos' : pt'[j].co \in seen
      BY <1>1, <2>1 DEF Pos
    <2> QED
      BY <1>1, <2>1, <2>2, <2>3, LevelKept, EndSearchInv
  <1> QED
    BY <1>2, <1>3, <1>4 DEF Finding

(* The flag of an object is no part of the order. *)
LEMMA AliasParseErrorInv == IInv /\ AliasParseError => IInv'
  <1> SUFFICES ASSUME IInv, AliasParseError PROVE IInv'
    OBVIOUS
  <1>1. /\ phase = "place" /\ pt' = Placed /\ EndSearch
        /\ seen' = seen /\ written' = written /\ written \subseteq Object
        /\ adding' = FALSE /\ retval' \in {0, -1}
    BY DEF AliasParseError, Return, IInv, TypeOK
  <1>2. adding' \in BOOLEAN
    BY <1>1, Zenon
  <1> QED
    BY <1>1, <1>2, PlacedInv, EndSearchInv

LEMMA AliasEndInv == IInv /\ (AliasLost \/ AliasFlagged) => IInv'
  <1> SUFFICES ASSUME IInv, AliasLost \/ AliasFlagged PROVE IInv'
    OBVIOUS
  <1>1. /\ EndSearch /\ seen' = seen /\ written' = written /\ written \subseteq Object
        /\ adding' = FALSE /\ retval' \in {0, -1}
    BY DEF AliasLost, AliasFlagged, Return, IInv, TypeOK
  <1>2. /\ pt \in Seq(Entry) /\ Len(pt) \in Nat /\ \A j \in Pos : pt[j].co \in seen
    BY DEF IInv, TypeOK, Known
  <1>3. pt' = pt \/ pt' = [pt EXCEPT ![pos].alias = TRUE]
    BY DEF AliasLost, AliasFlagged
  <1>4. pt' \in Seq(Entry) /\ Len(pt') = Len(pt) /\ \A j \in Pos : pt'[j].co = pt[j].co
    <2>1. \A j \in Pos : pt[j] \in Entry
      BY <1>2 DEF Pos
    <2>2. \A f \in Entry : [f EXCEPT !.alias = TRUE] \in Entry /\ [f EXCEPT !.alias = TRUE].co = f.co
      BY DEF Entry
    <2>3. CASE pt' = [pt EXCEPT ![pos].alias = TRUE]
      <3> DEFINE d == [pt[pos] EXCEPT !.alias = TRUE]
      <3>1. pt' = [pt EXCEPT ![pos] = d]
        BY <2>3
      <3>2. pos \in Pos => d \in Entry /\ d.co = pt[pos].co
        BY <2>1, <2>2
      <3> HIDE DEF d
      <3>3. \A j \in Pos : pt'[j] = IF j = pos THEN d ELSE pt[j]
        BY <1>2, <3>1 DEF Pos
      <3>4. pt' \in Seq(Entry) /\ Len(pt') = Len(pt)
        <4>1. CASE pos \in Pos
          BY <1>2, <3>1, <3>2, <4>1 DEF Pos
        <4>2. CASE pos \notin Pos
          <5>1. pt' = pt
            BY <1>2, <3>1, <4>2 DEF Pos
          <5> QED
            BY <1>2, <5>1
        <4> QED
          BY <4>1, <4>2
      <3> QED
        BY <3>2, <3>3, <3>4
    <2> QED
      BY <1>2, <1>3, <2>3
  <1>5. \A j \in Pos' : pt'[j].co \in seen
    BY <1>2, <1>4 DEF Pos
  <1>6. LevelSorted'
    BY <1>1, <1>4 DEF IInv, LevelSorted, Pos
  <1>7. adding' \in BOOLEAN
    BY <1>1, Zenon
  <1> QED
    BY <1>1, <1>4, <1>5, <1>6, <1>7, EndSearchInv

LEMMA StutterInv == IInv /\ UNCHANGED vars => IInv'
  BY DEF IInv, TypeOK, Ranges, NoResult, Known, InsertInv, Split, Absorbs, EqualTo,
         LevelSorted, Pos, vars, search

LEMMA NextInv == IInv /\ [Next]_vars => IInv'
  BY InsertInvStep, SearchStep, HalveInsertInv, PlaceInv, FindInvStep, FindingInv,
     AliasInv, AliasParseErrorInv, AliasEndInv, StutterInv DEF Next, Searching

(* Every variable keeps its type, and the positions that the searches      *)
(* return are on the level or right behind it.                             *)
THEOREM TypeCorrect == Spec => []TypeOK
  <1>1. IInv => TypeOK
    BY DEF IInv
  <1> QED
    BY <1>1, InitInv, NextInv, PTL DEF Spec

(* A level of objects that co_eq puts in order is sorted and free of equal *)
(* sisters, after any number of insertions, deletions and aliases.         *)
THEOREM SortedLevel == Spec => []LevelSorted
  <1>1. IInv => LevelSorted
    BY DEF IInv
  <1> QED
    BY <1>1, InitInv, NextInv, PTL DEF Spec

(* The binary search of co_insert_pos finds the equal sister if there is   *)
(* one: what it returns splits the level, or is that sister.               *)
THEOREM SisterFound == Spec => []FindsSister
  <1>1. IInv => FindsSister
    <2> SUFFICES ASSUME IInv, Consistent(seen), phase = "place"
                 PROVE  Absorbs <=> EqualIn(co1)
      BY DEF FindsSister
    <2>1. /\ Len(pt) \in Nat
          /\ pos \in 1 .. Len(pt) + 1
          /\ Absorbs \/ Split(co1, pos, pos - 1)
      BY DEF IInv, TypeOK, InsertInv
    <2>2. ASSUME Absorbs PROVE EqualIn(co1)
      <3>1. pos \in 1 .. Len(pt) /\ CoEq(co1, pt[pos].co) = 0
        BY <2>1, <2>2 DEF Absorbs, EqualTo
      <3> QED
        BY <3>1 DEF EqualIn
    <2>3. ASSUME Split(co1, pos, pos - 1), EqualIn(co1) PROVE FALSE
      <3>1. PICK j \in Pos : CoEq(co1, pt[j].co) = 0
        BY <2>3 DEF EqualIn, Pos
      <3>2. j < pos \/ j > pos - 1
        BY <2>1 DEF Pos
      <3> QED
        BY <2>3, <3>1, <3>2 DEF Split
    <2> QED
      BY <2>1, <2>2, <2>3
  <1> QED
    BY <1>1, InitInv, NextInv, PTL DEF Spec

----------------------------------------------------------------------------
(***************************************************************************)
(* Levels that are ordered by name.  To the invariant of the search by     *)
(* name comes what an alias knows while it is added: before its command is *)
(* inserted the level has none of that name, and then it has just that.    *)
(***************************************************************************)
FindPart ==
    /\ phase = "find" => \A j \in Pos : /\ j < low => pt[j].co.name < key
                                        /\ j > upper => pt[j].co.name > key
    /\ phase = "found" /\ pos # 0 => pos \in Named(key)
    /\ phase = "found" /\ pos = 0 => Named(key) = {}

OwnCommand == \E q \in Pos : pt[q].co = co1 /\ Named(key) = {q}

AddPart ==
    adding =>
        /\ phase # "idle" /\ co1 \in Object
        /\ \A co \in written : co.name # co1.name
        /\ phase \in {"search", "place"} => Named(co1.name) = {}
        /\ phase \in {"find", "found"} => key = co1.name /\ OwnCommand

KeptPart == \A co \in written : \E j \in Pos : pt[j].co = co /\ pt[j].alias = FALSE

NameParts == FindPart /\ AddPart /\ KeptPart
NameInv   == OrderedByName(seen) => NameParts

LEMMA OrderedLevel ==
    ASSUME IInv, OrderedByName(seen)
    PROVE  /\ \A j \in Pos : pt[j].co \in seen /\ pt[j].co.name \in Nat
           /\ \A i, j \in Pos : i < j => pt[i].co.name < pt[j].co.name
           /\ \A i, j \in Pos : pt[i].co.name = pt[j].co.name => i = j
  <1>1. seen \subseteq Object /\ Len(pt) \in Nat /\ \A j \in Pos : pt[j].co \in seen
    BY DEF IInv, TypeOK, Known
  <1>2. \A x \in seen : x.name \in Nat
    BY <1>1, ObjectAssumption DEF IsObject
  <1>3. \A a, b \in Nat : Compare(a, b) <= 0 <=> a <= b
    BY DEF Compare
  <1>4. \A a, b \in Nat : Compare(a, b) < 0 <=> a < b
    BY DEF Compare
  <1>5. Consistent(seen)
    <2> HIDE DEF Compare
    <2>1. SUFFICES ASSUME NEW x \in seen, NEW y \in seen, NEW z \in seen,
                          CoEq(x, y) <= 0, CoEq(y, z) <= 0
                   PROVE  CoEq(x, z) <= 0
      BY DEF Consistent
    <2>2. x.name <= y.name /\ y.name <= z.name
      BY <1>2, <1>3, <2>1 DEF OrderedByName
    <2>3. x.name <= z.name
      BY <1>2, <2>2
    <2> QED
      BY <1>2, <1>3, <2>3 DEF OrderedByName
  <1>6. \A i, j \in Pos : i < j => pt[i].co.name < pt[j].co.name
    <2>1. SUFFICES ASSUME NEW i \in Pos, NEW j \in Pos, i < j
                   PROVE  pt[i].co.name < pt[j].co.name
      OBVIOUS
    <2>2. CoEq(pt[i].co, pt[j].co) < 0
      BY <1>5, <2>1 DEF IInv, LevelSorted, Pos
    <2>3. CoEq(pt[i].co, pt[j].co) = Compare(pt[i].co.name, pt[j].co.name)
      BY <1>1 DEF OrderedByName
    <2> QED
      BY <1>1, <1>2, <1>4, <2>2, <2>3
  <1>7. ASSUME NEW i \in Pos, NEW j \in Pos, pt[i].co.name = pt[j].co.name, i # j
        PROVE  FALSE
    <2>1. i < j \/ j < i
      BY <1>1, <1>7 DEF Pos
    <2> QED
      BY <1>1, <1>2, <1>6, <1>7, <2>1
  <1> QED
    BY <1>1, <1>2, <1>6, <1>7

(* The steps that leave the level and what is added to it alone. *)
LEMMA NamesKept ==
    ASSUME NameParts, UNCHANGED <<pt, co1, adding, written>>,
           phase' # "idle",
           phase' \in {"search", "place"} => phase \in {"search", "place"},
           phase' \in {"find", "found"} => phase \in {"find", "found"} /\ key' = key,
           phase \in {"search", "place", "find", "found"},
           phase' \in {"search", "place", "find", "found"},
           FindPart'
    PROVE  NameParts'
  <1>1. KeptPart'
    BY DEF NameParts, KeptPart, Pos
  <1>2. AddPart'
    BY DEF NameParts, AddPart, OwnCommand, Named, Pos
  <1> QED
    BY <1>1, <1>2 DEF NameParts

LEMMA HalveFindNames ==
    ASSUME IInv, NameParts, OrderedByName(seen), HalveFind
    PROVE  NameParts'
  <1>1. /\ phase = "find" /\ Inside /\ phase' = phase /\ key' = key
        /\ UNCHANGED <<pt, co1, adding, written>>
        /\ key \in Nat /\ Len(pt) \in Nat
        /\ low \in 1 .. Len(pt) + 1 /\ upper \in 0 .. Len(pt) + 1
    BY DEF HalveFind, Halve, IInv, TypeOK, Ranges
  <1>2. Mid \in Pos
    BY <1>1, MidBetween DEF Inside, Pos
  <1> DEFINE n == pt[Mid].co.name
  <1>3. n \in Nat /\ \A j \in Pos : /\ j < Mid => pt[j].co.name < n
                                    /\ j > Mid => pt[j].co.name > n
                                    /\ pt[j].co.name \in Nat /\ j \in Int
    BY <1>1, <1>2, OrderedLevel DEF Pos
  <1>4. \A j \in Pos : /\ j < low => pt[j].co.name < key
                       /\ j > upper => pt[j].co.name > key
    BY <1>1 DEF NameParts, FindPart
  <1>5. Mid \in Int /\ pos' = pos
    BY <1>1, <1>2 DEF Pos, HalveFind, Halve
  <1>6. With(pt[Mid].co) = Compare(key, n)
    BY DEF With
  <1>7. \/ key < n /\ upper' = Mid - 1 /\ low' = low
        \/ key > n /\ low' = Mid + 1 /\ upper' = upper
    <2>1. \/ Compare(key, n) < 0 /\ upper' = Mid - 1 /\ low' = low
          \/ Compare(key, n) > 0 /\ low' = Mid + 1 /\ upper' = upper
      BY <1>6 DEF HalveFind, Halve, UpperAfter, LowAfter
    <2>2. \A a, b \in Nat : (Compare(a, b) < 0 <=> a < b) /\ (Compare(a, b) > 0 <=> a > b)
      BY DEF Compare
    <2> QED
      BY <1>1, <1>3, <2>1, <2>2
  <1> HIDE DEF n
  <1>8. \A j \in Pos : /\ j < low' => pt[j].co.name < key
                       /\ j > upper' => pt[j].co.name > key
    <2>1. CASE key < n /\ upper' = Mid - 1 /\ low' = low
      <3>1. SUFFICES ASSUME NEW j \in Pos, j > Mid - 1 PROVE pt[j].co.name > key
        BY <1>4, <2>1
      <3>2. j = Mid \/ j > Mid
        BY <1>3, <1>5, <3>1
      <3> QED
        BY <1>1, <1>3, <2>1, <3>2 DEF n
    <2>2. CASE key > n /\ low' = Mid + 1 /\ upper' = upper
      <3>1. SUFFICES ASSUME NEW j \in Pos, j < Mid + 1 PROVE pt[j].co.name < key
        BY <1>4, <2>2
      <3>2. j = Mid \/ j < Mid
        BY <1>3, <1>5, <3>1
      <3>3. pt[j].co.name <= n /\ pt[j].co.name \in Nat
        BY <1>3, <3>2 DEF n
      <3>4. key \in Nat
        BY <1>1
      <3> QED
        BY <1>3, <2>2, <3>3, <3>4
    <2> QED
      BY <1>7, <2>1, <2>2
  <1>9. FindPart'
    BY <1>1, <1>8 DEF FindPart, Pos
  <1> QED
    BY <1>1, <1>9, NamesKept

LEMMA AnswerNames ==
    ASSUME IInv, NameParts, OrderedByName(seen), NotFound \/ NameFound
    PROVE  NameParts'
  <1>1. /\ phase = "find" /\ phase' = "found" /\ key' = key
        /\ UNCHANGED <<pt, co1, adding, written>>
        /\ key \in Nat /\ Len(pt) \in Nat
        /\ low \in 1 .. Len(pt) + 1 /\ upper \in 0 .. Len(pt) + 1 /\ low <= upper + 1
    BY DEF NotFound, NameFound, Answer, IInv, TypeOK, Ranges
  <1>2. CASE NameFound
    <2>1. pos' = Mid /\ pt[Mid].co.name = key /\ Inside
      BY <1>2 DEF NameFound, Answer
    <2>2. Mid \in Pos
      BY <1>1, <2>1, MidBetween DEF Inside, Pos
    <2>3. Mid \in Named(key) /\ pos' # 0
      BY <2>1, <2>2 DEF Named, Pos
    <2>4. FindPart'
      BY <1>1, <2>1, <2>3 DEF FindPart, Named
    <2> QED
      BY <1>1, <2>4, NamesKept
  <1>3. CASE NotFound
    <2>1. ~Inside /\ pos' = 0
      BY <1>3 DEF NotFound, Answer
    <2>2. \A j \in Pos : j < low \/ j > upper
      <3>1. CASE upper < low
        BY <1>1, <3>1 DEF Pos
      <3>2. CASE low <= upper /\ Mid > Len(pt)
        <4>1. low > Len(pt)
          BY <1>1, <3>2 DEF Mid
        <4> QED
          BY <1>1, <4>1 DEF Pos
      <3>3. Mid \in Int
        BY <1>1 DEF Mid
      <3> QED
        BY <1>1, <2>1, <3>1, <3>2, <3>3 DEF Inside
    <2>3. \A j \in Pos : pt[j].co.name # key
      <3>1. SUFFICES ASSUME NEW j \in Pos, pt[j].co.name = key PROVE FALSE
        OBVIOUS
      <3>2. pt[j].co.name < key \/ pt[j].co.name > key
        BY <1>1, <2>2 DEF NameParts, FindPart
      <3> QED
        BY <1>1, <3>1, <3>2
    <2>4. Named(key)' = {}
      BY <1>1, <2>3 DEF Named, Pos
    <2>5. FindPart'
      BY <1>1, <2>1, <2>4 DEF FindPart
    <2> QED
      BY <1>1, <2>5, NamesKept
  <1> QED
    BY <1>2, <1>3

(* The steps that begin or end something and only read the level. *)
LEMMA StartNames ==
    ASSUME NameParts, UNCHANGED <<pt, written>>, adding' = FALSE,
           \/ phase' \in {"idle", "search", "place"}
           \/ phase' = "find" /\ low' = 1 /\ upper' = Len(pt) + 1 /\ pt \in Seq(Entry)
    PROVE  NameParts'
  <1>1. KeptPart'
    BY DEF NameParts, KeptPart, Pos
  <1>2. AddPart'
    BY DEF AddPart
  <1>3. CASE phase' \in {"idle", "search", "place"}
    <2>1. FindPart'
      BY <1>3 DEF FindPart
    <2> QED
      BY <1>1, <1>2, <2>1 DEF NameParts
  <1>4. CASE phase' = "find" /\ low' = 1 /\ upper' = Len(pt) + 1 /\ pt \in Seq(Entry)
    <2>1. \A j \in Pos' : ~(j < low') /\ ~(j > upper')
      BY <1>4 DEF Pos
    <2>2. FindPart'
      BY <1>4, <2>1 DEF FindPart
    <2> QED
      BY <1>1, <1>2, <2>2 DEF NameParts
  <1> QED
    BY <1>3, <1>4

LEMMA SearchingNames ==
    ASSUME IInv, NameParts, OrderedByName(seen), Searching
    PROVE  NameParts'
  <1>1. /\ UNCHANGED <<pt, co1, adding, written>>
        /\ phase = "search" /\ phase' \in {"search", "place"}
    BY DEF Searching, EndOfSearch, PastTheEnd, FindEqual, InsertAt, HalveInsert, Halve
  <1>2. FindPart'
    BY <1>1 DEF FindPart
  <1> QED
    BY <1>1, <1>2, NamesKept

LEMMA IdleNames ==
    ASSUME NameParts, phase = "idle", adding \in BOOLEAN
    PROVE  adding = FALSE
  <1>1. ~adding
    BY DEF NameParts, AddPart
  <1> QED
    BY <1>1, Zenon

LEMMA StartingNames ==
    ASSUME IInv, NameParts,
           \/ \E co \in Object : Insert(co) \/ AliasExists(co)
           \/ \E name \in Names : Find(name)
           \/ FindReturns \/ AliasLost
    PROVE  NameParts'
  <1>1. pt' = pt /\ written' = written /\ pt \in Seq(Entry)
    BY DEF Insert, AliasExists, AliasStart, Find, FindReturns, AliasLost, Return, IInv, TypeOK
  <1>2. adding \in BOOLEAN
    BY DEF IInv, TypeOK
  <1>3. CASE \E co \in Object : Insert(co) \/ AliasExists(co)
    <2>1. phase = "idle" /\ adding' = adding /\ phase' \in {"idle", "search"}
      BY <1>3 DEF Insert, StartInsert, AliasExists, AliasStart
    <2> QED
      BY <1>1, <1>2, <2>1, IdleNames, StartNames
  <1>4. CASE \E name \in Names : Find(name)
    <2>1. /\ phase = "idle" /\ adding' = adding
          /\ phase' = "find" /\ low' = 1 /\ upper' = Len(pt) + 1
      BY <1>1, <1>4 DEF Find, StartFind
    <2> QED
      BY <1>1, <1>2, <2>1, IdleNames, StartNames
  <1>5. CASE FindReturns \/ AliasLost
    <2>1. phase' = "idle" /\ adding' = FALSE
      BY <1>5 DEF FindReturns, AliasLost, Return, EndSearch
    <2> QED
      BY <1>1, <2>1, StartNames
  <1> QED
    BY <1>3, <1>4, <1>5

----------------------------------------------------------------------------
(* When an old alias was removed no object of the name is left, and none   *)
(* that a specification wrote was it.                                      *)
LEMMA RemovedNames ==
    ASSUME IInv, KeptPart, OrderedByName(seen), NEW name, RemoveAlias(name)
    PROVE  /\ Named(name)' = {}
           /\ \A co \in written : co.name # name
           /\ \A co \in written : \E j \in Pos' : pt'[j].co = co /\ pt'[j].alias = FALSE
  <1>1. pt \in Seq(Entry) /\ Len(pt) \in Nat
    BY DEF IInv, TypeOK
  <1>2. Named(name) \subseteq Pos /\ \A j \in Named(name) : pt[j].co.name = name
    BY DEF Named, Pos
  <1>3. \A i, j \in Named(name) : i = j
    BY <1>2, OrderedLevel
  <1>4. First(name) = Named(name)
    <2>1. \A i, j \in Named(name) : i <= j
      BY <1>1, <1>2, <1>3 DEF Pos
    <2> QED
      BY <2>1 DEF First
  <1>5. \A j \in Named(name) : pt[j].alias
    BY <1>4, Zenon DEF RemoveAlias, IsTaken
  <1>6. \A j \in Named(name) : ~(pt[j].alias = FALSE)
    BY <1>5, Zenon
  <1>7. ASSUME NEW co \in written, co.name = name PROVE FALSE
    <2>1. PICK j \in Pos : pt[j].co = co /\ pt[j].alias = FALSE
      BY DEF KeptPart
    <2>2. j \in Named(name)
      BY <1>7, <2>1 DEF Named, Pos
    <2> QED
      BY <1>6, <2>1, <2>2
  <1>8. CASE Named(name) = {} /\ pt' = pt
    <2>1. Named(name)' = {}
      BY <1>8 DEF Named
    <2> QED
      BY <1>7, <1>8, <2>1 DEF KeptPart, Pos
  <1>9. CASE \E p \in First(name) : pt' = Removed(p)
    <2>1. PICK p \in Named(name) : pt' = Removed(p)
      BY <1>4, <1>9
    <2>2. p \in Pos
      BY <1>2, <2>1
    <2>3. /\ \A k \in Pos : k # p => \E j \in Pos' : pt'[j] = pt[k]
          /\ \A j \in Pos' : \E k \in Pos : k # p /\ pt'[j] = pt[k]
      BY <2>1, <2>2, RemovedSorted
    <2>4. \A j \in Pos' : pt'[j].co.name # name
      <3>1. SUFFICES ASSUME NEW j \in Pos', pt'[j].co.name = name PROVE FALSE
        OBVIOUS
      <3>2. PICK k \in Pos : k # p /\ pt'[j] = pt[k]
        BY <2>3
      <3>3. k \in Named(name)
        BY <3>1, <3>2 DEF Named, Pos
      <3> QED
        BY <1>3, <2>1, <3>2, <3>3
    <2>5. Named(name)' = {}
      BY <2>4 DEF Named, Pos
    <2>6. \A co \in written : \E j \in Pos' : pt'[j].co = co /\ pt'[j].alias = FALSE
      <3>1. SUFFICES ASSUME NEW co \in written
                     PROVE  \E j \in Pos' : pt'[j].co = co /\ pt'[j].alias = FALSE
        OBVIOUS
      <3>2. PICK k \in Pos : pt[k].co = co /\ pt[k].alias = FALSE
        BY DEF KeptPart
      <3>3. k # p
        BY <1>6, <2>1, <3>2
      <3> QED
        BY <2>3, <3>2, <3>3
    <2> QED
      BY <1>7, <2>5, <2>6
  <1> QED
    BY <1>8, <1>9 DEF RemoveAlias

LEMMA AliasNames ==
    ASSUME IInv, NameParts, OrderedByName(seen), NEW co \in Object,
           AliasNotParsed(co) \/ AliasParsed(co)
    PROVE  NameParts'
  <1>1. phase = "idle" /\ written' = written /\ RemoveAlias(co.name) /\ adding \in BOOLEAN
    BY DEF AliasNotParsed, AliasParsed, AliasStart, IInv, TypeOK
  <1>2. /\ Named(co.name)' = {}
        /\ \A w \in written : w.name # co.name
        /\ KeptPart'
    BY <1>1, RemovedNames DEF NameParts, KeptPart
  <1>3. CASE AliasNotParsed(co)
    <2>1. phase' = "idle" /\ adding' = FALSE
      BY <1>1, <1>3, IdleNames DEF AliasNotParsed
    <2>2. FindPart' /\ AddPart'
      BY <2>1 DEF FindPart, AddPart
    <2> QED
      BY <1>2, <2>2 DEF NameParts
  <1>4. CASE AliasParsed(co)
    <2>1. phase' = "search" /\ co1' = co
      BY <1>4 DEF AliasParsed, StartInsert
    <2>2. Named(co1.name)' = {}
      BY <1>2, <2>1 DEF Named
    <2>3. FindPart' /\ AddPart'
      BY <1>1, <1>2, <2>1, <2>2 DEF FindPart, AddPart
    <2> QED
      BY <1>2, <2>3 DEF NameParts
  <1> QED
    BY <1>3, <1>4

----------------------------------------------------------------------------
(* What co_insert1 leaves: the old objects, and the new one if no object   *)
(* is equal to it, as the only one of its name if there was none.          *)
LEMMA PlacedNames ==
    ASSUME IInv, NameParts, OrderedByName(seen), phase = "place", pt' = Placed
    PROVE  /\ \A w \in written : \E j \in Pos' : pt'[j].co = w /\ pt'[j].alias = FALSE
           /\ ~Absorbs => \E j \in Pos' : pt'[j].co = co1 /\ pt'[j].alias = FALSE
           /\ adding => \E q \in Pos' :
                          /\ pt'[q].co = co1
                          /\ \A j \in Pos' : pt'[j].co.name = co1.name <=> j = q
  <1> DEFINE e == [co |-> co1, alias |-> FALSE]
  <1>1. /\ pt \in Seq(Entry) /\ Len(pt) \in Nat /\ co1 \in Object
        /\ pos \in 1 .. Len(pt) + 1 /\ co1 \in seen
    BY DEF IInv, TypeOK, InsertInv, Known
  <1>2. e \in Entry /\ e.co = co1 /\ e.alias = FALSE
    BY <1>1 DEF Entry
  <1>3. CASE Absorbs
    <2>1. pt' = pt /\ pos \in Pos
      BY <1>1, <1>3 DEF Placed, Absorbs, Pos
    <2>2. ~adding
      <3>1. CoEq(co1, pt[pos].co) = Compare(co1.name, pt[pos].co.name)
        BY <1>1, <2>1, OrderedLevel DEF OrderedByName
      <3>2. Compare(co1.name, pt[pos].co.name) = 0
        BY <1>3, <3>1 DEF Absorbs, EqualTo
      <3>3. co1.name \in Nat /\ pt[pos].co.name \in Nat
        BY <1>1, <2>1, OrderedLevel, ObjectAssumption DEF IsObject
      <3>4. pt[pos].co.name = co1.name
        BY <3>2, <3>3 DEF Compare
      <3>5. pos \in Named(co1.name)
        BY <2>1, <3>4 DEF Named, Pos
      <3> QED
        BY <3>5 DEF NameParts, AddPart
    <2> QED
      BY <1>3, <2>1, <2>2 DEF NameParts, KeptPart, Pos
  <1>4. CASE ~Absorbs
    <2>1. pt' = Inserted(pos, e)
      BY <1>4 DEF Placed
    <2> HIDE DEF e
    <2>2. /\ Len(pt') = Len(pt) + 1
          /\ \A j \in 1 .. Len(pt) + 1 :
                pt'[j] = IF j < pos THEN pt[j] ELSE IF j = pos THEN e ELSE pt[j - 1]
      <3>1. TypeOK
        BY DEF IInv
      <3>2. pos \in 1 .. Len(pt) + 1 /\ e \in Entry
        BY <1>1, <1>2
      <3>3. /\ Len(Inserted(pos, e)) = Len(pt) + 1
            /\ \A j \in 1 .. Len(pt) + 1 :
                 Inserted(pos, e)[j] = IF j < pos THEN pt[j] ELSE IF j = pos THEN e ELSE pt[j - 1]
        BY <3>1, <3>2, InsertedEntries
      <3> QED
        BY <2>1, <3>3
    <2>3. Pos' = 1 .. Len(pt) + 1 /\ pos \in Pos'
      BY <1>1, <2>2 DEF Pos
    <2>4. pt'[pos] = e
      BY <1>1, <2>2
    <2>5. \A k \in Pos : \E j \in Pos' : pt'[j] = pt[k]
      BY <1>2, <1>4, <2>1, InsertedSorted
    <2>6. \A j \in Pos' : j # pos => \E k \in Pos : pt'[j] = pt[k]
      <3>1. SUFFICES ASSUME NEW j \in Pos', j # pos PROVE \E k \in Pos : pt'[j] = pt[k]
        OBVIOUS
      <3>2. CASE j < pos
        <4>1. j \in Pos /\ pt'[j] = pt[j]
          BY <1>1, <2>2, <2>3, <3>2 DEF Pos
        <4> QED
          BY <4>1
      <3>3. CASE j > pos
        <4>1. j - 1 \in Pos /\ pt'[j] = pt[j - 1]
          BY <1>1, <2>2, <2>3, <3>3 DEF Pos
        <4> QED
          BY <4>1
      <3> QED
        BY <1>1, <2>3, <3>1, <3>2, <3>3
    <2>7. \A w \in written : \E j \in Pos' : pt'[j].co = w /\ pt'[j].alias = FALSE
      <3>1. SUFFICES ASSUME NEW w \in written
                     PROVE  \E j \in Pos' : pt'[j].co = w /\ pt'[j].alias = FALSE
        OBVIOUS
      <3>2. PICK k \in Pos : pt[k].co = w /\ pt[k].alias = FALSE
        BY DEF NameParts, KeptPart
      <3> QED
        BY <2>5, <3>2
    <2>8. ASSUME adding, NEW j \in Pos', pt'[j].co.name = co1.name, j # pos PROVE FALSE
      <3>1. PICK k \in Pos : pt'[j] = pt[k]
        BY <2>6, <2>8
      <3>2. k \in Named(co1.name)
        BY <2>8, <3>1 DEF Named, Pos
      <3> QED
        BY <2>8, <3>2 DEF NameParts, AddPart
    <2>9. adding => \A j \in Pos' : pt'[j].co.name = co1.name <=> j = pos
      BY <1>2, <2>4, <2>8
    <2> QED
      BY <1>2, <2>3, <2>4, <2>7, <2>9
  <1> QED
    BY <1>3, <1>4

LEMMA PlaceNames ==
    ASSUME IInv, NameParts, OrderedByName(seen), Place
    PROVE  NameParts'
  <1>1. /\ phase = "place" /\ pt' = Placed /\ pt' \in Seq(Entry)
        /\ adding' = adding /\ adding \in BOOLEAN /\ co1 \in Object
    <2>1. phase = "place" /\ pt' = Placed /\ adding' = adding
      BY DEF Place
    <2>2. seen' = seen
      BY DEF Place, StartFind
    <2>3. adding \in BOOLEAN /\ co1 \in Object
      BY <2>1 DEF IInv, TypeOK
    <2> QED
      BY <2>1, <2>2, <2>3, PlacedInv
  <1>2. CASE adding
    <2>1. /\ phase' = "find" /\ key' = co1.name /\ co1' = co1 /\ written' = written
          /\ low' = 1 /\ upper' = Len(pt') + 1
      BY <1>2 DEF Place, StartFind
    <2>2. Len(pt') \in Nat
      BY <1>1
    <2>3. \A j \in Pos' : ~(j < low') /\ ~(j > upper')
      BY <2>1, <2>2 DEF Pos
    <2>4. FindPart'
      BY <2>1, <2>3 DEF FindPart
    <2>5. PICK q \in Pos' : /\ pt'[q].co = co1
                            /\ \A j \in Pos' : pt'[j].co.name = co1.name <=> j = q
      BY <1>1, <1>2, PlacedNames
    <2>6. Named(key)' = {q}
      BY <2>1, <2>5 DEF Named, Pos
    <2>7. OwnCommand'
      BY <2>1, <2>5, <2>6 DEF OwnCommand
    <2>8. AddPart'
      BY <1>1, <1>2, <2>1, <2>7 DEF NameParts, AddPart
    <2>9. KeptPart'
      BY <1>1, <2>1, PlacedNames DEF KeptPart
    <2> QED
      BY <2>4, <2>8, <2>9 DEF NameParts
  <1>3. CASE ~adding
    <2>1. /\ phase' = "idle"
          /\ written' = IF Absorbs THEN written ELSE written \cup {co1}
      BY <1>3 DEF Place, EndSearch
    <2>2. KeptPart'
      BY <1>1, <2>1, PlacedNames DEF KeptPart
    <2>3. FindPart' /\ AddPart'
      BY <1>1, <1>3, <2>1 DEF FindPart, AddPart
    <2> QED
      BY <2>2, <2>3 DEF NameParts
  <1> QED
    BY <1>2, <1>3

LEMMA AliasParseErrorNames ==
    ASSUME IInv, NameParts, OrderedByName(seen), AliasParseError
    PROVE  NameParts'
  <1>1. phase = "place" /\ pt' = Placed /\ written' = written
        /\ phase' = "idle" /\ adding' = FALSE
    BY DEF AliasParseError, Return, EndSearch
  <1>2. KeptPart'
    BY <1>1, PlacedNames DEF KeptPart
  <1>3. FindPart' /\ AddPart'
    BY <1>1 DEF FindPart, AddPart
  <1> QED
    BY <1>2, <1>3 DEF NameParts

LEMMA AliasFlaggedNames ==
    ASSUME IInv, NameParts, OrderedByName(seen), AliasFlagged
    PROVE  NameParts'
  <1>1. /\ phase = "found" /\ adding /\ pos # 0 /\ written' = written
        /\ pt' = [pt EXCEPT ![pos].alias = TRUE]
        /\ phase' = "idle" /\ adding' = FALSE
        /\ pt \in Seq(Entry)
    BY DEF AliasFlagged, Return, EndSearch, IInv, TypeOK
  <1>2. PICK q \in Pos : pt[q].co = co1 /\ Named(key) = {q}
    BY <1>1 DEF NameParts, AddPart, OwnCommand
  <1>3. pos = q
    BY <1>1, <1>2 DEF NameParts, FindPart
  <1>4. \A w \in written : w # co1
    BY <1>1 DEF NameParts, AddPart
  <1>5. Pos' = Pos /\ \A j \in Pos : j # pos => pt'[j] = pt[j]
    BY <1>1 DEF Pos
  <1>6. \A w \in written : \E j \in Pos' : pt'[j].co = w /\ pt'[j].alias = FALSE
    <2>1. SUFFICES ASSUME NEW w \in written
                   PROVE  \E j \in Pos' : pt'[j].co = w /\ pt'[j].alias = FALSE
      OBVIOUS
    <2>2. PICK j \in Pos : pt[j].co = w /\ pt[j].alias = FALSE
      BY DEF NameParts, KeptPart
    <2>3. j # pos
      BY <1>2, <1>3, <1>4, <2>2
    <2> QED
      BY <1>5, <2>2, <2>3
  <1>7. KeptPart'
    BY <1>1, <1>6 DEF KeptPart
  <1>8. FindPart' /\ AddPart'
    BY <1>1 DEF FindPart, AddPart
  <1> QED
    BY <1>7, <1>8 DEF NameParts

----------------------------------------------------------------------------
LEMMA OrderedBefore ==
    ASSUME seen \subseteq seen', OrderedByName(seen)'
    PROVE  OrderedByName(seen)
  BY DEF OrderedByName

LEMMA SeenGrows == Next => seen \subseteq seen'
  BY DEF Next, Insert, StartInsert, Searching, EndOfSearch, PastTheEnd, FindEqual,
         InsertAt, HalveInsert, Halve, Place, StartFind, Find, Finding, NotFound,
         NameFound, Answer, HalveFind, FindReturns, Return, Adding, AliasExists,
         AliasNotParsed, AliasParsed, AliasParseError, AliasLost, AliasFlagged

LEMMA NamesInv == IInv /\ NameInv /\ [Next]_vars => NameInv'
  <1>1. ASSUME IInv, NameInv, Next PROVE NameInv'
    <2> SUFFICES ASSUME OrderedByName(seen)' PROVE NameParts'
      BY DEF NameInv
    <2>1. OrderedByName(seen) /\ NameParts
      BY <1>1, SeenGrows, OrderedBefore DEF NameInv
    <2>2. CASE Searching
      BY <1>1, <2>1, <2>2, SearchingNames
    <2>3. CASE Place
      BY <1>1, <2>1, <2>3, PlaceNames
    <2>4. CASE \/ \E co \in Object : Insert(co) \/ AliasExists(co)
               \/ \E name \in Names : Find(name)
               \/ FindReturns \/ AliasLost
      BY <1>1, <2>1, <2>4, StartingNames
    <2>5. CASE NotFound \/ NameFound
      BY <1>1, <2>1, <2>5, AnswerNames
    <2>6. CASE HalveFind
      BY <1>1, <2>1, <2>6, HalveFindNames
    <2>7. CASE \E co \in Object : AliasNotParsed(co) \/ AliasParsed(co)
      BY <1>1, <2>1, <2>7, AliasNames
    <2>8. CASE AliasParseError
      BY <1>1, <2>1, <2>8, AliasParseErrorNames
    <2>9. CASE AliasFlagged
      BY <1>1, <2>1, <2>9, AliasFlaggedNames
    <2> QED
      BY <1>1, <2>2, <2>3, <2>4, <2>5, <2>6, <2>7, <2>8, <2>9 DEF Next, Finding, Adding
  <1>2. ASSUME NameInv, UNCHANGED vars PROVE NameInv'
    BY <1>2 DEF NameInv, NameParts, FindPart, AddPart, KeptPart, OwnCommand, Named, Pos,
                vars, search, OrderedByName
  <1> QED
    BY <1>1, <1>2

LEMMA NamesInit == Init => NameInv
  <1> SUFFICES ASSUME Init PROVE NameParts
    BY DEF NameInv
  <1>1. ~adding
    BY DEF Init
  <1> QED
    BY <1>1 DEF Init, NameParts, FindPart, AddPart, KeptPart

LEMMA NamesCorrect == Spec => [](IInv /\ NameInv)
  BY InitInv, NextInv, NamesInit, NamesInv, PTL DEF Spec

(* co_find_one finds the names that there are, and no others, on a level   *)
(* that is ordered by name.                                                *)
THEOREM NameSearchCorrect == Spec => []FindsByName
  <1>1. NameInv => FindsByName
    BY DEF NameInv, NameParts, FindPart, FindsByName
  <1> QED
    BY <1>1, NamesCorrect, PTL

(* On such a level an alias that was parsed is flagged itself, and is the  *)
(* only object of its name.                                                *)
THEOREM AliasCorrect == Spec => []AliasFindsItself
  <1>1. NameInv => AliasFindsItself
    <2> SUFFICES ASSUME NameInv, OrderedByName(seen), phase = "found", adding
                 PROVE  pos # 0 /\ pt[pos].co = co1 /\ Named(key) = {pos}
      BY DEF AliasFindsItself
    <2>1. PICK q \in Pos : pt[q].co = co1 /\ Named(key) = {q}
      BY DEF NameInv, NameParts, AddPart, OwnCommand
    <2>2. pos # 0 /\ pos \in Named(key)
      BY <2>1 DEF NameInv, NameParts, FindPart
    <2> QED
      BY <2>1, <2>2
  <1> QED
    BY <1>1, NamesCorrect, PTL

(* On such a level no alias removes what a specification wrote.            *)
THEOREM WrittenCorrect == Spec => []WrittenStays
  <1>1. NameInv => WrittenStays
    BY DEF NameInv, NameParts, KeptPart, WrittenStays, Pos
  <1> QED
    BY <1>1, NamesCorrect, PTL
=============================================================================
