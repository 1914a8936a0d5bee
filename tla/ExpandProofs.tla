---------------------------- MODULE ExpandProofs -----------------------------
(***************************************************************************)
(* Proofs about Expand: for any trees, references and callbacks, any       *)
(* number of commands leaves the objects of the parser in the trees, and   *)
(* working points at objects of the trees, and a level offers nothing that *)
(* is hidden or filtered.                                                  *)
(*                                                                         *)
(* What the proofs say of the trees is said of a set L of objects, which   *)
(* is `live' before a step and after it; it only grows.                    *)
(***************************************************************************)
EXTENDS Expand, SequenceTheorems, FiniteSetTheorems, WellFoundedInduction, TLAPS

Name == Tree \cup Id \cup {Unknown}

KidsIn(L, p) == {q \in L : Front(q) = p}
DoubledIn(L, r) ==
    \/ r \in Pipes
    \/ \E p \in KidsIn(L, Front(r)), q \in L :
          p # q /\ ~IsKind(p, "reference") /\ ~IsKind(q, "reference")
          /\ Spells(p) \cap Spells(q) # {}

(* What is above an object is in the trees, too. *)
ClosedIn(L) ==
    \A p \in L :
      /\ p \in Seq(Tree \cup Id) /\ Len(p) >= 2
      /\ p[1] \in Tree /\ \A k \in 2 .. Len(p) : p[k] \in Id
      /\ Len(p) > 2 => Front(p) \in L

(* A place whose children are expanded: a tree, or an object of a tree that *)
(* is below no references but doubled ones.                                 *)
PlacedIn(L, a) ==
    /\ a \in Seq(Name) /\ Len(a) >= 1
    /\ Len(a) >= 2 => a \in L \cup (Pipes \ {NULL})
    /\ \A k \in 2 .. Len(a) :
         IsKind(SubSeq(a, 1, k), "reference") => DoubledIn(L, SubSeq(a, 1, k))

OfLevel(L, p) == p \in L /\ ~IsKind(p, "reference") /\ PlacedIn(L, Front(p))

ShadowIn(L, a, y) ==
    /\ DOMAIN y = {"orig", "name", "kind", "filter", "ref", "treeref", "appended", "by"}
    /\ OfLevel(L, y.orig) /\ <<y.name, y.kind>> \in Spells(y.orig)
    /\ \/ y.treeref = y.orig
       \/ y.treeref = NULL /\ Front(y.orig) = a /\ PlacedIn(L, y.ref) /\ Len(y.ref) >= 2

TempIn(L, c, x) ==
    /\ DOMAIN x = {"orig", "name", "kind", "filter", "ref", "treeref", "appended", "by"}
    /\ OfLevel(L, x.orig)
    /\ x.name = Said(x.orig).name /\ x.kind = Said(x.orig).kind
    /\ x.treeref = x.orig /\ x.ref = c

FrameOf(L) == [at : Seq(Name), todo : SUBSET L,
               filter : [remove : SUBSET Label, add : SUBSET Label]]

(* The inductive invariant *)
TreesStand == Written \subseteq live /\ ClosedIn(live)
PointsStand ==
    /\ wp = [t \in Tree |-> wp[t]]
    /\ \A t \in Tree : wp[t] # NULL => PlacedIn(live, wp[t]) /\ Len(wp[t]) >= 2
ParamsStand == active \in Tree \cup {NULL} /\ copipe \in Pipes
LevelStands ==
    phase \in {"level", "copy", "temp", "done"} =>
      /\ PlacedIn(live, at) /\ todo \subseteq KidsIn(live, at)
      /\ \A y \in level : ShadowIn(live, at, y)
CopyStands == \A x \in temp : TempIn(live, coref, x)
ReferenceStands ==
    phase \in {"copy", "temp"} =>
      /\ IsKind(coref, "reference")
      /\ coref \in KidsIn(live, at) \/ coref \in Pipes \ {NULL}
StackStands ==
    phase = "copy" =>
      /\ stack \in Seq(FrameOf(live))
      /\ \A k \in 1 .. Len(stack) :
           PlacedIn(live, stack[k].at) /\ stack[k].todo \subseteq KidsIn(live, stack[k].at)
(* A level that a reference of its own reaches is never done with.         *)
NoLoop ==
    coref \in live =>
      /\ phase = "copy" =>
           /\ stack # << >> => stack[Len(stack)].at = Resolve(coref)
           /\ (\E k \in 1 .. Len(stack) : stack[k].at = at) \/ (\E x \in temp : Front(x.orig) = at)
                => \E k \in 1 .. Len(stack) : stack[k].at = at /\ coref \in stack[k].todo
      /\ phase = "temp" => \A x \in temp : Front(x.orig) # at

IInv == phase # "lost" =>
    /\ TreesStand /\ PointsStand /\ ParamsStand /\ LevelStands
    /\ CopyStands /\ ReferenceStands /\ StackStands /\ NoLoop

----------------------------------------------------------------------------
(***************************************************************************)
(* Paths                                                                   *)
(***************************************************************************)

LEMMA FrontOfPath ==
    ASSUME NEW S, NEW p \in Seq(S), Len(p) >= 2
    PROVE  /\ Front(p) \in Seq(S) /\ Len(Front(p)) = Len(p) - 1
           /\ \A i \in 1 .. Len(p) - 1 : Front(p)[i] = p[i]
  <1>1. Len(p) \in Nat
    OBVIOUS
  <1>2. \A i \in 1 .. Len(p) - 1 : p[i] \in S
    BY <1>1
  <1>3. /\ SubSeq(p, 1, Len(p) - 1) \in Seq(S)
        /\ Len(SubSeq(p, 1, Len(p) - 1)) = Len(p) - 1
        /\ \A i \in 1 .. Len(p) - 1 : SubSeq(p, 1, Len(p) - 1)[i] = p[i]
    BY <1>1, <1>2
  <1> QED
    BY <1>3 DEF Front

LEMMA BeginOfPath ==
    ASSUME NEW S, NEW p \in Seq(S), NEW k \in 1 .. Len(p)
    PROVE  /\ SubSeq(p, 1, k) \in Seq(S) /\ Len(SubSeq(p, 1, k)) = k
           /\ \A i \in 1 .. k : SubSeq(p, 1, k)[i] = p[i]
  <1>1. Len(p) \in Nat /\ k \in Nat /\ 1 <= k /\ k <= Len(p)
    OBVIOUS
  <1>2. \A i \in 1 .. k : p[i] \in S
    BY <1>1
  <1> QED
    BY <1>1, <1>2

LEMMA SamePath ==
    ASSUME NEW S, NEW p \in Seq(S), NEW q \in Seq(S), Len(p) = Len(q),
           \A i \in 1 .. Len(p) : p[i] = q[i]
    PROVE  p = q
  BY SeqEqual

LEMMA BeginOfFront ==
    ASSUME NEW S, NEW p \in Seq(S), Len(p) >= 2, NEW k \in 1 .. Len(p) - 1
    PROVE  SubSeq(Front(p), 1, k) = SubSeq(p, 1, k)
  <1>1. /\ Front(p) \in Seq(S) /\ Len(Front(p)) = Len(p) - 1
        /\ \A i \in 1 .. Len(p) - 1 : Front(p)[i] = p[i]
    BY FrontOfPath
  <1>2. Len(p) \in Nat /\ k \in 1 .. Len(p) /\ k \in 1 .. Len(Front(p))
    BY <1>1
  <1>3. /\ SubSeq(p, 1, k) \in Seq(S) /\ Len(SubSeq(p, 1, k)) = k
        /\ \A i \in 1 .. k : SubSeq(p, 1, k)[i] = p[i]
    BY <1>2, BeginOfPath
  <1>4. /\ SubSeq(Front(p), 1, k) \in Seq(S) /\ Len(SubSeq(Front(p), 1, k)) = k
        /\ \A i \in 1 .. k : SubSeq(Front(p), 1, k)[i] = Front(p)[i]
    BY <1>1, <1>2, BeginOfPath
  <1>5. \A i \in 1 .. k : Front(p)[i] = p[i]
    BY <1>1, <1>2
  <1> QED
    BY <1>3, <1>4, <1>5, SamePath

LEMMA WholePath ==
    ASSUME NEW S, NEW p \in Seq(S), Len(p) >= 1
    PROVE  SubSeq(p, 1, Len(p)) = p
  <1>1. Len(p) \in Nat /\ Len(p) \in 1 .. Len(p)
    OBVIOUS
  <1>2. /\ SubSeq(p, 1, Len(p)) \in Seq(S) /\ Len(SubSeq(p, 1, Len(p))) = Len(p)
        /\ \A i \in 1 .. Len(p) : SubSeq(p, 1, Len(p))[i] = p[i]
    BY <1>1, BeginOfPath
  <1> QED
    BY <1>2, SamePath

(* An object that a path ends in: the front, and one more.                 *)
LEMMA AppendedPath ==
    ASSUME NEW S, NEW p \in Seq(S), NEW i \in S
    PROVE  /\ Append(p, i) \in Seq(S) /\ Len(Append(p, i)) = Len(p) + 1
           /\ Append(p, i)[Len(p) + 1] = i
           /\ \A k \in 1 .. Len(p) : Append(p, i)[k] = p[k]
           /\ Len(p) >= 1 => Front(Append(p, i)) = p
  <1>1. /\ Append(p, i) \in Seq(S) /\ Len(Append(p, i)) = Len(p) + 1
        /\ Append(p, i)[Len(p) + 1] = i /\ Len(p) \in Nat
        /\ \A k \in 1 .. Len(p) : Append(p, i)[k] = p[k]
    OBVIOUS
  <1>2. ASSUME Len(p) >= 1 PROVE Front(Append(p, i)) = p
    <2> DEFINE q == Append(p, i)
    <2>1. q \in Seq(S) /\ Len(q) >= 2 /\ Len(q) - 1 = Len(p)
      BY <1>1, <1>2
    <2>2. \A k \in 1 .. Len(p) : q[k] = p[k]
      BY <1>1
    <2> HIDE DEF q
    <2>3. /\ Front(q) \in Seq(S) /\ Len(Front(q)) = Len(q) - 1
          /\ \A k \in 1 .. Len(q) - 1 : Front(q)[k] = q[k]
      BY <2>1, FrontOfPath
    <2>4. Front(q) = p
      BY <2>1, <2>2, <2>3, SamePath
    <2> QED
      BY <2>4 DEF q
  <1> QED
    BY <1>1, <1>2

----------------------------------------------------------------------------
(***************************************************************************)
(* The first of some objects                                               *)
(***************************************************************************)

Less == {ss \in Nat \X Nat : ss[1] < ss[2]}

LEMMA LessWellFounded == IsWellFoundedOn(Less, Nat)
  <1>1. OpToRel(<, Nat) = Less
    BY Zenon DEF OpToRel, Less
  <1> QED
    BY <1>1, NatLessThanWellFounded, Zenon

LEMMA LeastNumber ==
    ASSUME NEW S, S \subseteq Nat, S # {}
    PROVE  \E n \in S : \A m \in S : n <= m
  <1>1. PICK n \in S : \A m \in S : <<m, n>> \notin Less
    BY LessWellFounded, WFMin, Zenon
  <1>2. \A m \in S : ~(m < n)
    BY <1>1 DEF Less
  <1> QED
    BY <1>2

LEMMA Pipe ==
    ASSUME NEW r \in Pipes, r # NULL
    PROVE  \E i \in Id : r = <<Unknown, i>> /\ r \in Seq(Name) /\ Len(r) = 2 /\ r[1] = Unknown
  <1>1. PICK i \in Id : r = <<Unknown, i>>
    BY DEF Pipes
  <1> QED
    BY <1>1 DEF Name

LEMMA PathOfObject ==
    ASSUME NEW L, ClosedIn(L), NEW p \in L
    PROVE  p \in Seq(Name) /\ p \in Seq(Tree \cup Id) /\ Len(p) >= 2 /\ Len(p) \in Nat
           /\ p # NULL /\ p \notin Pipes
  <1>1. p \in Seq(Tree \cup Id) /\ Len(p) >= 2 /\ p[1] \in Tree
    BY DEF ClosedIn
  <1>2. p \in Seq(Name) /\ Len(p) \in Nat
    <2>1. Tree \cup Id \subseteq Name
      BY DEF Name
    <2> QED
      BY <1>1, <2>1
  <1>3. p # NULL
    BY <1>1, ObjectAssumption
  <1>4. p[1] # Unknown
    BY <1>1, ObjectAssumption
  <1> QED
    BY <1>1, <1>2, <1>3, <1>4, Pipe

LEMMA IdsAreNumbers == Id \subseteq Nat
  BY ObjectAssumption

LEMMA FirstIsOne ==
    ASSUME NEW L, ClosedIn(L), NEW S, S \subseteq L, S # {}
    PROVE  First(S) \in S
  <1> DEFINE N == {q[Len(q)] : q \in S}
  <1>1. N \subseteq Nat /\ N # {}
    <2>1. \A q \in S : q[Len(q)] \in Id
      <3>1. \A q \in S : Len(q) \in 2 .. Len(q)
        BY PathOfObject
      <3> QED
        BY <3>1 DEF ClosedIn
    <2> QED
      BY <2>1, IdsAreNumbers
  <1> HIDE DEF N
  <1>2. PICK n \in N : \A m \in N : n <= m
    BY <1>1, LeastNumber
  <1>3. PICK p \in S : n = p[Len(p)]
    BY DEF N
  <1>4. \A q \in S : p[Len(p)] <= q[Len(q)]
    BY <1>2, <1>3 DEF N
  <1> QED
    BY <1>4 DEF First

LEMMA FirstTempIsOne ==
    ASSUME ClosedIn(live), temp # {}, \A x \in temp : x.orig \in live
    PROVE  FirstTemp \in temp
  <1> DEFINE N == {x.orig[Len(x.orig)] : x \in temp}
  <1>1. N \subseteq Nat /\ N # {}
    <2>1. \A x \in temp : x.orig[Len(x.orig)] \in Id
      <3>1. \A x \in temp : Len(x.orig) \in 2 .. Len(x.orig)
        BY PathOfObject
      <3> QED
        BY <3>1 DEF ClosedIn
    <2> QED
      BY <2>1, IdsAreNumbers
  <1> HIDE DEF N
  <1>2. PICK n \in N : \A m \in N : n <= m
    BY <1>1, LeastNumber
  <1>3. PICK x \in temp : n = x.orig[Len(x.orig)]
    BY DEF N
  <1>4. \A y \in temp : x.orig[Len(x.orig)] <= y.orig[Len(y.orig)]
    BY <1>2, <1>3 DEF N
  <1> QED
    BY <1>4 DEF FirstTemp

----------------------------------------------------------------------------
(***************************************************************************)
(* Places                                                                  *)
(***************************************************************************)

LEMMA DoubledHere ==
    \A r : Doubled(r) <=> DoubledIn(live, r)
  BY DEF Doubled, DoubledIn, Kids, KidsIn

LEMMA DoubledStays ==
    ASSUME NEW L, NEW M, L \subseteq M, NEW r, DoubledIn(L, r)
    PROVE  DoubledIn(M, r)
  BY DEF DoubledIn, KidsIn

LEMMA PlacedStays ==
    ASSUME NEW L, NEW M, L \subseteq M, NEW a, PlacedIn(L, a)
    PROVE  PlacedIn(M, a)
  BY DoubledStays DEF PlacedIn

LEMMA TreeIsPlace ==
    ASSUME NEW L, NEW t \in Tree
    PROVE  PlacedIn(L, <<t>>)
  BY DEF PlacedIn, Name

LEMMA KidIsPlace ==
    ASSUME NEW L, ClosedIn(L), NEW q \in L, PlacedIn(L, Front(q)),
           IsKind(q, "reference") => DoubledIn(L, q)
    PROVE  PlacedIn(L, q) /\ Len(q) >= 2
  <1>1. q \in Seq(Name) /\ Len(q) >= 2 /\ Len(q) \in Nat
    BY PathOfObject
  <1>2. Len(Front(q)) = Len(q) - 1
    BY <1>1, FrontOfPath
  <1>3. ASSUME NEW k \in 2 .. Len(q), IsKind(SubSeq(q, 1, k), "reference")
        PROVE  DoubledIn(L, SubSeq(q, 1, k))
    <2>1. CASE k = Len(q)
      <3>1. SubSeq(q, 1, k) = q
        BY <1>1, <2>1, WholePath
      <3> QED
        BY <1>3, <3>1
    <2>2. CASE k # Len(q)
      <3>1. k \in 1 .. Len(q) - 1 /\ k \in 2 .. Len(Front(q))
        BY <1>1, <1>2, <2>2
      <3>2. SubSeq(Front(q), 1, k) = SubSeq(q, 1, k)
        BY <1>1, <3>1, BeginOfFront
      <3> QED
        BY <1>3, <3>1, <3>2 DEF PlacedIn
    <2> QED
      BY <2>1, <2>2
  <1> QED
    BY <1>1, <1>3 DEF PlacedIn

LEMMA FrontIsPlace ==
    ASSUME NEW L, ClosedIn(L), NEW p, PlacedIn(L, p), Len(p) > 2
    PROVE  PlacedIn(L, Front(p)) /\ Len(Front(p)) >= 2
  <1>1. p \in Seq(Name) /\ Len(p) \in Nat /\ p \in L \cup (Pipes \ {NULL})
    BY DEF PlacedIn
  <1>2. /\ Front(p) \in Seq(Name) /\ Len(Front(p)) = Len(p) - 1
    BY <1>1, FrontOfPath
  <1>3. p \in L
    <2>1. CASE p \in Pipes \ {NULL}
      <3>1. Len(p) = 2
        BY <2>1, Pipe
      <3> QED
        BY <3>1
    <2> QED
      BY <1>1, <2>1
  <1>4. Front(p) \in L
    BY <1>3 DEF ClosedIn
  <1>5. ASSUME NEW k \in 2 .. Len(Front(p)), IsKind(SubSeq(Front(p), 1, k), "reference")
        PROVE  DoubledIn(L, SubSeq(Front(p), 1, k))
    <2>1. k \in 1 .. Len(p) - 1 /\ k \in 2 .. Len(p)
      BY <1>1, <1>2
    <2>2. SubSeq(Front(p), 1, k) = SubSeq(p, 1, k)
      BY <1>1, <2>1, BeginOfFront
    <2> QED
      BY <1>5, <2>1, <2>2 DEF PlacedIn
  <1> QED
    BY <1>1, <1>2, <1>4, <1>5 DEF PlacedIn

----------------------------------------------------------------------------
(***************************************************************************)
(* Where the children of an object land that is merged with another        *)
(***************************************************************************)

LEMMA SetInduction ==
    ASSUME NEW S, 0 \in S, \A n \in Nat : n \in S => n + 1 \in S
    PROVE  \A n \in Nat : n \in S
  <1> SUFFICES ASSUME Nat \ S # {} PROVE FALSE
    OBVIOUS
  <1>1. PICK n \in Nat \ S : \A m \in Nat \ S : n <= m
    BY LeastNumber
  <1>2. n - 1 \in Nat /\ n - 1 \notin Nat \ S
    BY <1>1
  <1> QED
    BY <1>2, <1>1

LEMMA Lands ==
    ASSUME ClosedIn(live), NEW p \in Seq(Tree \cup Id), Len(p) >= 1, NEW i \in Id
    PROVE  /\ Landing(p, i) \in Seq(Tree \cup Id) /\ Len(Landing(p, i)) = Len(p) + 1
           /\ Front(Landing(p, i)) = p
           /\ Landing(p, i) \in live \/ Landing(p, i) = Append(p, i)
  <1> DEFINE there == {q \in Kids(p) : SameId(q[Len(q)], i)}
  <1>1. Landing(p, i) = IF there # {} THEN First(there) ELSE Append(p, i)
    BY DEF Landing
  <1>2. there \subseteq live /\ \A q \in there : Front(q) = p
    BY DEF Kids
  <1> HIDE DEF there
  <1>3. CASE there # {}
    <2>1. First(there) \in there
      BY <1>2, <1>3, FirstIsOne
    <2>2. First(there) \in live /\ Front(First(there)) = p
      BY <1>2, <2>1
    <2> DEFINE q == First(there)
    <2>3. q \in Seq(Tree \cup Id) /\ Len(q) >= 2 /\ Len(q) \in Nat
      BY <2>2, PathOfObject
    <2> HIDE DEF q
    <2>4. Len(Front(q)) = Len(q) - 1
      BY <2>3, FrontOfPath
    <2>5. Len(q) = Len(p) + 1
      BY <2>2, <2>3, <2>4 DEF q
    <2> QED
      BY <1>1, <1>3, <2>2, <2>3, <2>5 DEF q
  <1>4. CASE there = {}
    <2>1. i \in Tree \cup Id
      OBVIOUS
    <2> QED
      BY <1>1, <1>4, <2>1, AppendedPath
  <1> QED
    BY <1>3, <1>4

LeadsTo(p, s, n, f) ==
    f = [i \in 0 .. n |-> IF i = 0 THEN p ELSE Landing(f[i - 1], s[i])]

LEMMA WaysExist ==
    ASSUME NEW p, NEW s
    PROVE  \A n \in Nat : \E f : LeadsTo(p, s, n, f)
  <1> DEFINE S == {n \in Nat : \E f : LeadsTo(p, s, n, f)}
  <1>1. 0 \in S
    <2> DEFINE f == [i \in 0 .. 0 |-> p]
    <2>1. f = [i \in 0 .. 0 |-> IF i = 0 THEN p ELSE Landing(f[i - 1], s[i])]
      OBVIOUS
    <2> HIDE DEF f
    <2>2. LeadsTo(p, s, 0, f)
      BY <2>1 DEF LeadsTo
    <2> QED
      BY <2>2
  <1>2. ASSUME NEW n \in Nat, n \in S PROVE n + 1 \in S
    <2>1. PICK f : LeadsTo(p, s, n, f)
      BY <1>2
    <2>2. \A i \in 0 .. n : f[i] = IF i = 0 THEN p ELSE Landing(f[i - 1], s[i])
      BY <2>1 DEF LeadsTo
    <2> DEFINE g == [i \in 0 .. n + 1 |-> IF i <= n THEN f[i] ELSE Landing(f[n], s[n + 1])]
               E(i) == IF i = 0 THEN p ELSE Landing(g[i - 1], s[i])
    <2>3. ASSUME NEW i \in 0 .. n + 1 PROVE g[i] = E(i)
      <3>1. CASE i = 0
        BY <2>2, <3>1
      <3>2. CASE i \in 1 .. n
        <4>1. i \in 0 .. n + 1 /\ i - 1 \in 0 .. n + 1 /\ i <= n /\ i - 1 <= n /\ i # 0
              /\ i \in 0 .. n
          BY <3>2
        <4>2. g[i] = f[i] /\ g[i - 1] = f[i - 1]
          BY <4>1
        <4> QED
          BY <2>2, <4>1, <4>2
      <3>3. CASE i = n + 1
        <4>1. n \in 0 .. n + 1 /\ n <= n /\ ~(i <= n) /\ i # 0 /\ i - 1 = n
          BY <3>3
        <4>2. g[i] = Landing(f[n], s[n + 1]) /\ g[n] = f[n]
          BY <4>1
        <4> QED
          BY <3>3, <4>1, <4>2
      <3> QED
        BY <3>1, <3>2, <3>3
    <2>4. g = [i \in 0 .. n + 1 |-> g[i]]
      OBVIOUS
    <2> HIDE DEF g
    <2>5. g = [i \in 0 .. n + 1 |-> E(i)]
      BY <2>3, <2>4
    <2>6. LeadsTo(p, s, n + 1, g)
      BY <2>5, Zenon DEF LeadsTo
    <2> QED
      BY <2>6
  <1> HIDE DEF S
  <1>3. \A n \in Nat : n \in S
    BY <1>1, <1>2, SetInduction
  <1> QED
    BY <1>3 DEF S

LEMMA WaySteps ==
    ASSUME NEW p, NEW s, Len(s) \in Nat
    PROVE  \A i \in 0 .. Len(s) :
             Way(p, s)[i] = IF i = 0 THEN p ELSE Landing(Way(p, s)[i - 1], s[i])
  <1>1. \E f : LeadsTo(p, s, Len(s), f)
    BY WaysExist
  <1>2. Way(p, s) = CHOOSE f : LeadsTo(p, s, Len(s), f)
    BY Zenon DEF Way, LeadsTo
  <1>3. LeadsTo(p, s, Len(s), Way(p, s))
    BY <1>1, <1>2, Zenon
  <1> HIDE DEF Way
  <1> DEFINE W == Way(p, s)
             E(i) == IF i = 0 THEN p ELSE Landing(W[i - 1], s[i])
  <1>4. W = [i \in 0 .. Len(s) |-> E(i)]
    BY <1>3, Zenon DEF LeadsTo
  <1> HIDE DEF W, E
  <1>5. \A i \in 0 .. Len(s) : W[i] = E(i)
    BY <1>4, Zenon
  <1> QED
    BY <1>5 DEF W, E

(* The way depends only on what was walked.                                *)
LEMMA WaysAgree ==
    ASSUME NEW p, NEW s, NEW u, Len(s) \in Nat, Len(u) \in Nat,
           NEW m \in Nat, m <= Len(s), m <= Len(u), \A i \in 1 .. m : s[i] = u[i]
    PROVE  \A i \in 0 .. m : Way(p, s)[i] = Way(p, u)[i]
  <1> DEFINE S == {n \in Nat : n <= m => Way(p, s)[n] = Way(p, u)[n]}
  <1>1. /\ \A i \in 0 .. Len(s) :
             Way(p, s)[i] = IF i = 0 THEN p ELSE Landing(Way(p, s)[i - 1], s[i])
        /\ \A i \in 0 .. Len(u) :
             Way(p, u)[i] = IF i = 0 THEN p ELSE Landing(Way(p, u)[i - 1], u[i])
    BY WaySteps
  <1>2. 0 \in S
    BY <1>1
  <1>3. ASSUME NEW n \in Nat, n \in S PROVE n + 1 \in S
    <2> SUFFICES ASSUME n + 1 <= m PROVE Way(p, s)[n + 1] = Way(p, u)[n + 1]
      OBVIOUS
    <2>1. /\ n + 1 \in 0 .. Len(s) /\ n + 1 \in 0 .. Len(u)
          /\ n + 1 # 0 /\ n + 1 - 1 = n /\ n <= m /\ n + 1 \in 1 .. m
      OBVIOUS
    <2>2. Way(p, s)[n] = Way(p, u)[n]
      BY <1>3, <2>1
    <2>3. /\ Way(p, s)[n + 1] = Landing(Way(p, s)[n], s[n + 1])
          /\ Way(p, u)[n + 1] = Landing(Way(p, u)[n], u[n + 1])
      BY <1>1, <2>1
    <2>4. s[n + 1] = u[n + 1]
      BY <2>1
    <2> QED
      BY <2>2, <2>3, <2>4
  <1> HIDE DEF S
  <1>4. \A n \in Nat : n \in S
    BY <1>2, <1>3, SetInduction
  <1> QED
    BY <1>4 DEF S

LEMMA WayIsPath ==
    ASSUME ClosedIn(live), NEW p \in live, NEW s \in Seq(Id)
    PROVE  \A i \in 0 .. Len(s) :
             /\ Way(p, s)[i] \in Seq(Tree \cup Id) /\ Len(Way(p, s)[i]) = Len(p) + i
             /\ Way(p, s)[i][1] \in Tree
             /\ \A k \in 2 .. Len(p) + i : Way(p, s)[i][k] \in Id
             /\ i > 0 => Front(Way(p, s)[i]) = Way(p, s)[i - 1]
  <1> DEFINE W == Way(p, s)
             Good(i) == /\ W[i] \in Seq(Tree \cup Id) /\ Len(W[i]) = Len(p) + i
                        /\ W[i][1] \in Tree
                        /\ \A k \in 2 .. Len(p) + i : W[i][k] \in Id
                        /\ i > 0 => Front(W[i]) = W[i - 1]
             S == {n \in Nat : n <= Len(s) => Good(n)}
  <1>1. Len(s) \in Nat /\ Len(p) \in Nat /\ Len(p) >= 2
    BY PathOfObject
  <1>2. \A i \in 0 .. Len(s) : W[i] = IF i = 0 THEN p ELSE Landing(W[i - 1], s[i])
    BY <1>1, WaySteps
  <1> HIDE DEF W
  <1>3. 0 \in S
    <2>1. W[0] = p
      BY <1>1, <1>2
    <2>2. p \in Seq(Tree \cup Id) /\ p[1] \in Tree /\ \A k \in 2 .. Len(p) : p[k] \in Id
      BY DEF ClosedIn
    <2>3. Len(p) + 0 = Len(p)
      BY <1>1
    <2> QED
      BY <2>1, <2>2, <2>3
  <1>4. ASSUME NEW n \in Nat, n \in S PROVE n + 1 \in S
    <2> SUFFICES ASSUME n + 1 <= Len(s) PROVE Good(n + 1)
      OBVIOUS
    <2>1. Good(n) /\ n + 1 \in 0 .. Len(s) /\ n + 1 \in 1 .. Len(s) /\ n + 1 # 0 /\ n + 1 - 1 = n
      BY <1>1, <1>4
    <2>2. W[n + 1] = Landing(W[n], s[n + 1]) /\ s[n + 1] \in Id
      BY <1>2, <2>1
    <2> DEFINE q == W[n]
               r == Landing(W[n], s[n + 1])
    <2>3. q \in Seq(Tree \cup Id) /\ Len(q) = Len(p) + n /\ Len(q) >= 1
      BY <1>1, <2>1
    <2>4. /\ q[1] \in Tree /\ \A k \in 2 .. Len(p) + n : q[k] \in Id
      BY <2>1
    <2> HIDE DEF q
    <2>5. /\ r \in Seq(Tree \cup Id) /\ Len(r) = Len(q) + 1 /\ Front(r) = q
          /\ r \in live \/ r = Append(q, s[n + 1])
      BY <2>2, <2>3, Lands DEF q
    <2> HIDE DEF r
    <2>6. /\ r[1] \in Tree /\ \A k \in 2 .. Len(r) : r[k] \in Id
      <3>1. CASE r \in live
        BY <3>1 DEF ClosedIn
      <3>2. CASE r = Append(q, s[n + 1])
        <4>1. /\ r[Len(q) + 1] = s[n + 1] /\ \A k \in 1 .. Len(q) : r[k] = q[k]
          BY <2>2, <2>3, <3>2
        <4>2. 1 \in 1 .. Len(q) /\ Len(q) \in Nat
          BY <2>3
        <4>3. ASSUME NEW k \in 2 .. Len(r) PROVE r[k] \in Id
          <5>1. k = Len(q) + 1 \/ (k \in 1 .. Len(q) /\ k \in 2 .. Len(p) + n)
            <6>1. Len(r) = Len(q) + 1 /\ Len(q) = Len(p) + n
              BY <2>3, <2>5
            <6> HIDE DEF r
            <6> QED
              BY <4>2, <6>1
          <5> QED
            BY <2>2, <2>4, <4>1, <5>1
        <4> QED
          BY <2>4, <4>1, <4>2, <4>3
      <3> QED
        BY <2>5, <3>1, <3>2
    <2>7. Len(r) = Len(p) + (n + 1)
      BY <1>1, <2>3, <2>5
    <2>8. W[n + 1] = r /\ W[n + 1 - 1] = q
      BY <2>1, <2>2 DEF q, r
    <2> QED
      BY <2>5, <2>6, <2>7, <2>8
  <1> HIDE DEF S
  <1>5. \A n \in Nat : n \in S
    BY <1>3, <1>4, SetInduction
  <1> QED
    BY <1>5 DEF S, W

LEMMA TailOfPath ==
    ASSUME NEW p \in Seq(Tree \cup Id), NEW q, Len(q) \in Nat, Len(q) >= 1, Len(p) > Len(q),
           \A k \in 2 .. Len(p) : p[k] \in Id
    PROVE  /\ Tail1(p, q) \in Seq(Id) /\ Len(Tail1(p, q)) = Len(p) - Len(q)
           /\ \A i \in 1 .. Len(p) - Len(q) : Tail1(p, q)[i] = p[Len(q) + i]
  <1> DEFINE m == Len(q)
             n == Len(p)
  <1>1. m \in Nat /\ n \in Nat /\ m >= 1 /\ n > m
    OBVIOUS
  <1> HIDE DEF m
  <1>2. \A i \in m + 1 .. n : p[i] \in Id
    BY <1>1
  <1>3. /\ SubSeq(p, m + 1, n) \in Seq(Id)
        /\ Len(SubSeq(p, m + 1, n)) = n - m
        /\ \A i \in 1 .. n - m : SubSeq(p, m + 1, n)[i] = p[m + i]
    BY <1>1, <1>2
  <1> QED
    BY <1>3 DEF Tail1, m

(* The children that an object takes over hang on it, one below the other. *)
LEMMA MergeCloses ==
    ASSUME ClosedIn(live), NEW p \in live, NEW q \in live, NEW o \in Merge(p, q)
    PROVE  /\ o \in Seq(Tree \cup Id) /\ Len(o) >= 2
           /\ o[1] \in Tree /\ \A k \in 2 .. Len(o) : o[k] \in Id
           /\ Front(o) \in live \cup Merge(p, q)
  <1>1. p # q /\ \E r \in Below(q) : o = Moved(p, Tail1(r, q))
    BY DEF Merge
  <1>2. PICK r \in Below(q) : o = Moved(p, Tail1(r, q))
    BY <1>1
  <1> DEFINE s == Tail1(r, q)
             n == Len(r) - Len(q)
  <1>3. r \in live /\ Len(r) > Len(q) /\ SubSeq(r, 1, Len(q)) = q
    BY DEF Below
  <1>4. /\ r \in Seq(Name) /\ Len(r) \in Nat /\ Len(q) \in Nat /\ Len(q) >= 2
        /\ Len(p) \in Nat /\ Len(p) >= 2 /\ r \in Seq(Tree \cup Id)
    BY <1>3, PathOfObject
  <1>5. \A k \in 2 .. Len(r) : r[k] \in Id
    BY <1>3 DEF ClosedIn
  <1>6. n \in Nat /\ n >= 1
    BY <1>3, <1>4
  <1>7. s \in Seq(Id) /\ Len(s) = n /\ \A i \in 1 .. n : s[i] = r[Len(q) + i]
    BY <1>3, <1>4, <1>5, TailOfPath
  <1> HIDE DEF s
  <1>8. \A i \in 0 .. n :
             /\ Way(p, s)[i] \in Seq(Tree \cup Id) /\ Len(Way(p, s)[i]) = Len(p) + i
             /\ Way(p, s)[i][1] \in Tree
             /\ \A k \in 2 .. Len(p) + i : Way(p, s)[i][k] \in Id
             /\ i > 0 => Front(Way(p, s)[i]) = Way(p, s)[i - 1]
    BY <1>7, WayIsPath
  <1>9. o = Way(p, s)[n]
    BY <1>2, <1>7 DEF Moved, s
  <1>10. n \in 0 .. n /\ n > 0 /\ Len(p) + n >= 2
    BY <1>4, <1>6
  <1>11. Front(o) = Way(p, s)[n - 1]
    BY <1>8, <1>9, <1>10
  <1>12. CASE n = 1
    <2>1. Way(p, s)[0] = p
      BY <1>6, <1>7, WaySteps
    <2> QED
      BY <1>8, <1>9, <1>10, <1>11, <1>12, <2>1
  <1>13. CASE n > 1
    <2> DEFINE f == Front(r)
               u == Tail1(f, q)
    <2>1. Len(r) > 2 /\ f \in live
      BY <1>3, <1>4, <1>13 DEF ClosedIn
    <2>2. Len(f) = Len(r) - 1 /\ \A i \in 1 .. Len(r) - 1 : f[i] = r[i]
      BY <1>4, <2>1, FrontOfPath
    <2>3. SubSeq(f, 1, Len(q)) = q
      <3>1. Len(q) \in 1 .. Len(r) - 1
        BY <1>4, <1>13
      <3>2. SubSeq(f, 1, Len(q)) = SubSeq(r, 1, Len(q))
        BY <1>4, <3>1, BeginOfFront
      <3> QED
        BY <1>3, <3>2
    <2>4. Len(f) > Len(q) /\ Len(f) - Len(q) = n - 1
      BY <1>4, <1>13, <2>2
    <2>5. f \in Below(q)
      BY <2>1, <2>3, <2>4 DEF Below
    <2>6. f \in Seq(Tree \cup Id) /\ \A k \in 2 .. Len(f) : f[k] \in Id
      BY <2>1 DEF ClosedIn
    <2> HIDE DEF f
    <2>7. u \in Seq(Id) /\ Len(u) = n - 1 /\ \A i \in 1 .. n - 1 : u[i] = f[Len(q) + i]
      BY <1>4, <2>4, <2>6, TailOfPath
    <2> HIDE DEF u
    <2>8. ASSUME NEW i \in 1 .. n - 1 PROVE s[i] = u[i]
      <3>1. i \in 1 .. n /\ Len(q) + i \in 1 .. Len(r) - 1
        BY <1>4, <1>6
      <3> QED
        BY <1>7, <2>2, <2>7, <3>1
    <2>9. n - 1 \in Nat /\ n - 1 <= n /\ n - 1 \in 0 .. n - 1
      BY <1>6
    <2>10. Way(p, s)[n - 1] = Way(p, u)[n - 1]
      <3> DEFINE m == n - 1
      <3>1. /\ Len(s) \in Nat /\ Len(u) \in Nat /\ m \in Nat /\ m <= Len(s) /\ m <= Len(u)
            /\ \A i \in 1 .. m : s[i] = u[i]
        BY <1>6, <1>7, <2>7, <2>8, <2>9
      <3> HIDE DEF m, n
      <3>2. \A i \in 0 .. m : Way(p, s)[i] = Way(p, u)[i]
        BY <3>1, WaysAgree
      <3> QED
        BY <2>9, <3>2 DEF m
    <2>11. Moved(p, u) \in Merge(p, q)
      BY <1>1, <2>5 DEF Merge, u
    <2>12. Moved(p, u) = Front(o)
      BY <1>11, <2>7, <2>10 DEF Moved
    <2> QED
      BY <1>8, <1>9, <1>10, <2>11, <2>12
  <1> QED
    BY <1>6, <1>12, <1>13

LEMMA MergedIsClosed ==
    ASSUME ClosedIn(live), NEW Y, Y \subseteq live, NEW q \in live
    PROVE  ClosedIn(live \cup UNION {Merge(p, q) : p \in Y})
  <1> DEFINE L == live \cup UNION {Merge(p, q) : p \in Y}
  <1>1. ASSUME NEW o \in L, o \notin live
        PROVE  /\ o \in Seq(Tree \cup Id) /\ Len(o) >= 2
               /\ o[1] \in Tree /\ \A k \in 2 .. Len(o) : o[k] \in Id
               /\ Front(o) \in L
    <2>1. PICK p \in Y : o \in Merge(p, q)
      BY <1>1
    <2>2. p \in live
      OBVIOUS
    <2>3. /\ o \in Seq(Tree \cup Id) /\ Len(o) >= 2
          /\ o[1] \in Tree /\ \A k \in 2 .. Len(o) : o[k] \in Id
          /\ Front(o) \in live \cup Merge(p, q)
      BY <2>1, <2>2, MergeCloses
    <2> QED
      BY <2>3
  <1>2. live \subseteq L
    OBVIOUS
  <1> HIDE DEF L
  <1>3. ClosedIn(L)
    BY <1>1, <1>2 DEF ClosedIn
  <1> QED
    BY <1>3 DEF L

----------------------------------------------------------------------------
(***************************************************************************)
(* Objects of a level                                                      *)
(***************************************************************************)

LEMMA OfLevelIsPlace ==
    ASSUME NEW L, ClosedIn(L), NEW p, OfLevel(L, p)
    PROVE  PlacedIn(L, p) /\ Len(p) >= 2
  BY KidIsPlace DEF OfLevel

LEMMA OfLevelStays ==
    ASSUME NEW L, NEW M, L \subseteq M, NEW p, OfLevel(L, p)
    PROVE  OfLevel(M, p)
  BY PlacedStays DEF OfLevel

LEMMA ShadowStays ==
    ASSUME NEW L, NEW M, L \subseteq M, NEW a, NEW y, ShadowIn(L, a, y)
    PROVE  ShadowIn(M, a, y)
  BY OfLevelStays, PlacedStays DEF ShadowIn

LEMMA TempStays ==
    ASSUME NEW L, NEW M, L \subseteq M, NEW c, NEW x, TempIn(L, c, x)
    PROVE  TempIn(M, c, x)
  BY OfLevelStays DEF TempIn

LEMMA PipeIsPlace ==
    ASSUME NEW L, NEW r \in Pipes \ {NULL}
    PROVE  PlacedIn(L, r) /\ Len(r) = 2
  <1>1. r \in Seq(Name) /\ Len(r) = 2
    BY Pipe
  <1>2. SubSeq(r, 1, Len(r)) = r
    BY <1>1, WholePath
  <1>3. DoubledIn(L, r)
    BY DEF DoubledIn
  <1>4. \A k \in 2 .. Len(r) : k = Len(r)
    BY <1>1
  <1>5. \A k \in 2 .. Len(r) : DoubledIn(L, SubSeq(r, 1, k))
    BY <1>2, <1>3, <1>4
  <1>6. Len(r) >= 1 /\ r \in L \cup (Pipes \ {NULL})
    BY <1>1
  <1> HIDE DEF Pipes
  <1> QED
    BY <1>1, <1>5, <1>6 DEF PlacedIn

LEMMA ResolvedIsPlace ==
    ASSUME PointsStand, NEW p, Resolves(p)
    PROVE  PlacedIn(live, Resolve(p))
  <1> DEFINE t == Wrapper[Said(p).tree]
  <1>1. t \in Tree
    BY ObjectAssumption DEF Resolves
  <1>2. Resolve(p) = IF wp[t] = NULL THEN <<t>> ELSE wp[t]
    BY DEF Resolve
  <1> HIDE DEF t
  <1> QED
    BY <1>1, <1>2, TreeIsPlace DEF PointsStand

RulesType == [remove : SUBSET Label, add : SUBSET Label]

LEMMA RulesAreRules ==
    /\ \A p : p[Len(p)] \in Id => RulesOf(p) \in RulesType
    /\ \A own \in RulesType, outer \in RulesType : Merged(own, outer) \in RulesType
  <1>1. \A i \in Id : \A k \in DOMAIN Object[i].rules : Object[i].rules[k][2] \in Label
    BY DEF Label
  <1>2. ASSUME NEW p, p[Len(p)] \in Id PROVE RulesOf(p) \in RulesType
    <2> DEFINE said == Said(p).rules
               counts == {k \in DOMAIN said :
                            \A j \in DOMAIN said : said[j][2] = said[k][2] => k <= j}
               that(do) == {said[k][2] : k \in {k \in counts : said[k][1] = do}}
    <2>1. \A k \in DOMAIN said : said[k][2] \in Label
      BY <1>1, <1>2 DEF Said
    <2>2. \A do : that(do) \subseteq Label
      BY <2>1
    <2>3. RulesOf(p) = [remove |-> that("remove"), add |-> that("add")]
      BY DEF RulesOf
    <2> HIDE DEF that
    <2> QED
      BY <2>2, <2>3 DEF RulesType
  <1> QED
    BY <1>2 DEF Merged, RulesType

LEMMA FrameStands ==
    ASSUME PointsStand, NEW p, Resolves(p), NEW filter \in RulesType
    PROVE  /\ Frame(p, filter) \in FrameOf(live)
           /\ Frame(p, filter).at = Resolve(p) /\ PlacedIn(live, Frame(p, filter).at)
           /\ Frame(p, filter).todo = KidsIn(live, Resolve(p))
  <1>1. PlacedIn(live, Resolve(p))
    BY ResolvedIsPlace
  <1>2. Resolve(p) \in Seq(Name)
    BY <1>1 DEF PlacedIn
  <1>3. Kids(Resolve(p)) = KidsIn(live, Resolve(p)) /\ Kids(Resolve(p)) \in SUBSET live
    BY DEF Kids, KidsIn
  <1> QED
    BY <1>1, <1>2, <1>3 DEF Frame, FrameOf, RulesType

LEMMA FramesStay ==
    ASSUME NEW L, NEW M, L \subseteq M, NEW s \in Seq(FrameOf(L))
    PROVE  s \in Seq(FrameOf(M))
  <1>1. FrameOf(L) \subseteq FrameOf(M)
    BY DEF FrameOf
  <1> QED
    BY <1>1

LEMMA ReferenceIsKnown ==
    ASSUME ClosedIn(live), NEW p, p \in live \/ p \in Pipes \ {NULL}
    PROVE  p[Len(p)] \in Id
  <1>1. CASE p \in live
    <2>1. Len(p) \in 2 .. Len(p)
      BY <1>1, PathOfObject
    <2> QED
      BY <1>1, <2>1 DEF ClosedIn
  <1>2. CASE p \in Pipes \ {NULL}
    <2>1. PICK i \in Id : p = <<Unknown, i>> /\ Len(p) = 2
      BY <1>2, Pipe
    <2> QED
      BY <2>1
  <1> QED
    BY <1>1, <1>2

(* A reference begins: only its own tree is on the stack.                  *)
LEMMA BeginStands ==
    ASSUME TreesStand, PointsStand, NEW p, IsKind(p, "reference"),
           p \in KidsIn(live, at) \/ p \in Pipes \ {NULL},
           BeginReference(p), live \subseteq live', ClosedIn(live')
    PROVE  /\ phase' = "copy" /\ temp' = {}
           /\ ReferenceStands' /\ StackStands' /\ NoLoop'
           /\ UNCHANGED <<heads, params, retval>>
  <1>1. /\ Resolves(p)
        /\ phase' = "copy" /\ coref' = p /\ temp' = {}
        /\ stack' = <<Frame(p, RulesOf(p))>>
        /\ UNCHANGED <<heads, params, retval>>
    BY DEF BeginReference
  <1>2. at' = at /\ wp' = wp
    BY <1>1 DEF heads, params
  <1>3. p[Len(p)] \in Id
    <2>1. p \in live \/ p \in Pipes \ {NULL}
      BY DEF KidsIn
    <2> QED
      BY <2>1, ReferenceIsKnown DEF TreesStand
  <1> DEFINE f == Frame(p, RulesOf(p))
  <1>4. /\ f \in FrameOf(live) /\ f.at = Resolve(p) /\ PlacedIn(live, f.at)
        /\ f.todo = KidsIn(live, Resolve(p))
    BY <1>1, <1>3, RulesAreRules, FrameStands
  <1> HIDE DEF f
  <1>5. stack' = <<f>>
    BY <1>1 DEF f
  <1>6. ReferenceStands'
    BY <1>1, <1>2 DEF ReferenceStands, KidsIn, IsKind, Said, Pipes
  <1>7. StackStands'
    <2>1. <<f>> \in Seq(FrameOf(live))
      BY <1>4
    <2>2. stack' \in Seq(FrameOf(live'))
      BY <1>5, <2>1, FramesStay
    <2>3. PlacedIn(live', f.at) /\ f.todo \subseteq KidsIn(live', f.at)
      BY <1>4, PlacedStays DEF KidsIn
    <2>4. Len(stack') = 1 /\ stack'[1] = f
      BY <1>5
    <2>5. \A k \in 1 .. Len(stack') : k = 1
      BY <2>4
    <2> QED
      BY <2>2, <2>3, <2>4, <2>5 DEF StackStands
  <1>8. NoLoop'
    <2> SUFFICES ASSUME p \in live'
                 PROVE  /\ stack'[Len(stack')].at = Resolve(p)'
                        /\ (\E k \in 1 .. Len(stack') : stack'[k].at = at)
                             => \E k \in 1 .. Len(stack') : stack'[k].at = at /\ p \in stack'[k].todo
      BY <1>1, <1>2 DEF NoLoop
    <2>1. Len(stack') = 1 /\ stack'[1] = f
      BY <1>5
    <2>2. 1 \in 1 .. Len(stack') /\ \A k \in 1 .. Len(stack') : k = 1
      BY <2>1
    <2>3. Resolve(p)' = Resolve(p)
      BY <1>2 DEF Resolve, Said
    <2>4. p \in KidsIn(live, at)
      BY PathOfObject
    <2>5. f.at = at => p \in f.todo
      BY <1>4, <2>4
    <2> QED
      BY <1>4, <2>1, <2>2, <2>3, <2>5
  <1> QED
    BY <1>1, <1>6, <1>7, <1>8

----------------------------------------------------------------------------
(***************************************************************************)
(* One object of the level or of the copy                                  *)
(***************************************************************************)

Fields == {"orig", "name", "kind", "filter", "ref", "treeref", "appended", "by"}

LEMMA ItemStands ==
    ASSUME IInv, phase # "lost", NEW x, Item(x)
    PROVE  /\ DOMAIN x = Fields /\ OfLevel(live, x.orig) /\ x.orig \in live
           /\ x.name = Said(x.orig).name /\ x.kind = Said(x.orig).kind
           /\ \/ phase = "temp" /\ x \in temp /\ x.treeref = x.orig /\ x.ref = coref
              \/ phase = "level" /\ x.orig \in todo /\ Front(x.orig) = at /\ x.treeref = NULL
  <1>1. TreesStand /\ LevelStands /\ CopyStands /\ ClosedIn(live)
    BY DEF IInv, TreesStand
  <1>2. CASE phase = "level" /\ todo # {} /\ x = Original(First(todo)) /\ x.kind # "reference"
    <2>1. PlacedIn(live, at) /\ todo \subseteq KidsIn(live, at)
      BY <1>1, <1>2 DEF LevelStands
    <2>2. todo \subseteq live
      BY <2>1 DEF KidsIn
    <2> DEFINE p == First(todo)
    <2>3. p \in todo
      BY <1>1, <1>2, <2>2, FirstIsOne
    <2> HIDE DEF p
    <2>4. x = Original(p)
      BY <1>2 DEF p
    <2>5. /\ DOMAIN x = Fields /\ x.orig = p /\ x.name = Said(p).name
          /\ x.kind = Said(p).kind /\ x.treeref = NULL
      BY <2>4 DEF Original, Fields
    <2>6. p \in live /\ Front(p) = at
      BY <2>1, <2>3 DEF KidsIn
    <2>7. OfLevel(live, p)
      BY <1>2, <2>1, <2>5, <2>6 DEF OfLevel, IsKind
    <2> QED
      BY <1>2, <2>3, <2>5, <2>6, <2>7
  <1>3. CASE phase = "temp" /\ temp # {} /\ x = FirstTemp
    <2>1. \A y \in temp : TempIn(live, coref, y)
      BY <1>1 DEF CopyStands
    <2>2. \A y \in temp : y.orig \in live
      BY <2>1 DEF TempIn, OfLevel
    <2>3. x \in temp
      BY <1>1, <1>3, <2>2, FirstTempIsOne
    <2>4. TempIn(live, coref, x)
      BY <2>1, <2>3
    <2> QED
      BY <1>3, <2>3, <2>4 DEF TempIn, OfLevel, Fields
  <1> QED
    BY <1>2, <1>3 DEF Item

LEMMA ShadowOfItem ==
    ASSUME IInv, phase # "lost", NEW x, Item(x), NEW y, DOMAIN y = Fields,
           y.orig = x.orig, y.treeref = x.treeref, y.ref = x.orig \/ x.treeref # NULL,
           <<y.name, y.kind>> \in Spells(x.orig)
    PROVE  ShadowIn(live, at, y)
  <1>1. /\ OfLevel(live, x.orig)
        /\ x.treeref = x.orig \/ (Front(x.orig) = at /\ x.treeref = NULL)
    BY ItemStands
  <1>2. PlacedIn(live, x.orig) /\ Len(x.orig) >= 2
    BY <1>1, OfLevelIsPlace DEF IInv, TreesStand
  <1> QED
    BY <1>1, <1>2 DEF ShadowIn, Fields

(* The object that a shadow takes over has come through a reference of the *)
(* level, from another place than the one that is taken over.              *)
LEMMA TakenStands ==
    ASSUME IInv, phase # "lost", NEW x, Item(x), x.kind \in {"empty", "command", "variable"},
           NEW y \in level, Same(x, y)
    PROVE  ShadowIn(live, at, Taken(y, x))
  <1>1. /\ DOMAIN x = Fields /\ OfLevel(live, x.orig) /\ x.orig \in live
        /\ x.name = Said(x.orig).name /\ x.kind = Said(x.orig).kind
        /\ \/ phase = "temp" /\ x \in temp /\ x.treeref = x.orig /\ x.ref = coref
           \/ phase = "level" /\ x.orig \in todo /\ Front(x.orig) = at /\ x.treeref = NULL
    BY ItemStands
  <1>2. /\ TreesStand /\ ClosedIn(live) /\ LevelStands /\ ReferenceStands /\ NoLoop
    BY DEF IInv, TreesStand
  <1>3. ShadowIn(live, at, y) /\ PlacedIn(live, at)
    BY <1>1, <1>2 DEF LevelStands
  <1> DEFINE z == Taken(y, x)
  <1>4. /\ DOMAIN z = Fields /\ z.orig = y.orig /\ z.name = y.name /\ z.kind = y.kind
        /\ z.treeref = y.treeref
        /\ z.ref = IF Transient(x) THEN x.ref ELSE y.ref
    BY <1>3 DEF Taken, ShadowIn, Fields
  <1> HIDE DEF z
  <1>5. ASSUME y.treeref # y.orig, Transient(x)
        PROVE  PlacedIn(live, coref) /\ Len(coref) >= 2
    <2>1. phase = "temp" /\ x \in temp
      BY <1>1, <1>5 DEF Transient
    <2>2. IsKind(coref, "reference") /\ (coref \in KidsIn(live, at) \/ coref \in Pipes \ {NULL})
      BY <1>2, <2>1 DEF ReferenceStands
    <2>3. CASE coref \in Pipes \ {NULL}
      BY <2>3, PipeIsPlace
    <2>4. CASE coref \in KidsIn(live, at)
      <3>1. coref \in live /\ Front(coref) = at
        BY <2>4 DEF KidsIn
      <3>2. Front(x.orig) # at
        BY <1>2, <2>1, <3>1 DEF NoLoop
      <3>3. Front(y.orig) = at /\ y.orig \in live /\ ~IsKind(y.orig, "reference")
        BY <1>3, <1>5 DEF ShadowIn, OfLevel
      <3>4. <<y.name, y.kind>> \in Spells(y.orig) /\ <<y.name, y.kind>> \in Spells(x.orig)
        BY <1>1, <1>3 DEF ShadowIn, Spells, Same
      <3>5. y.orig \in KidsIn(live, Front(coref)) /\ y.orig # x.orig
            /\ ~IsKind(x.orig, "reference")
        BY <1>1, <3>1, <3>2, <3>3 DEF KidsIn, OfLevel
      <3>6. DoubledIn(live, coref)
        BY <1>1, <3>3, <3>4, <3>5 DEF DoubledIn
      <3> QED
        BY <1>2, <1>3, <3>1, <3>6, KidIsPlace
    <2> QED
      BY <2>2, <2>3, <2>4
  <1>6. Transient(x) => x.ref = coref
    BY <1>1 DEF Transient
  <1> QED
    BY <1>3, <1>4, <1>5, <1>6 DEF ShadowIn, Fields, z

(* What is left of a level after one of its objects.                       *)
LEMMA AdvanceStands ==
    ASSUME IInv, phase # "lost", NEW x, Item(x), Advance(x),
           live \subseteq live', ClosedIn(live'),
           \A y \in level' : ShadowIn(live', at, y)
    PROVE  IInv'
  <1>1. /\ TreesStand /\ PointsStand /\ ParamsStand /\ LevelStands
        /\ CopyStands /\ ReferenceStands /\ StackStands /\ NoLoop
    BY DEF IInv
  <1>2. UNCHANGED <<heads, params, retval>> /\ phase \in {"level", "temp"}
    <2>1. phase \in {"level", "temp"}
      BY DEF Item
    <2> QED
      BY <2>1 DEF Advance, BeginReference
  <1>3. UNCHANGED <<wp, active, at, copipe>>
    BY <1>2 DEF heads, params
  <1>4. PlacedIn(live, at) /\ todo \subseteq KidsIn(live, at)
    BY <1>1, <1>2 DEF LevelStands
  <1>5. TreesStand'
    BY <1>1 DEF TreesStand
  <1>6. PointsStand'
    BY <1>1, <1>3, PlacedStays DEF PointsStand
  <1>7. ParamsStand'
    BY <1>1, <1>3 DEF ParamsStand, Pipes
  <1>8. PlacedIn(live', at) /\ KidsIn(live, at) \subseteq KidsIn(live', at)
    BY <1>4, PlacedStays DEF KidsIn
  <1>9. todo' \subseteq todo
    BY DEF Advance
  <1>10. CASE phase = "level" /\ PipeFollows(x)
    <2>1. BeginReference(copipe)
      BY <1>10 DEF Advance
    <2>2. copipe \in Pipes \ {NULL} /\ IsKind(copipe, "reference")
      <3>1. copipe \in Pipes \ {NULL}
        BY <1>1, <1>10 DEF ParamsStand, PipeFollows
      <3>2. PICK i \in Id : copipe = <<Unknown, i>> /\ Object[i].pipe
        BY <3>1 DEF Pipes
      <3>3. Object[i].kind = "reference"
        BY <3>2, ObjectAssumption DEF IsObject
      <3> QED
        BY <3>1, <3>2, <3>3 DEF IsKind, Said
    <2>3. /\ phase' = "copy" /\ temp' = {}
          /\ ReferenceStands' /\ StackStands' /\ NoLoop'
      BY <1>1, <2>1, <2>2, BeginStands
    <2>4. LevelStands' /\ CopyStands'
      BY <1>3, <1>4, <1>8, <1>9, <2>3 DEF LevelStands, CopyStands
    <2> QED
      BY <1>5, <1>6, <1>7, <2>3, <2>4 DEF IInv
  <1>11. CASE ~(phase = "level" /\ PipeFollows(x))
    <2>1. UNCHANGED <<phase, coref, stack>> /\ temp' \subseteq temp
      BY <1>11 DEF Advance
    <2>2. LevelStands'
      BY <1>3, <1>4, <1>8, <1>9, <2>1 DEF LevelStands
    <2>6. CopyStands'
      BY <1>1, <2>1, TempStays DEF CopyStands
    <2>3. ReferenceStands'
      BY <1>1, <1>3, <1>8, <2>1 DEF ReferenceStands, IsKind, Said, Pipes
    <2>4. StackStands'
      BY <1>2, <2>1 DEF StackStands
    <2>5. NoLoop'
      <3> SUFFICES ASSUME coref \in live', phase = "temp" PROVE \A y \in temp : Front(y.orig) # at
        BY <1>2, <1>3, <2>1 DEF NoLoop
      <3>1. coref \in KidsIn(live, at) \/ coref \in Pipes \ {NULL}
        BY <1>1 DEF ReferenceStands
      <3>2. coref \notin Pipes
        BY PathOfObject
      <3>3. coref \in live
        BY <3>1, <3>2 DEF KidsIn
      <3> QED
        BY <1>1, <3>3 DEF NoLoop
    <2> QED
      BY <1>5, <1>6, <1>7, <2>2, <2>3, <2>4, <2>5, <2>6 DEF IInv
  <1> QED
    BY <1>10, <1>11

----------------------------------------------------------------------------
(***************************************************************************)
(* The steps                                                               *)
(***************************************************************************)

LEMMA InitStands == Init => IInv
  <1> SUFFICES ASSUME Init PROVE IInv
    OBVIOUS
  <1>1. ASSUME NEW p \in Written
        PROVE  /\ p \in Seq(Tree \cup Id) /\ Len(p) >= 2
               /\ p[1] \in Tree /\ \A k \in 2 .. Len(p) : p[k] \in Id
               /\ Len(p) > 2 => Front(p) \in Written
    <2>1. /\ Len(p) \in Nat /\ Len(p) >= 2 /\ p = [k \in 1 .. Len(p) |-> p[k]]
          /\ p[1] \in Tree /\ \A k \in 2 .. Len(p) : p[k] \in Id
          /\ Len(p) > 2 => Front(p) \in Written
      BY ObjectAssumption
    <2>2. \A k \in 1 .. Len(p) : p[k] \in Tree \cup Id
      BY <2>1
    <2>3. p \in [1 .. Len(p) -> Tree \cup Id]
      BY <2>1, <2>2
    <2> QED
      BY <2>1, <2>3
  <1>2. TreesStand
    BY <1>1 DEF Init, TreesStand, ClosedIn
  <1>3. PointsStand /\ ParamsStand
    BY DEF Init, PointsStand, ParamsStand, Pipes
  <1>4. LevelStands /\ CopyStands /\ ReferenceStands /\ StackStands /\ NoLoop
    BY DEF Init, LevelStands, CopyStands, ReferenceStands, StackStands, NoLoop
  <1> QED
    BY <1>2, <1>3, <1>4 DEF IInv

LEMMA StartStands ==
    ASSUME IInv, phase # "lost", NEW owner, PlacedIn(live, owner),
           NEW filter, NEW past, NEW tree, NEW h, NEW e, NEW pipe \in Pipes,
           Start(owner, filter, past, tree, h, e, pipe)
    PROVE  IInv'
  <1>1. /\ phase' = "level" /\ at' = owner /\ copipe' = pipe
        /\ todo' = KidsIn(live, owner) /\ level' = {}
        /\ UNCHANGED <<live, wp, active, coref, temp>>
    BY DEF Start, heads, Kids, KidsIn
  <1>2. /\ TreesStand /\ PointsStand /\ ParamsStand /\ CopyStands
    BY DEF IInv
  <1>3. TreesStand' /\ PointsStand' /\ ParamsStand' /\ CopyStands'
    BY <1>1, <1>2 DEF TreesStand, PointsStand, ParamsStand, CopyStands, Pipes
  <1>4. LevelStands'
    BY <1>1 DEF LevelStands
  <1>5. ReferenceStands' /\ StackStands' /\ NoLoop'
    BY <1>1 DEF ReferenceStands, StackStands, NoLoop
  <1> QED
    BY <1>3, <1>4, <1>5 DEF IInv

LEMMA ExpandTopStands ==
    ASSUME IInv, phase # "lost", ExpandTop
    PROVE  IInv'
  <1>1. PICK h \in BOOLEAN : Start(<<active>>, NoRules, {<<>>}, NULL, h, FALSE, NULL)
    BY DEF ExpandTop
  <1>2. active \in Tree
    BY DEF ExpandTop, IInv, ParamsStand
  <1>3. PlacedIn(live, <<active>>) /\ NULL \in Pipes
    BY <1>2, TreeIsPlace DEF Pipes
  <1> DEFINE a == <<active>>
  <1> HIDE DEF a
  <1>4. PlacedIn(live, a) /\ Start(a, NoRules, {<<>>}, NULL, h, FALSE, NULL)
    BY <1>1, <1>3 DEF a
  <1> QED
    BY <1>3, <1>4, StartStands

LEMMA ExpandChildStands ==
    ASSUME IInv, phase # "lost", NEW x \in level, ExpandChild(x)
    PROVE  IInv'
  <1>1. phase = "done"
    BY DEF ExpandChild
  <1>2. PICK h \in BOOLEAN, e \in BOOLEAN, pipe \in Pipes :
           Start(x.orig, x.filter, WaysTo(x.orig), x.by, h, e, pipe)
    BY DEF ExpandChild
  <1>3. ShadowIn(live, at, x) /\ ClosedIn(live)
    BY <1>1 DEF IInv, LevelStands, TreesStand
  <1>4. PlacedIn(live, x.orig)
    BY <1>3, OfLevelIsPlace DEF ShadowIn
  <1> QED
    BY <1>2, <1>4, StartStands

(* A step after which nothing is expanded.                                 *)
LEMMA IdleStands ==
    ASSUME IInv, phase # "lost", phase' \in {"idle", "crashed"},
           temp' = {} \/ UNCHANGED <<temp, coref>>,
           UNCHANGED <<live, copipe>>, ParamsStand', PointsStand'
    PROVE  IInv'
  <1>1. TreesStand /\ CopyStands
    BY DEF IInv
  <1>2. TreesStand' /\ CopyStands'
    BY <1>1 DEF TreesStand, CopyStands
  <1>3. LevelStands' /\ ReferenceStands' /\ StackStands' /\ NoLoop'
    BY DEF LevelStands, ReferenceStands, StackStands, NoLoop
  <1> QED
    BY <1>2, <1>3 DEF IInv

LEMMA FailsStands ==
    ASSUME IInv, phase # "lost", Fails, UNCHANGED live
    PROVE  IInv'
  <1>1. phase' = "idle" /\ temp' = {} /\ UNCHANGED <<wp, active, copipe>>
    BY DEF Fails, heads, params
  <1>2. ParamsStand /\ PointsStand
    BY DEF IInv
  <1>3. ParamsStand' /\ PointsStand'
    BY <1>1, <1>2 DEF ParamsStand, PointsStand, Pipes
  <1> QED
    BY <1>1, <1>3, IdleStands

LEMMA QuietStands ==
    ASSUME IInv, phase # "lost",
           \/ NoActive \/ EndOfCommand
           \/ \E t \in Tree : WpUp(t) \/ WpTop(t)
           \/ \E name \in Tree \cup {Unknown} : Activate(name)
    PROVE  IInv'
  <1>1. ParamsStand /\ PointsStand /\ ClosedIn(live)
    BY DEF IInv, TreesStand
  <1>2. CASE NoActive
    <2>1. phase' = "crashed" /\ UNCHANGED <<temp, coref, live, copipe, wp, active>>
      BY <1>2 DEF NoActive, heads, params
    <2>2. ParamsStand' /\ PointsStand'
      BY <1>1, <2>1 DEF ParamsStand, PointsStand, Pipes
    <2> QED
      BY <2>1, <2>2, IdleStands
  <1>3. CASE EndOfCommand
    <2>1. phase' = "idle" /\ UNCHANGED <<temp, coref, live, copipe, wp, active>>
      BY <1>3 DEF EndOfCommand, heads, params
    <2>2. ParamsStand' /\ PointsStand'
      BY <1>1, <2>1 DEF ParamsStand, PointsStand, Pipes
    <2> QED
      BY <2>1, <2>2, IdleStands
  <1>4. ASSUME NEW t \in Tree, WpUp(t) PROVE IInv'
    <2>1. /\ phase' = "idle" /\ UNCHANGED <<temp, coref, live, copipe, active>>
          /\ wp[t] # NULL /\ wp' = [wp EXCEPT ![t] = Up(wp[t])]
      BY <1>4 DEF WpUp, Callback, params
    <2>2. PlacedIn(live, wp[t]) /\ Len(wp[t]) >= 2
      BY <1>1, <2>1 DEF PointsStand
    <2>3. Up(wp[t]) # NULL => PlacedIn(live, Up(wp[t])) /\ Len(Up(wp[t])) >= 2
      <3> DEFINE p == wp[t]
      <3>1. Len(p) \in Nat
        BY <2>2 DEF PlacedIn
      <3> HIDE DEF p
      <3>2. Up(p) # NULL => Up(p) = Front(p) /\ Len(p) > 2
        BY <3>1 DEF Up
      <3>3. PlacedIn(live, p)
        BY <2>2 DEF p
      <3> QED
        BY <1>1, <3>2, <3>3, FrontIsPlace DEF p
    <2>4. PointsStand'
      BY <1>1, <2>1, <2>3 DEF PointsStand
    <2>5. ParamsStand'
      BY <1>1, <2>1 DEF ParamsStand, Pipes
    <2> QED
      BY <2>1, <2>4, <2>5, IdleStands
  <1>5. ASSUME NEW t \in Tree, WpTop(t) PROVE IInv'
    <2>1. /\ phase' = "idle" /\ UNCHANGED <<temp, coref, live, copipe, active>>
          /\ wp' = [wp EXCEPT ![t] = NULL]
      BY <1>5 DEF WpTop, Callback, params
    <2>2. PointsStand' /\ ParamsStand'
      BY <1>1, <2>1 DEF PointsStand, ParamsStand, Pipes
    <2> QED
      BY <2>1, <2>2, IdleStands
  <1>6. ASSUME NEW name \in Tree \cup {Unknown}, Activate(name) PROVE IInv'
    <2>1. /\ phase' = "idle" /\ UNCHANGED <<temp, coref, live, copipe, wp>>
          /\ active' \in Tree \cup {NULL}
      BY <1>6 DEF Activate, Callback, params
    <2>2. PointsStand' /\ ParamsStand'
      BY <1>1, <2>1 DEF PointsStand, ParamsStand, Pipes
    <2> QED
      BY <2>1, <2>2, IdleStands
  <1> QED
    BY <1>2, <1>3, <1>4, <1>5, <1>6

LEMMA WpSetStands ==
    ASSUME IInv, phase # "lost", NEW t \in Tree, WpSet(t)
    PROVE  IInv'
  <1>1. phase = "done" /\ phase' = "idle" /\ UNCHANGED <<temp, coref, live, copipe, active>>
    BY DEF WpSet, Callback, params
  <1>2. PICK x \in level : WorkpointOf(x) # NULL /\ wp' = [wp EXCEPT ![t] = WorkpointOf(x)]
    BY DEF WpSet
  <1>3. ParamsStand /\ PointsStand /\ ClosedIn(live)
    BY DEF IInv, TreesStand
  <1>4. ShadowIn(live, at, x)
    BY <1>1 DEF IInv, LevelStands
  <1>5. OfLevel(live, x.orig) /\ x.orig \in live
    BY <1>4 DEF ShadowIn, OfLevel
  <1>6. x.orig # NULL
    BY <1>3, <1>5, PathOfObject
  <1>7. PlacedIn(live, WorkpointOf(x)) /\ Len(WorkpointOf(x)) >= 2
    <2>1. CASE x.treeref = x.orig
      BY <1>3, <1>5, <1>6, <2>1, OfLevelIsPlace DEF WorkpointOf
    <2>2. CASE x.treeref = NULL /\ PlacedIn(live, x.ref) /\ Len(x.ref) >= 2
      BY <2>2 DEF WorkpointOf
    <2> QED
      BY <1>4, <2>1, <2>2 DEF ShadowIn
  <1>8. PointsStand'
    BY <1>1, <1>2, <1>3, <1>7 DEF PointsStand
  <1>9. ParamsStand'
    BY <1>1, <1>3 DEF ParamsStand, Pipes
  <1> QED
    BY <1>1, <1>8, <1>9, IdleStands

LEMMA LevelReferenceStands ==
    ASSUME IInv, phase # "lost", LevelReference
    PROVE  IInv'
  <1> DEFINE p == First(todo)
  <1>1. /\ phase = "level" /\ todo # {} /\ IsKind(p, "reference")
        /\ todo' = todo \ {p} /\ BeginReference(p) /\ UNCHANGED <<live, level>>
    BY DEF LevelReference
  <1>2. /\ TreesStand /\ PointsStand /\ ParamsStand /\ LevelStands
        /\ PlacedIn(live, at) /\ todo \subseteq KidsIn(live, at) /\ ClosedIn(live)
    BY <1>1 DEF IInv, LevelStands, TreesStand
  <1>3. p \in KidsIn(live, at)
    <2>1. todo \subseteq live
      BY <1>2 DEF KidsIn
    <2> QED
      BY <1>1, <1>2, <2>1, FirstIsOne
  <1> HIDE DEF p
  <1>4. live \subseteq live' /\ ClosedIn(live')
    BY <1>1, <1>2
  <1>5. /\ phase' = "copy" /\ temp' = {}
        /\ ReferenceStands' /\ StackStands' /\ NoLoop'
        /\ UNCHANGED <<heads, params, retval>>
    BY <1>1, <1>2, <1>3, <1>4, BeginStands
  <1>6. UNCHANGED <<wp, active, at, copipe>>
    BY <1>5 DEF heads, params
  <1>7. TreesStand' /\ PointsStand' /\ ParamsStand'
    BY <1>1, <1>2, <1>6 DEF TreesStand, PointsStand, ParamsStand, Pipes
  <1>8. LevelStands' /\ CopyStands'
    BY <1>1, <1>2, <1>5, <1>6 DEF LevelStands, CopyStands
  <1> QED
    BY <1>5, <1>7, <1>8 DEF IInv

LEMMA NoSuchTreeStands ==
    ASSUME IInv, phase # "lost", NoSuchTree
    PROVE  IInv'
  <1>1. Fails /\ UNCHANGED live
    BY DEF NoSuchTree
  <1> QED
    BY <1>1, FailsStands

----------------------------------------------------------------------------
(* The calls that are on the stack                                         *)

LEMMA TopChanged ==
    ASSUME NEW F, NEW s \in Seq(F), s # << >>, NEW f \in F
    PROVE  /\ <<f>> \o Tail(s) \in Seq(F) /\ Len(<<f>> \o Tail(s)) = Len(s)
           /\ (<<f>> \o Tail(s))[1] = f
           /\ \A k \in 2 .. Len(s) : (<<f>> \o Tail(s))[k] = s[k]
           /\ Len(s) \in Nat /\ Len(s) >= 1 /\ s[1] \in F
  <1>1. Len(s) \in Nat /\ Len(s) >= 1
    BY EmptySeq
  <1>2. /\ Tail(s) \in Seq(F) /\ Len(Tail(s)) = Len(s) - 1
        /\ \A k \in 1 .. Len(s) - 1 : Tail(s)[k] = s[k + 1]
    BY <1>1
  <1>3. <<f>> \in Seq(F) /\ Len(<<f>>) = 1 /\ <<f>>[1] = f
    OBVIOUS
  <1>4. /\ <<f>> \o Tail(s) \in Seq(F)
        /\ Len(<<f>> \o Tail(s)) = Len(<<f>>) + Len(Tail(s))
        /\ \A k \in 1 .. Len(<<f>>) + Len(Tail(s)) :
             (<<f>> \o Tail(s))[k] = IF k <= Len(<<f>>) THEN <<f>>[k] ELSE Tail(s)[k - Len(<<f>>)]
    BY <1>2, <1>3, ConcatProperties
  <1>5. ASSUME NEW k \in 2 .. Len(s) PROVE (<<f>> \o Tail(s))[k] = s[k]
    <2>1. k \in 1 .. 1 + (Len(s) - 1) /\ ~(k <= 1) /\ k - 1 \in 1 .. Len(s) - 1 /\ (k - 1) + 1 = k
      BY <1>1
    <2> QED
      BY <1>2, <1>3, <1>4, <2>1
  <1>6. (<<f>> \o Tail(s))[1] = f
    <2>1. 1 \in 1 .. 1 + (Len(s) - 1) /\ 1 <= 1
      BY <1>1
    <2> QED
      BY <1>2, <1>3, <1>4, <2>1
  <1>7. Len(<<f>> \o Tail(s)) = Len(s)
    BY <1>1, <1>2, <1>3, <1>4
  <1> QED
    BY <1>1, <1>4, <1>5, <1>6, <1>7

LEMMA TopPushed ==
    ASSUME NEW F, NEW s \in Seq(F), s # << >>, NEW f \in F, NEW g \in F
    PROVE  /\ <<g, f>> \o Tail(s) \in Seq(F) /\ Len(<<g, f>> \o Tail(s)) = Len(s) + 1
           /\ (<<g, f>> \o Tail(s))[1] = g /\ (<<g, f>> \o Tail(s))[2] = f
           /\ \A k \in 2 .. Len(s) : (<<g, f>> \o Tail(s))[k + 1] = s[k]
           /\ Len(s) \in Nat /\ Len(s) >= 1 /\ s[1] \in F
  <1>1. Len(s) \in Nat /\ Len(s) >= 1
    BY EmptySeq
  <1>2. /\ Tail(s) \in Seq(F) /\ Len(Tail(s)) = Len(s) - 1
        /\ \A k \in 1 .. Len(s) - 1 : Tail(s)[k] = s[k + 1]
    BY <1>1
  <1>3. <<g, f>> \in Seq(F) /\ Len(<<g, f>>) = 2 /\ <<g, f>>[1] = g /\ <<g, f>>[2] = f
    OBVIOUS
  <1>4. /\ <<g, f>> \o Tail(s) \in Seq(F)
        /\ Len(<<g, f>> \o Tail(s)) = Len(<<g, f>>) + Len(Tail(s))
        /\ \A k \in 1 .. Len(<<g, f>>) + Len(Tail(s)) :
             (<<g, f>> \o Tail(s))[k]
               = IF k <= Len(<<g, f>>) THEN <<g, f>>[k] ELSE Tail(s)[k - Len(<<g, f>>)]
    BY <1>2, <1>3, ConcatProperties
  <1>5. ASSUME NEW k \in 2 .. Len(s) PROVE (<<g, f>> \o Tail(s))[k + 1] = s[k]
    <2>1. k + 1 \in 1 .. 2 + (Len(s) - 1) /\ ~(k + 1 <= 2) /\ (k + 1) - 2 = k - 1
          /\ k - 1 \in 1 .. Len(s) - 1 /\ (k - 1) + 1 = k
      BY <1>1
    <2> QED
      BY <1>2, <1>3, <1>4, <2>1
  <1>6. (<<g, f>> \o Tail(s))[1] = g /\ (<<g, f>> \o Tail(s))[2] = f
    <2>1. 1 \in 1 .. 2 + (Len(s) - 1) /\ 2 \in 1 .. 2 + (Len(s) - 1) /\ 1 <= 2 /\ 2 <= 2
      BY <1>1
    <2> QED
      BY <1>2, <1>3, <1>4, <2>1
  <1>7. Len(<<g, f>> \o Tail(s)) = Len(s) + 1
    BY <1>1, <1>2, <1>3, <1>4
  <1> QED
    BY <1>1, <1>4, <1>5, <1>6, <1>7

(* The innermost call goes on to its next object.                          *)
LEMMA WithoutStands ==
    ASSUME IInv, phase = "copy", stack # << >>, NEW p
    PROVE  LET s == <<Without(p)>> \o Rest IN
           /\ s \in Seq(FrameOf(live)) /\ Len(s) = Len(stack)
           /\ Len(stack) \in Nat /\ Len(stack) >= 1
           /\ Without(p) \in FrameOf(live) /\ Without(p).at = stack[1].at
           /\ Without(p).todo = stack[1].todo \ {p}
           /\ s[1] = Without(p) /\ \A k \in 2 .. Len(stack) : s[k] = stack[k]
           /\ \A k \in 1 .. Len(stack) :
                /\ s[k].at = stack[k].at
                /\ \A q \in stack[k].todo : q # p => q \in s[k].todo
                /\ PlacedIn(live, s[k].at) /\ s[k].todo \subseteq KidsIn(live, s[k].at)
  <1>1. /\ stack \in Seq(FrameOf(live))
        /\ \A k \in 1 .. Len(stack) :
             PlacedIn(live, stack[k].at) /\ stack[k].todo \subseteq KidsIn(live, stack[k].at)
    BY DEF IInv, StackStands
  <1>2. Len(stack) \in Nat /\ Len(stack) >= 1 /\ stack[1] \in FrameOf(live)
    BY <1>1, EmptySeq
  <1>3. /\ Without(p) \in FrameOf(live) /\ Without(p).at = stack[1].at
        /\ Without(p).todo = stack[1].todo \ {p}
    BY <1>2 DEF Without, FrameOf
  <1> DEFINE f == Without(p)
             s == <<f>> \o Tail(stack)
  <1> HIDE DEF f
  <1>4. f \in FrameOf(live) /\ f.at = stack[1].at /\ f.todo = stack[1].todo \ {p}
    BY <1>3 DEF f
  <1>5. /\ s \in Seq(FrameOf(live)) /\ Len(s) = Len(stack)
        /\ s[1] = f /\ \A k \in 2 .. Len(stack) : s[k] = stack[k]
    BY <1>1, <1>4, TopChanged
  <1> HIDE DEF s
  <1>6. ASSUME NEW k \in 1 .. Len(stack)
        PROVE  /\ s[k].at = stack[k].at
               /\ \A q \in stack[k].todo : q # p => q \in s[k].todo
               /\ PlacedIn(live, s[k].at) /\ s[k].todo \subseteq KidsIn(live, s[k].at)
    <2>1. CASE k = 1
      BY <1>1, <1>4, <1>5, <2>1
    <2>2. CASE k \in 2 .. Len(stack)
      BY <1>1, <1>5, <2>2
    <2> QED
      BY <1>2, <2>1, <2>2
  <1>7. s = <<Without(p)>> \o Rest
    BY DEF s, f, Rest
  <1> QED
    BY <1>2, <1>3, <1>5, <1>6, <1>7 DEF f

(* A step of the copy: the trees, the working points and the level stay.   *)
LEMMA CopyingStands ==
    ASSUME IInv, Copying, UNCHANGED live, phase' \in {"copy", "crashed"},
           CopyStands', StackStands', NoLoop'
    PROVE  IInv'
  <1>1. phase = "copy" /\ UNCHANGED <<wp, active, at, copipe, todo, coref, level>>
    BY DEF Copying, heads, params
  <1>2. TreesStand /\ PointsStand /\ ParamsStand /\ LevelStands /\ ReferenceStands
    BY <1>1 DEF IInv
  <1>3. TreesStand' /\ PointsStand' /\ ParamsStand'
    BY <1>1, <1>2 DEF TreesStand, PointsStand, ParamsStand, Pipes
  <1>4. LevelStands' /\ ReferenceStands'
    BY <1>1, <1>2 DEF LevelStands, ReferenceStands, IsKind, Said, Pipes
  <1> QED
    BY <1>3, <1>4 DEF IInv

(* The innermost call is at its first object.                              *)
LEMMA CopyingNow ==
    ASSUME IInv, Copying, stack[1].todo # {}
    PROVE  /\ ClosedIn(live) /\ PointsStand /\ CopyStands /\ NoLoop
           /\ stack \in Seq(FrameOf(live)) /\ Len(stack) \in Nat /\ Len(stack) >= 1
           /\ First(stack[1].todo) \in stack[1].todo
           /\ First(stack[1].todo) \in live
           /\ Front(First(stack[1].todo)) = stack[1].at
           /\ PlacedIn(live, stack[1].at) /\ stack[1].filter \in RulesType
  <1>1. /\ phase = "copy" /\ stack # << >>
    BY DEF Copying
  <1>2. /\ ClosedIn(live) /\ PointsStand /\ CopyStands /\ NoLoop /\ StackStands
    BY <1>1 DEF IInv, TreesStand
  <1>3. /\ stack \in Seq(FrameOf(live))
        /\ \A k \in 1 .. Len(stack) :
             PlacedIn(live, stack[k].at) /\ stack[k].todo \subseteq KidsIn(live, stack[k].at)
    BY <1>1, <1>2 DEF StackStands
  <1>4. Len(stack) \in Nat /\ Len(stack) >= 1 /\ 1 \in 1 .. Len(stack)
    BY <1>1, <1>3, EmptySeq
  <1>5. PlacedIn(live, stack[1].at) /\ stack[1].todo \subseteq KidsIn(live, stack[1].at)
    BY <1>3, <1>4
  <1>6. stack[1].todo \subseteq live
    BY <1>5 DEF KidsIn
  <1>7. First(stack[1].todo) \in stack[1].todo
    BY <1>2, <1>6, FirstIsOne
  <1>8. stack[1].filter \in RulesType
    <2>1. stack[1] \in FrameOf(live)
      BY <1>3, <1>4
    <2> QED
      BY <2>1 DEF FrameOf, RulesType
  <1> QED
    BY <1>2, <1>3, <1>4, <1>5, <1>7, <1>8 DEF KidsIn

LEMMA CopyEmptyStands ==
    ASSUME IInv, CopyEmpty
    PROVE  IInv'
  <1> DEFINE p == First(stack[1].todo)
             s == <<Without(p)>> \o Rest
  <1>1. /\ Copying /\ phase = "copy" /\ stack # << >> /\ stack[1].todo # {} /\ IsKind(p, "empty")
        /\ stack' = s /\ UNCHANGED <<live, phase, temp, wp, at, coref>>
    BY DEF CopyEmpty, Copying, heads, params
  <1>2. /\ CopyStands /\ NoLoop /\ Len(stack) \in Nat /\ Len(stack) >= 1
    BY <1>1, CopyingNow
  <1> HIDE DEF p
  <1>3. /\ s \in Seq(FrameOf(live)) /\ Len(s) = Len(stack)
        /\ \A k \in 1 .. Len(stack) :
             /\ s[k].at = stack[k].at
             /\ \A q \in stack[k].todo : q # p => q \in s[k].todo
             /\ PlacedIn(live, s[k].at) /\ s[k].todo \subseteq KidsIn(live, s[k].at)
    BY <1>1, WithoutStands
  <1> HIDE DEF s
  <1>4. CopyStands' /\ StackStands'
    BY <1>1, <1>2, <1>3 DEF CopyStands, StackStands
  <1>5. NoLoop'
    <2>1. coref \in live => coref # p
      <3>1. IsKind(coref, "reference")
        BY <1>1 DEF IInv, ReferenceStands
      <3> QED
        BY <1>1, <3>1 DEF IsKind
    <2>2. Resolve(coref)' = Resolve(coref) /\ Len(stack) \in 1 .. Len(stack)
      BY <1>1, <1>2 DEF Resolve, Said
    <2> QED
      BY <1>1, <1>2, <1>3, <2>1, <2>2 DEF NoLoop
  <1> QED
    BY <1>1, <1>4, <1>5, CopyingStands

LEMMA CopyObjectStands ==
    ASSUME IInv, CopyObject
    PROVE  IInv'
  <1> DEFINE p  == First(stack[1].todo)
             s  == <<Without(p)>> \o Rest
             x  == TopOfTree(p, stack[1].filter)
             eq == Equals(temp, x)
  <1>1. /\ Copying /\ phase = "copy" /\ stack # << >> /\ stack[1].todo # {}
        /\ ~IsKind(p, "empty") /\ ~IsKind(p, "reference")
        /\ stack' = s /\ UNCHANGED <<wp, at, coref>>
        /\ IF eq = {} THEN temp' = temp \cup {x} /\ UNCHANGED <<live, phase>>
           ELSE /\ UNCHANGED temp
                /\ phase' = IF Below(p) = {} THEN phase ELSE "lost"
                /\ live' = (live \cup UNION {Merge(y.orig, p) : y \in eq}) \ Below(p)
    BY DEF CopyObject, Copying, heads, params
  <1>2. /\ CopyStands /\ NoLoop /\ Len(stack) \in Nat /\ Len(stack) >= 1
        /\ p \in stack[1].todo /\ p \in live /\ Front(p) = stack[1].at
        /\ PlacedIn(live, stack[1].at)
    BY <1>1, CopyingNow
  <1> HIDE DEF p
  <1>3. /\ s \in Seq(FrameOf(live)) /\ Len(s) = Len(stack)
        /\ \A k \in 1 .. Len(stack) :
             /\ s[k].at = stack[k].at
             /\ \A q \in stack[k].todo : q # p => q \in s[k].todo
             /\ PlacedIn(live, s[k].at) /\ s[k].todo \subseteq KidsIn(live, s[k].at)
    BY <1>1, WithoutStands
  <1>4. OfLevel(live, p)
    BY <1>1, <1>2 DEF OfLevel
  <1>5. TempIn(live, coref, x)
    <2>1. /\ DOMAIN x = {"orig", "name", "kind", "filter", "ref", "treeref", "appended", "by"}
          /\ x.orig = p /\ x.name = Said(p).name /\ x.kind = Said(p).kind
          /\ x.treeref = p /\ x.ref = coref
      BY DEF TopOfTree, Original
    <2> QED
      BY <1>4, <2>1 DEF TempIn
  <1>6. x.orig = p
    BY DEF TopOfTree, Original
  <1> HIDE DEF s, x, eq
  <1> SUFFICES ASSUME phase' # "lost" PROVE IInv'
    BY DEF IInv
  <1>7. UNCHANGED live /\ phase' = "copy" /\ temp' \subseteq temp \cup {x}
    <2>1. CASE eq = {}
      BY <1>1, <2>1
    <2>2. CASE eq # {}
      <3>1. Below(p) = {}
        BY <1>1, <2>2
      <3>2. \A y \in eq : Merge(y.orig, p) = {}
        BY <3>1 DEF Merge
      <3> QED
        BY <1>1, <2>2, <3>1, <3>2
    <2> QED
      BY <2>1, <2>2
  <1>8. CopyStands' /\ StackStands'
    BY <1>1, <1>2, <1>3, <1>5, <1>7 DEF CopyStands, StackStands
  <1>9. NoLoop'
    <2> SUFFICES ASSUME coref \in live
                 PROVE  /\ s[Len(s)].at = Resolve(coref)'
                        /\ (\E k \in 1 .. Len(s) : s[k].at = at) \/ (\E y \in temp' : Front(y.orig) = at)
                             => \E k \in 1 .. Len(s) : s[k].at = at /\ coref \in s[k].todo
      BY <1>1, <1>7 DEF NoLoop
    <2>1. coref # p
      BY <1>1 DEF IInv, ReferenceStands
    <2>2. Resolve(coref)' = Resolve(coref) /\ Len(stack) \in 1 .. Len(stack) /\ 1 \in 1 .. Len(stack)
      BY <1>1, <1>2 DEF Resolve, Said
    <2>3. stack[Len(stack)].at = Resolve(coref)
      BY <1>1, <1>2 DEF NoLoop
    <2>4. ASSUME (\E k \in 1 .. Len(s) : s[k].at = at) \/ (\E y \in temp' : Front(y.orig) = at)
          PROVE  \E k \in 1 .. Len(s) : s[k].at = at /\ coref \in s[k].todo
      <3>1. (\E k \in 1 .. Len(stack) : stack[k].at = at) \/ (\E y \in temp : Front(y.orig) = at)
        <4>1. Front(x.orig) = at => stack[1].at = at
          BY <1>2, <1>6
        <4> QED
          BY <1>3, <1>7, <2>2, <2>4, <4>1
      <3>2. PICK k \in 1 .. Len(stack) : stack[k].at = at /\ coref \in stack[k].todo
        BY <1>1, <1>2, <3>1 DEF NoLoop
      <3> QED
        BY <1>3, <2>1, <3>2
    <2> QED
      BY <1>3, <2>2, <2>3, <2>4
  <1> QED
    BY <1>1, <1>7, <1>8, <1>9, CopyingStands

LEMMA CopyReturnsStands ==
    ASSUME IInv, CopyReturns
    PROVE  IInv'
  <1>1. /\ Copying /\ phase = "copy" /\ stack # << >> /\ stack[1].todo = {}
        /\ stack' = Tail(stack) /\ UNCHANGED <<live, phase, temp, wp, at, coref>>
    BY DEF CopyReturns, Copying, heads, params, Rest
  <1>2. CopyStands /\ NoLoop /\ StackStands
    BY <1>1 DEF IInv
  <1>3. /\ stack \in Seq(FrameOf(live))
        /\ \A k \in 1 .. Len(stack) :
             PlacedIn(live, stack[k].at) /\ stack[k].todo \subseteq KidsIn(live, stack[k].at)
    BY <1>1, <1>2 DEF StackStands
  <1>4. Len(stack) \in Nat /\ Len(stack) >= 1
    BY <1>1, <1>3, EmptySeq
  <1> DEFINE s == Tail(stack)
  <1>5. /\ s \in Seq(FrameOf(live)) /\ Len(s) = Len(stack) - 1
        /\ \A k \in 1 .. Len(s) : s[k] = stack[k + 1] /\ k + 1 \in 1 .. Len(stack)
    BY <1>3, <1>4
  <1>6. s # << >> => Len(s) \in Nat \ {0}
    BY <1>5, EmptySeq
  <1>7. stack' = s
    BY <1>1
  <1> HIDE DEF s
  <1>8. CopyStands' /\ StackStands'
    BY <1>1, <1>2, <1>3, <1>5, <1>7 DEF CopyStands, StackStands
  <1>9. NoLoop'
    <2> SUFFICES ASSUME coref \in live
                 PROVE  /\ s # << >> => s[Len(s)].at = Resolve(coref)'
                        /\ (\E k \in 1 .. Len(s) : s[k].at = at) \/ (\E y \in temp : Front(y.orig) = at)
                             => \E k \in 1 .. Len(s) : s[k].at = at /\ coref \in s[k].todo
      BY <1>1, <1>7 DEF NoLoop
    <2>1. Resolve(coref)' = Resolve(coref)
      BY <1>1 DEF Resolve, Said
    <2>2. stack[Len(stack)].at = Resolve(coref)
      BY <1>1, <1>2 DEF NoLoop
    <2>3. s # << >> => s[Len(s)].at = Resolve(coref)
      <3> SUFFICES ASSUME s # << >> PROVE s[Len(s)] = stack[Len(stack)]
        BY <2>2
      <3>1. Len(s) \in 1 .. Len(s) /\ Len(s) + 1 = Len(stack)
        BY <1>4, <1>5, <1>6
      <3> QED
        BY <1>5, <3>1
    <2>4. ASSUME (\E k \in 1 .. Len(s) : s[k].at = at) \/ (\E y \in temp : Front(y.orig) = at)
          PROVE  \E k \in 1 .. Len(s) : s[k].at = at /\ coref \in s[k].todo
      <3>1. (\E k \in 1 .. Len(stack) : stack[k].at = at) \/ (\E y \in temp : Front(y.orig) = at)
        BY <1>5, <2>4
      <3>2. PICK k \in 1 .. Len(stack) : stack[k].at = at /\ coref \in stack[k].todo
        BY <1>1, <1>2, <3>1 DEF NoLoop
      <3>3. k # 1
        BY <1>1, <3>2
      <3>4. k - 1 \in 1 .. Len(s) /\ (k - 1) + 1 = k
        BY <1>4, <1>5, <3>3
      <3>5. s[k - 1] = stack[k]
        BY <1>5, <3>4
      <3> QED
        BY <3>2, <3>4, <3>5
    <2> QED
      BY <2>1, <2>3, <2>4
  <1> QED
    BY <1>1, <1>8, <1>9, CopyingStands

LEMMA CopyReferenceStands ==
    ASSUME IInv, CopyReference
    PROVE  IInv'
  <1> DEFINE p == First(stack[1].todo)
             f == Without(p)
             g == Frame(p, Merged(RulesOf(p), stack[1].filter))
             s == <<g, f>> \o Tail(stack)
  <1>1. /\ Copying /\ phase = "copy" /\ stack # << >> /\ stack[1].todo # {}
        /\ IsKind(p, "reference") /\ Resolves(p)
        /\ IF Resolve(p) \in Entered THEN phase' = "crashed" /\ UNCHANGED stack
           ELSE stack' = s /\ UNCHANGED phase
        /\ UNCHANGED <<live, temp, wp, at, coref>>
    BY DEF CopyReference, Copying, heads, params, Rest
  <1>2. /\ CopyStands /\ NoLoop /\ Len(stack) \in Nat /\ Len(stack) >= 1 /\ ClosedIn(live)
        /\ stack \in Seq(FrameOf(live))
        /\ p \in stack[1].todo /\ p \in live /\ Front(p) = stack[1].at
        /\ PointsStand /\ stack[1].filter \in RulesType
    BY <1>1, CopyingNow
  <1> HIDE DEF p
  <1>3. CASE Resolve(p) \in Entered
    <2>1. phase' = "crashed" /\ CopyStands'
      BY <1>1, <1>2, <1>3 DEF CopyStands
    <2>2. StackStands' /\ NoLoop'
      BY <2>1 DEF StackStands, NoLoop
    <2> QED
      BY <1>1, <2>1, <2>2, CopyingStands
  <1>4. CASE Resolve(p) \notin Entered
    <2>1. /\ g \in FrameOf(live) /\ g.at = Resolve(p) /\ PlacedIn(live, g.at)
          /\ g.todo = KidsIn(live, Resolve(p))
      <3>1. p[Len(p)] \in Id
        BY <1>2, ReferenceIsKnown
      <3> QED
        BY <1>1, <1>2, <3>1, RulesAreRules, FrameStands
    <2> DEFINE r == <<Without(p)>> \o Rest
    <2>2. /\ f \in FrameOf(live) /\ f.at = stack[1].at /\ f.todo = stack[1].todo \ {p}
          /\ r[1] = f /\ \A k \in 2 .. Len(stack) : r[k] = stack[k]
          /\ \A k \in 1 .. Len(stack) :
                /\ r[k].at = stack[k].at
                /\ \A q \in stack[k].todo : q # p => q \in r[k].todo
                /\ PlacedIn(live, r[k].at) /\ r[k].todo \subseteq KidsIn(live, r[k].at)
      BY <1>1, WithoutStands
    <2> HIDE DEF f, g, r
    <2>3. /\ s \in Seq(FrameOf(live)) /\ Len(s) = Len(stack) + 1
          /\ s[1] = g /\ s[2] = f
          /\ \A k \in 2 .. Len(stack) : s[k + 1] = stack[k]
      BY <1>1, <1>2, <2>1, <2>2, TopPushed
    <2> HIDE DEF s
    <2>4. \A k \in 1 .. Len(stack) : s[k + 1] = r[k]
      <3>1. \A k \in 1 .. Len(stack) : k = 1 \/ k \in 2 .. Len(stack)
        BY <1>2
      <3>2. 1 + 1 = 2
        OBVIOUS
      <3> QED
        BY <2>2, <2>3, <3>1, <3>2
    <2>5. \A k \in 1 .. Len(s) : k = 1 \/ (k - 1 \in 1 .. Len(stack) /\ (k - 1) + 1 = k)
      BY <1>2, <2>3
    <2>6. \A k \in 1 .. Len(s) : PlacedIn(live, s[k].at) /\ s[k].todo \subseteq KidsIn(live, s[k].at)
      <3> TAKE k \in 1 .. Len(s)
      <3>1. CASE k = 1
        BY <2>1, <2>3, <3>1
      <3>2. CASE k # 1
        <4>1. k - 1 \in 1 .. Len(stack) /\ (k - 1) + 1 = k
          BY <2>5, <3>2
        <4>2. s[k] = r[k - 1]
          BY <2>4, <4>1
        <4> QED
          BY <2>2, <4>1, <4>2
      <3> QED
        BY <3>1, <3>2
    <2>7. stack' = s /\ phase' = "copy"
      BY <1>1, <1>4
    <2>8. CopyStands' /\ StackStands'
      BY <1>1, <1>2, <2>3, <2>6, <2>7 DEF CopyStands, StackStands
    <2>9. NoLoop'
      <3> SUFFICES ASSUME coref \in live
                   PROVE  /\ s[Len(s)].at = Resolve(coref)'
                          /\ (\E k \in 1 .. Len(s) : s[k].at = at) \/ (\E y \in temp : Front(y.orig) = at)
                               => \E k \in 1 .. Len(s) : s[k].at = at /\ coref \in s[k].todo
        BY <1>1, <2>7 DEF NoLoop
      <3>1. Resolve(coref)' = Resolve(coref)
        BY <1>1 DEF Resolve, Said
      <3>2. stack[Len(stack)].at = Resolve(coref) /\ Len(stack) \in 1 .. Len(stack)
        BY <1>1, <1>2 DEF NoLoop
      <3>3. s[Len(s)].at = Resolve(coref)
        BY <2>2, <2>3, <2>4, <3>2
      <3>4. coref # p
        <4>1. DOMAIN stack = 1 .. Len(stack)
          BY <1>2
        <4>2. Resolve(coref) \in Entered
          BY <3>2, <4>1 DEF Entered
        <4> QED
          BY <1>4, <4>2
      <3>5. coref \in KidsIn(live, at)
        <4>1. coref \notin Pipes
          BY <1>2, PathOfObject
        <4> QED
          BY <1>1, <4>1 DEF IInv, ReferenceStands
      <3>6. ASSUME (\E k \in 1 .. Len(s) : s[k].at = at) \/ (\E y \in temp : Front(y.orig) = at)
            PROVE  \E k \in 1 .. Len(s) : s[k].at = at /\ coref \in s[k].todo
        <4>1. CASE g.at = at
          <5>1. 1 \in 1 .. Len(s) /\ s[1].at = at /\ coref \in s[1].todo
            BY <1>2, <2>1, <2>3, <3>5, <4>1
          <5> QED
            BY <5>1
        <4>2. CASE g.at # at
          <5>1. (\E k \in 1 .. Len(stack) : stack[k].at = at) \/ (\E y \in temp : Front(y.orig) = at)
            <6>1. ASSUME NEW k \in 1 .. Len(s), s[k].at = at
                  PROVE  \E i \in 1 .. Len(stack) : stack[i].at = at
              <7>1. k # 1
                BY <2>3, <4>2, <6>1
              <7>2. k - 1 \in 1 .. Len(stack) /\ (k - 1) + 1 = k
                BY <2>5, <7>1
              <7>3. stack[k - 1].at = at
                BY <2>2, <2>4, <6>1, <7>2
              <7> QED
                BY <7>2, <7>3
            <6> QED
              BY <3>6, <6>1
          <5>2. PICK k \in 1 .. Len(stack) : stack[k].at = at /\ coref \in stack[k].todo
            BY <1>1, <1>2, <5>1 DEF NoLoop
          <5>3. r[k].at = at /\ coref \in r[k].todo
            BY <2>2, <3>4, <5>2
          <5>4. k + 1 \in 1 .. Len(s) /\ s[k + 1] = r[k]
            BY <1>2, <2>3, <2>4
          <5> QED
            BY <5>3, <5>4
        <4> QED
          BY <4>1, <4>2
      <3> QED
        BY <3>1, <3>3, <3>6
    <2> QED
      BY <1>1, <2>7, <2>8, <2>9, CopyingStands
  <1> QED
    BY <1>3, <1>4

LEMMA EndOfCopyStands ==
    ASSUME IInv, EndOfCopy
    PROVE  IInv'
  <1>1. /\ phase = "copy" /\ stack = << >> /\ phase' = "temp"
        /\ UNCHANGED <<live, wp, active, at, copipe, todo, coref, stack, temp, level>>
    BY DEF EndOfCopy, heads, params
  <1>2. /\ TreesStand /\ PointsStand /\ ParamsStand /\ LevelStands
        /\ CopyStands /\ ReferenceStands /\ NoLoop
    BY <1>1 DEF IInv
  <1>3. TreesStand' /\ PointsStand' /\ ParamsStand' /\ CopyStands'
    BY <1>1, <1>2 DEF TreesStand, PointsStand, ParamsStand, CopyStands, Pipes
  <1>4. LevelStands' /\ ReferenceStands' /\ StackStands'
    BY <1>1, <1>2 DEF LevelStands, ReferenceStands, StackStands, IsKind, Said, Pipes
  <1>5. NoLoop'
    <2> SUFFICES ASSUME coref \in live, NEW x \in temp PROVE Front(x.orig) # at
      BY <1>1 DEF NoLoop
    <2>1. ~\E k \in 1 .. Len(stack) : stack[k].at = at /\ coref \in stack[k].todo
      <3>1. Len(stack) = 0
        BY <1>1
      <3> QED
        BY <3>1
    <2> QED
      BY <1>1, <1>2, <2>1 DEF NoLoop
  <1> QED
    BY <1>3, <1>4, <1>5 DEF IInv

LEMMA EndStands ==
    ASSUME IInv, EndOfReference \/ EndOfLevel
    PROVE  IInv'
  <1>1. /\ phase \in {"level", "temp"} /\ phase' \in {"level", "done"}
        /\ UNCHANGED <<live, wp, active, at, copipe, todo, coref, stack, temp, level>>
    BY DEF EndOfReference, EndOfLevel, heads, params
  <1>2. TreesStand /\ PointsStand /\ ParamsStand /\ LevelStands /\ CopyStands
    BY <1>1 DEF IInv
  <1>3. TreesStand' /\ PointsStand' /\ ParamsStand' /\ CopyStands'
    BY <1>1, <1>2 DEF TreesStand, PointsStand, ParamsStand, CopyStands, Pipes
  <1>4. LevelStands'
    BY <1>1, <1>2 DEF LevelStands
  <1>5. ReferenceStands' /\ StackStands' /\ NoLoop'
    BY <1>1 DEF ReferenceStands, StackStands, NoLoop
  <1> QED
    BY <1>3, <1>4, <1>5 DEF IInv

----------------------------------------------------------------------------
(* An object of the level or of the copy is dealt with                     *)

LEMMA LevelNow ==
    ASSUME IInv, NEW x, Item(x)
    PROVE  /\ phase # "lost"
           /\ ClosedIn(live) /\ \A y \in level : ShadowIn(live, at, y)
  <1>1. phase \in {"level", "temp"}
    BY DEF Item
  <1> QED
    BY <1>1 DEF IInv, TreesStand, LevelStands

LEMMA SkipObjectStands ==
    ASSUME IInv, NEW x, SkipObject(x)
    PROVE  IInv'
  <1>1. Item(x) /\ Advance(x) /\ UNCHANGED <<live, level>>
    BY DEF SkipObject
  <1>2. phase # "lost" /\ ClosedIn(live) /\ \A y \in level : ShadowIn(live, at, y)
    BY <1>1, LevelNow
  <1> QED
    BY <1>1, <1>2, AdvanceStands

(* The children of the shadows of a level take up those of one more.       *)
LEMMA AbsorbedStands ==
    ASSUME IInv, NEW x, Item(x), NEW eq \in SUBSET level, Absorbed(x, eq)
    PROVE  live \subseteq live' /\ ClosedIn(live')
  <1> DEFINE Y == {y.orig : y \in eq}
  <1>1. live' = live \cup UNION {Merge(p, x.orig) : p \in Y}
    BY DEF Absorbed, KeepsChildren
  <1>2. phase # "lost" /\ ClosedIn(live) /\ \A y \in level : ShadowIn(live, at, y)
    BY LevelNow
  <1>3. Y \subseteq live
    BY <1>2 DEF ShadowIn, OfLevel
  <1>4. x.orig \in live
    BY <1>2, ItemStands
  <1> HIDE DEF Y
  <1>5. ClosedIn(live \cup UNION {Merge(p, x.orig) : p \in Y})
    BY <1>2, <1>3, <1>4, MergedIsClosed
  <1> QED
    BY <1>1, <1>5

LEMMA CopyItemStands ==
    ASSUME IInv, NEW x, CopyItem(x)
    PROVE  IInv'
  <1>1. Item(x) /\ Advance(x) /\ x.kind \in {"empty", "command", "variable"}
    BY DEF CopyItem
  <1>2. phase # "lost" /\ ClosedIn(live) /\ \A y \in level : ShadowIn(live, at, y)
    BY <1>1, LevelNow
  <1>3. CASE level' = level \cup {Shadow(x)} /\ UNCHANGED live
    <2>1. /\ DOMAIN x = Fields /\ x.name = Said(x.orig).name /\ x.kind = Said(x.orig).kind
      BY <1>1, <1>2, ItemStands
    <2> DEFINE y == Shadow(x)
    <2>2. /\ DOMAIN y = Fields /\ y.orig = x.orig /\ y.treeref = x.treeref
          /\ y.name = x.name /\ y.kind = x.kind
          /\ y.ref = x.orig \/ x.treeref # NULL
      BY <2>1 DEF Shadow, Fields, Transient
    <2>3. <<y.name, y.kind>> \in Spells(x.orig)
      BY <1>1, <2>1, <2>2 DEF Spells
    <2> HIDE DEF y
    <2>4. ShadowIn(live, at, y)
      BY <1>1, <1>2, <2>2, <2>3, ShadowOfItem
    <2>5. \A z \in level' : ShadowIn(live', at, z)
      BY <1>2, <1>3, <2>4 DEF y
    <2> QED
      BY <1>1, <1>2, <1>3, <2>5, AdvanceStands
  <1>4. ASSUME NEW y \in Equals(level, x),
               level' = (level \ {y}) \cup {Taken(y, x)}, Absorbed(x, {y})
        PROVE  IInv'
    <2>1. y \in level /\ Same(x, y)
      BY <1>4 DEF Equals
    <2>2. live \subseteq live' /\ ClosedIn(live')
      BY <1>1, <1>4, <2>1, AbsorbedStands
    <2>3. ShadowIn(live, at, Taken(y, x))
      BY <1>1, <1>2, <2>1, TakenStands
    <2>4. \A z \in level' : ShadowIn(live, at, z)
      BY <1>2, <1>4, <2>3
    <2>5. \A z \in level' : ShadowIn(live', at, z)
      BY <2>2, <2>4, ShadowStays
    <2> QED
      BY <1>1, <1>2, <2>2, <2>5, AdvanceStands
  <1> QED
    BY <1>3, <1>4 DEF CopyItem

(* A word of a choice or of a callback is a shadow of its object.          *)
LEMMA WordStands ==
    ASSUME IInv, NEW x, Item(x), x.kind \in {"choice", "expand"},
           NEW w \in Said(x.orig).words,
           NEW y, DOMAIN y = Fields, y.orig = x.orig, y.treeref = x.treeref,
           y.ref = x.orig \/ x.treeref # NULL, y.name = w, y.kind = "command"
    PROVE  ShadowIn(live, at, y)
  <1>1. phase # "lost"
    BY LevelNow
  <1>2. x.kind = Said(x.orig).kind
    BY <1>1, ItemStands
  <1>3. <<y.name, y.kind>> \in Spells(x.orig)
    BY <1>2 DEF Spells
  <1> QED
    BY <1>1, <1>3, ShadowOfItem

LEMMA ChoiceItemStands ==
    ASSUME IInv, NEW x, ChoiceItem(x)
    PROVE  IInv'
  <1> DEFINE word(w) == [AsCommand(x, w) EXCEPT !.ref = ChoiceRef(x)]
             words == {word(w) : w \in Said(x.orig).words}
  <1>1. /\ Item(x) /\ Advance(x) /\ x.kind = "choice"
        /\ \E missed \in SUBSET words, eq \in SUBSET level :
             level' = level \cup missed /\ Absorbed(x, eq)
    BY DEF ChoiceItem
  <1>0. PICK missed \in SUBSET words, eq \in SUBSET level :
           level' = level \cup missed /\ Absorbed(x, eq)
    BY <1>1
  <1>2. phase # "lost" /\ ClosedIn(live) /\ \A y \in level : ShadowIn(live, at, y)
    BY <1>1, LevelNow
  <1>3. DOMAIN x = Fields
    BY <1>1, <1>2, ItemStands
  <1>4. ASSUME NEW w \in Said(x.orig).words PROVE ShadowIn(live, at, word(w))
    <2> DEFINE y == word(w)
    <2>1. /\ DOMAIN y = Fields /\ y.orig = x.orig /\ y.treeref = x.treeref
          /\ y.ref = x.orig \/ x.treeref # NULL
          /\ y.name = w /\ y.kind = "command"
      BY <1>3 DEF AsCommand, Shadow, ChoiceRef, Transient, Fields
    <2> HIDE DEF y
    <2>2. ShadowIn(live, at, y)
      BY <1>1, <2>1, WordStands
    <2> QED
      BY <2>2 DEF y
  <1> HIDE DEF word
  <1>6. \A y \in level' : ShadowIn(live, at, y)
    BY <1>0, <1>2, <1>4
  <1> HIDE DEF words
  <1>7. live \subseteq live' /\ ClosedIn(live')
    BY <1>0, <1>1, AbsorbedStands
  <1>8. \A y \in level' : ShadowIn(live', at, y)
    BY <1>6, <1>7, ShadowStays
  <1> QED
    BY <1>1, <1>2, <1>7, <1>8, AdvanceStands

LEMMA CallbackItemStands ==
    ASSUME IInv, NEW x, CallbackItem(x)
    PROVE  IInv'
  <1> DEFINE word(w) == [AsCommand(x, w) EXCEPT !.appended = TRUE]
  <1>1. Item(x) /\ Advance(x) /\ x.kind = "expand" /\ UNCHANGED live
    BY DEF CallbackItem
  <1>2. PICK W \in SUBSET Said(x.orig).words : level' = level \cup {word(w) : w \in W}
    BY DEF CallbackItem
  <1>3. phase # "lost" /\ ClosedIn(live) /\ \A y \in level : ShadowIn(live, at, y)
    BY <1>1, LevelNow
  <1>4. DOMAIN x = Fields
    BY <1>1, <1>3, ItemStands
  <1>5. ASSUME NEW w \in W PROVE ShadowIn(live, at, word(w))
    <2> DEFINE y == word(w)
    <2>1. /\ DOMAIN y = Fields /\ y.orig = x.orig /\ y.treeref = x.treeref
          /\ y.ref = x.orig \/ x.treeref # NULL
          /\ y.name = w /\ y.kind = "command"
      BY <1>4 DEF AsCommand, Shadow, Transient, Fields
    <2>2. w \in Said(x.orig).words
      BY <1>5
    <2> HIDE DEF y
    <2>3. ShadowIn(live, at, y)
      BY <1>1, <2>1, <2>2, WordStands
    <2> QED
      BY <2>3 DEF y
  <1> HIDE DEF word
  <1>6. \A y \in level' : ShadowIn(live', at, y)
    BY <1>1, <1>2, <1>3, <1>5
  <1> QED
    BY <1>1, <1>3, <1>6, AdvanceStands

LEMMA CallbackFailsStands ==
    ASSUME IInv, NEW x, CallbackFails(x)
    PROVE  IInv'
  <1>1. Item(x) /\ Fails /\ UNCHANGED live
    BY DEF CallbackFails
  <1>2. phase # "lost"
    BY <1>1, LevelNow
  <1> QED
    BY <1>1, <1>2, FailsStands

----------------------------------------------------------------------------
(***************************************************************************)
(* Results                                                                 *)
(***************************************************************************)

(* After an object of the tree was freed the model goes no further.        *)
LEMMA LostIsFinal ==
    ASSUME [Next]_vars, phase = "lost"
    PROVE  phase' = "lost"
  <1>1. CASE Next
    <2>1. ~Steps
      BY DEF Steps, LevelReference, NoSuchTree, CopyEmpty, CopyReference, CopyObject,
             CopyReturns, Copying, EndOfCopy, EndOfReference, EndOfLevel, SkipObject,
             CopyItem, ChoiceItem, CallbackItem, CallbackFails, Item
    <2> QED
      BY <1>1, <2>1 DEF Next, ExpandTop, NoActive, ExpandChild, EndOfCommand,
                        WpSet, WpUp, WpTop, Activate
  <1> QED
    BY <1>1 DEF vars

LEMMA StepStands ==
    ASSUME IInv, phase # "lost", Steps
    PROVE  IInv'
  <1>1. CASE LevelReference \/ NoSuchTree
    BY <1>1, LevelReferenceStands, NoSuchTreeStands
  <1>2. CASE CopyEmpty \/ CopyReference \/ CopyObject \/ CopyReturns
    BY <1>2, CopyEmptyStands, CopyReferenceStands, CopyObjectStands, CopyReturnsStands
  <1>3. CASE EndOfCopy \/ EndOfReference \/ EndOfLevel
    BY <1>3, EndOfCopyStands, EndStands
  <1>4. ASSUME NEW x \in temp \cup {Original(p) : p \in todo},
               SkipObject(x) \/ CopyItem(x) \/ ChoiceItem(x) \/ CallbackItem(x) \/ CallbackFails(x)
        PROVE  IInv'
    BY <1>4, SkipObjectStands, CopyItemStands, ChoiceItemStands, CallbackItemStands,
       CallbackFailsStands
  <1> QED
    BY <1>1, <1>2, <1>3, <1>4 DEF Steps

LEMMA NextStands == IInv /\ [Next]_vars => IInv'
  <1> SUFFICES ASSUME IInv, [Next]_vars, phase # "lost" PROVE IInv'
    BY LostIsFinal DEF IInv
  <1>1. CASE ExpandTop
    BY <1>1, ExpandTopStands
  <1>2. ASSUME NEW x \in level, ExpandChild(x) PROVE IInv'
    BY <1>2, ExpandChildStands
  <1>3. CASE Steps
    BY <1>3, StepStands
  <1>4. CASE \/ NoActive \/ EndOfCommand
             \/ \E t \in Tree : WpUp(t) \/ WpTop(t)
             \/ \E name \in Tree \cup {Unknown} : Activate(name)
    BY <1>4, QuietStands
  <1>5. ASSUME NEW t \in Tree, WpSet(t) PROVE IInv'
    BY <1>5, WpSetStands
  <1>6. CASE UNCHANGED vars
    <2>1. UNCHANGED <<live, wp, active, phase, at, copipe, todo, coref, stack, temp, level>>
      BY <1>6 DEF vars, heads, params
    <2> QED
      BY <2>1 DEF IInv, TreesStand, PointsStand, ParamsStand, LevelStands, CopyStands,
                  ReferenceStands, StackStands, NoLoop, Resolve, IsKind, Said, Pipes
  <1> QED
    BY <1>1, <1>2, <1>3, <1>4, <1>5, <1>6 DEF Next

LEMMA ExpandInvariant == Spec => []IInv
  BY InitStands, NextStands, PTL DEF Spec

(* No expansion, choice or callback of any command takes an object of the  *)
(* parser out of the trees: what pt_expand1_co merges into an equal object *)
(* is added there, and what is freed are the shadows.                      *)
THEOREM TreesCorrect == Spec => []NothingLost
  <1>1. IInv => NothingLost
    BY DEF IInv, TreesStand, NothingLost
  <1> QED
    BY <1>1, ExpandInvariant, PTL

(* A working point that cligen_wp_set has set is an object of a tree, and  *)
(* a reference only where an object of the level equals one that the       *)
(* reference reaches.                                                      *)
THEOREM WorkpointsCorrect == Spec => []WorkpointStands
  <1>1. IInv => WorkpointStands
    <2> SUFFICES ASSUME IInv, phase # "lost", NEW t \in Tree, wp[t] # NULL
                 PROVE  /\ wp[t] \in live \cup Pipes
                        /\ IsKind(wp[t], "reference") => Doubled(wp[t])
      BY DEF WorkpointStands
    <2> DEFINE p == wp[t]
    <2>1. PlacedIn(live, p) /\ Len(p) >= 2
      BY DEF IInv, PointsStand
    <2> HIDE DEF p
    <2>2. p \in Seq(Name) /\ p \in live \cup Pipes /\ Len(p) \in 2 .. Len(p)
      BY <2>1 DEF PlacedIn
    <2>3. SubSeq(p, 1, Len(p)) = p
      BY <2>1, <2>2, WholePath
    <2>4. IsKind(p, "reference") => DoubledIn(live, p)
      BY <2>1, <2>2, <2>3 DEF PlacedIn
    <2> QED
      BY <2>2, <2>4, DoubledHere DEF p
  <1> QED
    BY <1>1, ExpandInvariant, PTL

------------------------------------------------------------------------------
(***************************************************************************)
(* What a level offers.  A source is a place that a reference leads to,    *)
(* with the rules of all references on the way to it.                      *)
(***************************************************************************)
TreeAt(w, t) == IF w[t] = NULL THEN <<t>> ELSE w[t]
PlaceOf(w, r) == TreeAt(w, Wrapper[Said(r).tree])
SourceOf(w, r, outer) == [at |-> PlaceOf(w, r), rule |-> Merged(RulesOf(r), outer)]

Linked(L, w, s, z) ==
    \E r \in KidsIn(L, s.at) :
        IsKind(r, "reference") /\ z = SourceOf(w, r, s.rule)
Leads(L, w, q, c, d) ==
    c[0] = SourceOf(w, q, NoRules) /\ \A i \in 1 .. d : Linked(L, w, c[i - 1], c[i])
Reached(L, w, q, a, rule) ==
    \E d \in 0 .. Cardinality(Tree) : \E c :
        Leads(L, w, q, c, d) /\ c[d] = [at |-> a, rule |-> rule]

SourcesTo(q, n, f) ==
    f = [d \in 0 .. n |->
           IF d = 0 THEN {Source(q, NoRules)}
           ELSE f[d - 1] \cup UNION {{Source(r, s.rule) : r \in Refs(s.at)} : s \in f[d - 1]}]

Further(S) == S \cup UNION {{Source(r, s.rule) : r \in Refs(s.at)} : s \in S}
\* f is what Sources goes through
Grows(q, n, f) ==
    /\ Sources(q) = f[n] /\ f[0] = {Source(q, NoRules)}
    /\ \A d \in 0 .. n : d # 0 => f[d] = Further(f[d - 1])

LEMMA SourcesExist ==
    ASSUME NEW q
    PROVE  \A n \in Nat : \E f : SourcesTo(q, n, f)
  <1> DEFINE first == {Source(q, NoRules)}
             S == {n \in Nat : \E f : f = [d \in 0 .. n |-> IF d = 0 THEN first ELSE Further(f[d - 1])]}
  <1> HIDE DEF first
  <1>1. 0 \in S
    <2> DEFINE f == [d \in 0 .. 0 |-> first]
    <2>1. f = [d \in 0 .. 0 |-> IF d = 0 THEN first ELSE Further(f[d - 1])]
      OBVIOUS
    <2> HIDE DEF f
    <2> QED
      BY <2>1
  <1>2. ASSUME NEW n \in Nat, n \in S PROVE n + 1 \in S
    <2>1. PICK f : f = [d \in 0 .. n |-> IF d = 0 THEN first ELSE Further(f[d - 1])]
      BY <1>2
    <2>2. \A d \in 0 .. n : f[d] = IF d = 0 THEN first ELSE Further(f[d - 1])
      BY <2>1
    <2> DEFINE g == [d \in 0 .. n + 1 |-> IF d <= n THEN f[d] ELSE Further(f[n])]
               E(d) == IF d = 0 THEN first ELSE Further(g[d - 1])
    <2>3. ASSUME NEW d \in 0 .. n + 1 PROVE g[d] = E(d)
      <3>1. CASE d = 0
        BY <2>2, <3>1
      <3>2. CASE d \in 1 .. n
        <4>1. d \in 0 .. n + 1 /\ d - 1 \in 0 .. n + 1 /\ d <= n /\ d - 1 <= n /\ d # 0
              /\ d \in 0 .. n
          BY <3>2
        <4>2. g[d] = f[d] /\ g[d - 1] = f[d - 1]
          BY <4>1
        <4> QED
          BY <2>2, <4>1, <4>2
      <3>3. CASE d = n + 1
        <4>1. n \in 0 .. n + 1 /\ n <= n /\ ~(d <= n) /\ d # 0 /\ d - 1 = n
          BY <3>3
        <4>2. g[d] = Further(f[n]) /\ g[n] = f[n]
          BY <4>1
        <4> QED
          BY <3>3, <4>1, <4>2
      <3> QED
        BY <3>1, <3>2, <3>3
    <2>4. g = [d \in 0 .. n + 1 |-> g[d]]
      OBVIOUS
    <2> HIDE DEF g
    <2>5. g = [d \in 0 .. n + 1 |-> E(d)]
      BY <2>3, <2>4
    <2> QED
      BY <2>5
  <1> HIDE DEF S
  <1>3. \A n \in Nat : n \in S
    BY <1>1, <1>2, SetInduction
  <1> QED
    BY <1>3, Zenon DEF S, SourcesTo, Further, first

LEMMA SourcesGrow ==
    ASSUME NEW q, NEW n \in Nat, n = Cardinality(Tree)
    PROVE  \E f : Grows(q, n, f)
  <1> DEFINE f == CHOOSE g : SourcesTo(q, n, g)
  <1>1. SourcesTo(q, n, f)
    BY SourcesExist, Zenon
  <1>2. Sources(q) = f[n]
    BY Zenon DEF Sources, SourcesTo
  <1> HIDE DEF f
  <1> DEFINE E(d) == IF d = 0 THEN {Source(q, NoRules)} ELSE Further(f[d - 1])
  <1>3. f = [d \in 0 .. n |-> E(d)]
    BY <1>1, Zenon DEF SourcesTo, Further
  <1> HIDE DEF E
  <1>4. \A d \in 0 .. n : f[d] = E(d)
    BY <1>3, Zenon
  <1>5. 0 \in 0 .. n
    OBVIOUS
  <1>6. f[0] = {Source(q, NoRules)} /\ \A d \in 0 .. n : d # 0 => f[d] = Further(f[d - 1])
    BY <1>4, <1>5, Zenon DEF E
  <1> QED
    BY <1>2, <1>6, Zenon DEF Grows

(* What a way of references leads to is one of the sources.                *)
LEMMA ReachedIsSource ==
    ASSUME NEW q, NEW a, NEW rule, Reached(live, wp, q, a, rule)
    PROVE  [at |-> a, rule |-> rule] \in Sources(q)
  <1> DEFINE n == Cardinality(Tree)
  <1>1. n \in Nat
    BY ObjectAssumption, FS_CardinalityType
  <1> HIDE DEF n
  <1>2. PICK f : Grows(q, n, f)
    BY <1>1, SourcesGrow DEF n
  <1>3. PICK d \in 0 .. n : \E c : Leads(live, wp, q, c, d) /\ c[d] = [at |-> a, rule |-> rule]
    BY DEF Reached, n
  <1>4. PICK c : Leads(live, wp, q, c, d) /\ c[d] = [at |-> a, rule |-> rule]
    BY <1>3
  <1>5. d \in Nat /\ d <= n
    BY <1>1
  <1>6. ASSUME NEW i \in Nat, i < n PROVE f[i] \subseteq f[i + 1]
    <2>1. i + 1 \in 0 .. n /\ i + 1 # 0 /\ (i + 1) - 1 = i
      BY <1>1, <1>6
    <2>2. f[i + 1] = Further(f[i])
      BY <1>2, <2>1 DEF Grows
    <2> QED
      BY <2>2 DEF Further
  <1>7. c[0] = SourceOf(wp, q, NoRules) /\ \A i \in 1 .. d : Linked(live, wp, c[i - 1], c[i])
    BY <1>4 DEF Leads
  <1> DEFINE S == {i \in Nat : i <= d => c[i] \in f[i]}
             T == {i \in Nat : d + i <= n => c[d] \in f[d + i]}
  <1>8. 0 \in S
    BY <1>2, <1>7 DEF SourceOf, Source, PlaceOf, TreeAt, Resolve, Grows
  <1>9. ASSUME NEW i \in Nat, i \in S PROVE i + 1 \in S
    <2> SUFFICES ASSUME i + 1 <= d PROVE c[i + 1] \in f[i + 1]
      OBVIOUS
    <2>1. i + 1 \in 1 .. d /\ (i + 1) - 1 = i /\ i + 1 \in 0 .. n /\ i + 1 # 0 /\ i <= d
      BY <1>1, <1>5
    <2>2. c[i] \in f[i] /\ Linked(live, wp, c[i], c[i + 1])
      BY <1>7, <1>9, <2>1
    <2>3. PICK r \in KidsIn(live, c[i].at) :
             IsKind(r, "reference") /\ c[i + 1] = SourceOf(wp, r, c[i].rule)
      BY <2>2 DEF Linked
    <2>4. r \in Refs(c[i].at)
      BY <2>3 DEF Refs, Kids, KidsIn
    <2>5. c[i + 1] = Source(r, c[i].rule)
      BY <2>3 DEF SourceOf, Source, PlaceOf, TreeAt, Resolve
    <2>6. f[i + 1] = Further(f[i])
      BY <1>2, <2>1 DEF Grows
    <2>7. Source(r, c[i].rule) \in Further(f[i])
      <3>1. Source(r, c[i].rule) \in {Source(u, c[i].rule) : u \in Refs(c[i].at)}
        BY <2>4
      <3> QED
        BY <2>2, <3>1, Zenon DEF Further
    <2> QED
      BY <2>5, <2>6, <2>7
  <1>10. 0 \in T
    <2>1. \A i \in Nat : i \in S
      <3> HIDE DEF S
      <3> QED
        BY <1>8, <1>9, SetInduction
    <2>2. d + 0 = d /\ d <= d
      BY <1>5
    <2> QED
      BY <1>5, <2>1, <2>2
  <1>11. ASSUME NEW i \in Nat, i \in T PROVE i + 1 \in T
    <2> SUFFICES ASSUME d + (i + 1) <= n PROVE c[d] \in f[d + (i + 1)]
      OBVIOUS
    <2>1. d + i \in Nat /\ d + i < n /\ d + i <= n /\ (d + i) + 1 = d + (i + 1)
      BY <1>1, <1>5
    <2> QED
      BY <1>6, <1>11, <2>1
  <1>12. \A i \in Nat : i \in T
    <2> HIDE DEF T
    <2> QED
      BY <1>10, <1>11, SetInduction
  <1>13. n - d \in Nat /\ d + (n - d) = n
    BY <1>1, <1>5
  <1> QED
    BY <1>2, <1>4, <1>12, <1>13 DEF Grows

LEMMA ReachedStays ==
    ASSUME NEW L, NEW M, L \subseteq M, NEW w, NEW q, NEW a, NEW rule, Reached(L, w, q, a, rule)
    PROVE  Reached(M, w, q, a, rule)
  <1>1. PICK d \in 0 .. Cardinality(Tree) :
           \E c : Leads(L, w, q, c, d) /\ c[d] = [at |-> a, rule |-> rule]
    BY DEF Reached
  <1>2. PICK c : Leads(L, w, q, c, d) /\ c[d] = [at |-> a, rule |-> rule]
    BY <1>1
  <1>3. Leads(M, w, q, c, d)
    BY <1>2 DEF Leads, Linked, KidsIn
  <1> QED
    BY <1>2, <1>3 DEF Reached

----------------------------------------------------------------------------
(***************************************************************************)
(* The calls of co_expand_treeref_copy_shallow: each is for a tree that    *)
(* the one around it refers to, and none for the place of another one.     *)
(***************************************************************************)
Src(f) == [at |-> f.at, rule |-> f.filter]
Nested(L, w, q, s) ==
    /\ \A k \in 1 .. Len(s) : \E t \in Tree : s[k].at = TreeAt(w, t)
    /\ \A j, k \in 1 .. Len(s) : s[j].at = s[k].at => j = k
    /\ s # << >> => Src(s[Len(s)]) = SourceOf(w, q, NoRules)
    /\ \A k \in 1 .. Len(s) - 1 : Linked(L, w, Src(s[k + 1]), Src(s[k]))

(* There are not more calls than trees, so that a source of the innermost  *)
(* one is found in as many steps.                                          *)
LEMMA NestedReached ==
    ASSUME NEW L, NEW w, NEW q, NEW F, NEW s \in Seq(F), s # << >>, Nested(L, w, q, s)
    PROVE  Reached(L, w, q, s[1].at, s[1].filter)
  <1> DEFINE n == Len(s)
             m == Cardinality(Tree)
             g == [k \in 1 .. n |-> CHOOSE t \in Tree : s[k].at = TreeAt(w, t)]
             c == [i \in 0 .. n - 1 |-> Src(s[n - i])]
  <1>1. n \in Nat /\ n >= 1
    BY EmptySeq
  <1>2. IsFiniteSet(Tree) /\ m \in Nat
    BY ObjectAssumption, FS_CardinalityType
  <1>3. \A k \in 1 .. n : \E t \in Tree : s[k].at = TreeAt(w, t)
    BY DEF Nested
  <1>4. \A k \in 1 .. n : g[k] \in Tree /\ s[k].at = TreeAt(w, g[k])
    BY <1>3
  <1>5. g \in [1 .. n -> Tree]
    BY <1>4
  <1> HIDE DEF g
  <1>6. n <= m
    <2> SUFFICES ASSUME m < n PROVE FALSE
      BY <1>1, <1>2
    <2>1. IsFiniteSet(1 .. n) /\ Cardinality(1 .. n) = n
      <3>1. 1 \in Int /\ n \in Int /\ ~(1 > n) /\ n - 1 + 1 = n
        BY <1>1
      <3> HIDE DEF n
      <3> QED
        BY <3>1, FS_Interval
    <2>2. Cardinality(Tree) < Cardinality(1 .. n)
      BY <2>1
    <2> HIDE DEF n, m
    <2>3. PICK j, k \in 1 .. n : j # k /\ g[j] = g[k]
      BY <1>2, <1>5, <2>1, <2>2, FS_PigeonHole
    <2>4. s[j].at = s[k].at
      BY <1>4, <2>3
    <2> QED
      BY <2>3, <2>4 DEF Nested, n
  <1>7. \A i \in 0 .. n - 1 : c[i] = Src(s[n - i])
    OBVIOUS
  <1> HIDE DEF c
  <1>8. 0 \in 0 .. n - 1 /\ n - 0 = n /\ n - 1 \in 0 .. n - 1 /\ n - (n - 1) = 1
    BY <1>1
  <1>9. c[0] = SourceOf(w, q, NoRules)
    <2>1. c[0] = Src(s[n])
      BY <1>7, <1>8
    <2> QED
      BY <2>1 DEF Nested
  <1>10. ASSUME NEW i \in 1 .. n - 1 PROVE Linked(L, w, c[i - 1], c[i])
    <2>1. /\ i \in 0 .. n - 1 /\ i - 1 \in 0 .. n - 1
          /\ n - i \in 1 .. n - 1 /\ n - (i - 1) = (n - i) + 1
      BY <1>1
    <2>2. c[i] = Src(s[n - i]) /\ c[i - 1] = Src(s[(n - i) + 1])
      BY <1>7, <2>1
    <2> QED
      BY <2>1, <2>2 DEF Nested
  <1>11. Leads(L, w, q, c, n - 1)
    BY <1>9, <1>10 DEF Leads
  <1>12. c[n - 1] = [at |-> s[1].at, rule |-> s[1].filter]
    BY <1>7, <1>8 DEF Src
  <1>13. n - 1 \in 0 .. m
    BY <1>1, <1>2, <1>6
  <1> QED
    BY <1>11, <1>12, <1>13 DEF Reached

LEMMA NestedSame ==
    ASSUME NEW L, NEW w, NEW q, NEW s, NEW r, Nested(L, w, q, s),
           Len(r) = Len(s), Len(s) \in Nat, Len(s) >= 1, s # << >>,
           \A k \in 1 .. Len(s) : r[k].at = s[k].at /\ r[k].filter = s[k].filter
    PROVE  Nested(L, w, q, r)
  <1> DEFINE n == Len(s)
  <1>1. n \in Nat /\ n >= 1 /\ n \in 1 .. n /\ Len(r) = n
    OBVIOUS
  <1>2. \A k \in 1 .. n : r[k].at = s[k].at /\ Src(r[k]) = Src(s[k])
    BY DEF Src
  <1>3. \A k \in 1 .. n - 1 : k \in 1 .. n /\ k + 1 \in 1 .. n
    BY <1>1
  <1>4. /\ \A k \in 1 .. n : \E t \in Tree : s[k].at = TreeAt(w, t)
        /\ \A j, k \in 1 .. n : s[j].at = s[k].at => j = k
        /\ Src(s[n]) = SourceOf(w, q, NoRules)
        /\ \A k \in 1 .. n - 1 : Linked(L, w, Src(s[k + 1]), Src(s[k]))
    BY DEF Nested
  <1> HIDE DEF n
  <1>5. \A k \in 1 .. n - 1 : Linked(L, w, Src(r[k + 1]), Src(r[k]))
    BY <1>2, <1>3, <1>4
  <1>6. /\ \A k \in 1 .. n : \E t \in Tree : r[k].at = TreeAt(w, t)
        /\ \A j, k \in 1 .. n : r[j].at = r[k].at => j = k
        /\ Src(r[n]) = SourceOf(w, q, NoRules)
    BY <1>1, <1>2, <1>4
  <1> QED
    BY <1>1, <1>5, <1>6 DEF Nested

LEMMA NestedTail ==
    ASSUME NEW L, NEW w, NEW q, NEW F, NEW s \in Seq(F), s # << >>, Nested(L, w, q, s)
    PROVE  Nested(L, w, q, Tail(s))
  <1> DEFINE n == Len(s)
             r == Tail(s)
  <1>1. n \in Nat /\ n >= 1
    BY EmptySeq
  <1>2. Len(r) = n - 1 /\ \A k \in 1 .. n - 1 : r[k] = s[k + 1]
    BY <1>1
  <1>3. r # << >> => n > 1
    <2>1. r \in Seq(F)
      BY <1>1
    <2>2. r # << >> => Len(r) # 0
      BY <2>1, EmptySeq
    <2> QED
      BY <1>1, <1>2, <2>2
  <1>4. /\ \A k \in 1 .. n : \E t \in Tree : s[k].at = TreeAt(w, t)
        /\ \A j, k \in 1 .. n : s[j].at = s[k].at => j = k
        /\ Src(s[n]) = SourceOf(w, q, NoRules)
        /\ \A k \in 1 .. n - 1 : Linked(L, w, Src(s[k + 1]), Src(s[k]))
    BY DEF Nested
  <1> HIDE DEF n, r
  <1>5. \A k \in 1 .. n - 1 : k + 1 \in 1 .. n
    BY <1>1
  <1>6. \A k \in 1 .. n - 1 : \E t \in Tree : r[k].at = TreeAt(w, t)
    BY <1>2, <1>4, <1>5
  <1>7. \A j, k \in 1 .. n - 1 : r[j].at = r[k].at => j = k
    <2> SUFFICES ASSUME NEW j \in 1 .. n - 1, NEW k \in 1 .. n - 1, r[j].at = r[k].at
                 PROVE  j = k
      OBVIOUS
    <2>1. j + 1 = k + 1
      BY <1>2, <1>4, <1>5
    <2> QED
      BY <1>1, <2>1
  <1>8. r # << >> => Src(r[n - 1]) = SourceOf(w, q, NoRules)
    <2> SUFFICES ASSUME r # << >> PROVE r[n - 1] = s[n]
      BY <1>4
    <2>1. n - 1 \in 1 .. n - 1 /\ (n - 1) + 1 = n
      BY <1>1, <1>3
    <2> QED
      BY <1>2, <2>1
  <1>9. \A k \in 1 .. (n - 1) - 1 : Linked(L, w, Src(r[k + 1]), Src(r[k]))
    <2> SUFFICES ASSUME NEW k \in 1 .. (n - 1) - 1
                 PROVE  Linked(L, w, Src(r[k + 1]), Src(r[k]))
      OBVIOUS
    <2>1. k \in 1 .. n - 1 /\ k + 1 \in 1 .. n - 1
      BY <1>1
    <2>2. r[k] = s[k + 1] /\ r[k + 1] = s[(k + 1) + 1]
      BY <1>2, <2>1
    <2> QED
      BY <1>4, <2>1, <2>2
  <1> QED
    BY <1>2, <1>6, <1>7, <1>8, <1>9 DEF Nested, r

LEMMA NestedPush ==
    ASSUME NEW L, NEW w, NEW q, NEW s, NEW u, Nested(L, w, q, s),
           Len(s) \in Nat, Len(s) >= 1, Len(u) = Len(s) + 1, s # << >>,
           \A k \in 1 .. Len(s) : u[k + 1].at = s[k].at /\ u[k + 1].filter = s[k].filter,
           \E t \in Tree : u[1].at = TreeAt(w, t),
           \A k \in 1 .. Len(s) : s[k].at # u[1].at,
           Linked(L, w, Src(s[1]), Src(u[1]))
    PROVE  Nested(L, w, q, u)
  <1> DEFINE n == Len(s)
  <1>1. n \in Nat /\ n >= 1 /\ n \in 1 .. n /\ 1 \in 1 .. n /\ Len(u) = n + 1
    OBVIOUS
  <1>2. \A k \in 1 .. n : u[k + 1].at = s[k].at /\ Src(u[k + 1]) = Src(s[k])
    BY DEF Src
  <1>3. /\ \A k \in 1 .. n : \E t \in Tree : s[k].at = TreeAt(w, t)
        /\ \A j, k \in 1 .. n : s[j].at = s[k].at => j = k
        /\ Src(s[n]) = SourceOf(w, q, NoRules)
        /\ \A k \in 1 .. n - 1 : Linked(L, w, Src(s[k + 1]), Src(s[k]))
        /\ \A k \in 1 .. n : s[k].at # u[1].at
    BY DEF Nested
  <1> HIDE DEF n
  <1>4. \A k \in 1 .. n + 1 : k = 1 \/ (k - 1 \in 1 .. n /\ (k - 1) + 1 = k)
    BY <1>1
  <1>5. \A k \in 1 .. n + 1 : k # 1 => u[k].at = s[k - 1].at /\ k - 1 \in 1 .. n
    BY <1>2, <1>4
  <1>6. \A k \in 1 .. n + 1 : \E t \in Tree : u[k].at = TreeAt(w, t)
    <2> SUFFICES ASSUME NEW k \in 1 .. n + 1 PROVE \E t \in Tree : u[k].at = TreeAt(w, t)
      OBVIOUS
    <2>1. CASE k = 1
      BY <2>1
    <2>2. CASE k # 1
      <3>1. u[k].at = s[k - 1].at /\ k - 1 \in 1 .. n
        BY <1>5, <2>2
      <3> QED
        BY <1>3, <3>1
    <2> QED
      BY <2>1, <2>2
  <1>7. \A j, k \in 1 .. n + 1 : u[j].at = u[k].at => j = k
    <2> SUFFICES ASSUME NEW j \in 1 .. n + 1, NEW k \in 1 .. n + 1, u[j].at = u[k].at
                 PROVE  j = k
      OBVIOUS
    <2>1. CASE j = 1 \/ k = 1
      BY <1>3, <1>5, <2>1
    <2>2. CASE j # 1 /\ k # 1
      <3>1. j - 1 = k - 1
        BY <1>3, <1>5, <2>2
      <3> QED
        BY <1>1, <3>1
    <2> QED
      BY <2>1, <2>2
  <1>8. Src(u[n + 1]) = SourceOf(w, q, NoRules)
    BY <1>1, <1>2, <1>3
  <1>9. \A k \in 1 .. (n + 1) - 1 : Linked(L, w, Src(u[k + 1]), Src(u[k]))
    <2> SUFFICES ASSUME NEW k \in 1 .. n PROVE Linked(L, w, Src(u[k + 1]), Src(u[k]))
      BY <1>1
    <2>1. Src(u[k + 1]) = Src(s[k])
      BY <1>2
    <2>2. CASE k = 1
      BY <2>1, <2>2
    <2>3. CASE k # 1
      <3>1. k - 1 \in 1 .. n /\ k - 1 \in 1 .. n - 1 /\ (k - 1) + 1 = k
        BY <1>1, <2>3
      <3>2. Src(u[k]) = Src(s[k - 1]) /\ Linked(L, w, Src(s[k]), Src(s[k - 1]))
        BY <1>2, <1>3, <3>1
      <3> QED
        BY <2>1, <3>2
    <2> QED
      BY <2>2, <2>3
  <1> QED
    BY <1>1, <1>6, <1>7, <1>8, <1>9 DEF Nested

LEMMA NestedStays ==
    ASSUME NEW L, NEW M, L \subseteq M, NEW w, NEW q, NEW s, Nested(L, w, q, s)
    PROVE  Nested(M, w, q, s)
  <1>1. \A a, z : Linked(L, w, a, z) => Linked(M, w, a, z)
    BY DEF Linked, KidsIn
  <1> QED
    BY <1>1 DEF Nested

----------------------------------------------------------------------------
(***************************************************************************)
(* What may be offered: an object of the level, or one that is reached by  *)
(* a reference of the level or by the default pipe.                        *)
(***************************************************************************)
RefersHere(L, a, cp, q) ==
    \/ q \in KidsIn(L, a) /\ IsKind(q, "reference")
    \/ /\ q = cp /\ cp # NULL /\ Len(a) > 1 /\ Said(a).callback
       /\ \E p \in KidsIn(L, a) : IsKind(p, "empty")
HasSource(L, w, a, cp, p, rule) ==
    /\ p \in L /\ ~IsKind(p, "reference")
    /\ \/ Front(p) = a /\ rule = NoRules
       \/ /\ ~IsKind(p, "empty")
          /\ \E q : RefersHere(L, a, cp, q) /\ Reached(L, w, q, Front(p), rule)
Offer(p, r) == [orig |-> p, rule |-> r]
Permitted(y) ==
    \E r : /\ HasSource(live, wp, at, copipe, y.orig, r) /\ Stays(Offer(y.orig, r), rules)
           /\ y.filter = IF rules = NoRules THEN r ELSE rules
           /\ IF y.appended THEN expandvar /\ y.name \in Said(y.orig).words
                            ELSE <<y.name, y.kind>> \in Reads(Offer(y.orig, r))
FromReference(x) ==
    /\ ~x.appended /\ ~IsKind(x.orig, "empty")
    /\ Reached(live, wp, coref, Front(x.orig), x.filter)

(* The inductive invariant, together with IInv *)
LevelPermitted ==
    phase \in {"level", "copy", "temp", "done"} => \A y \in level : Permitted(y)
CopyPermitted ==
    phase \in {"copy", "temp"} =>
        RefersHere(live, at, copipe, coref) /\ \A x \in temp : FromReference(x)
StackPermitted == phase = "copy" => Nested(live, wp, coref, stack)
PInv == phase # "lost" => LevelPermitted /\ CopyPermitted /\ StackPermitted

LEMMA RefersStays ==
    ASSUME NEW L, NEW M, L \subseteq M, NEW a, NEW cp, NEW q, RefersHere(L, a, cp, q)
    PROVE  RefersHere(M, a, cp, q)
  BY DEF RefersHere, KidsIn

LEMMA HasSourceStays ==
    ASSUME NEW L, NEW M, L \subseteq M, NEW w, NEW a, NEW cp, NEW p, NEW r,
           HasSource(L, w, a, cp, p, r)
    PROVE  HasSource(M, w, a, cp, p, r)
  <1>1. CASE Front(p) = a /\ r = NoRules
    BY <1>1 DEF HasSource
  <1>2. CASE /\ ~IsKind(p, "empty")
             /\ \E q : RefersHere(L, a, cp, q) /\ Reached(L, w, q, Front(p), r)
    <2>1. PICK q : RefersHere(L, a, cp, q) /\ Reached(L, w, q, Front(p), r)
      BY <1>2
    <2>2. RefersHere(M, a, cp, q) /\ Reached(M, w, q, Front(p), r)
      BY <2>1, RefersStays, ReachedStays
    <2> QED
      BY <1>2, <2>2 DEF HasSource
  <1> QED
    BY <1>1, <1>2 DEF HasSource

LEMMA PermittedStays ==
    ASSUME live \subseteq live', UNCHANGED <<wp, params, stuck>>, NEW y, Permitted(y)
    PROVE  Permitted(y)'
  <1>1. UNCHANGED <<wp, at, rules, hide, expandvar, copipe, stuck>>
    BY DEF params
  <1>2. PICK r : /\ HasSource(live, wp, at, copipe, y.orig, r) /\ Stays(Offer(y.orig, r), rules)
                 /\ y.filter = IF rules = NoRules THEN r ELSE rules
                 /\ IF y.appended THEN expandvar /\ y.name \in Said(y.orig).words
                                  ELSE <<y.name, y.kind>> \in Reads(Offer(y.orig, r))
    BY DEF Permitted
  <1>3. HasSource(live', wp, at, copipe, y.orig, r)
    BY <1>2, HasSourceStays
  <1>4. Stays(Offer(y.orig, r), rules)'
    BY <1>1, <1>2 DEF Stays, Labels, IsKind, Said, IsFilter, Offer
  <1> QED
    BY <1>1, <1>2, <1>3, <1>4 DEF Permitted

LEMMA PermittedLike ==
    ASSUME NEW y, Permitted(y), NEW z, z.orig = y.orig, z.name = y.name, z.kind = y.kind,
           z.appended = y.appended, z.filter = y.filter
    PROVE  Permitted(z)
  BY DEF Permitted

(* What is permitted is wanted.                                            *)
LEMMA PermittedIsWanted ==
    ASSUME NEW y, Permitted(y)
    PROVE  \E o \in Offers :
             /\ o.orig = y.orig /\ Stays(o, rules)
             /\ y.filter = IF rules = NoRules THEN o.rule ELSE rules
             /\ IF y.appended THEN expandvar /\ y.name \in Said(o.orig).words
                              ELSE <<y.name, y.kind>> \in Reads(o)
  <1>1. PICK r : /\ HasSource(live, wp, at, copipe, y.orig, r) /\ Stays(Offer(y.orig, r), rules)
                 /\ y.filter = IF rules = NoRules THEN r ELSE rules
                 /\ IF y.appended THEN expandvar /\ y.name \in Said(y.orig).words
                                  ELSE <<y.name, y.kind>> \in Reads(Offer(y.orig, r))
    BY DEF Permitted
  <1> DEFINE p == y.orig
             o == Offer(p, r)
  <1>2. o.orig = p /\ o = [orig |-> p, rule |-> r]
    BY DEF Offer
  <1>3. \A a : p \in KidsIn(live, a) <=> p \in Kids(a)
    BY DEF Kids, KidsIn
  <1>4. p \in live /\ ~IsKind(p, "reference") /\ \A a : p \notin Refs(a)
    BY <1>1 DEF HasSource, Refs
  <1>5. o \in Offers
    <2>1. CASE Front(p) = at /\ r = NoRules
      <3>1. p \in Kids(at) \ Refs(at)
        BY <1>4, <2>1 DEF Kids
      <3> QED
        BY <1>2, <2>1, <3>1 DEF Offers, OwnOffers
    <2>2. CASE /\ ~IsKind(p, "empty")
               /\ \E q : RefersHere(live, at, copipe, q) /\ Reached(live, wp, q, Front(p), r)
      <3>1. PICK q : RefersHere(live, at, copipe, q) /\ Reached(live, wp, q, Front(p), r)
        BY <2>2
      <3>2. q \in References
        BY <3>1 DEF RefersHere, References, Refs, Kids, KidsIn, HasEnd
      <3> DEFINE s == [at |-> Front(p), rule |-> r]
      <3>3. s \in Sources(q)
        BY <3>1, ReachedIsSource
      <3>4. p \in Kids(s.at) \ Refs(s.at) /\ ~IsKind(p, "empty")
        BY <1>4, <2>2 DEF Kids
      <3> DEFINE E(z) == {[orig |-> k, rule |-> z.rule] :
                            k \in {u \in Kids(z.at) \ Refs(z.at) : ~IsKind(u, "empty")}}
      <3>5. o \in E(s)
        BY <1>2, <3>4
      <3> HIDE DEF E, s
      <3>6. o \in UNION {E(z) : z \in Sources(q)}
        BY <3>3, <3>5
      <3>7. o \in UNION {UNION {E(z) : z \in Sources(u)} : u \in References}
        BY <3>2, <3>6
      <3> QED
        BY <3>7, Zenon DEF Offers, OffersOf, E
    <2> QED
      BY <1>1, <2>1, <2>2 DEF HasSource
  <1> QED
    BY <1>1, <1>2, <1>5

LEMMA MergedWithNone ==
    ASSUME NEW p
    PROVE  Merged(RulesOf(p), NoRules) = RulesOf(p)
  BY DEF Merged, RulesOf, NoRules

----------------------------------------------------------------------------
(***************************************************************************)
(* The steps                                                               *)
(***************************************************************************)

\* Nothing is expanded, or nothing of a level yet
LEMMA QuietPermits ==
    ASSUME phase' \in {"idle", "crashed"} \/ (phase' = "level" /\ level' = {})
    PROVE  PInv'
  BY DEF PInv, LevelPermitted, CopyPermitted, StackPermitted

LEMMA LevelStaysPermitted ==
    ASSUME live \subseteq live', UNCHANGED <<wp, params, stuck>>,
           \A y \in level' : Permitted(y)
    PROVE  \A y \in level' : Permitted(y)'
  <1> SUFFICES ASSUME NEW y \in level' PROVE Permitted(y)'
    OBVIOUS
  <1>1. Permitted(y)
    OBVIOUS
  <1> QED
    BY <1>1, PermittedStays

LEMMA BeginPermits ==
    ASSUME NEW p, BeginReference(p), RefersHere(live, at, copipe, p),
           live \subseteq live', UNCHANGED stuck, \A y \in level' : Permitted(y)
    PROVE  PInv'
  <1>1. /\ Resolves(p)
        /\ phase' = "copy" /\ coref' = p /\ temp' = {}
        /\ stack' = <<Frame(p, RulesOf(p))>>
        /\ UNCHANGED <<wp, params, at, copipe>>
    BY DEF BeginReference, heads, params
  <1>2. LevelPermitted'
    BY <1>1, LevelStaysPermitted DEF LevelPermitted
  <1>3. CopyPermitted'
    <2>1. RefersHere(live', at, copipe, p)
      BY RefersStays
    <2> QED
      BY <1>1, <2>1 DEF CopyPermitted
  <1> DEFINE f == Frame(p, RulesOf(p))
  <1>4. Src(f) = SourceOf(wp, p, NoRules)
    BY MergedWithNone DEF Src, Frame, SourceOf, PlaceOf, TreeAt, Resolve
  <1>5. \E t \in Tree : f.at = TreeAt(wp, t)
    <2>1. Wrapper[Said(p).tree] \in Tree
      BY <1>1, ObjectAssumption DEF Resolves
    <2> QED
      BY <2>1 DEF Frame, Resolve, TreeAt
  <1> HIDE DEF f
  <1> DEFINE s == <<f>>
  <1>6. Len(s) = 1 /\ s[1] = f /\ (\A k \in 1 .. Len(s) : k = 1) /\ ~\E k \in 1 .. Len(s) - 1 : TRUE
    OBVIOUS
  <1> HIDE DEF s
  <1>7. Nested(live', wp, p, s)
    BY <1>4, <1>5, <1>6 DEF Nested
  <1>8. StackPermitted'
    BY <1>1, <1>7 DEF StackPermitted, s, f
  <1> QED
    BY <1>2, <1>3, <1>8 DEF PInv

LEMMA LevelReferencePermits ==
    ASSUME IInv, PInv, LevelReference
    PROVE  PInv'
  <1> DEFINE p == First(todo)
  <1>1. /\ phase = "level" /\ todo # {} /\ IsKind(p, "reference")
        /\ BeginReference(p) /\ UNCHANGED <<live, stuck, level>>
    BY DEF LevelReference
  <1>2. todo \subseteq KidsIn(live, at) /\ ClosedIn(live)
    BY <1>1 DEF IInv, LevelStands, TreesStand
  <1>3. p \in KidsIn(live, at)
    <2>1. todo \subseteq live
      BY <1>2 DEF KidsIn
    <2> QED
      BY <1>1, <1>2, <2>1, FirstIsOne
  <1> HIDE DEF p
  <1>4. RefersHere(live, at, copipe, p)
    BY <1>1, <1>3 DEF RefersHere
  <1>5. \A y \in level' : Permitted(y)
    BY <1>1 DEF PInv, LevelPermitted
  <1> QED
    BY <1>1, <1>4, <1>5, BeginPermits

(* The copy goes on: the level stays as it is.                             *)
LEMMA CopyingPermits ==
    ASSUME PInv, Copying, UNCHANGED live, phase' = "copy",
           Nested(live, wp, coref, stack'), \A x \in temp' : FromReference(x)
    PROVE  PInv'
  <1>1. phase = "copy" /\ UNCHANGED <<wp, at, copipe, params, stuck, coref, level>>
    BY DEF Copying, heads, params
  <1>2. \A y \in level' : Permitted(y)
    BY <1>1 DEF PInv, LevelPermitted
  <1>3. LevelPermitted'
    BY <1>1, <1>2, LevelStaysPermitted DEF LevelPermitted
  <1>4. CopyPermitted'
    <2>1. RefersHere(live, at, copipe, coref)
      BY <1>1 DEF PInv, CopyPermitted
    <2> QED
      BY <1>1, <2>1 DEF CopyPermitted, FromReference, IsKind, Said
  <1>5. StackPermitted'
    BY <1>1 DEF StackPermitted
  <1> QED
    BY <1>3, <1>4, <1>5 DEF PInv

(* The innermost call goes on to its next object.                          *)
LEMMA WithoutNested ==
    ASSUME IInv, PInv, Copying, stack[1].todo # {}, NEW p
    PROVE  Nested(live, wp, coref, <<Without(p)>> \o Rest)
  <1>1. phase = "copy" /\ stack # << >>
    BY DEF Copying
  <1>2. Nested(live, wp, coref, stack)
    BY <1>1 DEF PInv, StackPermitted
  <1>3. stack \in Seq(FrameOf(live)) /\ Len(stack) \in Nat /\ Len(stack) >= 1
    BY CopyingNow
  <1> DEFINE s == <<Without(p)>> \o Rest
  <1>4. Len(s) = Len(stack) /\ s[1] = Without(p) /\ \A k \in 2 .. Len(stack) : s[k] = stack[k]
    BY <1>1, WithoutStands
  <1>5. Without(p).at = stack[1].at /\ Without(p).filter = stack[1].filter
    <2>1. stack[1] \in FrameOf(live)
      BY <1>3
    <2> QED
      BY <2>1 DEF Without, FrameOf
  <1> HIDE DEF s
  <1>6. ASSUME NEW k \in 1 .. Len(stack)
        PROVE  s[k].at = stack[k].at /\ s[k].filter = stack[k].filter
    <2>1. k = 1 \/ k \in 2 .. Len(stack)
      BY <1>3
    <2> QED
      BY <1>4, <1>5, <2>1
  <1>7. Nested(live, wp, coref, s)
    BY <1>1, <1>2, <1>3, <1>4, <1>6, NestedSame
  <1> QED
    BY <1>7 DEF s

LEMMA CopyEmptyPermits ==
    ASSUME IInv, PInv, CopyEmpty
    PROVE  PInv'
  <1> DEFINE p == First(stack[1].todo)
  <1>1. /\ Copying /\ phase = "copy" /\ stack[1].todo # {}
        /\ stack' = <<Without(p)>> \o Rest /\ UNCHANGED <<live, phase, temp>>
    BY DEF CopyEmpty, Copying
  <1> HIDE DEF p
  <1>2. Nested(live, wp, coref, stack')
    BY <1>1, WithoutNested
  <1>3. \A x \in temp' : FromReference(x)
    BY <1>1 DEF PInv, CopyPermitted
  <1> QED
    BY <1>1, <1>2, <1>3, CopyingPermits

LEMMA CopyObjectPermits ==
    ASSUME IInv, PInv, CopyObject
    PROVE  PInv'
  <1> DEFINE p  == First(stack[1].todo)
             x  == TopOfTree(p, stack[1].filter)
             eq == Equals(temp, x)
  <1>1. /\ Copying /\ phase = "copy" /\ stack # << >> /\ stack[1].todo # {}
        /\ ~IsKind(p, "empty") /\ ~IsKind(p, "reference")
        /\ stack' = <<Without(p)>> \o Rest
        /\ IF eq = {} THEN temp' = temp \cup {x} /\ UNCHANGED <<live, phase>>
           ELSE /\ UNCHANGED temp
                /\ phase' = IF Below(p) = {} THEN phase ELSE "lost"
                /\ live' = (live \cup UNION {Merge(y.orig, p) : y \in eq}) \ Below(p)
    BY DEF CopyObject, Copying
  <1>2. /\ stack \in Seq(FrameOf(live)) /\ Front(p) = stack[1].at
    BY <1>1, CopyingNow
  <1> SUFFICES ASSUME phase' # "lost" PROVE PInv'
    BY DEF PInv
  <1>3. UNCHANGED live /\ phase' = "copy" /\ temp' \subseteq temp \cup {x}
    <2>1. CASE eq = {}
      BY <1>1, <2>1
    <2>2. CASE eq # {}
      <3>1. Below(p) = {}
        BY <1>1, <2>2
      <3>2. \A y \in eq : Merge(y.orig, p) = {}
        BY <3>1 DEF Merge
      <3> QED
        BY <1>1, <2>2, <3>1, <3>2
    <2> QED
      BY <2>1, <2>2
  <1>4. x.orig = p /\ x.filter = stack[1].filter /\ x.appended = FALSE
    BY DEF TopOfTree, Original
  <1> HIDE DEF p, x
  <1>5. Nested(live, wp, coref, stack')
    BY <1>1, WithoutNested
  <1>6. Nested(live, wp, coref, stack)
    BY <1>1 DEF PInv, StackPermitted
  <1>7. Reached(live, wp, coref, stack[1].at, stack[1].filter)
    BY <1>1, <1>2, <1>6, NestedReached
  <1>8. FromReference(x)
    BY <1>1, <1>2, <1>4, <1>7 DEF FromReference
  <1>9. \A z \in temp' : FromReference(z)
    BY <1>1, <1>3, <1>8 DEF PInv, CopyPermitted
  <1> QED
    BY <1>1, <1>3, <1>5, <1>9, CopyingPermits

LEMMA CopyReturnsPermits ==
    ASSUME IInv, PInv, CopyReturns
    PROVE  PInv'
  <1>1. /\ Copying /\ phase = "copy" /\ stack # << >>
        /\ stack' = Tail(stack) /\ UNCHANGED <<live, phase, temp>>
    BY DEF CopyReturns, Copying, Rest
  <1>2. stack \in Seq(FrameOf(live)) /\ Nested(live, wp, coref, stack)
    BY <1>1 DEF IInv, StackStands, PInv, StackPermitted
  <1>3. Nested(live, wp, coref, stack')
    BY <1>1, <1>2, NestedTail
  <1>4. \A x \in temp' : FromReference(x)
    BY <1>1 DEF PInv, CopyPermitted
  <1> QED
    BY <1>1, <1>3, <1>4, CopyingPermits

LEMMA CopyReferencePermits ==
    ASSUME IInv, PInv, CopyReference
    PROVE  PInv'
  <1> DEFINE p == First(stack[1].todo)
             f == Without(p)
             g == Frame(p, Merged(RulesOf(p), stack[1].filter))
             s == <<g, f>> \o Tail(stack)
  <1>1. /\ Copying /\ phase = "copy" /\ stack # << >> /\ stack[1].todo # {}
        /\ IsKind(p, "reference") /\ Resolves(p)
        /\ IF Resolve(p) \in Entered THEN phase' = "crashed" /\ UNCHANGED stack
           ELSE stack' = s /\ UNCHANGED phase
        /\ UNCHANGED <<live, temp>>
    BY DEF CopyReference, Copying, Rest
  <1>2. CASE Resolve(p) \in Entered
    <2>1. phase' = "crashed"
      BY <1>1, <1>2
    <2> QED
      BY <2>1, QuietPermits
  <1>3. CASE Resolve(p) \notin Entered
    <2>1. /\ PointsStand /\ Len(stack) \in Nat /\ Len(stack) >= 1 /\ ClosedIn(live)
          /\ stack \in Seq(FrameOf(live))
          /\ p \in live /\ Front(p) = stack[1].at /\ stack[1].filter \in RulesType
      BY <1>1, CopyingNow
    <2> DEFINE t == <<Without(p)>> \o Rest
    <2>2. /\ f \in FrameOf(live) /\ t[1] = f /\ Len(t) = Len(stack)
          /\ \A k \in 2 .. Len(stack) : t[k] = stack[k]
          /\ \A k \in 1 .. Len(stack) : t[k].at = stack[k].at
      BY <1>1, WithoutStands
    <2>3. Nested(live, wp, coref, t)
      BY <1>1, WithoutNested
    <2>4. g \in FrameOf(live)
      <3>1. p[Len(p)] \in Id
        BY <2>1, ReferenceIsKnown
      <3>2. Merged(RulesOf(p), stack[1].filter) \in RulesType
        BY <2>1, <3>1, RulesAreRules
      <3> QED
        BY <1>1, <2>1, <3>2, FrameStands
    <2>5. g.at = TreeAt(wp, Wrapper[Said(p).tree]) /\ g.at = Resolve(p)
          /\ Src(g) = SourceOf(wp, p, stack[1].filter)
      BY DEF Frame, Resolve, TreeAt, Src, SourceOf, PlaceOf
    <2>6. Wrapper[Said(p).tree] \in Tree
      BY <1>1, ObjectAssumption DEF Resolves
    <2>7. f.at = stack[1].at /\ f.filter = stack[1].filter
      <3>1. stack[1] \in FrameOf(live)
        BY <2>1
      <3> QED
        BY <3>1 DEF Without, FrameOf
    <2>8. p \in KidsIn(live, Src(f).at) /\ Src(f).rule = stack[1].filter
      BY <2>1, <2>7 DEF KidsIn, Src
    <2>9. Linked(live, wp, Src(f), Src(g))
      BY <1>1, <2>5, <2>8 DEF Linked
    <2> HIDE DEF p, f, g, t
    <2>10. /\ Len(s) = Len(stack) + 1 /\ s[1] = g /\ s[2] = f
           /\ \A k \in 2 .. Len(stack) : s[k + 1] = stack[k]
      BY <1>1, <2>1, <2>2, <2>4, TopPushed
    <2>11. \A k \in 1 .. Len(stack) : s[k + 1] = t[k]
      <3>1. \A k \in 1 .. Len(stack) : k = 1 \/ k \in 2 .. Len(stack)
        BY <2>1
      <3>2. 1 + 1 = 2
        OBVIOUS
      <3> QED
        BY <2>2, <2>10, <3>1, <3>2
    <2>12. \A k \in 1 .. Len(stack) : t[k].at # g.at
      <3>1. DOMAIN stack = 1 .. Len(stack)
        BY <2>1
      <3>2. \A k \in 1 .. Len(stack) : stack[k].at \in Entered
        BY <3>1 DEF Entered
      <3> QED
        BY <1>3, <2>2, <2>5, <3>2
    <2>13. t # << >>
      BY <2>1, <2>2
    <2> HIDE DEF s
    <2>14. Nested(live, wp, coref, s)
      <3>1. Len(t) \in Nat /\ Len(t) >= 1 /\ Len(s) = Len(t) + 1 /\ t # << >>
        BY <2>1, <2>2, <2>10, <2>13
      <3>2. \A k \in 1 .. Len(t) : s[k + 1].at = t[k].at /\ s[k + 1].filter = t[k].filter
        BY <2>2, <2>11
      <3>3. \E u \in Tree : s[1].at = TreeAt(wp, u)
        BY <2>5, <2>6, <2>10
      <3>4. \A k \in 1 .. Len(t) : t[k].at # s[1].at
        BY <2>2, <2>10, <2>12
      <3>5. Linked(live, wp, Src(t[1]), Src(s[1]))
        BY <2>2, <2>9, <2>10
      <3> QED
        BY <2>3, <3>1, <3>2, <3>3, <3>4, <3>5, NestedPush
    <2>15. stack' = s /\ phase' = "copy"
      BY <1>1, <1>3
    <2>16. \A x \in temp' : FromReference(x)
      BY <1>1 DEF PInv, CopyPermitted
    <2> QED
      BY <1>1, <2>14, <2>15, <2>16, CopyingPermits
  <1> QED
    BY <1>2, <1>3

LEMMA EndsPermit ==
    ASSUME PInv, EndOfCopy \/ EndOfReference \/ EndOfLevel
    PROVE  PInv'
  <1>1. /\ phase \in {"level", "copy", "temp"} /\ phase' \in {"level", "temp", "done"}
        /\ phase' = "temp" => phase = "copy"
        /\ UNCHANGED <<live, wp, params, at, copipe, stuck, coref, temp, level>>
    BY DEF EndOfCopy, EndOfReference, EndOfLevel, heads, params
  <1>2. \A y \in level' : Permitted(y)
    BY <1>1 DEF PInv, LevelPermitted
  <1>3. LevelPermitted'
    BY <1>1, <1>2, LevelStaysPermitted DEF LevelPermitted
  <1>4. CopyPermitted'
    <2> SUFFICES ASSUME phase' = "temp"
                 PROVE  /\ RefersHere(live', at', copipe', coref')
                        /\ \A x \in temp' : FromReference(x)'
      BY <1>1 DEF CopyPermitted
    <2>1. RefersHere(live, at, copipe, coref) /\ \A x \in temp : FromReference(x)
      BY <1>1 DEF PInv, CopyPermitted
    <2> QED
      BY <1>1, <2>1 DEF FromReference, IsKind, Said
  <1>5. StackPermitted'
    BY <1>1 DEF StackPermitted
  <1> QED
    BY <1>3, <1>4, <1>5 DEF PInv

(* After an object: the rest of the level or of the copy, or the pipe.     *)
LEMMA AdvancePermits ==
    ASSUME IInv, PInv, NEW x, Item(x), Advance(x), live \subseteq live', UNCHANGED stuck,
           \A y \in level' : Permitted(y)
    PROVE  PInv'
  <1>1. phase # "lost"
    BY LevelNow
  <1>2. CASE phase = "level" /\ PipeFollows(x)
    <2>1. BeginReference(copipe)
      BY <1>2 DEF Advance
    <2>2. x.orig \in live /\ Front(x.orig) = at /\ x.kind = Said(x.orig).kind
      BY <1>1, <1>2, ItemStands
    <2>3. /\ x.kind = "empty" /\ copipe # NULL
          /\ Len(x.orig) > 2 /\ Said(Front(x.orig)).callback
      BY <1>2 DEF PipeFollows
    <2>4. Len(at) > 1
      <3> DEFINE p == x.orig
      <3>1. ClosedIn(live)
        BY <1>1 DEF IInv, TreesStand
      <3>2. p \in Seq(Name) /\ Len(p) >= 2 /\ Len(p) \in Nat
        BY <2>2, <3>1, PathOfObject
      <3> HIDE DEF p
      <3>3. Len(Front(p)) = Len(p) - 1
        BY <3>2, FrontOfPath
      <3>4. Len(p) > 2 /\ Front(p) = at
        BY <2>2, <2>3 DEF p
      <3> QED
        BY <3>2, <3>3, <3>4
    <2>5. RefersHere(live, at, copipe, copipe)
      BY <2>2, <2>3, <2>4 DEF RefersHere, KidsIn, IsKind
    <2> QED
      BY <2>1, <2>5, BeginPermits
  <1>3. CASE ~(phase = "level" /\ PipeFollows(x))
    <2>1. /\ UNCHANGED <<phase, coref, stack, wp, params, at, copipe>> /\ temp' \subseteq temp
          /\ phase \in {"level", "temp"}
      BY <1>3 DEF Advance, heads, params, Item
    <2>2. LevelPermitted'
      BY <2>1, LevelStaysPermitted DEF LevelPermitted
    <2>3. CopyPermitted'
      <3> SUFFICES ASSUME phase = "temp"
                   PROVE  /\ RefersHere(live', at, copipe, coref)
                          /\ \A y \in temp' : FromReference(y)'
        BY <2>1 DEF CopyPermitted
      <3>1. RefersHere(live, at, copipe, coref) /\ \A y \in temp : FromReference(y)
        BY DEF PInv, CopyPermitted
      <3>2. ASSUME NEW y \in temp' PROVE FromReference(y)'
        <4>1. /\ ~y.appended /\ ~IsKind(y.orig, "empty")
              /\ Reached(live, wp, coref, Front(y.orig), y.filter)
          BY <2>1, <3>1, <3>2 DEF FromReference
        <4>2. Reached(live', wp, coref, Front(y.orig), y.filter)
          BY <4>1, ReachedStays
        <4> QED
          BY <2>1, <4>1, <4>2 DEF FromReference, IsKind, Said
      <3> QED
        BY <3>1, <3>2, RefersStays
    <2>4. StackPermitted'
      BY <2>1 DEF StackPermitted
    <2> QED
      BY <2>2, <2>3, <2>4 DEF PInv
  <1> QED
    BY <1>2, <1>3

(* An object that is not skipped may be offered.                           *)
LEMMA ItemPermits ==
    ASSUME IInv, PInv, NEW x, Item(x), ~Skips(x)
    PROVE  /\ phase # "lost" /\ DOMAIN x = Fields /\ ~x.appended
           /\ x.name = Said(x.orig).name /\ x.kind = Said(x.orig).kind
           /\ \A y \in level : Permitted(y) /\ DOMAIN y = Fields
           /\ HasSource(live, wp, at, copipe, x.orig, x.filter)
           /\ Stays(Offer(x.orig, x.filter), rules) /\ (x.kind = "expand" => expandvar)
  <1>1. phase # "lost" /\ phase \in {"level", "temp"}
    BY LevelNow DEF Item
  <1>2. /\ DOMAIN x = Fields /\ OfLevel(live, x.orig) /\ x.orig \in live
        /\ x.name = Said(x.orig).name /\ x.kind = Said(x.orig).kind
        /\ \/ phase = "temp" /\ x \in temp
           \/ phase = "level" /\ Front(x.orig) = at
    BY <1>1, ItemStands
  <1>3. \A y \in level : Permitted(y) /\ DOMAIN y = Fields
    BY <1>1 DEF PInv, LevelPermitted, IInv, LevelStands, ShadowIn, Fields
  <1>4. /\ ~(hide /\ Said(x.orig).hide)
        /\ ~IsFilter(x.filter, Labels(x.orig)) /\ ~IsFilter(rules, Labels(x.orig))
        /\ x.orig[Len(x.orig)] \notin Barred
        /\ ~(x.kind = "variable" /\ expandvar /\ Strict \in rules.add)
        /\ ~(x.kind = "expand" /\ ~expandvar)
    BY DEF Skips, Hidden, Filtered, Refused, StrictlyExpanded, NotCalled
  <1>5. Stays(Offer(x.orig, x.filter), rules)
    BY <1>2, <1>4 DEF Stays, Offer, IsKind
  <1>6. CASE phase = "level"
    <2>1. x = Original(First(todo))
      BY <1>6 DEF Item
    <2>2. x.appended = FALSE /\ x.filter = NoRules
      BY <2>1 DEF Original
    <2>3. HasSource(live, wp, at, copipe, x.orig, x.filter)
      BY <1>2, <1>6, <2>2 DEF HasSource, OfLevel
    <2> QED
      BY <1>1, <1>2, <1>3, <1>4, <1>5, <2>2, <2>3
  <1>7. CASE phase = "temp"
    <2>1. x \in temp
      BY <1>2, <1>7
    <2>2. RefersHere(live, at, copipe, coref) /\ FromReference(x)
      BY <1>7, <2>1 DEF PInv, CopyPermitted
    <2>3. HasSource(live, wp, at, copipe, x.orig, x.filter)
      BY <1>2, <2>2 DEF HasSource, FromReference, OfLevel
    <2>4. ~x.appended
      BY <2>2 DEF FromReference
    <2> QED
      BY <1>1, <1>2, <1>3, <1>4, <1>5, <2>3, <2>4
  <1> QED
    BY <1>1, <1>6, <1>7

LEMMA SkipObjectPermits ==
    ASSUME IInv, PInv, NEW x, SkipObject(x)
    PROVE  PInv'
  <1>1. Item(x) /\ Advance(x) /\ UNCHANGED <<live, stuck, level>>
    BY DEF SkipObject
  <1>2. phase # "lost" /\ phase \in {"level", "temp"}
    BY <1>1, LevelNow DEF Item
  <1>3. \A y \in level' : Permitted(y)
    BY <1>1, <1>2 DEF PInv, LevelPermitted
  <1> QED
    BY <1>1, <1>3, AdvancePermits

LEMMA CopyItemPermits ==
    ASSUME IInv, PInv, NEW x, CopyItem(x)
    PROVE  PInv'
  <1>1. /\ Item(x) /\ ~Skips(x) /\ Advance(x) /\ x.kind \in {"empty", "command", "variable"}
        /\ UNCHANGED stuck
    BY DEF CopyItem
  <1>2. /\ DOMAIN x = Fields /\ ~x.appended
        /\ x.name = Said(x.orig).name /\ x.kind = Said(x.orig).kind
        /\ \A y \in level : Permitted(y) /\ DOMAIN y = Fields
        /\ HasSource(live, wp, at, copipe, x.orig, x.filter) /\ Stays(Offer(x.orig, x.filter), rules)
    BY <1>1, ItemPermits
  <1>3. CASE level' = level \cup {Shadow(x)} /\ UNCHANGED live
    <2> DEFINE y == Shadow(x)
    <2>1. /\ y.orig = x.orig /\ y.name = x.name /\ y.kind = x.kind /\ y.appended = x.appended
          /\ y.filter = IF rules = NoRules THEN x.filter ELSE rules
      BY <1>2 DEF Shadow, Fields
    <2>2. <<y.name, y.kind>> \in Reads(Offer(y.orig, x.filter))
      BY <1>1, <1>2, <2>1 DEF Reads, Offer, IsKind
    <2> HIDE DEF y
    <2>3. Permitted(y)
      BY <1>2, <2>1, <2>2 DEF Permitted
    <2>4. \A z \in level' : Permitted(z)
      BY <1>2, <1>3, <2>3 DEF y
    <2> QED
      BY <1>1, <1>3, <2>4, AdvancePermits
  <1>4. ASSUME NEW y \in Equals(level, x),
               level' = (level \ {y}) \cup {Taken(y, x)}, Absorbed(x, {y})
        PROVE  PInv'
    <2>1. y \in level /\ Permitted(y) /\ DOMAIN y = Fields
      BY <1>2, <1>4 DEF Equals
    <2>2. live \subseteq live'
      BY <1>4 DEF Absorbed, KeepsChildren
    <2> DEFINE z == Taken(y, x)
    <2>3. z.orig = y.orig /\ z.name = y.name /\ z.kind = y.kind /\ z.appended = y.appended
      BY <2>1 DEF Taken, Fields
    <2>4. z.filter = y.filter
      <3>1. z.filter = IF rules = NoRules THEN y.filter ELSE rules
        BY <2>1 DEF Taken, Fields
      <3>2. rules # NoRules => y.filter = rules
        BY <2>1 DEF Permitted
      <3> QED
        BY <3>1, <3>2
    <2> HIDE DEF z
    <2>5. Permitted(z)
      BY <2>1, <2>3, <2>4, PermittedLike
    <2>6. \A u \in level' : Permitted(u)
      BY <1>2, <1>4, <2>5 DEF z
    <2> QED
      BY <1>1, <2>2, <2>6, AdvancePermits
  <1> QED
    BY <1>3, <1>4 DEF CopyItem

LEMMA ChoiceItemPermits ==
    ASSUME IInv, PInv, NEW x, ChoiceItem(x)
    PROVE  PInv'
  <1> DEFINE word(w) == [AsCommand(x, w) EXCEPT !.ref = ChoiceRef(x)]
             words == {word(w) : w \in Said(x.orig).words}
  <1>1. /\ Item(x) /\ ~Skips(x) /\ Advance(x) /\ x.kind = "choice" /\ UNCHANGED stuck
        /\ \E missed \in SUBSET words, eq \in SUBSET level :
             level' = level \cup missed /\ Absorbed(x, eq)
    BY DEF ChoiceItem
  <1>0. PICK missed \in SUBSET words, eq \in SUBSET level :
           level' = level \cup missed /\ Absorbed(x, eq)
    BY <1>1
  <1>2. /\ DOMAIN x = Fields /\ ~x.appended /\ x.kind = Said(x.orig).kind
        /\ \A y \in level : Permitted(y)
        /\ HasSource(live, wp, at, copipe, x.orig, x.filter) /\ Stays(Offer(x.orig, x.filter), rules)
    BY <1>1, ItemPermits
  <1>3. ASSUME NEW w \in Said(x.orig).words PROVE Permitted(word(w))
    <2> DEFINE y == word(w)
    <2>1. /\ y.orig = x.orig /\ y.appended = x.appended
          /\ y.name = w /\ y.kind = "command"
          /\ y.filter = IF rules = NoRules THEN x.filter ELSE rules
      BY <1>2 DEF AsCommand, Shadow, Fields
    <2> HIDE DEF y
    <2>2. <<y.name, y.kind>> \in Reads(Offer(y.orig, x.filter))
      BY <1>1, <1>2, <2>1 DEF Reads, Offer, IsKind
    <2>3. Permitted(y)
      BY <1>2, <2>1, <2>2 DEF Permitted
    <2> QED
      BY <2>3 DEF y
  <1> HIDE DEF word
  <1>4. \A y \in level' : Permitted(y)
    BY <1>0, <1>2, <1>3
  <1>5. live \subseteq live'
    BY <1>0 DEF Absorbed, KeepsChildren
  <1> HIDE DEF words
  <1> QED
    BY <1>1, <1>4, <1>5, AdvancePermits

LEMMA CallbackItemPermits ==
    ASSUME IInv, PInv, NEW x, CallbackItem(x)
    PROVE  PInv'
  <1> DEFINE word(w) == [AsCommand(x, w) EXCEPT !.appended = TRUE]
  <1>1. /\ Item(x) /\ ~Skips(x) /\ Advance(x) /\ x.kind = "expand"
        /\ UNCHANGED <<live, stuck>>
    BY DEF CallbackItem
  <1>2. PICK W \in SUBSET Said(x.orig).words : level' = level \cup {word(w) : w \in W}
    BY DEF CallbackItem
  <1>3. /\ DOMAIN x = Fields /\ expandvar
        /\ \A y \in level : Permitted(y)
        /\ HasSource(live, wp, at, copipe, x.orig, x.filter) /\ Stays(Offer(x.orig, x.filter), rules)
    BY <1>1, ItemPermits
  <1>4. ASSUME NEW w \in W PROVE Permitted(word(w))
    <2> DEFINE y == word(w)
    <2>1. /\ y.orig = x.orig /\ y.appended = TRUE /\ y.name = w
          /\ y.filter = IF rules = NoRules THEN x.filter ELSE rules
      BY <1>3 DEF AsCommand, Shadow, Fields
    <2>2. w \in Said(x.orig).words
      BY <1>4
    <2> HIDE DEF y
    <2>3. Permitted(y)
      BY <1>3, <2>1, <2>2 DEF Permitted
    <2> QED
      BY <2>3 DEF y
  <1> HIDE DEF word
  <1>5. \A y \in level' : Permitted(y)
    BY <1>2, <1>3, <1>4
  <1> QED
    BY <1>1, <1>5, AdvancePermits

LEMMA StepPermits ==
    ASSUME IInv, PInv, Steps
    PROVE  PInv'
  <1>1. CASE LevelReference
    BY <1>1, LevelReferencePermits
  <1>2. CASE CopyEmpty \/ CopyReference \/ CopyObject \/ CopyReturns
    BY <1>2, CopyEmptyPermits, CopyReferencePermits, CopyObjectPermits, CopyReturnsPermits
  <1>3. CASE EndOfCopy \/ EndOfReference \/ EndOfLevel
    BY <1>3, EndsPermit
  <1>4. ASSUME NEW x \in temp \cup {Original(p) : p \in todo},
               SkipObject(x) \/ CopyItem(x) \/ ChoiceItem(x) \/ CallbackItem(x)
        PROVE  PInv'
    BY <1>4, SkipObjectPermits, CopyItemPermits, ChoiceItemPermits, CallbackItemPermits
  <1>5. ASSUME NoSuchTree \/ \E x \in temp \cup {Original(p) : p \in todo} : CallbackFails(x)
        PROVE  PInv'
    <2>1. phase' = "idle"
      BY <1>5 DEF NoSuchTree, CallbackFails, Fails
    <2> QED
      BY <2>1, QuietPermits
  <1> QED
    BY <1>1, <1>2, <1>3, <1>4, <1>5 DEF Steps

LEMMA NextPermits == IInv /\ PInv /\ [Next]_vars => PInv'
  <1> SUFFICES ASSUME IInv, PInv, [Next]_vars, phase # "lost" PROVE PInv'
    BY LostIsFinal DEF PInv
  <1>1. CASE ExpandTop \/ \E x \in level : ExpandChild(x)
    <2>1. phase' = "level" /\ level' = {}
      BY <1>1 DEF ExpandTop, ExpandChild, Start
    <2> QED
      BY <2>1, QuietPermits
  <1>2. CASE Steps
    BY <1>2, StepPermits
  <1>3. CASE \/ NoActive \/ EndOfCommand
             \/ \E t \in Tree : WpSet(t) \/ WpUp(t) \/ WpTop(t)
             \/ \E name \in Tree \cup {Unknown} : Activate(name)
    <2>1. phase' \in {"idle", "crashed"}
      BY <1>3 DEF NoActive, EndOfCommand, WpSet, WpUp, WpTop, Activate
    <2> QED
      BY <2>1, QuietPermits
  <1>4. CASE UNCHANGED vars
    <2>1. UNCHANGED <<live, wp, phase, params, at, copipe, stuck, coref, stack, temp, level>>
      BY <1>4 DEF vars, heads, params
    <2>2. LevelPermitted'
      BY <2>1, LevelStaysPermitted DEF LevelPermitted, PInv
    <2>3. CopyPermitted' /\ StackPermitted'
      BY <2>1 DEF CopyPermitted, StackPermitted, PInv, FromReference, IsKind, Said
    <2> QED
      BY <2>2, <2>3 DEF PInv
  <1> QED
    BY <1>1, <1>2, <1>3, <1>4 DEF Next

(***************************************************************************)
(* The rules that a level is expanded under are those of the outermost     *)
(* reference that has any, on one of the ways to it.                       *)
(***************************************************************************)
Follows(way, outer) ==
    outer = Outermost(way) /\ (\E S : way \in Seq(S)) /\ (way # <<>> => outer # NoRules)
WayKnown ==
    phase \in {"level", "copy", "temp", "done"} => \E way \in ways : Follows(way, rules)

LEMMA LongerFollows ==
    ASSUME NEW way, NEW outer, Follows(way, outer), NEW rule
    PROVE  Follows(Longer(way, rule), IF outer = NoRules THEN rule ELSE outer)
  <1>1. PICK S : way \in Seq(S)
    BY DEF Follows
  <1>2. CASE rule = NoRules
    BY <1>2 DEF Follows, Longer
  <1>3. CASE rule # NoRules
    <2> DEFINE T == S \cup {rule}
               longer == Append(way, rule)
    <2>1. way \in Seq(T) /\ rule \in T
      BY <1>1
    <2>2. longer \in Seq(T) /\ Len(longer) = Len(way) + 1 /\ Len(way) \in Nat
      BY <2>1
    <2>3. longer # <<>>
      BY <2>2
    <2>4. CASE way = <<>>
      <3>1. longer[1] = rule
        BY <2>4
      <3>2. outer = NoRules
        BY <2>4 DEF Follows, Outermost
      <3> QED
        BY <1>3, <2>2, <2>3, <3>1, <3>2 DEF Follows, Longer, Outermost
    <2>5. CASE way # <<>>
      <3>1. Len(way) >= 1
        BY <2>1, <2>5
      <3>2. longer[1] = way[1]
        BY <2>1, <3>1
      <3>3. outer = way[1] /\ outer # NoRules
        BY <2>5 DEF Follows, Outermost
      <3> QED
        BY <1>3, <2>2, <2>3, <3>2, <3>3 DEF Follows, Longer, Outermost
    <2> QED
      BY <2>4, <2>5
  <1> QED
    BY <1>2, <1>3

LEMMA ChildWayKnown ==
    ASSUME PInv, WayKnown, NEW x \in level, ExpandChild(x), phase # "lost"
    PROVE  WayKnown'
  <1>1. phase = "done" /\ rules' = x.filter /\ ways' = WaysTo(x.orig)
    BY DEF ExpandChild, Start
  <1>2. PICK way \in ways : Follows(way, rules)
    BY <1>1 DEF WayKnown
  <1>3. Permitted(x)
    BY <1>1 DEF PInv, LevelPermitted
  <1>4. PICK o \in Offers : /\ o.orig = x.orig /\ Stays(o, rules)
                            /\ x.filter = IF rules = NoRules THEN o.rule ELSE rules
    BY <1>3, PermittedIsWanted
  <1>5. o \in Wanted(way)
    BY <1>2, <1>4 DEF Wanted, Follows
  <1> DEFINE To(u) == {Longer(u, z.rule) : z \in {z \in Wanted(u) : z.orig = x.orig}}
  <1>6. Longer(way, o.rule) \in To(way)
    BY <1>4, <1>5
  <1>7. WaysTo(x.orig) = UNION {To(u) : u \in ways}
    BY DEF WaysTo
  <1> HIDE DEF To
  <1>8. Longer(way, o.rule) \in ways'
    BY <1>1, <1>2, <1>6, <1>7
  <1>9. Follows(Longer(way, o.rule), x.filter)
    BY <1>2, <1>4, LongerFollows
  <1> QED
    BY <1>1, <1>8, <1>9 DEF WayKnown, Follows

LEMMA NextWayKnown ==
    ASSUME PInv, WayKnown, [Next]_vars, phase # "lost"
    PROVE  WayKnown'
  <1>1. CASE ExpandTop
    <2>1. rules' = NoRules /\ ways' = {<<>>}
      BY <1>1 DEF ExpandTop, Start
    <2>2. <<>> \in Seq({})
      OBVIOUS
    <2>3. Follows(<<>>, NoRules)
      BY <2>2 DEF Follows, Outermost
    <2> QED
      BY <2>1, <2>3 DEF WayKnown, Follows
  <1>2. ASSUME NEW x \in level, ExpandChild(x) PROVE WayKnown'
    BY <1>2, ChildWayKnown
  <1>3. ASSUME UNCHANGED <<rules, ways>>,
               \/ phase' \notin {"level", "copy", "temp", "done"}
               \/ phase \in {"level", "copy", "temp", "done"}
        PROVE  WayKnown'
    BY <1>3 DEF WayKnown, Follows
  <1>4. CASE Steps
    <2>1. phase \in {"level", "copy", "temp"} /\ UNCHANGED params
      <3>1. CASE LevelReference
        BY <3>1 DEF LevelReference, BeginReference
      <3>2. CASE NoSuchTree
        BY <3>2 DEF NoSuchTree, Fails
      <3>3. CASE CopyEmpty \/ CopyReference \/ CopyObject \/ CopyReturns
        BY <3>3 DEF CopyEmpty, CopyReference, CopyObject, CopyReturns, Copying
      <3>4. CASE EndOfCopy \/ EndOfReference \/ EndOfLevel
        BY <3>4 DEF EndOfCopy, EndOfReference, EndOfLevel
      <3>5. ASSUME NEW x, Item(x), Advance(x) \/ Fails
            PROVE  phase \in {"level", "copy", "temp"} /\ UNCHANGED params
        BY <3>5 DEF Item, Advance, Fails, BeginReference
      <3>6. ASSUME NEW x,
                   SkipObject(x) \/ CopyItem(x) \/ ChoiceItem(x) \/ CallbackItem(x) \/ CallbackFails(x)
            PROVE  Item(x) /\ (Advance(x) \/ Fails)
        BY <3>6 DEF SkipObject, CopyItem, ChoiceItem, CallbackItem, CallbackFails
      <3> QED
        BY <1>4, <3>1, <3>2, <3>3, <3>4, <3>5, <3>6 DEF Steps
    <2> QED
      BY <1>3, <2>1 DEF params
  <1>5. CASE \/ NoActive \/ EndOfCommand
             \/ \E t \in Tree : WpSet(t) \/ WpUp(t) \/ WpTop(t)
             \/ \E name \in Tree \cup {Unknown} : Activate(name)
    <2>1. phase' \in {"idle", "crashed"} /\ UNCHANGED params
      BY <1>5 DEF NoActive, EndOfCommand, WpSet, WpUp, WpTop, Activate, Callback
    <2> QED
      BY <1>3, <2>1 DEF params
  <1>6. CASE UNCHANGED vars
    BY <1>3, <1>6 DEF vars, params, WayKnown
  <1> QED
    BY <1>1, <1>2, <1>4, <1>5, <1>6 DEF Next

(* What pt_expand puts on a level is an object of the level or of a tree   *)
(* that its references reach, is not hidden, and no rule of a reference on *)
(* the way to it filters it, of those around the level the outermost that  *)
(* has rules; a word of a callback is there only where the callback is     *)
(* called.  So for any trees, working points and commands.                 *)
THEOREM LevelCorrect == Spec => []OffersNothingElse
  <1> DEFINE Inv == PInv /\ (phase # "lost" => WayKnown)
  <1>1. Init => Inv
    BY DEF Init, PInv, LevelPermitted, CopyPermitted, StackPermitted, WayKnown
  <1>2. IInv /\ Inv /\ [Next]_vars => Inv'
    <2> SUFFICES ASSUME IInv, Inv, [Next]_vars PROVE Inv'
      OBVIOUS
    <2>1. PInv'
      BY NextPermits
    <2>2. phase' # "lost" => phase # "lost"
      BY LostIsFinal
    <2> QED
      BY <2>1, <2>2, NextWayKnown
  <1>3. Inv => OffersNothingElse
    <2> SUFFICES ASSUME Inv, phase = "done" PROVE OffersNothingElse
      BY DEF OffersNothingElse
    <2>1. \A y \in level : Permitted(y)
      BY DEF PInv, LevelPermitted
    <2>2. PICK way \in ways : rules = Outermost(way)
      BY DEF WayKnown, Follows
    <2>3. \A o \in Offers : Stays(o, rules) => o \in Wanted(way)
      BY <2>2 DEF Wanted
    <2>4. ASSUME NEW y \in level, ~y.appended
          PROVE  \E o \in Wanted(way) : <<y.name, y.kind>> \in Reads(o)
      BY <2>1, <2>3, <2>4, PermittedIsWanted
    <2>5. ASSUME NEW y \in level, y.appended
          PROVE  expandvar /\ \E o \in Wanted(way) : o.orig = y.orig /\ y.name \in Said(o.orig).words
      BY <2>1, <2>3, <2>5, PermittedIsWanted
    <2>6. {<<x.name, x.kind>> : x \in {y \in level : ~y.appended}}
            \subseteq UNION {Reads(o) : o \in Wanted(way)}
      BY <2>4
    <2> QED
      BY <2>2, <2>5, <2>6 DEF OffersNothingElse
  <1> HIDE DEF Inv
  <1> QED
    BY <1>1, <1>2, <1>3, ExpandInvariant, PTL DEF Spec
=============================================================================
