---------------------------- MODULE GetlineProofs ----------------------------
(***************************************************************************)
(* Proofs about Getline and the editing keys of LineEdit, which it is made *)
(* of, for every set of characters and of history lines, for lines of any  *)
(* length and for every size of the history and of the search string.  The *)
(* first part is about the keys alone (EditSpec), the second about all.    *)
(***************************************************************************)
EXTENDS Getline, SequenceTheorems, WellFoundedInduction, FiniteSetTheorems, TLAPS

(* The inductive invariant.  The sizes of the buffers are not in it. *)
LineInv ==
    /\ buf \in Seq(Char) /\ kill \in Seq(Char)
    /\ CursorInLine
    /\ pos \in Nat

----------------------------------------------------------------------------
(* The ends of a set of numbers. *)

Less == {ss \in Nat \X Nat : ss[1] < ss[2]}

LEMMA LessWellFounded == IsWellFoundedOn(Less, Nat)
  <1>1. OpToRel(<, Nat) = Less
    BY Zenon DEF OpToRel, Less
  <1> QED
    BY <1>1, NatLessThanWellFounded, Zenon

LEMMA LeftmostIsLeast ==
    ASSUME NEW S, S \subseteq Nat, S # {}
    PROVE  Leftmost(S) \in S /\ \A q \in S : Leftmost(S) <= q
  <1>1. PICK p \in S : \A q \in S : <<q, p>> \notin Less
    BY LessWellFounded, WFMin, Zenon
  <1>2. \A q \in S : p <= q
    <2> SUFFICES ASSUME NEW q \in S PROVE p <= q
      OBVIOUS
    <2>1. p \in Nat /\ q \in Nat /\ <<q, p>> \in Nat \X Nat
      OBVIOUS
    <2>2. ~(q < p)
      BY <1>1, <2>1, Zenon DEF Less
    <2> QED
      BY <2>1, <2>2
  <1> QED
    BY <1>2 DEF Leftmost

LEMMA RightmostIsGreatest ==
    ASSUME NEW n \in Nat, NEW S, S \subseteq 0 .. n, S # {}
    PROVE  Rightmost(S) \in S /\ \A q \in S : q <= Rightmost(S)
  <1> DEFINE T == {n - q : q \in S}
             d == Leftmost(T)
  <1>1. T \subseteq Nat /\ T # {}
    <2>1. \A q \in S : n - q \in Nat
      OBVIOUS
    <2>2. PICK q \in S : TRUE
      OBVIOUS
    <2>3. n - q \in T
      OBVIOUS
    <2> QED
      BY <2>1, <2>3, Zenon
  <1>2. d \in T /\ \A e \in T : d <= e
    BY <1>1, LeftmostIsLeast
  <1>3. PICK p \in S : d = n - p
    BY <1>2
  <1>4. \A q \in S : q <= p
    <2> SUFFICES ASSUME NEW q \in S PROVE q <= p
      OBVIOUS
    <2>1. n - q \in T
      OBVIOUS
    <2>2. n - p <= n - q
      BY <1>2, <1>3, <2>1
    <2> QED
      BY <2>2
  <1> QED
    BY <1>4 DEF Rightmost

(* The words next to a position of the line begin inside the line. *)
LEMMA LeftWordInLine ==
    ASSUME NEW p \in Nat
    PROVE  WordLeftOf(p) \in Nat /\ (p # 0 => WordLeftOf(p) <= p)
  <1> DEFINE start == IF p > 0 THEN p - 1 ELSE p
             S     == {q \in 0 .. start : q = 0 \/ ~IsSpace(q)}
             last  == Rightmost(S)
             R     == {q \in 0 .. last : q = 0 \/ IsSpace(q)}
             stop  == Rightmost(R)
  <1>1. start \in Nat /\ (p # 0 => start + 1 = p) /\ 0 \in S /\ S \subseteq 0 .. start
    OBVIOUS
  <1> HIDE DEF start, S
  <1>2. last \in 0 .. start
    BY <1>1, RightmostIsGreatest
  <1> HIDE DEF last
  <1>3. last \in Nat
    BY <1>1, <1>2
  <1>4. 0 \in R /\ R \subseteq 0 .. last
    BY <1>3
  <1> HIDE DEF R
  <1>5. stop \in 0 .. last
    BY <1>3, <1>4, RightmostIsGreatest
  <1>6. stop \in Nat /\ stop <= start
    BY <1>1, <1>2, <1>3, <1>5
  <1>7. WordLeftOf(p) = IF IsSpace(stop) THEN stop + 1 ELSE stop
    BY DEF WordLeftOf, start, S, last, R
  <1> HIDE DEF stop
  <1> QED
    BY <1>1, <1>6, <1>7

LEMMA RightWordInLine ==
    ASSUME NEW p \in Nat, cnt \in Nat, p <= cnt
    PROVE  WordRightOf(p) \in Nat
  <1> DEFINE S     == {q \in p .. cnt : q = cnt \/ IsSpace(q)}
             space == Leftmost(S)
             R     == {q \in space .. cnt : q = cnt \/ ~IsSpace(q)}
  <1>1. S \subseteq Nat /\ cnt \in S /\ S \subseteq p .. cnt
    OBVIOUS
  <1> HIDE DEF S
  <1>2. space \in p .. cnt
    BY <1>1, LeftmostIsLeast
  <1> HIDE DEF space
  <1>3. space \in Nat /\ space <= cnt
    BY <1>2
  <1>4. R \subseteq Nat /\ cnt \in R
    BY <1>3
  <1> HIDE DEF R
  <1>5. Leftmost(R) \in Nat
    BY <1>4, LeftmostIsLeast
  <1>6. WordRightOf(p) = Leftmost(R)
    BY DEF WordRightOf, S, space, R
  <1> QED
    BY <1>5, <1>6

----------------------------------------------------------------------------
(* gl_fixup. *)

LEMMA ClampedInLine ==
    ASSUME NEW c \in Int, NEW n \in Nat
    PROVE  Clamped(c, n) \in 0 .. n
  BY DEF Clamped

LEMMA AfterFixup ==
    ASSUME NEW c \in Int, buf' \in Seq(Char), Fixup(c)
    PROVE  CursorInLine' /\ pos' \in Nat
  <1>1. Len(buf') \in Nat
    OBVIOUS
  <1>2. Clamped(c, Len(buf')) \in 0 .. Len(buf')
    BY <1>1, ClampedInLine
  <1> QED
    BY <1>1, <1>2 DEF Fixup, CursorInLine

LEMMA AfterMove ==
    ASSUME LineInv, NEW c \in Int, Move(c)
    PROVE  CursorInLine' /\ pos' \in Nat /\ buf' = buf
  <1>1. cnt \in Nat
    BY DEF LineInv, CursorInLine
  <1>2. Clamped(c, cnt) \in 0 .. cnt
    BY <1>1, ClampedInLine
  <1> QED
    BY <1>1, <1>2 DEF Move, LineInv, CursorInLine

(* Parts of a line are lines. *)
LEMMA PartsOfLine ==
    ASSUME NEW l \in Seq(Char), NEW p \in Nat, p <= Len(l)
    PROVE  Upto(l, p) \in Seq(Char) /\ Behind(l, p) \in Seq(Char)
  <1>1. \A k \in 1 .. p : l[k] \in Char
    OBVIOUS
  <1>2. \A k \in p + 1 .. Len(l) : l[k] \in Char
    OBVIOUS
  <1> QED
    BY <1>1, <1>2, SubSeqProperties DEF Upto, Behind

LEMMA BehindOfLine ==
    ASSUME NEW l \in Seq(Char), NEW p \in Nat
    PROVE  Behind(l, p) \in Seq(Char)
  <1>1. \A k \in p + 1 .. Len(l) : l[k] \in Char
    OBVIOUS
  <1> QED
    BY <1>1, SubSeqProperties DEF Behind

(* What a replacement of the line keeps, whoever replaces it. *)
LEMMA ReplaceKeeps ==
    ASSUME LineInv, NEW l \in Seq(Char), NEW c \in Int, Replace(l, c)
    PROVE  LineInv'
  BY AfterFixup DEF Replace, LineInv, NotKill

(* A part of the line is cut to the kill buffer. *)
LEMMA KilledKeeps ==
    ASSUME LineInv, NEW from \in Nat, NEW to \in Nat, to <= cnt, from <= cnt,
           Killed(from, to)
    PROVE  LineInv'
  <1>1. Upto(buf, from) \in Seq(Char) /\ Behind(buf, to) \in Seq(Char)
    BY PartsOfLine DEF LineInv, CursorInLine
  <1>2. buf' \in Seq(Char)
    BY <1>1, ConcatProperties DEF Killed
  <1>3. \A k \in from + 1 .. to : buf[k] \in Char
    BY DEF LineInv, CursorInLine
  <1>4. kill' \in Seq(Char)
    BY <1>3, SubSeqProperties DEF Killed
  <1> QED
    BY <1>2, <1>4, AfterFixup DEF Killed, LineInv

----------------------------------------------------------------------------
(* The size of the buffers. *)

(* Induction: a set of numbers with 0 and the successors of its members *)
(* leaves no number out, since there is no least one that it leaves out. *)
LEMMA SetInduction ==
    ASSUME NEW T, 0 \in T, \A k \in Nat : k \in T => k + 1 \in T
    PROVE  \A k \in Nat : k \in T
  <1> SUFFICES ASSUME Nat \ T # {} PROVE FALSE
    OBVIOUS
  <1> DEFINE S == Nat \ T
             k == Leftmost(S)
  <1>1. S \subseteq Nat /\ S # {}
    OBVIOUS
  <1>2. k \in S /\ \A q \in S : k <= q
    BY <1>1, LeftmostIsLeast
  <1> HIDE DEF k
  <1>3. k # 0 /\ k - 1 \in Nat
    BY <1>2
  <1>4. k - 1 \in T
    BY <1>2, <1>3
  <1> QED
    BY <1>2, <1>3, <1>4

(* A function on 0 .. n with the values of Doubling. *)
DoublesTo(n, f) ==
    /\ f \in [0 .. n -> Nat]
    /\ f[0] = 1
    /\ \A k \in 1 .. n : f[k] = 2 * f[k - 1]

LEMMA DoublesExist == \A n \in Nat : \E f : DoublesTo(n, f)
  <1> DEFINE T == {n \in Nat : \E f : DoublesTo(n, f)}
  <1>1. 0 \in T
    <2>1. DoublesTo(0, [k \in 0 .. 0 |-> 1])
      BY DEF DoublesTo
    <2> QED
      BY <2>1
  <1>2. ASSUME NEW n \in Nat, n \in T PROVE n + 1 \in T
    <2>1. PICK f : DoublesTo(n, f)
      BY <1>2
    <2> DEFINE g == [k \in 0 .. n + 1 |-> IF k = n + 1 THEN 2 * f[n] ELSE f[k]]
    <2>2. f[n] \in Nat
      BY <2>1 DEF DoublesTo
    <2>3. \A k \in 0 .. n + 1 : k # n + 1 => k \in 0 .. n
      OBVIOUS
    <2>4. g \in [0 .. n + 1 -> Nat]
      BY <2>1, <2>2, <2>3 DEF DoublesTo
    <2>5. g[0] = 1
      BY <2>1 DEF DoublesTo
    <2>6. ASSUME NEW k \in 1 .. n + 1 PROVE g[k] = 2 * g[k - 1]
      <3>1. k - 1 \in 0 .. n + 1 /\ k - 1 # n + 1 /\ k \in 0 .. n + 1
        OBVIOUS
      <3>2. g[k - 1] = f[k - 1] /\ g[k] = IF k = n + 1 THEN 2 * f[n] ELSE f[k]
        BY <3>1
      <3>3. CASE k = n + 1
        <4>1. k - 1 = n
          BY <3>3
        <4> QED
          BY <3>2, <3>3, <4>1
      <3>4. CASE k # n + 1
        <4>1. k \in 1 .. n
          BY <3>4
        <4> QED
          BY <2>1, <3>2, <3>4, <4>1 DEF DoublesTo
      <3> QED
        BY <3>3, <3>4
    <2> HIDE DEF g
    <2>7. DoublesTo(n + 1, g)
      BY <2>4, <2>5, <2>6 DEF DoublesTo
    <2> QED
      BY <2>7
  <1> HIDE DEF T
  <1>3. \A n \in Nat : n \in T
    BY <1>1, <1>2, SetInduction
  <1> QED
    BY <1>3 DEF T

LEMMA DoublesAgree ==
    ASSUME NEW n \in Nat, NEW m \in Nat, NEW f, NEW g,
           DoublesTo(n, f), DoublesTo(m, g)
    PROVE  \A k \in Nat : k <= n /\ k <= m => f[k] = g[k]
  <1> DEFINE T == {k \in Nat : k <= n /\ k <= m => f[k] = g[k]}
  <1>1. 0 \in T
    BY DEF DoublesTo
  <1>2. ASSUME NEW k \in Nat, k \in T PROVE k + 1 \in T
    <2> SUFFICES ASSUME k + 1 <= n, k + 1 <= m PROVE f[k + 1] = g[k + 1]
      OBVIOUS
    <2>1. f[k] = g[k]
      BY <1>2
    <2>2. k + 1 \in 1 .. n /\ k + 1 \in 1 .. m /\ (k + 1) - 1 = k
      OBVIOUS
    <2>3. f[k + 1] = 2 * f[(k + 1) - 1] /\ g[k + 1] = 2 * g[(k + 1) - 1]
      BY <2>2, Zenon DEF DoublesTo
    <2> QED
      BY <2>1, <2>2, <2>3
  <1> HIDE DEF T
  <1>3. \A k \in Nat : k \in T
    BY <1>1, <1>2, SetInduction
  <1> QED
    BY <1>3 DEF T

(* Doubling is the function that its definition describes. *)
LEMMA DoublingIsFunction ==
    Doubling = [k \in Nat |-> IF k = 0 THEN 1 ELSE 2 * Doubling[k - 1]]
  <1> DEFINE F(n) == CHOOSE f : DoublesTo(n, f)
             D    == [n \in Nat |-> F(n)[n]]
  <1>1. \A n \in Nat : DoublesTo(n, F(n))
    BY DoublesExist
  <1> HIDE DEF F
  <1>2. ASSUME NEW n \in Nat PROVE D[n] = IF n = 0 THEN 1 ELSE 2 * D[n - 1]
    <2>1. CASE n = 0
      BY <1>1, <2>1 DEF DoublesTo
    <2>2. CASE n # 0
      <3>1. n - 1 \in Nat /\ n - 1 <= n /\ n \in 1 .. n
        BY <2>2
      <3>2. F(n)[n] = 2 * F(n)[n - 1]
        BY <1>1, <3>1 DEF DoublesTo
      <3>3. F(n)[n - 1] = F(n - 1)[n - 1]
        BY <1>1, <3>1, DoublesAgree
      <3> QED
        BY <2>2, <3>1, <3>2, <3>3
    <2> QED
      BY <2>1, <2>2
  <1>3. D = [k \in Nat |-> IF k = 0 THEN 1 ELSE 2 * D[k - 1]]
    <2>1. D = [k \in Nat |-> D[k]]
      OBVIOUS
    <2> HIDE DEF D
    <2> QED
      BY <1>2, <2>1
  <1> HIDE DEF D
  <1> QED
    BY <1>3 DEF Doubling

LEMMA DoublingSteps ==
    \A k \in Nat : Doubling[k] = IF k = 0 THEN 1 ELSE 2 * Doubling[k - 1]
  <1> DEFINE E(k) == IF k = 0 THEN 1 ELSE 2 * Doubling[k - 1]
  <1>1. Doubling = [k \in Nat |-> E(k)]
    BY DoublingIsFunction, Zenon
  <1> HIDE DEF E
  <1>2. \A k \in Nat : Doubling[k] = E(k)
    BY <1>1, Zenon
  <1> QED
    BY <1>2 DEF E

LEMMA DoublingIsLarge ==
    \A k \in Nat : Doubling[k] \in Nat /\ Doubling[k] >= k + 1
  <1> DEFINE T == {k \in Nat : Doubling[k] \in Nat /\ Doubling[k] >= k + 1}
  <1>1. \A k \in Nat : Doubling[k] = IF k = 0 THEN 1 ELSE 2 * Doubling[k - 1]
    BY DoublingSteps
  <1>2. 0 \in T
    BY <1>1
  <1>3. ASSUME NEW k \in Nat, k \in T PROVE k + 1 \in T
    <2>1. Doubling[k + 1] = 2 * Doubling[k]
      BY <1>1
    <2> QED
      BY <1>3, <2>1
  <1> HIDE DEF T
  <1>4. \A k \in Nat : k \in T
    BY <1>2, <1>3, SetInduction
  <1> QED
    BY <1>4 DEF T

(* The loop of the increase ends, with room for len1 bytes and a '\0'. *)
LEMMA GrownFits ==
    ASSUME NEW size \in Nat \ {0}, NEW len1 \in Nat
    PROVE  /\ Grown(size, len1) \in Nat
           /\ Grown(size, len1) >= size /\ Grown(size, len1) >= len1 + 1
  <1> DEFINE S == {k \in 0 .. len1 : size * Doubling[k] >= len1 + 1}
             k == Leftmost(S)
             n == size * Doubling[k]
             Sizes == {size * Doubling[j] : j \in 0 .. len1}
             Enough(m) == m >= len1 + 1 /\ (m = size \/ m < 2 * (len1 + 1))
  <1>1. ASSUME NEW j \in Nat
        PROVE  size * Doubling[j] \in Nat /\ size * Doubling[j] >= Doubling[j]
               /\ size * Doubling[j] >= size
    <2>1. Doubling[j] \in Nat /\ Doubling[j] >= 1
      BY DoublingIsLarge
    <2> HIDE DEF S, k, n, Sizes, Enough
    <2>2. \A x, y \in Nat : x >= 1 /\ y >= 1 => x * y \in Nat /\ x * y >= y /\ x * y >= x
      OBVIOUS
    <2> QED
      BY <2>1, <2>2
  <1>2. len1 \in S
    BY <1>1, DoublingIsLarge
  <1>3. S \subseteq Nat /\ S # {}
    BY <1>2
  <1>4. k \in S /\ \A q \in S : k <= q
    BY <1>3, LeftmostIsLeast
  <1>5. k \in 0 .. len1 /\ n >= len1 + 1
    BY <1>4
  <1>6. n = size \/ n < 2 * (len1 + 1)
    <2>1. Doubling[k] = IF k = 0 THEN 1 ELSE 2 * Doubling[k - 1]
      BY <1>5, DoublingSteps
    <2>2. CASE k = 0
      BY <2>1, <2>2
    <2>3. CASE k # 0
      <3>1. k - 1 \in 0 .. len1 /\ k - 1 \in Nat /\ ~(k <= k - 1)
        BY <1>5, <2>3
      <3>2. k - 1 \notin S
        BY <1>4, <3>1
      <3>3. ~(size * Doubling[k - 1] >= len1 + 1)
        BY <3>1, <3>2
      <3>4. n = 2 * (size * Doubling[k - 1])
        BY <2>1, <2>3, <3>1, DoublingIsLarge
      <3>5. size * Doubling[k - 1] \in Nat
        BY <1>1, <3>1
      <3> QED
        BY <3>3, <3>4, <3>5
    <2> QED
      BY <2>2, <2>3
  <1>7. n \in Sizes /\ Enough(n)
    BY <1>5, <1>6
  <1> HIDE DEF k, n
  <1>8. Grown(size, len1) = CHOOSE m \in Sizes : Enough(m)
    BY DEF Grown
  <1> HIDE DEF Enough
  <1>9. Grown(size, len1) \in Sizes /\ Enough(Grown(size, len1))
    BY <1>7, <1>8
  <1>10. PICK j \in 0 .. len1 : Grown(size, len1) = size * Doubling[j]
    BY <1>9
  <1> QED
    BY <1>1, <1>9, <1>10 DEF Enough

----------------------------------------------------------------------------
LEMMA InitInv == EditInit => LineInv
  BY DEF EditInit, LineInv, CursorInLine

LEMMA AddCharKeeps ==
    ASSUME LineInv, NEW c \in Char, AddChar(c)
    PROVE  LineInv'
  <1>1. pos \in Nat /\ pos <= Len(buf) /\ cnt = Len(buf)
    BY DEF LineInv, CursorInLine
  <1>2. buf' \in Seq(Char)
    <2>1. CASE overwrite /\ pos # cnt
      <3>1. pos + 1 \in 1 .. Len(buf)
        BY <1>1, <2>1 DEF LineInv
      <3>2. buf' = [buf EXCEPT ![pos + 1] = c]
        BY <2>1 DEF AddChar
      <3> QED
        BY <3>1, <3>2, ExceptSeq DEF LineInv
    <2>2. CASE ~(overwrite /\ pos # cnt)
      <3>1. buf' = Upto(buf, pos) \o <<c>> \o Behind(buf, pos)
        BY <2>2 DEF AddChar
      <3>2. Upto(buf, pos) \in Seq(Char) /\ Behind(buf, pos) \in Seq(Char)
        BY <1>1, PartsOfLine DEF LineInv
      <3>3. <<c>> \in Seq(Char)
        OBVIOUS
      <3> QED
        BY <3>1, <3>2, <3>3, ConcatProperties
    <2> QED
      BY <2>1, <2>2
  <1> QED
    BY <1>1, <1>2, AfterFixup DEF AddChar, LineInv, NotKill

LEMMA YankKeeps ==
    ASSUME LineInv, Yank
    PROVE  LineInv'
  <1>1. pos \in Nat /\ pos <= Len(buf) /\ Len(kill) \in Nat
    BY DEF LineInv, CursorInLine
  <1>2. /\ Upto(buf, pos) \in Seq(Char) /\ Behind(buf, pos) \in Seq(Char)
        /\ Behind(buf, pos + Len(kill)) \in Seq(Char)
    BY <1>1, PartsOfLine, BehindOfLine DEF LineInv
  <1>3. /\ Upto(buf, pos) \o kill \o Behind(buf, pos) \in Seq(Char)
        /\ Upto(buf, pos) \o kill \o Behind(buf, pos + Len(kill)) \in Seq(Char)
    BY <1>2, ConcatProperties DEF LineInv
  <1>4. buf' \in Seq(Char)
    BY <1>3 DEF Yank
  <1>5. Fixup(pos + Len(kill)) /\ kill' = kill
    BY DEF Yank, NotKill
  <1> QED
    BY <1>1, <1>4, <1>5, AfterFixup DEF LineInv

LEMMA TransposeKeeps ==
    ASSUME LineInv, Transpose
    PROVE  LineInv'
  <1>1. pos \in 1 .. Len(buf) /\ pos + 1 \in 1 .. Len(buf)
    BY DEF LineInv, CursorInLine, Transpose
  <1>2. buf[pos] \in Char /\ buf[pos + 1] \in Char
    BY <1>1 DEF LineInv
  <1>3. [buf EXCEPT ![pos] = buf[pos + 1]] \in Seq(Char)
    BY <1>1, <1>2, ExceptSeq DEF LineInv
  <1>4. [buf EXCEPT ![pos] = buf[pos + 1], ![pos + 1] = buf[pos]] \in Seq(Char)
    BY <1>1, <1>2 DEF LineInv
  <1> QED
    BY <1>1, <1>4, AfterFixup DEF Transpose, LineInv, NotKill

LEMMA DelKeeps ==
    ASSUME LineInv, NEW loc \in {-1, 0}, Del(loc)
    PROVE  LineInv'
  <1>1. pos + loc \in Nat /\ pos + loc <= Len(buf)
    BY DEF LineInv, CursorInLine, Del
  <1>2. Upto(buf, pos + loc) \in Seq(Char) /\ Behind(buf, pos + loc + 1) \in Seq(Char)
    BY <1>1, PartsOfLine, BehindOfLine DEF LineInv
  <1>3. buf' \in Seq(Char)
    BY <1>2, ConcatProperties DEF Del
  <1> QED
    BY <1>1, <1>3, AfterFixup DEF Del, LineInv, NotKill

(* The keys that only move the cursor or change the mode. *)
LEMMA MoveKeeps ==
    ASSUME LineInv, WordLeft \/ WordRight \/ Cursor \/ Overwrite
    PROVE  LineInv'
  <1>1. pos \in Nat /\ cnt \in Nat /\ pos <= cnt
    BY DEF LineInv, CursorInLine
  <1>2. CASE WordLeft
    <2>1. WordLeftOf(pos) \in Int
      BY <1>1, LeftWordInLine
    <2> QED
      BY <1>2, <2>1, AfterMove DEF WordLeft, LineInv, NotKill
  <1>3. CASE WordRight
    <2>1. WordRightOf(pos) \in Int
      BY <1>1, RightWordInLine
    <2> QED
      BY <1>3, <2>1, AfterMove DEF WordRight, LineInv, NotKill
  <1>4. CASE Cursor
    <2>1. PICK cursor \in {0, cnt, pos - 1, pos + 1} : Move(cursor)
      BY <1>4 DEF Cursor
    <2>2. cursor \in Int
      BY <1>1, <2>1
    <2> QED
      BY <1>4, <2>1, <2>2, AfterMove DEF Cursor, LineInv, NotKill
  <1>5. CASE Overwrite
    BY <1>5 DEF Overwrite, LineInv, NotKill, text, CursorInLine
  <1> QED
    BY <1>2, <1>3, <1>4, <1>5

LEMMA EditKeyKeeps ==
    ASSUME LineInv, EditKey
    PROVE  LineInv'
  <1>1. pos \in Nat /\ cnt \in Nat /\ pos <= cnt
    BY DEF LineInv, CursorInLine
  <1>2. ASSUME KillEnd(pos) \/ KillEnd(0) PROVE LineInv'
    BY <1>1, <1>2, KilledKeeps DEF KillEnd
  <1>3. ASSUME KillBegin PROVE LineInv'
    BY <1>1, <1>3, KilledKeeps DEF KillBegin
  <1>4. ASSUME KillWord PROVE LineInv'
    <2>1. KilledFrom(pos) \in Nat /\ KilledFrom(pos) <= cnt
      BY <1>1, <1>4, LeftWordInLine DEF KillWord, KilledFrom
    <2>2. Killed(KilledFrom(pos), pos)
      BY <1>4 DEF KillWord
    <2> QED
      BY <1>1, <2>1, <2>2, KilledKeeps
  <1> QED
    BY <1>2, <1>3, <1>4, YankKeeps, TransposeKeeps, DelKeeps, MoveKeeps DEF EditKey

----------------------------------------------------------------------------
(* The line and the kill buffer fit in what is allocated, with their '\0'. *)
FitInv ==
    /\ bufSize \in Nat /\ killSize \in Nat
    /\ Len(buf) < bufSize /\ Len(kill) < killSize

(* A buffer never gets smaller. *)
Grows == bufSize' >= bufSize

LEMMA InitFits == EditInit => FitInv
  <1> SUFFICES ASSUME EditInit PROVE FitInv
    OBVIOUS
  <1>1. Len(<< >>) = 0
    OBVIOUS
  <1>2. Len(buf) = 0 /\ Len(kill) = 0
    BY <1>1, Zenon DEF EditInit
  <1> QED
    BY <1>2, EditAssumption DEF EditInit, FitInv

(* How long the parts of a line are. *)
LEMMA LengthOfParts ==
    ASSUME NEW l \in Seq(Char), NEW p \in Nat
    PROVE  /\ Len(Behind(l, p)) = IF p <= Len(l) THEN Len(l) - p ELSE 0
           /\ p <= Len(l) => Len(Upto(l, p)) = p
  <1>1. \A k \in p + 1 .. Len(l) : l[k] \in Char
    OBVIOUS
  <1>2. Len(Behind(l, p)) = IF p + 1 <= Len(l) THEN Len(l) - (p + 1) + 1 ELSE 0
    BY <1>1, SubSeqProperties DEF Behind
  <1>3. ASSUME p <= Len(l) PROVE Len(Upto(l, p)) = p
    <2>1. \A k \in 1 .. p : l[k] \in Char
      BY <1>3
    <2>2. Len(Upto(l, p)) = IF 1 <= p THEN p - 1 + 1 ELSE 0
      BY <2>1, SubSeqProperties DEF Upto
    <2> QED
      BY <2>2
  <1> QED
    BY <1>2, <1>3

(* The size of a buffer after cligen_buf_increase or cligen_killbuf_increase. *)
LEMMA GrownRoom ==
    ASSUME FitInv, NEW n \in Nat
    PROVE  /\ Grown(bufSize, n) \in Nat
           /\ Grown(bufSize, n) >= bufSize /\ Grown(bufSize, n) > n
           /\ Grown(killSize, n) \in Nat /\ Grown(killSize, n) > n
  <1>1. bufSize \in Nat \ {0} /\ killSize \in Nat \ {0}
    <2>1. Len(buf) >= 0 /\ Len(kill) >= 0
      BY DEF FitInv
    <2> QED
      BY <2>1 DEF FitInv
  <1>2. ASSUME NEW size \in Nat \ {0}
        PROVE  /\ Grown(size, n) \in Nat
               /\ Grown(size, n) >= size /\ Grown(size, n) > n
    <2>1. /\ Grown(size, n) \in Nat
          /\ Grown(size, n) >= size /\ Grown(size, n) >= n + 1
      BY GrownFits
    <2> QED
      BY <2>1
  <1> QED
    BY <1>1, <1>2

LEMMA AddCharFits ==
    ASSUME LineInv, FitInv, NEW c \in Char, AddChar(c)
    PROVE  FitInv' /\ Grows
  <1>1. pos \in Nat /\ pos <= Len(buf) /\ cnt = Len(buf) /\ Len(buf) \in Nat
    BY DEF LineInv, CursorInLine
  <1>2. bufSize' = Grown(bufSize, cnt + 1) /\ kill' = kill /\ killSize' = killSize
    BY DEF AddChar, NotKill
  <1>3. bufSize' \in Nat /\ bufSize' >= bufSize /\ bufSize' > cnt + 1
    BY <1>1, <1>2, GrownRoom
  <1>4. Len(buf') <= cnt + 1
    <2>1. CASE overwrite /\ pos # cnt
      <3>1. pos + 1 \in 1 .. Len(buf)
        BY <1>1, <2>1
      <3>2. buf' = [buf EXCEPT ![pos + 1] = c]
        BY <2>1 DEF AddChar
      <3>3. Len(buf') = Len(buf)
        BY <3>1, <3>2, ExceptSeq DEF LineInv
      <3> QED
        BY <1>1, <3>3
    <2>2. CASE ~(overwrite /\ pos # cnt)
      <3>1. buf' = Upto(buf, pos) \o <<c>> \o Behind(buf, pos)
        BY <2>2 DEF AddChar
      <3>2. Upto(buf, pos) \in Seq(Char) /\ Behind(buf, pos) \in Seq(Char)
        BY <1>1, PartsOfLine DEF LineInv
      <3>3. Len(Upto(buf, pos)) = pos /\ Len(Behind(buf, pos)) = Len(buf) - pos
        BY <1>1, LengthOfParts DEF LineInv
      <3>4. <<c>> \in Seq(Char) /\ Len(<<c>>) = 1
        OBVIOUS
      <3>5. Upto(buf, pos) \o <<c>> \in Seq(Char) /\ Len(Upto(buf, pos) \o <<c>>) = pos + 1
        BY <3>2, <3>3, <3>4, ConcatProperties
      <3>6. Len((Upto(buf, pos) \o <<c>>) \o Behind(buf, pos)) =
                Len(Upto(buf, pos) \o <<c>>) + Len(Behind(buf, pos))
        BY <3>2, <3>5, ConcatProperties
      <3>7. Len(buf') = Len(Upto(buf, pos) \o <<c>>) + Len(Behind(buf, pos))
        BY <3>1, <3>6, Zenon
      <3> QED
        BY <1>1, <3>3, <3>5, <3>7
    <2> QED
      BY <2>1, <2>2
  <1>5. buf' \in Seq(Char)
    BY AddCharKeeps DEF LineInv
  <1>6. Len(buf') \in Nat
    BY <1>5
  <1> QED
    BY <1>1, <1>2, <1>3, <1>4, <1>6 DEF FitInv, Grows

LEMMA YankFits ==
    ASSUME LineInv, FitInv, Yank
    PROVE  FitInv' /\ Grows
  <1> DEFINE len  == Len(kill)
             left == Upto(buf, pos) \o kill
  <1>1. pos \in Nat /\ pos <= Len(buf) /\ cnt = Len(buf) /\ Len(buf) \in Nat /\ len \in Nat
    BY DEF LineInv, CursorInLine
  <1>2. /\ Upto(buf, pos) \in Seq(Char) /\ kill \in Seq(Char) /\ left \in Seq(Char)
        /\ Len(left) = pos + len
    <2>1. Upto(buf, pos) \in Seq(Char) /\ kill \in Seq(Char) /\ Len(Upto(buf, pos)) = pos
      BY <1>1, PartsOfLine, LengthOfParts DEF LineInv
    <2> QED
      BY <2>1, ConcatProperties
  <1>3. /\ buf' = left \o Behind(buf, IF overwrite THEN pos + len ELSE pos)
        /\ kill' = kill /\ killSize' = killSize
    BY DEF Yank, NotKill
  <1> HIDE DEF left
  <1>4. CASE overwrite
    <2>1. Behind(buf, pos + len) \in Seq(Char)
      BY <1>1, BehindOfLine DEF LineInv
    <2>2. Len(Behind(buf, pos + len)) = IF pos + len <= cnt THEN cnt - (pos + len) ELSE 0
      <3>1. pos + len \in Nat /\ buf \in Seq(Char)
        BY <1>1 DEF LineInv
      <3> QED
        BY <1>1, <3>1, LengthOfParts
    <2>3. Len(buf') = Len(left) + Len(Behind(buf, pos + len))
      BY <1>2, <1>3, <1>4, <2>1, ConcatProperties
    <2>4. bufSize' = IF pos + len > cnt THEN Grown(bufSize, pos + len + 1) ELSE bufSize
      BY <1>4 DEF Yank
    <2>5. CASE pos + len > cnt
      <3>1. bufSize' \in Nat /\ bufSize' >= bufSize /\ bufSize' > pos + len + 1
        BY <1>1, <2>4, <2>5, GrownRoom
      <3>2. Len(Behind(buf, pos + len)) = 0
        <4>1. ~(pos + len <= cnt)
          BY <1>1, <2>5
        <4> QED
          BY <2>2, <4>1, Zenon
      <3>3. Len(buf') = pos + len
        BY <1>1, <1>2, <2>3, <3>2
      <3> QED
        BY <1>1, <1>3, <3>1, <3>3 DEF FitInv, Grows
    <2>6. CASE ~(pos + len > cnt)
      <3>1. Len(buf') = cnt
        BY <1>1, <1>2, <2>2, <2>3, <2>6
      <3> QED
        BY <1>1, <1>3, <2>4, <2>6, <3>1 DEF FitInv, Grows
    <2> QED
      BY <2>5, <2>6
  <1>5. CASE ~overwrite
    <2>1. Behind(buf, pos) \in Seq(Char) /\ Len(Behind(buf, pos)) = cnt - pos
      BY <1>1, BehindOfLine, LengthOfParts DEF LineInv
    <2>2. Len(buf') = Len(left) + Len(Behind(buf, pos))
      BY <1>2, <1>3, <1>5, <2>1, ConcatProperties
    <2>3. bufSize' = Grown(bufSize, cnt + len + 1)
      BY <1>5 DEF Yank
    <2>4. bufSize' \in Nat /\ bufSize' >= bufSize /\ bufSize' > cnt + len + 1
      BY <1>1, <2>3, GrownRoom
    <2>5. Len(buf') = cnt + len
      BY <1>1, <1>2, <2>1, <2>2
    <2> QED
      BY <1>1, <1>3, <2>4, <2>5 DEF FitInv, Grows
  <1> QED
    BY <1>4, <1>5

LEMMA TransposeFits ==
    ASSUME LineInv, FitInv, Transpose
    PROVE  FitInv' /\ Grows
  <1>1. pos \in 1 .. Len(buf) /\ pos + 1 \in 1 .. Len(buf)
    BY DEF LineInv, CursorInLine, Transpose
  <1>2. buf[pos] \in Char /\ buf[pos + 1] \in Char
    BY <1>1 DEF LineInv
  <1>3. Len([buf EXCEPT ![pos] = buf[pos + 1], ![pos + 1] = buf[pos]]) = Len(buf)
    BY <1>1, <1>2 DEF LineInv
  <1>4. Len(buf') = Len(buf)
    BY <1>3, Zenon DEF Transpose
  <1> QED
    BY <1>4 DEF Transpose, NotKill, FitInv, Grows

(* Without a part the line is not longer. *)
LEMMA CutIsShorter ==
    ASSUME NEW l \in Seq(Char), NEW from \in Nat, NEW to \in Nat,
           from <= to, to <= Len(l)
    PROVE  Len(Upto(l, from) \o Behind(l, to)) <= Len(l)
  <1>1. Upto(l, from) \in Seq(Char) /\ Behind(l, to) \in Seq(Char)
    BY PartsOfLine
  <1>2. Len(Upto(l, from)) = from /\ Len(Behind(l, to)) = Len(l) - to
    BY LengthOfParts
  <1>3. Len(Upto(l, from) \o Behind(l, to)) = from + (Len(l) - to)
    BY <1>1, <1>2, ConcatProperties
  <1> QED
    BY <1>3

LEMMA DelFits ==
    ASSUME LineInv, FitInv, NEW loc \in {-1, 0}, Del(loc)
    PROVE  FitInv' /\ Grows
  <1>1. pos + loc \in Nat /\ pos + loc + 1 \in Nat /\ pos + loc + 1 <= Len(buf)
    BY DEF LineInv, CursorInLine, Del
  <1>2. buf' = Upto(buf, pos + loc) \o Behind(buf, pos + loc + 1)
    BY DEF Del
  <1>3. Len(buf') <= Len(buf)
    BY <1>1, <1>2, CutIsShorter DEF LineInv
  <1>4. Len(buf') \in Nat /\ Len(buf) \in Nat
    BY DelKeeps DEF LineInv
  <1> QED
    BY <1>3, <1>4 DEF Del, NotKill, FitInv, Grows

LEMMA MoveFits ==
    ASSUME LineInv, FitInv, WordLeft \/ WordRight \/ Cursor \/ Overwrite
    PROVE  FitInv' /\ Grows
  <1>1. buf' = buf /\ bufSize' = bufSize /\ kill' = kill /\ killSize' = killSize
    BY DEF WordLeft, WordRight, Cursor, Overwrite, Move, NotKill, text
  <1> QED
    BY <1>1 DEF FitInv, Grows

(* The kill buffer has room for what is killed. *)
LEMMA KilledFits ==
    ASSUME LineInv, FitInv, NEW from \in Nat, NEW to \in Nat, from <= to, to <= cnt,
           Killed(from, to), NEW n \in Nat, to - from <= n, killSize' = Grown(killSize, n)
    PROVE  FitInv' /\ Grows
  <1>1. cnt = Len(buf) /\ Len(buf) \in Nat
    BY DEF LineInv, CursorInLine
  <1>2. Len(buf') <= Len(buf)
    BY <1>1, CutIsShorter DEF Killed, LineInv
  <1>3. Len(kill') <= to - from
    <2>1. \A k \in from + 1 .. to : buf[k] \in Char
      BY <1>1 DEF LineInv
    <2>2. Len(kill') = IF from + 1 <= to THEN to - (from + 1) + 1 ELSE 0
      BY <2>1, SubSeqProperties DEF Killed
    <2> QED
      BY <2>2
  <1>4. Len(buf') \in Nat /\ Len(kill') \in Nat
    BY <1>1, KilledKeeps DEF LineInv
  <1>5. killSize' \in Nat /\ killSize' > n
    BY GrownRoom
  <1>6. bufSize' = bufSize
    BY DEF Killed
  <1> QED
    BY <1>1, <1>2, <1>3, <1>4, <1>5, <1>6 DEF FitInv, Grows

LEMMA EditKeyFits ==
    ASSUME LineInv, FitInv, EditKey
    PROVE  FitInv' /\ Grows
  <1>1. pos \in Nat /\ cnt \in Nat /\ pos <= cnt /\ cnt = Len(buf)
    BY DEF LineInv, CursorInLine
  <1>2. ASSUME NEW p \in Nat, KillEnd(p) PROVE FitInv' /\ Grows
    <2>1. bufSize \in Nat /\ cnt - p <= bufSize
      BY <1>1 DEF FitInv
    <2>2. p <= cnt /\ Killed(p, cnt) /\ killSize' = Grown(killSize, bufSize)
      BY <1>1, <1>2 DEF KillEnd
    <2> QED
      BY <1>1, <2>1, <2>2, KilledFits
  <1>3. ASSUME KillBegin PROVE FitInv' /\ Grows
    <2>1. Killed(0, pos) /\ killSize' = Grown(killSize, pos) /\ pos - 0 <= pos
      BY <1>1, <1>3 DEF KillBegin
    <2> QED
      BY <1>1, <2>1, KilledFits
  <1>4. ASSUME KillWord PROVE FitInv' /\ Grows
    <2>1. KilledFrom(pos) \in Nat /\ KilledFrom(pos) <= pos
      BY <1>1, <1>4, LeftWordInLine DEF KillWord, KilledFrom
    <2>2. /\ Killed(KilledFrom(pos), pos)
          /\ killSize' = Grown(killSize, pos - KilledFrom(pos))
      BY <1>4 DEF KillWord
    <2> HIDE DEF KilledFrom
    <2>3. pos - KilledFrom(pos) \in Nat
      BY <1>1, <2>1
    <2> QED
      BY <1>1, <2>1, <2>2, <2>3, KilledFits
  <1> QED
    BY <1>1, <1>2, <1>3, <1>4, YankFits, TransposeFits, DelFits, MoveFits DEF EditKey

----------------------------------------------------------------------------
LEMMA StepInv == LineInv /\ [EditNext]_edit => LineInv'
  <1> SUFFICES ASSUME LineInv, [EditNext]_edit PROVE LineInv'
    OBVIOUS
  <1>1. ASSUME NEW c \in Char, AddChar(c) PROVE LineInv'
    BY <1>1, AddCharKeeps
  <1>2. ASSUME Del(-1) PROVE LineInv'
    BY <1>2, DelKeeps
  <1>3. ASSUME EditKey PROVE LineInv'
    BY <1>3, EditKeyKeeps
  <1>4. ASSUME UNCHANGED edit PROVE LineInv'
    BY <1>4 DEF edit, text, LineInv, CursorInLine
  <1> QED
    BY <1>1, <1>2, <1>3, <1>4 DEF EditNext

(***************************************************************************)
(* After any sequence of editing keys gl_cnt is the length of the line,    *)
(* and gl_pos is a position of the line or its end.                        *)
(***************************************************************************)
THEOREM CursorStaysInLine == EditSpec => []CursorInLine
  <1>1. LineInv => CursorInLine
    BY DEF LineInv
  <1> QED
    BY <1>1, InitInv, StepInv, PTL DEF EditSpec

(***************************************************************************)
(* Whatever is typed, killed and yanked, the line and the kill buffer fit  *)
(* with their '\0' in what cligen_buf_increase and cligen_killbuf_increase *)
(* have allocated.                                                         *)
(***************************************************************************)
THEOREM BuffersHoldLine == EditSpec => [](Len(buf) < bufSize /\ Len(kill) < killSize)
  <1>1. EditInit => LineInv /\ FitInv
    BY InitInv, InitFits
  <1>2. LineInv /\ FitInv /\ [EditNext]_edit => LineInv' /\ FitInv'
    <2> SUFFICES ASSUME LineInv, FitInv, [EditNext]_edit PROVE LineInv' /\ FitInv'
      OBVIOUS
    <2>1. LineInv'
      BY StepInv
    <2>2. ASSUME NEW c \in Char, AddChar(c) PROVE FitInv'
      BY <2>2, AddCharFits
    <2>3. ASSUME UNCHANGED edit PROVE FitInv'
      BY <2>3 DEF edit, text, sizes, FitInv
    <2> QED
      BY <2>1, <2>2, <2>3, DelFits, EditKeyFits DEF EditNext
  <1>3. FitInv => Len(buf) < bufSize /\ Len(kill) < killSize
    BY DEF FitInv
  <1> QED
    BY <1>1, <1>2, <1>3, PTL DEF EditSpec

----------------------------------------------------------------------------
(***************************************************************************)
(* The editor with its history and its search                              *)
(***************************************************************************)

(* The texts are texts, whatever the editor is doing. *)
TextInv == buf \in Seq(Char) /\ kill \in Seq(Char) /\ string \in Seq(Char)

(* What the editor relies on in the history: the separator holds the empty  *)
(* string and search_last is a slot with a string.                          *)
HistoryInv ==
    /\ histSize = HistLines + 1
    /\ histBuf \in [H!Slot -> Line \cup {<< >>, Null}]
    /\ histCur \in H!Slot /\ histLast \in H!Slot /\ searchLast \in H!Slot
    /\ histBuf[histLast] = << >>
    /\ histBuf[searchLast] # Null

(* Between two keys. *)
KeyInv == Key => CursorInLine /\ pos \in Nat
ShownInv ==
    Key /\ search /\ buf # << >> =>
        /\ buf = histBuf[histCur]
        /\ string # << >> => Contains(buf, string) /\ pos = FirstPlace(string, buf)

IInv == TextInv /\ HistoryInv /\ KeyInv /\ ShownInv

----------------------------------------------------------------------------
(* The history. *)

LEMMA LinesAreTexts ==
    /\ Line \subseteq Seq(Char)
    /\ << >> \in Seq(Char)
    /\ << >> # Null
    /\ \A l \in Line : l # Null
  <1>1. << >> \in Seq(Char)
    OBVIOUS
  <1> QED
    BY <1>1, EditAssumption, HistoryAssumption, Zenon

LEMMA Neighbours ==
    ASSUME HistoryInv, NEW c \in H!Slot
    PROVE  /\ H!NextSlot(c) \in H!Slot /\ H!NextSlot(c) # c
           /\ H!PrevSlot(c) \in H!Slot
  BY HistoryAssumption DEF HistoryInv, H!Slot, H!NextSlot, H!PrevSlot

(* The line hist_copy_pos copies. *)
LEMMA TextOfSlot ==
    ASSUME HistoryInv, NEW c \in H!Slot
    PROVE  /\ H!TextAt(c) \in Seq(Char)
           /\ H!TextAt(c) # << >> => H!TextAt(c) = histBuf[c] /\ histBuf[c] # Null
  <1>1. histBuf[c] \in Line \cup {<< >>, Null}
    BY DEF HistoryInv
  <1> QED
    BY <1>1, LinesAreTexts DEF H!TextAt, H!Empty

(* hist_prev and hist_next return the line at which they leave the cursor, *)
(* or the empty string.                                                    *)
LEMMA TextOfWalk ==
    ASSUME HistoryInv, NEW c \in H!Slot
    PROVE  /\ H!AfterPrev(c) \in H!Slot /\ H!AfterNext(c) \in H!Slot
           /\ H!TextPrev(c) \in Seq(Char) /\ H!TextNext(c) \in Seq(Char)
           /\ H!TextPrev(c) # << >> =>
                H!TextPrev(c) = histBuf[H!AfterPrev(c)] /\ histBuf[H!AfterPrev(c)] # Null
           /\ H!TextNext(c) # << >> =>
                H!TextNext(c) = histBuf[H!AfterNext(c)] /\ histBuf[H!AfterNext(c)] # Null
  <1>1. H!NextSlot(c) \in H!Slot /\ H!PrevSlot(c) \in H!Slot
    BY Neighbours
  <1>2. /\ H!AfterPrev(c) \in H!Slot
        /\ H!TextPrev(c) \in Seq(Char)
        /\ H!TextPrev(c) # << >> =>
             H!TextPrev(c) = histBuf[H!AfterPrev(c)] /\ histBuf[H!AfterPrev(c)] # Null
    <2>1. CASE H!CanPrev(c)
      BY <1>1, <2>1, TextOfSlot DEF H!AfterPrev, H!TextPrev
    <2>2. CASE ~H!CanPrev(c)
      BY <2>2, LinesAreTexts DEF H!AfterPrev, H!TextPrev, H!Empty
    <2> QED
      BY <2>1, <2>2
  <1>3. /\ H!AfterNext(c) \in H!Slot
        /\ H!TextNext(c) \in Seq(Char)
        /\ H!TextNext(c) # << >> =>
             H!TextNext(c) = histBuf[H!AfterNext(c)] /\ histBuf[H!AfterNext(c)] # Null
    <2>1. CASE H!CanNext(c)
      BY <1>1, <2>1, TextOfSlot DEF H!AfterNext, H!TextNext
    <2>2. CASE ~H!CanNext(c)
      BY <2>2, LinesAreTexts DEF H!AfterNext, H!TextNext, H!Empty
    <2> QED
      BY <2>1, <2>2
  <1> QED
    BY <1>2, <1>3

(* hist_add never makes a string NULL, and moves the separator. *)
LEMMA AddKeeps ==
    ASSUME HistoryInv, NEW l \in Line, H!AddLine(l), searchLast' = searchLast
    PROVE  HistoryInv'
  <1>1. CASE ~H!IsBlank(l) /\ ~H!RepeatsPre(l)
    <2> DEFINE next == H!NextSlot(histLast)
    <2>1. next \in H!Slot /\ next # histLast
      BY Neighbours DEF HistoryInv
    <2>2. /\ histBuf' = [histBuf EXCEPT ![histLast] = l, ![next] = << >>]
          /\ histLast' = next /\ histCur' = next /\ histSize' = histSize
      BY <1>1 DEF H!AddLine, H!SavedInBuf, H!Empty
    <2> HIDE DEF next
    <2>3. H!Slot' = H!Slot
      BY <2>2 DEF H!Slot
    <2>4. histBuf' \in [H!Slot -> Line \cup {<< >>, Null}] /\ histBuf'[next] = << >>
      BY <2>1, <2>2 DEF HistoryInv
    <2>5. \A s \in H!Slot : histBuf[s] # Null => histBuf'[s] # Null
      BY <2>1, <2>2, LinesAreTexts DEF HistoryInv
    <2> QED
      BY <2>1, <2>2, <2>3, <2>4, <2>5 DEF HistoryInv
  <1>2. CASE ~(~H!IsBlank(l) /\ ~H!RepeatsPre(l))
    <2>1. UNCHANGED <<histSize, histBuf, histLast>> /\ histCur' = histLast
      BY <1>2 DEF H!AddLine
    <2> QED
      BY <2>1 DEF HistoryInv, H!Slot
  <1> QED
    BY <1>1, <1>2

(* Only the cursors move, and to slots; search_last to one with a string. *)
LEMMA CursorsMove ==
    ASSUME HistoryInv, UNCHANGED <<histSize, histBuf, histLast>>,
           histCur' \in H!Slot, searchLast' \in H!Slot, histBuf[searchLast'] # Null
    PROVE  HistoryInv'
  BY DEF HistoryInv, H!Slot

----------------------------------------------------------------------------
(* The first occurrence of a search string. *)

LEMMA FirstPlaceInLine ==
    ASSUME NEW s \in Seq(Char), NEW l \in Seq(Char)
    PROVE  FirstPlace(s, l) \in Nat /\ FirstPlace(s, l) <= Len(l)
  <1> DEFINE S == Places(s, l) \cup {Len(l)}
  <1>1. S \subseteq Nat /\ Len(l) \in S
    BY DEF Places
  <1> HIDE DEF S
  <1>2. Leftmost(S) \in S /\ \A q \in S : Leftmost(S) <= q
    BY <1>1, LeftmostIsLeast
  <1> QED
    BY <1>1, <1>2 DEF FirstPlace, S

(* A line that is shown has the cursor on the occurrence. *)
LEMMA ShowKeeps ==
    ASSUME NEW s \in Seq(Char), NEW l \in Seq(Char), Replace(l, FirstPlace(s, l))
    PROVE  /\ buf' = l /\ kill' = kill
           /\ CursorInLine' /\ pos' = FirstPlace(s, l) /\ pos' \in Nat
  <1>1. FirstPlace(s, l) \in Nat /\ FirstPlace(s, l) <= Len(l) /\ Len(l) \in Nat
    BY FirstPlaceInLine
  <1>2. Clamped(FirstPlace(s, l), Len(l)) = FirstPlace(s, l)
    BY <1>1 DEF Clamped
  <1> QED
    BY <1>1, <1>2 DEF Replace, Fixup, CursorInLine, NotKill

(* Any other line is put in the place of the line. *)
LEMMA PutKeeps ==
    ASSUME NEW l \in Seq(Char), NEW c \in Int, Replace(l, c)
    PROVE  buf' = l /\ kill' = kill /\ CursorInLine' /\ pos' \in Nat
  BY AfterFixup DEF Replace, NotKill

LEMMA ClearKeeps ==
    ASSUME Replace(<< >>, 0)
    PROVE  buf' = << >> /\ kill' = kill /\ CursorInLine' /\ pos' \in Nat
  <1>1. << >> \in Seq(Char) /\ 0 \in Int
    OBVIOUS
  <1>2. \A l \in Seq(Char), c \in Int : Replace(l, c) =>
            buf' = l /\ kill' = kill /\ CursorInLine' /\ pos' \in Nat
    BY PutKeeps
  <1> QED
    BY <1>1, <1>2, Zenon

----------------------------------------------------------------------------
LEMMA GetlineInit == Init => IInv
  <1> SUFFICES ASSUME Init PROVE IInv
    OBVIOUS
  <1>1. TextInv
    BY DEF Init, EditInit, TextInv
  <1>2. HistoryInv
    <2>1. H!Slot = 0 .. HistLines /\ HistLines \in Nat
      BY HistoryAssumption DEF Init, H!Slot
    <2>2. histBuf = [s \in 0 .. HistLines |-> IF s = 0 THEN << >> ELSE Null]
      BY DEF Init, H!FreshBuf, H!Empty
    <2> QED
      BY <2>1, <2>2, LinesAreTexts DEF Init, HistoryInv
  <1>3. KeyInv /\ ShownInv
    BY DEF Init, Key, KeyInv, ShownInv
  <1> QED
    BY <1>1, <1>2, <1>3 DEF IInv

(* search_term puts the cursor of the history on a slot. *)
LEMMA AfterTerm == HistoryInv => CurAfterTerm \in H!Slot
  BY DEF HistoryInv, CurAfterTerm

LEMMA TerminateKeeps ==
    ASSUME HistoryInv, Terminate
    PROVE  HistoryInv' /\ search' = FALSE /\ string' = string
  BY AfterTerm, CursorsMove DEF Terminate, EndSearch, HistoryInv

LEMMA LoadLineKeeps ==
    ASSUME IInv, NEW l \in FileLine, LoadLine(l)
    PROVE  IInv'
  <1>1. l \in Line /\ searchLast' = searchLast
    BY HistoryAssumption DEF LoadLine, find
  <1>2. HistoryInv'
    BY <1>1, AddKeeps DEF LoadLine, IInv
  <1>3. TextInv'
    BY DEF LoadLine, text, find, IInv, TextInv
  <1>4. ~Key'
    BY DEF LoadLine, Key
  <1> QED
    BY <1>2, <1>3, <1>4 DEF IInv, KeyInv, ShownInv

LEMMA PromptKeeps ==
    ASSUME IInv, Prompt
    PROVE  IInv'
  <1>1. buf' = << >> /\ kill' = kill /\ CursorInLine' /\ pos' \in Nat
    BY ClearKeeps DEF Prompt
  <1>2. HistoryInv' /\ string' = string
    BY CursorsMove DEF Prompt, ring, find, IInv, HistoryInv
  <1> QED
    BY <1>1, <1>2, LinesAreTexts DEF IInv, TextInv, KeyInv, ShownInv

LEMMA BackslashKeeps ==
    ASSUME IInv, Backslash
    PROVE  IInv'
  <1>1. HistoryInv'
    BY CursorsMove DEF Backslash, ring, find, IInv, HistoryInv
  <1> QED
    BY <1>1 DEF Backslash, text, ring, find, IInv, TextInv, KeyInv, ShownInv, Key,
                CursorInLine

LEMMA TypeKeeps ==
    ASSUME IInv, NEW c \in Char, Type(c)
    PROVE  IInv'
  <1>1. LineInv
    BY DEF IInv, TextInv, KeyInv, LineInv, Type
  <1>2. LineInv'
    BY <1>1, AddCharKeeps DEF Type
  <1>3. HistoryInv'
    BY CursorsMove DEF Type, ring, find, IInv, HistoryInv
  <1> QED
    BY <1>2, <1>3 DEF Type, find, LineInv, IInv, TextInv, KeyInv, ShownInv

LEMMA ControlKeeps ==
    ASSUME IInv, Control
    PROVE  IInv'
  <1>1. LineInv
    BY DEF IInv, TextInv, KeyInv, LineInv, Control
  <1>2. LineInv'
    BY <1>1, EditKeyKeeps, DelKeeps DEF Control
  <1>3. HistoryInv' /\ search' = FALSE /\ string' = string
    BY TerminateKeeps DEF Control, IInv
  <1> QED
    BY <1>2, <1>3 DEF LineInv, IInv, TextInv, KeyInv, ShownInv

LEMMA RecallKeeps ==
    ASSUME IInv, Recall
    PROVE  IInv'
  <1>1. HistoryInv /\ CurAfterTerm \in H!Slot
    BY AfterTerm DEF IInv
  <1>2. PICK l \in Seq(Char) : Recalled(l) /\ histCur' \in H!Slot
    BY <1>1, TextOfWalk DEF Recall
  <1>3. Len(l) \in Int
    OBVIOUS
  <1>4. buf' = l /\ kill' = kill /\ CursorInLine' /\ pos' \in Nat
    BY <1>2, <1>3, PutKeeps DEF Recalled
  <1>5. search' = FALSE /\ string' = string /\ searchLast' = searchLast
    BY DEF Recall, EndSearch
  <1>6. HistoryInv'
    BY <1>1, <1>2, <1>5, CursorsMove DEF Recall, HistoryInv
  <1> QED
    BY <1>2, <1>4, <1>5, <1>6 DEF IInv, TextInv, KeyInv, ShownInv

LEMMA LeaveKeeps ==
    ASSUME IInv, Leave
    PROVE  IInv'
  <1>1. HistoryInv' /\ search' = FALSE /\ string' = string
    BY TerminateKeeps DEF Leave, IInv
  <1> QED
    BY <1>1 DEF Leave, text, IInv, TextInv, KeyInv, ShownInv, Key, CursorInLine

LEMMA StartSearchKeeps ==
    ASSUME IInv, NEW fwd \in BOOLEAN, StartSearch(fwd)
    PROVE  IInv'
  <1>1. buf' = << >> /\ kill' = kill /\ CursorInLine' /\ pos' \in Nat
    BY ClearKeeps DEF StartSearch
  <1>2. HistoryInv'
    BY CursorsMove, LinesAreTexts DEF StartSearch, SearchFrom, IInv, HistoryInv
  <1> QED
    BY <1>1, <1>2, LinesAreTexts DEF StartSearch, IInv, TextInv, KeyInv, ShownInv

LEMMA SearchAgainKeeps ==
    ASSUME IInv, NEW fwd \in BOOLEAN, SearchAgain(fwd)
    PROVE  IInv'
  <1>1. HistoryInv'
    BY CursorsMove DEF SearchAgain, ring, IInv, HistoryInv
  <1>2. TextInv'
    BY DEF SearchAgain, text, IInv, TextInv
  <1>3. KeyInv' /\ ShownInv'
    <2>1. CASE string # << >>
      BY <2>1 DEF SearchAgain, KeyInv, ShownInv, Key
    <2>2. CASE string = << >>
      BY <2>2 DEF SearchAgain, text, ring, IInv, KeyInv, ShownInv, Key, CursorInLine
    <2> QED
      BY <2>1, <2>2
  <1> QED
    BY <1>1, <1>2, <1>3 DEF IInv

(* search_addchar leaves a line of the history, or goes on searching. *)
LEMMA ContinueKeeps ==
    ASSUME NEW l \in Seq(Char), NEW s \in Seq(Char), Continue(l, s), phase = "key",
           l # << >> => l = histBuf[histCur'], kill \in Seq(Char)
    PROVE  TextInv' /\ KeyInv' /\ ShownInv' /\ searchLast' = searchLast
  <1>1. string' = s /\ histBuf' = histBuf /\ searchLast' = searchLast
    BY DEF Continue
  <1>2. CASE StillGood(l, s)
    <2>1. Replace(l, FirstPlace(s, l))
      BY <1>2 DEF Continue
    <2>2. /\ buf' = l /\ kill' = kill
          /\ CursorInLine' /\ pos' = FirstPlace(s, l) /\ pos' \in Nat
      BY <2>1, ShowKeeps
    <2> QED
      BY <1>1, <1>2, <2>2 DEF StillGood, TextInv, KeyInv, ShownInv
  <1>3. CASE ~StillGood(l, s)
    <2>1. phase' = "search" /\ buf' = l /\ kill' = kill
      BY <1>3 DEF Continue, NotKill
    <2> QED
      BY <1>1, <2>1 DEF TextInv, KeyInv, ShownInv, Key
  <1> QED
    BY <1>2, <1>3

LEMMA SearchCharKeeps ==
    ASSUME IInv, NEW c \in Char, SearchChar(c)
    PROVE  IInv'
  <1> DEFINE s == IF Len(string) + 1 < SearchLen THEN Append(string, c) ELSE string
  <1>1. s \in Seq(Char) /\ buf \in Seq(Char) /\ kill \in Seq(Char)
    BY DEF IInv, TextInv
  <1>2. Continue(buf, s) /\ histCur' = histCur /\ phase = "key"
    BY DEF SearchChar, Key
  <1> HIDE DEF s
  <1>3. buf # << >> => buf = histBuf[histCur']
    BY <1>2 DEF SearchChar, IInv, ShownInv
  <1>4. TextInv' /\ KeyInv' /\ ShownInv' /\ searchLast' = searchLast
    BY <1>1, <1>2, <1>3, ContinueKeeps
  <1>5. HistoryInv'
    BY <1>2, <1>4, CursorsMove DEF Continue, IInv, HistoryInv
  <1> QED
    BY <1>4, <1>5 DEF IInv

LEMMA SearchDelKeeps ==
    ASSUME IInv, SearchDel
    PROVE  IInv' /\ histBuf[histCur'] # Null
  <1> DEFINE s   == IF string = << >> THEN string ELSE Upto(string, Len(string) - 1)
             cur == IF s # << >> THEN SearchRestart ELSE histLast
  <1>1. s \in Seq(Char) /\ kill \in Seq(Char)
    <2>1. CASE string = << >>
      BY <2>1 DEF IInv, TextInv
    <2>2. CASE string # << >>
      <3>1. Len(string) - 1 \in Nat
        BY <2>2 DEF IInv, TextInv
      <3> QED
        BY <2>2, <3>1, PartsOfLine DEF IInv, TextInv
    <2> QED
      BY <2>1, <2>2
  <1>2. Continue(H!TextAt(cur), s) /\ histCur' = cur /\ phase = "key"
    BY DEF SearchDel, Key
  <1>3. cur \in H!Slot /\ histBuf[cur] # Null
    BY LinesAreTexts DEF IInv, HistoryInv, SearchRestart
  <1> HIDE DEF s, cur
  <1>4. /\ H!TextAt(cur) \in Seq(Char)
        /\ H!TextAt(cur) # << >> => H!TextAt(cur) = histBuf[histCur']
    BY <1>2, <1>3, TextOfSlot DEF IInv
  <1>5. TextInv' /\ KeyInv' /\ ShownInv' /\ searchLast' = searchLast
    BY <1>1, <1>2, <1>4, ContinueKeeps
  <1>6. HistoryInv'
    BY <1>2, <1>3, <1>5, CursorsMove DEF Continue, IInv, HistoryInv
  <1> QED
    BY <1>2, <1>3, <1>5, <1>6 DEF IInv

LEMMA SearchStepKeeps ==
    ASSUME IInv, SearchStep
    PROVE  IInv'
  <1> DEFINE cur  == IF forward THEN H!AfterNext(histCur) ELSE H!AfterPrev(histCur)
             line == IF forward THEN H!TextNext(histCur) ELSE H!TextPrev(histCur)
  <1>1. /\ cur \in H!Slot /\ line \in Seq(Char)
        /\ line # << >> => line = histBuf[cur] /\ histBuf[cur] # Null
    BY TextOfWalk DEF IInv, HistoryInv
  <1>2. /\ histCur' = cur
        /\ string' = string /\ histBuf' = histBuf
        /\ UNCHANGED <<histSize, histBuf, histLast>>
        /\ string \in Seq(Char) /\ kill \in Seq(Char)
    BY DEF SearchStep, IInv, TextInv
  <1>3. CASE Exhausted(line)
    <2>1. Replace(<< >>, 0) /\ searchLast' = searchLast
      BY <1>3 DEF SearchStep
    <2>2. buf' = << >> /\ kill' = kill /\ CursorInLine' /\ pos' \in Nat
      BY <2>1, ClearKeeps
    <2>3. HistoryInv'
      BY <1>1, <1>2, <2>1, CursorsMove DEF IInv, HistoryInv
    <2> QED
      BY <1>2, <2>2, <2>3, LinesAreTexts DEF IInv, TextInv, KeyInv, ShownInv
  <1>4. CASE ~Exhausted(line) /\ Contains(line, string)
    <2>1. /\ Replace(line, FirstPlace(string, line))
          /\ searchLast' = IF newSearch THEN cur ELSE searchLast
      BY <1>4 DEF SearchStep
    <2>2. line = histBuf[cur] /\ histBuf[cur] # Null
      BY <1>1, <1>4 DEF Exhausted
    <2>3. /\ buf' = line /\ kill' = kill
          /\ CursorInLine' /\ pos' = FirstPlace(string, line) /\ pos' \in Nat
      BY <1>1, <1>2, <2>1, ShowKeeps
    <2>4. HistoryInv'
      BY <1>1, <1>2, <2>1, <2>2, CursorsMove DEF IInv, HistoryInv
    <2> QED
      BY <1>1, <1>2, <1>4, <2>2, <2>3, <2>4 DEF IInv, TextInv, KeyInv, ShownInv
  <1>5. CASE ~Exhausted(line) /\ ~Contains(line, string)
    <2>1. /\ NotKill /\ UNCHANGED <<text, overwrite, phase, searchLast>>
          /\ phase = "search"
      BY <1>5 DEF SearchStep
    <2>2. HistoryInv'
      BY <1>1, <1>2, <2>1, CursorsMove DEF IInv, HistoryInv
    <2> QED
      BY <1>2, <2>1, <2>2 DEF IInv, TextInv, KeyInv, ShownInv, Key, NotKill, text
  <1> QED
    BY <1>3, <1>4, <1>5

LEMMA EnterKeeps ==
    ASSUME IInv, Enter
    PROVE  IInv'
  <1>1. search' = FALSE /\ string' = string /\ searchLast' = searchLast
    BY DEF Enter, EndSearch
  <1>2. CASE Trim(buf) = << >>
    <2>1. Replace(<< >>, 0) /\ histCur' = CurAfterTerm
          /\ UNCHANGED <<histSize, histBuf, histLast>>
      BY <1>2 DEF Enter
    <2>2. buf' = << >> /\ kill' = kill /\ CursorInLine' /\ pos' \in Nat
      BY <2>1, ClearKeeps
    <2>3. HistoryInv'
      BY <1>1, <2>1, AfterTerm, CursorsMove DEF IInv, HistoryInv
    <2> QED
      BY <1>1, <2>2, <2>3, LinesAreTexts DEF IInv, TextInv, KeyInv, ShownInv
  <1>3. CASE Trim(buf) # << >>
    <2>1. /\ Trim(buf) \in Line /\ H!AddLine(Trim(buf))
          /\ buf' = Trim(buf) /\ kill' = kill /\ phase' = "idle"
      BY <1>3 DEF Enter, NotKill
    <2>2. HistoryInv'
      BY <1>1, <2>1, AddKeeps DEF IInv
    <2> QED
      BY <1>1, <2>1, <2>2, LinesAreTexts DEF IInv, TextInv, KeyInv, ShownInv, Key
  <1> QED
    BY <1>2, <1>3

LEMMA NulKeeps ==
    ASSUME IInv, Nul
    PROVE  IInv'
  <1>1. buf' = << >> /\ kill' = kill /\ CursorInLine' /\ pos' \in Nat
    BY ClearKeeps DEF Nul
  <1>2. HistoryInv' /\ string' = string
    BY CursorsMove DEF Nul, ring, IInv, HistoryInv
  <1> QED
    BY <1>1, <1>2, LinesAreTexts DEF IInv, TextInv, KeyInv, ShownInv

LEMMA LeavingKeeps ==
    ASSUME IInv, Exit \/ Eof
    PROVE  IInv'
  <1>1. buf' = << >> /\ kill' = kill /\ phase' = "idle"
    BY DEF Exit, Eof, Emptied, NotKill
  <1>2. HistoryInv' /\ string' = string
    <2>1. CASE Exit
      BY <2>1, TerminateKeeps DEF Exit, IInv
    <2>2. CASE Eof
      BY <2>2, CursorsMove DEF Eof, ring, IInv, HistoryInv
    <2> QED
      BY <2>1, <2>2
  <1> QED
    BY <1>1, <1>2, LinesAreTexts DEF IInv, TextInv, KeyInv, ShownInv, Key

LEMMA GetlineStep == IInv /\ [Next]_vars => IInv'
  <1> SUFFICES ASSUME IInv, [Next]_vars PROVE IInv'
    OBVIOUS
  <1>1. CASE UNCHANGED vars
    <2>1. UNCHANGED <<edit, ring, phase, find>>
      BY <1>1 DEF vars
    <2>2. HistoryInv'
      BY <2>1, CursorsMove DEF ring, find, IInv, HistoryInv
    <2> QED
      BY <2>1, <2>2 DEF edit, text, ring, find, IInv, TextInv, KeyInv, ShownInv, Key,
                        CursorInLine
  <1>2. CASE Next
    BY <1>2, LoadLineKeeps, PromptKeeps, BackslashKeeps, TypeKeeps, SearchCharKeeps,
       ControlKeeps, RecallKeeps, LeaveKeeps, StartSearchKeeps, SearchAgainKeeps,
       SearchDelKeeps, SearchStepKeeps, EnterKeeps, NulKeeps, LeavingKeeps DEF Next
  <1> QED
    BY <1>1, <1>2

THEOREM GetlineInv == Spec => []IInv
  BY GetlineInit, GetlineStep, PTL DEF Spec

(***************************************************************************)
(* Whenever a key is read, gl_cnt is the length of the line and gl_pos is  *)
(* in it, whichever handler, recall or search changed the line before.     *)
(***************************************************************************)
THEOREM CursorCorrect == Spec => []CursorAtKey
  <1>1. IInv => CursorAtKey
    BY DEF IInv, KeyInv, CursorAtKey
  <1> QED
    BY <1>1, GetlineInv, PTL

(***************************************************************************)
(* The line shown during a search contains the search string at the cursor *)
(* and is the line at which the history stands.                            *)
(***************************************************************************)
THEOREM SearchCorrect == Spec => []SearchShowsMatch
  <1>1. IInv => SearchShowsMatch
    BY DEF IInv, ShownInv, SearchShowsMatch
  <1> QED
    BY <1>1, GetlineInv, PTL

(***************************************************************************)
(* DEL in a search never copies from a slot of the history that was not    *)
(* used yet.                                                               *)
(***************************************************************************)
THEOREM CopiesFromUsedSlot == Spec => CopiesLine
  <1>1. IInv /\ [Next]_vars => [SearchDel => histBuf[histCur'] # Null]_vars
    BY SearchDelKeeps
  <1> QED
    BY <1>1, GetlineInv, PTL DEF Spec, CopiesLine

----------------------------------------------------------------------------
(* The buffers, and the lines of the history that are copied there. *)

LinesFit(size) ==
    \A s \in H!Slot : histBuf[s] # Null => Len(histBuf[s]) < size
RoomInv == FitInv /\ LinesFit(bufSize)

LEMMA EmptyHasNoLength == Len(<< >>) = 0
  OBVIOUS

(* The buffer is never without a byte for the '\0'. *)
LEMMA RoomForNothing ==
    ASSUME FitInv, TextInv
    PROVE  bufSize > 0 /\ bufSize \in Nat
  BY DEF FitInv, TextInv

(* cli_trim only leaves out characters. *)
LEMMA SqueezedIsShorter ==
    ASSUME NEW l \in Seq(Char)
    PROVE  /\ Len(Squeezed(l)) \in Nat /\ Len(Squeezed(l)) <= Len(l)
           /\ DOMAIN Squeezed(l) = 1 .. Len(Squeezed(l))
  <1> DEFINE kept   == {k \in DOMAIN l : l[k] # Space \/ k = 1 \/ l[k - 1] # Space}
             Nth(n) == CHOOSE k \in kept : Cardinality({j \in kept : j < k}) = n - 1
             N      == Cardinality(kept)
             s      == [n \in 1 .. N |-> l[Nth(n)]]
  <1>1. Squeezed(l) = s
    BY DEF Squeezed
  <1>2. kept \subseteq 1 .. Len(l) /\ Len(l) \in Nat
    OBVIOUS
  <1> HIDE DEF kept
  <1>3. IsFiniteSet(1 .. Len(l)) /\ Cardinality(1 .. Len(l)) = Len(l)
    <2>1. 1 \in Int /\ Len(l) \in Int
      BY <1>2
    <2>2. /\ IsFiniteSet(1 .. Len(l))
          /\ Cardinality(1 .. Len(l)) = IF 1 > Len(l) THEN 0 ELSE Len(l) - 1 + 1
      BY <2>1, FS_Interval, Zenon
    <2> QED
      BY <1>2, <2>2
  <1>4. N \in Nat /\ N <= Len(l)
    BY <1>2, <1>3, FS_Subset, FS_CardinalityType
  <1> HIDE DEF N
  <1> DEFINE Values == {l[Nth(n)] : n \in 1 .. N}
  <1>5. s \in [1 .. N -> Values]
    OBVIOUS
  <1> HIDE DEF Values
  <1>6. DOMAIN s = 1 .. N
    BY <1>5
  <1> HIDE DEF s
  <1>7. Len(s) = N
    BY <1>4, <1>5
  <1> QED
    BY <1>1, <1>4, <1>6, <1>7

LEMMA TrimIsShorter ==
    ASSUME NEW l \in Seq(Char)
    PROVE  Len(Trim(l)) <= Len(l)
  <1> DEFINE s    == Squeezed(l)
             from == Solid(s, {Space})
             to   == Solid(s, {Space, Newline})
  <1>1. Len(s) \in Nat /\ Len(s) <= Len(l) /\ DOMAIN s = 1 .. Len(s) /\ Len(l) \in Nat
    BY SqueezedIsShorter
  <1>2. Trim(l) = IF to = {} THEN << >> ELSE SubSeq(s, Leftmost(from), Rightmost(to))
    BY DEF Trim
  <1> HIDE DEF s
  <1>3. from \subseteq 1 .. Len(s) /\ to \subseteq 1 .. Len(s) /\ to \subseteq from
    BY <1>1 DEF Solid
  <1> HIDE DEF from, to
  <1>4. CASE to = {}
    <2>1. Len(Trim(l)) = 0
      BY <1>2, <1>4, EmptyHasNoLength, Zenon
    <2> QED
      BY <1>1, <2>1
  <1>5. CASE to # {}
    <2>1. Leftmost(from) \in 1 .. Len(s)
      <3>1. from # {}
        BY <1>3, <1>5
      <3>2. 1 .. Len(s) \subseteq Nat
        BY <1>1
      <3>3. from \subseteq Nat
        BY <1>3, <3>2
      <3>4. Leftmost(from) \in from
        BY <3>1, <3>3, LeftmostIsLeast
      <3> QED
        BY <1>3, <3>4
    <2>2. to \subseteq 0 .. Len(s)
      BY <1>1, <1>3
    <2>3. Rightmost(to) \in 1 .. Len(s)
      BY <1>1, <1>3, <1>5, <2>2, RightmostIsGreatest
    <2> DEFINE m == Leftmost(from)
               n == Rightmost(to)
    <2> HIDE DEF m, n
    <2>4. m \in 1 .. Len(s) /\ n \in 1 .. Len(s)
      BY <2>1, <2>3 DEF m, n
    <2> DEFINE V == {s[k] : k \in m .. n}
    <2>5. \A k \in m .. n : s[k] \in V
      OBVIOUS
    <2> HIDE DEF V
    <2>6. Len(SubSeq(s, m, n)) = IF m <= n THEN n - m + 1 ELSE 0
      BY <2>4, <2>5, SubSeqProperties
    <2>7. Trim(l) = SubSeq(s, m, n)
      BY <1>2, <1>5 DEF m, n
    <2> QED
      BY <1>1, <2>4, <2>6, <2>7
  <1> QED
    BY <1>4, <1>5

(* Where the history is left alone, only the sizes matter. *)
LEMMA HistoryStaysInRoom ==
    ASSUME IInv, RoomInv, FitInv', Grows, UNCHANGED <<histSize, histBuf>>
    PROVE  RoomInv'
  <1>1. H!Slot' = H!Slot
    BY DEF H!Slot
  <1>2. ASSUME NEW s \in H!Slot, histBuf[s] # Null PROVE Len(histBuf[s]) < bufSize'
    <2>1. histBuf[s] \in Seq(Char)
      BY <1>2, LinesAreTexts DEF IInv, HistoryInv
    <2>2. Len(histBuf[s]) \in Nat /\ Len(histBuf[s]) < bufSize
      BY <1>2, <2>1 DEF RoomInv, LinesFit
    <2> QED
      BY <2>2 DEF RoomInv, FitInv, Grows
  <1> QED
    BY <1>1, <1>2 DEF RoomInv, LinesFit

(* hist_add keeps lines that fit. *)
LEMMA AddFits ==
    ASSUME HistoryInv, NEW l \in Line, H!AddLine(l),
           NEW size \in Nat \ {0}, Len(l) < size, LinesFit(size)
    PROVE  \A s \in H!Slot' : histBuf'[s] # Null => Len(histBuf'[s]) < size
  <1>1. CASE ~H!IsBlank(l) /\ ~H!RepeatsPre(l)
    <2> DEFINE next == H!NextSlot(histLast)
    <2>1. next \in H!Slot /\ next # histLast
      BY Neighbours DEF HistoryInv
    <2>2. /\ histBuf' = [histBuf EXCEPT ![histLast] = l, ![next] = << >>]
          /\ histSize' = histSize
      BY <1>1 DEF H!AddLine, H!SavedInBuf, H!Empty
    <2> HIDE DEF next
    <2>3. H!Slot' = H!Slot
      BY <2>2 DEF H!Slot
    <2>4. ASSUME NEW s \in H!Slot, histBuf'[s] # Null PROVE Len(histBuf'[s]) < size
      <3>1. CASE s = next
        <4>1. histBuf'[s] = << >>
          BY <2>1, <2>2, <3>1 DEF HistoryInv
        <4>2. Len(histBuf'[s]) = 0
          BY <4>1, EmptyHasNoLength, Zenon
        <4> QED
          BY <4>2
      <3>2. CASE s = histLast /\ s # next
        BY <2>1, <2>2, <3>2 DEF HistoryInv
      <3>3. CASE s # histLast /\ s # next
        BY <2>1, <2>2, <2>4, <3>3 DEF HistoryInv, LinesFit
      <3> QED
        BY <3>1, <3>2, <3>3
    <2> QED
      BY <2>3, <2>4
  <1>2. CASE ~(~H!IsBlank(l) /\ ~H!RepeatsPre(l))
    <2>1. UNCHANGED <<histSize, histBuf>>
      BY <1>2 DEF H!AddLine
    <2>2. H!Slot' = H!Slot
      BY <2>1 DEF H!Slot
    <2> QED
      BY <2>1, <2>2 DEF LinesFit
  <1> QED
    BY <1>1, <1>2

(* A line that fits is put in the place of the line. *)
LEMMA ReplaceFits ==
    ASSUME FitInv, TextInv, NEW l \in Seq(Char), Len(l) < bufSize, NEW c, Replace(l, c),
           bufSize' >= bufSize, bufSize' \in Nat
    PROVE  FitInv' /\ Grows
  <1>1. buf' = l /\ kill' = kill /\ killSize' = killSize
    BY DEF Replace, NotKill
  <1>2. Len(l) \in Nat
    OBVIOUS
  <1> QED
    BY <1>1, <1>2 DEF FitInv, Grows

LEMMA ClearFits ==
    ASSUME FitInv, TextInv, buf' = << >>, UNCHANGED <<kill, killSize>>,
           bufSize' >= bufSize, bufSize' \in Nat
    PROVE  FitInv' /\ Grows
  <1>1. Len(buf') = 0
    BY EmptyHasNoLength, Zenon
  <1>2. bufSize > 0 /\ bufSize \in Nat
    BY RoomForNothing
  <1> QED
    BY <1>1, <1>2 DEF FitInv, Grows

LEMMA SameFits ==
    ASSUME FitInv, UNCHANGED <<buf, bufSize, kill, killSize>>
    PROVE  FitInv' /\ Grows
  BY DEF FitInv, Grows

(* The lines that the history gives to the editor fit. *)
LEMMA WalkFits ==
    ASSUME IInv, RoomInv, NEW c \in H!Slot
    PROVE  /\ Len(H!TextPrev(c)) < bufSize /\ Len(H!TextNext(c)) < bufSize
           /\ Len(H!TextAt(c)) < bufSize
  <1>1. bufSize > 0
    BY RoomForNothing DEF IInv, RoomInv
  <1>2. ASSUME NEW l \in Seq(Char), NEW d \in H!Slot,
               l # << >> => l = histBuf[d] /\ histBuf[d] # Null
        PROVE  Len(l) < bufSize
    <2>1. CASE l = << >>
      <3>1. Len(l) = 0
        BY <2>1, EmptyHasNoLength, Zenon
      <3> QED
        BY <1>1, <3>1
    <2>2. CASE l # << >>
      BY <1>2, <2>2 DEF RoomInv, LinesFit
    <2> QED
      BY <2>1, <2>2
  <1>3. HistoryInv
    BY DEF IInv
  <1>4. Len(H!TextPrev(c)) < bufSize
    BY <1>2, <1>3, TextOfWalk
  <1>5. Len(H!TextNext(c)) < bufSize
    BY <1>2, <1>3, TextOfWalk
  <1>6. Len(H!TextAt(c)) < bufSize
    BY <1>2, <1>3, TextOfSlot
  <1> QED
    BY <1>4, <1>5, <1>6

(* search_addchar and search_del put a line of the history in the buffer. *)
LEMMA ContinueFits ==
    ASSUME RoomInv, TextInv, NEW l \in Seq(Char), Len(l) < bufSize, NEW s, Continue(l, s)
    PROVE  FitInv' /\ Grows
  <1>1. buf' = l /\ kill' = kill /\ killSize' = killSize /\ bufSize' = bufSize
    BY DEF Continue, Replace, NotKill
  <1>2. Len(l) \in Nat
    OBVIOUS
  <1> QED
    BY <1>1, <1>2 DEF RoomInv, FitInv, Grows

LEMMA LoadLineFits ==
    ASSUME IInv, RoomInv, NEW l \in FileLine, LoadLine(l)
    PROVE  RoomInv'
  <1>1. l \in Line /\ l \in Seq(Char) /\ Len(l) \in Nat
    BY HistoryAssumption
  <1>2. bufSize > 0 /\ bufSize \in Nat
    BY RoomForNothing DEF IInv, RoomInv
  <1>3. bufSize' \in Nat /\ bufSize' >= bufSize /\ Len(l) < bufSize'
    <2>1. CASE Len(l) >= bufSize
      BY <1>1, <2>1, GrownRoom DEF LoadLine, HistAddSize, RoomInv
    <2>2. CASE ~(Len(l) >= bufSize)
      BY <1>1, <1>2, <2>2 DEF LoadLine, HistAddSize
    <2> QED
      BY <2>1, <2>2
  <1>4. LinesFit(bufSize')
    <2>1. ASSUME NEW s \in H!Slot, histBuf[s] # Null PROVE Len(histBuf[s]) < bufSize'
      <3>1. histBuf[s] \in Seq(Char)
        BY <2>1, LinesAreTexts DEF IInv, HistoryInv
      <3>2. Len(histBuf[s]) \in Nat /\ Len(histBuf[s]) < bufSize
        BY <2>1, <3>1 DEF RoomInv, LinesFit
      <3> QED
        BY <1>2, <1>3, <3>2
    <2> QED
      BY <2>1 DEF LinesFit
  <1>5. bufSize' \in Nat \ {0}
    BY <1>2, <1>3
  <1>6. \A s \in H!Slot' : histBuf'[s] # Null => Len(histBuf'[s]) < bufSize'
    BY <1>1, <1>3, <1>4, <1>5, AddFits DEF LoadLine, IInv
  <1>7. FitInv'
    <2>1. buf' = buf /\ kill' = kill /\ killSize' = killSize
      BY DEF LoadLine, text
    <2>2. Len(buf) \in Nat
      BY DEF IInv, TextInv
    <2> QED
      BY <1>2, <1>3, <2>1, <2>2 DEF RoomInv, FitInv
  <1> QED
    BY <1>6, <1>7 DEF RoomInv, LinesFit

LEMMA EnterFits ==
    ASSUME IInv, RoomInv, Enter
    PROVE  RoomInv'
  <1>1. cnt = Len(buf) /\ buf \in Seq(Char) /\ cnt \in Nat
    BY DEF Enter, IInv, TextInv, KeyInv, CursorInLine
  <1>2. bufSize' = Grown(bufSize, cnt + 1)
    BY DEF Enter
  <1>3. bufSize' \in Nat /\ bufSize' >= bufSize
    BY <1>1, <1>2, GrownRoom DEF RoomInv
  <1>4. CASE Trim(buf) = << >>
    <2>1. Replace(<< >>, 0) /\ UNCHANGED <<histSize, histBuf>>
      BY <1>4 DEF Enter
    <2>2. FitInv' /\ Grows
      BY <1>3, <2>1, ClearFits DEF IInv, RoomInv, Replace, NotKill
    <2> QED
      BY <2>1, <2>2, HistoryStaysInRoom
  <1>5. CASE Trim(buf) # << >>
    <2> DEFINE l == Trim(buf)
    <2>1. l \in Line /\ H!AddLine(l) /\ buf' = l /\ UNCHANGED <<kill, killSize>>
      BY <1>5 DEF Enter, NotKill
    <2>2. l \in Seq(Char) /\ Len(l) \in Nat /\ Len(l) <= Len(buf)
      BY <1>1, <2>1, HistoryAssumption, TrimIsShorter
    <2> HIDE DEF l
    <2>3. bufSize > 0 /\ bufSize \in Nat /\ Len(l) < bufSize
      BY <1>1, <2>2, RoomForNothing DEF IInv, RoomInv, FitInv
    <2>4. \A s \in H!Slot' : histBuf'[s] # Null => Len(histBuf'[s]) < bufSize
      BY <2>1, <2>3, AddFits DEF IInv, RoomInv
    <2>5. HistoryInv'
      BY EnterKeeps DEF IInv
    <2>6. LinesFit(bufSize)'
      <3>1. ASSUME NEW s \in H!Slot', histBuf'[s] # Null PROVE Len(histBuf'[s]) < bufSize'
        <4>1. histBuf'[s] \in Seq(Char)
          BY <2>5, <3>1, LinesAreTexts DEF HistoryInv
        <4>2. Len(histBuf'[s]) \in Nat /\ Len(histBuf'[s]) < bufSize
          BY <2>4, <3>1, <4>1
        <4> QED
          BY <1>3, <2>3, <4>2
      <3> QED
        BY <3>1 DEF LinesFit
    <2>7. FitInv'
      BY <1>3, <2>1, <2>2, <2>3 DEF RoomInv, FitInv
    <2> QED
      BY <2>6, <2>7 DEF RoomInv
  <1> QED
    BY <1>4, <1>5

LEMMA RoomStep == IInv /\ RoomInv /\ [Next]_vars => RoomInv'
  <1> SUFFICES ASSUME IInv, RoomInv, [Next]_vars PROVE RoomInv'
    OBVIOUS
  <1>1. bufSize > 0 /\ bufSize \in Nat /\ FitInv /\ TextInv /\ HistoryInv
    BY RoomForNothing DEF IInv, RoomInv
  <1>2. CASE \E l \in FileLine : LoadLine(l)
    BY <1>2, LoadLineFits
  <1>3. CASE Prompt
    <2>1. FitInv' /\ Grows
      BY <1>1, <1>3, ClearFits DEF Prompt, Replace, NotKill
    <2> QED
      BY <1>3, <2>1, HistoryStaysInRoom DEF Prompt, ring
  <1>4. CASE Backslash
    <2>1. FitInv' /\ Grows
      BY <1>1, <1>4, SameFits DEF Backslash, text, sizes
    <2> QED
      BY <1>4, <2>1, HistoryStaysInRoom DEF Backslash, ring
  <1>5. ASSUME NEW c \in Char, Type(c) PROVE RoomInv'
    <2>1. LineInv /\ AddChar(c)
      BY <1>5 DEF Type, IInv, TextInv, KeyInv, LineInv
    <2>2. FitInv' /\ Grows
      BY <1>1, <2>1, AddCharFits
    <2> QED
      BY <1>5, <2>2, HistoryStaysInRoom DEF Type, ring
  <1>6. ASSUME NEW c \in Char, SearchChar(c) PROVE RoomInv'
    <2>1. PICK s : Continue(buf, s)
      BY <1>6 DEF SearchChar
    <2>2. FitInv' /\ Grows
      BY <1>1, <2>1, ContinueFits DEF TextInv, FitInv
    <2> QED
      BY <2>1, <2>2, HistoryStaysInRoom DEF Continue
  <1>7. CASE Control
    <2>1. LineInv /\ (EditKey \/ Del(-1))
      BY <1>7 DEF Control, IInv, TextInv, KeyInv, LineInv
    <2>2. FitInv' /\ Grows
      BY <1>1, <2>1, EditKeyFits, DelFits
    <2> QED
      BY <1>7, <2>2, HistoryStaysInRoom DEF Control, Terminate
  <1>8. CASE Recall
    <2>1. CurAfterTerm \in H!Slot
      BY <1>1, AfterTerm
    <2>2. PICK l \in Seq(Char) : Recalled(l) /\ Len(l) < bufSize
      BY <1>1, <1>8, <2>1, TextOfWalk, WalkFits DEF Recall
    <2>3. FitInv' /\ Grows
      BY <1>1, <2>2, ReplaceFits DEF Recalled
    <2> QED
      BY <1>8, <2>3, HistoryStaysInRoom DEF Recall
  <1>9. CASE Leave
    <2>1. FitInv' /\ Grows
      BY <1>1, <1>9, SameFits DEF Leave, text, sizes
    <2> QED
      BY <1>9, <2>1, HistoryStaysInRoom DEF Leave, Terminate
  <1>10. ASSUME NEW fwd \in BOOLEAN, StartSearch(fwd) PROVE RoomInv'
    <2>1. FitInv' /\ Grows
      BY <1>1, <1>10, ClearFits DEF StartSearch, Replace, NotKill
    <2> QED
      BY <1>10, <2>1, HistoryStaysInRoom DEF StartSearch
  <1>11. ASSUME NEW fwd \in BOOLEAN, SearchAgain(fwd) PROVE RoomInv'
    <2>1. FitInv' /\ Grows
      BY <1>1, <1>11, SameFits DEF SearchAgain, text, sizes
    <2> QED
      BY <1>11, <2>1, HistoryStaysInRoom DEF SearchAgain, ring
  <1>12. CASE SearchDel
    <2>4. PICK cur \in H!Slot : \E s : Continue(H!TextAt(cur), s)
      BY <1>1, <1>12 DEF SearchDel, SearchRestart, HistoryInv
    <2>1. PICK s : Continue(H!TextAt(cur), s)
      BY <2>4
    <2>2. H!TextAt(cur) \in Seq(Char) /\ Len(H!TextAt(cur)) < bufSize
      BY <1>1, <2>1, TextOfSlot, WalkFits
    <2>3. FitInv' /\ Grows
      BY <1>1, <2>1, <2>2, ContinueFits
    <2> QED
      BY <2>1, <2>3, HistoryStaysInRoom DEF Continue
  <1>13. CASE SearchStep
    <2> DEFINE line == IF forward THEN H!TextNext(histCur) ELSE H!TextPrev(histCur)
    <2>1. histCur \in H!Slot
      BY <1>1 DEF HistoryInv
    <2>2. line \in Seq(Char) /\ Len(line) < bufSize
      BY <1>1, <2>1, TextOfWalk, WalkFits
    <2>3. \/ Replace(<< >>, 0) \/ Replace(line, FirstPlace(string, line))
          \/ NotKill /\ UNCHANGED text
      BY <1>13 DEF SearchStep
    <2>4. bufSize' = bufSize
      BY <1>13 DEF SearchStep
    <2> HIDE DEF line
    <2>5. FitInv' /\ Grows
      <3>1. CASE Replace(<< >>, 0)
        BY <1>1, <2>4, <3>1, ClearFits DEF Replace, NotKill
      <3>2. CASE Replace(line, FirstPlace(string, line))
        BY <1>1, <2>2, <2>4, <3>2, ReplaceFits
      <3>3. CASE NotKill /\ UNCHANGED text
        BY <1>1, <2>4, <3>3, SameFits DEF NotKill, text
      <3> QED
        BY <2>3, <3>1, <3>2, <3>3
    <2> QED
      BY <1>13, <2>5, HistoryStaysInRoom DEF SearchStep
  <1>14. CASE Enter
    BY <1>14, EnterFits
  <1>15. CASE Nul
    <2>1. FitInv' /\ Grows
      BY <1>1, <1>15, ClearFits DEF Nul, Replace, NotKill
    <2> QED
      BY <1>15, <2>1, HistoryStaysInRoom DEF Nul, ring
  <1>16. CASE Exit \/ Eof
    <2>1. FitInv' /\ Grows
      BY <1>1, <1>16, ClearFits DEF Exit, Eof, Emptied, NotKill
    <2> QED
      BY <1>16, <2>1, HistoryStaysInRoom DEF Exit, Eof, Terminate, ring
  <1>17. CASE UNCHANGED vars
    <2>1. UNCHANGED <<buf, bufSize, kill, killSize, histSize, histBuf>>
      BY <1>17 DEF vars, edit, text, sizes, ring
    <2> QED
      BY <1>1, <2>1, SameFits, HistoryStaysInRoom
  <1> QED
    BY <1>2, <1>3, <1>4, <1>5, <1>6, <1>7, <1>8, <1>9, <1>10, <1>11, <1>12, <1>13,
       <1>14, <1>15, <1>16, <1>17 DEF Next

(***************************************************************************)
(* The line and the kill buffer always fit in what is allocated, and so    *)
(* does every line of the history, for which nobody grows the buffer when  *)
(* it is copied there (cligen_hist_copy_prev, the search, hist_add).       *)
(***************************************************************************)
THEOREM BuffersCorrect == Spec => []BuffersFit
  <1>1. Init => RoomInv
    <2> SUFFICES ASSUME Init PROVE RoomInv
      OBVIOUS
    <2>1. FitInv
      BY InitFits DEF Init
    <2>2. bufSize = BufLen /\ BufLen > 0
      BY EditAssumption DEF Init, EditInit
    <2>3. histBuf = [s \in 0 .. HistLines |-> IF s = 0 THEN << >> ELSE Null]
      BY DEF Init, H!FreshBuf, H!Empty
    <2>4. H!Slot = 0 .. HistLines
      BY HistoryAssumption DEF Init, H!Slot
    <2>5. ASSUME NEW s \in H!Slot, histBuf[s] # Null PROVE Len(histBuf[s]) = 0
      <3>1. histBuf[s] = << >>
        BY <2>3, <2>4, <2>5
      <3> QED
        BY <3>1, EmptyHasNoLength, Zenon
    <2> QED
      BY <2>1, <2>2, <2>5 DEF RoomInv, LinesFit
  <1>2. RoomInv => BuffersFit
    BY DEF RoomInv, FitInv, LinesFit, BuffersFit
  <1> QED
    BY <1>1, <1>2, RoomStep, GetlineInv, PTL DEF Spec

----------------------------------------------------------------------------
(* The search for the newest line. *)

(* The lines of the history: none is empty, and those never used are last. *)
HistoryShape ==
    /\ \A d \in 1 .. HistLines : H!Recent[d] # << >>
    /\ \A d, e \in 1 .. HistLines :
          d <= e /\ H!Recent[d] = Null => H!Recent[e] = Null

Hit(d, s)  == H!Recent[d] # Null /\ Contains(H!Recent[d], s)
NoneTo(n)  == \A d \in 1 .. HistLines : d <= n => ~Hit(d, string)

(* A search that was begun with ^R and only had letters added and deleted: *)
(* what it has passed by does not contain the string.                      *)
PlainInv ==
    plain =>
        /\ search /\ ~forward /\ searchLast = histLast
        /\ phase \in {"key", "search"}
        /\ phase = "search" => ~newSearch /\ string # << >> /\ NoneTo(H!Position)
        /\ Key /\ string = << >> => buf = << >> /\ histCur = histLast
        /\ Key /\ string # << >> =>
              IF buf = << >> THEN NoneTo(HistLines) ELSE NoneTo(H!Position - 1)

FindInv == HistoryShape /\ PlainInv

(* The history as a list, in the circular array. *)

LEMMA RecentIsBefore ==
    ASSUME HistoryInv
    PROVE  /\ H!Recent = [d \in 1 .. HistLines |-> histBuf[H!Before(histLast, d)]]
           /\ H!Slot = 0 .. HistLines
           /\ HistLines \in Nat /\ HistLines >= 1 /\ histSize = HistLines + 1
  <1>1. HistLines \in Nat /\ HistLines >= 1 /\ histSize = HistLines + 1
    BY HistoryAssumption DEF HistoryInv
  <1>2. H!Depth = HistLines /\ H!Slot = 0 .. HistLines
    BY <1>1 DEF H!Depth, H!Slot
  <1> QED
    BY <1>1, <1>2 DEF H!Recent

LEMMA Steps ==
    ASSUME HistoryInv, NEW c \in H!Slot
    PROVE  /\ H!PrevSlot(c) = IF c = 0 THEN HistLines ELSE c - 1
           /\ H!NextSlot(c) = IF c = HistLines THEN 0 ELSE c + 1
  <1>1. histSize \in Nat /\ histSize >= 2 /\ c \in 0 .. histSize - 1
    BY RecentIsBefore
  <1>2. /\ H!PrevSlot(c) = IF c = 0 THEN histSize - 1 ELSE c - 1
        /\ H!NextSlot(c) = IF c = histSize - 1 THEN 0 ELSE c + 1
    BY <1>1 DEF H!PrevSlot, H!NextSlot
  <1> QED
    BY <1>2, RecentIsBefore

LEMMA BeforeInRing ==
    ASSUME HistoryInv, NEW s \in H!Slot, NEW d \in H!Slot
    PROVE  H!Before(s, d) = IF s >= d THEN s - d ELSE s - d + HistLines + 1
  <1>1. /\ histSize \in Nat /\ histSize >= 2
        /\ s \in 0 .. histSize - 1 /\ d \in 0 .. histSize - 1
    BY RecentIsBefore
  <1>2. H!Before(s, d) = IF s >= d THEN s - d ELSE s - d + histSize
    BY <1>1 DEF H!Before
  <1> QED
    BY <1>1, <1>2, RecentIsBefore

(* The line at which the history stands is the one at its position. *)
LEMMA PositionOfCursor ==
    ASSUME HistoryInv, NEW c \in H!Slot
    PROVE  /\ H!Before(histLast, c) \in 0 .. HistLines
           /\ H!Before(histLast, c) = 0 <=> c = histLast
           /\ c # histLast => /\ H!Before(histLast, c) \in 1 .. HistLines
                              /\ H!Recent[H!Before(histLast, c)] = histBuf[c]
  <1> DEFINE P == H!Before(histLast, c)
  <1>1. histLast \in H!Slot /\ H!Slot = 0 .. HistLines /\ HistLines \in Nat
    BY RecentIsBefore DEF HistoryInv
  <1>2. P = IF histLast >= c THEN histLast - c ELSE histLast - c + HistLines + 1
    BY <1>1, BeforeInRing
  <1> HIDE DEF P
  <1>3. P \in 0 .. HistLines /\ (P = 0 <=> c = histLast)
    BY <1>1, <1>2
  <1>4. ASSUME c # histLast
        PROVE  P \in 1 .. HistLines /\ H!Recent[P] = histBuf[c]
    <2>1. P \in 1 .. HistLines /\ P \in H!Slot
      BY <1>1, <1>3, <1>4
    <2>2. H!Before(histLast, P) =
              IF histLast >= P THEN histLast - P ELSE histLast - P + HistLines + 1
      BY <1>1, <2>1, BeforeInRing
    <2>3. H!Before(histLast, P) = c
      BY <1>1, <1>2, <2>1, <2>2
    <2> QED
      BY <2>1, <2>3, RecentIsBefore
  <1> QED
    BY <1>3, <1>4 DEF P

(* hist_prev stops at the separator, and else goes one line back. *)
LEMMA OneLineBack ==
    ASSUME HistoryInv, NEW c \in H!Slot
    PROVE  /\ H!PrevSlot(c) = histLast <=> H!Before(histLast, c) = HistLines
           /\ H!PrevSlot(c) # histLast =>
                H!Before(histLast, H!PrevSlot(c)) = H!Before(histLast, c) + 1
  <1>1. histLast \in H!Slot /\ H!Slot = 0 .. HistLines /\ HistLines \in Nat
        /\ HistLines >= 1
    BY RecentIsBefore DEF HistoryInv
  <1>2. H!PrevSlot(c) = (IF c = 0 THEN HistLines ELSE c - 1) /\ H!PrevSlot(c) \in H!Slot
    BY <1>1, Steps
  <1>3. H!Before(histLast, c) =
            IF histLast >= c THEN histLast - c ELSE histLast - c + HistLines + 1
    BY <1>1, BeforeInRing
  <1>4. H!Before(histLast, H!PrevSlot(c)) =
            IF histLast >= H!PrevSlot(c) THEN histLast - H!PrevSlot(c)
                                         ELSE histLast - H!PrevSlot(c) + HistLines + 1
    BY <1>1, <1>2, BeforeInRing
  <1> QED
    BY <1>1, <1>2, <1>3, <1>4

(* hist_add puts a line in front of the others, or changes none of them. *)
LEMMA AddIsPush ==
    ASSUME HistoryInv, NEW l \in Line, H!AddLine(l)
    PROVE  \/ H!Recent' = H!Recent
           \/ /\ l # << >> /\ l # Null
              /\ H!Recent' = [d \in 1 .. HistLines |->
                                  IF d = 1 THEN l ELSE H!Recent[d - 1]]
  <1> DEFINE next == H!NextSlot(histLast)
  <1>1. /\ histLast \in H!Slot /\ H!Slot = 0 .. HistLines
        /\ HistLines \in Nat /\ HistLines >= 1 /\ histSize = HistLines + 1
        /\ H!Recent = [d \in 1 .. HistLines |-> histBuf[H!Before(histLast, d)]]
    BY RecentIsBefore DEF HistoryInv
  <1>2. histSize' = histSize
    BY DEF H!AddLine
  <1>3. H!Recent' = [d \in 1 .. HistLines |-> histBuf'[H!Before(histLast', d)]]
    <2>1. H!Depth' = HistLines
      BY <1>1, <1>2 DEF H!Depth
    <2>2. \A s, d : H!Before(s, d)' = H!Before(s', d')
      BY <1>2 DEF H!Before
    <2> QED
      BY <1>2, <2>1 DEF H!Recent, H!Before
  <1>4. CASE ~H!IsBlank(l) /\ ~H!RepeatsPre(l)
    <2>1. /\ histBuf' = [histBuf EXCEPT ![histLast] = l, ![next] = << >>]
          /\ histLast' = next
      BY <1>4 DEF H!AddLine, H!SavedInBuf, H!Empty
    <2>2. next = IF histLast = HistLines THEN 0 ELSE histLast + 1
      BY <1>1, Steps
    <2>3. next \in H!Slot /\ next # histLast
      BY <1>1, <2>2
    <2> HIDE DEF next
    <2>4. /\ histBuf'[histLast] = l
          /\ \A s \in H!Slot : s # histLast /\ s # next => histBuf'[s] = histBuf[s]
      BY <1>1, <2>1, <2>3 DEF HistoryInv
    <2>5. ASSUME NEW d \in 1 .. HistLines
          PROVE  histBuf'[H!Before(next, d)] = IF d = 1 THEN l ELSE H!Recent[d - 1]
      <3>1. d \in H!Slot /\ d - 1 \in H!Slot
        BY <1>1
      <3>2. H!Before(next, d) =
                IF next >= d THEN next - d ELSE next - d + HistLines + 1
        BY <2>3, <3>1, BeforeInRing
      <3>3. CASE d = 1
        <4>1. H!Before(next, d) = histLast
          BY <1>1, <2>2, <3>2, <3>3
        <4> QED
          BY <2>4, <3>3, <4>1
      <3>4. CASE d # 1
        <4>1. H!Before(histLast, d - 1) =
                  IF histLast >= d - 1 THEN histLast - (d - 1)
                                       ELSE histLast - (d - 1) + HistLines + 1
          BY <1>1, <3>1, BeforeInRing
        <4>2. H!Before(next, d) = H!Before(histLast, d - 1)
          BY <1>1, <2>2, <3>2, <4>1
        <4>3. /\ H!Before(next, d) \in H!Slot
              /\ H!Before(next, d) # histLast /\ H!Before(next, d) # next
          BY <1>1, <2>2, <3>2, <3>4
        <4>4. H!Recent[d - 1] = histBuf[H!Before(histLast, d - 1)]
          BY <1>1, <3>4
        <4> QED
          BY <2>4, <3>4, <4>2, <4>3, <4>4
      <3> QED
        BY <3>3, <3>4
    <2>6. H!Recent' = [d \in 1 .. HistLines |-> IF d = 1 THEN l ELSE H!Recent[d - 1]]
      BY <1>3, <2>1, <2>5
    <2>7. l # << >>
      BY <1>4 DEF H!IsBlank
    <2> QED
      BY <2>6, <2>7, LinesAreTexts
  <1>5. CASE ~(~H!IsBlank(l) /\ ~H!RepeatsPre(l))
    <2>1. UNCHANGED <<histBuf, histLast>>
      BY <1>5 DEF H!AddLine
    <2> QED
      BY <1>1, <1>3, <2>1
  <1> QED
    BY <1>4, <1>5

LEMMA AddKeepsShape ==
    ASSUME HistoryInv, HistoryShape, NEW l \in Line, H!AddLine(l)
    PROVE  HistoryShape'
  <1>1. CASE H!Recent' = H!Recent
    BY <1>1 DEF HistoryShape
  <1>2. CASE /\ l # << >> /\ l # Null
             /\ H!Recent' = [d \in 1 .. HistLines |->
                                  IF d = 1 THEN l ELSE H!Recent[d - 1]]
    <2>1. HistLines \in Nat
      BY RecentIsBefore
    <2>2. ASSUME NEW d \in 1 .. HistLines PROVE H!Recent'[d] # << >>
      BY <1>2, <2>1 DEF HistoryShape
    <2>3. ASSUME NEW d \in 1 .. HistLines, NEW e \in 1 .. HistLines,
                 d <= e, H!Recent'[d] = Null
          PROVE  H!Recent'[e] = Null
      <3>1. d # 1 /\ e # 1
        BY <1>2, <2>1, <2>3
      <3>2. /\ d - 1 \in 1 .. HistLines /\ e - 1 \in 1 .. HistLines /\ d - 1 <= e - 1
            /\ H!Recent[d - 1] = Null /\ H!Recent'[e] = H!Recent[e - 1]
        BY <1>2, <2>1, <2>3, <3>1
      <3> QED
        BY <3>2 DEF HistoryShape
    <2> QED
      BY <2>2, <2>3 DEF HistoryShape
  <1> QED
    BY <1>1, <1>2, AddIsPush

(* What the search has passed by stays passed by when a letter is added. *)
LEMMA ContainsLess ==
    ASSUME NEW l \in Seq(Char), NEW s \in Seq(Char), NEW c \in Char,
           Contains(l, Append(s, c))
    PROVE  Contains(l, s)
  <1> DEFINE t == Append(s, c)
  <1>1. /\ t \in Seq(Char) /\ Len(t) = Len(s) + 1 /\ Len(s) \in Nat /\ Len(l) \in Nat
        /\ \A k \in 1 .. Len(s) : t[k] = s[k]
    OBVIOUS
  <1>2. PICK p \in 0 .. Len(l) - Len(t) : SubSeq(l, p + 1, p + Len(t)) = t
    BY DEF Contains, Places, Occurs
  <1> HIDE DEF t
  <1>3. p \in Nat /\ p + Len(t) <= Len(l)
    BY <1>1, <1>2
  <1>4. \A k \in 1 .. Len(t) : t[k] = l[p + k]
    <2>1. \A k \in p + 1 .. p + Len(t) : l[k] \in Char
      BY <1>1, <1>3
    <2>2. \A k \in 1 .. p + Len(t) - (p + 1) + 1 :
              SubSeq(l, p + 1, p + Len(t))[k] = l[p + 1 + k - 1]
      BY <1>1, <1>3, <2>1, SubSeqProperties
    <2>3. \A k \in 1 .. p + Len(t) - (p + 1) + 1 : t[k] = l[p + 1 + k - 1]
      BY <1>2, <2>2
    <2>4. \A k \in 1 .. Len(t) :
              k \in 1 .. p + Len(t) - (p + 1) + 1 /\ p + 1 + k - 1 = p + k
      BY <1>1, <1>3
    <2> QED
      BY <2>3, <2>4
  <1>5. /\ SubSeq(l, p + 1, p + Len(s)) \in Seq(Char)
        /\ Len(SubSeq(l, p + 1, p + Len(s))) = Len(s)
        /\ \A k \in 1 .. Len(s) : SubSeq(l, p + 1, p + Len(s))[k] = l[p + k]
    <2>1. \A k \in p + 1 .. p + Len(s) : l[k] \in Char
      BY <1>1, <1>3
    <2>2. /\ SubSeq(l, p + 1, p + Len(s)) \in Seq(Char)
          /\ Len(SubSeq(l, p + 1, p + Len(s))) =
                 IF p + 1 <= p + Len(s) THEN p + Len(s) - (p + 1) + 1 ELSE 0
          /\ \A k \in 1 .. p + Len(s) - (p + 1) + 1 :
                 SubSeq(l, p + 1, p + Len(s))[k] = l[p + 1 + k - 1]
      BY <1>1, <1>3, <2>1, SubSeqProperties
    <2> QED
      BY <1>1, <1>3, <2>2
  <1>6. SubSeq(l, p + 1, p + Len(s)) = s
    <2>1. \A k \in 1 .. Len(s) : SubSeq(l, p + 1, p + Len(s))[k] = s[k]
      BY <1>1, <1>4, <1>5
    <2> HIDE DEF t
    <2> QED
      BY <1>5, <2>1, SeqEqual
  <1>7. p \in 0 .. Len(l) - Len(s)
    BY <1>1, <1>3
  <1> QED
    BY <1>6, <1>7 DEF Contains, Places, Occurs

LEMMA NothingHasNoString ==
    ASSUME NEW s \in Seq(Char), s # << >>
    PROVE  ~Contains(<< >>, s)
  <1>1. Len(s) \in Nat /\ Len(s) > 0
    OBVIOUS
  <1>2. Len(<< >>) = 0
    BY EmptyHasNoLength
  <1>3. 0 .. Len(<< >>) - Len(s) = {}
    BY <1>1, <1>2
  <1> QED
    BY <1>3, Zenon DEF Contains, Places

LEMMA EmptyIsEverywhere ==
    ASSUME NEW l \in Seq(Char)
    PROVE  Contains(l, << >>)
  <1> DEFINE e == << >>
  <1>1. Len(e) = 0
    BY EmptyHasNoLength, Zenon
  <1>2. Len(l) \in Nat
    OBVIOUS
  <1>3. 0 \in 0 .. Len(l) - Len(e)
    BY <1>1, <1>2
  <1>4. SubSeq(l, 0 + 1, 0 + Len(e)) = << >>
    <2>1. 0 + Len(e) < 0 + 1
      BY <1>1
    <2> QED
      BY <1>2, <2>1
  <1> QED
    BY <1>3, <1>4 DEF Contains, Places, Occurs

(* A search string that gets longer finds no more than before. *)
LEMMA NoneWithMore ==
    ASSUME HistoryInv, TextInv, NEW n, NoneTo(n),
           NEW s \in Seq(Char), \A l \in Seq(Char) : Contains(l, s) => Contains(l, string)
    PROVE  \A d \in 1 .. HistLines : d <= n => ~Hit(d, s)
  <1>1. ASSUME NEW d \in 1 .. HistLines, d <= n, Hit(d, s) PROVE FALSE
    <2>1. d \in H!Slot /\ H!Before(histLast, d) \in H!Slot
      <3>1. d \in H!Slot /\ histLast \in H!Slot /\ H!Slot = 0 .. HistLines
            /\ HistLines \in Nat
        BY RecentIsBefore DEF HistoryInv
      <3>2. H!Before(histLast, d) =
                IF histLast >= d THEN histLast - d ELSE histLast - d + HistLines + 1
        BY <3>1, BeforeInRing
      <3> QED
        BY <3>1, <3>2
    <2>2. H!Recent[d] = histBuf[H!Before(histLast, d)] /\ H!Recent[d] # Null
      BY <1>1, RecentIsBefore DEF Hit
    <2>3. H!Recent[d] \in Seq(Char)
      BY <2>1, <2>2, LinesAreTexts DEF HistoryInv
    <2> QED
      BY <1>1, <2>3 DEF Hit, NoneTo
  <1> QED
    BY <1>1

(* search_addchar and search_del look at a line first, at which the history *)
(* stands, and go on from there.                                           *)
LEMMA ContinueFinds ==
    ASSUME HistoryInv, TextInv, HistoryShape, phase = "key",
           NEW l \in Seq(Char), NEW s \in Seq(Char), Continue(l, s),
           UNCHANGED plain, search, ~forward, searchLast = histLast, histCur' \in H!Slot,
           l # << >> => l = histBuf[histCur'],
           s = << >> => l = << >> /\ histCur' = histLast,
           s # << >> => \A d \in 1 .. HistLines :
                            d <= (IF l = << >> /\ histCur' # histLast
                                    THEN HistLines ELSE H!Before(histLast, histCur') - 1)
                            => ~Hit(d, s)
    PROVE  FindInv'
  <1>1. /\ UNCHANGED <<histSize, histBuf, histLast, search, forward, searchLast>>
        /\ string' = s /\ buf' = l
    BY DEF Continue, Replace
  <1>2. H!Recent' = H!Recent /\ H!Position' = H!Before(histLast, histCur')
    BY <1>1 DEF H!Recent, H!Depth, H!Before, H!Position
  <1>3. \A d : Hit(d, string)' <=> Hit(d, s)
    BY <1>1, <1>2 DEF Hit
  <1>4. HistoryShape'
    BY <1>2 DEF HistoryShape
  <1> DEFINE P == H!Before(histLast, histCur')
  <1>5. /\ P \in 0 .. HistLines /\ HistLines \in Nat
        /\ P = 0 <=> histCur' = histLast
        /\ histCur' # histLast => P \in 1 .. HistLines /\ H!Recent[P] = histBuf[histCur']
    BY PositionOfCursor, RecentIsBefore
  <1> HIDE DEF P
  <1>6. CASE StillGood(l, s)
    <2>1. phase' = "key"
      BY <1>6 DEF Continue
    <2>2. s # << >> => l # << >>
      BY <1>6, NothingHasNoString DEF StillGood
    <2>3. s # << >> => \A d \in 1 .. HistLines : d <= P - 1 => ~Hit(d, s)
      BY <2>2 DEF P
    <2>4. s # << >> => NoneTo(H!Position - 1)'
      BY <1>2, <1>3, <2>3 DEF NoneTo, P
    <2> QED
      BY <1>1, <1>4, <2>1, <2>2, <2>4 DEF FindInv, PlainInv, Key
  <1>7. CASE ~StillGood(l, s)
    <2>1. phase' = "search" /\ newSearch' = FALSE
      BY <1>7 DEF Continue
    <2>2. s # << >>
      BY <1>7, EmptyIsEverywhere DEF StillGood
    <2>3. \A d \in 1 .. HistLines : d <= P => ~Hit(d, s)
      <3>1. CASE histCur' = histLast
        BY <1>5, <3>1
      <3>2. CASE histCur' # histLast /\ l = << >>
        BY <1>5, <2>2, <3>2
      <3>3. CASE histCur' # histLast /\ l # << >>
        <4>1. \A d \in 1 .. HistLines : d <= P - 1 => ~Hit(d, s)
          BY <2>2, <3>3 DEF P
        <4>2. ~Hit(P, s)
          BY <1>5, <1>7, <3>3 DEF Hit, StillGood
        <4> QED
          BY <1>5, <4>1, <4>2
      <3> QED
        BY <3>1, <3>2, <3>3
    <2>4. NoneTo(H!Position)'
      BY <1>2, <1>3, <2>3 DEF NoneTo, P
    <2> QED
      BY <1>1, <1>4, <2>1, <2>2, <2>4 DEF FindInv, PlainInv, Key
  <1> QED
    BY <1>6, <1>7

LEMMA SearchCharFinds ==
    ASSUME IInv, FindInv, NEW c \in Char, SearchChar(c), plain
    PROVE  FindInv'
  <1> DEFINE s == IF Len(string) + 1 < SearchLen THEN Append(string, c) ELSE string
  <1>1. s \in Seq(Char) /\ buf \in Seq(Char) /\ string \in Seq(Char)
        /\ (s = << >> => string = << >>)
    BY DEF IInv, TextInv
  <1>2. \A l \in Seq(Char) : Contains(l, s) => Contains(l, string)
    BY <1>1, ContainsLess
  <1>3. /\ Continue(buf, s) /\ histCur' = histCur /\ UNCHANGED plain
        /\ phase = "key" /\ Key
    BY DEF SearchChar, Key
  <1> HIDE DEF s
  <1>4. /\ search /\ ~forward /\ searchLast = histLast /\ histCur \in H!Slot
        /\ buf # << >> => buf = histBuf[histCur]
        /\ string = << >> => buf = << >> /\ histCur = histLast
        /\ string # << >> =>
              IF buf = << >> THEN NoneTo(HistLines) ELSE NoneTo(H!Position - 1)
    BY <1>3 DEF FindInv, PlainInv, IInv, ShownInv, HistoryInv
  <1>5. H!Position = H!Before(histLast, histCur)
    BY DEF H!Position
  <1>6. HistoryInv /\ TextInv /\ HistoryShape
    BY DEF IInv, FindInv
  <1> DEFINE n == IF buf = << >> /\ histCur # histLast
                    THEN HistLines ELSE H!Before(histLast, histCur) - 1
  <1>7. ASSUME s # << >>
        PROVE  \A d \in 1 .. HistLines : d <= n => ~Hit(d, s)
    <2>1. /\ H!Before(histLast, histCur) \in 0 .. HistLines /\ HistLines \in Nat
          /\ histCur = histLast => H!Before(histLast, histCur) = 0
      BY <1>4, <1>6, PositionOfCursor, RecentIsBefore
    <2>2. CASE histCur = histLast
      BY <2>1, <2>2
    <2>3. CASE histCur # histLast
      <3>1. NoneTo(n)
        BY <1>4, <1>5, <2>3
      <3> HIDE DEF n
      <3> QED
        BY <1>1, <1>2, <1>6, <3>1, NoneWithMore
    <2> QED
      BY <2>2, <2>3
  <1> QED
    BY <1>1, <1>3, <1>4, <1>6, <1>7, ContinueFinds

LEMMA SearchDelFinds ==
    ASSUME IInv, FindInv, SearchDel, plain
    PROVE  FindInv'
  <1> DEFINE s   == IF string = << >> THEN string ELSE Upto(string, Len(string) - 1)
             cur == IF s # << >> THEN SearchRestart ELSE histLast
  <1>1. s \in Seq(Char)
    <2>1. CASE string = << >>
      BY <2>1 DEF IInv, TextInv
    <2>2. CASE string # << >>
      <3>1. Len(string) - 1 \in Nat
        BY <2>2 DEF IInv, TextInv
      <3> QED
        BY <2>2, <3>1, PartsOfLine DEF IInv, TextInv
    <2> QED
      BY <2>1, <2>2
  <1>2. Continue(H!TextAt(cur), s) /\ histCur' = cur /\ phase = "key" /\ UNCHANGED plain
    BY DEF SearchDel, Key
  <1>3. search /\ ~forward /\ searchLast = histLast
    BY DEF FindInv, PlainInv
  <1>4. cur = histLast /\ histLast \in H!Slot /\ H!TextAt(histLast) = << >>
    BY <1>3, LinesAreTexts DEF IInv, HistoryInv, SearchRestart, H!TextAt, H!Empty
  <1> HIDE DEF s, cur
  <1>5. HistoryInv /\ TextInv /\ HistoryShape /\ << >> \in Seq(Char)
    BY LinesAreTexts DEF IInv, FindInv
  <1>6. \A d \in 1 .. HistLines : ~(d <= H!Before(histLast, histLast) - 1)
    <2>1. H!Before(histLast, histLast) = 0
      BY <1>4, <1>5, PositionOfCursor
    <2> QED
      BY <2>1
  <1>7. \A e \in Seq(Char) : e = << >> /\ Continue(e, s) => FindInv'
    BY <1>1, <1>2, <1>3, <1>4, <1>5, <1>6, ContinueFinds
  <1> QED
    BY <1>2, <1>4, <1>5, <1>7, Zenon

LEMMA SearchStepFinds ==
    ASSUME IInv, FindInv, SearchStep, plain
    PROVE  FindInv'
  <1> DEFINE cur  == H!AfterPrev(histCur)
             line == H!TextPrev(histCur)
             P    == H!Position
  <1>1. /\ search /\ ~forward /\ searchLast = histLast /\ ~newSearch /\ string # << >>
        /\ NoneTo(P) /\ HistoryShape /\ HistoryInv /\ histCur \in H!Slot
    BY DEF FindInv, PlainInv, SearchStep, IInv, HistoryInv
  <1>2. /\ histCur' = cur
        /\ UNCHANGED <<histSize, histBuf, histLast, search, string, forward, newSearch,
                       plain>>
    BY <1>1 DEF SearchStep
  <1>3. H!Recent' = H!Recent /\ H!Position' = H!Before(histLast, cur)
    BY <1>2 DEF H!Recent, H!Depth, H!Before, H!Position
  <1>4. HistoryShape' /\ \A d : Hit(d, string)' <=> Hit(d, string)
    BY <1>1, <1>2, <1>3 DEF HistoryShape, Hit
  <1>5. /\ P = H!Before(histLast, histCur) /\ P \in 0 .. HistLines /\ HistLines \in Nat
        /\ P = 0 <=> histCur = histLast
        /\ histCur # histLast => P \in 1 .. HistLines /\ H!Recent[P] = histBuf[histCur]
        /\ H!PrevSlot(histCur) = histLast <=> P = HistLines
        /\ H!PrevSlot(histCur) # histLast =>
              H!Before(histLast, H!PrevSlot(histCur)) = P + 1
    BY <1>1, PositionOfCursor, OneLineBack, RecentIsBefore DEF H!Position
  <1>6. H!PrevSlot(histCur) \in H!Slot
    BY <1>1, Neighbours
  <1> HIDE DEF P
  <1>7. CASE ~H!CanPrev(histCur)
    <2>1. line = << >>
      BY <1>7 DEF H!TextPrev, H!Empty
    <2>2. phase' = "key" /\ buf' = << >> /\ searchLast' = searchLast
      BY <1>1, <2>1 DEF SearchStep, Exhausted, Replace
    <2>3. NoneTo(HistLines)
      <3>1. CASE H!PrevSlot(histCur) = histLast
        BY <1>1, <1>5, <3>1
      <3>2. CASE histBuf[histCur] = Null
        <4>1. histCur # histLast
          BY <1>1, <3>2, LinesAreTexts DEF HistoryInv
        <4>2. P \in 1 .. HistLines /\ H!Recent[P] = Null
          BY <1>5, <3>2, <4>1
        <4>3. \A e \in 1 .. HistLines : P <= e => H!Recent[e] = Null
          BY <1>1, <4>2 DEF HistoryShape
        <4>4. \A e \in 1 .. HistLines : P <= e => ~Hit(e, string)
          BY <4>3 DEF Hit
        <4> QED
          BY <1>1, <1>5, <4>4 DEF NoneTo
      <3> QED
        BY <1>7, <3>1, <3>2 DEF H!CanPrev
    <2>4. NoneTo(HistLines)'
      BY <1>4, <2>3 DEF NoneTo
    <2> QED
      BY <1>1, <1>2, <1>4, <2>2, <2>4 DEF FindInv, PlainInv, Key
  <1>8. CASE H!CanPrev(histCur)
    <2> DEFINE Q == P + 1
    <2>1. /\ cur = H!PrevSlot(histCur) /\ cur # histLast
          /\ line = IF histBuf[cur] = Null THEN << >> ELSE histBuf[cur]
      BY <1>8 DEF H!AfterPrev, H!TextPrev, H!TextAt, H!CanPrev, H!Empty
    <2>2. H!Before(histLast, cur) = Q /\ cur \in H!Slot
      BY <1>5, <1>6, <2>1
    <2>3. Q \in 1 .. HistLines /\ H!Recent[Q] = histBuf[cur]
      BY <1>1, <2>1, <2>2, PositionOfCursor
    <2> HIDE DEF cur
    <2>4. histBuf[cur] # << >>
      BY <1>1, <2>3 DEF HistoryShape
    <2>5. CASE histBuf[cur] = Null
      <3>1. phase' = "key" /\ buf' = << >> /\ searchLast' = searchLast
        BY <1>1, <2>1, <2>5 DEF SearchStep, Exhausted, Replace
      <3>2. \A e \in 1 .. HistLines : Q <= e => ~Hit(e, string)
        BY <1>1, <2>3, <2>5 DEF HistoryShape, Hit
      <3>3. NoneTo(HistLines)
        BY <1>1, <1>5, <3>2 DEF NoneTo
      <3>4. NoneTo(HistLines)'
        BY <1>4, <3>3 DEF NoneTo
      <3> QED
        BY <1>1, <1>2, <1>4, <3>1, <3>4 DEF FindInv, PlainInv, Key
    <2>6. CASE histBuf[cur] # Null /\ Contains(histBuf[cur], string)
      <3>1. phase' = "key" /\ buf' = histBuf[cur] /\ searchLast' = searchLast
        BY <1>1, <2>1, <2>4, <2>6 DEF SearchStep, Exhausted, Replace
      <3>2. H!Position' - 1 = P
        BY <1>3, <1>5, <2>2
      <3>3. NoneTo(H!Position - 1)'
        BY <1>1, <1>4, <3>2 DEF NoneTo
      <3> QED
        BY <1>1, <1>2, <1>4, <2>4, <3>1, <3>3 DEF FindInv, PlainInv, Key
    <2>7. CASE histBuf[cur] # Null /\ ~Contains(histBuf[cur], string)
      <3>1. phase' = "search" /\ searchLast' = searchLast
        BY <1>1, <2>1, <2>4, <2>7 DEF SearchStep, Exhausted
      <3>2. ~Hit(Q, string)
        BY <2>3, <2>7 DEF Hit
      <3>3. NoneTo(Q)
        BY <1>1, <1>5, <3>2 DEF NoneTo
      <3>4. NoneTo(H!Position)'
        BY <1>3, <1>4, <2>2, <3>3 DEF NoneTo
      <3> QED
        BY <1>1, <1>2, <1>4, <3>1, <3>4 DEF FindInv, PlainInv, Key
    <2> QED
      BY <2>5, <2>6, <2>7
  <1> QED
    BY <1>7, <1>8

(* A step that leaves the lines alone and ends the search for the newest. *)
LEMMA NotPlain ==
    ASSUME FindInv, UNCHANGED <<histSize, histBuf, histLast>>, ~plain'
    PROVE  FindInv'
  <1>1. H!Recent' = H!Recent
    BY DEF H!Recent, H!Depth, H!Before
  <1> QED
    BY <1>1 DEF FindInv, HistoryShape, PlainInv

(* A step that leaves all alone the search is about. *)
LEMMA PlainStays ==
    ASSUME FindInv, UNCHANGED <<ring, find, buf, phase>>
    PROVE  FindInv'
  <1>1. H!Recent' = H!Recent /\ H!Position' = H!Position
    BY DEF ring, H!Recent, H!Depth, H!Before, H!Position
  <1>2. \A n : NoneTo(n)' <=> NoneTo(n')
    BY <1>1 DEF NoneTo, Hit, find
  <1> QED
    BY <1>1, <1>2 DEF FindInv, HistoryShape, PlainInv, ring, find, Key

LEMMA FindInit == Init => FindInv
  <1> SUFFICES ASSUME Init PROVE FindInv
    OBVIOUS
  <1>1. HistoryInv
    BY GetlineInit DEF IInv
  <1>2. ASSUME NEW d \in 1 .. HistLines PROVE H!Recent[d] = Null
    <2>1. /\ histLast = 0 /\ HistLines \in Nat /\ d \in H!Slot /\ histLast \in H!Slot
          /\ H!Slot = 0 .. HistLines
          /\ H!Recent[d] = histBuf[H!Before(histLast, d)]
      BY <1>1, RecentIsBefore DEF Init, HistoryInv
    <2>2. H!Before(histLast, d) =
              IF histLast >= d THEN histLast - d ELSE histLast - d + HistLines + 1
      BY <1>1, <2>1, BeforeInRing
    <2>3. H!Before(histLast, d) \in 1 .. HistLines
      BY <2>1, <2>2
    <2>4. histBuf = [s \in 0 .. HistLines |-> IF s = 0 THEN << >> ELSE Null]
      BY DEF Init, H!FreshBuf, H!Empty
    <2> QED
      BY <2>1, <2>3, <2>4
  <1> QED
    BY <1>2, LinesAreTexts DEF Init, FindInv, HistoryShape, PlainInv

LEMMA FindStep == IInv /\ FindInv /\ [Next]_vars => FindInv'
  <1> SUFFICES ASSUME IInv, FindInv, [Next]_vars PROVE FindInv'
    OBVIOUS
  <1>1. HistoryInv /\ TextInv /\ HistoryShape
    BY DEF IInv, FindInv
  <1>2. CASE UNCHANGED vars
    <2>1. UNCHANGED <<edit, ring, phase, find>>
      BY <1>2 DEF vars
    <2> QED
      BY <2>1, PlainStays DEF edit, text
  <1>3. ASSUME NEW l \in FileLine, LoadLine(l) PROVE FindInv'
    <2>1. l \in Line
      BY HistoryAssumption
    <2>2. HistoryShape'
      BY <1>1, <1>3, <2>1, AddKeepsShape DEF LoadLine
    <2>3. ~plain'
      BY <1>3 DEF LoadLine, find, FindInv, PlainInv
    <2> QED
      BY <2>2, <2>3 DEF FindInv, PlainInv
  <1>4. CASE Prompt
    <2>1. ~plain' /\ UNCHANGED ring
      BY <1>4 DEF Prompt, find, FindInv, PlainInv
    <2> QED
      BY <2>1, NotPlain DEF ring
  <1>5. CASE Backslash
    BY <1>5, PlainStays DEF Backslash, text
  <1>6. ASSUME NEW c \in Char, Type(c) PROVE FindInv'
    <2>1. ~plain' /\ UNCHANGED ring
      BY <1>6 DEF Type, find, FindInv, PlainInv
    <2> QED
      BY <2>1, NotPlain DEF ring
  <1>7. ASSUME NEW c \in Char, SearchChar(c) PROVE FindInv'
    <2>1. CASE plain
      BY <1>7, <2>1, SearchCharFinds
    <2>2. CASE ~plain
      BY <1>7, <2>2, NotPlain DEF SearchChar, Continue
    <2> QED
      BY <2>1, <2>2
  <1>8. CASE Control
    BY <1>8, NotPlain DEF Control, Terminate, EndSearch
  <1>9. CASE Recall
    BY <1>9, NotPlain DEF Recall, EndSearch
  <1>10. CASE Leave
    BY <1>10, NotPlain DEF Leave, Terminate, EndSearch
  <1>11. ASSUME NEW fwd \in BOOLEAN, StartSearch(fwd) PROVE FindInv'
    <2>1. /\ UNCHANGED <<histSize, histBuf, histLast>>
          /\ search' /\ forward' = fwd /\ plain' = ~fwd /\ searchLast' = histLast
          /\ string' = << >> /\ buf' = << >> /\ histCur' = histLast /\ phase' = "key"
      BY <1>11 DEF StartSearch, SearchFrom, Replace, Key
    <2>2. H!Recent' = H!Recent
      BY <2>1 DEF H!Recent, H!Depth, H!Before
    <2> QED
      BY <1>1, <2>1, <2>2 DEF FindInv, HistoryShape, PlainInv
  <1>12. ASSUME NEW fwd \in BOOLEAN, SearchAgain(fwd) PROVE FindInv'
    BY <1>12, NotPlain DEF SearchAgain, ring
  <1>13. CASE SearchDel
    <2>1. CASE plain
      BY <1>13, <2>1, SearchDelFinds
    <2>2. CASE ~plain
      BY <1>13, <2>2, NotPlain DEF SearchDel, Continue
    <2> QED
      BY <2>1, <2>2
  <1>14. CASE SearchStep
    <2>1. CASE plain
      BY <1>14, <2>1, SearchStepFinds
    <2>2. CASE ~plain
      BY <1>14, <2>2, NotPlain DEF SearchStep
    <2> QED
      BY <2>1, <2>2
  <1>15. CASE Enter
    <2>1. ~plain'
      BY <1>15 DEF Enter, EndSearch
    <2>2. CASE Trim(buf) = << >>
      BY <1>15, <2>1, <2>2, NotPlain DEF Enter
    <2>3. CASE Trim(buf) # << >>
      <3>1. Trim(buf) \in Line /\ H!AddLine(Trim(buf))
        BY <1>15, <2>3 DEF Enter
      <3>2. HistoryShape'
        BY <1>1, <3>1, AddKeepsShape
      <3> QED
        BY <2>1, <3>2 DEF FindInv, PlainInv
    <2> QED
      BY <2>2, <2>3
  <1>16. CASE Nul
    BY <1>16, NotPlain DEF Nul, ring
  <1>17. CASE Exit
    BY <1>17, NotPlain DEF Exit, Terminate, EndSearch
  <1>18. CASE Eof
    BY <1>18, NotPlain DEF Eof, ring
  <1> QED
    BY <1>2, <1>3, <1>4, <1>5, <1>6, <1>7, <1>8, <1>9, <1>10, <1>11, <1>12, <1>13, <1>14,
       <1>15, <1>16, <1>17, <1>18 DEF Next

(***************************************************************************)
(* A search that was begun with ^R and in which only letters were added and *)
(* deleted shows the newest line of the history that contains the string,  *)
(* and an empty line only if none does: where search_last starts and at    *)
(* which line search_addchar goes on leave no newer line out.              *)
(***************************************************************************)
THEOREM SearchNewest == Spec => []SearchFindsNewest
  <1>1. IInv /\ FindInv => SearchFindsNewest
    <2> SUFFICES ASSUME IInv, FindInv, Key, search, plain, string # << >>
                 PROVE  SearchFindsNewest
      BY DEF SearchFindsNewest
    <2> DEFINE hits == {d \in 1 .. HistLines : Hit(d, string)}
               P    == H!Position
    <2>1. /\ HistoryInv /\ HistoryShape /\ histCur \in H!Slot /\ HistLines \in Nat
          /\ IF buf = << >> THEN NoneTo(HistLines) ELSE NoneTo(P - 1)
      BY RecentIsBefore DEF IInv, FindInv, PlainInv, HistoryInv
    <2>2. CASE buf = << >>
      <3>1. hits = {}
        BY <2>1, <2>2 DEF NoneTo
      <3> QED
        BY <2>2, <3>1 DEF SearchFindsNewest, Hit
    <2>3. CASE buf # << >>
      <3>1. buf = histBuf[histCur] /\ Contains(buf, string) /\ buf # Null
        BY <2>3, HistoryAssumption DEF IInv, ShownInv, TextInv
      <3>2. P \in 1 .. HistLines /\ H!Recent[P] = buf
        <4>1. histCur # histLast
          BY <2>3, <3>1 DEF IInv, HistoryInv
        <4> QED
          BY <2>1, <3>1, <4>1, PositionOfCursor DEF H!Position
      <3> HIDE DEF P
      <3>3. P \in hits
        BY <3>1, <3>2 DEF Hit
      <3>4. \A d \in hits : P <= d
        BY <2>1, <2>3, <3>2 DEF NoneTo
      <3>5. hits \subseteq Nat /\ hits # {}
        BY <2>1, <3>3
      <3> HIDE DEF hits
      <3>6. Leftmost(hits) \in hits /\ Leftmost(hits) <= P /\ Leftmost(hits) \in Nat
        BY <3>3, <3>5, LeftmostIsLeast
      <3>7. Leftmost(hits) = P
        BY <3>2, <3>4, <3>6
      <3>8. buf = IF hits = {} THEN << >> ELSE H!Recent[Leftmost(hits)]
        BY <3>2, <3>5, <3>7
      <3> QED
        BY <3>8 DEF SearchFindsNewest, Hit, hits
    <2> QED
      BY <2>2, <2>3
  <1> QED
    BY <1>1, FindInit, FindStep, GetlineInv, PTL DEF Spec
=============================================================================
