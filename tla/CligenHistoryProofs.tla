------------------------ MODULE CligenHistoryProofs ------------------------
(***************************************************************************)
(* Proofs about CligenHistory: the types, the shape of the circular array, *)
(* that the array implements the list of recent lines of HistoryLog, that  *)
(* a save writes all of its lines and that a load brings them back, for    *)
(* every history size, every set of lines and every history file.          *)
(***************************************************************************)
EXTENDS CligenHistory, FiniteSetTheorems, SequenceTheorems, WellFoundedInduction, TLAPS

(* The loop variable of save stays inside the array while save runs. *)
LoopInv == op \in {"rewind", "save"} => i \in Slot

IInv == TypeOK /\ RingInv /\ LoopInv

----------------------------------------------------------------------------
(* Arithmetic of the circular array. *)

SizeOK == histSize \in Nat /\ histSize >= 2

LEMMA NextIsSlot ==
    ASSUME SizeOK, NEW s \in Slot
    PROVE  /\ NextSlot(s) = IF s = histSize - 1 THEN 0 ELSE s + 1
           /\ NextSlot(s) \in Slot
           /\ NextSlot(s) # s
  BY DEF SizeOK, NextSlot, Slot

LEMMA PrevIsSlot ==
    ASSUME SizeOK, NEW s \in Slot
    PROVE  /\ PrevSlot(s) = IF s = 0 THEN histSize - 1 ELSE s - 1
           /\ PrevSlot(s) \in Slot
           /\ PrevSlot(s) # s
  BY DEF SizeOK, PrevSlot, Slot

LEMMA PrevOfNext ==
    ASSUME SizeOK, NEW s \in Slot
    PROVE  PrevSlot(NextSlot(s)) = s
  <1>1. CASE s = histSize - 1
    BY <1>1, NextIsSlot, PrevIsSlot DEF SizeOK, Slot
  <1>2. CASE s # histSize - 1
    BY <1>2, NextIsSlot, PrevIsSlot DEF SizeOK, Slot
  <1> QED
    BY <1>1, <1>2

LEMMA NextOfPrev ==
    ASSUME SizeOK, NEW s \in Slot
    PROVE  NextSlot(PrevSlot(s)) = s
  <1>1. CASE s = 0
    BY <1>1, NextIsSlot, PrevIsSlot DEF SizeOK, Slot
  <1>2. CASE s # 0
    BY <1>2, NextIsSlot, PrevIsSlot DEF SizeOK, Slot
  <1> QED
    BY <1>1, <1>2

(* A line that is stored is neither the empty string nor NULL. *)
LEMMA LineNotNull == ASSUME NEW l \in Line PROVE l # Null
  BY CharAssumption, InputAssumption

LEMMA EmptyNotNull == Empty # Null
  <1>1. Empty \in Seq(Char)
    BY DEF Empty
  <1> QED
    BY <1>1, CharAssumption

LEMMA StoredNotEmpty == ASSUME NEW l, ~IsBlank(l) PROVE l # Empty
  BY DEF IsBlank, Empty

----------------------------------------------------------------------------
(* The ring after cligen_hist_init. *)
Fresh(n) ==
    /\ histSize = n + 1
    /\ histBuf = FreshBuf(n)
    /\ histCur = 0
    /\ histLast = 0
    /\ histPre = Null

RingOK ==
    /\ histSize \in Nat /\ histSize >= 2
    /\ histBuf \in [Slot -> Line \cup {Empty, Null}]
    /\ histCur \in Slot
    /\ histLast \in Slot
    /\ histPre \in Slot \cup {Null}
    /\ RingInv

LEMMA FreshRing == \A n \in 1 .. MaxLines : Fresh(n) => RingOK
  <1> SUFFICES ASSUME NEW n \in 1 .. MaxLines, Fresh(n) PROVE RingOK
    OBVIOUS
  <1> USE DEF Fresh
  <1>1. n \in Nat /\ n >= 1 /\ Slot = 0 .. n /\ SizeOK
    BY BoundAssumption DEF Slot, SizeOK
  <1>2. histBuf \in [Slot -> Line \cup {Empty, Null}]
    BY <1>1 DEF FreshBuf
  <1>3. OnlyLastIsEmpty
    BY <1>1, EmptyNotNull DEF OnlyLastIsEmpty, FreshBuf
  <1>4. NullsFollowLast
    <2> SUFFICES ASSUME NEW s \in Slot, histBuf[s] = Null
                 PROVE  s # histLast
                        /\ (PrevSlot(s) = histLast \/ histBuf[PrevSlot(s)] = Null)
      BY DEF NullsFollowLast
    <2>1. s # 0
      BY <1>1, EmptyNotNull DEF FreshBuf
    <2>2. PrevSlot(s) = s - 1
      BY <1>1, <2>1, PrevIsSlot
    <2> QED
      BY <1>1, <2>1, <2>2 DEF FreshBuf
  <1>5. PreIsNewest
    BY <1>1 DEF PreIsNewest, FreshBuf
  <1> QED
    BY <1>1, <1>2, <1>3, <1>4, <1>5 DEF RingInv, RingOK

LEMMA FreshRingNext == (\A n \in 1 .. MaxLines : Fresh(n) => RingOK)'
  BY FreshRing, PTL

(* hist_add keeps the ring in shape. *)
LEMMA AddKeepsRing ==
    ASSUME IInv, NEW l \in Line, AddLine(l)
    PROVE  RingOK' /\ histSize' = histSize /\ added' = l
  <1> USE DEF IInv, TypeOK, RingOK
  <1>1. /\ histSize' = histSize /\ Slot' = Slot /\ SizeOK
        /\ \A s : PrevSlot(s)' = PrevSlot(s)
        /\ added' = l
    BY DEF AddLine, Slot, PrevSlot, SizeOK
  <1>2. CASE ~IsBlank(l) /\ ~RepeatsPre(l)
    <2> DEFINE next == NextSlot(histLast)
    <2>1. next \in Slot /\ next # histLast
      BY <1>1, NextIsSlot
    <2>2. /\ histBuf' = [histBuf EXCEPT ![histLast] = l, ![next] = Empty]
          /\ histPre' = histLast /\ histLast' = next /\ histCur' = next
      BY <1>2 DEF AddLine, SavedInBuf
    <2>3. /\ histBuf'[histLast] = l
          /\ histBuf'[next] = Empty
          /\ \A s \in Slot : s # histLast /\ s # next => histBuf'[s] = histBuf[s]
      BY <2>1, <2>2
    <2>4. l # Null /\ l # Empty
      BY <1>2, LineNotNull, StoredNotEmpty
    <2>5. PrevSlot(next) = histLast
      BY <1>1, PrevOfNext
    <2>6. OnlyLastIsEmpty'
      BY <1>1, <2>1, <2>2, <2>3, <2>4 DEF OnlyLastIsEmpty, RingInv
    <2>7. NullsFollowLast'
      <3> SUFFICES ASSUME NEW s \in Slot, histBuf'[s] = Null
                   PROVE  s # histLast'
                          /\ (PrevSlot(s) = histLast' \/ histBuf'[PrevSlot(s)] = Null)
        BY <1>1 DEF NullsFollowLast
      <3>1. s # next /\ s # histLast /\ histBuf[s] = Null
        BY <2>1, <2>3, <2>4, EmptyNotNull
      <3>2. PrevSlot(s) = histLast \/ histBuf[PrevSlot(s)] = Null
        BY <3>1 DEF RingInv, NullsFollowLast
      <3>3. PrevSlot(s) \in Slot
        BY <1>1, PrevIsSlot
      <3>4. PrevSlot(s) # histLast
        BY <1>1, <3>1, NextOfPrev
      <3> QED
        BY <2>2, <2>3, <3>1, <3>2, <3>3, <3>4
    <2>8. PreIsNewest'
      <3>1. histPre' # Null
        BY <2>2, CharAssumption DEF Slot
      <3>2. histPre' = PrevSlot(histLast)'
        BY <1>1, <2>2, <2>5 DEF PrevSlot
      <3>3. Saved(histPre)'
        BY <2>2, <2>3, <2>4 DEF Saved
      <3> QED
        BY <3>1, <3>2, <3>3 DEF PreIsNewest
    <2> QED
      BY <1>1, <2>1, <2>2, <2>6, <2>7, <2>8 DEF RingInv
  <1>3. CASE ~(~IsBlank(l) /\ ~RepeatsPre(l))
    <2>1. UNCHANGED <<histSize, histBuf, histLast, histPre>> /\ histCur' = histLast
      BY <1>3 DEF AddLine
    <2> QED
      BY <2>1, <1>1 DEF RingInv, OnlyLastIsEmpty, NullsFollowLast, PreIsNewest,
                        Saved, PrevSlot, Slot
  <1> QED
    BY <1>2, <1>3

----------------------------------------------------------------------------
LEMMA InitInv == Init => IInv
  <1> SUFFICES ASSUME Init PROVE IInv
    OBVIOUS
  <1>1. PICK n \in 1 .. MaxLines : histSize = n + 1 /\ histBuf = FreshBuf(n)
    BY DEF Init
  <1>2. file \in Seq(Line) /\ todo \in Seq(Line)
    BY InputAssumption DEF Init
  <1> QED
    BY <1>1, <1>2, FreshRing DEF Init, IInv, TypeOK, LoopInv, Fresh, RingOK

LEMMA StepInv == IInv /\ [Next]_vars => IInv'
  <1> SUFFICES ASSUME IInv, [Next]_vars PROVE IInv'
    OBVIOUS
  <1> USE DEF IInv
  <1>1. ASSUME NEW n \in 0 .. MaxLines, HistInit(n) PROVE IInv'
    <2>1. n \in 1 .. MaxLines
      BY <1>1, BoundAssumption DEF HistInit, Accepts
    <2>2. (\A m \in 1 .. MaxLines : Fresh(m) => RingOK)'
      BY FreshRingNext
    <2>3. Fresh(n)'
      BY <1>1 DEF HistInit, Fresh
    <2>4. RingOK'
      BY <2>1, <2>2, <2>3
    <2> QED
      BY <1>1, <2>4 DEF HistInit, TypeOK, LoopInv, fileVars, RingOK
  <1>2. ASSUME NEW l \in Typed, HistAdd(l) PROVE IInv'
    BY <1>2, AddKeepsRing, InputAssumption DEF HistAdd, TypeOK, LoopInv, fileVars, RingOK
  <1>3. ASSUME HistPrev \/ HistNext PROVE IInv'
    <2>1. UNCHANGED <<histSize, histBuf, histLast, histPre, added, fileVars>>
      BY <1>3 DEF HistPrev, HistNext
    <2>2. SizeOK /\ NextSlot(histCur) \in Slot /\ PrevSlot(histCur) \in Slot
      BY NextIsSlot, PrevIsSlot DEF TypeOK, SizeOK
    <2>3. histCur' \in Slot /\ got' \in Line \cup {Empty}
      BY <1>3, <2>2
         DEF HistPrev, HistNext, AfterPrev, AfterNext, TextPrev, TextNext, TextAt, TypeOK
    <2> QED
      BY <2>1, <2>2, <2>3 DEF TypeOK, LoopInv, fileVars, Slot, RingInv, OnlyLastIsEmpty,
                              NullsFollowLast, PreIsNewest, Saved, PrevSlot
  <1>4. ASSUME UNCHANGED ring, LoadStart \/ LoadEnd \/ SaveStart \/ SaveRewind
                               \/ SaveLine \/ SaveEnd \/ UNCHANGED vars
        PROVE  IInv'
    <2>1. RingInv'
      BY <1>4 DEF ring, Slot, RingInv, OnlyLastIsEmpty, NullsFollowLast, PreIsNewest,
                  Saved, PrevSlot
    <2>2. file' \in Seq(Line)
      <3>1. CASE SaveLine
        <4>1. histBuf[i] \in Line
          BY <3>1 DEF SaveLine, TypeOK, LoopInv, RingInv, OnlyLastIsEmpty
        <4>2. FileLines(histBuf[i]) \in Seq(Line)
          BY <4>1, LinesOfFileAssumption
        <4> QED
          BY <3>1, <4>2 DEF SaveLine, TypeOK
      <3>2. CASE SaveStart
        BY <3>2 DEF SaveStart
      <3>3. CASE file' = file
        BY <3>3 DEF TypeOK
      <3> QED
        BY <1>4, <3>1, <3>2, <3>3
           DEF LoadStart, LoadEnd, SaveRewind, SaveEnd, vars, fileVars
    <2>3. i' \in Nat /\ (op' \in {"rewind", "save"} => i' \in Slot)
      <3>1. SizeOK /\ Slot \subseteq Nat /\ \A s \in Slot : NextSlot(s) \in Slot
        BY NextIsSlot DEF TypeOK, SizeOK, Slot
      <3>2. CASE SaveStart \/ SaveRewind \/ SaveLine
        BY <3>1, <3>2 DEF SaveStart, RewindFrom, SaveRewind, SaveLine, TypeOK, LoopInv
      <3>3. CASE LoadStart \/ LoadEnd
        BY <3>1, <3>3 DEF LoadStart, LoadEnd, TypeOK, LoopInv
      <3>4. CASE SaveEnd \/ UNCHANGED vars
        BY <3>1, <3>4 DEF SaveEnd, TypeOK, LoopInv, vars, fileVars
      <3> QED
        BY <1>4, <3>2, <3>3, <3>4
    <2>4. got' = got /\ added' = added /\ op' \in {"idle", "load", "rewind", "save"}
                     /\ todo' \in Seq(Line) /\ fresh' \in BOOLEAN
      BY <1>4 DEF LoadStart, LoadEnd, SaveStart, SaveRewind, SaveLine, SaveEnd, TypeOK,
                  vars, fileVars
    <2> QED
      BY <1>4, <2>1, <2>2, <2>3, <2>4 DEF TypeOK, LoopInv, ring, Slot
  <1>5. ASSUME LoadLine PROVE IInv'
    <2>1. Head(todo) \in Line /\ Tail(todo) \in Seq(Line)
      BY <1>5 DEF LoadLine, TypeOK
    <2> QED
      BY <1>5, <2>1, AddKeepsRing DEF LoadLine, TypeOK, LoopInv, RingOK
  <1> QED
    BY <1>1, <1>2, <1>3, <1>4, <1>5
       DEF Next, FileStep, LoadStart, LoadEnd, SaveStart, SaveRewind, SaveLine, SaveEnd,
           vars

THEOREM InvariantHolds == Spec => []IInv
  BY InitInv, StepInv, PTL DEF Spec

(***************************************************************************)
(* Every variable keeps its type; in particular every index that the code  *)
(* uses on ch_hist_buf is inside the array.                                *)
(***************************************************************************)
THEOREM TypeCorrect == Spec => []TypeOK
  BY InvariantHolds, PTL DEF IInv

(***************************************************************************)
(* The separator, the unused slots and the pointer to the line saved       *)
(* before keep the shape that hist_add, hist_prev and file_save rely on.   *)
(***************************************************************************)
THEOREM RingCorrect == Spec => []RingInv
  BY InvariantHolds, PTL DEF IInv

----------------------------------------------------------------------------
(* Distances in the circular array. *)

LEMMA BeforeIsSlot ==
    ASSUME SizeOK, NEW s \in Slot, NEW d \in Slot
    PROVE  /\ Before(s, d) = IF s >= d THEN s - d ELSE s - d + histSize
           /\ Before(s, d) \in Slot
           /\ Before(s, Before(s, d)) = d
           /\ Before(s, d) = s <=> d = 0
  BY DEF SizeOK, Before, Slot

LEMMA NoDistance == ASSUME SizeOK, NEW s \in Slot PROVE Before(s, s) = 0
  BY BeforeIsSlot DEF SizeOK, Slot

LEMMA BeforeNext ==
    ASSUME SizeOK, NEW s \in Slot, NEW d \in 1 .. Depth
    PROVE  /\ d - 1 \in Slot /\ d \in Slot
           /\ Before(NextSlot(s), d) = Before(s, d - 1)
           /\ Before(s, d) # s
           /\ d # 1 => Before(s, d - 1) # NextSlot(s) /\ Before(s, d - 1) # s
           /\ Before(s, 1) = PrevSlot(s)
  <1>1. /\ d - 1 \in Slot /\ d \in Slot /\ 1 \in Slot /\ NextSlot(s) \in Slot
        /\ NextSlot(s) = IF s = histSize - 1 THEN 0 ELSE s + 1
        /\ PrevSlot(s) = IF s = 0 THEN histSize - 1 ELSE s - 1
    BY NextIsSlot, PrevIsSlot DEF SizeOK, Slot, Depth
  <1>2. /\ Before(NextSlot(s), d) =
             IF NextSlot(s) >= d THEN NextSlot(s) - d ELSE NextSlot(s) - d + histSize
        /\ Before(s, d - 1) =
             IF s >= d - 1 THEN s - (d - 1) ELSE s - (d - 1) + histSize
        /\ Before(s, d) = IF s >= d THEN s - d ELSE s - d + histSize
        /\ Before(s, 1) = IF s >= 1 THEN s - 1 ELSE s - 1 + histSize
    BY <1>1, BeforeIsSlot
  <1> QED
    BY <1>1, <1>2 DEF SizeOK, Slot, Depth

(* One place further back, or forth again. *)
LEMMA StepBack ==
    ASSUME SizeOK, NEW s \in Slot, NEW c \in Slot
    PROVE  /\ PrevSlot(c) # s <=> Before(s, c) < Depth
           /\ PrevSlot(c) # s => Before(s, PrevSlot(c)) = Before(s, c) + 1
           /\ c # s <=> Before(s, c) > 0
           /\ c # s => Before(s, NextSlot(c)) = Before(s, c) - 1
  <1>1. /\ PrevSlot(c) \in Slot /\ NextSlot(c) \in Slot
        /\ PrevSlot(c) = IF c = 0 THEN histSize - 1 ELSE c - 1
        /\ NextSlot(c) = IF c = histSize - 1 THEN 0 ELSE c + 1
    BY NextIsSlot, PrevIsSlot
  <1>2. /\ Before(s, c) = IF s >= c THEN s - c ELSE s - c + histSize
        /\ Before(s, PrevSlot(c)) =
             IF s >= PrevSlot(c) THEN s - PrevSlot(c) ELSE s - PrevSlot(c) + histSize
        /\ Before(s, NextSlot(c)) =
             IF s >= NextSlot(c) THEN s - NextSlot(c) ELSE s - NextSlot(c) + histSize
    BY <1>1, BeforeIsSlot
  <1> QED
    BY <1>1, <1>2 DEF SizeOK, Slot, Depth

----------------------------------------------------------------------------
(* The circular array implements the list of recent lines. *)

(* A newly initialised history is an empty list. *)
LEMMA FreshIsEmpty ==
    \A n \in 1 .. MaxLines :
        Fresh(n) => /\ Depth = n /\ n \in Nat \ {0}
                    /\ Position = 0
                    /\ Recent = [d \in 1 .. Depth |-> Null]
  <1> SUFFICES ASSUME NEW n \in 1 .. MaxLines, Fresh(n)
               PROVE  /\ Depth = n /\ n \in Nat \ {0}
                      /\ Position = 0
                      /\ Recent = [d \in 1 .. Depth |-> Null]
    OBVIOUS
  <1> USE DEF Fresh
  <1>1. SizeOK /\ Depth = n /\ n \in Nat \ {0} /\ 0 \in Slot /\ Slot = 0 .. n
    BY BoundAssumption DEF SizeOK, Depth, Slot
  <1>2. Position = 0
    BY <1>1, BeforeIsSlot DEF Position
  <1>3. \A d \in 1 .. Depth : Before(histLast, d) \in Slot /\ Before(histLast, d) # 0
    BY <1>1, BeforeNext, BeforeIsSlot
  <1>4. Recent = [d \in 1 .. Depth |-> Null]
    BY <1>1, <1>3 DEF Recent, FreshBuf
  <1> QED
    BY <1>1, <1>2, <1>4

LEMMA FreshIsEmptyNext ==
    (\A n \in 1 .. MaxLines :
        Fresh(n) => /\ Depth = n /\ n \in Nat \ {0}
                    /\ Position = 0
                    /\ Recent = [d \in 1 .. Depth |-> Null])'
  BY FreshIsEmpty, PTL

LEMMA InitRefines == Init => Log!Init
  <1> SUFFICES ASSUME Init PROVE Log!Init
    OBVIOUS
  <1>1. PICK n \in 1 .. MaxLines : Fresh(n)
    BY DEF Init, Fresh
  <1>2. /\ Depth = n /\ n \in Nat \ {0}
        /\ Position = 0
        /\ Recent = [d \in 1 .. Depth |-> Null]
    BY <1>1, FreshIsEmpty
  <1> QED
    BY <1>2 DEF Init, Log!Init, Empty

LEMMA HistInitRefines ==
    ASSUME NEW n \in 0 .. MaxLines, HistInit(n) PROVE Log!Reset
  <1>1. n \in 1 .. MaxLines
    BY BoundAssumption DEF HistInit, Accepts
  <1>2. Fresh(n)'
    BY DEF HistInit, Fresh
  <1>3. /\ Depth' = n /\ n \in Nat \ {0}
        /\ Position' = 0
        /\ Recent' = [d \in 1 .. Depth' |-> Null]
    BY <1>1, <1>2, FreshIsEmptyNext
  <1> QED
    BY <1>3 DEF Log!Reset, HistInit

(* The newest line is the one ch_hist_pre points at. *)
LEMMA NewestIsPre ==
    ASSUME IInv
    PROVE  /\ 1 \in 1 .. Depth
           /\ Recent[1] = histBuf[PrevSlot(histLast)]
           /\ histPre = Null => Recent[1] = Null
           /\ histPre # Null => histBuf[histPre] = Recent[1]
  <1>1. SizeOK /\ 1 \in 1 .. Depth /\ histLast \in Slot
    BY DEF IInv, TypeOK, SizeOK, Depth
  <1>2. Before(histLast, 1) = PrevSlot(histLast)
    BY <1>1, BeforeNext
  <1>3. PrevSlot(histLast) \in Slot /\ PrevSlot(histLast) # histLast
    BY <1>1, PrevIsSlot
  <1> QED
    BY <1>1, <1>2, <1>3 DEF Recent, IInv, RingInv, PreIsNewest

LEMMA WholeLine == ASSUME NEW l \in Line PROVE SubSeq(l, 1, Len(l)) = l
  BY InputAssumption

(* A line that is added becomes the newest one. *)
LEMMA AddPushes ==
    ASSUME IInv, NEW l \in Line, AddLine(l), ~IsBlank(l), ~RepeatsPre(l)
    PROVE  Recent' = [d \in 1 .. Depth |-> IF d = 1 THEN l ELSE Recent[d - 1]]
  <1> USE DEF IInv, TypeOK
  <1>1. SizeOK /\ Depth' = Depth /\ histSize' = histSize
    BY DEF AddLine, SizeOK, Depth
  <1>2. \A s, d : Before(s, d)' = Before(s, d)
    BY <1>1 DEF Before
  <1> DEFINE next == NextSlot(histLast)
  <1>3. /\ histBuf' = [histBuf EXCEPT ![histLast] = l, ![next] = Empty]
        /\ histLast' = next
    BY DEF AddLine, SavedInBuf
  <1>4. next \in Slot /\ next # histLast /\ 1 \in 1 .. Depth
    BY <1>1, NextIsSlot, NewestIsPre
  <1>5. /\ histBuf'[histLast] = l
        /\ \A s \in Slot : s # histLast /\ s # next => histBuf'[s] = histBuf[s]
    BY <1>3, <1>4
  <1>6. Recent' = [d \in 1 .. Depth |-> histBuf'[Before(next, d)]]
    BY <1>1, <1>2, <1>3 DEF Recent
  <1>7. ASSUME NEW d \in 1 .. Depth
        PROVE  histBuf'[Before(next, d)] = IF d = 1 THEN l ELSE Recent[d - 1]
    <2>1. /\ Before(next, d) = Before(histLast, d - 1)
          /\ d - 1 \in Slot
      BY <1>1, BeforeNext
    <2>2. CASE d = 1
      <3>1. Before(histLast, 0) = histLast
        BY <1>1, <2>1, <2>2, BeforeIsSlot
      <3> QED
        BY <1>5, <2>1, <2>2, <3>1
    <2>3. CASE d # 1
      <3>1. d - 1 \in 1 .. Depth
        BY <1>1, <2>3 DEF SizeOK, Depth
      <3>2. /\ Before(histLast, d - 1) \in Slot
            /\ Before(histLast, d - 1) # histLast
            /\ Before(histLast, d - 1) # next
        BY <1>1, <2>1, <2>3, BeforeNext, BeforeIsSlot
      <3> QED
        BY <1>5, <2>1, <2>3, <3>1, <3>2 DEF Recent
    <2> QED
      BY <2>2, <2>3
  <1> QED
    BY <1>6, <1>7

LEMMA AddRefines ==
    ASSUME IInv, NEW l \in Line, AddLine(l), got' = got PROVE Log!Add
  <1> USE DEF IInv, TypeOK
  <1>1. SizeOK /\ Depth' = Depth /\ histSize' = histSize /\ added' = l
    BY DEF AddLine, SizeOK, Depth
  <1>2. \A s, d : Before(s, d)' = Before(s, d)
    BY <1>1 DEF Before
  <1>3. ~HasNewline(l) => (RepeatsPre(l) <=> l = Recent[1])
    <2>1. ~HasNewline(l) => ComparedLen(l) = Len(l)
      BY DEF ComparedLen
    <2> QED
      BY <2>1, WholeLine, NewestIsPre, LineNotNull DEF RepeatsPre
  <1>4. HasNewline(l) => Log!HasNewline(l)
    BY DEF HasNewline, Log!HasNewline
  <1>5. Log!IsBlank(l) <=> IsBlank(l)
    BY DEF IsBlank, Log!IsBlank
  <1>6. Position' = 0
    <2>1. histCur' = histLast' /\ histLast' \in Slot
      BY <1>1, NextIsSlot DEF AddLine
    <2>2. Position' = Before(histLast', histCur')
      BY <1>1 DEF Position, Before
    <2> QED
      BY <1>1, <2>1, <2>2, NoDistance
  <1>7. CASE ~IsBlank(l) /\ ~RepeatsPre(l)
    <2>1. Log!Push(l)
      BY <1>1, <1>7, AddPushes DEF Log!Push
    <2> QED
      BY <1>1, <1>3, <1>4, <1>5, <1>6, <1>7, <2>1 DEF Log!Add
  <1>8. CASE ~(~IsBlank(l) /\ ~RepeatsPre(l))
    <2>1. UNCHANGED <<histBuf, histLast>>
      BY <1>8 DEF AddLine
    <2>2. Recent' = Recent
      BY <1>1, <1>2, <2>1 DEF Recent
    <2> QED
      BY <1>1, <1>3, <1>4, <1>5, <1>6, <1>8, <2>2 DEF Log!Add
  <1> QED
    BY <1>7, <1>8

LEMMA PrevRefines ==
    ASSUME IInv, HistPrev PROVE Log!Prev
  <1> USE DEF IInv, TypeOK
  <1>1. /\ SizeOK /\ Depth' = Depth /\ Recent' = Recent
        /\ Position' = Before(histLast, histCur')
        /\ added' = added
    BY DEF HistPrev, SizeOK, Depth, Recent, Before, Position
  <1>2. /\ Position \in Slot
        /\ Before(histLast, Position) = histCur
        /\ histLast = histCur <=> Position = 0
    <2>1. Position \in Slot /\ Before(histLast, Position) = histCur
      BY <1>1, BeforeIsSlot DEF Position
    <2>2. histCur # histLast <=> Position > 0
      BY <1>1, StepBack DEF Position
    <2> QED
      BY <1>1, <2>1, <2>2 DEF Slot, SizeOK
  <1>3. PrevSlot(histCur) \in Slot
    BY <1>1, PrevIsSlot
  <1>4. Position # 0 => Recent[Position] = histBuf[histCur]
    BY <1>1, <1>2 DEF Recent, Slot, Depth, SizeOK
  <1>5. histBuf[histLast] = Empty
    BY DEF RingInv, OnlyLastIsEmpty
  <1>6. CanPrev(histCur) <=>
            Position < Depth /\ (Position = 0 \/ Recent[Position] # Null)
    BY <1>1, <1>2, <1>4, <1>5, StepBack, EmptyNotNull DEF CanPrev, Position
  <1>7. CASE CanPrev(histCur)
    <2>1. Position' = Position + 1
      BY <1>1, <1>7, StepBack DEF HistPrev, AfterPrev, CanPrev, Position
    <2>2. /\ Position + 1 \in 1 .. Depth
          /\ Before(histLast, Position + 1) = PrevSlot(histCur)
      <3>1. Before(histLast, PrevSlot(histCur)) = Position + 1
        BY <1>1, <1>3, <1>7, StepBack DEF CanPrev, Position
      <3> QED
        BY <1>1, <1>2, <1>3, <1>6, <1>7, <3>1, BeforeIsSlot DEF Slot, Depth, SizeOK
    <2>3. got' = Log!Text(Position + 1)
      BY <1>7, <2>2 DEF HistPrev, TextPrev, TextAt, Log!Text, Recent, Empty, Slot
    <2> QED
      BY <1>1, <1>6, <1>7, <2>1, <2>3 DEF Log!Prev
  <1>8. CASE ~CanPrev(histCur)
    <2>1. Position' = Position /\ got' = << >>
      BY <1>1, <1>8 DEF HistPrev, AfterPrev, TextPrev, Empty, Position
    <2> QED
      BY <1>1, <1>6, <1>8, <2>1 DEF Log!Prev
  <1> QED
    BY <1>7, <1>8

LEMMA NextRefines ==
    ASSUME IInv, HistNext PROVE Log!Forth
  <1> USE DEF IInv, TypeOK
  <1>1. /\ SizeOK /\ Depth' = Depth /\ Recent' = Recent
        /\ Position' = Before(histLast, histCur')
        /\ added' = added
    BY DEF HistNext, SizeOK, Depth, Recent, Before, Position
  <1>2. Position \in Slot /\ (CanNext(histCur) <=> Position > 0)
    BY <1>1, BeforeIsSlot, StepBack DEF Position, CanNext
  <1>3. NextSlot(histCur) \in Slot
    BY <1>1, NextIsSlot
  <1>4. CASE CanNext(histCur)
    <2>1. Position' = Position - 1 /\ Position - 1 \in Slot
      BY <1>1, <1>2, <1>4, StepBack
         DEF HistNext, AfterNext, CanNext, Position, Slot, SizeOK
    <2>2. Before(histLast, Position - 1) = NextSlot(histCur)
      <3>1. Before(histLast, NextSlot(histCur)) = Position - 1
        BY <1>1, <1>3, <1>4, StepBack DEF CanNext, Position
      <3> QED
        BY <1>1, <1>3, <3>1, BeforeIsSlot
    <2>3. histBuf[histLast] = Empty
      BY DEF RingInv, OnlyLastIsEmpty
    <2>4. got' = Log!Text(Position - 1)
      <3>1. CASE Position - 1 = 0
        <4>1. NextSlot(histCur) = histLast
          BY <1>1, <2>1, <2>2, <3>1, BeforeIsSlot
        <4> QED
          BY <1>4, <2>3, <3>1, <4>1, EmptyNotNull
             DEF HistNext, TextNext, TextAt, Log!Text, Empty
      <3>2. CASE Position - 1 # 0
        <4>1. Recent[Position - 1] = histBuf[NextSlot(histCur)]
          <5>1. Position - 1 \in 1 .. Depth
            BY <1>1, <2>1, <3>2 DEF Slot, Depth, SizeOK
          <5> QED
            BY <2>2, <5>1 DEF Recent
        <4>2. got' = TextAt(NextSlot(histCur))
          BY <1>4 DEF HistNext, TextNext
        <4> QED
          BY <3>2, <4>1, <4>2 DEF TextAt, Log!Text, Empty
      <3> QED
        BY <3>1, <3>2
    <2> QED
      BY <1>1, <1>2, <1>4, <2>1, <2>4 DEF Log!Forth
  <1>5. CASE ~CanNext(histCur)
    <2>1. Position' = Position /\ got' = << >>
      BY <1>1, <1>5 DEF HistNext, AfterNext, TextNext, Empty, Position
    <2> QED
      BY <1>1, <1>2, <1>5, <2>1 DEF Log!Forth
  <1> QED
    BY <1>4, <1>5

(***************************************************************************)
(* The circular array of cligen_history.c implements the list of recent    *)
(* lines, whatever its size and whatever lines are added, loaded or saved. *)
(***************************************************************************)
THEOREM Refinement == Spec => RefinesLog
  <1>1. IInv /\ [Next]_vars => [Log!Next]_(Log!vars)
    <2> SUFFICES ASSUME IInv, [Next]_vars PROVE [Log!Next]_(Log!vars)
      OBVIOUS
    <2>1. ASSUME NEW n \in 0 .. MaxLines, HistInit(n) PROVE Log!Next
      BY <2>1, HistInitRefines DEF Log!Next
    <2>2. ASSUME NEW l \in Typed, HistAdd(l) PROVE Log!Next
      BY <2>2, AddRefines, InputAssumption DEF HistAdd, Log!Next
    <2>3. CASE HistPrev
      BY <2>3, PrevRefines DEF Log!Next
    <2>4. CASE HistNext
      BY <2>4, NextRefines DEF Log!Next
    <2>5. CASE LoadLine
      <3>1. Head(todo) \in Line
        BY <2>5 DEF LoadLine, IInv, TypeOK
      <3> QED
        BY <2>5, <3>1, AddRefines DEF LoadLine, Log!Next
    <2>6. CASE UNCHANGED <<ring, got, added>>
      BY <2>6 DEF ring, Log!vars, Depth, Recent, Position, Before
    <2> QED
      BY <2>1, <2>2, <2>3, <2>4, <2>5, <2>6
         DEF Next, FileStep, LoadStart, LoadEnd, SaveStart, SaveRewind, SaveLine,
             SaveEnd, vars
  <1> QED
    BY <1>1, InitRefines, InvariantHolds, PTL DEF Spec, RefinesLog, Log!Spec
----------------------------------------------------------------------------
(***************************************************************************)
(* The history as a file                                                   *)
(***************************************************************************)

LEMMA LeastNumber ==
    ASSUME NEW T, T \subseteq Nat, T # {}
    PROVE  \E n \in T : \A m \in T : n <= m
  <1> DEFINE Less == {ss \in Nat \X Nat : ss[1] < ss[2]}
  <1>1. IsWellFoundedOn(Less, Nat)
    <2>1. OpToRel(<, Nat) = Less
      BY Zenon DEF OpToRel
    <2> QED
      BY <2>1, NatLessThanWellFounded, Zenon
  <1> HIDE DEF Less
  <1>2. PICK n \in T : \A m \in T : <<m, n>> \notin Less
    BY <1>1, WFMin, Zenon
  <1>3. \A m \in T : m \in Nat /\ n \in Nat /\ ~(m < n)
    <2> SUFFICES ASSUME NEW m \in T PROVE m \in Nat /\ n \in Nat /\ ~(m < n)
      OBVIOUS
    <2>1. <<m, n>> \notin Less /\ m \in Nat /\ n \in Nat
      BY <1>2
    <2> QED
      BY <2>1 DEF Less
  <1> QED
    BY <1>3

(* Induction: a set of numbers with 0 and the successors of its members    *)
(* leaves no number out, since there is no least one that it leaves out.   *)
LEMMA SetInduction ==
    ASSUME NEW T, 0 \in T, \A n \in Nat : n \in T => n + 1 \in T
    PROVE  \A n \in Nat : n \in T
  <1> SUFFICES ASSUME Nat \ T # {} PROVE FALSE
    OBVIOUS
  <1>1. PICK n \in Nat \ T : \A m \in Nat \ T : n <= m
    BY LeastNumber
  <1>2. n - 1 \in Nat /\ n - 1 \notin Nat \ T
    BY <1>1
  <1> QED
    BY <1>2, <1>1

(***************************************************************************)
(* LogOnFile is the function that its definition describes: there is one,  *)
(* since there is one on every 0 .. n and they agree.                      *)
(***************************************************************************)

(* The concatenations of the first pieces g[1], g[2], ... up to n of them *)
Joins(g, n, f) ==
    /\ f = [k \in 0 .. n |-> f[k]]
    /\ f[0] = << >>
    /\ \A k \in 1 .. n : f[k] = f[k - 1] \o g[k]

LEMMA JoinsExist == ASSUME NEW g PROVE \A n \in Nat : \E f : Joins(g, n, f)
  <1> DEFINE T == {n \in Nat : \E f : Joins(g, n, f)}
  <1>1. 0 \in T
    <2>1. Joins(g, 0, [k \in 0 .. 0 |-> << >>])
      BY DEF Joins
    <2> QED
      BY <2>1
  <1>2. ASSUME NEW n \in Nat, n \in T PROVE n + 1 \in T
    <2>1. PICK f : Joins(g, n, f)
      BY <1>2
    <2> DEFINE h == [k \in 0 .. n + 1 |-> IF k = n + 1 THEN f[n] \o g[n + 1] ELSE f[k]]
    <2>2. h = [k \in 0 .. n + 1 |-> h[k]]
      OBVIOUS
    <2>3. h[0] = << >>
      BY <2>1 DEF Joins
    <2>4. ASSUME NEW k \in 1 .. n + 1 PROVE h[k] = h[k - 1] \o g[k]
      <3>1. k - 1 \in 0 .. n + 1 /\ k - 1 # n + 1 /\ k \in 0 .. n + 1
        OBVIOUS
      <3>2. h[k - 1] = f[k - 1] /\ h[k] = IF k = n + 1 THEN f[n] \o g[n + 1] ELSE f[k]
        BY <3>1
      <3>3. CASE k = n + 1
        <4>1. k - 1 = n
          BY <3>3
        <4> QED
          BY <3>2, <3>3, <4>1
      <3>4. CASE k # n + 1
        <4>1. k \in 1 .. n
          BY <3>4
        <4> QED
          BY <2>1, <3>2, <3>4, <4>1 DEF Joins
      <3> QED
        BY <3>3, <3>4
    <2> HIDE DEF h
    <2>5. Joins(g, n + 1, h)
      BY <2>2, <2>3, <2>4 DEF Joins
    <2> QED
      BY <2>5
  <1> HIDE DEF T
  <1>3. \A n \in Nat : n \in T
    BY <1>1, <1>2, SetInduction
  <1> QED
    BY <1>3 DEF T

LEMMA JoinsAgree ==
    ASSUME NEW g, NEW n \in Nat, NEW m \in Nat, NEW f, NEW h, Joins(g, n, f), Joins(g, m, h)
    PROVE  \A k \in Nat : k <= n /\ k <= m => f[k] = h[k]
  <1> DEFINE T == {k \in Nat : k <= n /\ k <= m => f[k] = h[k]}
  <1>1. 0 \in T
    BY DEF Joins
  <1>2. ASSUME NEW k \in Nat, k \in T PROVE k + 1 \in T
    <2> SUFFICES ASSUME k + 1 <= n, k + 1 <= m PROVE f[k + 1] = h[k + 1]
      OBVIOUS
    <2>1. f[k] = h[k]
      BY <1>2
    <2>2. k + 1 \in 1 .. n /\ k + 1 \in 1 .. m /\ (k + 1) - 1 = k
      OBVIOUS
    <2>3. f[k + 1] = f[(k + 1) - 1] \o g[k + 1] /\ h[k + 1] = h[(k + 1) - 1] \o g[k + 1]
      BY <2>2, Zenon DEF Joins
    <2> QED
      BY <2>1, <2>2, <2>3
  <1> HIDE DEF T
  <1>3. \A k \in Nat : k \in T
    BY <1>1, <1>2, SetInduction
  <1> QED
    BY <1>3 DEF T

LEMMA JoinIsFunction ==
    ASSUME NEW g
    PROVE  \E h : h = [n \in Nat |-> IF n = 0 THEN << >> ELSE h[n - 1] \o g[n]]
  <1> DEFINE F(n) == CHOOSE f : Joins(g, n, f)
             D    == [n \in Nat |-> F(n)[n]]
  <1>1. \A n \in Nat : Joins(g, n, F(n))
    BY JoinsExist
  <1> HIDE DEF F
  <1>2. ASSUME NEW n \in Nat PROVE D[n] = IF n = 0 THEN << >> ELSE D[n - 1] \o g[n]
    <2>1. CASE n = 0
      BY <1>1, <2>1 DEF Joins
    <2>2. CASE n # 0
      <3>1. n - 1 \in Nat /\ n - 1 <= n /\ n \in 1 .. n
        BY <2>2
      <3>2. F(n)[n] = F(n)[n - 1] \o g[n]
        BY <1>1, <3>1 DEF Joins
      <3>3. F(n)[n - 1] = F(n - 1)[n - 1]
        BY <1>1, <3>1, JoinsAgree
      <3> QED
        BY <2>2, <3>1, <3>2, <3>3
    <2> QED
      BY <2>1, <2>2
  <1>3. D = [n \in Nat |-> D[n]]
    OBVIOUS
  <1> HIDE DEF D
  <1>4. D = [n \in Nat |-> IF n = 0 THEN << >> ELSE D[n - 1] \o g[n]]
    BY <1>2, <1>3
  <1> QED
    BY <1>4

(* The file lines of n + 1 old lines are those of n and those of the next. *)
LEMMA LogSteps ==
    /\ LogOnFile[0] = << >>
    /\ \A n \in Nat \ {0} :
           LogOnFile[n] = LogOnFile[n - 1] \o FileLines(Recent[Oldest + 1 - n])
  <1> DEFINE g == [n \in Nat |-> FileLines(Recent[Oldest + 1 - n])]
             E(h, n) == IF n = 0 THEN << >> ELSE h[n - 1] \o FileLines(Recent[Oldest + 1 - n])
  <1>1. PICK h : h = [n \in Nat |-> IF n = 0 THEN << >> ELSE h[n - 1] \o g[n]]
    BY JoinIsFunction
  <1>2. h = [n \in Nat |-> E(h, n)]
    BY <1>1
  <1>3. LogOnFile = [n \in Nat |-> E(LogOnFile, n)]
    BY <1>2 DEF LogOnFile
  <1> HIDE DEF E
  <1>4. \A n \in Nat : LogOnFile[n] = E(LogOnFile, n)
    BY <1>3, Zenon
  <1> QED
    BY <1>4 DEF E
(***************************************************************************)
(* The lines of the history are the newest ones of the ring                *)
(***************************************************************************)

LEMMA RecentSlot ==
    ASSUME IInv, NEW d \in 1 .. Depth
    PROVE  /\ SizeOK /\ histLast \in Slot
           /\ d \in Slot /\ Before(histLast, d) \in Slot /\ Before(histLast, d) # histLast
           /\ Recent[d] = histBuf[Before(histLast, d)]
  <1>1. SizeOK /\ histLast \in Slot
    BY DEF IInv, TypeOK, SizeOK
  <1> QED
    BY <1>1, BeforeNext, BeforeIsSlot DEF Recent

LEMMA NothingBefore ==
    ASSUME IInv, NEW d \in 1 .. Depth, Recent[d] = Null, d < Depth
    PROVE  Recent[d + 1] = Null
  <1> DEFINE s == Before(histLast, d)
  <1>1. SizeOK /\ histLast \in Slot /\ d \in Slot /\ s \in Slot /\ histBuf[s] = Null
        /\ Before(histLast, s) = d
    BY RecentSlot, BeforeIsSlot
  <1> HIDE DEF s
  <1>2. PrevSlot(s) # histLast /\ Before(histLast, PrevSlot(s)) = d + 1
    BY <1>1, StepBack
  <1>3. PrevSlot(s) \in Slot /\ d + 1 \in 1 .. Depth
    BY <1>1, PrevIsSlot DEF SizeOK, Depth
  <1>4. Before(histLast, d + 1) = PrevSlot(s)
    <2>1. Before(histLast, Before(histLast, PrevSlot(s))) = PrevSlot(s)
      BY <1>1, <1>3, BeforeIsSlot
    <2> QED
      BY <1>2, <2>1
  <1>5. histBuf[PrevSlot(s)] = Null
    BY <1>1, <1>2 DEF IInv, RingInv, NullsFollowLast
  <1> QED
    BY <1>3, <1>4, <1>5 DEF Recent

LEMMA OldestIs ==
    ASSUME NEW k \in Nat, SizeOK, k <= Depth,
           \A d \in 1 .. Depth : Recent[d] # Null <=> d <= k
    PROVE  Oldest = k
  <1>1. {d \in 1 .. Depth : Recent[d] # Null} = 1 .. k
    BY DEF SizeOK, Depth
  <1>2. Cardinality(1 .. k) = k
    BY FS_Interval
  <1> QED
    BY <1>1, <1>2 DEF Oldest

LEMMA OldestIsLast ==
    ASSUME IInv
    PROVE  /\ SizeOK /\ Depth \in Nat /\ Oldest \in Nat /\ Oldest <= Depth
           /\ \A d \in 1 .. Depth : Recent[d] # Null <=> d <= Oldest
  <1> DEFINE T == {d \in 1 .. Depth : Recent[d] = Null}
  <1>1. SizeOK /\ Depth \in Nat
    BY DEF IInv, TypeOK, SizeOK, Depth
  <1>2. \E k \in Nat : k <= Depth /\ \A d \in 1 .. Depth : Recent[d] # Null <=> d <= k
    <2>1. CASE T = {}
      BY <1>1, <2>1
    <2>2. CASE T # {}
      <3>1. PICK n \in T : \A m \in T : n <= m
        <4>1. T \subseteq Nat
          OBVIOUS
        <4> QED
          BY <2>2, <4>1, LeastNumber
      <3>2. n \in 1 .. Depth /\ n - 1 \in Nat /\ n - 1 <= Depth
        BY <1>1, <3>1
      <3> DEFINE U == {j \in Nat : n + j <= Depth => Recent[n + j] = Null}
      <3>3. 0 \in U
        BY <3>1, <3>2
      <3>4. ASSUME NEW j \in Nat, j \in U PROVE j + 1 \in U
        <4> SUFFICES ASSUME n + (j + 1) <= Depth PROVE Recent[n + (j + 1)] = Null
          OBVIOUS
        <4>1. n + j \in 1 .. Depth /\ n + j < Depth /\ Recent[n + j] = Null
          BY <1>1, <3>2, <3>4
        <4>2. Recent[(n + j) + 1] = Null
          BY <4>1, NothingBefore
        <4>3. (n + j) + 1 = n + (j + 1)
          BY <3>2
        <4> QED
          BY <4>2, <4>3
      <3> HIDE DEF U
      <3>5. \A j \in Nat : j \in U
        BY <3>3, <3>4, SetInduction
      <3>6. ASSUME NEW d \in 1 .. Depth PROVE Recent[d] # Null <=> d <= n - 1
        <4>1. CASE d <= n - 1
          BY <3>1, <3>2, <4>1
        <4>2. CASE ~(d <= n - 1)
          <5>1. d - n \in Nat /\ n + (d - n) = d /\ n + (d - n) <= Depth
            BY <1>1, <3>2, <4>2
          <5>2. d - n \in U
            BY <3>5, <5>1
          <5> QED
            BY <4>2, <5>1, <5>2 DEF U
        <4> QED
          BY <4>1, <4>2
      <3> QED
        BY <3>2, <3>6
    <2> QED
      BY <2>1, <2>2
  <1>3. PICK k \in Nat : k <= Depth /\ \A d \in 1 .. Depth : Recent[d] # Null <=> d <= k
    BY <1>2
  <1>4. Oldest = k
    BY <1>1, <1>3, OldestIs
  <1> QED
    BY <1>1, <1>3, <1>4

(***************************************************************************)
(* What is written: the slots behind i, which rewind has passed, were      *)
(* never used, and those before it are written in their order.             *)
(***************************************************************************)
Away == Before(histLast, i)

SaveInv ==
    /\ op = "rewind" => /\ file = << >>
                        /\ \A d \in 1 .. Depth : d > Away => Recent[d] = Null
    /\ op = "save" => Away <= Oldest /\ file = LogOnFile[Oldest - Away]

LEMMA AwayIsSlot ==
    ASSUME IInv, op \in {"rewind", "save"}
    PROVE  /\ SizeOK /\ i \in Slot /\ histLast \in Slot
           /\ Away \in Nat /\ Away <= Depth /\ (Away = 0 <=> i = histLast)
           /\ i # histLast => Away \in 1 .. Depth /\ Recent[Away] = histBuf[i]
           /\ i # histLast => Before(histLast, NextSlot(i)) = Away - 1
  <1>1. SizeOK /\ i \in Slot /\ histLast \in Slot
    BY DEF IInv, TypeOK, LoopInv, SizeOK
  <1>2. Away \in Slot /\ Before(histLast, Away) = i /\ (Away > 0 <=> i # histLast)
    BY <1>1, BeforeIsSlot, StepBack DEF Away
  <1>3. Away \in Nat /\ Away <= Depth
    BY <1>1, <1>2 DEF Slot, SizeOK, Depth
  <1>4. i # histLast => Away \in 1 .. Depth
    BY <1>1, <1>2, <1>3 DEF SizeOK, Depth
  <1>5. i # histLast => Recent[Away] = histBuf[i]
    BY <1>2, <1>4 DEF Recent
  <1>6. i # histLast => Before(histLast, NextSlot(i)) = Away - 1
    BY <1>1, StepBack DEF Away
  <1> QED
    BY <1>1, <1>2, <1>3, <1>4, <1>5, <1>6

LEMMA SameHistory ==
    ASSUME UNCHANGED ring
    PROVE  /\ Depth' = Depth /\ Recent' = Recent /\ Oldest' = Oldest
           /\ LogOnFile' = LogOnFile /\ NextSlot(i)' = NextSlot(i')
           /\ Away' = Before(histLast, i')
  <1>1. Depth' = Depth /\ Recent' = Recent
    BY DEF ring, Depth, Recent, Before
  <1>2. Oldest' = Oldest
    BY <1>1 DEF Oldest
  <1> QED
    BY <1>1, <1>2 DEF ring, LogOnFile, Away, Before, NextSlot

LEMMA SaveStep == IInv /\ SaveInv /\ [Next]_vars => SaveInv'
  <1> SUFFICES ASSUME IInv, SaveInv, [Next]_vars PROVE SaveInv'
    OBVIOUS
  <1>1. CASE SaveStart
    <2>1. UNCHANGED ring /\ op' = "rewind" /\ file' = << >> /\ i' = NextSlot(histLast)
      BY <1>1 DEF SaveStart, RewindFrom
    <2>2. SizeOK /\ histLast \in Slot
      BY DEF IInv, TypeOK, SizeOK
    <2>3. NextSlot(histLast) \in Slot
          /\ NextSlot(histLast) = IF histLast = histSize - 1 THEN 0 ELSE histLast + 1
      BY <2>2, NextIsSlot
    <2>4. Before(histLast, NextSlot(histLast)) = Depth
      BY <2>2, <2>3, BeforeIsSlot DEF Depth, Slot, SizeOK
    <2>5. Depth \in Nat
      BY <2>2 DEF Depth, SizeOK
    <2> QED
      BY <2>1, <2>4, <2>5, SameHistory DEF SaveInv
  <1>2. CASE SaveRewind
    <2>1. op = "rewind" /\ UNCHANGED ring /\ file' = file
      BY <1>2 DEF SaveRewind
    <2>2. file = << >> /\ \A d \in 1 .. Depth : d > Away => Recent[d] = Null
      BY <2>1 DEF SaveInv
    <2>3. CASE histBuf[i] = Null
      <3>1. i' = NextSlot(i) /\ op' = op
        BY <1>2, <2>3 DEF SaveRewind
      <3>2. i # histLast
        BY <2>3, EmptyNotNull DEF IInv, TypeOK, RingInv, OnlyLastIsEmpty
      <3>3. Away \in 1 .. Depth /\ Recent[Away] = Null /\ Away' = Away - 1
        BY <2>1, <2>3, <3>1, <3>2, AwayIsSlot, SameHistory
      <3>4. ASSUME NEW d \in 1 .. Depth, d > Away - 1 PROVE Recent[d] = Null
        BY <2>2, <3>3, <3>4
      <3> QED
        BY <2>1, <2>2, <3>1, <3>3, <3>4, SameHistory DEF SaveInv
    <2>4. CASE histBuf[i] # Null
      <3>1. op' = "save" /\ i' = i
        BY <1>2, <2>4 DEF SaveRewind
      <3>2. Away \in Nat /\ Away <= Depth /\ (Away # 0 => Away \in 1 .. Depth /\ Recent[Away] # Null)
        BY <2>1, <2>4, AwayIsSlot
      <3>3. /\ Depth \in Nat /\ Oldest \in Nat /\ Oldest <= Depth
            /\ \A d \in 1 .. Depth : Recent[d] # Null <=> d <= Oldest
        BY OldestIsLast
      <3>4. Oldest <= Away
        <4> SUFFICES ASSUME Oldest > Away PROVE FALSE
          BY <3>2, <3>3
        <4>1. Oldest \in 1 .. Depth
          BY <3>2, <3>3
        <4> QED
          BY <2>2, <3>3, <4>1
      <3>5. Away <= Oldest
        BY <3>2, <3>3
      <3>6. Oldest - Away = 0 /\ Away' = Away
        BY <2>1, <3>1, <3>2, <3>3, <3>4, <3>5, SameHistory DEF Away
      <3> QED
        BY <2>1, <2>2, <3>1, <3>5, <3>6, LogSteps, SameHistory DEF SaveInv
    <2> QED
      BY <2>3, <2>4
  <1>3. CASE SaveLine
    <2>1. /\ op = "save" /\ op' = op /\ UNCHANGED ring /\ i # histLast
          /\ file' = file \o FileLines(histBuf[i]) /\ i' = NextSlot(i)
      BY <1>3 DEF SaveLine
    <2>2. Away <= Oldest /\ file = LogOnFile[Oldest - Away]
      BY <2>1 DEF SaveInv
    <2>3. Away \in 1 .. Depth /\ Recent[Away] = histBuf[i] /\ Away' = Away - 1
      BY <2>1, AwayIsSlot, SameHistory
    <2>4. Oldest \in Nat
      BY OldestIsLast
    <2> DEFINE n == Oldest - Away + 1
    <2>5. /\ n \in Nat \ {0} /\ n - 1 = Oldest - Away /\ Oldest + 1 - n = Away
          /\ Oldest - (Away - 1) = n /\ Away - 1 <= Oldest
      BY <2>2, <2>3, <2>4
    <2> HIDE DEF n
    <2>6. LogOnFile[n] = LogOnFile[n - 1] \o FileLines(Recent[Oldest + 1 - n])
      BY <2>5, LogSteps
    <2>7. file' = LogOnFile[n]
      BY <2>1, <2>2, <2>3, <2>5, <2>6
    <2> QED
      BY <2>1, <2>3, <2>5, <2>7, SameHistory DEF SaveInv
  <1>4. CASE op' \notin {"rewind", "save"}
    BY <1>4 DEF SaveInv
  <1>5. CASE UNCHANGED vars
    <2>1. UNCHANGED ring /\ op' = op /\ file' = file /\ i' = i
      BY <1>5 DEF vars, fileVars
    <2>2. Away' = Away
      BY <2>1, SameHistory DEF Away
    <2> QED
      BY <2>1, <2>2, SameHistory DEF SaveInv
  <1> QED
    BY <1>1, <1>2, <1>3, <1>4, <1>5
       DEF Next, HistInit, HistAdd, HistPrev, HistNext, LoadStart, FileStep, LoadLine,
           LoadEnd, SaveEnd, fileVars

LEMMA SaveAlways == Spec => []SaveInv
  <1>1. Init => SaveInv
    BY DEF Init, SaveInv
  <1> QED
    BY <1>1, SaveStep, InvariantHolds, PTL DEF Spec

(***************************************************************************)
(* A completed cligen_hist_file_save has written every line of the history, *)
(* oldest first and each once, whatever its size and its lines are.        *)
(***************************************************************************)
THEOREM SaveCorrect == Spec => SaveWritesLog
  <1>1. IInv /\ SaveInv /\ [Next]_vars => [op = "save" /\ op' = "idle" => file = LogOnFile[Oldest]]_vars
    <2> SUFFICES ASSUME IInv, SaveInv, Next, op = "save", op' = "idle"
                 PROVE  file = LogOnFile[Oldest]
      OBVIOUS
    <2>1. SaveEnd
      BY DEF Next, HistInit, HistAdd, HistPrev, HistNext, LoadStart, SaveStart, FileStep,
             LoadLine, LoadEnd, SaveRewind, SaveLine, fileVars
    <2>2. Away <= Oldest /\ file = LogOnFile[Oldest - Away]
      BY DEF SaveInv
    <2>3. i = histLast
      <3> SUFFICES ASSUME i # histLast PROVE FALSE
        OBVIOUS
      <3>1. Away \in 1 .. Depth /\ Recent[Away] = Null
        BY <2>1, AwayIsSlot DEF SaveEnd
      <3> QED
        BY <2>2, <3>1, OldestIsLast
    <2>4. Away = 0 /\ Oldest \in Nat
      BY <2>3, AwayIsSlot, OldestIsLast
    <2> QED
      BY <2>2, <2>4
  <1> QED
    BY <1>1, SaveAlways, InvariantHolds, PTL DEF Spec, SaveWritesLog
(***************************************************************************)
(* What is read: of a plain file every line is added, as it is neither     *)
(* blank nor the one before.                                               *)
(***************************************************************************)
ReadLines == Len(file) - Len(todo)

LoadInv ==
    op = "load" =>
        /\ ReadLines \in Nat
        /\ \A m \in 1 .. Len(todo) : todo[m] = file[ReadLines + m]
        /\ PlainFile => \A d \in 1 .. Depth :
               IF d <= ReadLines THEN Recent[d] = file[ReadLines + 1 - d]
                                 ELSE fresh => Recent[d] = Null

LEMMA PlainLine ==
    ASSUME NEW l \in Line, OneLine(l)
    PROVE  ~HasNewline(l) /\ FileLines(l) = <<l>>
  <1>1. Len(l) \in Nat /\ DOMAIN l = 1 .. Len(l) /\ l \in Seq(Char)
    BY InputAssumption
  <1> DEFINE e == Len(l) + 1
  <1>2. Cuts(l) = {0, e} /\ e \in Nat /\ 0 < e
    BY <1>1 DEF Cuts, OneLine
  <1>3. Cardinality({}) = 0 /\ Cardinality({0}) = 1 /\ Cardinality({0, e}) = 2
    <2>1. Cardinality({}) = 0 /\ IsFiniteSet({0}) /\ Cardinality({0}) = 1
      BY FS_EmptySet, FS_Singleton
    <2>2. {0} \cup {e} = {0, e} /\ e \notin {0}
      BY <1>2
    <2>3. Cardinality({0} \cup {e}) = Cardinality({0}) + 1
      BY <2>1, <2>2, FS_AddElement
    <2>4. Cardinality({0, e}) = Cardinality({0}) + 1
      BY <2>2, <2>3, Zenon
    <2> QED
      BY <2>1, <2>4
  <1> HIDE DEF e
  <1>4. {j \in Cuts(l) : j < 0} = {} /\ {j \in Cuts(l) : j < e} = {0}
    BY <1>2
  <1> DEFINE Below(k) == Cardinality({j \in Cuts(l) : j < k})
  <1>5. Below(0) = 0 /\ Below(e) = 1
    BY <1>3, <1>4
  <1>6. NthCut(l, 1) = (CHOOSE k \in Cuts(l) : Below(k) = 1 - 1)
        /\ NthCut(l, 2) = (CHOOSE k \in Cuts(l) : Below(k) = 2 - 1)
    BY DEF NthCut
  <1> HIDE DEF Below
  <1>7. NthCut(l, 1) = 0 /\ NthCut(l, 2) = e
    <2>1. \A k \in Cuts(l) : (Below(k) = 0 <=> k = 0) /\ (Below(k) = 1 <=> k = e)
      BY <1>2, <1>5
    <2>2. 0 \in Cuts(l) /\ e \in Cuts(l)
      BY <1>2
    <2> DEFINE a == CHOOSE k \in Cuts(l) : Below(k) = 0
               b == CHOOSE k \in Cuts(l) : Below(k) = 1
    <2>3. a \in Cuts(l) /\ Below(a) = 0
      BY <2>1, <2>2, Zenon
    <2>4. b \in Cuts(l) /\ Below(b) = 1
      BY <2>1, <2>2, Zenon
    <2>5. NthCut(l, 1) = a /\ NthCut(l, 2) = b
      BY <1>6
    <2> HIDE DEF a, b
    <2> QED
      BY <2>1, <2>3, <2>4, <2>5
  <1>8. FileLines(l) = [n \in 1 .. 1 |-> SubSeq(l, NthCut(l, n) + 1, NthCut(l, n + 1) - 1)]
    BY <1>2, <1>3 DEF FileLines
  <1>9. SubSeq(l, NthCut(l, 1) + 1, NthCut(l, 1 + 1) - 1) = l
    <2>1. NthCut(l, 1) + 1 = 1 /\ NthCut(l, 1 + 1) - 1 = Len(l)
      BY <1>1, <1>7 DEF e
    <2> QED
      BY <1>1, <2>1, WholeLine
  <1>10. FileLines(l) = [n \in 1 .. 1 |-> l]
    BY <1>8, <1>9
  <1>11. ~HasNewline(l)
    BY DEF HasNewline, OneLine
  <1> QED
    BY <1>10, <1>11

\* What a step adds, and keeps, while a plain file is loaded
LEMMA LoadKeeps ==
    ASSUME IInv, LoadInv, LoadLine
    PROVE  LoadInv'
  <1>1. /\ op = "load" /\ op' = op /\ file' = file /\ todo # << >> /\ todo' = Tail(todo)
        /\ fresh' = fresh /\ AddLine(Head(todo))
    BY DEF LoadLine
  <1>2. todo \in Seq(Line) /\ file \in Seq(Line)
    BY DEF IInv, TypeOK
  <1>3. /\ Len(todo) \in Nat \ {0} /\ Len(file) \in Nat
        /\ Head(todo) = todo[1] /\ Head(todo) \in Line
        /\ Len(Tail(todo)) = Len(todo) - 1
        /\ \A m \in 1 .. Len(todo) - 1 : Tail(todo)[m] = todo[m + 1]
    BY <1>1, <1>2, EmptySeq
  <1> DEFINE n == ReadLines
             l == Head(todo)
  <1>4. /\ n \in Nat /\ n + 1 <= Len(file) /\ ReadLines' = n + 1
        /\ \A m \in 1 .. Len(todo) : todo[m] = file[n + m]
    BY <1>1, <1>3 DEF LoadInv, ReadLines
  <1>5. l = file[n + 1] /\ n + 1 \in 1 .. Len(file)
    BY <1>3, <1>4
  <1>6. \A m \in 1 .. Len(todo') : todo'[m] = file'[ReadLines' + m]
    <2> SUFFICES ASSUME NEW m \in 1 .. Len(todo) - 1 PROVE todo'[m] = file[(n + 1) + m]
      BY <1>1, <1>3, <1>4
    <2>1. m + 1 \in 1 .. Len(todo) /\ n + (m + 1) = (n + 1) + m
      BY <1>3, <1>4
    <2> QED
      BY <1>1, <1>3, <1>4, <2>1
  <1>7. SizeOK /\ Depth' = Depth /\ Depth \in Nat
    BY DEF AddLine, IInv, TypeOK, SizeOK, Depth, LoadLine
  <1>8. ASSUME PlainFile'
        PROVE  \A d \in 1 .. Depth :
                 IF d <= n + 1 THEN Recent'[d] = file[(n + 1) + 1 - d]
                               ELSE fresh => Recent'[d] = Null
    <2>1. PlainFile
      BY <1>1, <1>7, <1>8 DEF PlainFile
    <2>2. /\ Len(file) <= Depth
          /\ \A m \in 1 .. Len(file) : ~IsBlank(file[m]) /\ OneLine(file[m])
          /\ \A m \in 1 .. Len(file) - 1 : file[m] # file[m + 1]
      BY <1>2, <2>1 DEF PlainFile
    <2>3. \A d \in 1 .. Depth : IF d <= n THEN Recent[d] = file[n + 1 - d]
                                          ELSE fresh => Recent[d] = Null
      BY <1>1, <2>1 DEF LoadInv
    <2>4. ~IsBlank(l) /\ ~HasNewline(l) /\ l \in Line
      BY <1>3, <1>5, <2>2, PlainLine
    <2>5. RepeatsPre(l) => Recent[1] = l
      <3>1. SubSeq(l, 1, ComparedLen(l)) = l
        BY <2>4, WholeLine DEF ComparedLen
      <3> QED
        BY <3>1, NewestIsPre DEF RepeatsPre
    <2>6. 1 \in 1 .. Depth
      BY NewestIsPre
    \* only a first line, and not of an empty history, can be the newest already
    <2>7. ASSUME RepeatsPre(l) PROVE n = 0 /\ ~fresh
      <3>1. n = 0
        <4> SUFFICES ASSUME n # 0 PROVE FALSE
          OBVIOUS
        <4>1. n \in 1 .. Len(file) - 1 /\ n + 1 - 1 = n /\ 1 <= n
          BY <1>3, <1>4
        <4>2. Recent[1] = file[n]
          BY <2>3, <2>6, <4>1
        <4> QED
          BY <1>5, <2>2, <2>5, <2>7, <4>1, <4>2
      <3>2. fresh => Recent[1] = Null
        BY <2>3, <2>6, <3>1
      <3> QED
        BY <2>4, <2>5, <2>7, <3>1, <3>2, LineNotNull
    <2> SUFFICES ASSUME NEW d \in 1 .. Depth
                 PROVE  IF d <= n + 1 THEN Recent'[d] = file[(n + 1) + 1 - d]
                                      ELSE fresh => Recent'[d] = Null
      OBVIOUS
    <2>8. CASE RepeatsPre(l)
      <3>1. n = 0 /\ ~fresh /\ Recent[1] = l
        BY <2>5, <2>7, <2>8
      <3>2. UNCHANGED <<histSize, histBuf, histLast>>
        BY <1>1, <2>8 DEF AddLine
      <3>3. Recent' = Recent
        BY <3>2 DEF Recent, Depth, Before
      <3>4. d <= n + 1 => d = 1 /\ (n + 1) + 1 - d = n + 1
        BY <1>7, <3>1
      <3> QED
        BY <1>5, <3>1, <3>3, <3>4
    <2>9. CASE ~RepeatsPre(l)
      <3>1. Recent' = [e \in 1 .. Depth |-> IF e = 1 THEN l ELSE Recent[e - 1]]
        BY <1>1, <2>4, <2>9, AddPushes
      <3>2. CASE d = 1
        <4>1. (n + 1) + 1 - d = n + 1 /\ d <= n + 1
          BY <1>4, <3>2
        <4> QED
          BY <1>5, <3>1, <3>2, <4>1
      <3>3. CASE d # 1
        <4>1. /\ d - 1 \in 1 .. Depth /\ (d - 1 <= n <=> d <= n + 1)
              /\ n + 1 - (d - 1) = (n + 1) + 1 - d
          BY <1>4, <1>7, <3>3
        <4>2. Recent'[d] = Recent[d - 1]
          BY <3>1, <3>3
        <4> QED
          BY <2>3, <4>1, <4>2
      <3> QED
        BY <3>2, <3>3
    <2> QED
      BY <2>8, <2>9
  <1> QED
    BY <1>1, <1>4, <1>6, <1>7, <1>8 DEF LoadInv

LEMMA LoadStep == IInv /\ LoadInv /\ [Next]_vars => LoadInv'
  <1> SUFFICES ASSUME IInv, LoadInv, [Next]_vars PROVE LoadInv'
    OBVIOUS
  <1>1. CASE LoadStart
    <2>1. UNCHANGED ring /\ op' = "load" /\ todo' = file /\ file' = file
      BY <1>1 DEF LoadStart
    <2>6. fresh' => histPre = Null
      BY <1>1, Zenon DEF LoadStart
    <2>2. file \in Seq(Line) /\ Len(file) \in Nat
      BY DEF IInv, TypeOK
    <2>3. ReadLines' = 0
      BY <2>1, <2>2 DEF ReadLines
    <2>4. ASSUME NEW d \in 1 .. Depth PROVE (fresh' => Recent[d] = Null) /\ ~(d <= 0)
      BY <2>1, <2>6, RecentSlot DEF IInv, RingInv, PreIsNewest
    <2>5. \A m \in 1 .. Len(file) : 0 + m = m
      OBVIOUS
    <2> QED
      BY <2>1, <2>3, <2>4, <2>5, SameHistory DEF LoadInv
  <1>2. CASE LoadLine
    BY <1>2, LoadKeeps
  <1>3. CASE op' # "load"
    BY <1>3 DEF LoadInv
  <1>4. CASE UNCHANGED vars
    <2>1. UNCHANGED ring /\ op' = op /\ file' = file /\ todo' = todo /\ fresh' = fresh
      BY <1>4 DEF vars, fileVars
    <2>2. ReadLines' = ReadLines /\ PlainFile' = PlainFile
      BY <2>1, SameHistory DEF ReadLines, PlainFile
    <2> QED
      BY <2>1, <2>2, SameHistory DEF LoadInv
  <1> QED
    BY <1>1, <1>2, <1>3, <1>4
       DEF Next, HistInit, HistAdd, HistPrev, HistNext, SaveStart, SaveRewind, SaveLine,
           LoadEnd, SaveEnd, FileStep, fileVars

LEMMA LoadAlways == Spec => []LoadInv
  <1>1. Init => LoadInv
    BY DEF Init, LoadInv
  <1> QED
    BY <1>1, LoadStep, InvariantHolds, PTL DEF Spec

LEMMA OneMore ==
    ASSUME NEW f \in Seq(Line), NEW n \in Nat, n + 1 \in 1 .. Len(f)
    PROVE  SubSeq(f, 1, n) \o <<f[n + 1]>> = SubSeq(f, 1, n + 1)
  <1> DEFINE a == SubSeq(f, 1, n)
             b == <<f[n + 1]>>
             c == SubSeq(f, 1, n + 1)
  <1>1. /\ a \in Seq(Line) /\ Len(a) = n /\ \A m \in 1 .. n : a[m] = f[m]
        /\ c \in Seq(Line) /\ Len(c) = n + 1 /\ \A m \in 1 .. n + 1 : c[m] = f[m]
        /\ b \in Seq(Line) /\ Len(b) = 1 /\ b[1] = f[n + 1]
    OBVIOUS
  <1> HIDE DEF a, b, c
  <1>2. /\ a \o b \in Seq(Line) /\ Len(a \o b) = n + 1
        /\ \A m \in 1 .. n + 1 : (a \o b)[m] = IF m <= n THEN a[m] ELSE b[m - n]
    <2>1. /\ a \o b \in Seq(Line) /\ Len(a \o b) = Len(a) + Len(b)
          /\ \A m \in 1 .. Len(a) + Len(b) :
                (a \o b)[m] = IF m <= Len(a) THEN a[m] ELSE b[m - Len(a)]
      BY <1>1, ConcatProperties, Zenon
    <2>2. Len(a) = n /\ Len(b) = 1
      BY <1>1
    <2> QED
      BY <2>1, <2>2
  <1>3. \A m \in 1 .. n + 1 : (a \o b)[m] = c[m]
    <2> SUFFICES ASSUME NEW m \in 1 .. n + 1 PROVE (a \o b)[m] = c[m]
      OBVIOUS
    <2>1. CASE m <= n
      <3>1. m \in 1 .. n
        BY <2>1
      <3> QED
        BY <1>1, <1>2, <2>1, <3>1
    <2>2. CASE ~(m <= n)
      <3>1. m = n + 1 /\ m - n = 1
        BY <2>2
      <3> QED
        BY <1>1, <1>2, <2>2, <3>1
    <2> QED
      BY <2>1, <2>2
  <1> QED
    BY <1>1, <1>2, <1>3, SeqEqual DEF a, b, c

(***************************************************************************)
(* A load of a file as a save leaves it brings all its lines into the      *)
(* history, as the newest ones and in their order, and no other line into  *)
(* an empty one, for every history size and every file that fits into it.  *)
(***************************************************************************)
THEOREM LoadCorrect == Spec => []LoadRestores
  <1>1. IInv /\ LoadInv => LoadRestores
    <2> SUFFICES ASSUME IInv, LoadInv, op = "load", todo = << >>, PlainFile
                 PROVE  /\ \A n \in DOMAIN file : Recent[Len(file) + 1 - n] = file[n]
                        /\ fresh => LogOnFile[Oldest] = file
      BY DEF LoadRestores
    <2>1. file \in Seq(Line) /\ Len(file) \in Nat /\ ReadLines = Len(file)
      BY DEF IInv, TypeOK, ReadLines
    <2>2. /\ Len(file) <= Depth
          /\ \A m \in 1 .. Len(file) : OneLine(file[m]) /\ file[m] \in Line /\ file[m] # Null
      BY <2>1, LineNotNull DEF PlainFile
    <2>3. \A d \in 1 .. Depth : IF d <= Len(file) THEN Recent[d] = file[Len(file) + 1 - d]
                                                  ELSE fresh => Recent[d] = Null
      BY <2>1 DEF LoadInv
    <2>9. ASSUME NEW n \in DOMAIN file PROVE Recent[Len(file) + 1 - n] = file[n]
      <3> DEFINE d == Len(file) + 1 - n
      <3>1. n \in 1 .. Len(file) /\ Depth \in Nat
        BY <2>1, OldestIsLast
      <3>2. d \in 1 .. Depth /\ d <= Len(file) /\ Len(file) + 1 - d = n
        BY <2>1, <2>2, <3>1
      <3> QED
        BY <2>3, <3>2
    <2> SUFFICES ASSUME fresh PROVE LogOnFile[Oldest] = file
      BY <2>9
    <2>4. Oldest = Len(file)
      <3>1. ASSUME NEW d \in 1 .. Depth PROVE Recent[d] # Null <=> d <= Len(file)
        <4>1. d <= Len(file) => Len(file) + 1 - d \in 1 .. Len(file)
          BY <2>1
        <4> QED
          BY <2>2, <2>3, <4>1
      <3> QED
        BY <2>1, <2>2, <3>1, OldestIs, OldestIsLast
    <2> DEFINE T == {n \in Nat : n <= Len(file) => LogOnFile[n] = SubSeq(file, 1, n)}
    <2>5. 0 \in T
      <3>1. SubSeq(file, 1, 0) = << >>
        BY <2>1
      <3> QED
        BY <3>1, LogSteps
    <2>6. ASSUME NEW n \in Nat, n \in T PROVE n + 1 \in T
      <3> SUFFICES ASSUME n + 1 <= Len(file) PROVE LogOnFile[n + 1] = SubSeq(file, 1, n + 1)
        OBVIOUS
      <3>1. LogOnFile[n] = SubSeq(file, 1, n)
        BY <2>1, <2>6
      <3>2. n + 1 \in Nat \ {0} /\ (n + 1) - 1 = n /\ n + 1 \in 1 .. Len(file)
        BY <2>1
      <3>3. LogOnFile[n + 1] = LogOnFile[n] \o FileLines(Recent[Oldest + 1 - (n + 1)])
        BY <3>2, LogSteps
      <3>4. /\ Oldest + 1 - (n + 1) = Len(file) - n /\ Len(file) + 1 - (Len(file) - n) = n + 1
            /\ Len(file) - n \in 1 .. Depth /\ Len(file) - n <= Len(file)
        <4>1. Depth \in Nat
          BY OldestIsLast
        <4> QED
          BY <2>1, <2>2, <2>4, <3>2, <4>1
      <3>5. Recent[Oldest + 1 - (n + 1)] = file[n + 1]
        BY <2>3, <3>4
      <3>6. FileLines(file[n + 1]) = <<file[n + 1]>>
        BY <2>2, <3>2, PlainLine
      <3>7. SubSeq(file, 1, n) \o <<file[n + 1]>> = SubSeq(file, 1, n + 1)
        BY <2>1, <3>2, OneMore
      <3> QED
        BY <3>1, <3>3, <3>5, <3>6, <3>7
    <2> HIDE DEF T
    <2>7. \A n \in Nat : n \in T
      BY <2>5, <2>6, SetInduction
    <2>8. SubSeq(file, 1, Len(file)) = file
      BY <2>1
    <2> QED
      BY <2>1, <2>4, <2>7, <2>8 DEF T
  <1> QED
    BY <1>1, LoadAlways, InvariantHolds, PTL
=============================================================================
