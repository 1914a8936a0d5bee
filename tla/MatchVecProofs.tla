--------------------------- MODULE MatchVecProofs ---------------------------
(***************************************************************************)
(* Proofs about MatchVec, for every set of objects and every length of a   *)
(* level.  The loop invariant says what result, prefUpper, cop and reason  *)
(* are in terms of the objects seen so far.                                *)
(***************************************************************************)
EXTENDS MatchVec, TLAPS, FiniteSetTheorems

Seen   == {j \in Candidates : j < i}
Pref(j) == CoPref(pt[j])

(* The result so far. *)
BestSoFar ==
    IF Seen = {}
      THEN prefUpper = 0 /\ cop = None /\ result = {}
      ELSE /\ cop \in Seen
           /\ prefUpper = Pref(cop)
           /\ \A k \in Seen : Pref(k) <= prefUpper
           /\ \A k \in Seen : Pref(k) = prefUpper => cop <= k
           /\ result = {j \in Seen : /\ Pref(j) = prefUpper
                                     /\ ~(/\ ModeApplies
                                          /\ IsVariable(pt[cop])
                                          /\ IsVariable(pt[j])
                                          /\ j # cop)}

ResultInv == IF best THEN BestSoFar ELSE result = Seen

(* The reason so far. *)
ReasonInv ==
    /\ reason # Ambiguous
    /\ reason = Already => prefLower = 1
    /\ reason = None =>
         prefLower = Infinite /\ \A j \in Reportable : j >= i
    /\ reason \in Pos =>
         /\ reason < i
         /\ Failed(reason)
         /\ prefLower = Pref(reason)
         /\ \A j \in Reportable : j < i /\ j # reason =>
              \/ Pref(reason) < Pref(j)
              \/ Pref(reason) = Pref(j) /\ reason < j

LoopInv == ResultInv /\ ReasonInv

(* After the loop the result is what was wanted, or was given up. *)
Explained ==
    /\ result # {} => reason = None
    /\ result = {} /\ Reportable # {} => reason # None
    /\ reason \in Pos =>
         /\ Failed(reason)
         /\ \A j \in Reportable \ {reason} :
              \/ Pref(reason) < Pref(j)
              \/ Pref(reason) = Pref(j) /\ reason < j

IInv ==
    /\ TypeOK
    /\ phase = "loop" => LoopInv
    /\ phase = "end" => LoopInv /\ i = Len(pt) + 1
    /\ phase \in {"local", "done"} => result \in {Wanted, {}} /\ Explained

----------------------------------------------------------------------------
(* Every object that can match has a positive preference. *)
LEMMA PrefBounds ==
    ASSUME NEW co \in Object
    PROVE  /\ CoPref(co) \in Nat
           /\ CoPref(co) < Infinite
           /\ IsMatch(co) \/ IsVariable(co) => CoPref(co) > 0
  <1>1. IsObject(co)
    BY ObjectAssumption
  <1>2. \A t \in Type : TypePref[t] \in 1 .. 100
    BY DEF Type, TypePref
  <1>3. co.override \in Nat /\ co.override < 65536
    BY <1>1 DEF IsObject, Override
  <1>4. IsMatch(co) => co.kind \in {"command", "variable"}
    BY <1>1 DEF IsObject, Outcome, IsMatch
  <1>5. co.kind = "variable" => TypePref[co.type] \in 1 .. 100
    BY <1>1, <1>2 DEF IsObject
  <1> QED
    BY <1>3, <1>4, <1>5 DEF CoPref, Overrides, Partial, Full, Infinite, IsVariable

LEMMA AtPos == TypeOK => \A j \in Pos : pt[j] \in Object
  BY DEF TypeOK, Pos

LEMMA InitInv == Init => IInv
  <1> SUFFICES ASSUME Init PROVE IInv
    OBVIOUS
  <1>1. pt \in Seq(Object)
    BY DEF Init
  <1>2. Len(pt) \in Nat /\ Pos = 1 .. Len(pt)
    BY <1>1 DEF Pos
  <1>3. Infinite \in Nat
    BY SMT DEF Infinite
  <1>7. prefLower \in Nat /\ prefUpper \in Nat /\ mrPref \in Nat /\ mode \in 0 .. 3
    BY <1>3, SMT DEF Init
  <1>8. {best, lasttoken, isConstraint, last} \subseteq BOOLEAN
    BY Zenon DEF Init
  <1>9. i \in 1 .. Len(pt) + 1 /\ phase \in {"loop", "end", "local", "done"}
    BY <1>2, SMT DEF Init
  <1>10. TypeOK
    BY <1>1, <1>7, <1>8, <1>9, Zenon DEF Init, TypeOK
  <1>4. Seen = {}
    BY <1>2 DEF Init, Seen, Candidates, Pos
  <1>5. None \notin Pos /\ None # Ambiguous /\ None # Already
    BY <1>2, ConstantAssumption
  <1>6. ReasonInv
    BY <1>2, <1>5 DEF Init, ReasonInv, Reportable
  <1> QED
    BY <1>10, <1>4, <1>6 DEF Init, IInv, LoopInv, ResultInv, BestSoFar

----------------------------------------------------------------------------
(* What an iteration adds to the objects seen. *)
LEMMA SeenNext ==
    ASSUME TypeOK, Iteration
    PROVE  /\ i \in Pos /\ i \notin Seen
           /\ Pos' = Pos /\ Reportable' = Reportable
           /\ \A j : Pref(j)' = Pref(j) /\ Failed(j)' = Failed(j)
           /\ Seen' = IF Eligible(i) THEN Seen \cup {i} ELSE Seen
           /\ \A j \in Seen : j < i /\ j \in Pos
  <1> USE DEF TypeOK
  <1>1. i \in Pos /\ i' = i + 1 /\ pt' = pt
    BY DEF Iteration, Pos, params
  <1>2. Candidates' = Candidates /\ Candidates \subseteq Pos
    BY <1>1 DEF Candidates, Pos, Eligible
  <1>3. ASSUME NEW j \in Candidates PROVE j < i' <=> j < i \/ j = i
    BY <1>1, <1>2, <1>3 DEF Pos
  <1>4. Seen' = {j \in Candidates : j < i \/ j = i}
    BY <1>2, <1>3 DEF Seen
  <1>5. i \in Candidates <=> Eligible(i)
    BY <1>1 DEF Candidates
  <1>6. Pos' = Pos /\ Reportable' = Reportable
    BY <1>1 DEF Pos, Reportable, Failed
  <1> QED
    BY <1>1, <1>2, <1>4, <1>5, <1>6 DEF Seen, Pos, Pref, Failed

(* An object that is not eligible leaves the result as it is. *)
LEMMA ResultKept ==
    ASSUME TypeOK, ResultInv, Iteration, ~Eligible(i),
           UNCHANGED <<prefUpper, cop, result>>
    PROVE  ResultInv'
  <1>1. Seen' = Seen
    BY SeenNext
  <1>2. /\ pt' = pt /\ best' = best /\ mode' = mode /\ lasttoken' = lasttoken
        /\ prefUpper' = prefUpper /\ cop' = cop /\ result' = result
    BY DEF Iteration, params
  <1>3. ModeApplies' = ModeApplies
    BY <1>2 DEF ModeApplies
  <1>4. BestSoFar' = BestSoFar
    BY <1>1, <1>2, <1>3 DEF BestSoFar, Pref
  <1> QED
    BY <1>1, <1>2, <1>4 DEF ResultInv

(* An object that did not fail leaves the reason as it is. *)
LEMMA ReasonKept ==
    ASSUME TypeOK, ReasonInv, Iteration, ~Failed(i),
           UNCHANGED <<prefLower, reason>>
    PROVE  ReasonInv'
  <1>1. /\ i \in Pos /\ i' = i + 1 /\ pt' = pt /\ i \in Nat
        /\ prefLower' = prefLower /\ reason' = reason
    BY SeenNext DEF Iteration, params, Pos, TypeOK
  <1>2. Pos' = Pos /\ Reportable' = Reportable /\ Reportable \subseteq Pos
    BY SeenNext DEF Reportable
  <1>3. i \notin Reportable
    BY DEF Reportable
  <1>4. \A j : Pref(j)' = Pref(j) /\ Failed(j)' = Failed(j)
    BY SeenNext
  <1>5. \A j \in Reportable : j \in Nat /\ j # i
    BY <1>2, <1>3 DEF Pos
  <1>6. reason \in Pos => reason \in Nat
    BY DEF Pos
  <1> QED
    BY <1>1, <1>2, <1>4, <1>5, <1>6 DEF ReasonInv, Pref, Failed

----------------------------------------------------------------------------
(* A smaller preference becomes the reason. *)
LEMMA ReasonNew ==
    ASSUME TypeOK, ReasonInv, Iteration, Failed(i),
           NewLower(Pref(i)), prefLower' = Pref(i), reason' = i
    PROVE  ReasonInv'
  <1>1. /\ i \in Pos /\ i' = i + 1 /\ pt' = pt /\ i \in Nat
        /\ prefLower' = Pref(i) /\ reason' = i /\ Pref(i) < prefLower
    BY SeenNext DEF Iteration, params, Pos, TypeOK, NewLower
  <1>2. Pos' = Pos /\ Reportable' = Reportable
    BY SeenNext
  <1>3. \A j : Pref(j)' = Pref(j) /\ Failed(j)' = Failed(j)
    BY SeenNext
  <1>4. \A j \in Pos : /\ j \in Nat /\ Pref(j) \in Nat /\ Pref(j) < Infinite
                       /\ Failed(j) => Pref(j) > 0
    BY AtPos, PrefBounds DEF Pref, Pos, Failed
  <1>5. i \notin {None, Ambiguous, Already}
    BY <1>1, ConstantAssumption
  <1>6. ASSUME NEW j \in Reportable, j < i + 1, j # i PROVE Pref(i) < Pref(j)
    <2>1. j \in Pos /\ j < i
      BY <1>1, <1>4, <1>6 DEF Reportable
    <2>2. reason # None
      BY <2>1, <1>4, <1>6, <1>1 DEF ReasonInv
    <2>3. reason # Already
      BY <1>1, <1>4 DEF ReasonInv
    <2>4. reason \in Pos
      BY <2>2, <2>3 DEF ReasonInv, TypeOK
    <2>5. Pref(reason) = prefLower /\ Pref(reason) \in Nat
      BY <2>4, <1>4 DEF ReasonInv
    <2>6. Pref(j) \in Nat /\ Pref(i) \in Nat
      BY <2>1, <1>1, <1>4
    <2>7. j = reason \/ Pref(reason) <= Pref(j)
      BY <2>1, <2>4, <2>5, <2>6, <1>6 DEF ReasonInv
    <2>8. Pref(reason) <= Pref(j)
      BY <2>7, <2>6
    <2> QED
      BY <2>5, <2>6, <2>8, <1>1
  <1> QED
    BY <1>1, <1>2, <1>3, <1>5, <1>6 DEF ReasonInv, Pref, Failed

(* A failure whose preference is not smaller leaves the reason as it is. *)
LEMMA ReasonOld ==
    ASSUME TypeOK, ReasonInv, Iteration, Failed(i), ~NewLower(Pref(i)),
           UNCHANGED <<prefLower, reason>>
    PROVE  ReasonInv'
  <1>1. /\ i \in Pos /\ i' = i + 1 /\ pt' = pt /\ i \in Nat
        /\ prefLower' = prefLower /\ reason' = reason
    BY SeenNext DEF Iteration, params, Pos, TypeOK
  <1>2. Pos' = Pos /\ Reportable' = Reportable
    BY SeenNext
  <1>3. \A j : Pref(j)' = Pref(j) /\ Failed(j)' = Failed(j)
    BY SeenNext
  <1>4. \A j \in Pos : j \in Nat /\ Pref(j) \in Nat /\ Pref(j) < Infinite
    BY AtPos, PrefBounds DEF Pref, Pos
  <1>5. reason # None /\ prefLower <= Pref(i)
    BY <1>1, <1>4 DEF NewLower, ReasonInv, TypeOK
  <1>6. ASSUME reason \in Pos
        PROVE  /\ reason < i + 1
               /\ \A j \in Reportable : j < i + 1 /\ j # reason =>
                    \/ Pref(reason) < Pref(j)
                    \/ Pref(reason) = Pref(j) /\ reason < j
    <2>1. /\ reason < i /\ prefLower = Pref(reason) /\ reason \in Nat
          /\ \A j \in Reportable : j < i /\ j # reason =>
               \/ Pref(reason) < Pref(j)
               \/ Pref(reason) = Pref(j) /\ reason < j
      BY <1>4, <1>6 DEF ReasonInv
    <2>2. \/ Pref(reason) < Pref(i)
          \/ Pref(reason) = Pref(i) /\ reason < i
      BY <2>1, <1>1, <1>4, <1>5, <1>6
    <2>3. \A j \in Reportable : j < i + 1 => j < i \/ j = i
      BY <1>1, <1>4 DEF Reportable
    <2> QED
      BY <2>1, <2>2, <2>3, <1>1
  <1> QED
    BY <1>1, <1>2, <1>3, <1>5, <1>6 DEF ReasonInv, Pref, Failed

----------------------------------------------------------------------------
(* The result after an eligible object that is taken, or is not. *)
LEMMA BestNext ==
    ASSUME TypeOK, BestSoFar, Iteration, Eligible(i),
           UNCHANGED <<prefLower, isConstraint, reason>>,
           \/ /\ Pref(i) = prefUpper
              /\ IF SkippedByMode THEN UNCHANGED result
                                  ELSE result' = result \cup {i}
              /\ UNCHANGED <<prefUpper, cop>>
           \/ /\ Pref(i) > prefUpper
              /\ prefUpper' = Pref(i) /\ result' = {i} /\ cop' = i
           \/ /\ Pref(i) < prefUpper
              /\ UNCHANGED <<prefUpper, cop, result>>
    PROVE  BestSoFar'
  <1>1. /\ i \in Pos /\ i \notin Seen
        /\ Seen' = Seen \cup {i}
        /\ \A j \in Seen : j < i /\ j \in Pos
        /\ \A j : Pref(j)' = Pref(j)
    BY SeenNext
  <1>2. /\ pt' = pt /\ mode' = mode /\ lasttoken' = lasttoken
    BY DEF Iteration, params
  <1>3. ModeApplies' = ModeApplies
    BY <1>2 DEF ModeApplies
  <1>4. \A j \in Pos : j \in Nat /\ Pref(j) \in Nat
    BY AtPos, PrefBounds DEF Pref, Pos
  <1>5. Pref(i) \in Nat /\ Pref(i) > 0
    BY <1>1, AtPos, PrefBounds DEF Pref, Eligible
  <1>6. prefUpper \in Nat
    BY DEF TypeOK
  <1>7. None \notin Pos
    BY ConstantAssumption DEF Pos
  <1>8. CASE Seen = {}
    <2>1. Pref(i) > prefUpper
      BY <1>5, <1>8 DEF BestSoFar
    <2>2. prefUpper' = Pref(i) /\ result' = {i} /\ cop' = i
      BY <2>1, <1>5, <1>6
    <2>3. Seen' = {i}
      BY <1>1, <1>8
    <2> QED
      BY <2>2, <2>3, <1>1, <1>4 DEF BestSoFar, Pref
  <1>9. CASE Seen # {}
    <2> USE <1>9
    <2>1. /\ cop \in Seen /\ prefUpper = Pref(cop)
          /\ \A k \in Seen : Pref(k) <= prefUpper
          /\ \A k \in Seen : Pref(k) = prefUpper => cop <= k
      BY DEF BestSoFar
    <2>2. result = {j \in Seen : /\ Pref(j) = prefUpper
                                 /\ ~(/\ ModeApplies
                                      /\ IsVariable(pt[cop])
                                      /\ IsVariable(pt[j])
                                      /\ j # cop)}
      BY DEF BestSoFar
    <2>3. cop \in Pos /\ cop # None /\ cop # i /\ cop <= i /\ Seen' # {}
      BY <2>1, <1>1, <1>4, <1>7
    <2>4. SkippedByMode <=> ModeApplies /\ IsVariable(pt[cop]) /\ IsVariable(pt[i])
      BY <2>3 DEF SkippedByMode
    <2>5. CASE Pref(i) = prefUpper
      <3>1. prefUpper' = prefUpper /\ cop' = cop
        BY <2>5, <1>5, <1>6
      <3>2. result' = IF SkippedByMode THEN result ELSE result \cup {i}
        BY <2>5, <1>5, <1>6
      <3>3. result' = {j \in Seen' : /\ Pref(j) = prefUpper
                                     /\ ~(/\ ModeApplies
                                          /\ IsVariable(pt[cop])
                                          /\ IsVariable(pt[j])
                                          /\ j # cop)}
        BY <3>2, <2>2, <2>3, <2>4, <2>5, <1>1
      <3>4. \A k \in Seen' : Pref(k) <= prefUpper /\ (Pref(k) = prefUpper => cop <= k)
        BY <2>1, <2>3, <2>5, <1>1, <1>4
      <3> QED
        BY <3>1, <3>3, <3>4, <2>1, <2>3, <1>1, <1>2, <1>3 DEF BestSoFar, Pref
    <2>6. CASE Pref(i) > prefUpper
      <3>1. prefUpper' = Pref(i) /\ result' = {i} /\ cop' = i
        BY <2>6, <1>5, <1>6
      <3>2. \A k \in Seen : Pref(k) < Pref(i)
        BY <2>1, <2>6, <1>1, <1>4, <1>6
      <3>3. \A k \in Seen' : Pref(k) <= Pref(i) /\ (Pref(k) = Pref(i) => i <= k)
        BY <3>2, <1>1, <1>4
      <3>4. \A j \in Seen' : Pref(j) = Pref(i) <=> j = i
        BY <3>2, <1>1, <1>4
      <3> QED
        BY <3>1, <3>3, <3>4, <2>3, <1>1, <1>2, <1>3 DEF BestSoFar, Pref
    <2>7. CASE Pref(i) < prefUpper
      <3>1. prefUpper' = prefUpper /\ cop' = cop /\ result' = result
        BY <2>7, <1>5, <1>6
      <3>2. Pref(i) # prefUpper /\ Pref(i) <= prefUpper
        BY <2>7, <1>5, <1>6
      <3>3. result' = {j \in Seen' : /\ Pref(j) = prefUpper
                                     /\ ~(/\ ModeApplies
                                          /\ IsVariable(pt[cop])
                                          /\ IsVariable(pt[j])
                                          /\ j # cop)}
        BY <3>1, <3>2, <2>2, <1>1
      <3> QED
        BY <3>1, <3>2, <3>3, <2>1, <2>3, <1>1, <1>2, <1>3 DEF BestSoFar, Pref
    <2> QED
      BY <2>5, <2>6, <2>7, <1>5, <1>6
  <1> QED
    BY <1>8, <1>9

----------------------------------------------------------------------------
(* An iteration of the loop keeps the types and the loop's invariant. *)
LEMMA IterationType ==
    ASSUME TypeOK, Iteration,
           {isConstraint'} \subseteq BOOLEAN,
           prefLower' \in Nat, prefUpper' \in Nat, mrPref' \in Nat,
           cop' \in Pos \cup {None}, result' \subseteq Pos,
           reason' \in Pos \cup {Already, Ambiguous, None}
    PROVE  TypeOK' /\ phase' = "loop"
  <1>1. /\ i \in Pos /\ i' = i + 1 /\ pt' = pt /\ mode' = mode
        /\ best' = best /\ lasttoken' = lasttoken /\ last' = last
        /\ phase' = phase /\ phase = "loop"
    BY SeenNext DEF Iteration, params
  <1>2. Pos' = Pos
    BY SeenNext
  <1>3. i' \in 1 .. Len(pt) + 1
    BY <1>1 DEF Pos, TypeOK
  <1>4. {best', lasttoken', isConstraint', last'} \subseteq BOOLEAN
    BY <1>1, Zenon DEF TypeOK
  <1> QED
    BY <1>1, <1>2, <1>3, <1>4 DEF TypeOK

LEMMA LoopStep ==
    ASSUME TypeOK, LoopInv, Iteration,
           NoMatch \/ AlreadyMatched \/ MatchAll \/ MatchEqual \/ MatchBetter \/ MatchWorse
    PROVE  TypeOK' /\ LoopInv' /\ phase' = "loop"
  <1> USE DEF LoopInv
  <1>1. i \in Pos /\ pt[i] \in Object /\ best' = best
    BY SeenNext, AtPos DEF Iteration, params
  <1>2. /\ Pref(i) \in Nat
        /\ IsMatch(pt[i]) \/ IsVariable(pt[i]) => Pref(i) > 0
    BY <1>1, PrefBounds DEF Pref
  <1>3. CASE NoMatch
    <2>1. ~Eligible(i) /\ ResultInv'
      BY <1>3, ResultKept DEF NoMatch, Eligible
    <2>2. CASE NewLower(Pref(i)) /\ IsVariable(pt[i])
      <3>1. /\ prefLower' = Pref(i) /\ reason' = i /\ Failed(i)
            /\ isConstraint' \in BOOLEAN
        BY <1>3, <2>2 DEF NoMatch, Failed, Pref
      <3>2. ReasonInv'
        BY <3>1, <2>2, ReasonNew
      <3> QED
        BY <3>1, <3>2, <2>1, <1>1, <1>2, <1>3, IterationType DEF NoMatch, TypeOK
    <2>3. CASE ~(NewLower(Pref(i)) /\ IsVariable(pt[i]))
      <3>1. UNCHANGED <<prefLower, isConstraint, reason>>
        BY <1>3, <2>3 DEF NoMatch, Pref
      <3>2. ~Failed(i) \/ ~NewLower(Pref(i))
        BY <2>3 DEF Failed
      <3>3. ReasonInv'
        BY <3>1, <3>2, ReasonKept, ReasonOld
      <3> QED
        BY <3>1, <3>3, <2>1, <1>3, IterationType DEF NoMatch, TypeOK
    <2> QED
      BY <2>2, <2>3
  <1>4. CASE AlreadyMatched
    <2>1. ~Eligible(i) /\ ~Failed(i) /\ ResultInv'
      BY <1>4, ResultKept DEF AlreadyMatched, Eligible, Taken, Failed
    <2>2. CASE NewLower(1)
      <3>1. prefLower' = 1 /\ reason' = Already
        BY <1>4, <2>2 DEF AlreadyMatched
      <3>2. Already \notin Pos' /\ Already # None /\ Already # Ambiguous
        BY SeenNext, ConstantAssumption DEF Pos
      <3>3. ReasonInv'
        BY <3>1, <3>2 DEF ReasonInv
      <3> QED
        BY <3>1, <3>3, <2>1, <1>4, IterationType DEF AlreadyMatched, TypeOK
    <2>3. CASE ~NewLower(1)
      <3>1. UNCHANGED <<prefLower, isConstraint, reason>>
        BY <1>4, <2>3 DEF AlreadyMatched
      <3>2. ReasonInv'
        BY <3>1, <2>1, ReasonKept
      <3> QED
        BY <3>1, <3>2, <2>1, <1>4, IterationType DEF AlreadyMatched, TypeOK
    <2> QED
      BY <2>2, <2>3
  <1>5. CASE MatchAll \/ MatchEqual \/ MatchBetter \/ MatchWorse
    <2>1. /\ Eligible(i) /\ ~Failed(i)
          /\ UNCHANGED <<prefLower, isConstraint, reason>>
      BY <1>5 DEF MatchAll, MatchEqual, MatchBetter, MatchWorse, Matching,
                  Eligible, Failed, Taken
    <2>2. ReasonInv'
      BY <2>1, ReasonKept
    <2>3. CASE MatchAll
      <3>1. ~best /\ result' = result \cup {i} /\ UNCHANGED <<prefUpper, cop>>
            /\ mrPref' \in Nat
        BY <2>3, <1>2 DEF MatchAll, Matching, Pref
      <3>2. ResultInv'
        BY <3>1, <2>1, <1>1, SeenNext DEF ResultInv
      <3> QED
        BY <3>1, <3>2, <2>1, <2>2, <1>1, IterationType DEF TypeOK
    <2>4. CASE ~MatchAll
      <3>1. /\ best
            /\ \/ /\ Pref(i) = prefUpper
                  /\ IF SkippedByMode THEN UNCHANGED result
                                      ELSE result' = result \cup {i}
                  /\ UNCHANGED <<prefUpper, cop>>
               \/ /\ Pref(i) > prefUpper
                  /\ prefUpper' = Pref(i) /\ result' = {i} /\ cop' = i
               \/ /\ Pref(i) < prefUpper
                  /\ UNCHANGED <<prefUpper, cop, result>>
        BY <1>5, <2>4 DEF MatchEqual, MatchBetter, MatchWorse, Matching, Pref, Current
      <3>2. mrPref' \in Nat
        BY <1>2, <1>5, <2>4 DEF MatchEqual, MatchBetter, MatchWorse, TypeOK, Pref
      <3>3. BestSoFar
        BY <3>1 DEF ResultInv
      <3>4. BestSoFar'
        BY <3>1, <3>3, <2>1, BestNext
      <3>5. ResultInv'
        BY <3>1, <3>4, <1>1 DEF ResultInv
      <3>6. prefUpper' \in Nat /\ cop' \in Pos \cup {None} /\ result' \subseteq Pos
        BY <3>1, <1>1, <1>2 DEF TypeOK
      <3> QED
        BY <3>2, <3>5, <3>6, <2>1, <2>2, IterationType DEF TypeOK
    <2> QED
      BY <2>3, <2>4
  <1> QED
    BY <1>3, <1>4, <1>5

----------------------------------------------------------------------------
(* When every object was seen, the result is the one defined at once. *)
LEMMA AllSeen ==
    ASSUME TypeOK, ResultInv, i = Len(pt) + 1
    PROVE  result = Wanted
  <1>1. Pos = 1 .. Len(pt) /\ Len(pt) \in Nat
    BY DEF Pos, TypeOK
  <1>2. Candidates \subseteq Pos /\ \A j \in Pos : j \in Nat /\ j < i
    BY <1>1 DEF Candidates
  <1>3. Seen = Candidates
    BY <1>2 DEF Seen
  <1>4. CASE ~best
    BY <1>3, <1>4 DEF ResultInv, Wanted
  <1>5. CASE best /\ Candidates = {}
    <2>1. result = {} /\ Top = {}
      BY <1>3, <1>5 DEF ResultInv, BestSoFar, Top, Preferred
    <2>2. FirstOnly(Top) = {}
      BY <2>1 DEF FirstOnly
    <2> QED
      BY <2>1, <2>2, <1>5 DEF Wanted
  <1>6. CASE best /\ Candidates # {}
    <2> DEFINE C == Candidates
    <2>1. /\ cop \in C /\ prefUpper = Pref(cop)
          /\ \A k \in C : Pref(k) <= prefUpper
          /\ \A k \in C : Pref(k) = prefUpper => cop <= k
          /\ result = {j \in C : /\ Pref(j) = prefUpper
                                 /\ ~(/\ ModeApplies
                                      /\ IsVariable(pt[cop])
                                      /\ IsVariable(pt[j])
                                      /\ j # cop)}
      BY <1>3, <1>6 DEF ResultInv, BestSoFar
    <2>2. \A j \in C : j \in Pos /\ j \in Nat /\ Pref(j) \in Nat
      BY <1>2, AtPos, PrefBounds DEF Pref
    <2>3. Top = {j \in C : Pref(j) = prefUpper}
      BY <2>1, <2>2 DEF Top, Preferred, Pref
    <2>4. cop \in Top /\ Top \subseteq C /\ \A k \in Top : cop <= k
      BY <2>1, <2>3
    <2>5. \A k : IsFirst(k, Top) <=> k = cop
      BY <2>2, <2>4 DEF IsFirst
    <2>6. \A j : Behind(j, Top) <=> cop # j /\ IsVariable(pt[cop])
      BY <2>2, <2>4, <2>5 DEF Behind
    <2>7. FirstOnly(Top) = result
      BY <2>1, <2>3, <2>6 DEF FirstOnly
    <2> QED
      BY <2>7, <1>6 DEF Wanted
  <1> QED
    BY <1>4, <1>5, <1>6

(* The reason of the loop is the first failure of the least preference. *)
LEMMA AllExplained ==
    ASSUME TypeOK, ReasonInv, i = Len(pt) + 1
    PROVE  /\ Reportable # {} => reason # None
           /\ reason \in Pos =>
                /\ Failed(reason)
                /\ \A j \in Reportable \ {reason} :
                     \/ Pref(reason) < Pref(j)
                     \/ Pref(reason) = Pref(j) /\ reason < j
  <1>1. Len(pt) \in Nat /\ \A j \in Reportable : j \in Nat /\ j < i
    BY DEF Reportable, Pos, TypeOK
  <1> QED
    BY <1>1 DEF ReasonInv

LEMMA StepInv == IInv /\ [Next]_vars => IInv'
  <1> SUFFICES ASSUME IInv, [Next]_vars PROVE IInv'
    OBVIOUS
  <1>1. TypeOK
    BY DEF IInv
  <1>2. CASE NoMatch \/ AlreadyMatched \/ MatchAll \/ MatchEqual \/ MatchBetter \/ MatchWorse
    <2>1. Iteration
      BY <1>2 DEF NoMatch, AlreadyMatched, MatchAll, MatchEqual, MatchBetter,
                  MatchWorse, Matching
    <2>2. phase = "loop"
      BY <2>1 DEF Iteration
    <2> QED
      BY <2>1, <2>2, <1>1, <1>2, LoopStep DEF IInv
  <1>3. CASE EndOfLoop
    <2>1. /\ phase = "loop" /\ phase' = "end" /\ i > Len(pt)
          /\ UNCHANGED <<pt, best, lasttoken, mode, i, prefLower, prefUpper, cop,
                         isConstraint, result, mrPref, last, reason>>
      BY <1>3 DEF EndOfLoop, params
    <2>2. TypeOK'
      BY <2>1, <1>1 DEF TypeOK, Pos
    <2>3. i = Len(pt) + 1
      BY <2>1, <1>1 DEF TypeOK
    <2>4. LoopInv
      BY <2>1 DEF IInv
    <2>5. LoopInv'
      BY <2>1, <2>4 DEF LoopInv, ResultInv, BestSoFar, ReasonInv, Seen, Pref,
                        Candidates, Eligible, Reportable, Failed, Pos, ModeApplies
    <2> QED
      BY <2>1, <2>2, <2>3, <2>5 DEF IInv
  <1>4. CASE EndOfVec
    <2>1. /\ phase = "end" /\ phase' = "local"
          /\ UNCHANGED <<pt, best, lasttoken, mode, i, prefLower, prefUpper, cop,
                         isConstraint, mrPref, last>>
          /\ \/ result' = result /\ result = {} /\ reason' = reason
             \/ result' = {} /\ reason # None /\ reason' = reason
             \/ result # {} /\ result' = result /\ reason' = None
      BY <1>4 DEF EndOfVec, params, Suppressed
    <2>2. TypeOK'
      BY <2>1, <1>1 DEF TypeOK, Pos
    <2>3. /\ result = Wanted
          /\ Reportable # {} => reason # None
          /\ reason \in Pos =>
               /\ Failed(reason)
               /\ \A j \in Reportable \ {reason} :
                    \/ Pref(reason) < Pref(j)
                    \/ Pref(reason) = Pref(j) /\ reason < j
      BY <2>1, <1>1, AllSeen, AllExplained DEF IInv, LoopInv
    <2>4. /\ Wanted' = Wanted /\ Reportable' = Reportable /\ Pos' = Pos
          /\ \A j : Pref(j)' = Pref(j) /\ Failed(j)' = Failed(j)
      BY <2>1 DEF Wanted, FirstOnly, Top, Preferred, Behind, IsFirst, Candidates,
                  Eligible, Reportable, Failed, Pos, ModeApplies, Pref
    <2>5. None \notin Pos
      BY ConstantAssumption DEF Pos
    <2>6. result' \in {Wanted', {}}
      BY <2>1, <2>3, <2>4
    <2>7. Explained'
      BY <2>1, <2>3, <2>4, <2>5 DEF Explained, Pref, Failed
    <2> QED
      BY <2>1, <2>2, <2>6, <2>7 DEF IInv
  <1>5. CASE Local
    <2>1. /\ phase = "local" /\ phase' = "done"
          /\ UNCHANGED <<pt, best, lasttoken, mode, i, prefLower, prefUpper, cop,
                         isConstraint, mrPref>>
          /\ \/ result' = result /\ reason' = reason
             \/ result' = {} /\ reason' = Ambiguous
          /\ last' \in BOOLEAN
      BY <1>5 DEF Local, params, Unresolved
    <2>2. {best', lasttoken', isConstraint', last'} \subseteq BOOLEAN
      BY <2>1, <1>1, Zenon DEF TypeOK
    <2>3. TypeOK'
      BY <2>1, <2>2, <1>1 DEF TypeOK, Pos
    <2>4. result \in {Wanted, {}} /\ Explained
      BY <2>1 DEF IInv
    <2>5. /\ Wanted' = Wanted /\ Reportable' = Reportable /\ Pos' = Pos
          /\ \A j : Pref(j)' = Pref(j) /\ Failed(j)' = Failed(j)
      BY <2>1 DEF Wanted, FirstOnly, Top, Preferred, Behind, IsFirst, Candidates,
                  Eligible, Reportable, Failed, Pos, ModeApplies, Pref
    <2>6. Ambiguous \notin Pos /\ Ambiguous # None
      BY ConstantAssumption DEF Pos
    <2>7. Explained'
      BY <2>1, <2>4, <2>5, <2>6 DEF Explained, Pref, Failed
    <2> QED
      BY <2>1, <2>3, <2>4, <2>5, <2>7 DEF IInv
  <1>6. CASE UNCHANGED vars
    <2>1. UNCHANGED <<pt, best, lasttoken, mode, phase, i, prefLower, prefUpper,
                      cop, isConstraint, result, mrPref, last, reason>>
      BY <1>6 DEF vars, params
    <2>2. /\ Wanted' = Wanted /\ Reportable' = Reportable /\ Pos' = Pos
          /\ Seen' = Seen /\ BestSoFar' = BestSoFar
          /\ \A j : Pref(j)' = Pref(j) /\ Failed(j)' = Failed(j)
      BY <2>1 DEF Wanted, FirstOnly, Top, Preferred, Behind, IsFirst, Candidates,
                  Eligible, Reportable, Failed, Pos, ModeApplies, Pref, Seen, BestSoFar
    <2>3. TypeOK'
      BY <2>1 DEF IInv, TypeOK, Pos
    <2>4. LoopInv => LoopInv'
      BY <2>1, <2>2 DEF LoopInv, ResultInv, ReasonInv, Pref, Failed
    <2>5. Explained => Explained'
      BY <2>1, <2>2 DEF Explained, Pref, Failed
    <2> QED
      BY <2>1, <2>2, <2>3, <2>4, <2>5 DEF IInv
  <1> QED
    BY <1>2, <1>3, <1>4, <1>5, <1>6 DEF Next

----------------------------------------------------------------------------
LEMMA Invariance == Spec => []IInv
  BY InitInv, StepInv, PTL DEF Spec

(***************************************************************************)
(* Every reachable state of the matching of a token is well typed.         *)
(***************************************************************************)
THEOREM TypeCorrect == Spec => []TypeOK
  <1>1. IInv => TypeOK
    BY DEF IInv
  <1> QED
    BY <1>1, Invariance, PTL

(***************************************************************************)
(* The single pass of match_vec finds the objects of highest preference,   *)
(* for every level, preferences and preference mode.                       *)
(***************************************************************************)
THEOREM PassIsBest == Spec => []LoopFindsBest
  <1>1. IInv => LoopFindsBest
    BY AllSeen DEF IInv, LoopInv, LoopFindsBest
  <1> QED
    BY <1>1, Invariance, PTL

(***************************************************************************)
(* What match_pattern_sets_local leaves is all that was wanted, or nothing.*)
(***************************************************************************)
THEOREM NothingPartial == Spec => []AllOrNothing
  <1>1. IInv => AllOrNothing
    BY DEF IInv, AllOrNothing
  <1> QED
    BY <1>1, Invariance, PTL

(***************************************************************************)
(* A failure is explained by the first failure of the least specific       *)
(* variable, and a match by nothing.                                       *)
(***************************************************************************)
THEOREM FailureExplained == Spec => []ReasonExplains
  <1>1. IInv => ReasonExplains
    BY DEF IInv, Explained, ReasonExplains, Pref
  <1> QED
    BY <1>1, Invariance, PTL
----------------------------------------------------------------------------
(* What a token is given up for. *)

ConstraintFailed == \E j \in Reportable : pt[j].outcome = "constraint"
GivenUp ==
    best /\ ConstraintFailed /\ \A j \in Wanted : Pref(j) = Partial

(* mr_pref is the preference of what was found, and an error that may      *)
(* suppress it is that of a variable.                                      *)
LoopPref ==
    /\ isConstraint => ConstraintFailed
    /\ best /\ result # {} =>
          mrPref = prefUpper /\ \A j \in result : Pref(j) = prefUpper

GaveUpRightly ==
    /\ phase \in {"loop", "end"} => LoopPref
    /\ phase = "local" /\ result # Wanted => GivenUp
    /\ phase = "done" =>
         /\ ~lasttoken => Cardinality(result) <= 1
         /\ result # Wanted => GivenUp \/ Cardinality(Wanted) > 1

(* All but the loop's variables stay, and with them what was wanted. *)
LEMMA LevelStays ==
    ASSUME UNCHANGED <<pt, best, lasttoken, mode>>
    PROVE  /\ Wanted' = Wanted /\ Reportable' = Reportable
           /\ \A j : Pref(j)' = Pref(j)
           /\ ConstraintFailed' = ConstraintFailed /\ GivenUp' = GivenUp
  <1>1. /\ Wanted' = Wanted /\ Reportable' = Reportable /\ \A j : Pref(j)' = Pref(j)
    BY DEF Wanted, FirstOnly, Top, Preferred, Behind, IsFirst, Candidates,
           Eligible, Reportable, Failed, Pos, ModeApplies, Pref
  <1> QED
    BY <1>1 DEF ConstraintFailed, GivenUp, Pref

LEMMA ResultIsFinite ==
    ASSUME TypeOK
    PROVE  Cardinality(result) \in Nat
  <1>1. Len(pt) \in Nat /\ result \subseteq 1 .. Len(pt)
    BY DEF TypeOK, Pos
  <1>2. IsFiniteSet(1 .. Len(pt))
    BY <1>1, FS_Interval
  <1> QED
    BY <1>1, <1>2, FS_Subset, FS_CardinalityType

LEMMA LoopPrefKept ==
    ASSUME TypeOK, LoopPref, Iteration,
           NoMatch \/ AlreadyMatched \/ MatchAll \/ MatchEqual \/ MatchBetter \/ MatchWorse
    PROVE  LoopPref'
  <1>1. /\ i \in Pos /\ UNCHANGED <<pt, best, lasttoken, mode>>
        /\ Pref(i) \in Nat /\ prefUpper \in Nat
    BY SeenNext, AtPos, PrefBounds DEF Iteration, params, Pref, TypeOK
  <1>2. /\ ConstraintFailed' = ConstraintFailed
        /\ \A j : Pref(j)' = Pref(j)
    BY <1>1, LevelStays
  <1>3. isConstraint' => ConstraintFailed
    <2>1. CASE NoMatch
      <3>1. CASE NewLower(CoPref(pt[i])) /\ IsVariable(pt[i])
        <4>1. isConstraint' = (pt[i].outcome = "constraint") /\ i \in Reportable
          BY <1>1, <2>1, <3>1 DEF NoMatch, Reportable, Failed
        <4> QED
          BY <4>1 DEF ConstraintFailed
      <3>2. CASE ~(NewLower(CoPref(pt[i])) /\ IsVariable(pt[i]))
        BY <2>1, <3>2 DEF NoMatch, LoopPref
      <3> QED
        BY <3>1, <3>2
    <2>2. CASE ~NoMatch
      BY <2>2 DEF AlreadyMatched, MatchAll, MatchEqual, MatchBetter, MatchWorse, LoopPref
    <2> QED
      BY <2>1, <2>2
  <1>4. ASSUME best, result' # {}
        PROVE  mrPref' = prefUpper' /\ \A j \in result' : Pref(j) = prefUpper'
    <2>1. CASE NoMatch \/ AlreadyMatched \/ MatchWorse
      BY <1>4, <2>1 DEF NoMatch, AlreadyMatched, MatchWorse, LoopPref
    <2>2. CASE MatchEqual
      <3>1. Pref(i) = prefUpper /\ prefUpper' = prefUpper
        BY <2>2 DEF MatchEqual, Pref
      <3>2. \/ UNCHANGED <<result, mrPref>>
            \/ result' = result \cup {i} /\ mrPref' = Pref(i)
        BY <2>2 DEF MatchEqual, Pref
      <3> QED
        BY <1>4, <3>1, <3>2 DEF LoopPref
    <2>3. CASE MatchBetter
      BY <2>3 DEF MatchBetter, Pref
    <2>4. CASE MatchAll
      BY <1>4, <2>4 DEF MatchAll
    <2> QED
      BY <2>1, <2>2, <2>3, <2>4
  <1> QED
    BY <1>1, <1>2, <1>3, <1>4 DEF LoopPref

LEMMA GaveUpInit == Init => GaveUpRightly
  BY DEF Init, GaveUpRightly, LoopPref

LEMMA GaveUpStep == IInv /\ GaveUpRightly /\ [Next]_vars => GaveUpRightly'
  <1> SUFFICES ASSUME IInv, GaveUpRightly, [Next]_vars PROVE GaveUpRightly'
    OBVIOUS
  <1>1. TypeOK
    BY DEF IInv
  <1>2. CASE NoMatch \/ AlreadyMatched \/ MatchAll \/ MatchEqual \/ MatchBetter \/ MatchWorse
    <2>1. Iteration
      BY <1>2 DEF NoMatch, AlreadyMatched, MatchAll, MatchEqual, MatchBetter,
                  MatchWorse, Matching
    <2>2. phase = "loop" /\ phase' = "loop"
      BY <2>1 DEF Iteration
    <2>3. LoopPref'
      BY <1>1, <1>2, <2>1, <2>2, LoopPrefKept DEF GaveUpRightly
    <2> QED
      BY <2>2, <2>3 DEF GaveUpRightly
  <1>3. CASE EndOfLoop
    <2>1. /\ phase = "loop" /\ phase' = "end"
          /\ UNCHANGED <<pt, best, lasttoken, mode, prefUpper, isConstraint, result, mrPref>>
      BY <1>3 DEF EndOfLoop, params
    <2>2. LoopPref'
      BY <2>1, LevelStays DEF GaveUpRightly, LoopPref
    <2> QED
      BY <2>1, <2>2 DEF GaveUpRightly
  <1>4. CASE EndOfVec
    <2>1. /\ phase = "end" /\ phase' = "local" /\ UNCHANGED <<pt, best, lasttoken, mode>>
          /\ \/ result' = result
             \/ result # {} /\ Suppressed
      BY <1>4 DEF EndOfVec, params
    <2>2. result = Wanted /\ LoopPref
      BY <1>1, <2>1, AllSeen DEF IInv, LoopInv, GaveUpRightly
    <2>3. result # {} /\ Suppressed => GivenUp
      BY <2>2 DEF Suppressed, LoopPref, GivenUp
    <2>4. Wanted' = Wanted /\ GivenUp' = GivenUp
      BY <2>1, LevelStays
    <2> QED
      BY <2>1, <2>2, <2>3, <2>4 DEF GaveUpRightly
  <1>5. CASE Local
    <2>1. /\ phase = "local" /\ phase' = "done" /\ UNCHANGED <<pt, best, lasttoken, mode>>
          /\ IF IsAmbiguous THEN result' = {} ELSE result' = result
      BY <1>5 DEF Local, params, Unresolved
    <2>2. Wanted' = Wanted /\ GivenUp' = GivenUp
      BY <2>1, LevelStays
    <2>3. result \in {Wanted, {}} /\ (result # Wanted => GivenUp)
      BY <2>1 DEF IInv, GaveUpRightly
    <2>4. CASE IsAmbiguous
      <3>1. result' = {} /\ Cardinality(result) > 1 /\ Cardinality({}) = 0
        BY <2>1, <2>4, FS_EmptySet DEF IsAmbiguous
      <3>2. result = Wanted
        BY <2>3, <3>1
      <3> QED
        BY <2>1, <2>2, <3>1, <3>2 DEF GaveUpRightly
    <2>5. CASE ~IsAmbiguous
      <3>1. result' = result /\ (~lasttoken => Cardinality(result) <= 1)
        BY <1>1, <2>1, <2>5, ResultIsFinite DEF IsAmbiguous
      <3> QED
        BY <2>1, <2>2, <2>3, <3>1 DEF GaveUpRightly
    <2> QED
      BY <2>4, <2>5
  <1>6. CASE UNCHANGED vars
    <2>1. UNCHANGED <<pt, best, lasttoken, mode, phase, prefUpper, isConstraint, result,
                      mrPref>>
      BY <1>6 DEF vars, params
    <2>2. /\ Wanted' = Wanted /\ GivenUp' = GivenUp
          /\ ConstraintFailed' = ConstraintFailed /\ \A j : Pref(j)' = Pref(j)
      BY <2>1, LevelStays
    <2> QED
      BY <2>1, <2>2 DEF GaveUpRightly, LoopPref
  <1> QED
    BY <1>2, <1>3, <1>4, <1>5, <1>6 DEF Next

(***************************************************************************)
(* A token before the last one is resolved to one object or to none, and a *)
(* single best reading is given up only when it is the beginning of a      *)
(* keyword and a variable failed for its constraint.                       *)
(***************************************************************************)
THEOREM OneOrNone == Spec => []ResolvesUnique
  <1>1. GaveUpRightly => ResolvesUnique
    <2> SUFFICES ASSUME GaveUpRightly, phase = "done" PROVE ResolvesUnique
      BY DEF ResolvesUnique
    <2>1. ASSUME Cardinality(Wanted) = 1, result = {} PROVE GivenUp
      <3>1. Wanted # {} /\ ~(Cardinality(Wanted) > 1)
        BY <2>1, FS_EmptySet
      <3> QED
        BY <2>1, <3>1 DEF GaveUpRightly
    <2> QED
      BY <2>1 DEF GaveUpRightly, ResolvesUnique, GivenUp, ConstraintFailed, Pref
  <1> QED
    BY <1>1, GaveUpInit, GaveUpStep, Invariance, PTL DEF Spec
=============================================================================
