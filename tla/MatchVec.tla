------------------------------ MODULE MatchVec ------------------------------
(***************************************************************************)
(* Matching one token of a command line with the objects of one level of   *)
(* the parse tree: match_vec and match_pattern_sets_local (cligen_match.c) *)
(* with the preferences of cligen_object.c.                                *)
(*                                                                         *)
(* The level is a sequence pt of objects.  What match_object says of the   *)
(* token is part of the object here: "exact" or "match" (a keyword's       *)
(* prefix, a value of the variable's type), "constraint" (a value of the   *)
(* right type outside its range, length or pattern) or "mismatch".  The    *)
(* result keeps the order of pt, so the set of the positions that were     *)
(* copied to it stands for it.  One step is one iteration of the loop.     *)
(***************************************************************************)
EXTENDS Integers, Sequences, FiniteSets

CONSTANTS
    Object,     \* objects of the instance
    MaxLen,     \* bound: objects of a level
    None,       \* NULL
    Already, Ambiguous      \* the reasons that are not a variable's error

(***************************************************************************)
(* COV_PREF_* by type of a variable; "r" marks an integer with a range.    *)
(***************************************************************************)
TypePref ==
    [rest |-> 1, string |-> 6, regexp |-> 8, expand |-> 14, bool |-> 16,
     interface |-> 18, url |-> 20,
     uint64 |-> 45, int64 |-> 46, uint32 |-> 47, int32 |-> 48,
     uint16 |-> 49, int16 |-> 50, uint8  |-> 51, int8  |-> 52,
     uint64r |-> 45, int64r |-> 46, uint32r |-> 47, int32r |-> 48,
     uint16r |-> 49, int16r |-> 50, uint8r  |-> 51, int8r  |-> 52,
     decimal64 |-> 62, ipv4addr |-> 70, ipv6addr |-> 71, macaddr |-> 72,
     uuid |-> 73, time |-> 75]
Type    == DOMAIN TypePref
Partial == 3
Full    == 100

Override == {p \in Nat : p < 65536}      \* uint16_t co_preference

Outcome ==
    [command   |-> {"exact", "match", "mismatch"},
     variable  |-> {"match", "constraint", "mismatch"},
     empty     |-> {"mismatch"},        \* the end of a command
     reference |-> {"mismatch"}]        \* of a tree
IsObject(co) ==
    /\ co.kind \in {"command", "variable", "empty", "reference"}
    /\ co.outcome \in Outcome[co.kind]
    /\ co.override \in Override
    /\ co.marked \in BOOLEAN
    /\ co.kind = "variable" => co.type \in Type

ASSUME ObjectAssumption ==
    \A co \in Object : IsObject(co)

ASSUME ConstantAssumption ==
    /\ MaxLen \in Nat
    /\ {None, Already, Ambiguous} \cap Int = {}
    /\ None \notin {Already, Ambiguous} /\ Already # Ambiguous

VARIABLES
    pt,             \* the level of the parse tree
    best, lasttoken, mode,      \* parameters, and the preference mode
    phase,          \* "loop", "end", "local", "done"
    i,              \* loop variable
    prefLower, prefUpper,
    cop,            \* first object with preference prefUpper
    isConstraint,   \* pref_lower_is_constraint
    result,         \* positions of the objects in mr_pt
    mrPref,         \* mr_pref
    last,           \* mr_last: the match has no use for further tokens
    reason          \* mr_reason: the position of the object that gave it,
                    \* or Already, Ambiguous; None if there is none

params == <<pt, best, lasttoken, mode>>
vars   == <<params, phase, i, prefLower, prefUpper, cop, isConstraint,
            result, mrPref, last, reason>>

----------------------------------------------------------------------------
Overrides(co) == co.override > 0
CoPref(co) ==
    IF Overrides(co) THEN co.override
    ELSE IF co.kind = "command" THEN IF co.outcome = "exact" THEN Full ELSE Partial
    ELSE IF co.kind = "variable" THEN TypePref[co.type]
    ELSE 0

IsMatch(co)    == co.outcome \in {"exact", "match"}
IsVariable(co) == co.kind = "variable"
IsRest(co)     == IsVariable(co) /\ co.type = "rest"

Infinite == 2147483647                  \* INT32_MAX

Init ==
    /\ pt \in UNION {[1 .. n -> Object] : n \in 0 .. MaxLen}
    /\ lasttoken \in BOOLEAN
    /\ best \in BOOLEAN /\ (~lasttoken => best)
    /\ mode \in 0 .. 3
    /\ phase = "loop"
    /\ i = 1
    /\ prefLower = Infinite /\ prefUpper = 0
    /\ cop = None
    /\ isConstraint = FALSE
    /\ result = {} /\ mrPref = 0 /\ last = FALSE /\ reason = None

----------------------------------------------------------------------------
(***************************************************************************)
(* The loop of match_vec, by the branches of its body.                     *)
(***************************************************************************)
Iteration ==
    /\ phase = "loop"
    /\ i <= Len(pt)
    /\ i' = i + 1
    /\ UNCHANGED <<params, phase, last>>

LatestLower(p) == p <= prefLower        \* mutant
NewLower(p)    == p < prefLower

(* "save lowest(widest) preference error message, for variables only" *)
NoMatch ==
    /\ Iteration
    /\ ~IsMatch(pt[i])
    /\ IF NewLower(CoPref(pt[i])) /\ IsVariable(pt[i])
         THEN /\ prefLower' = CoPref(pt[i])
              /\ isConstraint' = (pt[i].outcome = "constraint")
              /\ reason' = i
         ELSE UNCHANGED <<prefLower, isConstraint, reason>>
    /\ UNCHANGED <<prefUpper, cop, result, mrPref>>

Taken(co) == co.marked

(* a member of a set that was matched before *)
AlreadyMatched ==
    /\ Iteration
    /\ IsMatch(pt[i]) /\ Taken(pt[i])
    /\ IF NewLower(1)
         THEN prefLower' = 1 /\ reason' = Already
         ELSE UNCHANGED <<prefLower, reason>>
    /\ UNCHANGED <<prefUpper, cop, isConstraint, result, mrPref>>

Matching == Iteration /\ IsMatch(pt[i]) /\ ~Taken(pt[i])

ModeApplies ==
    \/ mode = 1 /\ lasttoken
    \/ mode = 2 /\ ~lasttoken
    \/ mode = 3

SkipsKeywords == ModeApplies /\ cop # None /\ IsVariable(pt[cop])       \* mutant
SkippedByMode ==
    /\ ModeApplies
    /\ cop # None /\ IsVariable(pt[cop])
    /\ IsVariable(pt[i])

MatchAll ==                             \* completion keeps every match
    /\ Matching /\ ~best
    /\ result' = result \cup {i}
    /\ mrPref' = CoPref(pt[i])
    /\ UNCHANGED <<prefLower, prefUpper, cop, isConstraint, reason>>

MatchEqual ==
    /\ Matching /\ best
    /\ CoPref(pt[i]) = prefUpper
    /\ IF SkippedByMode
         THEN UNCHANGED <<result, mrPref>>
         ELSE result' = result \cup {i} /\ mrPref' = CoPref(pt[i])
    /\ UNCHANGED <<prefLower, prefUpper, cop, isConstraint, reason>>

Current     == i

MatchBetter ==
    /\ Matching /\ best
    /\ CoPref(pt[i]) > prefUpper
    /\ prefUpper' = CoPref(pt[i])
    /\ result' = {i}
    /\ mrPref' = CoPref(pt[i])
    /\ cop' = Current
    /\ UNCHANGED <<prefLower, isConstraint, reason>>

MatchWorse ==
    /\ Matching /\ best
    /\ CoPref(pt[i]) < prefUpper
    /\ UNCHANGED <<prefLower, prefUpper, cop, isConstraint, result, mrPref, reason>>

EndOfLoop ==
    /\ phase = "loop"
    /\ i > Len(pt)
    /\ phase' = "end"
    /\ UNCHANGED <<params, i, prefLower, prefUpper, cop, isConstraint, result,
                   mrPref, last, reason>>

(***************************************************************************)
(* After the loop: a partial keyword gives way to the error of a variable  *)
(* whose constraint failed, and else a match needs no reason.              *)
(***************************************************************************)
KeywordYields == best /\ mrPref = Partial                   \* mutant
Suppressed ==
    /\ best
    /\ mrPref = Partial
    /\ reason # None
    /\ prefLower > Partial
    /\ isConstraint

EndOfVec ==
    /\ phase = "end"
    /\ phase' = "local"
    /\ IF result = {}
         THEN UNCHANGED <<result, reason>>
         ELSE IF Suppressed
                THEN result' = {} /\ UNCHANGED reason
                ELSE reason' = None /\ UNCHANGED result
    /\ UNCHANGED <<params, i, prefLower, prefUpper, cop, isConstraint, mrPref, last>>

(* match_pattern_sets_local: before the last token only one match will do *)
IsAmbiguous == Cardinality(result) > 1 /\ ~lasttoken
Unresolved  == {}

Local ==
    /\ phase = "local"
    /\ phase' = "done"
    /\ IF IsAmbiguous
         THEN result' = Unresolved /\ reason' = Ambiguous
         ELSE UNCHANGED <<result, reason>>
    /\ last' = \E j \in result : result = {j} /\ (lasttoken \/ IsRest(pt[j]))
    /\ UNCHANGED <<params, i, prefLower, prefUpper, cop, isConstraint, mrPref>>

Next ==
    \/ NoMatch \/ AlreadyMatched
    \/ MatchAll \/ MatchEqual \/ MatchBetter \/ MatchWorse
    \/ EndOfLoop \/ EndOfVec \/ Local

Spec == Init /\ [][Next]_vars

----------------------------------------------------------------------------
(***************************************************************************)
(* What the result should be, defined on the whole level at once.          *)
(***************************************************************************)
Pos == 1 .. Len(pt)

Eligible(j) == IsMatch(pt[j]) /\ ~pt[j].marked

(* those no other eligible one is preferred to *)
Preferred(S) == {j \in S : \A k \in S : CoPref(pt[k]) <= CoPref(pt[j])}
Candidates   == {j \in Pos : Eligible(j)}
Top          == Preferred(Candidates)

(* with a preference mode, when the first one is a variable, it is the only one *)
IsFirst(k, S) == k \in S /\ \A l \in S : k <= l
Behind(j, S)  == \E k \in Pos : IsFirst(k, S) /\ k # j /\ IsVariable(pt[k])
FirstOnly(S) ==
    IF ModeApplies THEN {j \in S : ~(IsVariable(pt[j]) /\ Behind(j, S))} ELSE S

Wanted == IF best THEN FirstOnly(Top) ELSE Candidates

(* positions whose failure may be reported, and their preferences *)
Failed(j)     == ~IsMatch(pt[j]) /\ IsVariable(pt[j])
Reportable    == {j \in Pos : Failed(j)}

----------------------------------------------------------------------------
(***************************************************************************)
(* Properties                                                              *)
(***************************************************************************)
TypeOK ==
    /\ pt \in Seq(Object)
    /\ {best, lasttoken, isConstraint, last} \subseteq BOOLEAN
    /\ mode \in 0 .. 3
    /\ phase \in {"loop", "end", "local", "done"}
    /\ i \in 1 .. Len(pt) + 1
    /\ prefLower \in Nat /\ prefUpper \in Nat /\ mrPref \in Nat
    /\ cop \in Pos \cup {None}
    /\ result \subseteq Pos
    /\ reason \in Pos \cup {Already, Ambiguous, None}

(***************************************************************************)
(* The loop finds exactly the eligible objects of the highest preference   *)
(* (or, for completion, all eligible ones; with a preference mode, the     *)
(* first variable of them), although it sees them one at a time and does   *)
(* not know what follows.                                                  *)
(***************************************************************************)
LoopFindsBest == phase = "end" => result = Wanted

(***************************************************************************)
(* A command is executed only as its most preferred reading: what is left  *)
(* at the end is all that was wanted, or nothing.                          *)
(***************************************************************************)
AllOrNothing == phase = "done" => result \in {Wanted, {}}

(***************************************************************************)
(* When nothing is left the user is told why, if a variable failed or a    *)
(* set member was given twice; a match carries no reason.  The reason is   *)
(* the first failure of the least specific variable.                       *)
(***************************************************************************)
ReasonExplains ==
    phase = "done" =>
        /\ result # {} => reason = None
        /\ result = {} /\ Reportable # {} => reason # None
        /\ reason \in Pos =>
             /\ Failed(reason)
             /\ \A j \in Reportable \ {reason} :
                  \/ CoPref(pt[reason]) < CoPref(pt[j])
                  \/ CoPref(pt[reason]) = CoPref(pt[j]) /\ reason < j

(***************************************************************************)
(* A token before the last one is resolved to one object or to none, and   *)
(* a unique best reading is given up only for a failed constraint.         *)
(***************************************************************************)
ResolvesUnique ==
    phase = "done" =>
        /\ ~lasttoken => Cardinality(result) <= 1
        /\ Cardinality(Wanted) = 1 /\ result = {} =>
             /\ best
             /\ \A j \in Wanted : CoPref(pt[j]) = Partial
             /\ \E j \in Reportable : pt[j].outcome = "constraint"

=============================================================================
