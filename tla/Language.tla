------------------------------- MODULE Language -------------------------------
(***************************************************************************)
(* What a specification says: which words read as which objects of it, and *)
(* in which order.  Of a level of an ordinary tree one object is chosen;   *)
(* of a set (`@{ }`) the objects come in any order and at most once, each  *)
(* with what is below it.  A word reads as a keyword that it begins.       *)
(***************************************************************************)
EXTENDS Integers, SequencesExt

VARIABLE
    spec            \* the specification: a level for each name of a level, as
                    \* pt_expand leaves it; "root" is the first one

Level(n) == spec[n]

Starts(w, keyword) == IsPrefix(w, keyword)

\* The words that are values of a type of variables
Accepts(type, w) ==
    CASE type = "number" -> w # << >> /\ \A i \in DOMAIN w : w[i] \in {"0", "1"}
      [] type = "string" -> w # << >>
      [] type = "rest"   -> TRUE
      [] OTHER           -> FALSE

Fits(o, w) == IF o.type = "command" THEN Starts(w, o.word) ELSE Accepts(o.type, w)

----------------------------------------------------------------------------
(***************************************************************************)
(* A reading: the levels that are open, innermost last, each with the      *)
(* objects that it is nested in and those of it that were given; and all   *)
(* the objects that were read, each with those it is nested in.            *)
(***************************************************************************)
Open(o, path) == [path |-> Append(path, o), level |-> o.below, given |-> {}]
Root == [id |-> "", type |-> "command", word |-> << >>, hidden |-> FALSE,
         fns |-> << >>, ref |-> << >>, below |-> "root"]
Start == [open |-> <<Open(Root, << >>)>>, read |-> << >>, paths |-> << >>]

IsComplete(f) == Level(f.level).ends \/ (Level(f.level).sets /\ f.given # {})
IsCommand(r)  == r.read # << >> /\ \A i \in DOMAIN r.open : IsComplete(r.open[i])

\* Levels are left when they are complete, for a set around them; the first
\* level is not a set even when it is written as one
Leaves(r) ==
    {[r EXCEPT !.open = SubSeq(@, 1, k)] :
        k \in {k \in DOMAIN r.open : \A i \in k + 1 .. Len(r.open) : IsComplete(r.open[i])}}

Enter(r, o) ==
    LET top  == Last(r.open)
        here == IF Level(top.level).sets /\ top.level # "root"
                THEN <<[top EXCEPT !.given = @ \cup {o.id}]>> ELSE << >>
    IN  [open  |-> Front(r.open) \o here \o <<Open(o, top.path)>>,
         read  |-> Append(r.read, o),
         paths |-> Append(r.paths, Append(top.path, o))]

Candidates(r) ==
    LET top == Last(r.open)
    IN  {o \in ToSet(Level(top.level).objs) : o.id \notin top.given}

IsRest(r) == r.read # << >> /\ Last(r.read).type = "rest"

Reads(r, w) ==
    IF IsRest(r) THEN {r}
    ELSE UNION {{Enter(b, o) : o \in {o \in Candidates(b) : Fits(o, w)}} : b \in Leaves(r)}

Readings(words) ==
    FoldLeft(LAMBDA rs, w : UNION {Reads(r, w) : r \in rs}, {Start}, words)

\* Whatever was typed so far, there was only one way to read it
IsClear(words) ==
    \A k \in 0 .. Len(words) : Cardinality(Readings(SubSeq(words, 1, k))) <= 1

(***************************************************************************)
(* What a reading calls: an object has its own callback, and that of the   *)
(* innermost reference it is nested in.  A reference that adds an argument *)
(* (prepend_me) counts for nothing by itself when it is nested in another  *)
(* one: its argument comes in front of those of that one, for all that is  *)
(* read of it from then on, in a set also for what is beside it.           *)
(***************************************************************************)
Adds(o) == o.ref # << >> /\ o.ref[1].fn = "prepend_me"

\* The objects down to the reference whose callback it is
Caller(path) ==
    LET refs == {i \in DOMAIN path : path[i].ref # << >>}
        own  == {i \in refs : ~Adds(path[i]) \/ i = Min(refs)}
    IN  IF refs = {} THEN << >> ELSE SubSeq(path, 1, Max(own))

AddedTo(r, caller) ==
    {i \in DOMAIN r.read :
        Adds(r.read[i]) /\ r.paths[i] # caller /\ Caller(r.paths[i]) = caller}

Inherited(r) ==
    LET caller == Caller(Last(r.paths))
        added  == AddedTo(r, caller)
        latestFirst(i, j) == i > j
    IN  IF caller = << >> THEN << >>
        ELSE [Last(caller).ref EXCEPT ![1].args =
                [k \in 1 .. Cardinality(added) |->
                    Head(r.read[SetToSortSeq(added, latestFirst)[k]].ref[1].args)] \o @]

Called(r) ==
    LET above == Inherited(r)
        o     == Last(r.read)
    IN  IF above = << >> THEN o.fns
        ELSE IF o.fns = << >> THEN above
        ELSE IF o.fns[1].pipe THEN o.fns \o above
        ELSE <<[fn |-> above[1].fn, args |-> o.fns[1].args \o above[1].args, pipe |-> FALSE]>>
============================================================================
