------------------------------- MODULE Pattern --------------------------------
(***************************************************************************)
(* The match of a line with a specification (cligen_match.c): the words    *)
(* are matched level by level, by a recursion that iterates where a level  *)
(* is a set and falls back to what it had when it gets no further.  The    *)
(* match of one word with one level is that of MatchVec, and a level is    *)
(* what pt_expand makes of it (Expand).                                    *)
(***************************************************************************)
EXTENDS Language

\* "" is a reason that is not set
NoMatch(k, cvv) == [objs |-> << >>, level |-> k, reason |-> "", last |-> FALSE, cvv |-> cvv]

last_level(words, k) == k >= Len(words) - 1

\* The objects of a level: hidden ones are expanded only to be executed; the
\* first level is without them for everything that help asks
Objects(n, best) ==
    LET visible(objs) == SelectSeq(objs, LAMBDA o : ~o.hidden)
    IN  IF n = "help" THEN visible(Level("root").objs)
        ELSE IF best THEN Level(n).objs
        ELSE visible(Level(n).objs)

(***************************************************************************)
(* match_object, co_pref and match_vec                                     *)
(***************************************************************************)
Matches(o, w, best) ==
    IF w = << >> /\ o.type # "command" THEN ~(best /\ o.type = "number") ELSE Fits(o, w)

Preference(o, w) ==
    CASE o.type = "command" -> IF w = o.word THEN 100 ELSE 3
      [] o.type = "number"  -> 48
      [] o.type = "string"  -> 6
      [] o.type = "rest"    -> 1

\* The objects that fit and are free, out of those that fit
Best(free, w, best) ==
    LET top == Max({0} \cup {Preference(o, w) : o \in ToSet(free)})
    IN  IF best THEN SelectSeq(free, LAMBDA o : Preference(o, w) = top) ELSE free

Why(objs, fit, free) ==
    IF free # << >> THEN ""
    ELSE IF fit # << >> THEN "Already matched"
    ELSE IF \E o \in ToSet(objs) : o.type # "command" THEN "Invalid value"
    ELSE ""

Among(objs, fit, free, w, best) == [objs |-> Best(free, w, best), reason |-> Why(objs, fit, free)]
Unmarked(objs, fit, taken, w, best) ==
    Among(objs, fit, SelectSeq(fit, LAMBDA o : o.id \notin taken), w, best)
match_vec(objs, taken, w, best) ==
    Unmarked(objs, SelectSeq(objs, LAMBDA o : Matches(o, w, best)), taken, w, best)

\* match_bindvars: a keyword is bound to its full name
Bound(o, words, k) ==
    [name |-> o.id,
     value |-> CASE o.type = "command" -> <<o.word>>
                 [] o.type = "rest" -> SubSeq(words, k + 1, Len(words))
                 [] OTHER -> <<words[k + 1]>>]

----------------------------------------------------------------------------
(* match_pattern_sets_local: the word of this level                        *)
Found(words, k, best, cvv, v) ==
    LET last == last_level(words, k)
        one  == Len(v.objs) = 1
        binds == v.objs # << >> /\ IF last THEN best ELSE one
    IN  [objs   |-> IF Len(v.objs) > 1 /\ ~last THEN << >> ELSE v.objs,
         level  |-> k,
         reason |-> IF Len(v.objs) > 1 /\ ~last THEN "Ambiguous command" ELSE v.reason,
         last   |-> one /\ (last \/ v.objs[1].type = "rest"),
         cvv    |-> IF binds THEN Append(cvv, Bound(v.objs[1], words, k)) ELSE cvv]

Local(words, n, taken, k, best, cvv) ==
    Found(words, k, best, cvv,
          match_vec(Objects(n, best), taken, words[k + 1], best \/ ~last_level(words, k)))

(***************************************************************************)
(* Callbacks of a reference: an object at the top of a tree that is        *)
(* referred to has those of the reference, and passes them on.             *)
(***************************************************************************)
Prepends(o, above) == o.ref # << >> /\ above # << >> /\ o.ref[1].fn = "prepend_me"

\* callbacks_merge; where an argument is put in front, the callbacks of the
\* caller are themselves changed
callbacks_merge(o, above) ==
    IF o.ref = << >> THEN above
    ELSE IF Prepends(o, above)
    THEN [above EXCEPT ![1].args = <<Head(o.ref[1].args)>> \o @]
    ELSE o.ref

\* The callbacks of the caller are those of the object, unless it has its own
\* Plausible bug: those of a reference are left to the caller
LeavesItsOwn(o, above) == TRUE
Shares(o, above) == o.ref = << >> \/ Prepends(o, above)

\* treeref_merge_co
treeref_merge_co(o, cbs) ==
    IF cbs = << >> \/ ~Level(o.below).ends THEN o
    ELSE [o EXCEPT !.fns =
            IF @ = << >> THEN cbs
            ELSE IF ~@[1].pipe
            THEN <<[@[1] EXCEPT !.fn = cbs[1].fn, !.args = @ \o cbs[1].args]>> \o Tail(@)
            ELSE @ \o cbs]

----------------------------------------------------------------------------
(***************************************************************************)
(* match_pattern_sets.  The result is mr, the objects of the level that    *)
(* are marked CO_FLAGS_MATCH, and the callbacks of the caller.             *)
(***************************************************************************)
Out(mr, taken, cbs) == [mr |-> mr, taken |-> taken, cbs |-> cbs]

\* mr_mv_reason
WithReason(mr, other) == [mr EXCEPT !.reason = IF @ = "" THEN other.reason ELSE @]

\* mr_flags_set_co_match
\* Plausible bug: the objects of a set are not marked
NotMarked(taken, o) == taken
Marked(taken, o) == taken \cup {o.id}

\* last_pt
LastPt(n, best) ==
    IF Objects(n, best) = << >> THEN 1 ELSE IF Level(n).ends THEN 2 ELSE 0

None == NoMatch(-1, << >>)

\* The state of the loop over a set: what was matched last and before, how far,
\* and what is marked, bound and called
Descended(c, k) ==
    [child |-> c.mr, previous |-> None, level |-> k, taken |-> {}, cvv |-> c.mr.cvv, cbs |-> c.cbs]
Begin(mr, k, cbs) == [Descended(Out(mr, {}, cbs), k) EXCEPT !.child = None]
Turn(s, c) == [s EXCEPT !.taken = c.taken, !.cvv = c.mr.cvv, !.cbs = c.cbs, !.child = c.mr]

\* What the match of a child, or the loop, leaves is used, or what there was
\* before it
\* Plausible bug: what the loop had matched before is not used
ChildOnly(local, s, syntax) ==
    IF s.child.objs = << >> /\ syntax = 2 THEN WithReason(local, s.child) ELSE s.child

Chosen(local, s, syntax) ==
    IF s.child.objs # << >> THEN s.child
    ELSE IF s.previous # None THEN WithReason(s.previous, s.child)
    ELSE IF syntax = 2 THEN WithReason(local, s.child)
    ELSE s.child

RECURSIVE MatchSets(_, _, _, _, _, _, _), Matched(_, _, _, _, _, _),
          Below(_, _, _, _, _), Iterate(_, _, _, _), Iterated(_, _, _, _, _),
          GoesOn(_, _, _, _, _, _, _)

Iterate(words, n, best, s) ==
    IF last_level(words, s.level) THEN s
    ELSE Iterated(words, n, best, s, MatchSets(words, n, s.taken, s.level + 1, best, s.cvv, s.cbs))

Iterated(words, n, best, s, c) ==
    IF Len(c.mr.objs) # 1 THEN Turn(s, c)
    ELSE Iterate(words, n, best, [Turn(s, c) EXCEPT !.previous = c.mr, !.level = c.mr.level])

\* What is below the object that was matched
Below(words, k, best, mr, cbs) ==
    IF Level(mr.objs[1].below).sets
    THEN Iterate(words, mr.objs[1].below, best, Begin(mr, k, cbs))
    ELSE Descended(MatchSets(words, mr.objs[1].below, {}, k + 1, best, mr.cvv, cbs), k)

Settled(o, taken, chosen, cbs) ==
    Out(chosen, IF Len(chosen.objs) = 1 THEN Marked(taken, o) ELSE taken, cbs)
Back(taken, cbs0, mr, syntax, s) ==
    Settled(mr.objs[1], taken, [Chosen(mr, s, syntax) EXCEPT !.cvv = s.cvv],
            IF Shares(mr.objs[1], cbs0) THEN s.cbs ELSE cbs0)

\* An object is matched; cbs are the callbacks for what is below it, and cbs0
\* those of the caller, as syntax tells whether the command may end here
GoesOn(words, taken, k, best, cbs0, cbs, mr) ==
    LET o      == mr.objs[1]
        syntax == LastPt(o.below, best)
        above  == IF Shares(o, cbs0) THEN cbs ELSE cbs0
    IN  IF (mr.last /\ words[k + 1] # << >>) \/ syntax = 1
        THEN Out(mr, Marked(taken, o), above)
        ELSE IF last_level(words, k) THEN Out(mr, taken, above)
        ELSE Back(taken, cbs0, mr, syntax, Below(words, k, best, mr, cbs))

Matched(words, taken, k, best, cbs0, local) ==
    IF Len(local.objs) # 1 THEN Out(local, taken, cbs0)
    ELSE LET cbs == callbacks_merge(local.objs[1], cbs0)
         IN  GoesOn(words, taken, k, best, cbs0, cbs,
                    [local EXCEPT !.objs = <<treeref_merge_co(@[1], cbs)>>])

MatchSets(words, n, taken, k, best, cvv0, cbs0) ==
    Matched(words, taken, k, best, cbs0, Local(words, n, taken, k, best, cvv0))

----------------------------------------------------------------------------
(***************************************************************************)
(* match_pattern: the match has to reach the last word, and the object     *)
(* that is executed has to end a command.                                  *)
(***************************************************************************)
Refused(mr, why) == [mr EXCEPT !.objs = << >>, !.reason = why]
Explained(mr) == IF mr.reason = "" THEN "Unknown command" ELSE mr.reason

Reaches(words, mr) ==
    last_level(words, mr.level) \/ (Len(mr.objs) = 1 /\ mr.objs[1].type = "rest")

\* mr_pt_trunc: commands that are equal are one
Collapsed(mr) ==
    IF Len(mr.objs) > 1 /\ \A o \in ToSet(mr.objs) : o.type = "command" /\ o.word = mr.objs[1].word
    THEN [mr EXCEPT !.objs = <<Head(@)>>] ELSE mr

Finished(mr, best) ==
    IF mr.objs = << >> THEN [mr EXCEPT !.reason = Explained(mr)]
    ELSE IF Len(mr.objs) = 1 /\ best /\ ~Level(mr.objs[1].below).ends
    THEN Refused(mr, "Incomplete command")
    ELSE mr

Reached(words, mr) ==
    IF Reaches(words, mr) THEN Collapsed(mr) ELSE Refused(mr, Explained(mr))

match_pattern(words, best, n) ==
    Finished(Reached(words, MatchSets(words, n, {}, 0, best, << >>, << >>).mr), best)

match_pattern_exact(words, n) == match_pattern(words, TRUE, n)

(***************************************************************************)
(* match_complete_mr: the part that all keywords have in common is added   *)
(* to the last word, and a delimiter when they are all equal.              *)
(***************************************************************************)
Keywords(mr) == {o.word : o \in {o \in ToSet(mr.objs) : o.type = "command"}}

\* How many letters keywords have in common
\* Plausible bug: how many any two of them have
OfAnyTwo(keywords) ==
    Max({j \in 0 .. Min({Len(w) : w \in keywords}) :
            \E v, w \in keywords : v # w /\ SubSeq(v, 1, j) = SubSeq(w, 1, j)} \cup
        {Len(w) : w \in {w \in keywords : keywords = {w}}})

Common(keywords) ==
    Max({j \in 0 .. Min({Len(w) : w \in keywords}) :
            \A v, w \in keywords : SubSeq(v, 1, j) = SubSeq(w, 1, j)})

Completed(words, keywords) ==
    LET word == SubSeq(CHOOSE w \in keywords : TRUE, 1, Common(keywords))
    IN  Front(words) \o <<word>> \o (IF Cardinality(keywords) = 1 THEN <<<< >>>> ELSE << >>)

CompletedWith(words, keywords) == IF keywords = {} THEN words ELSE Completed(words, keywords)
match_complete_mr(words, mr) == CompletedWith(words, Keywords(mr))
=============================================================================
