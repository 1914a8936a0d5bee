-------------------------------- MODULE Cvec ---------------------------------
(***************************************************************************)
(* Vectors of variables and the strings their members own (cligen_cvec.c,  *)
(* cv_cp and cv_reset of cligen_cv.c), and the split of a command line     *)
(* into two vectors: the tokens, and what is left of the line at each.     *)
(*                                                                         *)
(* A string is a cell of the heap.  The members of a vector lie in one     *)
(* block and are named by their index; nothing of the library keeps a      *)
(* pointer to a member over a call that may move the block.                *)
(***************************************************************************)
EXTENDS Integers, Sequences, FiniteSets, SequencesExt

CONSTANTS
    Cell,           \* strings in memory
    Said,           \* what strings say
    MaxLen,         \* bound: members of a vector
    Failing,        \* calls in which memory may run out: "set", "add", "copy"
    Line,           \* texts that the application escapes and puts in a line
    NULL

ASSUME CvecAssumption == NULL \notin Cell /\ MaxLen \in Nat

VARIABLES
    heap,           \* [live cells -> what they say]
    vec, new,       \* the vector of the command, and the one of its callback
    dangling,       \* a failed copy has freed strings of the original
    escaped,        \* text that is in the line, or NULL
    s,              \* what is left of the line, or NULL
    cvt, cvr        \* tokens and rests so far

vectors == <<heap, vec, new, dangling>>
split   == <<escaped, s, cvt, cvr>>
cvecVars == <<vectors, split>>

----------------------------------------------------------------------------
(***************************************************************************)
(* Members and their strings                                               *)
(***************************************************************************)
Member(t, const) == [type |-> t, const |-> const, name |-> NULL, str |-> NULL]
Owned(cv)  == {cv.name, cv.str} \ {NULL}
OwnedBy(v) == UNION {Owned(v[i]) : i \in DOMAIN v}
Blank(cv)  == [cv EXCEPT !.name = NULL, !.str = NULL]
Free(h, cells) == [c \in DOMAIN h \ cells |-> h[c]]
Fresh(h)   == CHOOSE c \in Cell \ DOMAIN h : TRUE
Room(n)    == Cardinality(Cell \ DOMAIN heap) >= n          \* bound

\* strdup: NULL if p is
Strdup(h, p) == IF p = NULL THEN [heap |-> h, p |-> NULL]
                ELSE [heap |-> h @@ (Fresh(h) :> h[p]), p |-> Fresh(h)]

\* Member cv, copied after its name and its string; when memory runs out in
\* one of the two calls the copy still points to what the original owns
cv_cp(h, cv) ==
    LET name == Strdup(h, cv.name)
        str  == Strdup(name.heap, cv.str)
    IN  [heap |-> str.heap, cv |-> [cv EXCEPT !.name = name.p, !.str = str.p]]

cvec_dup(h, v) ==
    FoldLeft(LAMBDA a, cv : [heap |-> cv_cp(a.heap, cv).heap,
                             v    |-> Append(a.v, cv_cp(a.heap, cv).cv)],
             [heap |-> h, v |-> <<>>], v)

\* Plausible bug: the keywords are not reset
KeepsStrings(h, v) ==
    [heap |-> h, v |-> FoldLeft(LAMBDA a, i : IF i > 1 /\ v[i].const THEN a ELSE Append(a, v[i]),
                                <<>>, [i \in 1 .. Len(v) |-> i])]

\* The vector without its keywords: they are reset and the others move down
cvec_exclude_keys(h, v) ==
    [heap |-> Free(h, UNION {Owned(v[i]) : i \in {k \in 2 .. Len(v) : v[k].const}}),
     v    |-> FoldLeft(LAMBDA a, i : IF i > 1 /\ v[i].const THEN a ELSE Append(a, v[i]),
                       <<>>, [i \in 1 .. Len(v) |-> i])]

\* The string of the first member becomes that of the command in full
cvec_expand_first(h, v) ==
    [heap |-> Free(h @@ (Fresh(h) :> "expanded"), {v[1].str}),
     v    |-> [v EXCEPT ![1].str = Fresh(h)]]

----------------------------------------------------------------------------
(***************************************************************************)
(* The split of a line (next_token, cligen_str2cvv)                        *)
(***************************************************************************)
Delimiter == " "
Quote     == "\""
Operator  == "|"
From(l, n) == SubSeq(l, n + 1, Len(l))
At(l, n)   == IF n < Len(l) THEN l[n + 1] ELSE "end"
\* Where the first of some characters is, or the end
Skip(l, n, stops) == CHOOSE k \in n .. Len(l) :
                        /\ \A j \in n .. k - 1 : At(l, j) \notin stops
                        /\ k = Len(l) \/ At(l, k) \in stops

\* Positions of l that a backslash before them takes the meaning from
Escaped(l, n) ==
    LET Scan(a, i) == IF a.on THEN [on |-> FALSE, at |-> a.at \cup {i}]
                      ELSE [a EXCEPT !.on = l[i + 1] = "\\"]
    IN  FoldLeft(Scan, [on |-> FALSE, at |-> {}], [i \in 1 .. Len(l) - n |-> n + i - 1]).at

EndOfWord(l, n) == CHOOSE k \in n .. Len(l) :
    LET Ends(j) == At(l, j) \in {Delimiter, Operator} /\ j \notin Escaped(l, n)
    IN  /\ \A j \in n .. k - 1 : ~Ends(j)
        /\ k = Len(l) \/ Ends(k)

\* A token from st on, in quotes or not, that ends at end, behind the blanks
Token(l, leading, quote, st, end) ==
    LET closed == quote /\ end < Len(l)
        first  == IF quote /\ ~closed THEN st - 1 ELSE st
        none   == ~closed /\ end = first
    IN  [token   |-> IF none THEN NULL ELSE SubSeq(l, first + 1, end),
         rest    |-> From(l, leading),
         s       |-> IF none THEN NULL ELSE From(l, IF closed THEN end + 1 ELSE end),
         leading |-> leading]

TokenFrom(l, leading, quote, st) ==
    Token(l, leading, quote, st,
          IF At(l, st) = Operator THEN st + 1
          ELSE IF quote THEN Skip(l, st, {Quote})
          ELSE EndOfWord(l, st))

TokenBehind(l, n) ==
    IF At(l, n) = Quote THEN TokenFrom(l, n, TRUE, n + 1) ELSE TokenFrom(l, n, FALSE, n)

next_token(l) == TokenBehind(l, Skip(l, 0, ToSet(l) \ {Delimiter}))

\* Quotes around a text that has a blank, a question mark or a backslash
Special == {"?", "\\", " "}
cligen_escape_need(t) ==
    /\ \E i \in DOMAIN t : t[i] \in Special
    /\ ~(Len(t) > 1 /\ t[1] = Quote /\ Last(t) = Quote)
\* A plausible bug: backslashes of the text are left as they are
QuotesOnly(t) ==
    <<Quote>> \o FoldLeft(LAMBDA a, c : a \o (IF c = "?" THEN <<"\\", c>> ELSE <<c>>),
                          <<>>, t) \o <<Quote>>
cligen_escape_do(t) ==
    <<Quote>> \o FoldLeft(LAMBDA a, c : a \o (IF c \in {"?", "\\"} THEN <<"\\", c>> ELSE <<c>>),
                          <<>>, t) \o <<Quote>>
AsToken(t) == IF cligen_escape_need(t) THEN cligen_escape_do(t) ELSE t

----------------------------------------------------------------------------
CvecInit ==
    /\ heap = <<>> /\ vec = <<>> /\ new = <<>> /\ dangling = FALSE
    /\ escaped = NULL /\ s = NULL /\ cvt = <<>> /\ cvr = <<>>

\* cvec_add: the member is all zero but for its type
Add(t, const) ==
    /\ Len(vec) < MaxLen
    /\ vec' = Append(vec, Member(t, const))
    /\ UNCHANGED <<heap, new, dangling>>

\* cvec_append_var: add, then cv_cp from a member of the other vector; when
\* the copy fails the new member is deleted with all that it points to
AppendVar(i) ==
    /\ Len(vec) < MaxLen /\ Room(2)
    /\ \/ /\ vec' = Append(vec, cv_cp(heap, new[i]).cv)
          /\ heap' = cv_cp(heap, new[i]).heap
          /\ UNCHANGED dangling
       \/ /\ "copy" \in Failing /\ new[i].name # NULL      \* no name
          /\ heap' = Free(heap, {new[i].str})
          /\ dangling' = (new[i].str # NULL)
          /\ UNCHANGED vec
       \/ /\ "copy" \in Failing /\ new[i].str # NULL       \* no string
          /\ UNCHANGED <<heap, vec, dangling>>
    /\ UNCHANGED new

\* cv_name_set, cv_string_set: the new string is made before the old one,
\* that it may be a part of, is freed
Set(field, i, what) ==
    /\ Room(1)
    /\ field = "str" => vec[i].type = "string"
    /\ \/ /\ heap' = Free(heap @@ (Fresh(heap) :> what), {vec[i][field]})
          /\ vec' = [vec EXCEPT ![i][field] = Fresh(heap)]
       \/ "set" \in Failing /\ UNCHANGED <<heap, vec>>
    /\ UNCHANGED <<new, dangling>>

\* cvec_del: the member is reset and the others move down
Del(i) ==
    /\ heap' = Free(heap, Owned(vec[i]))
    /\ vec' = RemoveAt(vec, i)
    /\ UNCHANGED <<new, dangling>>

\* What the callers of cvec_del_i do: cv_reset first, as it frees nothing
Truncate ==
    /\ vec # <<>>
    /\ heap' = Free(heap, Owned(Last(vec)))
    /\ vec' = Front(vec)
    /\ UNCHANGED <<new, dangling>>

\* cligen_eval: the callback gets a copy, with the command in full and
\* without the keywords if the application asks for that
Arguments(expand, exclude) ==
    /\ vec # <<>> /\ new = <<>>
    /\ Room(Cardinality(OwnedBy(vec)) + IF expand THEN 1 ELSE 0)
    /\ expand => vec[1].type = "string"
    /\ LET dup  == cvec_dup(heap, vec)
           full == IF expand THEN cvec_expand_first(dup.heap, dup.v) ELSE dup
           args == IF exclude THEN cvec_exclude_keys(full.heap, full.v) ELSE full
       IN  heap' = args.heap /\ new' = args.v
    /\ UNCHANGED <<vec, dangling>>

\* cvec_free when the callback has returned, and of the vector of the command
ResetNew ==
    /\ new # <<>>
    /\ heap' = Free(heap, OwnedBy(new)) /\ new' = <<>>
    /\ UNCHANGED <<vec, dangling>>
Reset ==
    /\ vec # <<>>
    /\ heap' = Free(heap, OwnedBy(vec)) /\ vec' = <<>>
    /\ UNCHANGED <<new, dangling>>

VectorStep ==
    /\ ~dangling
    /\ \/ \E t \in {"string", "int"}, const \in BOOLEAN : Add(t, const)
       \/ \E i \in DOMAIN new : AppendVar(i)
       \/ \E i \in DOMAIN vec, f \in {"name", "str"}, w \in Said : Set(f, i, w)
       \/ \E i \in DOMAIN vec : Del(i)
       \/ Truncate
       \/ \E expand, exclude \in BOOLEAN : Arguments(expand, exclude)
       \/ ResetNew
       \/ Reset

----------------------------------------------------------------------------
\* The line of which a text, escaped if it has to be, is the second word
Enter(t) ==
    /\ s = NULL /\ cvt = <<>>
    /\ escaped' = t
    /\ s' = <<"w", " ">> \o AsToken(t)
    /\ cvt' = <<s'>> /\ cvr' = <<s'>>

\* One turn of the loop.  Nothing found ends it, but an empty token is kept
\* when the line is empty or ends in blanks
Taken(n) ==
    /\ s' = n.s
    /\ IF n.token = NULL /\ n.leading = 0 /\ Len(cvt) > 1
       THEN UNCHANGED <<cvt, cvr>>
       ELSE /\ cvt' = Append(cvt, IF n.token = NULL THEN <<>> ELSE n.token)
            /\ cvr' = Append(cvr, n.rest)
Turn == s # NULL /\ Taken(next_token(s)) /\ UNCHANGED escaped

\* The vectors are freed
EndOfLine ==
    /\ s = NULL /\ cvt # <<>>
    /\ escaped' = NULL /\ cvt' = <<>> /\ cvr' = <<>>
    /\ UNCHANGED s

SplitStep == (\E t \in Line : Enter(t)) \/ Turn \/ EndOfLine
=============================================================================
