------------------------------- MODULE Values --------------------------------
(***************************************************************************)
(* What the rest of CLIgen does with values: a token is matched with the   *)
(* specification of a variable, written again and compared (Cv); variables *)
(* are put in vectors and lines are split into tokens (Cvec); texts are    *)
(* put together in a buffer (Cbuf).  The three share nothing, so one of    *)
(* them is used while the others are at rest.                              *)
(***************************************************************************)
EXTENDS Cv, Cvec, Cbuf

CONSTANTS
    Varspec,          \* specifications of variables
    Text,           \* [type -> texts that are entered for it]
    Others        \* variables that a variable is compared with

ASSUME ValuesAssumption ==
    \A cs \in Varspec : cs.vtype \in Parseable /\ cs.vtype \in DOMAIN Text

VARIABLES
    phase,          \* "idle", "matched", "reread" or "compared"
    cs, text,       \* specification and token
    got,            \* what match_variable made of it
    again,          \* what is read from the text that got is written as
    other, cmp      \* what got was compared with, and the result

valueVars == <<phase, cs, text, got, again, other, cmp>>
vars == <<valueVars, cvecVars, cbufVars>>

AtRest == /\ vec = <<>> /\ new = <<>> /\ cvt = <<>>
          /\ strlen = 0 /\ buflen = Start

Init ==
    /\ CvecInit /\ CbufInit
    /\ phase = "idle"
    /\ cs = NULL /\ text = <<>> /\ got = Invalid /\ again = Invalid
    /\ other = NULL /\ cmp = 0

\* match_variable and, when it accepts, the variable of the command
Match(c, t) ==
    /\ phase = "idle" /\ AtRest
    /\ phase' = "matched"
    /\ cs' = c /\ text' = t /\ got' = match_variable(t, c)
    /\ UNCHANGED <<again, other, cmp>>

\* cv2str, and the variable that is parsed from that
Reread ==
    /\ phase = "matched" /\ got.retval = 1
    /\ phase' = "reread"
    /\ again' = cv_parse1(cs.vtype, cs.n, cv2str(Var(cs.vtype, cs.n, got.v)))
    /\ UNCHANGED <<cs, text, got, other, cmp>>

Compare(cv) ==
    /\ phase = "matched" /\ got.retval = 1
    /\ cs.vtype \in Numbers <=> cv.type \in Numbers
    /\ cs.vtype \in Numbers \cup {"dec64"} /\ cv.n = cs.n
    /\ phase' = "compared"
    /\ other' = cv /\ cmp' = cv_cmp(Var(cs.vtype, cs.n, got.v), cv)
    /\ UNCHANGED <<cs, text, got, again>>

cv_free ==
    /\ phase # "idle"
    /\ phase' = "idle"
    /\ cs' = NULL /\ text' = <<>> /\ got' = Invalid /\ again' = Invalid
    /\ other' = NULL /\ cmp' = 0

ValueStep ==
    \/ \E c \in Varspec : \E t \in Text[c.vtype] : Match(c, t)
    \/ Reread
    \/ \E cv \in Others : Compare(cv)
    \/ cv_free

Next ==
    \/ ValueStep /\ UNCHANGED <<cvecVars, cbufVars>>
    \/ /\ phase = "idle" /\ cvt = <<>> /\ strlen = 0 /\ buflen = Start
       /\ VectorStep /\ UNCHANGED <<valueVars, split, cbufVars>>
    \/ /\ phase = "idle" /\ vec = <<>> /\ new = <<>> /\ strlen = 0 /\ buflen = Start
       /\ SplitStep /\ UNCHANGED <<valueVars, vectors, cbufVars>>
    \/ /\ phase = "idle" /\ vec = <<>> /\ new = <<>> /\ cvt = <<>>
       /\ CbufStep /\ UNCHANGED <<valueVars, cvecVars>>

Spec == Init /\ [][Next]_vars

----------------------------------------------------------------------------
(***************************************************************************)
(* What numerals mean, from the number to its writings                     *)
(***************************************************************************)
Bare(t) == LET u == Drop(t, Run(t, {" "})) IN
           IF u # <<>> /\ u[1] \in {"-", "+"} THEN Tail(u) ELSE u
Negative(t) == \E i \in DOMAIN t : t[i] = "-"
Filled(k, t) == Zeros(k) \o t

\* m is written in decimal, in octal behind a zero, or in hex behind 0x
Magnitude == 0 .. cv_max("uint64")
Decimals  == [m \in Magnitude |-> Written(m, 10, 1)]
Octals    == [m \in Magnitude |-> Written(m, 8, 1)]
Hexes     == [m \in Magnitude |-> Written(m, 16, 1)]
Writes(t, m) ==
    \/ t = Decimals[m]
    \/ \E k \in 1 .. Len(t) : t = Filled(k, Octals[m])
    \/ Begins(t, <<"0", "x">>) /\ \E k \in 0 .. Len(t) - 2 : Drop(t, 2) = Filled(k, Hexes[m])

Means(t, v) == /\ Writes(Bare(t), IF v < 0 THEN -v ELSE v)
               /\ v # 0 => (v < 0 <=> Negative(t))

\* The numbers of the type that the ranges of the specification hold
Wanted(c) == {v \in cv_min(c.vtype) .. cv_max(c.vtype) : in_range(v, c.ranges)}

\* digits, a point and at most n digits
Decimal(t) == LET b == Bare(t) IN
    /\ b # <<>> /\ b[1] \in Figures(10)
    /\ Drop(t, Len(t) - Len(b)) = b
    /\ \E k \in 1 .. Len(b) : /\ \A i \in 1 .. k : b[i] \in Figures(10)
                              /\ k < Len(b) => b[k + 1] = "."
                              /\ \A i \in k + 2 .. Len(b) : b[i] \in Figures(10)
\* Its value, as a multiple of 10^-n
Scaled(t, n) ==
    LET b == Bare(t)
        k == Run(b, Figures(10))
        f == Drop(b, k + 1)
        m == Number(SubSeq(b, 1, k), 10) * 10 ^ n + Number(f, 10) * 10 ^ (n - Len(f))
    IN  IF Negative(t) THEN -m ELSE m
Fraction(t) == Len(Drop(Bare(t), Run(Bare(t), Figures(10)) + 1))

\* A token is accepted for a number exactly if it is a writing of a number of
\* the type that is in one of the ranges, and its value is that number;
\* likewise a decimal number that has no more digits than the fraction, and a
\* mask.  The token is parsed twice, as 64 bits and as what the variable is,
\* and held against the ranges in between (match_variable).
Admitted == phase = "matched" =>
    CASE cs.vtype \in Signed ->
            /\ got.retval = 1 <=> \E v \in Wanted(cs) : Means(text, v)
            /\ got.retval = 1 => Means(text, got.v)
      [] cs.vtype \in Unsigned ->
            /\ got.retval = 1 <=> ~Negative(text) /\ \E v \in Wanted(cs) : Means(text, v)
            /\ got.retval = 1 => Means(text, got.v)
      [] cs.vtype = "dec64" -> Decimal(text) =>
            /\ got.retval = 1 <=> /\ Fraction(text) <= cs.n /\ cs.n <= MaxDigits
                                  /\ Scaled(text, cs.n) \in MinInt .. MaxInt
                                  /\ in_range(Scaled(text, cs.n), cs.ranges)
            /\ got.retval = 1 => got.v = Scaled(text, cs.n)
      [] cs.vtype = "prefix" ->
            got.retval = 1 <=> \E a \in Address, m \in 0 .. MaskLen :
                                  Begins(text, <<a, "/">>) /\ Means(Drop(text, 2), m)
      [] OTHER -> TRUE

\* "The value is printed as it would have been input, ie the reverse of
\* parsing" (cv2str): parsing what a value is written as gives the value.
\* It does not for the smallest decimal number, for a string that has a
\* backslash, and for a URL with an empty user in front of another "@".
Unprintable ==
    \/ cs.vtype = "dec64" /\ got.v = MinInt
    \/ cs.vtype = "string" /\ \E i \in DOMAIN got.v : got.v[i] = "\\"
    \/ cs.vtype = "url" /\ got.v.user = <<>> /\ got.v.passwd = <<>>
       /\ Index(got.v.addr \o got.v.path, "@") # 0
PrintedIsRead == phase = "reread" /\ ~Unprintable => again = got

\* A variable is less than another if its number is, whatever the widths of the
\* two are (cv_cmp: "<0 cv1 is less than cv2").  Not so when a number is
\* negative and the other is not or has another width, and when the difference
\* of two decimal numbers does not fit in an int.
Incomparable ==
    IF cs.vtype = "dec64" THEN got.v - other.v \notin cv_min("int") .. cv_max("int")
    ELSE /\ got.v < 0 \/ other.v < 0
         /\ ~(got.v < 0 /\ other.v < 0 /\ Width[cs.vtype] = Width[other.type])
ComparesNumbers == phase = "compared" /\ ~Incomparable => cmp = Sign(got.v - other.v)

----------------------------------------------------------------------------
\* Every string has one owner: what the members of the two vectors point to is
\* live, no two of them point to the same, and nothing live is lost.
OwnsItsStrings == ~dangling =>
    LET slots == {<<v, i, f>> \in {"vec", "new"} \X (1 .. MaxLen) \X {"name", "str"} :
                     i \in DOMAIN (IF v = "vec" THEN vec ELSE new)}
        cell(t) == (IF t[1] = "vec" THEN vec ELSE new)[t[2]][t[3]]
        used    == {t \in slots : cell(t) # NULL}
    IN  /\ {cell(t) : t \in used} = DOMAIN heap
        /\ \A t, u \in used : cell(t) = cell(u) => t = u

\* A text that is escaped when it has to be is one token of the line, and reads
\* as the text when its backslashes are taken away.  (Not if it has quotes or
\* the operator of a pipe.)
EscapedIsOneToken ==
    s = NULL /\ escaped # NULL /\ (\A i \in DOMAIN escaped : escaped[i] \notin {Quote, Operator})
    => /\ Len(cvt) = 3 /\ Len(cvr) = 3
       /\ string_remove_backslash(cvt[3]) = escaped
       /\ cvr[3] = AsToken(escaped)

\* The text and the zero behind it are inside of the memory of the buffer
BufferHolds == short \/ (zero = strlen /\ strlen < room /\ buflen = room)
=============================================================================
