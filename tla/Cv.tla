--------------------------------- MODULE Cv ----------------------------------
(***************************************************************************)
(* CLIgen variables (cligen_cv.c): how a token of the command line becomes *)
(* a typed value (cv_parse1), how the value is held against the bounds of  *)
(* the specification (cv_validate), written again (cv2str) and compared    *)
(* (cv_cmp).                                                               *)
(*                                                                         *)
(* A text is a sequence of symbols: the characters that the conversions    *)
(* look at, and words that stand for what they pass on as it is.  The      *)
(* widths of the machine's integers are constants: what matters of them is *)
(* that each has a smallest and a largest value.                           *)
(***************************************************************************)
EXTENDS Integers, Sequences, SequencesExt

CONSTANTS
    Width,          \* bits of "int8" .. "uint64", of "int" and of "int64"
    Address,        \* words that inet_pton reads
    MaskLen,        \* longest mask of a prefix: 32 or 128
    MaxDigits,      \* most fraction-digits of a decimal64: 18
    MacGroups,      \* figures between the colons of an address: six times 2
    UuidGroups,     \* figures between the dashes of a uuid: 8, 4, 4, 4, 12
    UsecDigits      \* digits of the fraction of a second: 6

Signed    == {"int8", "int16", "int32", "int64"}
Unsigned  == {"uint8", "uint16", "uint32", "uint64"}
Numbers   == Signed \cup Unsigned
Parseable == Numbers \cup {"dec64", "bool", "string", "prefix", "url", "time",
                          "macaddr", "uuid"}

cv_max(t) == IF t \in Unsigned THEN 2 ^ Width[t] - 1 ELSE 2 ^ (Width[t] - 1) - 1
cv_min(t) == IF t \in Unsigned THEN 0 ELSE -(2 ^ (Width[t] - 1))
MaxInt == cv_max("int64")
MinInt == cv_min("int64")

ASSUME CvAssumption ==
    /\ \A t \in Numbers \cup {"int"} : Width[t] \in Nat \ {0}
    /\ {MaskLen, MaxDigits, UsecDigits} \subseteq Nat \ {0}

\* What cv_parse1 returns: 1 and the value, or 0 and a reason
OK(v)   == [retval |-> 1, v |-> v]
Invalid == [retval |-> 0, v |-> "none"]

\* A variable: its type, the fraction-digits of a decimal64, and its value
Var(t, n, v) == [type |-> t, n |-> n, v |-> v]

----------------------------------------------------------------------------
(***************************************************************************)
(* strtoll and strtoull: blanks, a sign, with base 0 a prefix that selects *)
(* base 8 or 16, digits; "all" says that nothing is left of the text       *)
(***************************************************************************)
Figure   == <<"0","1","2","3","4","5","6","7","8","9","a","b","c","d","e","f">>
Value    == [f \in {Figure[i] : i \in 1 .. 16} |-> (CHOOSE i \in 1 .. 16 : Figure[i] = f) - 1]
Base == [b \in {8, 10, 16} |-> {f \in DOMAIN Value : Value[f] < b}]
Figures(base) == Base[base]
Drop(s, n)    == SubSeq(s, n + 1, Len(s))
Begins(s, p)  == Len(p) <= Len(s) /\ SubSeq(s, 1, Len(p)) = p
\* How many symbols at the beginning of s are in C
Run(s, C) == CHOOSE n \in 0 .. Len(s) :
                /\ \A i \in 1 .. n : s[i] \in C
                /\ n < Len(s) => s[n + 1] \notin C
\* Where c is in s for the first time, or 0 (strchr)
Index(s, c) == IF \A i \in 1 .. Len(s) : s[i] # c THEN 0
               ELSE CHOOSE i \in 1 .. Len(s) : s[i] = c /\ \A j \in 1 .. i - 1 : s[j] # c
Number(s, base) == FoldLeft(LAMBDA n, f : n * base + Value[f], 0, s)

\* A sign, the symbols of the digits, their base
Read(neg, digits, b) ==
    LET n == Run(digits, Figures(b))
    IN  [neg |-> neg, mag |-> Number(SubSeq(digits, 1, n), b), all |-> n > 0 /\ n = Len(digits)]

ReadBody(neg, body, base) ==
    IF base # 0 THEN Read(neg, body, base)
    ELSE IF Begins(body, <<"0", "x">>) /\ Len(body) > 2 /\ body[3] \in Figures(16)
         THEN Read(neg, Drop(body, 2), 16)
         ELSE Read(neg, body, IF Begins(body, <<"0">>) THEN 8 ELSE 10)

ReadSigned(line, base) ==
    IF line # <<>> /\ line[1] \in {"-", "+"} THEN ReadBody(line[1] = "-", Tail(line), base)
    ELSE ReadBody(FALSE, line, base)

strto(s, base) == ReadSigned(Drop(s, Run(s, {" "})), base)

\* Beyond 64 bits the functions stop at the limit and set errno to ERANGE
Limited(all, i, imin, imax) ==
    IF ~all \/ i < MinInt \/ i > MaxInt \/ i < imin \/ i > imax THEN Invalid ELSE OK(i)
LimitedInt(r, imin, imax) == Limited(r.all, IF r.neg THEN -r.mag ELSE r.mag, imin, imax)
parse_int64_base(s, base, imin, imax) == LimitedInt(strto(s, base), imin, imax)

\* strtoull takes a minus sign and returns the negated value
LimitedUint(r, s, umax) ==
    LET u == IF r.neg THEN (-r.mag) % 2 ^ Width["uint64"] ELSE r.mag
    IN  IF ~r.all \/ r.mag > cv_max("uint64") \/ u > umax \/ Index(s, "-") # 0 THEN Invalid
        ELSE OK(u)
parse_uint64_base(s, base, umax) == LimitedUint(strto(s, base), s, umax)

parse_number(t, s) ==
    IF t \in Signed THEN parse_int64_base(s, 0, cv_min(t), cv_max(t))
    ELSE parse_uint64_base(s, 0, cv_max(t))

----------------------------------------------------------------------------
(***************************************************************************)
(* Decimal numbers: i * 10^-n.  The digits on both sides of the point are  *)
(* put together, filled with zeros and read as one number.                 *)
(***************************************************************************)
Zeros(k) == [i \in 1 .. k |-> "0"]
Padded(whole, fraction, n) == whole \o fraction \o Zeros(n - Len(fraction))

parse_dec64(s, n) ==
    LET dot == Index(s, ".")
        s1  == IF dot = 0 THEN s ELSE SubSeq(s, 1, dot - 1)
        s2  == IF dot = 0 THEN <<>> ELSE Drop(s, dot)
    IN  IF n \notin 1 .. MaxDigits \/ Len(s2) > n THEN Invalid
        ELSE parse_int64_base(Padded(s1, s2, n), 10, MinInt, MaxInt)

\* The digits of m, at least w of them (%0*d)
Written(m, base, w) ==
    LET len == CHOOSE k \in 1 .. 20 :
                  /\ k >= w /\ m < base ^ k
                  /\ (k > w /\ k > 1) => m >= base ^ (k - 1)
    IN  [i \in 1 .. len |-> Figure[((m \div base ^ (len - i)) % base) + 1]]

Minus(neg, s) == IF neg THEN <<"-">> \o s ELSE s
Wrapped(t, i) == ((i - cv_min(t)) % 2 ^ Width[t]) + cv_min(t)

\* The smallest value has no opposite: -di is the same value again, and is
\* written with its own sign
cv_dec64_print(i, n) ==
    LET di == IF i < 0 THEN Wrapped("int64", -i) ELSE i
        s  == IF di < 0 THEN <<"-">> \o Written(-di, 10, n) ELSE Written(di, 10, n + 1)
    IN  Minus(i < 0, SubSeq(s, 1, Len(s) - n) \o <<".">> \o Drop(s, Len(s) - n))

----------------------------------------------------------------------------
(***************************************************************************)
(* The other types                                                         *)
(***************************************************************************)
True  == {"true", "on", "enable"}
False == {"false", "off", "disable"}
parse_bool(s) ==
    IF Len(s) = 1 /\ s[1] \in True \cup False THEN OK(s[1] \in True) ELSE Invalid

inet_pton(s) == Len(s) = 1 /\ s[1] \in Address

\* <address>/<length of the mask>
Prefix(addr, mask) ==
    IF mask.retval = 0 THEN Invalid
    ELSE IF mask.v \notin 0 .. MaskLen \/ ~inet_pton(addr) THEN Invalid
    ELSE OK([addr |-> addr, mask |-> mask.v])
parse_prefix(s) ==
    IF Index(s, "/") = 0 THEN Invalid
    ELSE Prefix(SubSeq(s, 1, Index(s, "/") - 1),
                parse_int64_base(Drop(s, Index(s, "/")), 0, cv_min("int32"), cv_max("int32")))

\* <proto>://[<user>[:<passwd>]@]<addr>[/<path>]
parse_url(s) ==
    LET colon == Index(s, ":")
        rest  == Drop(s, colon + 2)
        at    == Index(rest, "@")
        login == SubSeq(rest, 1, at - 1)
        sep   == Index(login, ":")
        host  == Drop(rest, at)
        slash == Index(host, "/")
    IN  IF colon = 0 \/ ~Begins(Drop(s, colon - 1), <<":", "/", "/">>) THEN Invalid
        ELSE OK([proto  |-> SubSeq(s, 1, colon - 1),
                 user   |-> IF sep = 0 THEN login ELSE SubSeq(login, 1, sep - 1),
                 passwd |-> IF sep = 0 THEN <<>> ELSE Drop(login, sep),
                 addr   |-> IF slash = 0 THEN host ELSE SubSeq(host, 1, slash - 1),
                 path   |-> IF slash = 0 THEN <<>> ELSE Drop(host, slash)])

print_url(u) ==
    u.proto \o <<":", "/", "/">> \o u.user
    \o (IF u.passwd = <<>> THEN <<>> ELSE <<":">>) \o u.passwd
    \o (IF u.user = <<>> /\ u.passwd = <<>> THEN <<>> ELSE <<"@">>)
    \o u.addr \o <<"/">> \o u.path

\* Hexadecimal figures in groups of given lengths with c between them
Grouped(s, groups, c) ==
    LET End(k) == FoldLeft(LAMBDA a, g : a + g + 1, 0, SubSeq(groups, 1, k))
        ends   == {End(k) : k \in 1 .. Len(groups)}
    IN  /\ Len(s) = End(Len(groups)) - 1
        /\ \A i \in DOMAIN s : IF i \in ends THEN s[i] = c ELSE s[i] \in Figures(16)
parse_macaddr(s) == IF Grouped(s, MacGroups, ":") THEN OK(s) ELSE Invalid
str2uuid(s)      == IF Grouped(s, UuidGroups, "-") THEN OK(s) ELSE Invalid

\* A time: the word "T" for the fields up to the seconds, a fraction, a zone
\* of which only the first character is looked at
str2time(s) ==
    LET dotted == Len(s) > 1 /\ s[2] = "."
        digits == Run(Drop(s, 2), Figures(10))
        len    == IF digits > UsecDigits THEN UsecDigits ELSE digits
        zone   == Drop(s, IF dotted THEN 2 + len ELSE 1)
        usec   == Number(SubSeq(s, 3, 2 + len), 10) * 10 ^ (UsecDigits - len)
    IN  IF \/ ~Begins(s, <<"T">>)
           \/ dotted /\ len < 1
           \/ ~(zone \in {<<>>, <<"Z">>} \/ zone[1] \in {"+", "-"})
        THEN Invalid ELSE OK(IF dotted THEN usec ELSE 0)

\* A plausible bug: the fraction is written without its leading zeros
Unpadded(usec) == <<"T", ".">> \o Written(usec, 10, 1) \o <<"Z">>

time2str(usec) == <<"T", ".">> \o Written(usec, 10, UsecDigits) \o <<"Z">>

\* A backslash goes, and what follows it stays whatever it is
string_remove_backslash(s) ==
    FoldLeft(LAMBDA a, c : IF ~a.escape /\ c = "\\" THEN [a EXCEPT !.escape = TRUE]
                           ELSE [out |-> Append(a.out, c), escape |-> FALSE],
             [out |-> <<>>, escape |-> FALSE], s).out

cv_parse1(t, n, s) ==
    CASE t \in Numbers  -> parse_number(t, s)
      [] t = "dec64"    -> parse_dec64(s, n)
      [] t = "bool"     -> parse_bool(s)
      [] t = "string"   -> OK(string_remove_backslash(s))
      [] t = "prefix"   -> parse_prefix(s)
      [] t = "url"      -> parse_url(s)
      [] t = "time"     -> str2time(s)
      [] t = "macaddr"  -> parse_macaddr(s)
      [] t = "uuid"     -> str2uuid(s)
      [] OTHER          -> Invalid

cv2str(cv) ==
    CASE cv.type \in Numbers  -> Minus(cv.v < 0, Written(IF cv.v < 0 THEN -cv.v ELSE cv.v, 10, 1))
      [] cv.type = "dec64"    -> cv_dec64_print(cv.v, cv.n)
      [] cv.type = "bool"     -> <<IF cv.v THEN "true" ELSE "false">>
      [] cv.type = "string"   -> cv.v
      [] cv.type = "prefix"   -> cv.v.addr \o <<"/">> \o Written(cv.v.mask, 10, 1)
      [] cv.type = "url"      -> print_url(cv.v)
      [] cv.type = "time"     -> time2str(cv.v)
      [] cv.type \in {"macaddr", "uuid"} -> cv.v

----------------------------------------------------------------------------
(***************************************************************************)
(* cv_validate.  A specification cs has a type, ranges, one of which must  *)
(* hold the value or the length of the string; fraction-digits; and        *)
(* patterns, all of which must match.  The variable may be of a wider type *)
(* than cs: the value is what the member of the union for the type of cs   *)
(* shows of it.                                                            *)
(***************************************************************************)
in_range(i, ranges) ==
    \/ ranges = <<>>
    \/ \E j \in DOMAIN ranges : ranges[j][1] <= i /\ i <= ranges[j][2]

match_regexp(s, regex) == (s \in regex.matches) # regex.invert

cv_validate(cv, cs) ==
    CASE cs.vtype \in Numbers -> in_range(Wrapped(cs.vtype, cv.v), cs.ranges)
      [] cs.vtype = "dec64"   -> cv.n = cs.n /\ in_range(cv.v, cs.ranges)
      [] cs.vtype = "string"  -> /\ \A i \in DOMAIN cs.regex : match_regexp(cv.v, cs.regex[i])
                                 /\ in_range(Len(cv.v), cs.ranges)
      [] OTHER                -> TRUE

(***************************************************************************)
(* match_variable: an integer is parsed as the widest of its kind, held    *)
(* against the ranges, and parsed again as what it is to be                *)
(***************************************************************************)
Widest(t) == IF t \in Signed THEN "int64" ELSE IF t \in Unsigned THEN "uint64" ELSE t

Accepted(wide, cs) == wide.retval = 1 /\ cv_validate(Var(Widest(cs.vtype), cs.n, wide.v), cs)

\* A plausible bug: the value is not parsed again as what it is to be
ParsedOnce(wide, s, cs) == IF Accepted(wide, cs) THEN wide ELSE Invalid

Narrowed(wide, s, cs) ==
    IF ~Accepted(wide, cs) THEN Invalid
    ELSE IF Widest(cs.vtype) # cs.vtype THEN cv_parse1(cs.vtype, cs.n, s) ELSE wide

match_variable(s, cs) == Narrowed(cv_parse1(Widest(cs.vtype), cs.n, s), s, cs)

----------------------------------------------------------------------------
(***************************************************************************)
(* cv_cmp.  Every case of the switch in cv_to_int64 falls through to the   *)
(* last one, so an integer is what var_uint64 makes of the bits it has.    *)
(***************************************************************************)
Sign(i) == IF i < 0 THEN -1 ELSE IF i > 0 THEN 1 ELSE 0

cv_to_int64(cv) == cv.v % 2 ^ Width[cv.type]
\* Plausible bug: the difference, as an int
Difference(cv1, cv2) == Sign(Wrapped("int", cv_to_int64(cv1) - cv_to_int64(cv2)))
cv_cmp_ints(cv1, cv2) == Sign(cv_to_int64(cv1) - cv_to_int64(cv2))

\* The difference of two decimals has 64 bits and the result those of an int
cv_cmp_dec64(cv1, cv2) == Sign(Wrapped("int", cv1.v - cv2.v))

cv_cmp(cv1, cv2) ==
    IF cv1.type \in Numbers /\ cv2.type \in Numbers THEN cv_cmp_ints(cv1, cv2)
    ELSE cv_cmp_dec64(cv1, cv2)
=============================================================================
