SPECIFICATION Spec
CONSTANTS
    a = a
    b = b
    sp = sp
    nl = nl
    Char <- Chars
    Newline = nl
    Space = sp
    Null = Null
    BufLen = 3
    MaxLen = 3
    Line <- Lines
    FileLine <- FileLines
    HistLines = 2
    SearchLen = 3
CONSTRAINT Regime
INVARIANTS CursorAtKey BuffersFit SearchShowsMatch SearchFindsNewest
PROPERTY SearchEnds
