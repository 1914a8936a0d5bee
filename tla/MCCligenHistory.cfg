CONSTANTS
    Char <- MCChar
    Newline <- MCNewline
    Space <- MCSpace
    Line <- MCLine
    Typed <- MCTyped
    Files <- MCFiles
    MaxLines = 3
    Null = Null
SPECIFICATION Spec
INVARIANTS
    LoadRestores
PROPERTIES
    RefinesLog
    SaveWritesLog
    FileOpEnds
