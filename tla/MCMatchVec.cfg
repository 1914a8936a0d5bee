SPECIFICATION Spec
CONSTANTS
    Object <- Objects
    MaxLen = 3
    None = None
    Already = Already
    Ambiguous = Ambiguous
CHECK_DEADLOCK FALSE
INVARIANTS LoopFindsBest ReasonExplains ResolvesUnique
