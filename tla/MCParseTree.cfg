SPECIFICATION Spec
CONSTANTS
    Object <- Objects
    MaxLen = 4
    NULL = NULL
INVARIANTS LevelSorted AliasFindsItself WrittenStays
