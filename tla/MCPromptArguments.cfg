SPECIFICATION Spec
CONSTANTS
    Specs <- MCSpecs
    Words <- MCWords
    Modes <- MCModes
    MaxWords = 4
    MaxCompleted = 7
INVARIANTS
    ArgumentsAsTyped
CHECK_DEADLOCK FALSE
