SPECIFICATION Spec
CONSTANTS
    Word = {a, b}
    Callback = {f, g}
    TreeName = {t, u}
    MaxTokens = 8
    MaxDepth = 3
SYMMETRY Symmetry
CHECK_DEADLOCK FALSE
INVARIANTS
    AcceptsWhatIsWritten
    RunsAsWritten
