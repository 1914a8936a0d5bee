SPECIFICATION Spec
CONSTANTS
    Specs <- MCSpecs
    Words <- MCWords
    Modes <- MCModes
    MaxWords = 5
    MaxCompleted = 7
INVARIANTS
    RunsAsRead
    CalledAsWritten
    ShowsWhatFollows
PROPERTIES
    CompletionLeadsOn
    TabEnds
CHECK_DEADLOCK FALSE
