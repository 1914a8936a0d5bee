SPECIFICATION Spec
CONSTANTS
    Prompt <- MCPrompt
    Yanked <- MCYanked
    Recallable <- MCRecallable
    Typed = {"x"}
    MaxSearch = 2
    MaxLine = 24
    Windows <- MCWindows
    MinWidth = 21
    Paging = TRUE
    Chunks <- MCChunks
    Fd = {f1, f2}
    Callback = {c1, c2}
    Stdin = stdin
    MaxEvents = 20
INVARIANTS ScreenShowsLine PageFits AllIsShown WaitsForWanted
CHECK_DEADLOCK FALSE
SYMMETRY Symmetry
