SPECIFICATION Spec
CONSTANTS
    Main = Main
    Sub = Sub
    Data = Data
    Pipe = Pipe
    Tree = {Main, Sub, Data, Pipe}
    Unknown = None
    Object <- MCObject
    Written <- MCWritten
    Barred = {8}
    Wrapper <- MCWrapper
    MaxLevel = 3
    Strict = "strict"
    NULL = NULL
INVARIANTS
    LevelComplete
    NothingLost
    WorkpointStands
CHECK_DEADLOCK FALSE
PROPERTY
    ExpansionEnds
