SPECIFICATION Spec
CONSTANTS
    Cap = 1
    Hold = 1
    MaxOut = 3
    MaxEval = 2
    MaxFd = 3
    Faults <- AllFaults
CHECK_DEADLOCK FALSE
INVARIANTS ShowsFiltered
PROPERTIES SuccessIsComplete KeepsDescriptors EvalEnds
