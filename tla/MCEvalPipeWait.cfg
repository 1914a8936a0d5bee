SPECIFICATION Spec
CONSTANTS
    Cap = 1
    Hold = 1
    MaxOut = 4
    MaxEval = 1
    MaxFd = 2
    Faults <- NoFaults
CHECK_DEADLOCK FALSE
PROPERTIES EvalEnds
