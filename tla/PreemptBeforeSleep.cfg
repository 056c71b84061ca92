CONSTANTS
    NULL = NULL
    MaxProcs = 3
    Proc = {0, 1, 2}
    NumSignals = 1
    Garbage = {0}
    Careful = TRUE
    TickAt <- BeforeSleep
    MaxDepth = 2
SPECIFICATION Spec
INVARIANT WaitpidNotForgotten
