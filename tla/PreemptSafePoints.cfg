CONSTANTS
    NULL = NULL
    MaxProcs = 3
    Proc = {0, 1, 2}
    NumSignals = 2
    Garbage = {0}
    Careful = TRUE
    TickAt <- SafePoints
    MaxDepth = 2
SPECIFICATION Spec
INVARIANTS
    NoProcessLost
    WaitpidNotForgotten
    SwaitNotForgotten
    ZombieNeverResumed
