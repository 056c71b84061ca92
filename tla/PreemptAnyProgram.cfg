CONSTANTS
    NULL = NULL
    MaxProcs = 2
    Proc = {0, 1}
    NumSignals = 1
    Garbage = {0}
    Careful = FALSE
    TickAt <- Points
    MaxDepth = 3
SPECIFICATION Spec
INVARIANTS
    TypeOK
    WaiterIsInSwait
