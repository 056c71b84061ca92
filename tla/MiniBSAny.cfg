CONSTANTS
    NULL = NULL
    MaxProcs = 3
    Proc = {0, 1, 2}
    NumSignals = 2
    Garbage <- MCGarbage
    Discipline = {}
SPECIFICATION Spec
INVARIANTS
    TypeOK
    WaiterIsInSwait
    ZombieNeverResumed
