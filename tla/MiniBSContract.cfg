CONSTANTS
    NULL = NULL
    MaxProcs = 4
    Proc = {0, 1, 2, 3}
    NumSignals = 2
    Garbage = {0}
    Discipline = {"signal", "free", "waitpid", "alone", "exit"}
SPECIFICATION Spec
INVARIANTS
    QueuesWellFormed
    NoProcessLost
    WaitpidNotForgotten
    SwaitNotForgotten
    EndsWhenNothingRunnable
PROPERTIES
    KeepsPromise
