CONSTANTS
    NULL = NULL
    MaxProcs = 7
    Proc = {0, 1, 2, 3, 4, 5, 6}
    NumSignals = 4
    Garbage = {0}
    Careful = FALSE
    TickAt <- SafePoints
    MaxDepth = 2
SPECIFICATION DemoSpec
INVARIANTS
    PollingOrder
PROPERTIES
    DemoEndsUnlessHarmed
