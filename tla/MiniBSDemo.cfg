CONSTANTS
    NULL = NULL
    MaxProcs = 7
    Proc = {0, 1, 2, 3, 4, 5, 6}
    NumSignals = 4
    Garbage <- MCGarbage
    Discipline = {}
SPECIFICATION DemoSpec
INVARIANTS
    KeepsObligations
    MeetingOrder
    PollingStarves
PROPERTIES
    SignalPartEnds
