CONSTANTS
    Client = {c1, c2}
    NoClient = NoClient
    Hour = {0, 23}
    Garbage <- MCGarbage
    MaxPending = 1
    Pieces = 2
SPECIFICATION Spec
INVARIANTS
    TypeOK
    AnswersAreOwn
PROPERTIES
    ServerFailsOnlyOnServed
    EveryClientServed
    DeadClientReleased
