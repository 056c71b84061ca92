CONSTANTS
    Address = {a1, a2, a3}
    NULL = NULL
    Value = {1, 2, 3}
SPECIFICATION Spec
INVARIANTS
    NothingLeaks
    ParentsMatch
PROPERTIES
    KeepsPromise
    CallsReturn
