CONSTANTS
    Proc = {p1, p2, p3, p4}
    NULL = NULL
SPECIFICATION Spec
PROPERTY ImplementsFifo
