CONSTANTS
    Obj = {o1, o2}
    NULL = NULL
    InitialSize = 2
    MaxElements = 4
SPECIFICATION Spec
INVARIANTS TypeOK RingInv
PROPERTY FifoRefinement
