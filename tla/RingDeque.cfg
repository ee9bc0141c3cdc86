SPECIFICATION RingSpec
CONSTANTS
    Capacity = 3
    Elem = {1, 2}
    Filler = 1
INVARIANT RingOK
PROPERTY ImplementsDeque
