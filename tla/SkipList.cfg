SPECIFICATION Spec
CONSTANTS
    Header = Header
    Footer = Footer
    NoNode = NoNode
    Keys = {1, 2, 3}
    Values = {5, 6}
    MaxPrice = 3
    MAX_LEVEL = 3
    Wild = {NoNode, Footer}
    MAX_FRAC_BITS = 2
    DOUBLE_BITS = 6
    TEXT_SIZE = 5
    Garbage = {0, 7}
    NumberTexts <- Texts
    Largest = 200
    SEED_BITS = 5
    FACTOR = 17
INVARIANTS
    ListOK
    IterationSound
    PricesExact
    HeightsDrawn
PROPERTY
    ImplementsOrderBook
CHECK_DEADLOCK FALSE
