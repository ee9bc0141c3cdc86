SPECIFICATION Spec
CONSTANTS
    Header = Header
    Footer = Footer
    NoNode = NoNode
    Keys = {0, 1, 2}
    Values = {5}
    MaxPrice = 2
    MAX_LEVEL = 3
    Wild = {NoNode, Footer}
PROPERTY
    RemoveMissingFails
CHECK_DEADLOCK FALSE
