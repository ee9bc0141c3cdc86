SPECIFICATION AllSpec
CONSTANTS
    Scripts = {s1, s2}
    Texts = {a, b}
    Args <- OneString
    Asked = {"string", "int64"}
    Calls = {c1, c2}
    Vcpus = 2
    MaxBlocks = 4
    Capacity = 2
    MaxKeys = 2
    Names = {"n"}
    Values = {"v"}
    Verbs = {"GET", "POST"}
    PoolSize = 1
    BodyLengths = {0, 2}
    ResLength = 1
    Programs <- ThreePrograms
    Letters = {"https", "h"}
    Digits = {"7"}
    Secure = {"https"}
    MaxPieces = 5
    a = a
    b = b
    s1 = s1
    s2 = s2
    c1 = c1
    c2 = c2
SYMMETRY Symmetry
INVARIANTS
    OwnedOnce
    PointersHold
    OwnRequest
    
PROPERTY ImplementsChannel
CHECK_DEADLOCK FALSE
