SPECIFICATION Spec
CONSTANTS
    Docs = {d1, d2}
    Authored = {d1}
    Buffers <- Strings
    ValueBuffers = {"k1"}
    Texts = {"a", "b"}
    StartText <- Start
    Scalars = {"uint"}
    Numbers = {"uint16"}
    MaxVals = 6
    MaxLoose = 1
    MaxSpoils = 1
    d1 = d1
    d2 = d2
INVARIANT WellLinked
PROPERTIES
    ImplementsTree
    OthersUntouched
    CopiesAreEqual
    RemovesWhatIsFound
CHECK_DEADLOCK FALSE
