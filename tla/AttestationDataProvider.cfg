SPECIFICATION Spec
CONSTANTS
    h1 = h1
    h2 = h2
    h3 = h3
    b1 = b1
    good = good
    bad = bad
    c1 = c1
    c2 = c2
    Host = {h1, h2, h3}
    Threshold = 2
    Data <- CorrectAndWrong
    NoData = NoData
    NoBlock = NoBlock
    NoCheckpoint = NoCheckpoint
    MaxEpoch = 2
    KeptEpochs = 1
    Call = {c1, c2}
SYMMETRY Symmetry
INVARIANTS
    ResultIsBacked
    CacheIsBacked
PROPERTIES
    FallbackAgrees
