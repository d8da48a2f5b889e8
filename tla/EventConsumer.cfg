SPECIFICATION Spec
CONSTANTS
    n1 = n1
    n2 = n2
    b1 = b1
    b2 = b2
    x = x
    Nodes = {n1, n2}
    Events <- AllEvents
    RecentLimit = 2
    MaxScore = 5
    ScoreDelta = 5
    MaxSlot = 1
SYMMETRY NodeSymmetry
INVARIANTS
    DuplicatesAreSpaced
    AcceptedKeysAreHandled
