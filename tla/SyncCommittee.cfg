SPECIFICATION Spec
CONSTANTS
    v1 = v1
    h1 = h1
    Validators = {v1}
    Committee <- EndingCommittee
    Heads = {h1}
    NoHead = NoHead
    SlotsPerEpoch = 1
    EpochsPerPeriod = 3
    MaxSlot = 3
INVARIANTS
    TypeOK
    SignersAreMembers
PROPERTIES
    KnownDutiesStarted
CHECK_DEADLOCK FALSE
