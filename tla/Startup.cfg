SPECIFICATION Spec
CONSTANTS
    v1 = v1
    n1 = n1
    u1 = u1
    u2 = u2
    Validators = {v1}
    Nodes = {n1}
    Updates = {u1, u2}
    MaxChanges = 1
    MaxFailures = 1
    SlotsPerEpoch = 1
    LastEpoch = 3
    Nobody = Nobody
INVARIANTS
    TypeOK
    SettledListsMatch
    StopsForRivalOnly
PROPERTIES
    NoDutiesBesideRival
    EventuallyAccurate
CHECK_DEADLOCK FALSE
