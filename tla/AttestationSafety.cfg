SPECIFICATION Spec
CONSTANTS
    v1 = v1
    v2 = v2
    r1 = r1
    r2 = r2
    Validators = {v1}
    Aggregators = {v1}
    Roots = {r1, r2}
    NoRoot = NoRoot
    Schedule <- SwappingSchedule
    SlotsPerEpoch = 2
    MaxSlot = 1
    Environment = {"failures", "lag", "slashing", "early", "reorg", "status"}
    DisableSlashingDetection = FALSE
INVARIANTS
    TypeOK
    AskedOnce
    DutiesFromOneRoot
    PromisedDutiesAreDue
CHECK_DEADLOCK FALSE
