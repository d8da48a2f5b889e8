SPECIFICATION CompleteCacheSpec
CONSTANTS
    v1 = v1
    v2 = v2
    r1 = r1
    r2 = r2
    Validators = {v1}
    Aggregators = {v1}
    Roots = {r1, r2}
    NoRoot = NoRoot
    Schedule <- SwappingSchedule
    SlotsPerEpoch = 2
    MaxSlot = 1
    Environment = {"failures"}
    DisableSlashingDetection = FALSE
INVARIANTS
    RecordedRootIsComplete
CHECK_DEADLOCK FALSE
