SPECIFICATION FairSpec
CONSTANTS
    v1 = v1
    v2 = v2
    r1 = r1
    r2 = r2
    Validators = {v1}
    Aggregators = {v1}
    Roots = {r1}
    NoRoot = NoRoot
    Schedule <- BoundarySchedule
    SlotsPerEpoch = 2
    MaxSlot = 3
    Environment = {"shutdown", "failures"}
    DisableSlashingDetection = FALSE
PROPERTIES
    PromisedDutiesStarted
    DutyWaitEnds
    StartedDutyCompletes
CHECK_DEADLOCK FALSE
