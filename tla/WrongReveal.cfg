SPECIFICATION Spec
CONSTANTS
    v1 = v1
    v2 = v2
    r1 = r1
    r2 = r2
    Validators = {v1, v2}
    NoValidator = NoValidator
    Roots = {r1, r2}
    NoRoot = NoRoot
    Proposer <- MovingProposer
    SlotsPerEpoch = 2
    MaxSlot = 3
    DisableSlashingDetection = FALSE
INVARIANTS
    RevealIsOfProposer
CHECK_DEADLOCK FALSE
