SPECIFICATION Spec
CONSTANTS
    v1 = v1
    v2 = NoValidator
    r1 = r1
    r2 = r2
    Validators = {v1}
    NoValidator = NoValidator
    Roots = {r1, r2}
    NoRoot = NoRoot
    Proposer <- MovingProposer
    SlotsPerEpoch = 2
    MaxSlot = 2
    DisableSlashingDetection = FALSE
INVARIANTS
    TypeOK
    DutiesMatchRoot
PROPERTIES
    KnownProposalsStarted
    NoProposalAbandoned
CHECK_DEADLOCK FALSE
