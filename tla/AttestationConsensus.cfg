SPECIFICATION FairConsensusSpec
CONSTANTS
    Host = {h1, h2, h3}
    Data = {a, b}
    NoData = NoData
    Threshold = 2
INVARIANTS
    ConsensusTypeOK
    CounterIsSupport
    NoOverlookedAgreement
PROPERTIES
    ImplementsAgreement
    AgreementIsReached
