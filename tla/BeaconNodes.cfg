SPECIFICATION Spec
CONSTANTS
    Main <- MCMain
    Proposal <- MCProposal
    Values <- MCValues
    Threshold = 1
    MaxScore = 3
    FailureDelta = 2
INVARIANTS
    TypeOK
    BestAnswerReturned
    RaisesOnlyWithoutAnswer
PROPERTIES
    StartupEnds
    LateNodesJoin
    CallsEnd
    FailsOver
