CONSTANTS
    N = 3
    MaxFailures = 1
SPECIFICATION FairSpec
INVARIANTS
    GateRespected
    EveryStartEnds
    RequestWellFormed
    QuietAfterEnd
PROPERTIES
    BatchEnds
CHECK_DEADLOCK FALSE
