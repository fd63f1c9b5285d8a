CONSTANTS
    Ops = {o1, o2}
    Callers = {c1}
    Structural = {}
    WriteKinds = {"model"}
    Sends = {"nextTurn"}
    None = None
    AllAtOnce = TRUE
    OneAtATime = TRUE
    Hook = TRUE
    ContinuationCap = 2
    Cap = 2
    MaxMessages = 1
    MaxWrites = 1
    MaxFailures = 1
SPECIFICATION FairSpec
PROPERTIES
    NoRequestOverCap
    AbortEndsRun
CHECK_DEADLOCK FALSE
