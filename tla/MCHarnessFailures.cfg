CONSTANTS
    Ops = {o1, o2}
    Callers = {c1}
    Structural = {"compaction", "branch_summary"}
    WriteKinds = {"model"}
    Sends = {"steer", "followUp", "nextTurn"}
    None = None
    AllAtOnce = TRUE
    OneAtATime = TRUE
    Hook = FALSE
    ContinuationCap = 0
    Cap = 0
    MaxMessages = 2
    MaxWrites = 2
    MaxFailures = 2
SPECIFICATION Spec
SYMMETRY MCSymmetry
INVARIANTS
    MessagesAccounted
    WritesAccounted
    Restored
    RunVisible
CHECK_DEADLOCK FALSE
