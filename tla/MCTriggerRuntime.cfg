CONSTANTS
    k1 = k1
    k2 = k2
    t1 = t1
    t2 = t2
    Keys <- MCKeys
    TraceIds <- MCTraces
    Policies <- MCPolicies
    Window = 2
    CycleHopLimit = 2
    Skew = 1
    MaxSafeInteger = 1
    MaxTime = 3
    MaxFollowUps = 2
SPECIFICATION RuntimeSpec
SYMMETRY MCSymmetry
INVARIANTS
    AcceptedOncePerWindow
    DuplicateOnlyInWindow
    SuppressedExactly
CHECK_DEADLOCK FALSE
