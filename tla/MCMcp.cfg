CONSTANTS
    c1 = c1
    c2 = c2
    Calls = {c1, c2}
    Kinds = {"stdio", "http"}
    MaxLines = 2
    MaxAttempts = 2
SPECIFICATION FairSpec
INVARIANTS
    TableExact
    OwnAnswer
    NoneForgotten
PROPERTIES
    RequestEnds
CHECK_DEADLOCK FALSE
