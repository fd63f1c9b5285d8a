CONSTANTS
    Callers = {c1, c2}
    Ids = {e1, e2, e3, e4}
    Root = Root
    CrashCuts = {"nothing", "fragment"}
    FailCuts = {"nothing"}
    RepairTears = FALSE
SPECIFICATION Spec
SYMMETRY MCSymmetry
INVARIANTS
    AlwaysLoadable
    ParentsPrecede
    ActiveBranch
PROPERTIES
    ImplementsLog
CHECK_DEADLOCK FALSE
