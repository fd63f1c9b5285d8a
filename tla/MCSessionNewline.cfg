CONSTANTS
    Callers = {c1}
    Ids = {e1, e2, e3, e4}
    Root = Root
    CrashCuts = {"nothing", "fragment", "line"}
    FailCuts = {"nothing"}
    RepairTears = FALSE
SPECIFICATION Spec
SYMMETRY MCSymmetry
INVARIANTS
    AlwaysLoadable
CHECK_DEADLOCK FALSE
