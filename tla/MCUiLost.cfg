SPECIFICATION Spec
CONSTANTS
    Inputs <- MCUpdates
    MaxEvents = 3
    MaxAsks = 0
    Closable = {}
    MayStop = FALSE
INVARIANTS NothingLost
\* With no input left the loop waits in its select.
CHECK_DEADLOCK FALSE
