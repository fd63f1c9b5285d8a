SPECIFICATION FairSpec
CONSTANTS
    Inputs <- MCInputs
    MaxEvents = 3
    MaxAsks = 1
    Closable = {"feed"}
    MayStop = TRUE
INVARIANTS TurnsSerial ValuesAccounted HandledInOrder
PROPERTIES CardKept QueuedRuns
\* With no input left the loop waits in its select.
CHECK_DEADLOCK FALSE
