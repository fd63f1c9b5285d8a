CONSTANTS
    user = user
    steer = steer
    trigger = trigger
    NoCall = NoCall
    Calls = {user, steer, trigger}
    Mode <- MCMode
    RetryOn = TRUE
    MaxRetries = 1
    CompactionOn = TRUE
    MaxToolTurns = 1
    MaxAborts = 1
    MaxBash = 1
SPECIFICATION FairSpec
INVARIANTS
    MessagesAccounted
    AloneNeverFails
PROPERTIES
    BashKeptOut
    PromptEnds
\* Once every call is over and the bounds are used up nothing is left to do.
CHECK_DEADLOCK FALSE
