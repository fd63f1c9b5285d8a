CONSTANTS
    loop = loop
    plain = plain
    Jobs = {loop, plain}
    Stateful = {loop}
    Schedule <- MCSchedule
    MaxTime = 2
    MaxRuns = 2
    MaxFaults = 1
SPECIFICATION FairSpec
INVARIANTS
    MarkerExact
    DecisionsPersisted
PROPERTIES
    NotesNotLost
    MarkerReleased
