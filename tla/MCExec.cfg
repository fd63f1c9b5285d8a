SPECIFICATION Spec
CONSTANTS
    t1 = t1
    t2 = t2
    h1 = h1
    c1 = c1
    c2 = c2
    NoTrigger = NoTrigger
    TurnEnd = TurnEnd
    Triggers = {t1, t2}
    Hooks = {h1}
    Traces = {c1, c2}
    HookOf <- MCOneHook
    TraceOf <- MCOwnTraces
    Deliveries = {"inject_summary", "inject_and_run", "sub_agent"}
    Failures = {"before_trigger", "prompt", "action", "prepare", "listener", "append", "turn_end"}
    Phases = {"turn", "compaction"}
    TurnEndHook = TRUE
    MaxRuns = 2
    MaxAborts = 1
SYMMETRY MCSymmetry
INVARIANTS RegistryExact OneTerminalEvent CancelWins InjectedOnce PromptsAborted
\* Once every trigger is dealt with nothing is left to do.
CHECK_DEADLOCK FALSE
