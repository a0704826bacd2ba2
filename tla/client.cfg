\* Two callers, the worker and one Close over an endpoint that goes away once.
SPECIFICATION ClientFairSpec
CONSTANTS
    c1 = c1
    c2 = c2
    Callers = {c1, c2}
    Limits = {0, 2}
    MaxCalls = 2
    MaxBreaks = 1
    MaxHookFailures = 1
INVARIANTS ClosedIsQuiet
PROPERTIES GenerationIsFresh Reconnects CloseReturns
CHECK_DEADLOCK FALSE
