\* Two process groups, two callbacks and two flows of a persistent invocation.
SPECIFICATION SupervisorFairSpec
CONSTANTS
    g1 = g1
    g2 = g2
    k1 = k1
    k2 = k2
    c1 = c1
    c2 = c2
    nogroup = nogroup
    Groups = {g1, g2}
    Callbacks = {k1, k2}
    Callers = {c1, c2}
    NoGroup = nogroup
    Persist = TRUE
    MaxSpawned = 0
INVARIANTS NothingOutlivesCleanup RecordedUntilGone
PROPERTIES FlowsReturn
CHECK_DEADLOCK FALSE
