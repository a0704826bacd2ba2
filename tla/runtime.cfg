\* A persisted parent and a child under cancels, deadlines, panics, suspension, refused receipts and writes.
SPECIFICATION FairSpec
CONSTANTS
    p = p
    c = c
    d = d
    none = none
    NoParent = none
    Invocations = {p, c}
    Parent <- MCPair
    IdOrder <- MCIdOrder
    PendingCapacity = 2
    WallLimited = {p}
    Persisted = {p}
    ReceiptFaults = {"child_spawned"}
    PersistFaults = {"cancelled"}
    CleanupFaults = {c}
    WinnerPanics = TRUE
INVARIANTS ReservationsExact SpawnedChildrenEndFirst
PROPERTIES CancelAnswered DeadlineEnds
CHECK_DEADLOCK FALSE
