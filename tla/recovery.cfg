\* Three runtimes that stall, crash, suspend and lease the record in turn.
SPECIFICATION FairSpec
CONSTANTS
    a = a
    b = b
    c = c
    nobody = nobody
    First = a
    NoOwner = nobody
    Runtimes = {a, b, c}
    Lease = 1
    MaxTime = 2
    MaxEvents = 2
    MaxLeases = 2
    Crashing = {b}
INVARIANTS OneTerminalReceipt SuspendedIssuesNoReceipt
PROPERTIES StaleOwnerStops
CHECK_DEADLOCK FALSE
