\* Emitters, finalizers and streams of a fresh or recovered core.
SPECIFICATION FairSpec
CONSTANTS
    e1 = e1
    e2 = e2
    f1 = f1
    f2 = f2
    r1 = r1
    r2 = r2
    Emitters = {e1, e2}
    Finalizers = {f1, f2}
    Readers = {r1}
    ReaderStart <- MCReaderStart
    Capacity = 1
    RestoredEvents <- MCRestored
    ClaimOwners = {"completion", "failure", "caller_cancel", "deadline"}
    SideEvents = {"child_terminal"}
    ReceiptFaults = {"progress", "failed"}
    MaxEvents = 6
INVARIANTS ClaimDecidesOutcome TerminalClosedOnce NoLostWakeup OutputBounded
PROPERTIES ReadersDrain
CHECK_DEADLOCK FALSE
