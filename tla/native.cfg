\* Two goroutines send, half-close and dispose while one receives and one unloads.
SPECIFICATION FairSpec
CONSTANTS
    u1 = u1
    u2 = u2
    r1 = r1
    nobody = nobody
    Uppers = {u1, u2}
    Receivers = {r1}
    Nobody = nobody
    MaxUp = 2
    MaxDown = 2
INVARIANTS UpEndsOnce ReleasedIsFreed
PROPERTIES DisposeReturns
CHECK_DEADLOCK FALSE
