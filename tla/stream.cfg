\* Two producers and a consumer of a stream with a window of one frame.
SPECIFICATION LoopbackFairSpec
CONSTANTS
    p1 = p1
    p2 = p2
    c1 = c1
    Producers = {p1, p2}
    Consumers = {c1}
    Credit = 1
    MaxFrames = 2
INVARIANTS CreditConserved
PROPERTIES EndReachesConsumer
CHECK_DEADLOCK FALSE
