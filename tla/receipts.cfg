\* Three goroutines append to one chain, bound and bound again.
SPECIFICATION FairSpec
CONSTANTS
    a1 = a1
    a2 = a2
    a3 = a3
    i1 = i1
    i2 = i2
    Ids = {i1}
    Appenders = {a1, a2, a3}
    MaxAppends = 2
INVARIANTS ChainVerifies ReservationKept
PROPERTIES ReceiptsAreLedger AppendsReturn
CHECK_DEADLOCK FALSE
