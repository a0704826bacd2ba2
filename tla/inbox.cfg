\* Retried and anonymous messages of two senders against a receiver and a close.
SPECIFICATION FairSpec
CONSTANTS
    s1 = s1
    s2 = s2
    s3 = s3
    r1 = r1
    r2 = r2
    m1 = m1
    m2 = m2
    anon = anon
    Anonymous = anon
    Senders = {s1, s2}
    Receivers = {r1}
    MessageIds = {m1}
    Capacity = 1
    DedupExpires = TRUE
    ReceiptFaults = FALSE
    MaxMessages = 3
INVARIANTS EOFAfterEverything FifoGapless RetriesAgree
PROPERTIES CloseReachesReceivers
CHECK_DEADLOCK FALSE
