\* Two senders, a receiver and a closer of one session.
SPECIFICATION FairSpec
CONSTANTS
    s1 = s1
    s2 = s2
    r1 = r1
    c1 = c1
    nobody = nobody
    Senders = {s1, s2}
    Receivers = {r1}
    Closers = {c1}
    Nobody = nobody
    MaxBuffered = 1
    MaxSeq = 2
    MaxDown = 3
INVARIANTS UpInOrder ReceiptDecides
PROPERTIES PeerEndsSession
CHECK_DEADLOCK FALSE
