\* Slow and fast calls with two nonces, a window of one tick, a replaced store.
SPECIFICATION AdmissionSpec
CONSTANTS
    c1 = c1
    c2 = c2
    c3 = c3
    k1 = k1
    k2 = k2
    Calls = {c1, c2}
    Keys = {k1, k2}
    Flaws = {"none", "policy"}
    Windows = {1}
    MaxTime = 3
    MaxStores = 2
    MaxAdmissions = 3
INVARIANTS ReplayWindowKept ReplayRefusalJustified
CHECK_DEADLOCK FALSE
