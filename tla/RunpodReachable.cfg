CONSTANTS
    Threads = {t1, t2}
    Pods = {p1, p2}
    NoPod = NoPod
    Orchestrated = FALSE
    MaxFaults = 0
SPECIFICATION Spec
INVARIANTS
    ReadyIsReachable
CHECK_DEADLOCK FALSE
