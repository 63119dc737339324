CONSTANTS
    Threads = {t1, t2}
    Pods = {p1, p2}
    NoPod = NoPod
    Orchestrated = TRUE
    MaxFaults = 0
SPECIFICATION Spec
INVARIANTS
    PodBound
CHECK_DEADLOCK FALSE
