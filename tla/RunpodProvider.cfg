CONSTANTS
    Threads = {t1, t2}
    Pods = {p1, p2, p3, p4}
    NoPod = NoPod
    Orchestrated = FALSE
    MaxFaults = 2
SPECIFICATION FairSpec
INVARIANTS
    TypeOK
    SoleProvisioner
    PodBound
PROPERTIES
    ClaimReleased
CHECK_DEADLOCK FALSE
