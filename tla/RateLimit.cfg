SPECIFICATION Spec
CONSTANTS
    Threads = {t1, t2}
    Addresses = {a, b}
    Busy = a
    BusyAsks = 5
    PerMinute = 1
    RedisUrl = TRUE
    LastMinute = 1
    MaxAsked <- Asks
    MaxFaults = 1
SYMMETRY Symmetry
INVARIANTS
    TypeOK
    WindowBound
    BlocksOnlyExcess
    StaleBound
    ImmortalBound
CHECK_DEADLOCK FALSE
