SPECIFICATION Spec
CONSTANTS
    Threads = {t1, t2}
    Addresses = {a}
    Busy = a
    BusyAsks = 3
    PerMinute = 1
    RedisUrl = TRUE
    LastMinute = 0
    MaxAsked <- Asks
    MaxFaults = 0
SYMMETRY Symmetry
INVARIANTS
    PerMinuteLimit
CHECK_DEADLOCK FALSE
