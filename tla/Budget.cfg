CONSTANTS
    t1 = t1
    t2 = t2
    t3 = t3
    i1 = i1
    i2 = i2
    Threads = {t1, t2, t3}
    Instances = {i1, i2}
    Home <- Homes
    RedisUrl = TRUE
    VlmDailyBudget = 1
    LastDay = 1
    MaxFaults = 1
SPECIFICATION Spec
SYMMETRY Symmetry
INVARIANTS
    TypeOK
    Overshoot
    NeverOvercounts
    FaultFreeAnswers
CHECK_DEADLOCK FALSE
