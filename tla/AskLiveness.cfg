CONSTANTS
    Threads = {t1, t2}
    Instances = {i1}
    Home <- OneInstance
    RedisUrl = FALSE
    Keys = {k1}
    VlmDailyBudget = 1
    VlmProvider = "runpod"
    LastDay = 1
    MaxFaults = 0
    MaxBlind = 0
SPECIFICATION FairSpec
INVARIANTS
    StampedeBound
PROPERTIES
    BudgetProtocol
    EveryRequestEnds
CHECK_DEADLOCK FALSE
