CONSTANTS
    Threads = {t1}
    Instances = {i1}
    Home <- OneInstance
    RedisUrl = FALSE
    Keys = {k1}
    VlmDailyBudget = 1
    VlmProvider = "none"
    LastDay = 0
    MaxFaults = 0
    MaxBlind = 0
SPECIFICATION Spec
INVARIANTS
    OneResult
CHECK_DEADLOCK FALSE
