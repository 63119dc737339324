CONSTANTS
    Threads = {t1, t2}
    Instances = {i1}
    Home <- OneInstance
    RedisUrl = TRUE
    Keys = {k1}
    VlmDailyBudget = 1
    VlmProvider = "runpod"
    LastDay = 0
    MaxFaults = 1
    MaxBlind = 1
SPECIFICATION Spec
SYMMETRY Symmetry
INVARIANTS
    TypeOK
    StampedeBound
    ScreenedFirst
PROPERTIES
    BudgetProtocol
CHECK_DEADLOCK FALSE
