SPECIFICATION Spec
CONSTANTS
    k1 = k1
    k2 = k2
    k3 = k3
    k4 = k4
    Keys = {k1, k2, k3, k4}
    MaxEntries = 2
    MaxRuns = 3
    MaxPods = 3
    Configs <- MCConfigs
    Losses <- MCLosses
    Infinity = 3
    MaxTrainings = 2
    Folders = {"zero_shot", "lora_finetune"}
    Gold <- MCGold
    Predictions <- MCPredictions
    Limits = {1, 2}
INVARIANTS
    TypeOK KeepsRecent NothingLeftRunning PodsAccountedFor
    GradientLedger StepBudget BestIsLowest  ComparisonSound
PROPERTIES DeadChildEnds
CHECK_DEADLOCK FALSE
