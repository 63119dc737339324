SPECIFICATION Spec
CONSTANTS
    k1 = k1
    k2 = k2
    k3 = k3
    Boot = Boot
    NoKey = NoKey
    Threads = {t1, t2}
    Keys = {k1, k2, k3}
    Layers <- MCLayers
    Content <- MCContent
    ClipThreshold = 500
    BlockThreshold = 400
    MinBackground = 180
    MaxColors = 48
SYMMETRY Symmetry
INVARIANTS TypeOK LoadsBounded LossNeedsRace UnscreenedOnlyDegraded ChartNotBlocked
CHECK_DEADLOCK FALSE
