SPECIFICATION FairSpec
CONSTANTS
    Images = {i1, i2}
    NoImage = NoImage
    HasAuth = TRUE
    Progress <- MCProgress
    Scripts <- MCScripts
    MaxAsks = 2
    MaxSignIns = 2
INVARIANTS TypeOK LoadingIsExact StreamIntact OutcomeShown
PROPERTIES LoadingEnds
CHECK_DEADLOCK FALSE
