SPECIFICATION ReachableSpec
CONSTANTS
    B1 = B1
    H1 = H1
    None = None
    Ids <- MCOneBatch
    Hosts <- MCOneHost
    Workers = 1
    MayFail = TRUE
    MaxCrashes = 2
INVARIANTS CommandOnce SettledWhenIdle Accounted ResultIsTrue QuietAfterClose
PROPERTIES OpenOnce CleanupDrains BatchEnds
CHECK_DEADLOCK FALSE
