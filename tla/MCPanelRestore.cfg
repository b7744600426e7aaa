SPECIFICATION MCSpec
CONSTANTS
    r1 = r1
    r2 = r2
    o1 = o1
    o2 = o2
    Old = Old
    Other = Other
    None = None
    Requests <- MCRequests
    Origins <- MCOrigins
    Steps <- MCOneStep
    MaxVersion = 2
    MaxFaults = 1
    MaxCrashes = 1
INVARIANTS SessionsCurrent FactorOnce FactorsUsable SwitchIsWhole
PROPERTIES StaleNeverCommits PanelReturns
CHECK_DEADLOCK FALSE
