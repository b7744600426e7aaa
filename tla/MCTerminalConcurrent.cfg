SPECIFICATION ProgressSpec
CONSTANTS
    o1 = o1
    o2 = o2
    Calls <- MCCalls2
    Owners <- MCOwners
    OwnerOf <- MCOwnerOf2
    Retained <- MCRetainedOne
    MaxSessions = 2
    MaxOwnerSessions = 2
    IdleTimeout = 1
    Lifetime = 2
    FinishedRetention = 1
    MaxFinished = 1
    MaxFinishedBytes = 1
    MaxCapacity = 0
    MaxClock = 0
    MaxRevocations = 1
INVARIANTS AccountingExact NothingSurvivesRevocation
PROPERTIES ImplementsPool OpenReturns
CHECK_DEADLOCK FALSE
