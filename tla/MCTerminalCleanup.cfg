SPECIFICATION CleanupSpec
CONSTANTS
    o1 = o1
    o2 = o2
    Calls <- MCCalls1
    Owners <- MCOwners
    OwnerOf <- MCOwnerOf1
    Retained <- MCRetainedOne
    MaxSessions = 2
    MaxOwnerSessions = 2
    IdleTimeout = 1
    Lifetime = 2
    FinishedRetention = 1
    MaxFinished = 1
    MaxFinishedBytes = 1
    MaxCapacity = 0
    MaxClock = 3
    MaxRevocations = 1
PROPERTIES CleanupRetried
CHECK_DEADLOCK FALSE
