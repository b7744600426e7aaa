SPECIFICATION Spec
CONSTANTS
    P = P
    K = K
    L = L
    Home = Home
    Away = Away
    Admin = Admin
    None = None
    Attempts <- MCThree
    MayBe <- MCThreeMayBe
    Source <- MCThreeSource
    Account <- MCThreeUser
    MaxFailures = 1
    AccountFactor = 1
    MaxRecords = 3
    MaxSources = 1
    HashSlots = 1
    Window = 2
    MaxNow = 3
INVARIANTS Throttled Balanced RoomKept
CHECK_DEADLOCK FALSE
