SPECIFICATION Spec
CONSTANTS
    data = data
    site = site
    db = db
    web = web
    net = net
    vol = vol
    None = None
    Roots = {data, site}
    HadPrevious = {data}
    Containers = {db, web}
    HasOld = {db}
    OldRunning = {db}
    NewRunning = {db, web}
    Volumes = {vol}
    Networks = {net}
    MaxFaults = 3
    MaxCrashes = 2
INVARIANTS NothingOldLost NoWriterDuringMove
PROPERTIES AllOrNothing RestoreSettles
CHECK_DEADLOCK FALSE
