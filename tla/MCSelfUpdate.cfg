SPECIFICATION Spec
CONSTANTS
    r1 = r1
    p2 = p2
    p2b = p2b
    None = None
    Releases = {r1, p2, p2b}
    VersionOf <- MCVersionOf
    Stable = {r1}
    Clients = {"page"}
    Installed = 1
    Hold = 1
    MaxNow = 1
    MaxSlips = 1
    MaxCrashes = 1
INVARIANTS Loadable IntentDurable
PROPERTIES Authorised UpdateSettles
CHECK_DEADLOCK FALSE
