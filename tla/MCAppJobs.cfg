SPECIFICATION Spec
CONSTANTS
    a = a
    b = b
    None = None
    Jobs = {a, b}
    Keys = {"port", "app:a", "app:b"}
    KeysOf <- MCKeysOf
    MaxActive = 2
    Pollers = {"poll"}
    MaxCancels = 1
    MaxRestarts = 1
INVARIANTS Exclusive EndIsTrue WorkersEndKept
PROPERTIES JobSettles
CHECK_DEADLOCK FALSE
