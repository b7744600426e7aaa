SPECIFICATION Spec
CONSTANTS
    a = a
    b = b
    None = None
    Jobs = {a}
    Keys = {"port", "app:a", "app:b"}
    KeysOf <- MCKeysOf
    MaxActive = 2
    Pollers = {"poll"}
    MaxCancels = 0
    MaxRestarts = 1
INVARIANTS InterruptedHasNoResult
CHECK_DEADLOCK FALSE
