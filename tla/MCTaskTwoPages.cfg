SPECIFICATION TaskSpec
CONSTANTS
    A = A
    B = B
    Nothing = Nothing
    Pages <- MCTwoPages
    Window = 2
    MaxRetries = 1
    MaxTyped = 1
    MaxDrops = 1
    MaxLate = 1
    MaxEpochs = 1
INVARIANTS ReadOnce
CHECK_DEADLOCK FALSE
