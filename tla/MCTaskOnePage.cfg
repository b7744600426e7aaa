SPECIFICATION FairSpec
CONSTANTS
    A = A
    B = B
    Nothing = Nothing
    Pages <- MCOnePage
    Window = 2
    MaxRetries = 3
    MaxTyped = 3
    MaxDrops = 3
    MaxLate = 1
    MaxEpochs = 3
INVARIANTS OnceUnlessStray AckedIsComplete
PROPERTIES InputSettles
CHECK_DEADLOCK FALSE
