SPECIFICATION Spec
CONSTANTS
    s1 = s1
    s2 = s2
    s3 = s3
    d1 = d1
    d2 = d2
    None = None
    Streams <- MCStreams3
    Data <- MCData
    Retained = TRUE
    InputWindow = 2
    MaxWriters = 1
    MaxSeq = 3
    MaxBare = 1
SYMMETRY MCSymmetry
INVARIANTS AtMostOnce InOrder AckMeansWritten
CHECK_DEADLOCK FALSE
