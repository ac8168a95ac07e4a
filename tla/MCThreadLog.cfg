CONSTANTS
    MaxStarts = 2
    MaxTries = 2
    CreateFails = TRUE
    MaxCancels = 1
    LogThreads <- AllThreads
    f1 = f1
    f2 = f2
    Files <- MCFiles
    MaxText = 2
    MaxInits = 2
SYMMETRY MCSymmetry
SPECIFICATION TLSpec
INVARIANTS
    StreamsAreOpen
    LogIsComplete
PROPERTY
    WholeLines
CHECK_DEADLOCK FALSE
