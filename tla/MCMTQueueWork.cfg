CONSTANTS
    workQueue = workQueue
    Items = 7
    Threads = {w1, w2, w3}
    Queues <- WQueues
    Values <- WValues
    MaxSizes = {3}
    SizeMod = 8
    Calls <- WCalls
    Height = 3
SPECIFICATION WFairSpec
INVARIANTS
    VectorsStayTogether
    AbortOnlyWhenDone
PROPERTIES
    FifoOrder
    AllAbort
