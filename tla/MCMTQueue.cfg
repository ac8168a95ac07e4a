CONSTANTS
    q1 = q1
    q2 = q2
    t1 = t1
    t2 = t2
    t3 = t3
    a = a
    Threads <- MCThreads
    Queues <- MCQueues
    Values = {a}
    MaxSizes = {1, 2}
    SizeMod <- MCSizeMod
    Calls <- MCCalls
    Height = 2
SPECIFICATION Spec
SYMMETRY MCSymmetry
INVARIANTS
    SizeBound
    NoLostWakeup
CHECK_DEADLOCK FALSE
