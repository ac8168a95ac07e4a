CONSTANTS
    Threads = {t1, t2, t3}
    AtomicThreads = {t1, t2}
    Variables = {v1, v2}
    Width = 2
    Amounts = {1}
    Swaps <- MCSwaps
    MaxStarts = 3
    MaxTries = 3
    CreateFails = TRUE
    MaxCancels = 3
SPECIFICATION MCSpec
INVARIANTS
    StartTellsOutcome
    JoinWaitsForExit
PROPERTIES
    ImplementsRWLock
    SomebodyGetsIn
    ImplementsAtomic
    OwnerReturns
CHECK_DEADLOCK FALSE
