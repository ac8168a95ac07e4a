CONSTANTS
    a = a
    b = b
    c = c
    x = x
    y = y
    Default = Default
    Null = Null
    t1 = t1
    t2 = t2
    Threads <- MCThreads
    Vectors <- MCVectors
    NSlots <- MCNSlots
    Items = {x, y}
    Calls <- MCCalls
    Constructs <- MCConstructs
    Writes <- MCWrites
    ErasesAlone = TRUE
SPECIFICATION FairSpec
INVARIANTS
    ReadsAreSafe
PROPERTIES
    OperationsAreAtomic
    LockIsReleased
