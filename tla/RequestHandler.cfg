CONSTANTS
    Requests = {k1, k2, k3}
    Records = {r1, r2}
    MaxUint32 = 2
    None = None
SPECIFICATION FairSpec
INVARIANTS
    RecordsAccounted
    ReadsCurrent
PROPERTIES
    ImplementsPromises
    WaitReturns
CHECK_DEADLOCK FALSE
