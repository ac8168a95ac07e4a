CONSTANTS
    c1 = c1
    c2 = c2
    k1 = k1
    k2 = k2
    k3 = k3
    k4 = k4
    k5 = k5
    Workers = {w1, w2, w3}
    Clients <- MCClients
    Tasks <- MCTasks
    Program <- MCProgram
    Spawn <- MCSpawn
SPECIFICATION PoolFairSpec
INVARIANTS
    WakeupsSuffice
PROPERTIES
    PostedIsRun
    DestructorReturns
CHECK_DEADLOCK FALSE
