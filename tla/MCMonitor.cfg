CONSTANTS
    num = num
    flag = flag
    MonitorThreads = {t1, t2, t3}
    Monitors <- MCMonitors
    MonitorWidth <- MCWidth
    Calls <- MCCalls
SPECIFICATION MonitorFairSpec
INVARIANTS
    NoLostWakeup
PROPERTIES
    WaitTellsTruth
    WaitersReturn
CHECK_DEADLOCK FALSE
