CONSTANTS
    Values = {zero, a, b}
    Zero = zero
    Sizes = {0, 1, 3}
    PoolThreads = {1, 2}
    MaxItems = 3
    Nobody = Nobody
    Buffers = {b1, b2}
    BufferElements = {item0, item1}
    ZeroElement = item0
    Garbage = garbage
    MaxSize = 2
    Growth = 2
    MaxFailures = 1
    Millis = 4
    Nanos = 4
    IntMax = 63
    MaxTime = 34
    Times <- MCTimes
    FileThreads = {1, 2}
    Types = {"A", "B"}
    Ascii = "text"
    Units = {"x", "y", "A"}
    Payloads <- MCPayloads
    Blank = "zero"
    MaxSaves = 2
    Maps = {m1, m2}
    MapFiles = {"file"}
    MaxFileSize = 2
    MaxFds = 3
    MaxFaults = 1
    s1 = s1
    s2 = s2
    l1 = l1
    l2 = l2
    app = app
SPECIFICATION MCSpec
INVARIANTS
    NoSlotRace
    LivesWhileHeld
    FunctionRunsOnce
    SetIsExact
    ItemsHaveOneOwner
    BufferIsSequence
    MapsOwnWhatTheyUse
    PluginsAreLoaded
    LoadedIsSaved
    CommandIsExecuted
    ClockTellsTime
PROPERTY
    ImplementsFifo
CHECK_DEADLOCK FALSE
