CONSTANTS
    t1 = t1
    t2 = t2
    Threads <- TwoThreads
    MaxEntries = 4
    SizeMemory = 2
    RecentCap = 2
    MaxRotations = 2
    MaxClears = 1
    MaxFaults = 1
    FileEnabled = TRUE
SYMMETRY Interchangeable
SPECIFICATION LogSpec
INVARIANTS
    WrittenOnce
    NothingGoesMissing
CHECK_DEADLOCK FALSE
