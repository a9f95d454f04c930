CONSTANTS
    Followed <- Both
    Target = 34
    Documents <- OldDocuments
    Releases <- SomeReleases
    t1 = t1
    t2 = t2
    Threads <- OneThread
    Requests <- Everyday
    MaxTime = 3
    MaxFaults = 1
    MaxCrashes = 1
    NoDeadline = NoDeadline
    NoFile = NoFile
    Empty = Empty
    Torn = Torn
    Nothing = Nothing
SPECIFICATION FileSpec
INVARIANTS
    DiskIsWhole
    LiveFollowsDisk
    
    SettingsArrive
PROPERTIES
    PauseEnds
CHECK_DEADLOCK FALSE
