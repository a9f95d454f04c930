CONSTANTS
    Slots = {1, 2}
    WidthOf <- MCWidthOf
    ServerSettings <- MCServerSettings
    TicksPerSecond = 2
    SweepAt = 2
    IdleTtl = 2
    Local <- MCLocal
    ServerName <- MCServerName
    ServerNames <- MCServerNames
    TrustedProxies <- MCTrusted
    Forwarded <- MCForwarded
    Scenes <- MCScenes
    Window = 1
    Penalty = 1
SPECIFICATION FrontSpec
INVARIANTS
    LimitHolds
    StrikesAreEarned

    
CHECK_DEADLOCK FALSE
