SPECIFICATION EngineSpec
CONSTANTS
    Scheme <- MCScheme
    MinShortcut = 1
    Types <- MCTypes
    RCodes = {"NXDOMAIN", "REFUSED"}
    Hash <- MCHash
    InitialSlots = 2
    Window = 2
    MaxText = 3
    LineSlots = 1
    GateBits = 5
    Lines <- MCLines
    AllowLines <- MCAllowLines
    LineOf <- MCLineOf
    Preloaded <- MCPreloaded
    MaxLines = 2
    Requests <- MCRequests
INVARIANTS
    IndexesHideNothing
    ExceptionsHold
CHECK_DEADLOCK FALSE
