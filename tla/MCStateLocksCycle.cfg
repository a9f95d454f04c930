CONSTANTS
    Handlers = {h1, h2}
    Kinds <- AllKinds
SPECIFICATION LocksSpec
PROPERTIES
    RequestsReturn
CHECK_DEADLOCK FALSE
