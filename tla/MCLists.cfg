CONSTANTS
    Followed <- Both
    t1 = t1
    t2 = t2
    u1 = u1
    u2 = u2
    Threads <- TwoThreads
    Urls <- MCUrls
    MaxId = 2
    MaxVersion = 2
    MaxOps = 3
    MaxFailures = 1
    MaxFaults = 1
    MaxRestarts = 1
    NoList = NoList
    Empty = Empty
    NoFile = NoFile
    x1 = x1
    x2 = x2
    Matchers <- TwoMatchers
    Exprs = {1, 2, 3, 4, 5, 6}
    Generation <- ThreeAndThree
    Broken = {4}
    Handwritten = {6}
    MaxCompiled = 1
    HardCeiling = 1
SYMMETRY Alike
SPECIFICATION FilterSpec
INVARIANTS
    EngineIsCurrent
    
    CompiledIsBounded
CHECK_DEADLOCK FALSE
