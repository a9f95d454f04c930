CONSTANTS
    Followed <- AllParts
    h1 = h1
    h2 = h2
    h3 = h3
    Handlers <- ThreeHandlers
    Kinds <- Ordered
    FirstHour = 10
    LastHour = 12
    QueryNames = {1, 2, 3}
    BlockedNames = {3}
    MaxTop = 1
    StatsConfigs <- SomeConfigs
    HoursPerDay = 2
    WeekDays = 0
    MaxQueries = 2
    ClockWaits = TRUE
    SavesOverlap = FALSE
    w1 = w1
    w2 = w2
    t1 = t1
    t2 = t2
    Requests <- Threads
    Tokens <- TwoTokens
    SecondTicks = 2
    SessionTtl = 3
    FailedTtl = 1
    BlockTime = 2
    MaxFails = 2
    MaxTime = 3
    MaxGuesses = 5
    Budgets <- SomeBudgets
    PersistsOverlap = FALSE
    WritesFail = FALSE
    u1 = u1
    u2 = u2
    Updaters <- OneUpdate
    MaxVersion = 3
    MaxUpdateFaults = 1
    TlsRequests <- SomeTlsRequests
    MaxIssued = 2
    Lifetime = 2
    ExpiryWarning = 1
    WarningEvery = 2
    MaxCertTime = 3
SPECIFICATION DaemonSpec
SYMMETRY Alike
INVARIANTS
    NoCircularWait
    
    
    
    SpentAttemptsBlock
    ProgramSurvives
    CertificateFollows
CHECK_DEADLOCK FALSE
