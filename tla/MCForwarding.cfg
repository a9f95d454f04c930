CONSTANTS
    q1 = q1
    q2 = q2
    r1 = r1
    name = name
    own = own
    s1 = s1
    s2 = s2
    Queries <- TwoQueries
    Refreshes <- OneRefresh
    Clients <- ThreeClients
    Names <- MCNames
    Global = Global
    Ttls = {9}
    TtlMin = 1
    TtlMax = 3
    PendingEnabled = TRUE
    QueueBound = 1
    Concurrent = 1
    Tasks <- MCTasks
    Keys <- MCKeys
    Answers <- MCAnswers
    Failed = Failed
    NoTask = NoTask
    NoKey = NoKey
    NoEntry = NoEntry
    NoJob = NoJob
SPECIFICATION ForwardSpec
INVARIANTS
    FollowersShareTheAnswer
    EntriesStayScoped
    AnsweredAsAsked
    ClaimsAreCarried
PROPERTIES
    ImplementsSingleFlight
    QueriesAnswered
CHECK_DEADLOCK FALSE
