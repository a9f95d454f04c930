SPECIFICATION ConnSpec
CONSTANTS
    q1 = q1
    q2 = q2
    Queries = {q1, q2}
    Requests <- Asked
    Targets <- Known
    ConnIds = {1, 2, 3, 4}
    IdleMax = 1
    MaxDials = 2
    MaxFaults = 1
INVARIANTS
    RepliesMatch
    
PROPERTIES
    ReplacementSurvives
    ExchangesEnd
