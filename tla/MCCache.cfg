CONSTANTS
    k1 = k1
    k2 = k2
    c1 = c1
    c2 = c2
    c3 = c3
    Keys <- MCKeys
    Payloads <- MCPayloads
    Callers <- MCCallers
    Configurers <- OneConfigurer
    Configs <- MCConfigs
    Messages <- MCMessages
    Weights = {2, 3}
    Budgets = {1, 4}
    CompactSlack = 1
    MaxSeq = 4
    Shards = 2
    RefreshMinHits = 2
    MaxTime = 2
    NoEntry = NoEntry
    NoClaim = NoClaim
SPECIFICATION CacheSpec
INVARIANTS
    EveryEntryHasASlot
    DisabledStaysEmpty
PROPERTIES
    ImplementsFifoStore
CHECK_DEADLOCK FALSE
