SPECIFICATION ResolveSpec
CONSTANTS
    t1 = t1
    Tasks <- McTasks
    Requests <- McRequests
    Configs <- McConfigs
    Boot <- Everyday
    BootTime <- McBootTime
    SettingsOf <- McSettings
    RewritesOf <- McRewrites
    ClientsOf <- McClients
    SafeSearchOf <- McSafe
    EngineOf <- McEngines
    ServicesOf <- McServices
    Catalogue <- McCatalogue
    ProviderRules <- McProviders
    Nows <- McNows
    UpstreamAnswers <- McUpstreamAnswers
    MaxReloads = 1
    Addrs <- McAddrs
    HostsFile <- McHosts
    ArpTable <- McArp
    RdnsNames <- McRdns
    LocalNets <- McLocalNets
    SourceSets <- McSources
    DiscoveryQueue = 1
    V4Bits = 2
    MaxPrefix = 2
    SubnetBits <- McSubnetBits
    WellKnown <- McWellKnown
    MinPayload = 4
    UdpPayload = 6
    HeaderSize = 1
    NameSize = 2
    BlockedTtl = 2
    SynthTtl = 3
    DdrTtl = 1
    DdrHost <- McDdrHost
    ReverseOf <- McReverse
INVARIANTS
    DecidedByPartsInForce
    PrivateStaysLocal
    ShapedToTheAsker
