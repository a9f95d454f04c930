SPECIFICATION PoolsSpec
CONSTANTS
    r1 = r1
    r2 = r2
    r3 = r3
    u1 = u1
    u2 = u2
    u3 = u3
    c1 = c1
    c2 = c2
    Reloads = {r1, r2}
    Upstreams = {u1, u3}
    Initial = u1
    Settings <- MCSettings
    SystemLines <- MCSystem
    Hostnames <- MCHostnames
    Calls = {c1}
    Samples = {4}
    Offers <- MCOffers
    MaxCalls = 2
INVARIANTS
    LastRebuildInstalls
    FallbacksComeLast
CHECK_DEADLOCK FALSE
