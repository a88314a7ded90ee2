SPECIFICATION ChokeSpec
CONSTANTS
    Worker = {w1, w2}
    Token = {k1, k2, k3}
    NoToken = NoToken
    Tenant = {anon}
    NoTenant = anon
    LaneMax = 1
    TenantMax = 1
    LeaseTTL = 2
    Faults = {"crash", "redis"}
    MaxRetries = 1
    MaxPolls = 1
    MaxLeaks = 1
INVARIANTS
    CallsSound
    ProviderCap
PROPERTIES
    RequestsEnd
