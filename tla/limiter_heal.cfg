SPECIFICATION FairSpec
CONSTANTS
    Worker = {w1, w2}
    Token = {k1, k2, k3}
    NoToken = NoToken
    Tenant = {anon}
    NoTenant = anon
    LaneMax = 2
    TenantMax = 1
    LeaseTTL = 2
    Faults = {"crash", "late"}
PROPERTIES
    LaneSelfHeals
    TenantHealsWhenIdle
