SPECIFICATION Spec
CONSTANTS
    Worker = {w1, w2, w3}
    Token = {k1, k2, k3, k4}
    NoToken = NoToken
    Tenant = {anon, t1}
    NoTenant = anon
    LaneMax = 2
    TenantMax = 1
    LeaseTTL = 2
    Faults = {"crash", "redis"}
SYMMETRY WorkerTokenSymmetry
INVARIANTS
    SlotsSound
    CapsHold
