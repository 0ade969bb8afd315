SPECIFICATION FairSpec
CONSTANTS
    Call = {c1}
    Event = {e1}
    Sweep = {s1}
    MaxKeys = 2
    MaxEdits = 2
    MaxForeign = 1
    MaxFaults = 1
INVARIANT SignedVerifies
PROPERTIES TenantKept SuspensionRespected TenantActivated CacheSettles
CHECK_DEADLOCK FALSE
