SPECIFICATION FairSpec
CHECK_DEADLOCK FALSE
CONSTANTS
    r1 = r1  n1 = n1  n2 = n2  s1 = s1
    None = None
    Request = {r1}
    Replica = {n1, n2}
    Slot = {s1}
    Poll = {1}
    MaxConcurrent = 1
    StaleTtl = 1
    HeartbeatInterval = 1
    MaxFaults = 2
INVARIANTS
    OneWorker ReadyHasFile HeartbeatKeepsRow
PROPERTIES
    EveryRequestEnds
