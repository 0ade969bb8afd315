SPECIFICATION FairSpec
CHECK_DEADLOCK FALSE
CONSTANTS
    e1 = e1  e2 = e2  e3 = e3  e4 = e4  e5 = e5  e6 = e6  e7 = e7  e8 = e8  w1 = w1  w2 = w2
    None = None
    Event = {e1, e2, e3, e4, e5, e6, e7, e8}
    Streams <- DisputeStreams
    phase <- DisputePhase
    action <- DisputeAction
    gateway <- DisputeGateway
    occurredAt <- DisputeOccurredAt
    transferState <- DisputeState
    Unstorable = {e2}
    Malformed = {e8}
    Worker = {w1, w2}
    MaxDeliveryAttempts = 2
    MaxFaults = 2
INVARIANTS
    RowIsMerge
    DisputeKept
    SettledIsRecorded

    
