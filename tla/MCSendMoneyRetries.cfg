SPECIFICATION FairSpec
CHECK_DEADLOCK FALSE
CONSTANTS
    p0 = p0  a1 = a1  a2 = a2  b1 = b1
    None = None
    Post = p0
    Put = {a1, a2, b1}
    kind <- RetriesKind
    WaitTimeout = 1
    HttpTimeout = 1
    LockTtl = 3
    MaxOverhead = 1
INVARIANTS
    AtMostOnePost
    EndedIsFinal
    TransferNeedsQuote
    AuditCoversHub
PROPERTIES
    LockEventuallyFree
    EveryHandlerReturns
