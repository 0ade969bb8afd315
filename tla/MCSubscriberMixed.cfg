SPECIFICATION Spec
CHECK_DEADLOCK FALSE
CONSTANTS
    k1 = k1  k2 = k2  fspX = fspX
    q1 = q1  a1 = a1  b1 = b1
    SwitchId = SwitchId  AnyPayee = AnyPayee  NoPayee = NoPayee  None = None
    Request = {q1, a1, b1}
    Key = {k1, k2}
    Payee = {fspX}
    tuple <- MixedTuple
    MaxRecent = 2
    MaxCallbacks = 1
INVARIANTS
    PendingConsistent
    Correlated
    NoOrphan
    NoMissedCallback
