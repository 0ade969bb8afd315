SPECIFICATION FairSpec
CHECK_DEADLOCK FALSE
CONSTANTS
    e1 = e1  e2 = e2  t1 = t1  f1 = f1  r1 = r1  r2 = r2  w1 = w1
    None = None
    Unresolved = Unresolved
    Event = {e1, e2}
    Txn = {t1}
    txn <- MCTxn
    payer <- MCPayer
    payee <- MCPayee
    identified <- MCIdentified
    sets <- MCSets
    Resolved = {e2}
    FSP = {f1}
    Flag = {"err", "disp"}
    Worker = {w1}
    Replica = {r1, r2}
    Second = 2
    MaxClock = 1
    MaxFaults = 1
PROPERTIES
    HealedEventually
    LockKept
