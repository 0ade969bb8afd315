SPECIFICATION RollupSpec
CHECK_DEADLOCK FALSE
CONSTANTS
    r1 = r1  r2 = r2
    NoReplica = NoReplica
    Replica = {r1, r2}
    Hour = 3
    Day = 9
    BackfillDays = 2
    MaxDelay = 1
    MaxLag = 1
    MaxRebuild = 1
    MaxGap = 2
    Start = 8
    Started = {2, 7, 8, 10}
    MaxTime = 15
    MaxRows = 1
    MaxFailures = 1
SYMMETRY ReplicaSymmetry
INVARIANTS
    HistoryExact
