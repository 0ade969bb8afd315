SPECIFICATION FairSpec
CHECK_DEADLOCK FALSE
CONSTANTS
    x1 = x1  x2 = x2  x3 = x3  w1 = w1  w2 = w2
    None = None
    Message = {x1, x2, x3}
    kind <- MixedKind
    Worker = {w1, w2}
    MaxFaults = 1
INVARIANTS
    SettledHasEffect
    ExactlyOnce
PROPERTIES
    QueuePromise
    EverySettled
