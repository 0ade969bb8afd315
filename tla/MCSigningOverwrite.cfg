SPECIFICATION Spec
CONSTANTS
    Call = {c1}
    Event = {e1}
    Sweep = {s1}
    MaxKeys = 2
    MaxEdits = 1
    MaxForeign = 1
    MaxFaults = 1
PROPERTY NeverOverwrites
CHECK_DEADLOCK FALSE
