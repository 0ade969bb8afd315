SPECIFICATION FairSpec
CONSTANTS
    Tab = {t1, t2}
    Idle = 2
    Abs = 2
    Ttl = 2
    MaxClock = 3
    MaxLogins = 2
    MaxTokens = 2
    MaxAdmin = 1
    MaxFaults = 1
INVARIANTS NoSelfReuse AbsoluteDeadline
PROPERTIES LateAnswerRefused TabsConverge
CHECK_DEADLOCK FALSE
