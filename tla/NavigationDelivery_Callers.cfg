SPECIFICATION FairSpec
CONSTANTS
    r1 = r1
    r2 = r2
    Readers = {r1, r2}
    MaxEpoch = 2
    MaxSessions = 0
    Second <- MCSecond
    TimeFrom = 1
    DateFrom = 1
PROPERTIES
    EveryCallerServed
CHECK_DEADLOCK FALSE
