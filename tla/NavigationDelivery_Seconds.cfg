SPECIFICATION FairSpec
CONSTANTS
    r1 = r1
    r2 = r2
    Readers = {r1}
    MaxEpoch = 3
    MaxSessions = 1
    Second <- MCSecond
    TimeFrom = 1
    DateFrom = 2
INVARIANTS
    SecondToldOnce
CHECK_DEADLOCK FALSE
