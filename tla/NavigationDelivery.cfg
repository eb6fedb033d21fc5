SPECIFICATION FairSpec
CONSTANTS
    r1 = r1
    r2 = r2
    Readers = {r1, r2}
    MaxEpoch = 3
    MaxSessions = 2
    Second <- MCSecond
    TimeFrom = 1
    DateFrom = 2
PROPERTIES
    FreshReflectsWakeup
    NotificationTaken
    DestroyReleases
    ImplementsFeed
    GpsdFollows
CHECK_DEADLOCK FALSE
