SPECIFICATION SafetySpec
CONSTANTS
    Absent = Absent
    Wrong = Wrong
    Unset = Unset
    Stray = Stray
    Degree = 10
    Histories <- MCHistories
    p1 = p1
    p2 = p2
    Peers = {p1, p2}
    Asks <- MCAsks
    Slow = {p1}
    Fds = {1, 2}
    MaxClients = 1
    MaxChunks = 2
    Shapes <- MCShapes
    MaxMessages = 3
    MaxFaults = 2
    Backlog = 2
    MinFrame = 2
    FieldLimit = 4
INVARIANTS
    SettingsAsAsked
    RefusedExactlyWhenWrong
    ShownIsTold
    HandedWhole
    ListedAreServed
    NobodyForgotten
    FedInOrder
    StoppedIsQuiet
    NoIntactFrameLost
    FramesInOrder
CHECK_DEADLOCK FALSE
