SPECIFICATION PublicSpec
CONSTANTS
    p1 = p1
    p2 = p2
    Peers = {p1, p2}
    Asks <- MCAsks
    Slow = {p2}
    MaxClients = 1
INVARIANT OneSourceAtATime
CHECK_DEADLOCK FALSE
