SPECIFICATION ObjectsSpec
CONSTANTS
    p1 = p1
    p2 = p2
    Peers = {p1, p2}
    Asks <- MCAsks
    Slow = {p2}
    MaxClients = 1
    t1 = t1
    t2 = t2
    h1 = h1
    h2 = h2
    PyThreads = {t1, t2}
    Workers = {h1, h2}
    Kinds = {"hat", "caster", "client", "server"}
    Calls = {"set_log_callback", "timepulse", "get_navigation", "start", "stop", "connect", "disconnect", "is_connected", "feed", "receive", "send_position", "client_count", "dealloc"}
    Nobody = Nobody
INVARIANTS
    ListedAreOpen
    MountIsKept
    CallbackReferenced
PROPERTIES
    StopReturns
    CallsReturn
CHECK_DEADLOCK FALSE
