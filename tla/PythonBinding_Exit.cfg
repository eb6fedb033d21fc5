SPECIFICATION FairSpec
CONSTANTS
    PyThreads = {t1, t2}
    Workers = {h1, h2}
    Kinds = {"caster", "client", "server"}
    Calls = {"set_log_callback", "start", "connect", "exit"}
    Nobody = Nobody
PROPERTIES
    CallsReturn
CHECK_DEADLOCK FALSE
