SPECIFICATION Spec
CONSTANTS
    NULL = NULL
    a1 = a1
    a2 = a2
    a3 = a3
    alice = alice
    bob = bob
    k1 = k1
    k2 = k2
    Addr = {a1, a2, a3}
    Names = {alice, bob}
    Cookies = {k1}
    GNR_NODE_METRIC_MAX = 2
    GNR_NODE_TTL_DEFAULT = 1
    MaxIdle = 1
    CKCACHE_TIMEOUT = 0
    ProrogueSettings = {FALSE}
    HostsLogIn = TRUE
SYMMETRY Symmetry
INVARIANTS
    OnlineUserIsLocal
CHECK_DEADLOCK FALSE
