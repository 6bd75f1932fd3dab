SPECIFICATION Spec
CONSTANTS
    GNR_NODE_HASH_SIZE = 3
    Addr = {p1, p2}
    Name <- Spellings
    MaxRefs = 1
    GNR_NODE_METRIC_MAX = 2
    GNR_NODE_TTL_DEFAULT = 1
    MaxIdle = 1
SYMMETRY AddrSymmetry
INVARIANTS
    StatsExact
    Unique
    FoundBySpelling
    ComparisonsAgree
PROPERTIES
    TimeoutExact
