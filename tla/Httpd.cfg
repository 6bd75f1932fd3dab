SPECIFICATION FairSpec
CONSTANTS
    NULL = NULL
    NONE = NONE
    ANY = ANY
    c1 = c1
    a = a
    Conns = {c1}
    Ports = {80, 5190}
    Addrs = {a}
    Mods = {"httpd", "timps-oscar"}
    Confs <- MCConfs
    Lengths = {0, 1, 1024, 1025, 2048, 2049}
    TxMax = 3
    MaxPieces = 3
    Timeout = 2
INVARIANTS
    EofNoticed
    DetectedOrOwned
    ReadFits
    OneRequest
    ListenersFollowConf
PROPERTIES
    UnownedEnds
    AnsweredEnds
