SPECIFICATION FairSpec
CONSTANTS
    KeepaliveFrequency = 2
    TxTimeout = 6
    TimerPeriod = 2
    FlushDelay = 2
    LoginDelay = 2
    TxMax = 2
    SeqMod = 3
PROPERTIES StuckCloses
CHECK_DEADLOCK FALSE
