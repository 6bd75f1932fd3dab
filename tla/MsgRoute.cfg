SPECIFICATION Spec
CONSTANTS
    NULL = NULL
    alice = alice
    bob = bob
    Bot = Bot
    Users = {alice, bob}
    ModuleOption = "M"
    MaxCallbacks = 1
SYMMETRY Symmetry
INVARIANTS
    NestingBounded
    OneCopy
    OtrAskedFirst
    LoggedBeforeSent
    
    BotLive
    HandlersLive
CHECK_DEADLOCK FALSE
