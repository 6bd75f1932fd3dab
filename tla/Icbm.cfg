SPECIFICATION FairSpec
CONSTANTS
    NULL = NULL
    Tlvs <- MCTlvs
    MaxTlvs = 3
    NameLens = {5}
    TlvCounts = {0, 2}
    Unwritten = {0, 65531}
    Leftovers <- MCLeftovers
    OtrTexts = {31600, 40000}
INVARIANTS
    Framed
    CutOnlyWhenFull
PROPERTIES
    MessageHandled
