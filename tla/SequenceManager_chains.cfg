SPECIFICATION Spec
CONSTANTS
    a = a
    b = b
    c = c
    Peers = {a, b, c}
    NumBlocks = 3
    Offset = 4
    NoClaim = NoClaim
    NS = 4
    Overhead = 4
    Inputs <- FewInputs
    Networks <- FewNetworks
INVARIANTS
    TypeOK
    SpansAreRight
    ChainIsWhole
    ChainIsNearlyCheapest
    NoneMeansNoChain
    BlockChoices
PROPERTIES
    SearchEnds
CHECK_DEADLOCK FALSE
