SPECIFICATION FairSpec
CONSTANTS
    p1 = p1
    p2 = p2
    Peers = {p1, p2}
    NoPeer = NoPeer
    Layers <- ThreeLayers
    Serves <- MiddleTwice
    LookupFaults = {"none found", "error"}
    MaxRetries = 3
    MaxTokens = 4
    Oversize = {4}
INVARIANTS
    TypeOK
    ChainServesLayers
    EachPayloadInOnePlace
    InflightIsOutstanding
PROPERTIES
    ImplementsPipeline
    SessionEnds
CHECK_DEADLOCK FALSE
