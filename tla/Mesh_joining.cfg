SPECIFICATION FairMeshSpec
CONSTANTS
    p1 = p1
    p2 = p2
    p3 = p3
    Peers = {p1, p2, p3}
    NoPeer = NoPeer
    Layers <- TwoLayers
    Serves <- OneTooMany
    MaxProvidedKeys = 2
    LookupFaults = {}
    MaxRetries = 1
INVARIANTS
    MeshTypeOK
    ChainServesLayers
PROPERTIES
    AnnouncedOnce
    ImplementsRemoteCall
    WorkersAreFound
    ClientReturns
CHECK_DEADLOCK FALSE
