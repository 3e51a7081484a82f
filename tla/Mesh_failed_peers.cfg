SPECIFICATION MeshSpec
CONSTANTS
    p1 = p1
    p2 = p2
    p3 = p3
    Peers = {p1, p2}
    NoPeer = NoPeer
    Layers <- OneLayer
    Serves <- TwoHosts
    MaxProvidedKeys = 1
    LookupFaults = {}
    MaxRetries = 3
INVARIANTS
    FailedPeersAreSkipped
CHECK_DEADLOCK FALSE
