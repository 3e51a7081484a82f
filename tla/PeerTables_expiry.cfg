SPECIFICATION Spec
CONSTANTS
    p1 = p1
    p2 = p2
    Peers = {p1, p2}
    Layers = {1, 2}
    ttl = 2
    Rtts = {10, 20}
    max_age = 1
    MaxTime = 3
    MaxEntries = 3
INVARIANTS
    OffersAreExact
    RttsAreRecent
PROPERTIES
    FindingKeepsChain
CHECK_DEADLOCK FALSE
