SPECIFICATION Spec
CONSTANTS
    c1 = c1
    w1 = w1
    w2 = w2
    Clients = {c1}
    Workers = {w1, w2}
    Engines = {w1, w2}
    NearLimit = {}
    MaxRetries = 0
    MaxHops = 2
    Chains <- DedupedChains
INVARIANTS
    EveryHopComputes
CHECK_DEADLOCK FALSE
