SPECIFICATION FairSpec
CONSTANTS
    c1 = c1
    w1 = w1
    w2 = w2
    Clients = {c1}
    Workers = {w1, w2}
    Engines = {w2}
    NearLimit = {c1}
    MaxRetries = 2
    MaxHops = 2
    Chains <- DedupedChains
INVARIANTS
    OneAttemptAtATime
    Amplification
PROPERTIES
    ImplementsRemoteCall
    CallsReturn
    ChannelsDrain
CHECK_DEADLOCK FALSE
