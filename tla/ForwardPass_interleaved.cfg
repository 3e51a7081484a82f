SPECIFICATION Spec
CONSTANTS
    c1 = c1
    c2 = c2
    w1 = w1
    w2 = w2
    Clients = {c1, c2}
    Workers = {w1, w2}
    Engines = {w2}
    NearLimit = {}
    MaxRetries = 0
    MaxHops = 3
    Chains <- DedupedChains
INVARIANTS
    TypeOK
    AnswersMatchRequests
    ResultsMatchPayloads
    PendingMatchesWaiting
    HeldChannelsHaveOneOwner
CHECK_DEADLOCK FALSE
