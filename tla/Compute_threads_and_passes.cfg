SPECIFICATION ComputeSpec
CONSTANTS
    t1 = t1
    t2 = t2
    t3 = t3
    Threads = {t1, t2, t3}
    NoThread = NoThread
    Sizes = {0, 1, 2}
    max_size_bytes = 3
    MaxHandles = 4
    n_heads = 4
    n_kv_heads = 2
    head_dim = 2
    start_layer = 3
    end_layer = 4
    blocks = {3, 4}
    Inputs <- SomeInputs
    Batches = {1, 2}
    MaxTokens = 4
SYMMETRY ThreadSymmetry
INVARIANTS
    TypeOK
    AccountingIsExact
    HandlesAreUnique
    OverrunIsBounded
    EngineTypeOK
    OutputsAreCausal
    RefusalsAreExact
    DecodeIsFullPass
CHECK_DEADLOCK FALSE
