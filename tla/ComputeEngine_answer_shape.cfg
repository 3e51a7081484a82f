SPECIFICATION EngineSpec
CONSTANTS
    n_heads = 4
    n_kv_heads = 2
    head_dim = 2
    start_layer = 3
    end_layer = 4
    blocks = {3, 4}
    Inputs <- SomeInputs
    Batches = {1, 2}
    MaxTokens = 4
INVARIANTS
    OutputShapeMatches
CHECK_DEADLOCK FALSE
