--------------------------- MODULE ComputeEngine ---------------------------
(***************************************************************************)
(* What the blocks are run for: batched_process_terminal_pass, which takes *)
(* the terminal hop's tensor through all the layers a worker has loaded,   *)
(* and decoding token by token with forward_with_kv_cache.  The input is   *)
(* one tensor, as handle_terminal_hop passes it, or several to be stacked. *)
(***************************************************************************)
EXTENDS TransformerBlock

CONSTANTS
    start_layer, end_layer,
    blocks,       \* the layers loaded
    Inputs,       \* the lists of entries: dtype, shape (nowhere 0: what candle
                  \* does with an empty tensor is left out), bytes (their number);
                  \* for no entries at all the call returns no outputs at once
    Batches,      \* the batch sizes of the decoded sequences
    MaxTokens     \* bound: how long they get

ASSUME EngineAssumption ==
    /\ start_layer \in Nat /\ end_layer \in Nat /\ start_layer <= end_layer
    /\ blocks \subseteq Nat /\ Batches \subseteq Nat \ {0} /\ MaxTokens \in Nat
    /\ \A input \in Inputs :
          input # <<>> /\ input \in Seq([dtype : STRING, shape : Seq(Nat \ {0}), bytes : Nat])

VARIABLES
    entries,
    current,      \* the hidden state between two layers
    layer,        \* the next layer to run
    outputs,      \* the rows of the batch, flattened; <<>> after an error
    batch,        \* decoding: the batch size,
    layer_past,   \* the keys and values kept,
    attended,     \* and the attention outputs so far, a tensor per call
    stage

pass       == <<entries, current, layer, outputs>>
decode     == <<batch, layer_past, attended>>
engineVars == <<pass, decode, stage>>

None == <<>>

EngineInit ==
    /\ entries \in Inputs
    /\ current = None /\ layer = start_layer /\ outputs = <<>>
    /\ batch \in Batches /\ layer_past = <<>> /\ attended = <<>>
    /\ stage \in {"decode", "load"}
    /\ stage = "load" => batch = 1                            \* irrelevant there
    /\ stage = "decode" => entries = CHOOSE e \in Inputs : TRUE

-----------------------------------------------------------------------------
ElementSize(dtype) == IF dtype = "F32" THEN 4 ELSE 2

\* Mutant: the number of bytes is not held against the shape.
ReadableUnchecked(e) == TRUE

\* Tensor::from_raw_buffer, with the first entry's dtype whatever the entry's.
Readable(e) == e.bytes \div ElementSize(entries[1].dtype) = Volume(e.shape)

\* Entry number n as a tensor: each element depends on itself only.
FromRawBuffer(n) ==
    [dims |-> entries[n].shape,
     data |-> [i \in 0..(entries[n].bytes \div ElementSize(entries[1].dtype) - 1) |-> {<<n, i>>}]]

\* Mutant: a single tensor is stacked too.
BatchStacked == Stack([n \in DOMAIN entries |-> FromRawBuffer(n)])

\* Several tensors are stacked; a single one has its batch dimension already.
Batch == IF Len(entries) = 1 THEN FromRawBuffer(1)
         ELSE Stack([n \in DOMAIN entries |-> FromRawBuffer(n)])

LoadBatch ==
    /\ stage = "load"
    /\ IF /\ \A n \in DOMAIN entries : Readable(entries[n])
          /\ \A n \in DOMAIN entries : entries[n].shape = entries[1].shape
       THEN current' = Batch /\ stage' = "layers"
       ELSE stage' = "error" /\ UNCHANGED current
    /\ UNCHANGED <<entries, layer, outputs, decode>>

\* forward refuses a layer that is not loaded, what is not three-dimensional
\* or not as wide as the block, and elements that are not f32 as the weights.
RunLayer ==
    /\ stage = "layers" /\ layer <= end_layer
    /\ IF /\ layer \in blocks
          /\ Len(current.dims) = 3 /\ current.dims[3] = hidden_size
          /\ entries[1].dtype = "F32"
       THEN /\ current' = Forward(current)
            /\ layer' = layer + 1
            /\ UNCHANGED stage
       ELSE stage' = "error" /\ UNCHANGED <<current, layer>>
    /\ UNCHANGED <<entries, outputs, decode>>

Flatten(t) == [n \in 1..Volume(t.dims) |-> t.data[n - 1]]

\* An output for each i in 0..dims()[0].
Split(t) == [i \in 1..t.dims[1] |-> Flatten(Part(t, i - 1))]

Finish ==
    /\ stage = "layers" /\ layer > end_layer
    /\ outputs' = Split(current)
    /\ stage' = "done"
    /\ UNCHANGED <<entries, current, layer, decode>>

\* handle_terminal_hop's answer: the first output under the request's shape,
\* or an empty tensor.
Answer == IF stage = "done" THEN [shape |-> entries[1].shape, data |-> outputs[1]]
          ELSE [shape |-> <<>>, data |-> <<>>]

-----------------------------------------------------------------------------
\* The tokens first + 1 .. first + n of each sequence.
Tokens(first, n) ==
    Tabulate(<<batch, n, hidden_size>>, LAMBDA i : {<<i[1], first + i[2]>>})
Rows(calls) == FoldLeft(LAMBDA sum, t : sum + t.dims[2], 0, calls)
Fed == Rows(attended)

\* forward_with_kv_cache on the next n tokens, at their positions.
ForwardWithKvCache ==
    \E n \in 1..(MaxTokens - Fed) :
        LET call == Attention(Tokens(Fed, n), Positions(batch, Fed, n), layer_past)
        IN  /\ stage = "decode"
            /\ attended' = Append(attended, call.output)
            /\ layer_past' = call.kv
            /\ UNCHANGED <<pass, batch, stage>>

EngineNext == LoadBatch \/ RunLayer \/ Finish \/ ForwardWithKvCache
EngineSpec == EngineInit /\ [][EngineNext]_engineVars

-----------------------------------------------------------------------------
(* Properties *)

Cells == {<<n, i>> : n \in DOMAIN entries, i \in 0..(entries[1].bytes - 1)}

EngineTypeOK ==
    /\ stage \in {"decode", "load", "layers", "error", "done"}
    /\ current # None => current.data \in [0..(Volume(current.dims) - 1) -> SUBSET Cells]
    /\ layer \in start_layer..(end_layer + 1)
    /\ outputs # <<>> => stage = "done"

\* Through all the layers, an output depends on every position of its own row
\* of the batch up to its own, and on nothing else: no later position, no
\* other row, no other entry.  Heads are split, transposed, repeated for their
\* group, flattened with the batch and put back together on the way.
OutputsAreCausal ==
    \A r \in DOMAIN outputs : \A i \in DOMAIN outputs[r] :
        LET row     == IF Len(entries) = 1 THEN 1 ELSE r
            offset  == IF Len(entries) = 1 THEN (r - 1) * Len(outputs[r]) ELSE 0
            through == ((i - 1) \div hidden_size + 1) * hidden_size - 1
        IN  outputs[r][i] = {<<row, offset + j>> : j \in 0..through}

\* What the blocks can run on, told from the entries alone: f32 as their
\* weights, which only the first entry has to say; equal shapes with all
\* their elements, whatever bytes short of one more follow; as wide as the
\* blocks; and three dimensions, the batch's included, which stacking adds.
Acceptable ==
    /\ start_layer..end_layer \subseteq blocks
    /\ entries[1].dtype = "F32"
    /\ \A n \in DOMAIN entries : /\ entries[n].shape = entries[1].shape
                                 /\ entries[n].bytes \div 4 = Volume(entries[1].shape)
    /\ Len(entries[1].shape) = IF Len(entries) = 1 THEN 3 ELSE 2
    /\ Last(entries[1].shape) = hidden_size

\* A call fails, and a terminal hop answers with an empty tensor, for exactly
\* the entries that are not acceptable: what the checks of loading, of stacking
\* and of each layer refuse between them is that and nothing else.
RefusalsAreExact ==
    /\ stage = "done"  => Acceptable
    /\ stage = "error" => ~Acceptable

\* swarm.rs:377: "transformer blocks don't change dimensions, so the output
\* shape matches the input".  It does not for a batch of two: the answer has
\* the request's shape, and the elements of the first output only.
OutputShapeMatches ==
    Len(entries) = 1 /\ stage = "done" => Len(Answer.data) = Volume(Answer.shape)

\* What one pass over a whole sequence attends to: token t's output column in
\* head h is made of the scores of t against each token up to t and of their
\* values, in the head's group, each rotated by its own position.
Reference(b, t, col) ==
    LET h == col \div head_dim
        g == h \div n_kv_groups
        half == head_dim \div 2
        Proj(w, u, c) == [w |-> w, col |-> c, deps |-> {<<b, u>>}]
        Rotated(w, u, head) == [d \in 0..(head_dim - 1) |->
            [cos |-> Proj(w, u, head * head_dim + d),
             sin |-> Proj(w, u, head * head_dim + (IF d < half THEN d + half ELSE d - half)),
             neg |-> d < half, freq |-> IF d < half THEN d ELSE d - half, pos |-> u]]
    IN  {[q |-> Rotated("q", t, h), k |-> Rotated("k", u, g),
          v |-> Proj("v", u, g * head_dim + (col % head_dim))] : u \in 0..t}

\* Decoding with the cache gives each token what one pass over the whole
\* sequence would, however the sequence is cut into calls.
DecodeIsFullPass ==
    \A c \in DOMAIN attended :
        LET first == Rows(SubSeq(attended, 1, c - 1))
            out   == attended[c]
        IN  \A b \in 0..(batch - 1), s \in 0..(out.dims[2] - 1), col \in 0..(hidden_size - 1) :
                At(out, <<b, s, col>>) = Reference(b, first + s, col)
=============================================================================
