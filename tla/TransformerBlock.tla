-------------------------- MODULE TransformerBlock --------------------------
(***************************************************************************)
(* A transformer block, with the numbers left out: what is kept of an      *)
(* element is what it was computed from.  That is enough to tell whether   *)
(* each reshape, transposition, mask and cache puts every value where it   *)
(* belongs.  A hidden state's element is the set of input cells it depends *)
(* on; a projection mixes the columns of a row.  No user mask is modelled: *)
(* run_worker never passes one.                                            *)
(***************************************************************************)
EXTENDS Tensors

CONSTANTS n_heads, n_kv_heads, head_dim

ASSUME ConfigAssumption ==
    /\ {n_heads, n_kv_heads, head_dim} \subseteq Nat \ {0}
    /\ n_heads % n_kv_heads = 0 /\ head_dim % 2 = 0

hidden_size == n_heads * head_dim
n_kv_groups == n_heads \div n_kv_heads

-----------------------------------------------------------------------------
RowDeps(hidden, b, s) == UNION {At(hidden, <<b, s, c>>) : c \in 0..(hidden_size - 1)}

\* q_proj, k_proj or v_proj of the normalised hidden state.
Project(w, hidden, cols) ==
    Tabulate(<<hidden.dims[1], hidden.dims[2], cols>>,
             LAMBDA i : [w |-> w, col |-> i[3], deps |-> RowDeps(hidden, i[1], i[2])])

\* The projection's columns, a head at a time: [b, heads, seq, head_dim].
Heads(x, n) == Transpose(Reshape(x, <<x.dims[1], x.dims[2], n, head_dim>>))

\* RoPE::apply: each element is rotated, with the one half a head away, by the
\* position of its row.
Rope(x, position_ids) ==
    LET half == head_dim \div 2
    IN  Tabulate(x.dims, LAMBDA i :
            [cos |-> At(x, i), sin |-> At(x, [i EXCEPT ![4] = (@ + half) % head_dim]),
             neg |-> i[4] < half, freq |-> i[4] % half, pos |-> At(position_ids, <<i[1], i[3]>>)])

\* Mutant: the heads are repeated one after the other, not each in place.
RepeatKvTiled(kv) ==
    Tabulate(<<kv.dims[1] * n_kv_groups, kv.dims[2], kv.dims[3]>>,
             LAMBDA i : At(kv, [i EXCEPT ![1] = @ % kv.dims[1]]))

\* repeat_kv: unsqueeze(1), expand, reshape.
RepeatKv(kv) ==
    Reshape(Tabulate(<<kv.dims[1], n_kv_groups, kv.dims[2], kv.dims[3]>>,
                     LAMBDA i : At(kv, <<i[1], i[3], i[4]>>)),
            <<kv.dims[1] * n_kv_groups, kv.dims[2], kv.dims[3]>>)

\* Mutant: the rows of the mask are taken from its start.
AttentionMaskFirstRows(b_times_heads, seq_len, past_len) ==
    Narrow(Tabulate(<<b_times_heads, past_len + seq_len, past_len + seq_len>>,
                    LAMBDA i : i[3] > i[2]), 0, seq_len)

\* compute_attention_mask; TRUE where the code has minus infinity.
AttentionMask(b_times_heads, seq_len, past_len) ==
    Narrow(Tabulate(<<b_times_heads, past_len + seq_len, past_len + seq_len>>,
                    LAMBDA i : i[3] > i[2]), past_len, seq_len)

\* Scores, mask, softmax and the product with v: what an element is made of
\* are the pairs of a score and a value that the mask leaves.
Attend(q, k, v, mask) ==
    LET Row(x, h, s) == [d \in 0..(head_dim - 1) |-> At(x, <<h, s, d>>)]
    IN  Tabulate(q.dims, LAMBDA i :
            {[q |-> Row(q, i[1], i[2]), k |-> Row(k, i[1], j), v |-> At(v, <<i[1], j, i[3]>>)] :
                j \in {j \in 0..(k.dims[2] - 1) : ~At(mask, <<i[1], i[2], j>>)}})

\* The attention of forward_inner, up to o_proj, and the keys and values it
\* returns.  layer_past is <<>> or a pair of a key and a value tensor.
Attention(hidden, position_ids, layer_past) ==
    LET b    == hidden.dims[1]
        seq  == hidden.dims[2]
        q    == Rope(Heads(Project("q", hidden, n_heads * head_dim), n_heads), position_ids)
        k    == Rope(Heads(Project("k", hidden, n_kv_heads * head_dim), n_kv_heads), position_ids)
        v    == Heads(Project("v", hidden, n_kv_heads * head_dim), n_kv_heads)
        past == IF layer_past = <<>> THEN 0 ELSE layer_past[1].dims[3]
        keys == IF layer_past = <<>> THEN k ELSE Cat(layer_past[1], k)
        vals == IF layer_past = <<>> THEN v ELSE Cat(layer_past[2], v)
        Flat(x, n) == Reshape(x, <<b * n, x.dims[3], head_dim>>)
        out  == Attend(Flat(q, n_heads), RepeatKv(Flat(keys, n_kv_heads)),
                       RepeatKv(Flat(vals, n_kv_heads)), AttentionMask(b * n_heads, seq, past))
    IN  [output |-> Reshape(Transpose(Reshape(out, <<b, n_heads, seq, head_dim>>)),
                            <<b, seq, hidden_size>>),
         kv     |-> <<keys, vals>>]

Positions(b, first, seq) == Tabulate(<<b, seq>>, LAMBDA i : first + i[2])

\* TransformerBlock::forward: attention, o_proj, the residuals and the MLP,
\* which work on each row for itself.
Forward(hidden) ==
    LET attn == Attention(hidden, Positions(hidden.dims[1], 0, hidden.dims[2]), <<>>).output
        DepsOf(e) == UNION {p.q[0].cos.deps \cup p.k[0].cos.deps \cup p.v.deps : p \in e}
    IN  Tabulate(hidden.dims, LAMBDA i :
            RowDeps(hidden, i[1], i[2])
                \cup UNION {DepsOf(At(attn, <<i[1], i[2], c>>)) : c \in 0..(hidden_size - 1)})
=============================================================================
