-------------------------- MODULE MCComputeEngine --------------------------
(* An instance of ComputeEngine for TLC. *)
EXTENDS ComputeEngine

Shapes ==
    {<<b, s, hidden_size>> : b \in 1..2, s \in 1..3}
    \cup {<<1, 2 * hidden_size>>,                  \* run_client's: [1, len / 4]
          <<2, hidden_size>>,                      \* a row of a batch of entries
          <<1, 2, hidden_size + 2>>}               \* another model's width

Entry(dtype, shape, size) == [dtype |-> dtype, shape |-> shape, bytes |-> size * Volume(shape)]

\* One entry of any shape, dtype and size of element, or a byte more or less
\* than its elements take; two entries to stack.
SomeInputs ==
    {<<Entry(d, s, n)>> : d \in {"F32", "F16", "BF16"}, s \in Shapes, n \in {2, 4}}
    \cup {<<[e EXCEPT !.bytes = @ + n]>> :
            n \in {-1, 1}, e \in {Entry("F32", s, 4) : s \in Shapes}}
    \cup {<<Entry(d, s, n), Entry(f, t, 4)>> :
            d \in {"F32", "F16"}, f \in {"F32", "F16"}, n \in {2, 4},
            s \in {<<2, hidden_size>>, <<1, 2, hidden_size>>},
            t \in {<<2, hidden_size>>, <<1, hidden_size>>, <<1, 2, hidden_size>>}}
=============================================================================
