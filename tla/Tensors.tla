------------------------------ MODULE Tensors ------------------------------
(***************************************************************************)
(* The operations of candle's Tensor that the compute engine is built of.  *)
(* A tensor is its dimensions and its elements in row-major order; indices *)
(* are zero based.  Elements are whatever the caller puts in.              *)
(***************************************************************************)
EXTENDS Integers, SequencesExt

Volume(dims) == FoldLeft(LAMBDA acc, d : acc * d, 1, dims)

\* Row-major numbering of the elements: index tuple <-> number.
Number(dims, idx) == FoldLeft(LAMBDA acc, a : acc * dims[a] + idx[a], 0, [a \in DOMAIN dims |-> a])
Index(dims, n) ==
    [a \in DOMAIN dims |-> (n \div Volume(SubSeq(dims, a + 1, Len(dims)))) % dims[a]]

Tabulate(dims, Element(_)) ==
    [dims |-> dims, data |-> [n \in 0..(Volume(dims) - 1) |-> Element(Index(dims, n))]]
At(t, idx) == t.data[Number(t.dims, idx)]

Reshape(t, dims) == [dims |-> dims, data |-> t.data]

\* transpose(1, 2) of a tensor with four dimensions.
Transpose(t) ==
    Tabulate(<<t.dims[1], t.dims[3], t.dims[2], t.dims[4]>>,
             LAMBDA i : At(t, <<i[1], i[3], i[2], i[4]>>))

\* Tensor::cat of two tensors with four dimensions, along dimension 2.
Cat(t, u) ==
    Tabulate([t.dims EXCEPT ![3] = @ + u.dims[3]],
             LAMBDA i : IF i[3] < t.dims[3] THEN At(t, i)
                        ELSE At(u, [i EXCEPT ![3] = @ - t.dims[3]]))

\* narrow(1, start, len) of a tensor with three dimensions.
Narrow(t, start, len) ==
    Tabulate([t.dims EXCEPT ![2] = len], LAMBDA i : At(t, [i EXCEPT ![2] = @ + start]))

\* get(i): the i-th part along dimension 0.
Part(t, i) == Tabulate(Tail(t.dims), LAMBDA j : At(t, <<i>> \o j))

\* Tensor::stack of tensors with equal dimensions, along a new dimension 0.
Stack(ts) == Tabulate(<<Len(ts)>> \o ts[1].dims, LAMBDA i : At(ts[i[1] + 1], Tail(i)))
=============================================================================
