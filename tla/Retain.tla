------------------------------- MODULE Retain -------------------------------
(***************************************************************************)
(* Rust's Vec::retain, and an iterator's filter: the elements of a vector  *)
(* that are in `kept`, in their order.                                     *)
(***************************************************************************)
EXTENDS SequencesExt

Retain(seq, kept) ==
    FoldLeft(LAMBDA acc, e : IF e \in kept THEN Append(acc, e) ELSE acc, <<>>, seq)
=============================================================================
