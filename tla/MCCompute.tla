----------------------------- MODULE MCCompute -----------------------------
(* An instance of Compute for TLC. *)
EXTENDS Compute, MCComputeEngine

\* Threads are only compared for equality.
ThreadSymmetry == Permutations(Threads)
=============================================================================
