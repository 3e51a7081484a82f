------------------------------- MODULE MCMesh -------------------------------
(* Instances of Mesh for TLC. *)
EXTENDS Mesh

CONSTANTS p1, p2, p3

\* p1 serves both layers and p2 the second one, so that chains of one and of
\* two workers occur; p3 has more layers than it may provide.
TwoLayers == <<1, 2>>
OneTooMany == [w \in Peers |-> CASE w = p1 -> 1..2 [] w = p2 -> {2} [] OTHER -> 0..2]

\* The chaos test's network: two workers for one layer.
OneLayer  == <<1>>
TwoHosts  == [w \in {p1, p2} |-> {1}]
=============================================================================
