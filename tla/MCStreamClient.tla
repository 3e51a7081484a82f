--------------------------- MODULE MCStreamClient ---------------------------
(* Instances of StreamClient for TLC. *)
EXTENDS StreamClient

CONSTANTS p1, p2

\* p1 serves all of three layers and p2 the middle one, so that the chains
\* <<p1>> and <<p1, p2, p1>> both occur.
ThreeLayers == <<0, 1, 2>>
MiddleTwice == [w \in {p1, p2} |-> IF w = p1 THEN 0..2 ELSE {1}]
=============================================================================
