------------------------- MODULE MCSequenceManager -------------------------
(* An instance of SequenceManager, and of BlockSelection on the same records. *)
EXTENDS BlockPlanning

CONSTANTS a, b, c

Info(state) == [state |-> state, claim |-> NoClaim]
Claims(s, e) == [state |-> Online, claim |-> [start |-> s, end |-> e]]

\* What the records of three blocks say of a server: block -> ServerInfo.
Only(s, info) == [i \in s |-> info]
Listings ==
    {Only(s, Info(Online)) : s \in {{0}, {2}, {0, 1}, {1, 2}, {0, 2}, {0, 1, 2}}}
    \cup {Only({0, 1, 2}, Info(Joining)),
          [i \in 0..2 |-> IF i = 1 THEN Info(Online) ELSE Info(Joining)],
          [i \in 0..1 |-> IF i = 0 THEN Info(Joining) ELSE Info(Online)],
          Only({0, 1, 2}, Claims(Offset + 1, Offset + 3)),   \* listed at one block more
          Only({0}, Claims(Offset + 2, Offset + 3))}         \* moved on since

Last2 == {Only(s, Info(Online)) : s \in {{2}, {1, 2}}}

\* Two servers with any listing, and a third one at the last blocks; one of
\* them is as fast as the others together.
Throughput(p) == IF p = b THEN 2 ELSE 1
FewInputs ==
    {[i \in 0..2 |-> [p \in {q \in Peers : i \in DOMAIN l[q]} |->
                        [throughput |-> Throughput(p)] @@ l[p][i]]] :
        l \in {f \in [Peers -> Listings] : f[c] \in Last2}}

\* Delays in quarters of a nanosecond: close enough for truncation to matter.
FewNetworks ==
    {[half_rtt |-> [p \in Peers |-> IF p = a THEN 4 ELSE 3],
      step |-> [p \in Peers |-> IF p = b THEN s ELSE 8],
      hop |-> [pq \in Peers \X Peers |-> d]] : s \in {7, 40}, d \in {3, 4}}
=============================================================================
