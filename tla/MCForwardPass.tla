--------------------------- MODULE MCForwardPass ---------------------------
(* Instances of ForwardPass for TLC. *)
EXTENDS ForwardPass

\* The chains of up to MaxHops workers that dedup_chain can produce: no
\* worker is followed by itself, but a chain may come back to a worker.
DedupedChains ==
    {s \in UNION {[1..n -> Workers] : n \in 1..MaxHops} :
        \A i \in 1..(Len(s) - 1) : s[i] # s[i + 1]}
=============================================================================
