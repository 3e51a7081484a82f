--------------------------- MODULE ExpiringTable ---------------------------
(***************************************************************************)
(* What a cache with a time to live promises, with no entries, no          *)
(* timestamps and no pruning: each key has the time left for which it is   *)
(* known.  Learning a key again renews it.  ProviderCache and Ping take a  *)
(* step of such a table with each of their own and are compared with it.   *)
(***************************************************************************)
EXTENDS Naturals

CONSTANTS Keys, Ttl

VARIABLE left    \* per key; 0 when it is not known

Init == left = [k \in Keys |-> 0]

Learn(k)  == left' = [left EXCEPT ![k] = Ttl]
Forget(k) == left' = [left EXCEPT ![k] = 0]
Tick      == left' = [k \in Keys |-> IF left[k] = 0 THEN 0 ELSE left[k] - 1]

Next == Tick \/ \E k \in Keys : Learn(k) \/ Forget(k)
Spec == Init /\ [][Next]_left
=============================================================================
