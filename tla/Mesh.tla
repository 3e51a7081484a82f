-------------------------------- MODULE Mesh --------------------------------
(***************************************************************************)
(* Workers that join, announce their layers and die, and a client that     *)
(* looks the layers up meanwhile: Worker and Client share the DHT's        *)
(* provider records.  A lookup may come before the announcement, and a     *)
(* chain may be made of workers that have ended.                           *)
(***************************************************************************)
EXTENDS Client

CONSTANT MaxProvidedKeys    \* libp2p's limit on the keys a node provides

ASSUME MeshAssumption ==
    MaxProvidedKeys \in Nat /\ \A w \in Peers : IsFiniteSet(Serves[w])

VARIABLE workers

W == INSTANCE Worker

meshVars == <<vars, workers>>

MeshInit == Init /\ announced = [l \in LayerSet |-> {}] /\ W!WorkerInit

ClientStep == Next /\ UNCHANGED workers
AWorkerStep ==
    /\ \E w \in Peers : W!WorkerStep(w)
    /\ UNCHANGED <<clientDiscovery, oversize, requests, next_id, result, blamed>>

MeshNext == ClientStep \/ AWorkerStep
MeshSpec == MeshInit /\ [][MeshNext]_meshVars
FairMeshSpec == MeshSpec /\ Fairness /\ W!WorkerFairness

-----------------------------------------------------------------------------
(* Properties *)

MeshTypeOK == TypeOK /\ W!WorkersTypeOK

\* See Worker: no event makes a worker announce twice, and one that has joined
\* is found in the end.
AnnouncedOnce   == W!AnnouncedOnce
WorkersAreFound == W!WorkersAreFound
=============================================================================
