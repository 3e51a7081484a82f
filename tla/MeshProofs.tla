----------------------------- MODULE MeshProofs -----------------------------
(***************************************************************************)
(* Proofs about Mesh: a single-shot client and the workers that join, for  *)
(* any layers, workers, lookup faults and number of retries.               *)
(*                                                                         *)
(* The chain serves its layers because the DHT only ever names a worker    *)
(* under a layer it serves, which in turn is so because a worker queues    *)
(* its own layers and no others.  The client keeps run_client's promise    *)
(* because a request is out exactly while a chain stands: discovery,       *)
(* sending and failover are one invariant, MeshInv.                        *)
(***************************************************************************)
EXTENDS Mesh, DiscoveryProofs

\* A worker that was bootstrapped has announced, and queues its own layers.
WorkersInv ==
    /\ W!WorkersTypeOK
    /\ \A w \in Peers : /\ workers[w].queued \subseteq Serves[w]
                        /\ workers[w].bootstrapped => workers[w].layers_announced

\* While run_client's loop runs, a request is out if and only if a chain
\* stands, and no chain stands for a payload that cannot be sent.
RequestsFollowChain ==
    /\ \A r, q \in requests : r = q
    /\ result = "none" => /\ requests # {} <=> chain_built
                          /\ oversize => ~chain_built
    /\ result # "none" => requests = {}

\* The retries account for the requests made and for the result.
RetriesAccount ==
    /\ next_id <= retry_count + 2
    /\ ~chain_built => next_id <= retry_count + 1
    /\ oversize => retry_count = 0 /\ result # "ok"
    /\ result = "err" /\ ~oversize => retry_count = MaxRetries /\ chain_built

MeshInv ==
    /\ DiscoveryInv
    /\ TypeOK
    /\ WorkersInv
    /\ RequestsFollowChain
    /\ RetriesAccount

-----------------------------------------------------------------------------
(* The workers *)

\* What a worker may become without breaking the invariant.
Sound(w, s) ==
    /\ s \in W!State /\ s.queued \subseteq Serves[w]
    /\ s.bootstrapped => s.layers_announced

\* That worker may become it.
LEMMA BecomesSound ==
    ASSUME WorkersInv, NEW w \in Peers, NEW s, Sound(w, s), W!Becomes(w, s)
    PROVE  WorkersInv'
<1>1. workers \in [Peers -> W!State] /\ workers' = [workers EXCEPT ![w] = s]
  BY DEF WorkersInv, W!WorkersTypeOK, W!Becomes
<1>2. W!WorkersTypeOK'
  BY <1>1 DEF Sound, W!WorkersTypeOK
<1>3. \A v \in Peers : Sound(v, workers'[v])
  BY <1>1 DEF WorkersInv, Sound
<1> QED BY <1>2, <1>3 DEF WorkersInv, Sound

\* A worker that has started or ended is sound, and the layers it serves are
\* ones it may queue.
LEMMA SoundStates ==
    ASSUME NEW w \in Peers
    PROVE  /\ \A r \in BOOLEAN : Sound(w, [W!Started EXCEPT !.routing = r])
           /\ Sound(w, W!Ended)
           /\ Serves[w] \subseteq UNION {Serves[v] : v \in Peers}
BY DEF Sound, W!Started, W!Ended, W!State

\* A worker's state is sound, and stays so when a field that is no part of the
\* invariant is set.
LEMMA SoundUpdates ==
    ASSUME WorkersInv, NEW w \in Peers
    PROVE  /\ Sound(w, workers[w])
           /\ Sound(w, [workers[w] EXCEPT !.listen_addr = TRUE])
           /\ Sound(w, [workers[w] EXCEPT !.routing = TRUE])
           /\ Sound(w, [workers[w] EXCEPT !.bootstrap_triggered = TRUE, !.routing = TRUE])
           /\ \A l : Sound(w, [workers[w] EXCEPT !.queued = @ \ {l}])
<1>1. Sound(w, workers[w])
  BY DEF WorkersInv, W!WorkersTypeOK, Sound
<1> QED BY <1>1 DEF Sound, W!State

\* A Kademlia event bootstraps a worker and makes it announce its layers, in
\* this order and at most once; a worker that may not provide them ends.
LEMMA KademliaSound ==
    ASSUME WorkersInv, NEW w \in Peers, NEW is_new_peer \in BOOLEAN,
           W!Kademlia(w, is_new_peer)
    PROVE  WorkersInv' /\ announced' = announced
<1> DEFINE s == [workers[w] EXCEPT !.bootstrapped = @ \/ is_new_peer]
           t == [s EXCEPT !.queued = Serves[w], !.layers_announced = TRUE,
                          !.stored = s.listen_addr]
<1>1. workers[w] \in W!State /\ Sound(w, workers[w])
  BY SoundUpdates DEF Sound
<1>2. s \in W!State /\ t \in W!State /\ t.layers_announced /\ t.queued = Serves[w]
  BY <1>1, SoundStates DEF W!State
<1>3. s.queued \subseteq Serves[w]
  BY <1>1 DEF Sound, W!State
<1>4. /\ IF s.bootstrapped /\ ~s.layers_announced THEN W!AnnounceLayers(w, s)
         ELSE W!Becomes(w, s)
      /\ announced' = announced
  BY DEF W!Kademlia
<1>5. CASE s.bootstrapped /\ ~s.layers_announced
  <2>1. W!AnnounceLayers(w, s)
    BY <1>4, <1>5
  <2>2. W!Becomes(w, W!Ended) \/ W!Becomes(w, t)
    BY <2>1 DEF W!AnnounceLayers
  <2>3. Sound(w, t)
    BY <1>2 DEF Sound
  <2> HIDE DEF t, s
  <2> QED BY <1>4, <2>2, <2>3, SoundStates, BecomesSound
<1>6. CASE ~(s.bootstrapped /\ ~s.layers_announced)
  <2>1. W!Becomes(w, s)
    BY <1>4, <1>6
  <2>2. Sound(w, s)
    BY <1>2, <1>3, <1>6 DEF Sound, W!State
  <2> HIDE DEF s
  <2> QED BY <1>4, <2>1, <2>2, BecomesSound
<1> QED BY <1>5, <1>6

\* Each step of a worker keeps the invariant, and the DHT names it under the
\* layers it serves only.
LEMMA WorkerStepKeeps ==
    ASSUME WorkersInv, announced \in [LayerSet -> SUBSET Peers], AnnouncedServe,
           NEW w \in Peers, W!WorkerStep(w)
    PROVE  WorkersInv' /\ announced' \in [LayerSet -> SUBSET Peers] /\ AnnouncedServe'
<1>1. ASSUME announced' = announced
      PROVE  announced' \in [LayerSet -> SUBSET Peers] /\ AnnouncedServe'
  BY <1>1 DEF AnnouncedServe
<1>2. ASSUME NEW is_new_peer \in BOOLEAN, W!Kademlia(w, is_new_peer)
      PROVE  WorkersInv' /\ announced' \in [LayerSet -> SUBSET Peers] /\ AnnouncedServe'
  BY <1>1, <1>2, KademliaSound
<1>3. CASE W!NewListenAddr(w)
  BY <1>1, <1>3, SoundUpdates, BecomesSound DEF W!NewListenAddr
<1>4. CASE W!ConnectionEstablished(w)
  BY <1>1, <1>4, SoundUpdates, BecomesSound DEF W!ConnectionEstablished
<1>5. CASE W!Identify(w)
  BY <1>1, <1>5, SoundUpdates, BecomesSound DEF W!Identify
<1>6. CASE W!Publish(w)
  <2>1. PICK l \in workers[w].queued :
          /\ W!Becomes(w, [workers[w] EXCEPT !.queued = @ \ {l}])
          /\ announced' = [k \in DOMAIN announced |->
                IF k = l THEN announced[k] \cup {w} ELSE announced[k]]
    BY <1>6 DEF W!Publish
  <2>2. WorkersInv'
    BY <2>1, SoundUpdates, BecomesSound
  <2>3. l \in Serves[w]
    BY <2>1 DEF WorkersInv
  <2> QED BY <2>1, <2>2, <2>3 DEF AnnouncedServe
<1>7. CASE W!Crash(w)
  BY <1>1, <1>7, SoundStates, BecomesSound DEF W!Crash
<1> QED BY <1>2, <1>3, <1>4, <1>5, <1>6, <1>7 DEF W!WorkerStep

-----------------------------------------------------------------------------
(* The client *)

\* The parts of the invariant that only the client's steps change.
ClientInv == DiscoveryInv /\ TypeOK /\ RequestsFollowChain /\ RetriesAccount

\* Types of what the clients' lemmas speak of.
LEMMA ClientTypes ==
    ASSUME TypeOK
    PROVE  /\ retry_count \in 0..MaxRetries /\ MaxRetries \in Nat /\ retry_count \in Nat
           /\ next_id \in Nat \ {0} /\ {chain_built, oversize} \subseteq BOOLEAN
           /\ requests \subseteq [id : 1..(MaxRetries + 1), to : Peers]
           /\ result \in {"none", "ok", "err"} /\ blamed \subseteq Peers
<1>1. MaxRetries \in Nat
  BY DiscoveryAssumption
<1> QED BY <1>1 DEF TypeOK, DiscoveryTypeOK

\* The Kademlia arm: the chain that it builds takes the request with it.
LEMMA KademliaKeeps ==
    ASSUME ClientInv, Kademlia
    PROVE  ClientInv' /\ announced' = announced
<1>1. DiscoveryInv' /\ UNCHANGED <<announced, retry_count>>
      /\ chain_built' = (chain_built \/ ChainReady)
      /\ (ChainReady => current_chain' \in Seq(Peers) /\ current_chain' # <<>>)
  BY KadEventKeeps DEF ClientInv, Kademlia
<1>2. result = "none" /\ oversize' = oversize /\ blamed' = blamed
  BY DEF Kademlia
<1>3. ChainReady => ~chain_built
  BY DEF ChainReady
<1>4. CASE ChainReady /\ ~oversize
  <2>1. /\ requests' = requests \cup {[id |-> next_id, to |-> current_chain'[1]]}
        /\ next_id' = next_id + 1 /\ result' = "none"
    BY <1>2, <1>4 DEF Kademlia
  <2>2. requests = {} /\ next_id <= retry_count + 1
    BY <1>2, <1>3, <1>4 DEF ClientInv, RequestsFollowChain, RetriesAccount
  <2>3. current_chain'[1] \in Peers
    BY <1>1, <1>4
  <2>4. next_id \in 1..(MaxRetries + 1) /\ next_id' \in 1..(MaxRetries + 2)
    BY <2>1, <2>2, ClientTypes DEF ClientInv
  <2>5. TypeOK'
    BY <1>1, <1>2, <2>1, <2>2, <2>3, <2>4 DEF ClientInv, TypeOK, DiscoveryInv
  <2>6. RequestsFollowChain'
    BY <1>1, <1>2, <1>4, <2>1, <2>2 DEF RequestsFollowChain
  <2>7. RetriesAccount'
    <3>1. next_id \in Nat /\ retry_count \in Nat
      BY ClientTypes DEF ClientInv
    <3>2. retry_count' = retry_count /\ chain_built'
      BY <1>1, <1>4
    <3>3. next_id' <= retry_count' + 2
      BY <2>1, <2>2, <3>1, <3>2
    <3> QED BY <1>2, <1>4, <2>1, <3>2, <3>3 DEF RetriesAccount
  <2> QED BY <1>1, <2>5, <2>6, <2>7 DEF ClientInv
<1>5. CASE ChainReady /\ oversize
  <2>1. UNCHANGED <<requests, next_id>> /\ result' = "err"
    BY <1>5 DEF Kademlia
  <2>2. requests = {} /\ next_id <= retry_count + 1
    BY <1>2, <1>3, <1>5 DEF ClientInv, RequestsFollowChain, RetriesAccount
  <2>3. TypeOK'
    BY <1>1, <1>2, <2>1 DEF ClientInv, TypeOK, DiscoveryInv
  <2>4. RequestsFollowChain'
    BY <2>1, <2>2 DEF RequestsFollowChain
  <2>5. RetriesAccount'
    BY <1>1, <1>2, <1>5, <2>1, <2>2, ClientTypes DEF ClientInv, RetriesAccount
  <2> QED BY <1>1, <2>3, <2>4, <2>5 DEF ClientInv
<1>6. CASE ~ChainReady
  <2>1. UNCHANGED <<requests, next_id, result>> /\ chain_built' = chain_built
    BY <1>1, <1>6, ClientTypes DEF ClientInv, Kademlia
  <2>2. TypeOK'
    BY <1>1, <1>2, <2>1 DEF ClientInv, TypeOK, DiscoveryInv
  <2>3. RequestsFollowChain' /\ RetriesAccount'
    BY <1>1, <1>2, <2>1 DEF ClientInv, RequestsFollowChain, RetriesAccount
  <2> QED BY <1>1, <2>2, <2>3 DEF ClientInv
<1> QED BY <1>1, <1>4, <1>5, <1>6, ClientTypes DEF ClientInv

\* A response ends the loop with no request left.
LEMMA ResponseKeeps ==
    ASSUME ClientInv, Response
    PROVE  ClientInv' /\ announced' = announced
<1>1. /\ result = "none" /\ requests # {} /\ result' = "ok" /\ requests' = {}
      /\ UNCHANGED <<discovery, oversize, next_id, blamed>>
  BY DEF Response
<1>2. DiscoveryInv' /\ chain_built' = chain_built /\ retry_count' = retry_count
  BY <1>1, DiscoveryKept DEF ClientInv
<1>3. announced' = announced
  BY <1>1 DEF discovery
<1>4. ~oversize
  BY <1>1 DEF ClientInv, RequestsFollowChain
<1>5. TypeOK'
  BY <1>1, <1>2 DEF ClientInv, TypeOK, DiscoveryInv
<1>6. RequestsFollowChain' /\ RetriesAccount'
  BY <1>1, <1>2, <1>4 DEF ClientInv, RequestsFollowChain, RetriesAccount
<1> QED BY <1>2, <1>3, <1>5, <1>6 DEF ClientInv

\* A failure takes the request and the chain away together, or ends the loop
\* when no retry is left.
LEMMA OutboundFailureKeeps ==
    ASSUME ClientInv, OutboundFailure
    PROVE  ClientInv' /\ announced' = announced
<1>1. PICK r \in requests :
        /\ result = "none"
        /\ requests' = requests \ {r}
        /\ blamed' = blamed \cup {r.to}
        /\ \/ FailOver(r.to) /\ UNCHANGED result
           \/ retry_count >= MaxRetries /\ result' = "err" /\ UNCHANGED discovery
        /\ UNCHANGED <<oversize, next_id>>
  BY DEF OutboundFailure
<1>2. requests' = {} /\ r.to \in Peers /\ chain_built /\ ~oversize
  BY <1>1, ClientTypes DEF ClientInv, RequestsFollowChain
<1>3. CASE FailOver(r.to) /\ UNCHANGED result
  <2>1. DiscoveryInv' /\ chain_built' = FALSE /\ retry_count' = retry_count + 1
    BY <1>3, FailOverKeeps DEF ClientInv
  <2>2. announced' = announced
    BY <1>3 DEF FailOver
  <2>3. TypeOK'
    BY <1>1, <1>2, <1>3, <2>1 DEF ClientInv, TypeOK, DiscoveryInv
  <2>4. RequestsFollowChain'
    BY <1>1, <1>2, <1>3, <2>1 DEF RequestsFollowChain
  <2>5. RetriesAccount'
    BY <1>1, <1>2, <1>3, <2>1, ClientTypes DEF ClientInv, RetriesAccount
  <2> QED BY <2>1, <2>2, <2>3, <2>4, <2>5 DEF ClientInv
<1>4. CASE retry_count >= MaxRetries /\ result' = "err" /\ UNCHANGED discovery
  <2>1. DiscoveryInv' /\ chain_built' = chain_built /\ retry_count' = retry_count
    BY <1>4, DiscoveryKept DEF ClientInv
  <2>2. announced' = announced
    BY <1>4 DEF discovery
  <2>3. TypeOK'
    BY <1>1, <1>2, <1>4, <2>1 DEF ClientInv, TypeOK, DiscoveryInv
  <2>4. RequestsFollowChain'
    BY <1>2, <1>4 DEF RequestsFollowChain
  <2>5. RetriesAccount'
    BY <1>1, <1>2, <1>4, <2>1, ClientTypes DEF ClientInv, RetriesAccount
  <2> QED BY <2>1, <2>2, <2>3, <2>4, <2>5 DEF ClientInv
<1> QED BY <1>1, <1>3, <1>4

-----------------------------------------------------------------------------
(* The invariant of the composition *)

\* The invariant holds initially,
LEMMA MeshInvInit == MeshInit => MeshInv
<1> SUFFICES ASSUME MeshInit PROVE MeshInv
  OBVIOUS
<1>1. announced = [l \in LayerSet |-> {}]
  BY DEF MeshInit
<1>2. DiscoveryInv
  <2>1. AnnouncedServe /\ announced \in [LayerSet -> SUBSET Peers]
    BY <1>1 DEF AnnouncedServe
  <2> QED BY <2>1, DiscoveryInvInit DEF MeshInit, Init
<1>3. 1 \in 1..(MaxRetries + 2)
  <2>1. MaxRetries \in Nat
    BY DiscoveryAssumption
  <2> QED BY <2>1
<1>4. TypeOK
  BY <1>2, <1>3 DEF MeshInit, Init, TypeOK, DiscoveryInv
<1>5. RequestsFollowChain /\ RetriesAccount
  BY DEF MeshInit, Init, DiscoveryInit, RequestsFollowChain, RetriesAccount
<1>6. WorkersInv
  <2>1. workers \in [Peers -> {[W!Started EXCEPT !.routing = r] : r \in BOOLEAN}]
    BY DEF MeshInit, W!WorkerInit
  <2>2. \A w \in Peers : Sound(w, workers[w])
    BY <2>1, SoundStates
  <2>3. workers \in [Peers -> W!State]
    BY <2>1, <2>2 DEF Sound
  <2> QED BY <2>2, <2>3 DEF WorkersInv, W!WorkersTypeOK, Sound
<1> QED BY <1>2, <1>4, <1>5, <1>6 DEF MeshInv

\* is kept by every step,
LEMMA MeshInvStep == MeshInv /\ [MeshNext]_meshVars => MeshInv'
<1> SUFFICES ASSUME MeshInv, [MeshNext]_meshVars PROVE MeshInv'
  OBVIOUS
<1>1. ClientInv /\ WorkersInv /\ AnnouncedServe /\ announced \in [LayerSet -> SUBSET Peers]
  BY DEF MeshInv, ClientInv, DiscoveryInv, DiscoveryTypeOK
<1>2. ASSUME UNCHANGED <<oversize, requests, next_id, result, blamed>>,
             UNCHANGED clientDiscovery, DiscoveryInv', WorkersInv'
      PROVE  MeshInv'
  <2>1. TypeOK'
    BY <1>1, <1>2 DEF ClientInv, TypeOK, DiscoveryInv
  <2>2. RequestsFollowChain' /\ RetriesAccount'
    BY <1>1, <1>2 DEF ClientInv, RequestsFollowChain, RetriesAccount, clientDiscovery
  <2> QED BY <1>2, <2>1, <2>2 DEF MeshInv
<1>3. ASSUME UNCHANGED workers PROVE WorkersInv'
  BY <1>1, <1>3 DEF WorkersInv, W!WorkersTypeOK
<1>4. CASE ClientStep
  <2>1. ClientInv'
    BY <1>1, <1>4, KademliaKeeps, ResponseKeeps, OutboundFailureKeeps DEF ClientStep, Next
  <2> QED BY <1>3, <1>4, <2>1 DEF ClientStep, ClientInv, MeshInv
<1>5. CASE AWorkerStep
  <2>1. PICK w \in Peers : W!WorkerStep(w)
    BY <1>5 DEF AWorkerStep
  <2>2. WorkersInv' /\ announced' \in [LayerSet -> SUBSET Peers] /\ AnnouncedServe'
    BY <1>1, <2>1, WorkerStepKeeps
  <2>3. UNCHANGED clientDiscovery /\ UNCHANGED <<oversize, requests, next_id, result, blamed>>
    BY <1>5 DEF AWorkerStep
  <2>4. DiscoveryInv'
    BY <2>2, <2>3, AnnouncementKeeps DEF MeshInv
  <2> QED BY <1>2, <2>2, <2>3, <2>4
<1>6. CASE UNCHANGED meshVars
  <2>1. UNCHANGED <<oversize, requests, next_id, result, blamed>> /\ UNCHANGED clientDiscovery
        /\ announced' = announced /\ UNCHANGED workers
    BY <1>6 DEF meshVars, vars, discovery
  <2>2. DiscoveryInv'
    BY <1>1, <2>1, AnnouncementKeeps DEF MeshInv, AnnouncedServe
  <2> QED BY <1>2, <1>3, <2>1, <2>2
<1> QED BY <1>4, <1>5, <1>6 DEF MeshNext

\* and holds of the reachable states of the mesh.
THEOREM MeshInvAlways == MeshSpec => []MeshInv
<1>1. MeshInit => MeshInv
  BY MeshInvInit
<1>2. MeshInv /\ [MeshNext]_meshVars => MeshInv'
  BY MeshInvStep
<1> QED BY <1>1, <1>2, PTL DEF MeshSpec

\* Clients, requests and workers keep their types: no request id beyond
\* MAX_RETRIES + 1 is ever used, and no more queries are sent than one per
\* layer and attempt.
THEOREM MeshTypeCorrect == MeshSpec => []MeshTypeOK
<1>1. MeshInv => MeshTypeOK
  BY DEF MeshInv, MeshTypeOK, WorkersInv
<1> QED BY <1>1, MeshInvAlways, PTL

\* A chain that a client has built serves the layers it was asked for in their
\* order, however many layers and workers there are and however lookups,
\* announcements, crashes and failovers interleave.
THEOREM ChainAlwaysServes == MeshSpec => []ChainServesLayers
<1>1. MeshInv => ChainServesLayers
  BY DEF MeshInv, DiscoveryInv, ChainOK
<1> QED BY <1>1, MeshInvAlways, PTL

-----------------------------------------------------------------------------
(* Announcing once *)

\* A worker that has announced its layers keeps the records of them.
LEMMA AnnouncedStays ==
    ASSUME WorkersInv, NEW v \in Peers, W!WorkerStep(v),
           NEW w \in Peers, workers[w].bootstrapped, workers'[w].running
    PROVE  /\ workers'[w].bootstrapped
           /\ workers'[w].queued \subseteq workers[w].queued
           /\ workers'[w].stored = workers[w].stored
<1>1. workers \in [Peers -> W!State] /\ workers[w].layers_announced
  BY DEF WorkersInv, W!WorkersTypeOK
<1>2. ASSUME NEW s, W!Becomes(v, s)
      PROVE  workers'[w] = IF w = v THEN s ELSE workers[w]
  BY <1>1, <1>2 DEF W!Becomes
<1>3. CASE w # v
  <2>1. \E s : W!Becomes(v, s)
    BY DEF W!WorkerStep, W!Kademlia, W!AnnounceLayers, W!NewListenAddr,
           W!ConnectionEstablished, W!Identify, W!Publish, W!Crash
  <2> QED BY <1>2, <1>3, <2>1
<1>4. CASE w = v
  <2> DEFINE old == workers[v]
  <2>1. old \in W!State /\ old.bootstrapped /\ old.layers_announced
    BY <1>1, <1>4
  <2>2. ASSUME NEW is_new_peer \in BOOLEAN, W!Kademlia(v, is_new_peer)
        PROVE  W!Becomes(v, [old EXCEPT !.bootstrapped = @ \/ is_new_peer])
    <3> DEFINE s == [old EXCEPT !.bootstrapped = @ \/ is_new_peer]
    <3>1. s.layers_announced
      BY <2>1 DEF W!State
    <3>2. IF s.bootstrapped /\ ~s.layers_announced THEN W!AnnounceLayers(v, s)
          ELSE W!Becomes(v, s)
      BY <2>2 DEF W!Kademlia
    <3> HIDE DEF s
    <3>3. W!Becomes(v, s)
      BY <3>1, <3>2
    <3> QED BY <3>3 DEF s
  <2>3. CASE W!Crash(v)
    <3>1. workers'[w] = W!Ended
      BY <1>2, <1>4, <2>3 DEF W!Crash
    <3> QED BY <3>1 DEF W!Ended, W!Started
  <2>4. CASE W!Publish(v)
    <3>1. PICK l \in old.queued : W!Becomes(v, [old EXCEPT !.queued = @ \ {l}])
      BY <2>4 DEF W!Publish
    <3>2. workers'[w] = [old EXCEPT !.queued = @ \ {l}]
      BY <1>2, <1>4, <3>1
    <3> QED BY <1>4, <2>1, <3>2 DEF W!State
  <2>5. CASE \E is_new_peer \in BOOLEAN : W!Kademlia(v, is_new_peer)
    <3>1. PICK n \in BOOLEAN : W!Becomes(v, [old EXCEPT !.bootstrapped = @ \/ n])
      BY <2>2, <2>5
    <3>2. workers'[w] = [old EXCEPT !.bootstrapped = @ \/ n]
      BY <1>2, <1>4, <3>1
    <3> QED BY <1>4, <2>1, <3>2 DEF W!State
  <2>6. CASE W!NewListenAddr(v)
    <3>1. workers'[w] = [old EXCEPT !.listen_addr = TRUE]
      BY <1>2, <1>4, <2>6 DEF W!NewListenAddr
    <3> QED BY <1>4, <2>1, <3>1 DEF W!State
  <2>7. CASE W!ConnectionEstablished(v)
    <3>1. workers'[w] = [old EXCEPT !.bootstrap_triggered = TRUE, !.routing = TRUE]
      BY <1>2, <1>4, <2>7 DEF W!ConnectionEstablished
    <3> QED BY <1>4, <2>1, <3>1 DEF W!State
  <2>8. CASE W!Identify(v)
    <3>1. workers'[w] = [old EXCEPT !.routing = TRUE]
      BY <1>2, <1>4, <2>8 DEF W!Identify
    <3> QED BY <1>4, <2>1, <3>1 DEF W!State
  <2> QED BY <2>3, <2>4, <2>5, <2>6, <2>7, <2>8 DEF W!WorkerStep
<1> QED BY <1>3, <1>4

\* After the event that bootstraps a worker, none makes it announce again.
THEOREM WorkersAnnounceOnce == MeshSpec => AnnouncedOnce
<1> DEFINE Stays == \A w \in Peers : workers[w].bootstrapped /\ workers'[w].running =>
                      /\ workers'[w].bootstrapped
                      /\ workers'[w].queued \subseteq workers[w].queued
                      /\ workers'[w].stored = workers[w].stored
<1>1. MeshInv /\ [MeshNext]_meshVars => [Stays]_<<workers, announced>>
  <2> SUFFICES ASSUME MeshInv, [MeshNext]_meshVars PROVE [Stays]_<<workers, announced>>
    OBVIOUS
  <2>1. CASE AWorkerStep
    BY <2>1, AnnouncedStays DEF AWorkerStep, MeshInv
  <2>2. CASE ClientStep
    <3>1. UNCHANGED workers
      BY <2>2 DEF ClientStep
    <3> QED BY <3>1
  <2>3. CASE UNCHANGED meshVars
    BY <2>3 DEF meshVars, vars, discovery
  <2> QED BY <2>1, <2>2, <2>3 DEF MeshNext
<1> QED BY <1>1, MeshInvAlways, PTL DEF MeshSpec, AnnouncedOnce, W!AnnouncedOnce

-----------------------------------------------------------------------------
(* The refinement *)

\* The one caller's part of the abstract state.
Tries   == retry_count + IF chain_built /\ ~oversize THEN 1 ELSE 0
Busy    == requests # {} \/ (result # "none" /\ ~oversize)
Outcome == CASE result = "none" -> "none"
             [] result = "ok"   -> "answer"
             [] result = "err"  -> "error"

\* Changing the one value of a function is changing the function.
LEMMA OnlyCaller ==
    \A x, y : LET f == [c \in {"client"} |-> x]
              IN  f["client"] = x /\ [f EXCEPT !["client"] = y] = [c \in {"client"} |-> y]
OBVIOUS

\* The first state is one of the call.
LEMMA InitImplements == MeshInit => Call!Init
<1> SUFFICES ASSUME MeshInit PROVE Call!Init
  OBVIOUS
<1>1. retry_count = 0 /\ chain_built = FALSE /\ requests = {} /\ result = "none"
  BY DEF MeshInit, Init, DiscoveryInit
<1>2. Tries = 0 /\ Busy = FALSE /\ Outcome = "none"
  BY <1>1 DEF Tries, Busy, Outcome
<1> QED BY <1>2 DEF Call!Init, Tries, Busy, Outcome

\* Nothing that leaves the client's own variables alone is seen.
LEMMA Unseen ==
    ASSUME UNCHANGED <<retry_count, chain_built, oversize, requests, result>>
    PROVE  UNCHANGED Call!vars
BY DEF Call!vars

\* The request that goes out with a chain is an attempt; a payload from which
\* none can be built is rejected before the first.
LEMMA KademliaImplements ==
    ASSUME ClientInv, Kademlia
    PROVE  Call!Attempt("client") \/ Call!Reject("client") \/ UNCHANGED Call!vars
<1>1. /\ retry_count' = retry_count /\ oversize' = oversize /\ result = "none"
      /\ chain_built' = (chain_built \/ ChainReady)
  BY KadEventKeeps DEF ClientInv, Kademlia
<1>2. Outcome = "none"
  BY <1>1 DEF Outcome
<1>3. retry_count \in Nat /\ MaxRetries \in Nat /\ retry_count <= MaxRetries
      /\ chain_built \in BOOLEAN
  BY ClientTypes DEF ClientInv
<1>4. CASE ChainReady /\ ~oversize
  <2>1. /\ requests' = requests \cup {[id |-> next_id, to |-> current_chain'[1]]}
        /\ result' = result
    BY <1>4 DEF Kademlia
  <2>2. ~chain_built /\ requests = {} /\ chain_built'
    BY <1>1, <1>4 DEF ChainReady, ClientInv, RequestsFollowChain
  <2>3. Tries = retry_count /\ Tries' = retry_count + 1 /\ Tries < MaxRetries + 1
    BY <1>1, <1>3, <1>4, <2>2 DEF Tries
  <2>4. Busy = FALSE /\ Busy' = TRUE /\ Outcome' = Outcome
    BY <1>1, <2>1, <2>2 DEF Busy, Outcome
  <2>5. Call!Attempt("client")
    BY <1>2, <2>3, <2>4, OnlyCaller DEF Call!Attempt, Tries, Busy, Outcome
  <2> QED BY <2>5
<1>5. CASE ChainReady /\ oversize
  <2>1. requests' = requests /\ result' = "err"
    BY <1>5 DEF Kademlia
  <2>2. requests = {} /\ retry_count = 0
    BY <1>1, <1>5 DEF ChainReady, ClientInv, RequestsFollowChain, RetriesAccount
  <2>3. Tries = 0 /\ Tries' = Tries /\ Busy' = Busy /\ Outcome' = "error"
    BY <1>1, <1>5, <2>1, <2>2 DEF Tries, Busy, Outcome
  <2>4. Call!Reject("client")
    BY <1>2, <2>3, OnlyCaller DEF Call!Reject, Tries, Busy, Outcome
  <2> QED BY <2>4
<1>6. CASE ~ChainReady
  <2>1. UNCHANGED <<retry_count, chain_built, oversize, requests, result>>
    BY <1>1, <1>3, <1>6 DEF Kademlia
  <2> QED BY <2>1, Unseen
<1> QED BY <1>4, <1>5, <1>6

\* A response is the end of the call.
LEMMA ResponseImplements ==
    ASSUME ClientInv, Response
    PROVE  Call!Return("client")
<1>1. /\ result = "none" /\ requests # {} /\ result' = "ok" /\ requests' = {}
      /\ retry_count' = retry_count /\ chain_built' = chain_built /\ oversize' = oversize
  BY DEF Response, discovery, clientDiscovery
<1>2. ~oversize
  BY <1>1 DEF ClientInv, RequestsFollowChain
<1>3. Busy = TRUE /\ Busy' = TRUE /\ Tries' = Tries /\ Outcome = "none" /\ Outcome' = "answer"
  BY <1>1, <1>2 DEF Busy, Tries, Outcome
<1> QED BY <1>3, OnlyCaller DEF Call!Return, Busy, Tries, Outcome

\* A failure is a failed attempt, or the last one.
LEMMA FailureImplements ==
    ASSUME ClientInv, OutboundFailure
    PROVE  Call!AttemptFails("client") \/ Call!GiveUp("client")
<1>1. PICK r \in requests :
        /\ result = "none"
        /\ requests' = requests \ {r}
        /\ \/ FailOver(r.to) /\ UNCHANGED result
           \/ retry_count >= MaxRetries /\ result' = "err" /\ UNCHANGED discovery
        /\ oversize' = oversize
  BY DEF OutboundFailure
<1>2. requests # {} /\ requests' = {} /\ chain_built /\ ~oversize
  BY <1>1 DEF ClientInv, RequestsFollowChain
<1>3. retry_count \in Nat /\ MaxRetries \in Nat /\ retry_count <= MaxRetries
  BY ClientTypes DEF ClientInv
<1>4. Busy = TRUE /\ Outcome = "none" /\ Tries = retry_count + 1
  BY <1>1, <1>2 DEF Busy, Outcome, Tries
<1>5. CASE FailOver(r.to) /\ UNCHANGED result
  <2>1. retry_count < MaxRetries /\ retry_count' = retry_count + 1 /\ chain_built' = FALSE
    BY <1>5 DEF FailOver
  <2>2. Tries' = retry_count + 1
    BY <1>3, <2>1 DEF Tries
  <2>3. Busy' = FALSE /\ Outcome' = Outcome /\ Tries < MaxRetries + 1
    BY <1>1, <1>2, <1>3, <1>4, <1>5, <2>1 DEF Busy, Outcome
  <2>4. Call!AttemptFails("client")
    BY <1>4, <2>2, <2>3, OnlyCaller DEF Call!AttemptFails, Tries, Busy, Outcome
  <2> QED BY <2>4
<1>6. CASE retry_count >= MaxRetries /\ result' = "err" /\ UNCHANGED discovery
  <2>1. retry_count' = retry_count /\ chain_built' = chain_built
    BY <1>6 DEF discovery, clientDiscovery
  <2>2. Tries' = Tries /\ Tries = MaxRetries + 1
    BY <1>1, <1>3, <1>4, <1>6, <2>1 DEF Tries
  <2>3. Busy' = TRUE /\ Outcome' = "error"
    BY <1>1, <1>2, <1>6 DEF Busy, Outcome
  <2>4. Call!GiveUp("client")
    BY <1>4, <2>2, <2>3, OnlyCaller DEF Call!GiveUp, Tries, Busy, Outcome
  <2> QED BY <2>4
<1> QED BY <1>1, <1>5, <1>6

\* run_client implements the abstract remote call, with discovery, failover
\* and the workers' comings and goings in between.
THEOREM Refinement == MeshSpec => ImplementsRemoteCall
<1>1. MeshInv /\ [MeshNext]_meshVars => [Call!Next]_(Call!vars)
  <2> SUFFICES ASSUME MeshInv, [MeshNext]_meshVars PROVE [Call!Next]_(Call!vars)
    OBVIOUS
  <2>1. ClientInv
    BY DEF MeshInv, ClientInv
  <2>2. CASE ClientStep
    BY <2>1, <2>2, KademliaImplements, ResponseImplements, FailureImplements
       DEF ClientStep, Next, Call!Next
  <2>3. CASE AWorkerStep
    BY <2>3, Unseen DEF AWorkerStep, clientDiscovery
  <2>4. CASE UNCHANGED meshVars
    BY <2>4, Unseen DEF meshVars, vars, discovery, clientDiscovery
  <2> QED BY <2>2, <2>3, <2>4 DEF MeshNext
<1> QED BY <1>1, InitImplements, MeshInvAlways, PTL
        DEF MeshSpec, ImplementsRemoteCall, Call!Spec
=============================================================================
