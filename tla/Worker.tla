------------------------------- MODULE Worker -------------------------------
(***************************************************************************)
(* run_worker outside its request_response arms: how a worker joins the    *)
(* network and how the DHT comes to know its layers.  It announces them    *)
(* once, in the Kademlia arm; start_providing only queues the records, and *)
(* the running swarm publishes them one by one.  A worker that ends leaves *)
(* the records published so far behind.                                    *)
(***************************************************************************)
EXTENDS Integers, FiniteSets

CONSTANTS
    Peers, Serves,     \* as in Discovery
    MaxProvidedKeys    \* libp2p's limit on the keys a node provides

VARIABLES
    workers,    \* per worker, its run_worker's locals and its swarm
    announced   \* layer -> the peers with a provider record in the DHT

State == [running : BOOLEAN, bootstrapped : BOOLEAN, bootstrap_triggered : BOOLEAN,
          layers_announced : BOOLEAN, listen_addr : BOOLEAN,
          routing : BOOLEAN,                 \* its routing table has a peer
          queued : SUBSET UNION {Serves[w] : w \in Peers},    \* records not published yet
          stored : BOOLEAN]                  \* its address record was put

Started == [running |-> TRUE, bootstrapped |-> FALSE, bootstrap_triggered |-> FALSE,
            layers_announced |-> FALSE, listen_addr |-> FALSE, routing |-> FALSE,
            queued |-> {}, stored |-> FALSE]
Ended   == [Started EXCEPT !.running = FALSE]

\* peer_addresses, when there are any, are in the routing table from the start.
WorkerInit ==
    workers \in [Peers -> {[Started EXCEPT !.routing = r] : r \in BOOLEAN}]

Becomes(w, state) == workers' = [workers EXCEPT ![w] = state]

\* Mutants: the error of start_providing is ignored; layers_announced is not
\* set; the layers are taken from the first one on.
AnnounceLayersPartly(w, s) ==
    Becomes(w, [s EXCEPT !.queued = {l \in Serves[w] :
                    Cardinality({k \in Serves[w] : k < l}) < MaxProvidedKeys},
                !.layers_announced = TRUE, !.stored = s.listen_addr])
AnnounceLayersAgain(w, s) ==
    Becomes(w, IF Cardinality(Serves[w]) > MaxProvidedKeys THEN Ended
               ELSE [s EXCEPT !.queued = Serves[w], !.stored = @ \/ s.listen_addr])
AnnounceLayersFromZero(w, s) ==
    Becomes(w, IF Cardinality(Serves[w]) > MaxProvidedKeys THEN Ended
               ELSE [s EXCEPT !.queued = UNION {0..l : l \in Serves[w]},
                              !.layers_announced = TRUE, !.stored = s.listen_addr])

\* announce_layers_simple and put_worker_address.  When start_providing fails
\* for one layer, run_worker returns the error before the swarm could publish
\* any.
AnnounceLayers(w, s) ==
    Becomes(w, IF Cardinality(Serves[w]) > MaxProvidedKeys THEN Ended
               ELSE [s EXCEPT !.queued = Serves[w], !.layers_announced = TRUE,
                              !.stored = s.listen_addr])

\* A Kademlia event, is_new_peer for RoutingUpdated { is_new_peer: true }.
Kademlia(w, is_new_peer) ==
    /\ workers[w].running
    /\ is_new_peer => workers[w].routing
    /\ LET s == [workers[w] EXCEPT !.bootstrapped = @ \/ is_new_peer]
       IN  IF s.bootstrapped /\ ~s.layers_announced THEN AnnounceLayers(w, s) ELSE Becomes(w, s)
    /\ UNCHANGED announced

\* The first address only.
NewListenAddr(w) ==
    /\ workers[w].running /\ ~workers[w].listen_addr
    /\ Becomes(w, [workers[w] EXCEPT !.listen_addr = TRUE])
    /\ UNCHANGED announced

\* add_bootstrap_addr, whoever has connected: the first connection only.
ConnectionEstablished(w) ==
    /\ workers[w].running /\ ~workers[w].bootstrap_triggered
    /\ Becomes(w, [workers[w] EXCEPT !.bootstrap_triggered = TRUE, !.routing = TRUE])
    /\ UNCHANGED announced

\* Identify hands a peer's addresses to Kademlia.
Identify(w) ==
    /\ workers[w].running /\ ~workers[w].routing
    /\ Becomes(w, [workers[w] EXCEPT !.routing = TRUE])
    /\ UNCHANGED announced

\* One of the queued records reaches the DHT.
Publish(w) ==
    \E l \in workers[w].queued :
        /\ Becomes(w, [workers[w] EXCEPT !.queued = @ \ {l}])
        /\ announced' = [k \in DOMAIN announced |->
                            IF k = l THEN announced[k] \cup {w} ELSE announced[k]]

Crash(w) ==
    /\ workers[w].running
    /\ Becomes(w, Ended)
    /\ UNCHANGED announced

WorkerStep(w) ==
    \/ \E is_new_peer \in BOOLEAN : Kademlia(w, is_new_peer)
    \/ NewListenAddr(w) \/ ConnectionEstablished(w) \/ Identify(w)
    \/ Publish(w) \/ Crash(w)

\* Kademlia reports what it adds to its routing table, and its publications
\* finish; nothing makes the network connect a worker.
WorkerFairness ==
    \A w \in Peers : WF_<<workers, announced>>(Kademlia(w, TRUE))
                     /\ WF_<<workers, announced>>(Publish(w))

-----------------------------------------------------------------------------
(* Properties *)

WorkersTypeOK == workers \in [Peers -> State]

\* A worker announces once: after the event that bootstraps it, no event makes
\* it provide its layers or put its address again, though each Kademlia event
\* passes the same code and the address may become known only then.
AnnouncedOnce ==
    [][\A w \in Peers : workers[w].bootstrapped /\ workers'[w].running =>
            /\ workers'[w].bootstrapped
            /\ workers'[w].queued \subseteq workers[w].queued
            /\ workers'[w].stored = workers[w].stored]_<<workers, announced>>

\* The DHT never holds half of a worker's layers for good: one that has
\* joined is found under every one of them in the end, or it has ended.
WorkersAreFound ==
    <>[]\A w \in Peers : \/ ~workers[w].running
                         \/ ~workers[w].routing /\ ~workers[w].bootstrap_triggered
                         \/ \A l \in DOMAIN announced \cap Serves[w] : w \in announced[l]
=============================================================================
