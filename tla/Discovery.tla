----------------------------- MODULE Discovery -----------------------------
(***************************************************************************)
(* How a client turns the layers it wants into a chain of workers: one     *)
(* get_providers query per layer, the first provider found for each, and   *)
(* the chain of those with consecutive repetitions collapsed.  run_client  *)
(* and run_stream_client run this same code in their Kademlia arm; their   *)
(* modules extend this one.  The DHT's provider records (`announced`) are  *)
(* read here and written by the workers.                                   *)
(*                                                                         *)
(* All of the checks that start queries and build the chain sit in the     *)
(* Kademlia arm: nothing happens after a failover before the next          *)
(* Kademlia event.                                                         *)
(***************************************************************************)
EXTENDS Integers, FiniteSets, Retain

CONSTANTS
    Layers,       \* the layers asked for, in order (the --chain argument)
    Peers,        \* the workers on the network
    Serves,       \* worker -> its layers, start_layer..=end_layer
    NoPeer,
    LookupFaults, \* the ways a query may end without an announced provider
    MaxRetries    \* MAX_RETRIES

LayerSet == Range(Layers)

ASSUME DiscoveryAssumption ==
    /\ Layers \in Seq(Nat) /\ Layers # <<>>
    /\ Serves \in [Peers -> SUBSET Nat]
    /\ NoPeer \notin Peers
    /\ LookupFaults \subseteq {"none found", "error"}
    /\ MaxRetries \in Nat

VARIABLES
    announced,        \* layer -> the peers with a provider record in the DHT
    bootstrapped, queries_sent, chain_built, retry_count, current_chain,
    providers,        \* layer -> peer, NoPeer for a layer without an entry
    provider_cache,   \* layer -> peers inserted and not evicted (never read)
    pending_queries,  \* [id, layer] records: the queries not resolved yet
    next_query,       \* the next QueryId
    fruitless         \* history: the queries that ended without a provider

clientDiscovery == <<bootstrapped, queries_sent, chain_built, retry_count, current_chain,
                     providers, provider_cache, pending_queries, next_query, fruitless>>
discovery == <<announced, clientDiscovery>>

Query == [id : Nat, layer : LayerSet]

DiscoveryTypeOK ==
    /\ announced \in [LayerSet -> SUBSET Peers]
    /\ {bootstrapped, queries_sent, chain_built} \subseteq BOOLEAN
    /\ retry_count \in 0..MaxRetries
    /\ current_chain \in Seq(Peers)
    /\ providers \in [LayerSet -> Peers \cup {NoPeer}]
    /\ provider_cache \in [LayerSet -> Seq(Peers)]
    /\ pending_queries \subseteq Query /\ fruitless \subseteq Query
    /\ next_query \in 1..(1 + (MaxRetries + 1) * Len(Layers))

DiscoveryInit ==
    /\ bootstrapped = FALSE /\ queries_sent = FALSE /\ chain_built = FALSE
    /\ retry_count = 0 /\ next_query = 1
    /\ current_chain = <<>>
    /\ providers = [l \in LayerSet |-> NoPeer]
    /\ provider_cache = [l \in LayerSet |-> <<>>]
    /\ pending_queries = {} /\ fruitless = {}

-----------------------------------------------------------------------------
\* Mutant: every repetition is dropped, not the consecutive ones only.
DedupChainEverywhere(chain) ==
    FoldLeft(LAMBDA acc, peer : IF peer \in Range(acc) THEN acc ELSE Append(acc, peer),
             <<>>, chain)

DedupChain(chain) ==
    FoldLeft(LAMBDA acc, peer : IF acc # <<>> /\ Last(acc) = peer THEN acc ELSE Append(acc, peer),
             <<>>, chain)

ResolveChain(prov) == DedupChain([i \in DOMAIN Layers |-> prov[Layers[i]]])

\* Mutant: chain_built is not consulted.
ChainReadyAgain ==
    /\ bootstrapped' /\ pending_queries' = {}
    /\ \A l \in LayerSet : providers'[l] # NoPeer

\* The condition under which the Kademlia arm builds the chain, on the state
\* that the event has left.  The chain is never empty then: the code's branch
\* for an empty chain, "Retry Kad queries" included, cannot be reached.
ChainReady ==
    /\ ~chain_built /\ bootstrapped'
    /\ pending_queries' = {}
    /\ \A l \in LayerSet : providers'[l] # NoPeer

\* The end of the Kademlia arm, after the event's own match arm has left
\* `booted`, `found` (providers), `cache` and `pending`.
KadArm(booted, found, cache, pending) ==
    /\ bootstrapped' = booted
    /\ providers' = found
    /\ provider_cache' = cache
    /\ queries_sent' = (queries_sent \/ booted)
    /\ IF booted /\ ~queries_sent
       THEN /\ pending_queries' = pending \cup
                   {[id |-> next_query + i - 1, layer |-> Layers[i]] : i \in DOMAIN Layers}
            /\ next_query' = next_query + Len(Layers)
       ELSE /\ pending_queries' = pending
            /\ UNCHANGED next_query
    /\ chain_built' = (chain_built \/ ChainReady)
    /\ current_chain' = IF ChainReady THEN ResolveChain(found) ELSE current_chain
    /\ UNCHANGED <<announced, retry_count>>

-----------------------------------------------------------------------------
(* The events of the Kademlia arm *)

\* RoutingUpdated { is_new_peer: true }
RoutingUpdated ==
    /\ KadArm(TRUE, providers, provider_cache, pending_queries)
    /\ UNCHANGED fruitless

\* FoundProviders with some provider: the first one of the set is taken.
FoundProviders ==
    \E q \in pending_queries \ fruitless : \E p \in announced[q.layer] :
        /\ KadArm(bootstrapped, [providers EXCEPT ![q.layer] = p],
                  [provider_cache EXCEPT ![q.layer] = Append(@, p)],
                  pending_queries \ {q})
        /\ UNCHANGED fruitless

\* FoundProviders with an empty set, or FinishedWithNoAdditionalRecord: the
\* query is resolved and the layer has no provider.
NoProviders ==
    \E q \in pending_queries \ fruitless :
        /\ announced[q.layer] = {} \/ "none found" \in LookupFaults
        /\ KadArm(bootstrapped, providers, provider_cache, pending_queries \ {q})
        /\ fruitless' = fruitless \cup {q}

\* GetProviders(Err(_)) falls to the last match arm: the query stays pending.
QueryError ==
    \E q \in pending_queries \ fruitless :
        /\ "error" \in LookupFaults
        /\ KadArm(bootstrapped, providers, provider_cache, pending_queries)
        /\ fruitless' = fruitless \cup {q}

\* Any other Kademlia event: only the checks at the end of the arm run.
OtherKadEvent ==
    /\ KadArm(bootstrapped, providers, provider_cache, pending_queries)
    /\ UNCHANGED fruitless

QueryEvent == FoundProviders \/ NoProviders \/ QueryError
KadEvent   == RoutingUpdated \/ QueryEvent \/ OtherKadEvent

\* Mutants: one retry too many; queries_sent is not reset.
FailOverOnceMore(failed) ==
    /\ retry_count <= MaxRetries
    /\ retry_count' = retry_count + 1
    /\ providers' = [l \in LayerSet |-> NoPeer]
    /\ queries_sent' = FALSE /\ chain_built' = FALSE
    /\ current_chain' = <<>>
    /\ UNCHANGED <<announced, bootstrapped, provider_cache, pending_queries, next_query, fruitless>>
FailOverNoRequery(failed) ==
    /\ retry_count < MaxRetries
    /\ retry_count' = retry_count + 1
    /\ providers' = [l \in LayerSet |-> NoPeer]
    /\ chain_built' = FALSE /\ current_chain' = <<>>
    /\ UNCHANGED <<announced, bootstrapped, provider_cache, queries_sent, pending_queries,
                   next_query, fruitless>>

\* What an OutboundFailure from `failed` resets when a retry is left.  Pending
\* queries are not cancelled, and failed_peers gets no entry.
FailOver(failed) ==
    /\ retry_count < MaxRetries
    /\ retry_count' = retry_count + 1
    /\ provider_cache' = [l \in LayerSet |-> Retain(provider_cache[l], Peers \ {failed})]
    /\ providers' = [l \in LayerSet |-> NoPeer]
    /\ queries_sent' = FALSE /\ chain_built' = FALSE
    /\ current_chain' = <<>>
    /\ UNCHANGED <<announced, bootstrapped, pending_queries, next_query, fruitless>>

-----------------------------------------------------------------------------
\* A built chain serves the layers that were asked for, in their order: each
\* layer has a position on the chain, never going back, where a worker that was
\* started with that layer stands; every position serves some layer; and no
\* worker of the chain is its own next hop (a worker cannot dial itself).  It
\* must hold although answers to queries arrive in any order and interleave
\* with failovers and announcements.
ChainServesLayers ==
    chain_built =>
        /\ \E pos \in [DOMAIN Layers -> DOMAIN current_chain] :
             /\ Range(pos) = DOMAIN current_chain
             /\ \A i \in DOMAIN Layers : Layers[i] \in Serves[current_chain[pos[i]]]
             /\ \A i, j \in DOMAIN Layers : i < j => pos[i] <= pos[j]
        /\ \A i \in 1..(Len(current_chain) - 1) : current_chain[i] # current_chain[i + 1]
=============================================================================
