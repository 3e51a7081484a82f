------------------------------- MODULE Client -------------------------------
(***************************************************************************)
(* run_client: resolve a chain, send one forward pass along it, return the *)
(* response, and on an OutboundFailure resolve a new chain, up to          *)
(* MAX_RETRIES times.  The chain of workers is only an outcome here: each  *)
(* request ends in a response or an OutboundFailure.                       *)
(***************************************************************************)
EXTENDS Discovery

VARIABLES
    oversize,   \* the payload is one ForwardPassRequest::build rejects
    requests,   \* [id, to] records: outbound requests with no event yet
    next_id,    \* the next OutboundRequestId
    result,     \* "none" while the loop runs, then "ok" or "err"
    blamed      \* history: the peers that OutboundFailure events named

vars == <<discovery, oversize, requests, next_id, result, blamed>>

TypeOK ==
    /\ DiscoveryTypeOK
    /\ oversize \in BOOLEAN
    /\ requests \subseteq [id : 1..(MaxRetries + 1), to : Peers]
    /\ next_id \in 1..(MaxRetries + 2)
    /\ result \in {"none", "ok", "err"}
    /\ blamed \subseteq Peers

Init ==
    /\ DiscoveryInit
    /\ oversize \in BOOLEAN
    /\ requests = {} /\ next_id = 1 /\ result = "none" /\ blamed = {}

\* The Kademlia arm; when it has just resolved the chain, it builds the
\* request and sends it.  A failing build ends run_client through `?`.
Kademlia ==
    /\ result = "none"
    /\ KadEvent
    /\ IF ChainReady /\ ~oversize
       THEN /\ requests' = requests \cup {[id |-> next_id, to |-> current_chain'[1]]}
            /\ next_id' = next_id + 1
       ELSE UNCHANGED <<requests, next_id>>
    /\ result' = IF ChainReady /\ oversize THEN "err" ELSE result
    /\ UNCHANGED <<oversize, blamed>>

\* A Response event, whatever the response holds, ends the loop.
Response ==
    /\ result = "none"
    /\ requests # {}
    /\ result' = "ok"
    /\ requests' = {}
    /\ UNCHANGED <<discovery, oversize, next_id, blamed>>

OutboundFailure ==
    \E r \in requests :
        /\ result = "none"
        /\ requests' = requests \ {r}
        /\ blamed' = blamed \cup {r.to}
        /\ \/ FailOver(r.to) /\ UNCHANGED result
           \/ retry_count >= MaxRetries /\ result' = "err" /\ UNCHANGED discovery
        /\ UNCHANGED <<oversize, next_id>>

Next == Kademlia \/ Response \/ OutboundFailure
Spec == Init /\ [][Next]_vars

\* Some peer joins the routing table; Kademlia goes on producing events (its
\* periodic bootstrap at the least) and ends every query; the request timeout
\* ends every request.
Fairness ==
    /\ WF_vars(Kademlia /\ RoutingUpdated)
    /\ WF_vars(Kademlia /\ QueryEvent)
    /\ WF_vars(Kademlia /\ OtherKadEvent)
    /\ WF_vars(Response \/ OutboundFailure)
FairSpec == Spec /\ Fairness

-----------------------------------------------------------------------------
(* Properties *)

Call == INSTANCE RemoteCall WITH
    Callers  <- {"client"},
    MaxTries <- MaxRetries + 1,
    tries    <- [c \in {"client"} |-> retry_count + IF chain_built /\ ~oversize THEN 1 ELSE 0],
    busy     <- [c \in {"client"} |-> requests # {} \/ (result # "none" /\ ~oversize)],
    outcome  <- [c \in {"client"} |-> CASE result = "none" -> "none"
                                        [] result = "ok"   -> "answer"
                                        [] result = "err"  -> "error"]

\* Discovery and failover together keep run_client's promise: never two
\* requests at a time, one attempt per resolved chain, an error only after
\* MAX_RETRIES + 1 attempts that each failed.
ImplementsRemoteCall == Call!Spec

\* run_client settles: when each lookup finds a provider it returns in the
\* end, though every step of a failover waits for a Kademlia event.
ClientReturns == <>(result # "none" \/ fruitless # {})

\* swarm.rs:590: "Clear resolved providers so retry re-queries the DHT,
\* skipping failed peers".  failed_peers is never filled and never consulted.
FailedPeersAreSkipped ==
    chain_built /\ result = "none" => Range(current_chain) \cap blamed = {}

\* swarm.rs:536: "Retry Kad queries".  A layer whose lookup found nobody is
\* not looked up again, and the client waits for ever although every layer has
\* been announced since.
LookupsAreRetried ==
    (/\ queries_sent /\ pending_queries = {}
     /\ \E l \in LayerSet : providers[l] = NoPeer
     /\ \A l \in LayerSet : announced[l] # {})
        ~> (~queries_sent \/ pending_queries # {} \/ result # "none")
=============================================================================
