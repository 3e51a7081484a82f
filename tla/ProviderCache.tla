--------------------------- MODULE ProviderCache ---------------------------
(***************************************************************************)
(* ProviderCache: per layer, a list of providers and the times they were   *)
(* discovered at.  A provider found again is listed again; what is too old *)
(* is passed over when it is read, and removed only by prune_expired.      *)
(***************************************************************************)
EXTENDS Integers, Retain

CONSTANTS
    Layers, Peers,
    ttl,
    MaxTime, MaxEntries    \* bounds: of the clock, and of a layer's entries

ASSUME CacheAssumption == ttl \in Nat /\ MaxTime \in Nat

VARIABLES
    now,        \* the clock behind Instant::now()
    providers,  \* layer -> its entries [peer_id, discovered_at], none of them when
                \* the layer is not in the map
    left        \* history: the table of providers that it should amount to

Table == INSTANCE ExpiringTable WITH Keys <- Layers \X Peers, Ttl <- ttl

CacheInit == now = 0 /\ providers = [l \in Layers |-> <<>>] /\ Table!Init

Entry    == [peer_id : Peers, discovered_at : 0..MaxTime]
Fresh    == {e \in Entry : now - e.discovered_at < ttl}
Of(peer) == {e \in Entry : e.peer_id = peer}

\* Mutant: the newest entry comes first.
InsertInFront(layer, peer) ==
    providers' = [providers EXCEPT ![layer] = <<[peer_id |-> peer, discovered_at |-> now]>> \o @]

Insert(layer, peer) ==
    providers' = [providers EXCEPT ![layer] = Append(@, [peer_id |-> peer, discovered_at |-> now])]

\* Mutant: only the first entry of the peer goes.
EvictOne(layer, peer) ==
    \E i \in DOMAIN providers[layer] :
        /\ providers[layer][i].peer_id = peer
        /\ \A j \in 1..(i - 1) : providers[layer][j].peer_id # peer
        /\ providers' = [providers EXCEPT ![layer] = RemoveAt(@, i)]

Evict(layer, peer) ==
    providers' = [providers EXCEPT ![layer] = Retain(@, Entry \ Of(peer))]

PruneExpired == providers' = [l \in Layers |-> Retain(providers[l], Fresh)]

CacheStep ==
    /\ \/ \E l \in Layers, p \in Peers :
            \/ Len(providers[l]) < MaxEntries /\ Insert(l, p) /\ Table!Learn(<<l, p>>)
            \/ Evict(l, p) /\ Table!Forget(<<l, p>>)
       \/ PruneExpired /\ UNCHANGED left
    /\ UNCHANGED now

-----------------------------------------------------------------------------
None == <<"None">>

GetExcluding(layer, exclude) ==
    LET kept == Retain(providers[layer], {e \in Fresh : e.peer_id \notin exclude})
    IN  [i \in DOMAIN kept |-> kept[i].peer_id]

\* The first candidate of each layer.
BuildChain(layers, exclude) ==
    IF \E i \in DOMAIN layers : GetExcluding(layers[i], exclude) = <<>> THEN None
    ELSE [i \in DOMAIN layers |-> GetExcluding(layers[i], exclude)[1]]

-----------------------------------------------------------------------------
(* Properties *)

\* However often a peer was found, lost to a failure, found again or pruned,
\* it is on offer for a layer from its last discovery until ttl later, unless
\* it was evicted in between.
OffersAreExact ==
    \A l \in Layers, exclude \in SUBSET Peers :
        Range(GetExcluding(l, exclude)) = {p \in Peers \ exclude : left[<<l, p>>] > 0}

\* A chain is made of the providers known longest: as long as none of them is
\* evicted or expires, finding others, or the same ones again, leaves it as it
\* is, so that a retry does not wander between equals.
FindingKeepsChain ==
    [][providers' # providers /\ (\A k \in DOMAIN left : left'[k] >= left[k]) =>
            \A layers \in [1..2 -> Layers], exclude \in SUBSET Peers :
                LET chain == BuildChain(layers, exclude) IN chain \in {None, chain'}
      ]_<<providers, left>>
=============================================================================
