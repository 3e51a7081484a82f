--------------------------- MODULE PeerTablesProofs ---------------------------
(***************************************************************************)
(* Proofs about PeerTables, for any peers, layers, times to live, and      *)
(* lengths of the lists.  Both tables hold timestamps and are compared     *)
(* with a table of the time that each key has left; the invariant is what  *)
(* a timestamp says of the time left.                                      *)
(***************************************************************************)
EXTENDS PeerTables, FoldLemmas

\* The time that an entry has left, negative when it has expired.
Remaining(e) == ttl - (now - e.discovered_at)

CacheTypes ==
    /\ now \in 0..MaxTime
    /\ providers \in [Layers -> Seq(Entry)]
    /\ left \in [Layers \X Peers -> Nat]

\* The entries of a layer, as a set.
Listed(l) == Range(providers[l])

\* No entry is from the future.  A provider has the time left that some entry
\* of it has, and none of its entries has more.
EntriesTell ==
    \A l \in Layers :
        /\ \A e \in Listed(l) : /\ e.discovered_at <= now
                                /\ Remaining(e) <= left[<<l, e.peer_id>>]
        /\ \A p \in Peers : left[<<l, p>>] > 0 =>
              \E e \in Listed(l) : e.peer_id = p /\ Remaining(e) = left[<<l, p>>]

CacheInv == CacheTypes /\ EntriesTell

\* The two maps of round-trip times have the same keys, and the time of a
\* measurement says for how long it is recent.
PingInv ==
    /\ now \in Nat
    /\ DOMAIN rtts = DOMAIN last_ping /\ DOMAIN rtts \subseteq Peers
    /\ \A p \in DOMAIN last_ping : last_ping[p] \in 0..now
    /\ recent \in [Peers -> Nat]
    /\ \A p \in DOMAIN last_ping :
          recent[p] = IF now - last_ping[p] <= max_age
                      THEN max_age + 1 - (now - last_ping[p]) ELSE 0
    /\ \A p \in Peers \ DOMAIN last_ping : recent[p] = 0

PeerTablesInv == CacheInv /\ PingInv

-----------------------------------------------------------------------------
(* The provider cache *)

\* Types of what the proofs speak of.
LEMMA CacheFacts ==
    ASSUME CacheTypes
    PROVE  /\ ttl \in Nat /\ MaxTime \in Nat /\ now \in Nat /\ now \in 0..MaxTime
           /\ \A l \in Layers : /\ providers[l] \in Seq(Entry) /\ Listed(l) \subseteq Entry
                                /\ \A p \in Peers : left[<<l, p>>] \in Nat
           /\ \A e \in Entry : e.discovered_at \in Nat /\ e.peer_id \in Peers
<1>1. ttl \in Nat /\ MaxTime \in Nat
  BY CacheAssumption
<1>2. ASSUME NEW l \in Layers
      PROVE  /\ providers[l] \in Seq(Entry) /\ Listed(l) \subseteq Entry
             /\ \A p \in Peers : left[<<l, p>>] \in Nat
  <2>1. providers[l] \in Seq(Entry)
    BY DEF CacheTypes
  <2>2. Listed(l) \subseteq Entry
    BY <2>1 DEF Listed, Range
  <2>3. \A p \in Peers : left[<<l, p>>] \in Nat
    BY DEF CacheTypes
  <2> QED BY <2>1, <2>2, <2>3
<1>3. \A e \in Entry : e.discovered_at \in Nat /\ e.peer_id \in Peers
  BY <1>1 DEF Entry
<1> QED BY <1>1, <1>2, <1>3 DEF CacheTypes

\* A discovery adds an entry with the whole time left.
LEMMA InsertKeeps ==
    ASSUME CacheInv, NEW l \in Layers, NEW p \in Peers,
           Insert(l, p), Table!Learn(<<l, p>>), now' = now
    PROVE  CacheInv'
<1> DEFINE e == [peer_id |-> p, discovered_at |-> now]
<1>1. CacheTypes /\ EntriesTell
  BY DEF CacheInv
<1>2. e \in Entry /\ e.peer_id = p /\ e.discovered_at = now
  BY <1>1, CacheFacts DEF Entry
<1> HIDE DEF e
<1>3. providers' = [providers EXCEPT ![l] = Append(@, e)]
  BY DEF Insert, e
<1>4. left' = [left EXCEPT ![<<l, p>>] = ttl]
  BY DEF Table!Learn
<1>5. Append(providers[l], e) \in Seq(Entry)
      /\ Range(Append(providers[l], e)) = Listed(l) \cup {e}
  BY <1>1, <1>2, CacheFacts, AppendFacts DEF Listed
<1>6. CacheTypes'
  BY <1>1, <1>3, <1>4, <1>5, CacheFacts DEF CacheTypes
<1>7. ASSUME NEW m \in Layers
      PROVE  Listed(m)' = IF m = l THEN Listed(l) \cup {e} ELSE Listed(m)
  BY <1>1, <1>3, <1>5 DEF Listed, CacheTypes
<1>8. ASSUME NEW m \in Layers, NEW q \in Peers
      PROVE  left'[<<m, q>>] = IF m = l /\ q = p THEN ttl ELSE left[<<m, q>>]
  BY <1>1, <1>4 DEF CacheTypes
<1>9. \A d \in Entry : Remaining(d)' = Remaining(d)
  BY DEF Remaining
<1>10. Remaining(e) = ttl
  BY <1>1, <1>2, CacheFacts DEF Remaining
<1>11. \A m \in Layers : \A d \in Listed(m) : /\ d.discovered_at <= now /\ d.peer_id \in Peers
                                              /\ Remaining(d) <= left[<<m, d.peer_id>>]
                                              /\ Remaining(d) <= ttl /\ d \in Entry
  <2> SUFFICES ASSUME NEW m \in Layers, NEW d \in Listed(m)
               PROVE  /\ d.discovered_at <= now /\ d.peer_id \in Peers
                      /\ Remaining(d) <= left[<<m, d.peer_id>>]
                      /\ Remaining(d) <= ttl /\ d \in Entry
    OBVIOUS
  <2>1. /\ d.discovered_at <= now /\ Remaining(d) <= left[<<m, d.peer_id>>]
        /\ d \in Entry /\ d.peer_id \in Peers
        /\ d.discovered_at \in Nat
    BY <1>1, CacheFacts DEF EntriesTell
  <2>2. Remaining(d) <= ttl
    BY <1>1, <2>1, CacheFacts DEF Remaining
  <2> QED BY <2>1, <2>2
<1>12. ASSUME NEW m \in Layers, NEW d \in Listed(m)'
       PROVE  d.discovered_at <= now' /\ Remaining(d)' <= left'[<<m, d.peer_id>>]
  <2>1. CASE m = l /\ d = e
    BY <1>1, <1>2, <1>8, <1>9, <1>10, <2>1, CacheFacts
  <2>2. CASE d \in Listed(m)
    BY <1>8, <1>9, <1>11, <2>2
  <2> QED BY <1>7, <2>1, <2>2
<1>13. ASSUME NEW m \in Layers, NEW q \in Peers, left'[<<m, q>>] > 0
       PROVE  \E d \in Listed(m)' : d.peer_id = q /\ Remaining(d)' = left'[<<m, q>>]
  <2>1. CASE m = l /\ q = p
    BY <1>2, <1>7, <1>8, <1>9, <1>10, <2>1
  <2>2. CASE ~(m = l /\ q = p)
    <3>1. left'[<<m, q>>] = left[<<m, q>>]
      BY <1>8, <2>2
    <3>2. PICK d \in Listed(m) : d.peer_id = q /\ Remaining(d) = left[<<m, q>>]
      BY <1>1, <1>13, <3>1 DEF EntriesTell
    <3>3. d \in Listed(m)' /\ Remaining(d)' = Remaining(d)
      BY <1>7, <1>9, <1>11
    <3> QED BY <3>1, <3>2, <3>3
  <2> QED BY <2>1, <2>2
<1> QED BY <1>6, <1>12, <1>13 DEF CacheInv, EntriesTell

\* Retaining entries in a layer keeps the types, and what is listed.
LEMMA RetainListed ==
    ASSUME CacheTypes, NEW l \in Layers, NEW kept
    PROVE  /\ Retain(providers[l], kept) \in Seq(Entry)
           /\ Range(Retain(providers[l], kept)) = Listed(l) \cap kept
BY CacheFacts, RetainFacts DEF Listed

\* An eviction leaves no entry of the peer for the layer.
LEMMA EvictKeeps ==
    ASSUME CacheInv, NEW l \in Layers, NEW p \in Peers,
           Evict(l, p), Table!Forget(<<l, p>>), now' = now
    PROVE  CacheInv'
<1> DEFINE kept == Entry \ Of(p)
<1>1. CacheTypes /\ EntriesTell
  BY DEF CacheInv
<1>2. providers' = [providers EXCEPT ![l] = Retain(@, kept)]
  BY DEF Evict
<1>3. left' = [left EXCEPT ![<<l, p>>] = 0]
  BY DEF Table!Forget
<1>4. \A d \in Entry : d \in kept <=> d.peer_id # p
  BY DEF Of
<1> HIDE DEF kept
<1>5. CacheTypes'
  BY <1>1, <1>2, <1>3, RetainListed DEF CacheTypes
<1>6. ASSUME NEW m \in Layers
      PROVE  Listed(m)' = IF m = l THEN Listed(l) \cap kept ELSE Listed(m)
  BY <1>1, <1>2, RetainListed DEF Listed, CacheTypes
<1>7. ASSUME NEW m \in Layers, NEW q \in Peers
      PROVE  left'[<<m, q>>] = IF m = l /\ q = p THEN 0 ELSE left[<<m, q>>]
  BY <1>1, <1>3 DEF CacheTypes
<1>8. \A d : Remaining(d)' = Remaining(d)
  BY DEF Remaining
<1>9. ASSUME NEW m \in Layers, NEW d \in Listed(m)'
      PROVE  d.discovered_at <= now' /\ Remaining(d)' <= left'[<<m, d.peer_id>>]
  <2>1. d \in Listed(m) /\ d \in Entry /\ d.peer_id \in Peers /\ (m = l => d.peer_id # p)
    BY <1>1, <1>4, <1>6, CacheFacts
  <2>2. left'[<<m, d.peer_id>>] = left[<<m, d.peer_id>>]
    BY <1>7, <2>1
  <2> QED BY <1>1, <1>8, <2>1, <2>2 DEF EntriesTell
<1>10. ASSUME NEW m \in Layers, NEW q \in Peers, left'[<<m, q>>] > 0
       PROVE  \E d \in Listed(m)' : d.peer_id = q /\ Remaining(d)' = left'[<<m, q>>]
  <2>1. ~(m = l /\ q = p)
    BY <1>7, <1>10
  <2>2. left'[<<m, q>>] = left[<<m, q>>]
    BY <1>7, <2>1
  <2>3. PICK d \in Listed(m) : d.peer_id = q /\ Remaining(d) = left[<<m, q>>]
    BY <1>1, <1>10, <2>2 DEF EntriesTell
  <2>4. d \in Entry
    BY <1>1, CacheFacts
  <2>5. d \in Listed(m)'
    BY <1>4, <1>6, <2>1, <2>3, <2>4
  <2> QED BY <1>8, <2>2, <2>3, <2>5
<1> QED BY <1>5, <1>9, <1>10 DEF CacheInv, EntriesTell

\* What is pruned had no time left.
LEMMA PruneKeeps ==
    ASSUME CacheInv, PruneExpired, left' = left, now' = now
    PROVE  CacheInv'
<1>1. CacheTypes /\ EntriesTell
  BY DEF CacheInv
<1>2. CacheTypes'
  BY <1>1, RetainListed DEF CacheTypes, PruneExpired
<1>3. ASSUME NEW m \in Layers PROVE Listed(m)' = Listed(m) \cap Fresh
  BY <1>1, RetainListed DEF Listed, PruneExpired
<1>4. \A d : Remaining(d)' = Remaining(d)
  BY DEF Remaining
<1>5. ASSUME NEW m \in Layers, NEW d \in Listed(m), Remaining(d) > 0 PROVE d \in Listed(m)'
  <2>1. d \in Entry /\ d.discovered_at \in Nat /\ now \in Nat /\ ttl \in Nat
    BY <1>1, CacheFacts
  <2>2. now - d.discovered_at < ttl
    BY <1>5, <2>1 DEF Remaining
  <2> QED BY <1>3, <2>1, <2>2 DEF Fresh
<1>6. \A m \in Layers : \A d \in Listed(m)' :
         d.discovered_at <= now' /\ Remaining(d)' <= left'[<<m, d.peer_id>>]
  BY <1>1, <1>3, <1>4 DEF EntriesTell
<1>7. ASSUME NEW m \in Layers, NEW q \in Peers, left'[<<m, q>>] > 0
      PROVE  \E d \in Listed(m)' : d.peer_id = q /\ Remaining(d)' = left'[<<m, q>>]
  <2>1. PICK d \in Listed(m) : d.peer_id = q /\ Remaining(d) = left[<<m, q>>]
    BY <1>1, <1>7 DEF EntriesTell
  <2> QED BY <1>4, <1>5, <1>7, <2>1
<1> QED BY <1>2, <1>6, <1>7 DEF CacheInv, EntriesTell

\* Time takes from every entry what it takes from the key.
LEMMA CacheTickKeeps ==
    ASSUME CacheInv, now < MaxTime, now' = now + 1, Table!Tick, providers' = providers
    PROVE  CacheInv'
<1>1. CacheTypes /\ EntriesTell
  BY DEF CacheInv
<1>2. now \in Nat /\ MaxTime \in Nat /\ ttl \in Nat /\ now' \in 0..MaxTime
  BY <1>1, CacheFacts
<1>3. left' = [k \in Layers \X Peers |-> IF left[k] = 0 THEN 0 ELSE left[k] - 1]
  BY DEF Table!Tick
<1>4. CacheTypes'
  BY <1>1, <1>2, <1>3 DEF CacheTypes
<1>5. \A m \in Layers : Listed(m)' = Listed(m)
  BY DEF Listed
<1>6. ASSUME NEW m \in Layers, NEW q \in Peers
      PROVE  /\ left[<<m, q>>] \in Nat
             /\ left'[<<m, q>>] = IF left[<<m, q>>] = 0 THEN 0 ELSE left[<<m, q>>] - 1
  BY <1>1, <1>3, CacheFacts
<1>7. \A d \in Entry : Remaining(d)' = Remaining(d) - 1 /\ Remaining(d) \in Int
  BY <1>1, <1>2, CacheFacts DEF Remaining
<1>8. ASSUME NEW m \in Layers, NEW d \in Listed(m)'
      PROVE  d.discovered_at <= now' /\ Remaining(d)' <= left'[<<m, d.peer_id>>]
  <2>1. d \in Listed(m) /\ d \in Entry /\ d.peer_id \in Peers /\ d.discovered_at \in Nat
    BY <1>1, <1>5, CacheFacts
  <2>2. d.discovered_at <= now /\ Remaining(d) <= left[<<m, d.peer_id>>]
    BY <1>1, <2>1 DEF EntriesTell
  <2>3. d.discovered_at <= now'
    BY <1>2, <2>1, <2>2
  <2>4. Remaining(d)' <= left'[<<m, d.peer_id>>]
    BY <1>6, <1>7, <2>1, <2>2
  <2> QED BY <2>3, <2>4
<1>9. ASSUME NEW m \in Layers, NEW q \in Peers, left'[<<m, q>>] > 0
      PROVE  \E d \in Listed(m)' : d.peer_id = q /\ Remaining(d)' = left'[<<m, q>>]
  <2>1. left[<<m, q>>] > 0 /\ left'[<<m, q>>] = left[<<m, q>>] - 1
    BY <1>6, <1>9
  <2>2. PICK d \in Listed(m) : d.peer_id = q /\ Remaining(d) = left[<<m, q>>]
    BY <1>1, <2>1 DEF EntriesTell
  <2>3. d \in Entry
    BY <1>1, CacheFacts
  <2> QED BY <1>5, <1>7, <2>1, <2>2, <2>3
<1> QED BY <1>4, <1>8, <1>9 DEF CacheInv, EntriesTell

-----------------------------------------------------------------------------
(* The round-trip times *)

\* A ping replaces the time of the last one in both maps.
LEMMA RecordRttKeeps ==
    ASSUME PingInv, NEW p \in Peers, NEW r, Pings!RecordRtt(p, r), Pings!Table!Learn(p),
           now' = now
    PROVE  PingInv'
<1>1. max_age \in Nat
  BY PingAssumption
<1>2. /\ DOMAIN rtts' = DOMAIN rtts \cup {p} /\ DOMAIN last_ping' = DOMAIN last_ping \cup {p}
      /\ \A q \in DOMAIN last_ping' : last_ping'[q] = IF q = p THEN now ELSE last_ping[q]
  BY DEF Pings!RecordRtt
<1>3. recent' = [recent EXCEPT ![p] = max_age + 1]
  BY DEF Pings!Table!Learn
<1>4. recent' \in [Peers -> Nat] /\ \A q \in Peers : recent'[q] = IF q = p THEN max_age + 1
                                                                 ELSE recent[q]
  BY <1>1, <1>3 DEF PingInv
<1>5. DOMAIN rtts' = DOMAIN last_ping' /\ DOMAIN rtts' \subseteq Peers
  BY <1>2 DEF PingInv
<1>6. \A q \in DOMAIN last_ping' : last_ping'[q] \in 0..now'
  BY <1>2 DEF PingInv
<1>7. ASSUME NEW q \in DOMAIN last_ping'
      PROVE  recent'[q] = IF now' - last_ping'[q] <= max_age
                          THEN max_age + 1 - (now' - last_ping'[q]) ELSE 0
  <2>1. CASE q = p
    BY <1>1, <1>2, <1>4, <2>1 DEF PingInv
  <2>2. CASE q # p
    BY <1>2, <1>4, <1>5, <2>2 DEF PingInv
  <2> QED BY <2>1, <2>2
<1>8. \A q \in Peers \ DOMAIN last_ping' : recent'[q] = 0
  BY <1>2, <1>4 DEF PingInv
<1> QED BY <1>4, <1>5, <1>6, <1>7, <1>8 DEF PingInv

\* What retain_recent drops was stale.
LEMMA RetainRecentKeeps ==
    ASSUME PingInv, Pings!RetainRecent, recent' = recent, now' = now
    PROVE  PingInv'
<1> DEFINE kept == DOMAIN rtts \ {p \in DOMAIN rtts : Pings!Stale(p)}
<1>1. max_age \in Nat
  BY PingAssumption
<1>2. DOMAIN last_ping = DOMAIN rtts
  BY DEF PingInv
<1>3. rtts' = [p \in kept |-> rtts[p]] /\ last_ping' = [p \in kept |-> last_ping[p]]
  BY <1>2 DEF Pings!RetainRecent, Pings!Restrict
<1>4. \A p \in DOMAIN rtts \ kept : now - last_ping[p] > max_age
  BY <1>2 DEF Pings!Stale
<1>5. kept \subseteq DOMAIN rtts
  OBVIOUS
<1> HIDE DEF kept
<1>6. \A p \in DOMAIN rtts \ kept : recent[p] = 0
  BY <1>1, <1>2, <1>4 DEF PingInv
<1>7. \A p \in Peers \ DOMAIN last_ping' : recent'[p] = 0
  BY <1>2, <1>3, <1>6 DEF PingInv
<1>8. DOMAIN rtts' = DOMAIN last_ping' /\ DOMAIN rtts' \subseteq Peers
  BY <1>3, <1>5 DEF PingInv
<1>9. \A p \in DOMAIN last_ping' : last_ping'[p] = last_ping[p] /\ p \in DOMAIN last_ping
  BY <1>2, <1>3, <1>5
<1> QED BY <1>7, <1>8, <1>9 DEF PingInv

\* Time makes every measurement older.
LEMMA PingTickKeeps ==
    ASSUME PingInv, now' = now + 1, Pings!Table!Tick, UNCHANGED <<rtts, last_ping>>
    PROVE  PingInv'
<1>1. max_age \in Nat /\ now \in Nat
  BY PingAssumption DEF PingInv
<1>2. recent' = [p \in Peers |-> IF recent[p] = 0 THEN 0 ELSE recent[p] - 1]
  BY DEF Pings!Table!Tick
<1>3. recent' \in [Peers -> Nat]
  BY <1>2 DEF PingInv
<1>4. ASSUME NEW p \in DOMAIN last_ping'
      PROVE  /\ last_ping'[p] \in 0..now'
             /\ recent'[p] = IF now' - last_ping'[p] <= max_age
                             THEN max_age + 1 - (now' - last_ping'[p]) ELSE 0
  <2>1. /\ p \in Peers /\ last_ping'[p] = last_ping[p] /\ last_ping[p] \in 0..now
        /\ recent[p] = IF now - last_ping[p] <= max_age
                       THEN max_age + 1 - (now - last_ping[p]) ELSE 0
    BY DEF PingInv
  <2>2. recent'[p] = IF recent[p] = 0 THEN 0 ELSE recent[p] - 1
    BY <1>2, <2>1
  <2> QED BY <1>1, <2>1, <2>2
<1>5. \A p \in Peers \ DOMAIN last_ping' : recent'[p] = 0
  BY <1>2 DEF PingInv
<1> QED BY <1>1, <1>3, <1>4, <1>5 DEF PingInv

-----------------------------------------------------------------------------
(* The invariant *)

\* The invariant holds initially,
LEMMA PeerTablesInvInit == Init => PeerTablesInv
<1> SUFFICES ASSUME Init PROVE PeerTablesInv
  OBVIOUS
<1>1. /\ now = 0 /\ providers = [l \in Layers |-> <<>>]
      /\ left = [k \in Layers \X Peers |-> 0] /\ recent = [p \in Peers |-> 0]
      /\ rtts = [p \in {} |-> 0] /\ last_ping = [p \in {} |-> 0]
  BY DEF Init, CacheInit, Table!Init, Pings!PingInit, Pings!Table!Init, Pings!Nothing
<1>2. 0 \in 0..MaxTime
  BY CacheAssumption
<1>3. CacheTypes
  BY <1>1, <1>2 DEF CacheTypes
<1>4. \A l \in Layers : Listed(l) = {} /\ \A p \in Peers : left[<<l, p>>] = 0
  BY <1>1 DEF Listed, Range
<1>5. EntriesTell
  BY <1>4 DEF EntriesTell
<1>6. PingInv
  BY <1>1 DEF PingInv
<1> QED BY <1>3, <1>5, <1>6 DEF PeerTablesInv, CacheInv

\* A step of one table leaves the other one alone.
LEMMA TablesApart ==
    /\ CacheInv /\ UNCHANGED <<now, providers, left>> => CacheInv'
    /\ PingInv /\ UNCHANGED <<now, rtts, last_ping, recent>> => PingInv'
<1>1. CacheInv /\ UNCHANGED <<now, providers, left>> => CacheInv'
  BY DEF CacheInv, CacheTypes, EntriesTell, Listed, Remaining
<1>2. PingInv /\ UNCHANGED <<now, rtts, last_ping, recent>> => PingInv'
  BY DEF PingInv
<1> QED BY <1>1, <1>2

\* is kept by every step,
LEMMA PeerTablesInvStep == PeerTablesInv /\ [Next]_vars => PeerTablesInv'
<1> SUFFICES ASSUME PeerTablesInv, [Next]_vars PROVE PeerTablesInv'
  OBVIOUS
<1>1. CacheInv /\ PingInv
  BY DEF PeerTablesInv
<1>2. CASE Tick
  <2>1. CacheInv'
    BY <1>1, <1>2, CacheTickKeeps DEF Tick
  <2>2. PingInv'
    BY <1>1, <1>2, PingTickKeeps DEF Tick
  <2> QED BY <2>1, <2>2 DEF PeerTablesInv
<1>3. CASE UseCache
  <2>1. CacheInv'
    BY <1>1, <1>3, InsertKeeps, EvictKeeps, PruneKeeps DEF UseCache, CacheStep
  <2>2. UNCHANGED <<now, rtts, last_ping, recent>>
    BY <1>3 DEF UseCache, CacheStep
  <2> QED BY <1>1, <2>1, <2>2, TablesApart DEF PeerTablesInv
<1>4. CASE UsePings
  <2>1. PingInv'
    BY <1>1, <1>4, RecordRttKeeps, RetainRecentKeeps DEF UsePings, Pings!PingStep
  <2>2. UNCHANGED <<now, providers, left>>
    BY <1>4 DEF UsePings, Pings!PingStep
  <2> QED BY <1>1, <2>1, <2>2, TablesApart DEF PeerTablesInv
<1>5. CASE UNCHANGED vars
  BY <1>1, <1>5, TablesApart DEF vars, PeerTablesInv
<1> QED BY <1>2, <1>3, <1>4, <1>5 DEF Next

\* and holds of the reachable states of the two tables.
THEOREM PeerTablesInvAlways == Spec => []PeerTablesInv
<1>1. Init => PeerTablesInv
  BY PeerTablesInvInit
<1>2. PeerTablesInv /\ [Next]_vars => PeerTablesInv'
  BY PeerTablesInvStep
<1> QED BY <1>1, <1>2, PTL DEF Spec

-----------------------------------------------------------------------------
(* The properties *)

\* What get_excluding returns, as a set.
LEMMA OfferedPeers ==
    ASSUME CacheTypes, NEW l \in Layers, NEW exclude
    PROVE  Range(GetExcluding(l, exclude))
             = {e.peer_id : e \in {d \in Listed(l) \cap Fresh : d.peer_id \notin exclude}}
<1> DEFINE offered == {e \in Fresh : e.peer_id \notin exclude}
           kept    == Retain(providers[l], offered)
<1>1. kept \in Seq(Entry) /\ Range(kept) = Listed(l) \cap offered
  BY RetainListed
<1>2. GetExcluding(l, exclude) = [i \in DOMAIN kept |-> kept[i].peer_id]
  BY DEF GetExcluding
<1> HIDE DEF kept
<1>3. Range(GetExcluding(l, exclude)) = {e.peer_id : e \in Range(kept)}
  BY <1>2 DEF Range
<1>4. Listed(l) \cap offered = {d \in Listed(l) \cap Fresh : d.peer_id \notin exclude}
  OBVIOUS
<1> QED BY <1>1, <1>3, <1>4

\* A provider is on offer from its last discovery until ttl later, whatever was
\* found, evicted or pruned in between, and however long the lists have grown.
THEOREM OffersExact == Spec => []OffersAreExact
<1>1. PeerTablesInv => OffersAreExact
  <2> SUFFICES ASSUME PeerTablesInv, NEW l \in Layers, NEW exclude \in SUBSET Peers
               PROVE  Range(GetExcluding(l, exclude))
                        = {p \in Peers \ exclude : left[<<l, p>>] > 0}
    BY DEF OffersAreExact
  <2>1. CacheTypes /\ EntriesTell
    BY DEF PeerTablesInv, CacheInv
  <2>2. \A e \in Listed(l) : /\ e \in Entry /\ e.peer_id \in Peers
                             /\ e \in Fresh <=> Remaining(e) > 0
    <3> SUFFICES ASSUME NEW e \in Listed(l)
                 PROVE  /\ e \in Entry /\ e.peer_id \in Peers
                        /\ e \in Fresh <=> Remaining(e) > 0
      OBVIOUS
    <3>1. /\ e \in Entry /\ e.peer_id \in Peers /\ e.discovered_at \in Nat
          /\ now \in Nat /\ ttl \in Nat
      BY <2>1, CacheFacts
    <3> QED BY <3>1 DEF Fresh, Remaining
  <2>3. ASSUME NEW p \in Peers
        PROVE  left[<<l, p>>] > 0 <=> \E e \in Listed(l) \cap Fresh : e.peer_id = p
    <3>1. ASSUME NEW e \in Listed(l) \cap Fresh, e.peer_id = p PROVE left[<<l, p>>] > 0
      <4>1. Remaining(e) > 0 /\ Remaining(e) <= left[<<l, p>>] /\ e \in Entry
        BY <2>1, <2>2, <3>1 DEF EntriesTell
      <4>2. /\ Remaining(e) \in Int /\ left[<<l, p>>] \in Nat
        BY <2>1, <4>1, CacheFacts DEF Remaining
      <4> QED BY <4>1, <4>2
    <3>2. ASSUME left[<<l, p>>] > 0 PROVE \E e \in Listed(l) \cap Fresh : e.peer_id = p
      <4>1. PICK e \in Listed(l) : e.peer_id = p /\ Remaining(e) = left[<<l, p>>]
        BY <2>1, <3>2 DEF EntriesTell
      <4> QED BY <2>2, <3>2, <4>1
    <3> QED BY <3>1, <3>2
  <2>4. Range(GetExcluding(l, exclude))
          = {e.peer_id : e \in {d \in Listed(l) \cap Fresh : d.peer_id \notin exclude}}
    BY <2>1, OfferedPeers
  <2> QED BY <2>2, <2>3, <2>4
<1> QED BY <1>1, PeerTablesInvAlways, PTL

\* A round-trip time is kept, and not stale, from its ping for max_age.
THEOREM RttsRecent == Spec => []RttsAreRecent
<1>1. PeerTablesInv => RttsAreRecent
  <2> SUFFICES ASSUME PingInv
               PROVE  /\ DOMAIN rtts = DOMAIN last_ping
                      /\ \A p \in Peers : /\ Pings!Stale(p) <=> recent[p] = 0
                                          /\ recent[p] > 0 => p \in DOMAIN rtts
    BY DEF PeerTablesInv, RttsAreRecent, Pings!RttsAreRecent
  <2>1. max_age \in Nat /\ now \in Nat /\ DOMAIN rtts = DOMAIN last_ping
    BY PingAssumption DEF PingInv
  <2>2. ASSUME NEW p \in Peers
        PROVE  (Pings!Stale(p) <=> recent[p] = 0) /\ (recent[p] > 0 => p \in DOMAIN rtts)
    <3>1. CASE p \in DOMAIN last_ping
      <4>1. last_ping[p] \in 0..now
        BY <3>1 DEF PingInv
      <4>2. recent[p] = IF now - last_ping[p] <= max_age
                        THEN max_age + 1 - (now - last_ping[p]) ELSE 0
        BY <3>1 DEF PingInv
      <4>3. Pings!Stale(p) <=> now - last_ping[p] > max_age
        BY <3>1 DEF Pings!Stale
      <4> QED BY <2>1, <3>1, <4>1, <4>2, <4>3
    <3>2. CASE p \notin DOMAIN last_ping
      BY <3>2 DEF PingInv, Pings!Stale
    <3> QED BY <3>1, <3>2
  <2> QED BY <2>1, <2>2
<1> QED BY <1>1, PeerTablesInvAlways, PTL

-----------------------------------------------------------------------------
(* Finding keeps the chain *)

\* The entries that get_excluding goes by, and their peers.
Candidates(l, exclude) == Retain(providers[l], {e \in Fresh : e.peer_id \notin exclude})

PeersOf(entries) == [i \in DOMAIN entries |-> entries[i].peer_id]

\* The first peer offered is that of the first entry.
LEMMA PeersOfFirst ==
    ASSUME NEW entries \in Seq(Entry)
    PROVE  /\ PeersOf(entries) = <<>> <=> entries = <<>>
           /\ entries # <<>> => PeersOf(entries)[1] = entries[1].peer_id
<1>1. CASE entries = <<>>
  BY <1>1 DEF PeersOf
<1>2. CASE entries # <<>>
  <2>1. 1 \in DOMAIN entries
    BY <1>2
  <2>2. PeersOf(entries)[1] = entries[1].peer_id /\ DOMAIN PeersOf(entries) # {}
    BY <2>1 DEF PeersOf
  <2> QED BY <1>2, <2>2
<1> QED BY <1>1, <1>2

\* Appending candidates keeps the first.
Extends(entries, old) == entries = old \/ \E e \in Entry : entries = Append(old, e)

\* A list that only grew still offers the same peer first.
LEMMA ExtendsKeepsFirst ==
    ASSUME NEW old \in Seq(Entry), old # <<>>, NEW entries, Extends(entries, old)
    PROVE  PeersOf(entries) # <<>> /\ PeersOf(entries)[1] = PeersOf(old)[1]
<1>1. entries \in Seq(Entry) /\ entries # <<>> /\ entries[1] = old[1]
  <2>1. CASE entries = old
    BY <2>1
  <2>2. CASE \E e \in Entry : entries = Append(old, e)
    BY <2>2
  <2> QED BY <2>1, <2>2 DEF Extends
<1> QED BY <1>1, PeersOfFirst

\* A step that takes no time from a provider only appends to the candidates:
\* what is evicted or pruned then was none.
LEMMA CandidatesExtend ==
    ASSUME CacheInv, CacheStep, \A k \in DOMAIN left : left'[k] >= left[k],
           NEW l \in Layers, NEW exclude
    PROVE  Extends(Candidates(l, exclude)', Candidates(l, exclude))
<1> DEFINE F == {e \in Fresh : e.peer_id \notin exclude}
<1>1. CacheTypes /\ EntriesTell /\ now' = now /\ providers[l] \in Seq(Entry)
  BY CacheFacts DEF CacheInv, CacheStep
<1>2. Fresh' = Fresh
  BY <1>1 DEF Fresh
<1>3. Candidates(l, exclude)' = Retain(providers'[l], F)
  BY <1>2 DEF Candidates
<1>4. Candidates(l, exclude) = Retain(providers[l], F)
  BY DEF Candidates
<1>5. ASSUME providers'[l] = providers[l]
      PROVE  Extends(Candidates(l, exclude)', Candidates(l, exclude))
  BY <1>3, <1>4, <1>5 DEF Extends
<1>6. ASSUME NEW m \in Layers, NEW p \in Peers, Insert(m, p)
      PROVE  Extends(Candidates(l, exclude)', Candidates(l, exclude))
  <2> DEFINE e == [peer_id |-> p, discovered_at |-> now]
  <2>1. e \in Entry
    BY <1>1, CacheFacts DEF Entry
  <2> HIDE DEF e
  <2>2. providers' = [providers EXCEPT ![m] = Append(@, e)]
    BY <1>6 DEF Insert, e
  <2>3. CASE m = l
    <3>1. providers'[l] = Append(providers[l], e)
      BY <1>1, <2>2, <2>3 DEF CacheTypes
    <3> HIDE DEF F
    <3>2. \/ Retain(providers'[l], F) = Append(Retain(providers[l], F), e)
          \/ Retain(providers'[l], F) = Retain(providers[l], F)
      BY <1>1, <2>1, <3>1, RetainAppend
    <3> QED BY <1>3, <1>4, <2>1, <3>2 DEF Extends
  <2>4. CASE m # l
    BY <1>1, <1>5, <2>2, <2>4 DEF CacheTypes
  <2> QED BY <2>3, <2>4
<1>7. ASSUME NEW kept, providers'[l] = Retain(providers[l], kept),
             \A e \in Listed(l) : e \in Fresh => e \in kept
      PROVE  Extends(Candidates(l, exclude)', Candidates(l, exclude))
  <2>1. \A e \in Listed(l) : e \in kept \cap F <=> e \in F
    BY <1>7
  <2> HIDE DEF F
  <2>2. Retain(Retain(providers[l], kept), F) = Retain(providers[l], kept \cap F)
    BY <1>1, RetainTwice
  <2>3. Retain(providers[l], kept \cap F) = Retain(providers[l], F)
    BY <1>1, <2>1, RetainAgrees DEF Listed
  <2> QED BY <1>3, <1>4, <1>7, <2>2, <2>3 DEF Extends
<1>8. ASSUME NEW m \in Layers, NEW p \in Peers, Evict(m, p), Table!Forget(<<m, p>>)
      PROVE  Extends(Candidates(l, exclude)', Candidates(l, exclude))
  <2>1. CASE m = l
    <3>1. providers'[l] = Retain(providers[l], Entry \ Of(p))
      BY <1>1, <1>8, <2>1 DEF Evict, CacheTypes
    <3>2. left[<<l, p>>] = 0
      <4>1. <<l, p>> \in DOMAIN left /\ left'[<<l, p>>] = 0
        BY <1>1, <1>8, <2>1 DEF Table!Forget, CacheTypes
      <4> QED BY <1>1, <4>1, CacheFacts
    <3>3. ASSUME NEW e \in Listed(l), e \in Fresh PROVE e \in Entry \ Of(p)
      <4>1. e \in Entry /\ e.discovered_at \in Nat /\ now \in Nat /\ ttl \in Nat
        BY <1>1, CacheFacts
      <4>2. Remaining(e) > 0
        BY <3>3, <4>1 DEF Fresh, Remaining
      <4>3. Remaining(e) <= left[<<l, e.peer_id>>]
        BY <1>1 DEF EntriesTell
      <4>4. Remaining(e) \in Int
        BY <4>1 DEF Remaining
      <4>5. e.peer_id # p
        <5> SUFFICES ASSUME e.peer_id = p PROVE FALSE
          OBVIOUS
        <5>1. Remaining(e) <= 0
          BY <3>2, <4>3
        <5> QED BY <4>2, <4>4, <5>1
      <4> QED BY <4>1, <4>5 DEF Of
    <3> QED BY <1>7, <3>1, <3>3
  <2>2. CASE m # l
    BY <1>1, <1>5, <1>8, <2>2 DEF Evict, CacheTypes
  <2> QED BY <2>1, <2>2
<1>9. ASSUME PruneExpired
      PROVE  Extends(Candidates(l, exclude)', Candidates(l, exclude))
  <2>1. providers'[l] = Retain(providers[l], Fresh)
    BY <1>9 DEF PruneExpired
  <2> QED BY <1>7, <2>1
<1> QED BY <1>6, <1>8, <1>9 DEF CacheStep

\* Finding providers, or losing ones that had expired, leaves each chain that
\* could be built as it is.
THEOREM FindingKeeps == Spec => FindingKeepsChain
<1> DEFINE Keeps == providers' # providers /\ (\A k \in DOMAIN left : left'[k] >= left[k]) =>
             \A layers \in [1..2 -> Layers], exclude \in SUBSET Peers :
                LET chain == BuildChain(layers, exclude) IN chain \in {None, chain'}
<1>1. PeerTablesInv /\ [Next]_vars => [Keeps]_<<providers, left>>
  <2> SUFFICES ASSUME PeerTablesInv, Next, providers' # providers,
                      \A k \in DOMAIN left : left'[k] >= left[k],
                      NEW layers \in [1..2 -> Layers], NEW exclude \in SUBSET Peers,
                      BuildChain(layers, exclude) # None
               PROVE  BuildChain(layers, exclude) = BuildChain(layers, exclude)'
    BY DEF vars
  <2>1. CacheInv /\ CacheTypes /\ CacheStep
    BY DEF PeerTablesInv, CacheInv, Next, Tick, UseCache, UsePings
  <2>2. ASSUME NEW l \in Layers
        PROVE  /\ GetExcluding(l, exclude) = PeersOf(Candidates(l, exclude))
               /\ GetExcluding(l, exclude)' = PeersOf(Candidates(l, exclude)')
               /\ Candidates(l, exclude) \in Seq(Entry)
               /\ Extends(Candidates(l, exclude)', Candidates(l, exclude))
    <3>1. /\ GetExcluding(l, exclude) = PeersOf(Candidates(l, exclude))
          /\ GetExcluding(l, exclude)' = PeersOf(Candidates(l, exclude)')
      BY DEF GetExcluding, PeersOf, Candidates
    <3>2. Candidates(l, exclude) \in Seq(Entry)
      BY <2>1, RetainListed DEF Candidates
    <3> QED BY <2>1, <3>1, <3>2, CandidatesExtend
  <2>3. \A i \in 1..2 : GetExcluding(layers[i], exclude) # <<>>
    BY DEF BuildChain
  <2>4. ASSUME NEW i \in 1..2
        PROVE  /\ GetExcluding(layers[i], exclude)' # <<>>
               /\ GetExcluding(layers[i], exclude)'[1] = GetExcluding(layers[i], exclude)[1]
    <3> DEFINE old == Candidates(layers[i], exclude)
               new == Candidates(layers[i], exclude)'
    <3>1. /\ GetExcluding(layers[i], exclude) = PeersOf(old)
          /\ GetExcluding(layers[i], exclude)' = PeersOf(new)
          /\ old \in Seq(Entry) /\ Extends(new, old)
      BY <2>2
    <3>2. PeersOf(old) # <<>>
      BY <2>3, <3>1
    <3> HIDE DEF old, new
    <3>3. old # <<>>
      BY <3>1, <3>2, PeersOfFirst
    <3> QED BY <3>1, <3>3, ExtendsKeepsFirst
  <2>5. BuildChain(layers, exclude)
          = [i \in DOMAIN layers |-> GetExcluding(layers[i], exclude)[1]]
    BY DEF BuildChain
  <2>6. BuildChain(layers, exclude)'
          = [i \in DOMAIN layers |-> GetExcluding(layers[i], exclude)'[1]]
    BY <2>4 DEF BuildChain
  <2> QED BY <2>4, <2>5, <2>6
<1> QED BY <1>1, PeerTablesInvAlways, PTL DEF Spec, FindingKeepsChain
=============================================================================
