-------------------------- MODULE DiscoveryProofs --------------------------
(***************************************************************************)
(* Lemmas about Discovery, for the two clients that run it: what           *)
(* dedup_chain returns for chains of any length, and an invariant of the   *)
(* client's half of discovery that the Kademlia arm and a failover keep,   *)
(* whatever else happens in between.                                       *)
(***************************************************************************)
EXTENDS Discovery, FoldLemmas

-----------------------------------------------------------------------------
(* DedupChain *)

DedupedBy(g, chain) ==
    g = [u \in SUBSET (DOMAIN chain) |->
            IF u = {} THEN <<>>
            ELSE IF g[u \ {Max(u)}] # <<>> /\ Last(g[u \ {Max(u)}]) = chain[Max(u)]
                 THEN g[u \ {Max(u)}]
                 ELSE Append(g[u \ {Max(u)}], chain[Max(u)])]

\* dedup_chain goes through the chain once, from its first peer to its last.
LEMMA DedupPrefixes ==
    ASSUME NEW S, NEW chain \in Seq(S)
    PROVE  \E h \in [0..Len(chain) -> Seq(S)] :
             /\ h[0] = <<>> /\ DedupChain(chain) = h[Len(chain)]
             /\ \A i \in 1..Len(chain) :
                  h[i] = IF h[i - 1] # <<>> /\ Last(h[i - 1]) = chain[i] THEN h[i - 1]
                         ELSE Append(h[i - 1], chain[i])
<1> DEFINE n == Len(chain)
           D == 1..n
           step == [i \in D |-> [acc \in Seq(S) |->
                      IF acc # <<>> /\ Last(acc) = chain[i] THEN acc
                      ELSE Append(acc, chain[i])]]
<1>1. n \in Nat /\ IsFiniteSet(D) /\ DOMAIN chain = D /\ \A i \in D : chain[i] \in S
  BY IndicesAreFinite
<1>2. step \in [D -> [Seq(S) -> Seq(S)]] /\ <<>> \in Seq(S)
  BY <1>1
<1>3. PICK g \in [SUBSET D -> Seq(S)] : IsFold(g, D, <<>>, step, Latest(n))
  <2>1. Picks(Latest(n), D)
    BY <1>1, LatestPicks
  <2> HIDE DEF step, D, n
  <2> QED BY <1>1, <1>2, <2>1, FoldExists
<1>4. \A u \in SUBSET D : u # {} => Max(u) \in u /\ Latest(n)[u] = Max(u)
  BY <1>1, LatestPicks DEF Latest, Picks
<1>5. DedupedBy(g, chain)
  <2>1. ASSUME NEW u \in SUBSET D
        PROVE  g[u] = IF u = {} THEN <<>>
                      ELSE IF g[u \ {Max(u)}] # <<>> /\ Last(g[u \ {Max(u)}]) = chain[Max(u)]
                           THEN g[u \ {Max(u)}]
                           ELSE Append(g[u \ {Max(u)}], chain[Max(u)])
    <3>1. CASE u = {}
      BY <1>3, <3>1 DEF IsFold, Folded
    <3>2. CASE u # {}
      <4>1. /\ Max(u) \in D /\ g[u \ {Max(u)}] \in Seq(S)
            /\ g[u] = step[Max(u)][g[u \ {Max(u)}]]
        BY <1>3, <1>4, <3>2 DEF IsFold, Folded
      <4> QED BY <3>2, <4>1
    <3> QED BY <3>1, <3>2
  <2> QED BY <1>1, <2>1 DEF DedupedBy
<1> DEFINE G == CHOOSE f : DedupedBy(f, chain)
<1>6. DedupedBy(G, chain)
  BY <1>5
<1>7. DedupChain(chain) = G[DOMAIN chain]
  BY DEF DedupChain, FoldLeft, MapThenFoldSet, DedupedBy
<1>8. \A u \in SUBSET D : G[u] = g[u]
  <2> DEFINE P == {u \in SUBSET D : G[u] = g[u]}
  <2>1. ASSUME NEW u \in SUBSET D, \A v \in SUBSET u : v # u => v \in P
        PROVE  u \in P
    <3> HIDE DEF G
    <3>1. CASE u = {}
      BY <1>1, <1>5, <1>6, <3>1 DEF DedupedBy
    <3>2. CASE u # {}
      <4>1. G[u \ {Max(u)}] = g[u \ {Max(u)}]
        BY <2>1, <3>2, <1>4
      <4> QED BY <1>1, <1>5, <1>6, <3>2, <4>1 DEF DedupedBy
    <3> QED BY <3>1, <3>2
  <2> HIDE DEF G, P, D
  <2>2. \A u \in SUBSET D : u \in P
    BY <1>1, <2>1, SubsetInduction
  <2> QED BY <2>2 DEF P
<1> DEFINE h == [i \in 0..n |-> g[1..i]]
<1>9. h \in [0..n -> Seq(S)] /\ h[0] = g[{}] /\ h[n] = g[D]
  BY <1>1, 1..0 = {}
<1>10. g[{}] = <<>> /\ \A i \in 1..n : g[1..i] = step[i][g[1..(i - 1)]]
  <2> DEFINE none == <<>>
  <2>1. n \in Nat
    BY <1>1
  <2>2. IsFold(g, 1..n, none, step, Latest(n))
    BY <1>3
  <2> HIDE DEF step, n, none
  <2>3. g[{}] = none
    BY <2>1, <2>2, PrefixFold
  <2>4. \A i \in 1..n : g[1..i] = step[i][g[1..(i - 1)]]
    BY <2>1, <2>2, PrefixFold
  <2> QED BY <2>3, <2>4 DEF none
<1>11. ASSUME NEW i \in 1..n
       PROVE h[i] = IF h[i - 1] # <<>> /\ Last(h[i - 1]) = chain[i] THEN h[i - 1]
                    ELSE Append(h[i - 1], chain[i])
  <2>1. i - 1 \in 0..n /\ i \in 0..n /\ h[i - 1] \in Seq(S)
    <3> HIDE DEF h, n
    <3>1. i - 1 \in 0..n /\ i \in 0..n
      BY <1>1
    <3> QED BY <3>1, <1>9
  <2>2. h[i] = step[i][h[i - 1]]
    BY <1>10, <2>1
  <2> HIDE DEF h
  <2> QED BY <2>1, <2>2
<1>12. DedupChain(chain) = h[n]
  <2> HIDE DEF G
  <2> QED BY <1>1, <1>7, <1>8, <1>9
<1> HIDE DEF h, G, step
<1> QED BY <1>9, <1>10, <1>11, <1>12

\* Each element of the chain has a position in d where it stands, none goes
\* back, and every position is some element's.
Placed(pos, chain, n, d) ==
    /\ pos \in [1..n -> 1..Len(d)]
    /\ \A k \in 1..Len(d) : \E i \in 1..n : pos[i] = k
    /\ \A i \in 1..n : chain[i] = d[pos[i]]
    /\ \A i, j \in 1..n : i < j => pos[i] <= pos[j]

NoRepetition(d) == \A i \in 1..(Len(d) - 1) : d[i] # d[i + 1]

\* A peer that repeats the last one of d takes its position.
LEMMA PlaceSame ==
    ASSUME NEW S, NEW n \in Nat, NEW chain, NEW d \in Seq(S), d # <<>>,
           Last(d) = chain[n + 1], NEW pos, Placed(pos, chain, n, d)
    PROVE  \E q : Placed(q, chain, n + 1, d)
<1> DEFINE q == [i \in 1..(n + 1) |-> IF i <= n THEN pos[i] ELSE Len(d)]
<1>1. Len(d) \in Nat /\ Len(d) \in 1..Len(d) /\ d[Len(d)] = chain[n + 1]
  BY DEF Last
<1>2. q \in [1..(n + 1) -> 1..Len(d)]
  BY <1>1 DEF Placed
<1>3. \A i \in 1..n : i \in 1..(n + 1) /\ q[i] = pos[i]
  OBVIOUS
<1>4. n + 1 \in 1..(n + 1) /\ q[n + 1] = Len(d) /\ \A i \in 1..(n + 1) : i \in 1..n \/ i = n + 1
  OBVIOUS
<1> HIDE DEF q
<1>5. \A k \in 1..Len(d) : \E i \in 1..(n + 1) : q[i] = k
  BY <1>3 DEF Placed
<1>6. \A i \in 1..(n + 1) : chain[i] = d[q[i]]
  BY <1>1, <1>3, <1>4 DEF Placed
<1>7. ASSUME NEW i \in 1..(n + 1), NEW j \in 1..(n + 1), i < j PROVE q[i] <= q[j]
  <2>1. i \in 1..n
    BY <1>7
  <2>2. CASE j \in 1..n
    BY <1>3, <1>7, <2>1, <2>2 DEF Placed
  <2>3. CASE j = n + 1
    BY <1>1, <1>3, <1>4, <2>1, <2>3 DEF Placed
  <2> QED BY <1>4, <2>2, <2>3
<1> QED BY <1>2, <1>5, <1>6, <1>7 DEF Placed

\* Any other is given the next one.
LEMMA PlaceNext ==
    ASSUME NEW S, NEW n \in Nat, NEW chain, NEW d \in Seq(S), chain[n + 1] \in S,
           NEW pos, Placed(pos, chain, n, d)
    PROVE  \E q : Placed(q, chain, n + 1, Append(d, chain[n + 1]))
<1> DEFINE m == Len(d) + 1
           e == Append(d, chain[n + 1])
           q == [i \in 1..(n + 1) |-> IF i <= n THEN pos[i] ELSE m]
<1>1. /\ Len(d) \in Nat /\ Len(e) = m /\ m \in 1..m /\ e[m] = chain[n + 1]
      /\ \A k \in 1..Len(d) : k \in 1..m /\ k <= m /\ e[k] = d[k]
      /\ \A k \in 1..m : k \in 1..Len(d) \/ k = m
  BY AppendFacts
<1>2. q \in [1..(n + 1) -> 1..m]
  BY <1>1 DEF Placed
<1>3. \A i \in 1..n : i \in 1..(n + 1) /\ q[i] = pos[i]
  OBVIOUS
<1>4. n + 1 \in 1..(n + 1) /\ q[n + 1] = m /\ \A i \in 1..(n + 1) : i \in 1..n \/ i = n + 1
  OBVIOUS
<1> HIDE DEF q, e, m
<1>5. \A k \in 1..m : \E i \in 1..(n + 1) : q[i] = k
  BY <1>1, <1>3, <1>4 DEF Placed
<1>6. \A i \in 1..(n + 1) : chain[i] = e[q[i]]
  BY <1>1, <1>3, <1>4 DEF Placed
<1>7. ASSUME NEW i \in 1..(n + 1), NEW j \in 1..(n + 1), i < j PROVE q[i] <= q[j]
  <2>1. i \in 1..n
    BY <1>7
  <2>2. CASE j \in 1..n
    BY <1>3, <1>7, <2>1, <2>2 DEF Placed
  <2>3. CASE j = n + 1
    BY <1>1, <1>3, <1>4, <2>1, <2>3 DEF Placed
  <2> QED BY <1>4, <2>2, <2>3
<1>8. Placed(q, chain, n + 1, e)
  BY <1>1, <1>2, <1>5, <1>6, <1>7 DEF Placed
<1> QED BY <1>8 DEF e

\* dedup_chain keeps the order of the chain and every peer of it, and nothing
\* else than repetitions is dropped.
LEMMA DedupFacts ==
    ASSUME NEW S, NEW chain \in Seq(S)
    PROVE  /\ DedupChain(chain) \in Seq(S)
           /\ chain # <<>> => DedupChain(chain) # <<>>
           /\ \E pos : Placed(pos, chain, Len(chain), DedupChain(chain))
           /\ NoRepetition(DedupChain(chain))
<1> DEFINE n == Len(chain)
<1>1. n \in Nat /\ \A i \in 1..n : chain[i] \in S
  OBVIOUS
<1>2. PICK h \in [0..n -> Seq(S)] :
        /\ h[0] = <<>> /\ DedupChain(chain) = h[n]
        /\ \A i \in 1..n : h[i] = IF h[i - 1] # <<>> /\ Last(h[i - 1]) = chain[i] THEN h[i - 1]
                                   ELSE Append(h[i - 1], chain[i])
  BY DedupPrefixes
<1> HIDE DEF n
<1> DEFINE Good(d, i) == (\E pos : Placed(pos, chain, i, d)) /\ NoRepetition(d)
           T == {i \in Nat : i <= n => Good(h[i], i)}
<1>3. 0 \in T
  <2>1. Placed(<<>>, chain, 0, <<>>) /\ NoRepetition(<<>>)
    BY DEF Placed, NoRepetition
  <2>2. Good(h[0], 0)
    BY <1>2, <2>1
  <2> HIDE DEF Good
  <2> QED BY <2>2
<1>4. ASSUME NEW i \in Nat, i \in T, i + 1 <= n PROVE Good(h[i + 1], i + 1)
  <2> DEFINE d == h[i]
             p == chain[i + 1]
  <2>1. i + 1 \in 1..n /\ (i + 1) - 1 = i /\ i \in 0..n /\ i <= n
    BY <1>1, <1>4
  <2>2. d \in Seq(S) /\ p \in S
    BY <1>1, <1>2, <2>1
  <2>3. h[i + 1] = IF d # <<>> /\ Last(d) = p THEN d ELSE Append(d, p)
    BY <1>2, <2>1
  <2>4. PICK pos : Placed(pos, chain, i, d)
    BY <1>4, <2>1
  <2>5. NoRepetition(d)
    BY <1>4, <2>1
  <2>6. CASE d # <<>> /\ Last(d) = p
    BY <2>2, <2>3, <2>4, <2>5, <2>6, PlaceSame
  <2>7. CASE ~(d # <<>> /\ Last(d) = p)
    <3>1. h[i + 1] = Append(d, p)
      BY <2>3, <2>7
    <3>2. \E q : Placed(q, chain, i + 1, Append(d, p))
      BY <2>2, <2>4, PlaceNext
    <3>3. NoRepetition(Append(d, p))
      <4> HIDE DEF d, p
      <4>1. /\ Len(d) \in Nat /\ Len(Append(d, p)) = Len(d) + 1 /\ Append(d, p)[Len(d) + 1] = p
            /\ \A k \in 1..Len(d) : Append(d, p)[k] = d[k]
        BY <2>2, AppendFacts
      <4>2. ASSUME NEW k \in 1..Len(d) PROVE Append(d, p)[k] # Append(d, p)[k + 1]
        <5>1. CASE k = Len(d)
          BY <2>2, <2>7, <4>1, <5>1 DEF Last
        <5>2. CASE k # Len(d)
          BY <2>5, <4>1, <5>2 DEF NoRepetition
        <5> QED BY <5>1, <5>2
      <4> QED BY <4>1, <4>2 DEF NoRepetition
    <3> QED BY <3>1, <3>2, <3>3
  <2> QED BY <2>6, <2>7
<1>5. n \in T
  <2> HIDE DEF Good
  <2>1. \A i \in Nat : i \in T => i + 1 \in T
    BY <1>4
  <2> HIDE DEF T
  <2> QED BY <1>1, <1>3, <2>1, NumberInduction
<1>6. Good(h[n], n) /\ h[n] \in Seq(S)
  BY <1>1, <1>2, <1>5
<1>7. chain # <<>> => h[n] # <<>>
  <2> SUFFICES ASSUME chain # <<>>, h[n] = <<>> PROVE FALSE
    OBVIOUS
  <2>1. 1 \in 1..n /\ Len(h[n]) = 0
    BY DEF n
  <2> QED BY <1>6, <2>1 DEF Placed
<1> QED BY <1>2, <1>6, <1>7 DEF n

-----------------------------------------------------------------------------
(* The invariant of the client's discovery *)

\* The DHT holds a worker's record for a layer only if it serves the layer.
AnnouncedServe == \A l \in LayerSet : \A p \in announced[l] : l \in Serves[p]

\* So does each provider that a lookup has found.
ProvidersServe == \A l \in LayerSet : providers[l] # NoPeer => l \in Serves[providers[l]]

\* A client looks its layers up once, and once more for each failover.
QueriesCounted ==
    next_query <= 1 + (retry_count + IF queries_sent THEN 1 ELSE 0) * Len(Layers)

ChainOK == ChainServesLayers /\ (chain_built => current_chain # <<>>)

DiscoveryInv ==
    DiscoveryTypeOK /\ AnnouncedServe /\ ProvidersServe /\ QueriesCounted /\ ChainOK

\* The layers asked for are a sequence of their set, and not an empty one.
LEMMA LayersType ==
    /\ Layers \in Seq(LayerSet) /\ Layers # <<>> /\ LayerSet \subseteq Nat
    /\ DOMAIN Layers = 1..Len(Layers) /\ Len(Layers) \in Nat \ {0}
    /\ \A i \in 1..Len(Layers) : Layers[i] \in LayerSet
<1>1. Layers \in Seq(Nat) /\ Layers # <<>>
  BY DiscoveryAssumption
<1>2. DOMAIN Layers = 1..Len(Layers) /\ Len(Layers) \in Nat \ {0}
  BY <1>1
<1>3. \A i \in 1..Len(Layers) : Layers[i] \in LayerSet
  BY <1>2 DEF LayerSet, Range
<1>4. LayerSet \subseteq Nat
  BY <1>1, <1>2 DEF LayerSet, Range
<1>5. Layers \in Seq(LayerSet)
  <2>1. Layers = [i \in 1..Len(Layers) |-> Layers[i]]
    BY <1>1
  <2> QED BY <1>2, <1>3, <2>1
<1> QED BY <1>1, <1>2, <1>3, <1>4, <1>5

\* Lookups by the numbers: the next round of queries stays within its count.
LEMMA QueryArithmetic ==
    ASSUME NEW k \in Nat
    PROVE  \A a, b \in Nat : /\ a * k \in Nat /\ (a + 1) * k = a * k + k
                            /\ a <= b => a * k <= b * k
OBVIOUS

\* The counted queries are as many as the type allows.
LEMMA QueriesBounded ==
    ASSUME NEW retries \in 0..MaxRetries, NEW sent \in BOOLEAN, NEW next \in Nat \ {0},
           next <= 1 + (retries + IF sent THEN 1 ELSE 0) * Len(Layers)
    PROVE  next \in 1..(1 + (MaxRetries + 1) * Len(Layers))
<1> DEFINE tries == retries + IF sent THEN 1 ELSE 0
<1>1. tries \in Nat /\ tries <= MaxRetries + 1 /\ MaxRetries + 1 \in Nat
  <2>1. MaxRetries \in Nat
    BY DiscoveryAssumption
  <2>2. tries = retries \/ tries = retries + 1
    OBVIOUS
  <2> HIDE DEF tries
  <2> QED BY <2>1, <2>2
<1>2. next <= 1 + tries * Len(Layers)
  OBVIOUS
<1> HIDE DEF tries
<1>3. /\ tries * Len(Layers) \in Nat /\ (MaxRetries + 1) * Len(Layers) \in Nat
      /\ tries * Len(Layers) <= (MaxRetries + 1) * Len(Layers)
  BY <1>1, LayersType, QueryArithmetic
<1> QED BY <1>2, <1>3

\* The chain that is resolved from providers that serve their layers serves
\* the layers in their order, and no worker of it is its own next hop.
LEMMA ResolvedServes ==
    ASSUME NEW prov \in [LayerSet -> Peers], \A l \in LayerSet : l \in Serves[prov[l]]
    PROVE  /\ ResolveChain(prov) \in Seq(Peers) /\ ResolveChain(prov) # <<>>
           /\ \E pos \in [DOMAIN Layers -> DOMAIN ResolveChain(prov)] :
                /\ Range(pos) = DOMAIN ResolveChain(prov)
                /\ \A i \in DOMAIN Layers : Layers[i] \in Serves[ResolveChain(prov)[pos[i]]]
                /\ \A i, j \in DOMAIN Layers : i < j => pos[i] <= pos[j]
           /\ NoRepetition(ResolveChain(prov))
<1> DEFINE chain == [i \in DOMAIN Layers |-> prov[Layers[i]]]
           d == ResolveChain(prov)
<1>1. /\ chain \in Seq(Peers) /\ Len(chain) = Len(Layers) /\ chain # <<>>
      /\ \A i \in 1..Len(Layers) : chain[i] = prov[Layers[i]]
  BY LayersType
<1>2. d = DedupChain(chain)
  BY DEF ResolveChain
<1> HIDE DEF chain, d
<1>3. d \in Seq(Peers) /\ d # <<>> /\ NoRepetition(d)
  BY <1>1, <1>2, DedupFacts
<1>4. PICK pos : Placed(pos, chain, Len(Layers), d)
  BY <1>1, <1>2, DedupFacts
<1>5. DOMAIN Layers = 1..Len(Layers) /\ DOMAIN d = 1..Len(d)
  BY LayersType, <1>3
<1>6. pos \in [DOMAIN Layers -> DOMAIN d]
  BY <1>4, <1>5 DEF Placed
<1>7. Range(pos) = DOMAIN d
  <2>1. \A k \in DOMAIN d : \E i \in DOMAIN Layers : pos[i] = k
    BY <1>4, <1>5 DEF Placed
  <2> QED BY <1>6, <2>1 DEF Range
<1>8. ASSUME NEW i \in DOMAIN Layers PROVE Layers[i] \in Serves[d[pos[i]]]
  <2>1. chain[i] = d[pos[i]]
    BY <1>4, <1>5 DEF Placed
  <2>2. chain[i] = prov[Layers[i]] /\ Layers[i] \in LayerSet
    BY <1>1, <1>5, LayersType
  <2> QED BY <2>1, <2>2
<1>9. \A i, j \in DOMAIN Layers : i < j => pos[i] <= pos[j]
  BY <1>4, <1>5 DEF Placed
<1> QED BY <1>3, <1>6, <1>7, <1>8, <1>9 DEF d

\* The Kademlia arm, whatever the event has left, keeps the invariant: the
\* chain it may build is made of the providers found.
LEMMA KadArmKeeps ==
    ASSUME DiscoveryInv,
           NEW booted \in BOOLEAN, NEW found \in [LayerSet -> Peers \cup {NoPeer}],
           \A l \in LayerSet : found[l] # NoPeer => l \in Serves[found[l]],
           NEW cache \in [LayerSet -> Seq(Peers)], NEW pending \in SUBSET Query,
           KadArm(booted, found, cache, pending), fruitless' \in SUBSET Query
    PROVE  DiscoveryInv'
<1> DEFINE asked == {[id |-> next_query + i - 1, layer |-> Layers[i]] : i \in DOMAIN Layers}
           L == Len(Layers)
<1>1. /\ bootstrapped' = booted /\ providers' = found /\ provider_cache' = cache
      /\ queries_sent' = (queries_sent \/ booted)
      /\ UNCHANGED <<announced, retry_count>>
  BY DEF KadArm
<1>2. /\ next_query \in Nat \ {0} /\ retry_count \in 0..MaxRetries /\ MaxRetries \in Nat
      /\ queries_sent \in BOOLEAN /\ chain_built \in BOOLEAN /\ L \in Nat
  <2>1. MaxRetries \in Nat /\ L \in Nat
    BY LayersType, DiscoveryAssumption
  <2>2. retry_count \in 0..MaxRetries /\ queries_sent \in BOOLEAN /\ chain_built \in BOOLEAN
    BY DEF DiscoveryInv, DiscoveryTypeOK
  <2>3. next_query \in Nat \ {0}
    BY DEF DiscoveryInv, DiscoveryTypeOK
  <2> QED BY <2>1, <2>2, <2>3
<1>3. asked \subseteq Query
  BY <1>2, LayersType DEF Query
<1>4. /\ pending_queries' \subseteq Query /\ next_query' \in Nat \ {0}
      /\ QueriesCounted'
  <2>1. CASE booted /\ ~queries_sent
    <3>1. pending_queries' = pending \cup asked /\ next_query' = next_query + L
      BY <2>1 DEF KadArm
    <3>2. next_query <= 1 + retry_count * L /\ (retry_count + 1) * L = retry_count * L + L
          /\ retry_count * L \in Nat
      BY <1>2, <2>1, QueryArithmetic DEF DiscoveryInv, QueriesCounted
    <3>3. retry_count' = retry_count /\ queries_sent'
      BY <1>1, <2>1
    <3> HIDE DEF asked
    <3>4. next_query' <= 1 + (retry_count + 1) * L
      BY <1>2, <3>1, <3>2
    <3> QED BY <1>2, <1>3, <3>1, <3>3, <3>4 DEF QueriesCounted
  <2>2. CASE ~(booted /\ ~queries_sent)
    <3>1. pending_queries' = pending /\ next_query' = next_query
      BY <2>2 DEF KadArm
    <3>2. queries_sent' = queries_sent /\ retry_count' = retry_count
      BY <1>1, <1>2, <2>2
    <3> QED BY <1>2, <3>1, <3>2 DEF DiscoveryInv, QueriesCounted
  <2> QED BY <2>1, <2>2
<1>5. ChainOK' /\ current_chain' \in Seq(Peers) /\ chain_built' \in BOOLEAN
  <2>1. CASE ChainReady
    <3>1. current_chain' = ResolveChain(found) /\ chain_built'
      BY <2>1 DEF KadArm
    <3>2. found \in [LayerSet -> Peers] /\ \A l \in LayerSet : l \in Serves[found[l]]
      BY <1>1, <2>1 DEF ChainReady
    <3>3. ChainServesLayers' /\ current_chain' # <<>> /\ current_chain' \in Seq(Peers)
      BY <3>1, <3>2, ResolvedServes DEF ChainServesLayers, NoRepetition
    <3>4. chain_built' \in BOOLEAN
      BY <1>2, <2>1 DEF KadArm, ChainReady
    <3> QED BY <3>3, <3>4 DEF ChainOK
  <2>2. CASE ~ChainReady
    <3>1. current_chain' = current_chain /\ chain_built' = chain_built
      BY <1>2, <2>2 DEF KadArm
    <3> QED BY <1>2, <3>1 DEF DiscoveryInv, ChainOK, ChainServesLayers, DiscoveryTypeOK
  <2> QED BY <2>1, <2>2
<1>6. DiscoveryTypeOK'
  <2>1. next_query' \in 1..(1 + (MaxRetries + 1) * Len(Layers))
    <3>1. retry_count' \in 0..MaxRetries /\ queries_sent' \in BOOLEAN
      BY <1>1, <1>2
    <3> QED BY <1>4, <3>1, QueriesBounded DEF QueriesCounted
  <2>2. {bootstrapped', queries_sent', chain_built'} \subseteq BOOLEAN
    BY <1>1, <1>2, <1>5
  <2> QED BY <1>1, <1>4, <1>5, <2>1, <2>2 DEF DiscoveryInv, DiscoveryTypeOK
<1>7. AnnouncedServe' /\ ProvidersServe'
  BY <1>1 DEF DiscoveryInv, AnnouncedServe, ProvidersServe
<1> QED BY <1>4, <1>5, <1>6, <1>7 DEF DiscoveryInv

\* Before its first event a client has nothing: no query, no provider, no chain.
LEMMA DiscoveryInvInit ==
    ASSUME DiscoveryInit, announced \in [LayerSet -> SUBSET Peers], AnnouncedServe
    PROVE  DiscoveryInv
<1>1. 0 \in 0..MaxRetries /\ 1 \in 1..(1 + (MaxRetries + 1) * Len(Layers))
  <2>1. MaxRetries \in Nat
    BY DiscoveryAssumption
  <2>2. (MaxRetries + 1) * Len(Layers) \in Nat
    BY <2>1, LayersType, QueryArithmetic
  <2> QED BY <2>1, <2>2
<1>2. DiscoveryTypeOK
  <2>1. /\ providers \in [LayerSet -> Peers \cup {NoPeer}]
        /\ provider_cache \in [LayerSet -> Seq(Peers)]
        /\ current_chain \in Seq(Peers)
    BY DEF DiscoveryInit
  <2>2. /\ {bootstrapped, queries_sent, chain_built} \subseteq BOOLEAN
        /\ pending_queries \subseteq Query /\ fruitless \subseteq Query
        /\ retry_count = 0 /\ next_query = 1
    BY DEF DiscoveryInit
  <2> QED BY <1>1, <2>1, <2>2 DEF DiscoveryTypeOK
<1>3. ProvidersServe /\ ChainOK
  BY DEF DiscoveryInit, ProvidersServe, ChainOK, ChainServesLayers
<1>4. QueriesCounted
  <2>1. 0 * Len(Layers) = 0
    BY LayersType
  <2> QED BY <2>1 DEF DiscoveryInit, QueriesCounted
<1> QED BY <1>2, <1>3, <1>4 DEF DiscoveryInv

\* What the Kademlia arm does for the clients: it keeps the invariant, and the
\* chain it has just built has a first worker to send to.
LEMMA KadEventKeeps ==
    ASSUME DiscoveryInv, KadEvent
    PROVE  /\ DiscoveryInv'
           /\ UNCHANGED <<announced, retry_count>>
           /\ chain_built' = (chain_built \/ ChainReady)
           /\ ChainReady => current_chain' \in Seq(Peers) /\ current_chain' # <<>>
<1>1. /\ bootstrapped \in BOOLEAN /\ providers \in [LayerSet -> Peers \cup {NoPeer}]
      /\ provider_cache \in [LayerSet -> Seq(Peers)]
      /\ pending_queries \in SUBSET Query /\ fruitless \in SUBSET Query
      /\ announced \in [LayerSet -> SUBSET Peers]
      /\ \A l \in LayerSet : providers[l] # NoPeer => l \in Serves[providers[l]]
  BY DEF DiscoveryInv, DiscoveryTypeOK, ProvidersServe
<1>2. ASSUME NEW booted, NEW found, NEW cache, NEW pending,
             KadArm(booted, found, cache, pending), DiscoveryInv'
      PROVE  /\ DiscoveryInv'
             /\ UNCHANGED <<announced, retry_count>>
             /\ chain_built' = (chain_built \/ ChainReady)
             /\ ChainReady => current_chain' \in Seq(Peers) /\ current_chain' # <<>>
  <2>1. UNCHANGED <<announced, retry_count>> /\ chain_built' = (chain_built \/ ChainReady)
    BY <1>2 DEF KadArm
  <2>2. ChainReady => chain_built'
    BY <2>1
  <2> QED BY <1>2, <2>1, <2>2 DEF DiscoveryInv, DiscoveryTypeOK, ChainOK
<1>3. CASE RoutingUpdated
  BY <1>1, <1>2, <1>3, KadArmKeeps DEF RoutingUpdated
<1>4. CASE FoundProviders
  <2>q. PICK q \in pending_queries \ fruitless : \E p \in announced[q.layer] :
          /\ KadArm(bootstrapped, [providers EXCEPT ![q.layer] = p],
                    [provider_cache EXCEPT ![q.layer] = Append(@, p)],
                    pending_queries \ {q})
          /\ UNCHANGED fruitless
    BY <1>4 DEF FoundProviders
  <2>1. PICK p \in announced[q.layer] :
          /\ KadArm(bootstrapped, [providers EXCEPT ![q.layer] = p],
                    [provider_cache EXCEPT ![q.layer] = Append(@, p)],
                    pending_queries \ {q})
          /\ UNCHANGED fruitless
    BY <2>q
  <2> DEFINE found == [providers EXCEPT ![q.layer] = p]
             cache == [provider_cache EXCEPT ![q.layer] = Append(@, p)]
  <2>2. q.layer \in LayerSet /\ p \in Peers /\ q.layer \in Serves[p]
    BY <1>1, <2>1 DEF Query, DiscoveryInv, AnnouncedServe
  <2>3. found \in [LayerSet -> Peers \cup {NoPeer}] /\ cache \in [LayerSet -> Seq(Peers)]
    BY <1>1, <2>2
  <2>4. \A l \in LayerSet : found[l] # NoPeer => l \in Serves[found[l]]
    BY <1>1, <2>2
  <2>5. pending_queries \ {q} \in SUBSET Query /\ fruitless' \in SUBSET Query
    BY <1>1, <2>1
  <2>6. KadArm(bootstrapped, found, cache, pending_queries \ {q})
    BY <2>1
  <2> HIDE DEF found, cache
  <2>7. DiscoveryInv'
    BY <1>1, <2>3, <2>4, <2>5, <2>6, KadArmKeeps
  <2> QED BY <1>2, <2>6, <2>7
<1>5. CASE NoProviders
  <2>1. PICK q \in pending_queries \ fruitless :
          /\ KadArm(bootstrapped, providers, provider_cache, pending_queries \ {q})
          /\ fruitless' = fruitless \cup {q}
    BY <1>5 DEF NoProviders
  <2>2. pending_queries \ {q} \in SUBSET Query /\ fruitless' \in SUBSET Query
    BY <1>1, <2>1
  <2>3. DiscoveryInv'
    BY <1>1, <2>1, <2>2, KadArmKeeps
  <2> QED BY <1>2, <2>1, <2>3
<1>6. CASE QueryError
  <2>1. PICK q \in pending_queries \ fruitless :
          /\ KadArm(bootstrapped, providers, provider_cache, pending_queries)
          /\ fruitless' = fruitless \cup {q}
    BY <1>6 DEF QueryError
  <2>2. fruitless' \in SUBSET Query
    BY <1>1, <2>1
  <2>3. DiscoveryInv'
    BY <1>1, <2>1, <2>2, KadArmKeeps
  <2> QED BY <1>2, <2>1, <2>3
<1>7. CASE OtherKadEvent
  BY <1>1, <1>2, <1>7, KadArmKeeps DEF OtherKadEvent
<1> QED BY <1>3, <1>4, <1>5, <1>6, <1>7 DEF KadEvent, QueryEvent

\* A failover starts the resolution over: no provider and no chain is left,
\* and the round of queries that it makes room for is counted by the retry.
LEMMA FailOverKeeps ==
    ASSUME DiscoveryInv, NEW failed, FailOver(failed)
    PROVE  DiscoveryInv' /\ chain_built' = FALSE /\ retry_count' = retry_count + 1
<1>1. /\ announced' = announced /\ bootstrapped' = bootstrapped
      /\ pending_queries' = pending_queries /\ next_query' = next_query
      /\ fruitless' = fruitless
      /\ retry_count < MaxRetries /\ retry_count' = retry_count + 1
      /\ providers' = [l \in LayerSet |-> NoPeer]
      /\ queries_sent' = FALSE /\ chain_built' = FALSE /\ current_chain' = <<>>
  BY DEF FailOver
<1>2. /\ retry_count \in 0..MaxRetries /\ MaxRetries \in Nat /\ Len(Layers) \in Nat
      /\ queries_sent \in BOOLEAN /\ next_query \in Nat
  <2>1. MaxRetries \in Nat /\ Len(Layers) \in Nat
    BY DiscoveryAssumption, LayersType
  <2> QED BY <2>1 DEF DiscoveryInv, DiscoveryTypeOK
<1>3. retry_count' \in 0..MaxRetries
  BY <1>1, <1>2
<1>4. provider_cache' \in [LayerSet -> Seq(Peers)]
  <2>1. \A l \in LayerSet : Retain(provider_cache[l], Peers \ {failed}) \in Seq(Peers)
    BY RetainFacts DEF DiscoveryInv, DiscoveryTypeOK
  <2> QED BY <2>1 DEF FailOver
<1>5. QueriesCounted'
  <2> DEFINE tries == retry_count + IF queries_sent THEN 1 ELSE 0
  <2>1. next_query <= 1 + tries * Len(Layers)
    BY DEF DiscoveryInv, QueriesCounted
  <2>2. tries \in Nat /\ retry_count + 1 \in Nat /\ tries <= retry_count + 1
    <3>1. tries = retry_count \/ tries = retry_count + 1
      BY <1>2
    <3> HIDE DEF tries
    <3> QED BY <1>2, <3>1
  <2> HIDE DEF tries
  <2>3. /\ tries * Len(Layers) \in Nat /\ (retry_count + 1) * Len(Layers) \in Nat
        /\ tries * Len(Layers) <= (retry_count + 1) * Len(Layers)
    BY <1>2, <2>2, QueryArithmetic
  <2>4. next_query <= 1 + (retry_count + 1) * Len(Layers)
    BY <1>2, <2>1, <2>3
  <2>5. retry_count' + (IF queries_sent' THEN 1 ELSE 0) = retry_count + 1
    BY <1>1, <1>2
  <2> QED BY <1>1, <2>4, <2>5 DEF QueriesCounted
<1>6. DiscoveryTypeOK'
  <2>1. <<>> \in Seq(Peers)
    OBVIOUS
  <2>2. providers' \in [LayerSet -> Peers \cup {NoPeer}]
    BY <1>1
  <2> QED BY <1>1, <1>3, <1>4, <2>1, <2>2 DEF DiscoveryInv, DiscoveryTypeOK
<1>7. AnnouncedServe' /\ ProvidersServe' /\ ChainOK'
  BY <1>1 DEF DiscoveryInv, AnnouncedServe, ProvidersServe, ChainOK, ChainServesLayers
<1> QED BY <1>1, <1>5, <1>6, <1>7 DEF DiscoveryInv

\* A worker's announcement touches no client.
LEMMA AnnouncementKeeps ==
    ASSUME DiscoveryInv, UNCHANGED clientDiscovery,
           announced' \in [LayerSet -> SUBSET Peers], AnnouncedServe'
    PROVE  DiscoveryInv'
<1>1. DiscoveryTypeOK'
  BY DEF DiscoveryInv, DiscoveryTypeOK, clientDiscovery
<1>2. ProvidersServe' /\ QueriesCounted' /\ ChainOK'
  BY DEF DiscoveryInv, ProvidersServe, QueriesCounted, ChainOK, ChainServesLayers,
         clientDiscovery
<1> QED BY <1>1, <1>2 DEF DiscoveryInv

\* The invariant speaks of the discovery variables only.
LEMMA DiscoveryKept ==
    ASSUME DiscoveryInv, UNCHANGED discovery
    PROVE  DiscoveryInv' /\ chain_built' = chain_built /\ retry_count' = retry_count
<1>1. UNCHANGED clientDiscovery /\ announced' = announced
  BY DEF discovery
<1>2. announced' \in [LayerSet -> SUBSET Peers] /\ AnnouncedServe'
  BY <1>1 DEF DiscoveryInv, DiscoveryTypeOK, AnnouncedServe
<1> QED BY <1>1, <1>2, AnnouncementKeeps DEF clientDiscovery
=============================================================================
