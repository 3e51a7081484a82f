----------------------- MODULE SequenceManagerProofs -----------------------
(***************************************************************************)
(* Spans are what the records say of a server, chains are whole, and the   *)
(* chain found is nearly the cheapest, for any records, spans and delays;  *)
(* and what block selection makes of the same records.                     *)
(***************************************************************************)
EXTENDS BlockPlanning, FoldLemmas

-----------------------------------------------------------------------------
(* The span of a server, block by block *)

MinStates == {Joining, Online}
Span == [peer : Peers, state : 0..2, start : Nat, end : 0..NumBlocks]

\* What is assumed of blocks and servers.
LEMMA BlockFacts ==
    /\ NumBlocks \in Nat /\ NumBlocks >= 1 /\ NumBlocks < USIZE /\ Offset \in Nat
    /\ Blocks \subseteq Nat /\ \A b \in Blocks : b + 1 \in 1..NumBlocks
    /\ IsFiniteSet(Peers)
BY SpansAssumption DEF Blocks, USIZE

\* The fields of a span are numbers, and its end is at most NumBlocks.
LEMMA SpanFields ==
    ASSUME NEW s \in Span
    PROVE  /\ s.peer \in Peers /\ s.state \in 0..2 /\ s.state \in Int
           /\ s.start \in Nat /\ s.end \in Nat /\ s.end <= NumBlocks
BY BlockFacts DEF Span

\* A number that fits in a usize stays what it is.
LEMMA SmallModulo ==
    ASSUME NEW a \in Int, 0 <= a, a < USIZE
    PROVE  a % USIZE = a
BY DEF USIZE

\* The records name the states and claims of known servers.
LEMMA RecordFacts ==
    ASSUME NEW infos, IsModuleInfos(infos), NEW b \in Blocks, NEW p \in DOMAIN infos[b]
    PROVE  /\ p \in Peers /\ infos[b][p].state \in 0..2
           /\ \/ infos[b][p].claim = NoClaim
              \/ infos[b][p].claim.start \in Nat /\ infos[b][p].claim.end \in Nat
BY DEF IsModuleInfos, ServerInfo

\* A server that is listed in some state is listed first at some block.
LEMMA ListedFacts ==
    ASSUME NEW infos, IsModuleInfos(infos), NEW p, NEW m,
           ListedAt(infos, p, m) # {}
    PROVE  /\ Min(ListedAt(infos, p, m)) \in ListedAt(infos, p, m)
           /\ \A b \in ListedAt(infos, p, m) :
                /\ Min(ListedAt(infos, p, m)) <= b
                /\ b \in Blocks /\ p \in DOMAIN infos[b] /\ infos[b][p].state \in 0..2
                /\ infos[b][p].state >= m
<1>1. ListedAt(infos, p, m) \subseteq Blocks
  BY DEF ListedAt
<1>2. ListedAt(infos, p, m) \subseteq Nat
  BY <1>1, BlockFacts
<1> QED BY <1>1, <1>2, MinOfNumbers, RecordFacts DEF ListedAt

\* A claim only lowers the end and raises the start.
LEMMA ClipFacts ==
    ASSUME NEW entry \in Span, NEW info,
           \/ info.claim = NoClaim
           \/ info.claim.start \in Nat /\ info.claim.end \in Nat
    PROVE  /\ Clip(entry, info) \in Span
           /\ Clip(entry, info).peer = entry.peer /\ Clip(entry, info).state = entry.state
           /\ Clip(entry, info).start >= entry.start /\ Clip(entry, info).end <= entry.end
           /\ info.claim = NoClaim => Clip(entry, info) = entry
           /\ info.claim # NoClaim =>
                /\ Clip(entry, info).start
                     = Max({entry.start, SaturatingSub(info.claim.start, Offset)})
                /\ Clip(entry, info).end
                     = Min({entry.end, SaturatingSub(info.claim.end, Offset), NumBlocks})
<1>1. CASE info.claim = NoClaim
  BY <1>1 DEF Clip, Span
<1>2. CASE info.claim # NoClaim
  <2> DEFINE s == SaturatingSub(info.claim.start, Offset)
             e == SaturatingSub(info.claim.end, Offset)
             low == Max({entry.start, s})
             high == Min({entry.end, e, NumBlocks})
  <2>1. s \in Nat /\ e \in Nat
    BY <1>2, BlockFacts DEF SaturatingSub
  <2>2. entry.start \in Nat /\ entry.end \in Nat /\ entry.end <= NumBlocks
    BY BlockFacts DEF Span
  <2>3. low \in Nat /\ low >= entry.start
    <3> HIDE DEF s, e
    <3> QED BY <2>1, <2>2, MaxMin
  <2>4. high \in Nat /\ high <= entry.end
    <3> HIDE DEF s, e
    <3>1. entry.end \in Int /\ e \in Int /\ NumBlocks \in Int
      BY <2>1, <2>2, BlockFacts
    <3>2. high \in {entry.end, e, NumBlocks} /\ high <= entry.end
      BY <3>1, MaxMin
    <3> QED BY <2>1, <2>2, <3>2, BlockFacts
  <2>5. Clip(entry, info) = [entry EXCEPT !.start = low, !.end = high]
    BY <1>2 DEF Clip
  <2> HIDE DEF low, high
  <2>6. high \in 0..NumBlocks
    BY <2>2, <2>4, BlockFacts
  <2>7. entry = [peer |-> entry.peer, state |-> entry.state,
                 start |-> entry.start, end |-> entry.end]
    BY DEF Span
  <2>8. Clip(entry, info) = [peer |-> entry.peer, state |-> entry.state,
                             start |-> low, end |-> high]
    BY <2>5, <2>7
  <2>9. entry.peer \in Peers /\ entry.state \in 0..2
    BY DEF Span
  <2> QED BY <1>2, <2>3, <2>4, <2>6, <2>8, <2>9 DEF low, high, Span
<1> QED BY <1>1, <1>2

\* A visit leaves a span.
LEMMA VisitFacts ==
    ASSUME NEW entry \in Span, NEW b \in Blocks, NEW info, info.state \in 0..2
    PROVE  Visit(entry, b, info) \in Span
BY BlockFacts DEF Visit, Span

\* What a block makes of the entry of a server.
Passed(infos, p, m, entry, b) ==
    IF b \in ListedAt(infos, p, m) THEN Clip(Visit(entry, b, infos[b][p]), infos[b][p]) ELSE entry

FreshEntry(infos, p, m) ==
    LET first == Min(ListedAt(infos, p, m))
    IN  [peer |-> p, state |-> infos[first][p].state, start |-> first, end |-> first + 1]

PassedBy(f, infos, p, m) ==
    LET blocks == [i \in 1..NumBlocks |-> i - 1]
    IN  f = [u \in SUBSET (DOMAIN blocks) |->
               IF u = {} THEN FreshEntry(infos, p, m)
               ELSE Passed(infos, p, m, f[u \ {Max(u)}], blocks[Max(u)])]

\* So does passing a block, whether the server is listed there or not.
LEMMA PassedFacts ==
    ASSUME NEW infos, IsModuleInfos(infos), NEW p \in Peers, NEW m,
           NEW entry \in Span, NEW b \in Blocks
    PROVE  Passed(infos, p, m, entry, b) \in Span
<1>1. CASE b \in ListedAt(infos, p, m)
  <2>1. p \in DOMAIN infos[b] /\ infos[b][p].state \in 0..2
    BY <1>1, RecordFacts DEF ListedAt
  <2> DEFINE info == infos[b][p]
             v == Visit(entry, b, info)
  <2>2. v \in Span
    BY <2>1, VisitFacts
  <2>3. \/ info.claim = NoClaim
        \/ info.claim.start \in Nat /\ info.claim.end \in Nat
    BY <2>1, RecordFacts
  <2>4. Passed(infos, p, m, entry, b) = Clip(v, info)
    BY <1>1 DEF Passed
  <2> HIDE DEF info, v
  <2> QED BY <2>2, <2>3, <2>4, ClipFacts
<1> QED BY <1>1 DEF Passed

\* compute_spans goes through the blocks in their order.
LEMMA SpanPrefixes ==
    ASSUME NEW infos, IsModuleInfos(infos), NEW p \in Peers, NEW m,
           ListedAt(infos, p, m) # {}
    PROVE  \E h \in [0..NumBlocks -> Span] :
              /\ h[0] = FreshEntry(infos, p, m) /\ h[NumBlocks] = SpanOf(infos, p, m)
              /\ \A b \in Blocks : h[b + 1] = Passed(infos, p, m, h[b], b)
<1> DEFINE fresh == FreshEntry(infos, p, m)
           step == [i \in 1..NumBlocks |-> [e \in Span |-> Passed(infos, p, m, e, i - 1)]]
<1>1. fresh \in Span
  <2> DEFINE first == Min(ListedAt(infos, p, m))
  <2>1. first \in Blocks /\ infos[first][p].state \in 0..2
    BY ListedFacts
  <2>2. first \in Nat /\ first + 1 \in 0..NumBlocks
    <3> HIDE DEF first
    <3> QED BY <2>1, BlockFacts
  <2>3. fresh = [peer |-> p, state |-> infos[first][p].state,
                 start |-> first, end |-> first + 1]
    BY DEF FreshEntry
  <2> HIDE DEF first, fresh
  <2> QED BY <2>1, <2>2, <2>3 DEF Span
<1>2. \A i \in 1..NumBlocks : i - 1 \in Blocks
  BY BlockFacts DEF Blocks
<1>3. step \in [1..NumBlocks -> [Span -> Span]]
  BY <1>2, PassedFacts
<1>4. PICK g \in [SUBSET (1..NumBlocks) -> Span] : FoldsIndices(g, NumBlocks, fresh, step)
  <2> HIDE DEF fresh, step
  <2>1. NumBlocks \in Nat
    BY BlockFacts
  <2> QED BY <1>1, <1>3, <2>1, SequenceFoldExists
<1>5. PassedBy(g, infos, p, m)
  <2> DEFINE blocks == [i \in 1..NumBlocks |-> i - 1]
  <2>1. ASSUME NEW u \in SUBSET (1..NumBlocks), u # {}
        PROVE  g[u] = Passed(infos, p, m, g[u \ {Max(u)}], blocks[Max(u)])
    <3>1. Max(u) \in 1..NumBlocks /\ u \ {Max(u)} \in SUBSET (1..NumBlocks)
      BY <2>1, BlockFacts, PrefixIndices
    <3>2. g[u \ {Max(u)}] \in Span
      BY <3>1
    <3>3. g[u] = step[Max(u)][g[u \ {Max(u)}]]
      <4> HIDE DEF step, fresh
      <4> QED BY <1>4, <2>1 DEF FoldsIndices
    <3>4. blocks[Max(u)] = Max(u) - 1
      BY <3>1
    <3>5. step[Max(u)][g[u \ {Max(u)}]] = Passed(infos, p, m, g[u \ {Max(u)}], Max(u) - 1)
      BY <3>1, <3>2
    <3> QED BY <3>3, <3>4, <3>5
  <2>2. g[{}] = fresh
    <3> HIDE DEF step, fresh
    <3> QED BY <1>4 DEF FoldsIndices
  <2>3. DOMAIN blocks = 1..NumBlocks
    OBVIOUS
  <2> HIDE DEF blocks
  <2>4. g = [u \in SUBSET (DOMAIN blocks) |->
               IF u = {} THEN fresh ELSE Passed(infos, p, m, g[u \ {Max(u)}], blocks[Max(u)])]
    <3> HIDE DEF fresh
    <3> QED BY <2>1, <2>2, <2>3
  <2> QED BY <2>4 DEF PassedBy, blocks
<1> DEFINE G == CHOOSE f : PassedBy(f, infos, p, m)
<1>6. PassedBy(G, infos, p, m)
  BY <1>5
<1>7. SpanOf(infos, p, m) = G[1..NumBlocks]
  <2>1. DOMAIN [i \in 1..NumBlocks |-> i - 1] = 1..NumBlocks
    OBVIOUS
  <2> QED BY <2>1 DEF SpanOf, FoldLeft, MapThenFoldSet, PassedBy, Passed, FreshEntry
<1> HIDE DEF G, fresh, step
<1>8. G[{}] = FreshEntry(infos, p, m)
  BY <1>6, {} \in SUBSET (1..NumBlocks) DEF PassedBy
<1>9. ASSUME NEW i \in 1..NumBlocks
      PROVE  G[1..i] = Passed(infos, p, m, G[1..(i - 1)], i - 1)
  <2>1. /\ 1..i \in SUBSET (1..NumBlocks) /\ 1..i # {}
        /\ Max(1..i) = i /\ (1..i) \ {i} = 1..(i - 1)
    BY BlockFacts, PrefixIndices
  <2> DEFINE blocks == [k \in 1..NumBlocks |-> k - 1]
  <2>2. blocks[i] = i - 1 /\ DOMAIN blocks = 1..NumBlocks
    OBVIOUS
  <2>3. G[1..i] = Passed(infos, p, m, G[(1..i) \ {Max(1..i)}], blocks[Max(1..i)])
    BY <1>6, <2>1, <2>2 DEF PassedBy
  <2> HIDE DEF blocks
  <2> QED BY <2>1, <2>2, <2>3
<1> DEFINE h == [i \in 0..NumBlocks |-> G[1..i]]
<1>10. h[0] = FreshEntry(infos, p, m) /\ h[NumBlocks] = SpanOf(infos, p, m)
  BY <1>7, <1>8, BlockFacts, 1..0 = {}
<1>11. ASSUME NEW b \in Blocks PROVE h[b + 1] = Passed(infos, p, m, h[b], b)
  <2>1. b \in 0..NumBlocks /\ b + 1 \in 1..NumBlocks /\ b + 1 \in 0..NumBlocks /\ (b + 1) - 1 = b
    BY BlockFacts DEF Blocks
  <2>2. G[1..(b + 1)] = Passed(infos, p, m, G[1..b], b)
    BY <1>9, <2>1
  <2> QED BY <2>1, <2>2
<1>12. h \in [0..NumBlocks -> Span]
  <2> DEFINE T == {i \in Nat : i <= NumBlocks => h[i] \in Span}
  <2> HIDE DEF h
  <2>1. 0 \in T
    BY <1>1, <1>10 DEF fresh
  <2>2. ASSUME NEW i \in Nat, i \in T, i + 1 <= NumBlocks PROVE h[i + 1] \in Span
    <3>1. i \in Blocks /\ h[i] \in Span
      BY <2>2, BlockFacts DEF Blocks
    <3> QED BY <1>11, <3>1, PassedFacts
  <2>3. \A i \in Nat : i \in T => i + 1 \in T
    BY <2>2
  <2>4. \A i \in Nat : i \in T
    <3> HIDE DEF T
    <3> QED BY <2>1, <2>3, NumberInduction
  <2>5. \A i \in 0..NumBlocks : h[i] \in Span
    BY <2>4
  <2> QED BY <2>5 DEF h
<1> HIDE DEF h
<1> QED BY <1>10, <1>11, <1>12

\* What a record makes of the entry, field by field.
LEMMA PassedFields ==
    ASSUME NEW infos, IsModuleInfos(infos), NEW p \in Peers, NEW m,
           NEW entry \in Span, NEW b \in ListedAt(infos, p, m)
    PROVE  LET v == Visit(entry, b, infos[b][p])
               e == Passed(infos, p, m, entry, b)
           IN  /\ e = Clip(v, infos[b][p]) /\ v \in Span /\ e \in Span
               /\ e.peer = entry.peer /\ e.state = v.state
               /\ e.start >= v.start /\ e.end <= v.end
               /\ infos[b][p].claim = NoClaim => e = v
<1> DEFINE info == infos[b][p]
           v == Visit(entry, b, info)
<1>1. /\ b \in Blocks /\ info.state \in 0..2
      /\ \/ info.claim = NoClaim
         \/ info.claim.start \in Nat /\ info.claim.end \in Nat
  BY RecordFacts DEF ListedAt
<1>2. v \in Span /\ v.peer = entry.peer
  BY <1>1, VisitFacts DEF Visit
<1>3. Passed(infos, p, m, entry, b) = Clip(v, info)
  BY DEF Passed
<1> HIDE DEF v, info
<1>4. /\ Clip(v, info) \in Span /\ Clip(v, info).peer = v.peer /\ Clip(v, info).state = v.state
      /\ Clip(v, info).start >= v.start /\ Clip(v, info).end <= v.end
      /\ info.claim = NoClaim => Clip(v, info) = v
  BY <1>1, <1>2, ClipFacts
<1> QED BY <1>2, <1>3, <1>4 DEF v, info

\* A span is a server's own, and lies between the blocks it is listed at.
LEMMA SpanCut ==
    ASSUME NEW infos, IsModuleInfos(infos), NEW p \in Peers, NEW m,
           ListedAt(infos, p, m) # {}
    PROVE  /\ SpanOf(infos, p, m) \in Span /\ SpanOf(infos, p, m).peer = p
           /\ SpanOf(infos, p, m).start >= Min(ListedAt(infos, p, m))
           /\ SpanOf(infos, p, m).end <= Max(ListedAt(infos, p, m)) + 1
<1> DEFINE L == ListedAt(infos, p, m)
           Good(e) == e.peer = p /\ e.start >= Min(L) /\ \E b \in L : e.end <= b + 1
<1>1. PICK h \in [0..NumBlocks -> Span] :
        /\ h[0] = FreshEntry(infos, p, m) /\ h[NumBlocks] = SpanOf(infos, p, m)
        /\ \A b \in Blocks : h[b + 1] = Passed(infos, p, m, h[b], b)
  BY SpanPrefixes
<1>2. Min(L) \in L /\ \A b \in L : Min(L) <= b /\ b \in Nat /\ b \in Blocks
  BY ListedFacts, BlockFacts
<1> DEFINE T == {i \in Nat : i <= NumBlocks => Good(h[i])}
<1>3. 0 \in T
  <2> HIDE DEF L
  <2>1. h[0] = [peer |-> p, state |-> infos[Min(L)][p].state,
                start |-> Min(L), end |-> Min(L) + 1]
    BY <1>1 DEF FreshEntry, L
  <2>2. Good(h[0])
    BY <1>2, <2>1
  <2> QED BY <2>2
<1>4. ASSUME NEW b \in Nat, b \in T, b + 1 <= NumBlocks PROVE Good(h[b + 1])
  <2>1. b \in Blocks /\ b \in 0..NumBlocks /\ h[b] \in Span /\ Good(h[b])
    <3>1. b \in Blocks /\ b \in 0..NumBlocks
      BY <1>4, BlockFacts DEF Blocks
    <3> HIDE DEF Good
    <3> QED BY <1>4, <3>1, BlockFacts
  <2>2. h[b + 1] = Passed(infos, p, m, h[b], b)
    BY <1>1, <2>1
  <2>3. CASE b \notin L
    BY <2>1, <2>2, <2>3 DEF Passed
  <2>4. CASE b \in L
    <3> DEFINE v == Visit(h[b], b, infos[b][p])
               e == h[b + 1]
    <3>1. v \in Span /\ e \in Span /\ e.peer = h[b].peer /\ e.start >= v.start /\ e.end <= v.end
      BY <2>1, <2>2, <2>4, PassedFields
    <3>2. v.start \in {h[b].start, b} /\ v.end \in {h[b].end, b + 1}
      BY DEF Visit
    <3> HIDE DEF v, e, L
    <3>3. v.start \in Nat /\ v.end \in Nat /\ e.start \in Nat /\ e.end \in Nat
          /\ h[b].start \in Nat /\ h[b].end \in Nat
      BY <2>1, <3>1, BlockFacts DEF Span
    <3>4. e.start >= Min(L)
      <4>1. Min(L) \in Nat /\ h[b].start >= Min(L) /\ b >= Min(L)
        BY <1>2, <2>1, <2>4
      <4>2. v.start >= Min(L)
        BY <3>2, <4>1
      <4> QED BY <3>1, <3>3, <4>1, <4>2
    <3>5. \E k \in L : e.end <= k + 1
      <4>1. CASE v.end = b + 1
        BY <2>4, <3>1, <4>1
      <4>2. CASE v.end = h[b].end
        <5>1. PICK k \in L : h[b].end <= k + 1
          BY <2>1
        <5>2. k \in Nat
          BY <1>2
        <5> QED BY <3>1, <3>3, <4>2, <5>1, <5>2
      <4> QED BY <3>2, <4>1, <4>2
    <3> QED BY <2>1, <3>1, <3>4, <3>5 DEF e
  <2> QED BY <2>3, <2>4
<1>5. Good(h[NumBlocks])
  <2> HIDE DEF Good
  <2>1. \A b \in Nat : b \in T => b + 1 \in T
    BY <1>4
  <2>2. \A b \in Nat : b \in T
    <3> HIDE DEF T
    <3> QED BY <1>3, <2>1, NumberInduction
  <2> QED BY <2>2, BlockFacts
<1>6. L \subseteq 0..(NumBlocks - 1) /\ IsFiniteSet(0..(NumBlocks - 1)) /\ L \subseteq Nat
  <2> HIDE DEF L
  <2>1. 0 \in Int /\ NumBlocks - 1 \in Int
    BY BlockFacts
  <2>2. IsFiniteSet(0..(NumBlocks - 1))
    BY <2>1, FS_Interval
  <2> QED BY <1>2, <2>2 DEF Blocks
<1>7. \A k \in L : k <= Max(L) /\ Max(L) \in Nat
  <2> HIDE DEF L
  <2>1. IsFiniteSet(L)
    BY <1>6, FS_Subset
  <2> QED BY <1>2, <1>6, <2>1, MaxOfNumbers
<1>8. h[NumBlocks] \in Span /\ h[NumBlocks].end \in Nat
  BY BlockFacts DEF Span
<1> HIDE DEF L
<1>9. h[NumBlocks].end <= Max(L) + 1
  <2>1. PICK k \in L : h[NumBlocks].end <= k + 1
    BY <1>5
  <2>2. k \in Nat /\ k <= Max(L) /\ Max(L) \in Nat
    BY <1>6, <1>7
  <2> QED BY <1>8, <2>1, <2>2
<1> QED BY <1>1, <1>5, <1>8, <1>9 DEF L

\* Without claims, a span runs over the blocks of the best state.
LEMMA SpanBest ==
    ASSUME NEW infos, IsModuleInfos(infos), NEW p \in Peers, NEW m,
           ListedAt(infos, p, m) # {}, Unclaimed(infos, p)
    PROVE  LET s    == SpanOf(infos, p, m)
               best == BestBlocks(infos, p, m)
           IN  s.start = Min(best) /\ s.end = Max(best) + 1 /\ s.state = BestState(infos, p, m)
<1> DEFINE L == ListedAt(infos, p, m)
           st(b) == infos[b][p].state
           Best(i, e) == /\ \E b \in L : b < i /\ st(b) = e.state /\ e.start = b
                         /\ \E b \in L : b < i /\ st(b) = e.state /\ e.end = b + 1
                         /\ \A b \in L : b < i => st(b) <= e.state
                         /\ \A b \in L : b < i /\ st(b) = e.state => e.start <= b /\ b < e.end
           Good(i, e) == IF i <= Min(L) THEN e = FreshEntry(infos, p, m) ELSE Best(i, e)
<1>1. PICK h \in [0..NumBlocks -> Span] :
        /\ h[0] = FreshEntry(infos, p, m) /\ h[NumBlocks] = SpanOf(infos, p, m)
        /\ \A b \in Blocks : h[b + 1] = Passed(infos, p, m, h[b], b)
  BY SpanPrefixes
<1>2. /\ Min(L) \in L
      /\ \A b \in L : Min(L) <= b /\ b \in Nat /\ b \in Blocks /\ st(b) \in 0..2
                      /\ infos[b][p].claim = NoClaim
  BY ListedFacts, BlockFacts DEF Unclaimed
<1>3. FreshEntry(infos, p, m) = [peer |-> p, state |-> st(Min(L)),
                                 start |-> Min(L), end |-> Min(L) + 1]
  BY DEF FreshEntry
<1> DEFINE T == {i \in Nat : i <= NumBlocks => Good(i, h[i])}
<1>4. 0 \in T
  BY <1>1, <1>2
<1>5. ASSUME NEW b \in Nat, b \in T, b + 1 <= NumBlocks PROVE Good(b + 1, h[b + 1])
  <2>1. b \in Blocks /\ b \in 0..NumBlocks /\ h[b] \in Span /\ Good(b, h[b])
    <3>1. b \in Blocks /\ b \in 0..NumBlocks
      BY <1>5, BlockFacts DEF Blocks
    <3> HIDE DEF Good
    <3> QED BY <1>5, <3>1, BlockFacts
  <2>2. h[b + 1] = Passed(infos, p, m, h[b], b)
    BY <1>1, <2>1
  <2>3. CASE b \notin L
    <3>1. h[b + 1] = h[b]
      BY <2>2, <2>3 DEF Passed
    <3>2. \A k \in L : k < b + 1 <=> k < b
      BY <1>2, <2>3
    <3>3. b + 1 <= Min(L) <=> b <= Min(L)
      BY <1>2, <2>3
    <3> HIDE DEF L, st
    <3> QED BY <2>1, <3>1, <3>2, <3>3
  <2>4. CASE b \in L
    <3> DEFINE v == Visit(h[b], b, infos[b][p])
    <3>1. h[b + 1] = v
      <4>1. infos[b][p].claim = NoClaim /\ h[b] \in Span
        BY <1>2, <2>1, <2>4
      <4>2. infos[b][p].claim = NoClaim => Passed(infos, p, m, h[b], b) = v
        BY <2>4, <4>1, PassedFields
      <4> QED BY <2>2, <4>1, <4>2
    <3>2. v = [peer |-> h[b].peer,
               state |-> IF h[b].state < st(b) THEN st(b) ELSE h[b].state,
               start |-> IF h[b].state < st(b) THEN b ELSE h[b].start,
               end |-> IF h[b].state <= st(b) THEN b + 1 ELSE h[b].end]
      BY DEF Visit
    <3> HIDE DEF v
    <3>3. h[b].state \in Int /\ h[b].start \in Nat /\ h[b].end \in Nat
      <4>1. h[b] \in Span
        BY <2>1
      <4> DEFINE entry == h[b]
      <4> HIDE DEF entry
      <4>2. entry \in Span
        BY <4>1 DEF entry
      <4>3. entry.state \in Int /\ entry.start \in Nat /\ entry.end \in Nat
        BY <4>2, SpanFields
      <4> QED BY <4>3 DEF entry
    <3>4. Min(L) <= b /\ ~(b + 1 <= Min(L)) /\ Min(L) \in Nat /\ b \in Nat
      <4> DEFINE least == Min(L)
      <4> HIDE DEF least
      <4>1. least \in Nat /\ least <= b
        BY <1>2, <2>4 DEF least
      <4>2. ~(b + 1 <= least)
        BY <4>1
      <4> QED BY <4>1, <4>2 DEF least
    <3> DEFINE e == h[b + 1]
    <3>5. CASE b = Min(L)
      <4>1. h[b] = [peer |-> p, state |-> st(b), start |-> b, end |-> b + 1]
        <5> HIDE DEF st, L
        <5> QED BY <1>3, <2>1, <3>4, <3>5
      <4>2. e.state = st(b) /\ e.start = b /\ e.end = b + 1
        <5> HIDE DEF st
        <5> QED BY <3>1, <3>2, <4>1, <2>4, <1>2
      <4>3. \A k \in L : k < b + 1 => k = b
        BY <1>2, <3>5
      <4> HIDE DEF st, L, e
      <4>4. Best(b + 1, e)
        BY <1>2, <2>4, <4>2, <4>3, <3>4
      <4> QED BY <3>4, <4>4 DEF e
    <3>6. CASE b # Min(L)
      <4>1. Best(b, h[b])
        <5> HIDE DEF Best
        <5> QED BY <2>1, <3>4, <3>6
      <4>2. \A k \in L : k < b + 1 <=> k < b \/ k = b
        BY <1>2
      <4>3. /\ e.state = IF h[b].state < st(b) THEN st(b) ELSE h[b].state
            /\ e.start = IF h[b].state < st(b) THEN b ELSE h[b].start
            /\ e.end = IF h[b].state <= st(b) THEN b + 1 ELSE h[b].end
        <5> HIDE DEF st
        <5> QED BY <3>1, <3>2
      <4>4. \A k \in L : k \in Nat /\ st(k) \in Int
        BY <1>2
      <4> HIDE DEF st, L, e
      <4>5. Best(b + 1, e)
        <5>1. CASE h[b].state < st(b)
          BY <2>4, <3>3, <4>1, <4>2, <4>3, <4>4, <5>1
        <5>2. CASE h[b].state = st(b)
          BY <2>4, <3>3, <4>1, <4>2, <4>3, <4>4, <5>2
        <5>3. CASE h[b].state > st(b)
          <6>1. e.state = h[b].state /\ e.start = h[b].start /\ e.end = h[b].end
            BY <2>4, <3>3, <4>3, <4>4, <5>3
          <6>2. st(b) # e.state /\ st(b) <= e.state
            BY <2>4, <3>3, <4>4, <5>3, <6>1
          <6> QED BY <4>1, <4>2, <6>1, <6>2
        <5> QED BY <2>4, <3>3, <4>4, <5>1, <5>2, <5>3
      <4> QED BY <3>4, <4>5 DEF e
    <3> QED BY <3>5, <3>6
  <2> QED BY <2>3, <2>4
<1>6. Good(NumBlocks, h[NumBlocks])
  <2> HIDE DEF Good
  <2>1. \A b \in Nat : b \in T => b + 1 \in T
    BY <1>5
  <2>2. \A b \in Nat : b \in T
    <3> HIDE DEF T
    <3> QED BY <1>4, <2>1, NumberInduction
  <2> QED BY <2>2, BlockFacts
<1> DEFINE e == h[NumBlocks]
<1>7. \A b \in L : b < NumBlocks
  BY <1>2, BlockFacts
<1>8. Best(NumBlocks, e)
  <2>1. Min(L) \in Nat /\ Min(L) < NumBlocks /\ NumBlocks \in Nat
    <3> HIDE DEF L
    <3> QED BY <1>2, <1>7, BlockFacts
  <2>2. ~(NumBlocks <= Min(L))
    <3> HIDE DEF L
    <3> QED BY <2>1
  <2> HIDE DEF Best
  <2> QED BY <1>6, <2>2
<1>9. BestState(infos, p, m) = e.state
  <2> DEFINE S == {st(b) : b \in L}
  <2>1. S \subseteq Int /\ e.state \in S /\ \A y \in S : e.state >= y
    <3> HIDE DEF st, L, e
    <3>1. \A b \in L : st(b) \in Int
      BY <1>2
    <3>2. e.state \in S
      BY <1>8
    <3>3. \A b \in L : e.state >= st(b)
      BY <1>7, <1>8, <3>1, <3>2
    <3> QED BY <3>1, <3>2, <3>3
  <2>2. BestState(infos, p, m) = Max(S)
    BY DEF BestState
  <2> HIDE DEF S
  <2> QED BY <2>1, <2>2, ExtremeIs
<1>10. BestBlocks(infos, p, m) = {b \in L : st(b) = e.state}
  BY <1>9 DEF BestBlocks
<1> DEFINE B == {b \in L : st(b) = e.state}
<1> HIDE DEF st, L, e
<1>11. B \subseteq Int /\ e.start \in B /\ e.end - 1 \in B /\ e.end \in Int
  <2>1. \A b \in L : (b + 1) - 1 = b /\ b + 1 \in Int /\ b \in Int
    BY <1>2
  <2> QED BY <1>8, <2>1
<1>12. \A b \in B : e.start <= b /\ b <= e.end - 1
  <2>1. \A b \in B : e.start <= b /\ b < e.end /\ b \in Int
    BY <1>2, <1>7, <1>8
  <2> QED BY <1>11, <2>1
<1>13. Min(B) = e.start /\ Max(B) = e.end - 1
  <2> HIDE DEF B
  <2>1. Min(B) = e.start
    BY <1>11, <1>12, ExtremeIs
  <2>2. \A b \in B : e.end - 1 >= b
    BY <1>11, <1>12
  <2>3. Max(B) = e.end - 1
    BY <1>11, <2>2, ExtremeIs
  <2> QED BY <2>1, <2>3
<1> QED BY <1>1, <1>9, <1>10, <1>11, <1>13 DEF e

InClaim(infos, p, b) ==
    LET claim == infos[b][p].claim
    IN  claim = NoClaim \/ (b + Offset) \in claim.start..(claim.end - 1)

\* A server that is online wherever it is listed, and claims the blocks that
\* it is listed at, has a span that is not empty.
LEMMA SpanInClaims ==
    ASSUME NEW infos, IsModuleInfos(infos), NEW p \in Peers,
           ListedAt(infos, p, Online) # {},
           \A b \in ListedAt(infos, p, Online) : InClaim(infos, p, b)
    PROVE  Length(SpanOf(infos, p, Online)) \in 1..NumBlocks
<1> DEFINE L == ListedAt(infos, p, Online)
           Good(i, e) == IF i <= Min(L) THEN e = FreshEntry(infos, p, Online)
                         ELSE e.state = 2 /\ e.start < e.end /\ e.start < i
<1>1. PICK h \in [0..NumBlocks -> Span] :
        /\ h[0] = FreshEntry(infos, p, Online) /\ h[NumBlocks] = SpanOf(infos, p, Online)
        /\ \A b \in Blocks : h[b + 1] = Passed(infos, p, Online, h[b], b)
  BY SpanPrefixes
<1>2. /\ Min(L) \in L
      /\ \A b \in L : Min(L) <= b /\ b \in Nat /\ b \in Blocks /\ infos[b][p].state = 2
  <2>1. \A b \in L : Min(L) <= b /\ b \in Blocks
                     /\ infos[b][p].state \in 0..2 /\ infos[b][p].state >= Online
    BY ListedFacts
  <2>2. \A b \in L : infos[b][p].state = 2
    BY <2>1 DEF Online
  <2> QED BY <2>1, <2>2, ListedFacts, BlockFacts
<1>3. FreshEntry(infos, p, Online) = [peer |-> p, state |-> 2, start |-> Min(L), end |-> Min(L) + 1]
  <2>1. infos[Min(L)][p].state = 2
    BY <1>2
  <2> QED BY <2>1 DEF FreshEntry
<1> DEFINE T == {i \in Nat : i <= NumBlocks => Good(i, h[i])}
<1>4. 0 \in T
  BY <1>1, <1>2
<1>5. ASSUME NEW b \in Nat, b \in T, b + 1 <= NumBlocks PROVE Good(b + 1, h[b + 1])
  <2>1. b \in Blocks /\ b \in 0..NumBlocks /\ h[b] \in Span /\ Good(b, h[b])
    <3>1. b \in Blocks /\ b \in 0..NumBlocks
      BY <1>5, BlockFacts DEF Blocks
    <3> HIDE DEF Good
    <3> QED BY <1>5, <3>1, BlockFacts
  <2>2. h[b + 1] = Passed(infos, p, Online, h[b], b)
    BY <1>1, <2>1
  <2> DEFINE old == h[b]
             new == h[b + 1]
  <2>3. old.state \in Int /\ old.start \in Nat /\ old.end \in Nat
    BY <2>1, SpanFields
  <2>4. CASE b \notin L
    <3>1. new = old
      BY <2>2, <2>4 DEF Passed
    <3>2. b + 1 <= Min(L) <=> b <= Min(L)
      BY <1>2, <2>4
    <3>3. Good(b, old)
      BY <2>1
    <3> HIDE DEF L, old, new
    <3>4. Good(b + 1, new)
      BY <2>3, <3>1, <3>2, <3>3
    <3> QED BY <3>4 DEF new
  <2>5. CASE b \in L
    <3> DEFINE info == infos[b][p]
               v == Visit(old, b, info)
    <3>1. old.state = 2 /\ old.start <= b
      <4>1. CASE b <= Min(L)
        <5>1. b = Min(L)
          <6>1. Min(L) \in Nat /\ Min(L) <= b
            BY <1>2, <2>5
          <6> HIDE DEF L
          <6> QED BY <4>1, <6>1
        <5>2. old = FreshEntry(infos, p, Online)
          BY <2>1, <4>1
        <5> HIDE DEF L, old
        <5> QED BY <1>3, <5>1, <5>2
      <4>2. CASE ~(b <= Min(L))
        <5>1. old.state = 2 /\ old.start < b
          BY <2>1, <4>2
        <5> QED BY <2>3, <5>1
      <4> QED BY <4>1, <4>2
    <3>2. info.state = 2 /\ InClaim(infos, p, b)
      BY <1>2, <2>5
    <3>3. v.state = 2 /\ v.start = old.start /\ v.end = b + 1
      <4> HIDE DEF old, info
      <4> QED BY <3>1, <3>2 DEF Visit
    <3>4. new = Clip(v, info) /\ v \in Span /\ new.state = v.state
      <4>1. old \in Span /\ b \in ListedAt(infos, p, Online)
        BY <2>1, <2>5
      <4> HIDE DEF old
      <4>2. LET w == Visit(old, b, infos[b][p])
                e == Passed(infos, p, Online, old, b)
            IN  e = Clip(w, infos[b][p]) /\ w \in Span /\ e.state = w.state
        BY <4>1, PassedFields
      <4> QED BY <2>2, <4>2 DEF old
    <3>5. \/ info.claim = NoClaim
          \/ info.claim.start \in Nat /\ info.claim.end \in Nat
      BY <2>5, RecordFacts DEF ListedAt
    <3>6. new.start <= b /\ new.end = b + 1
      <4>1. CASE info.claim = NoClaim
        <5>1. new = v
          <6> HIDE DEF v, info, new
          <6> QED BY <3>4, <3>5, <4>1, ClipFacts
        <5> HIDE DEF v, info, new, old
        <5> QED BY <3>1, <3>3, <5>1
      <4>2. CASE info.claim # NoClaim
        <5> DEFINE s == SaturatingSub(info.claim.start, Offset)
                   t == SaturatingSub(info.claim.end, Offset)
        <5>1. s \in Nat /\ t \in Nat /\ s <= b /\ b + 1 <= t
          <6>1. /\ info.claim.start \in Nat /\ info.claim.end \in Nat
                /\ info.claim.start <= b + Offset /\ b + Offset <= info.claim.end - 1
            BY <3>2, <3>5, <4>2, BlockFacts DEF InClaim
          <6> HIDE DEF info
          <6> QED BY <6>1, BlockFacts DEF SaturatingSub
        <5>2. new.start = Max({v.start, s}) /\ new.end = Min({v.end, t, NumBlocks})
          <6> HIDE DEF v, info, new
          <6> QED BY <3>4, <3>5, <4>2, ClipFacts
        <5> HIDE DEF s, t, v, new, old
        <5>3. Max({v.start, s}) <= b
          <6>1. v.start \in Int /\ s \in Int
            BY <2>3, <3>3, <5>1
          <6> QED BY <3>1, <3>3, <5>1, <6>1, MaxMin
        <5>4. Min({v.end, t, NumBlocks}) = b + 1
          <6>1. v.end \in Int /\ t \in Int /\ NumBlocks \in Int
            BY <3>3, <5>1, BlockFacts
          <6>2. /\ Min({v.end, t, NumBlocks}) \in {v.end, t, NumBlocks}
                /\ Min({v.end, t, NumBlocks}) <= v.end
            BY <6>1, MaxMin
          <6>3. b + 1 <= NumBlocks /\ NumBlocks \in Nat
            BY <1>5, BlockFacts
          <6> DEFINE least == Min({v.end, t, NumBlocks})
          <6> HIDE DEF least
          <6>4. least \in {b + 1, t, NumBlocks} /\ least <= b + 1
            BY <3>3, <6>2 DEF least
          <6>5. least = b + 1
            BY <5>1, <6>3, <6>4
          <6> QED BY <6>5 DEF least
        <5> QED BY <5>2, <5>3, <5>4
      <4> QED BY <4>1, <4>2
    <3>7. new.start \in Nat
      BY <3>4, <2>1, <2>2, <2>5, PassedFields DEF Span
    <3>8. ~(b + 1 <= Min(L))
      BY <1>2, <2>5
    <3> HIDE DEF new, v, L
    <3>9. new.state = 2 /\ new.start < new.end /\ new.start < b + 1
      BY <3>3, <3>4, <3>6, <3>7
    <3> QED BY <3>8, <3>9 DEF new
  <2> QED BY <2>4, <2>5
<1>6. Good(NumBlocks, h[NumBlocks])
  <2> HIDE DEF Good
  <2>1. \A b \in Nat : b \in T => b + 1 \in T
    BY <1>5
  <2>2. \A b \in Nat : b \in T
    <3> HIDE DEF T
    <3> QED BY <1>4, <2>1, NumberInduction
  <2> QED BY <2>2, BlockFacts
<1> DEFINE e == h[NumBlocks]
<1>7. ~(NumBlocks <= Min(L))
  <2>1. Min(L) \in Blocks /\ Min(L) \in Nat
    BY <1>2
  <2>2. Min(L) + 1 \in 1..NumBlocks
    BY <2>1, BlockFacts
  <2> HIDE DEF L
  <2> QED BY <2>1, <2>2, BlockFacts
<1>8. e.start < e.end
  BY <1>6, <1>7
<1>9. e.start \in Nat /\ e.end \in Nat /\ e.end <= NumBlocks
  <2>1. e \in Span
    BY <1>1, BlockFacts
  <2> HIDE DEF e
  <2> QED BY <2>1, SpanFields
<1> DEFINE length == e.end - e.start
<1>10. length \in 1..NumBlocks /\ length \in Int /\ 0 <= length /\ length < USIZE
  <2>1. USIZE \in Nat
    BY DEF USIZE
  <2> HIDE DEF e
  <2> QED BY <1>8, <1>9, <2>1, BlockFacts
<1>11. length % USIZE = length
  <2> HIDE DEF length
  <2> QED BY <1>10, SmallModulo
<1>12. Length(SpanOf(infos, p, Online)) = length % USIZE
  BY <1>1 DEF Length
<1> HIDE DEF length
<1> QED BY <1>10, <1>11, <1>12

\* Every span that compute_spans returns is right.
LEMMA SpansRight ==
    ASSUME NEW infos, IsModuleInfos(infos)
    PROVE  SpansAreBestState(infos) /\ ClaimsOnlyCut(infos)
<1>1. ASSUME NEW m \in {Joining, Online}, NEW s \in compute_spans(infos, m)
      PROVE  /\ s.peer \in Peers /\ ListedAt(infos, s.peer, m) # {}
             /\ s = SpanOf(infos, s.peer, m)
  <2>1. PICK p \in Peers : ListedAt(infos, p, m) # {} /\ s = SpanOf(infos, p, m)
    BY DEF compute_spans
  <2>2. SpanOf(infos, p, m).peer = p
    BY <2>1, SpanCut
  <2> QED BY <2>1, <2>2
<1>2. SpansAreBestState(infos)
  <2> SUFFICES ASSUME NEW m \in {Joining, Online}, NEW s \in compute_spans(infos, m),
                      Unclaimed(infos, s.peer)
               PROVE  LET best == BestBlocks(infos, s.peer, m)
                      IN  /\ s.start = Min(best) /\ s.end = Max(best) + 1
                          /\ s.state = BestState(infos, s.peer, m)
    BY DEF SpansAreBestState
  <2> DEFINE p == s.peer
  <2>1. p \in Peers /\ ListedAt(infos, p, m) # {} /\ s = SpanOf(infos, p, m)
    BY <1>1
  <2> HIDE DEF p
  <2>2. Unclaimed(infos, p)
    BY DEF p
  <2>3. LET best == BestBlocks(infos, p, m)
        IN  /\ SpanOf(infos, p, m).start = Min(best) /\ SpanOf(infos, p, m).end = Max(best) + 1
            /\ SpanOf(infos, p, m).state = BestState(infos, p, m)
    BY <2>1, <2>2, SpanBest
  <2> QED BY <2>1, <2>3 DEF p
<1>3. ClaimsOnlyCut(infos)
  <2> SUFFICES ASSUME NEW m \in {Joining, Online}, NEW s \in compute_spans(infos, m)
               PROVE  LET listed == ListedAt(infos, s.peer, m)
                      IN  /\ s.start >= Min(listed) /\ s.end <= Max(listed) + 1
                          /\ m = Online /\ (\A b \in listed : InClaim(infos, s.peer, b))
                               => Length(s) \in 1..NumBlocks
    BY DEF ClaimsOnlyCut, InClaim
  <2> DEFINE p == s.peer
  <2>1. p \in Peers /\ ListedAt(infos, p, m) # {} /\ s = SpanOf(infos, p, m)
    BY <1>1
  <2> HIDE DEF p
  <2>2. /\ SpanOf(infos, p, m).start >= Min(ListedAt(infos, p, m))
        /\ SpanOf(infos, p, m).end <= Max(ListedAt(infos, p, m)) + 1
    BY <2>1, SpanCut
  <2>3. ASSUME m = Online, \A b \in ListedAt(infos, p, m) : InClaim(infos, p, b)
        PROVE  Length(SpanOf(infos, p, m)) \in 1..NumBlocks
    <3>1. /\ ListedAt(infos, p, Online) # {}
          /\ \A b \in ListedAt(infos, p, Online) : InClaim(infos, p, b)
      BY <2>1, <2>3
    <3>2. Length(SpanOf(infos, p, Online)) \in 1..NumBlocks
      BY <2>1, <3>1, SpanInClaims
    <3> QED BY <2>3, <3>2
  <2> QED BY <2>1, <2>2, <2>3 DEF p
<1> QED BY <1>2, <1>3

-----------------------------------------------------------------------------
(* The spans by priority, and the graph they make *)

ArgsInv ==
    /\ module_infos \in Inputs /\ net \in Networks
    /\ spans \in spans_by_priority(module_infos) /\ start_index \in Blocks

\* Each server has one span.
LEMMA PriorityFacts ==
    ASSUME NEW infos, IsModuleInfos(infos), NEW ss \in spans_by_priority(infos)
    PROVE  /\ ss \in Seq(Span)
           /\ \A i, j \in DOMAIN ss : ss[i].peer = ss[j].peer => i = j
<1> DEFINE P == {q \in Peers : ListedAt(infos, q, Online) # {}}
           S == {SpanOf(infos, p, Online) : p \in P}
           n == Cardinality(S)
<1>1. IsFiniteSet(S)
  <2>1. P \subseteq Peers
    OBVIOUS
  <2>2. IsFiniteSet(P)
    <3> HIDE DEF P
    <3> QED BY <2>1, BlockFacts, FS_Subset
  <2> DEFINE f == [p \in P |-> SpanOf(infos, p, Online)]
  <2>3. S = {f[p] : p \in P} /\ f \in [P -> S]
    OBVIOUS
  <2>4. f \in Surjection(P, S)
    <3> HIDE DEF f, P
    <3> QED BY <2>3 DEF Surjection
  <2> HIDE DEF P, f, S
  <2> QED BY <2>2, <2>4, FS_Surjection
<1>2. n \in Nat
  <2> HIDE DEF S
  <2> QED BY <1>1, FS_CardinalityType
<1>3. S = compute_spans(infos, Online)
  BY DEF compute_spans
<1>4. ss \in [1..n -> S] /\ \A i, j \in 1..n : i # j => ss[i] # ss[j]
  BY <1>3 DEF spans_by_priority, SetToSeqs
<1>5. ASSUME NEW s \in S PROVE s \in Span /\ s = SpanOf(infos, s.peer, Online)
  <2>1. PICK p \in P : s = SpanOf(infos, p, Online)
    OBVIOUS
  <2>2. SpanOf(infos, p, Online) \in Span /\ SpanOf(infos, p, Online).peer = p
    BY <2>1, SpanCut
  <2> QED BY <2>1, <2>2
<1> HIDE DEF S
<1>6. ss \in [1..n -> Span] /\ DOMAIN ss = 1..n
  BY <1>4, <1>5
<1>7. ss \in Seq(Span)
  <2> HIDE DEF n
  <2> QED BY <1>2, <1>6
<1>8. ASSUME NEW i \in DOMAIN ss, NEW j \in DOMAIN ss, ss[i].peer = ss[j].peer PROVE i = j
  <2>1. ss[i] \in S /\ ss[j] \in S
    BY <1>4, <1>6
  <2>2. ss[i] = ss[j]
    <3>1. ss[i] = SpanOf(infos, ss[i].peer, Online) /\ ss[j] = SpanOf(infos, ss[j].peer, Online)
      BY <1>5, <2>1
    <3> QED BY <1>8, <3>1
  <2> QED BY <1>4, <1>6, <2>2
<1> QED BY <1>7, <1>8

\* The types of the arguments, and one span for each server.
LEMMA ArgsFacts ==
    ASSUME ArgsInv
    PROVE  /\ IsModuleInfos(module_infos)
           /\ spans \in Seq(Span)
           /\ \A i, j \in DOMAIN spans : spans[i].peer = spans[j].peer => i = j
           /\ net.half_rtt \in [Peers -> Nat] /\ net.step \in [Peers -> Nat]
           /\ net.hop \in [Peers \X Peers -> Nat]
           /\ Overhead \in Nat /\ NS \in Nat \ {0}
<1>1. IsModuleInfos(module_infos)
  BY SequenceManagerAssumption DEF ArgsInv
<1>2. /\ net.half_rtt \in [Peers -> Nat] /\ net.step \in [Peers -> Nat]
      /\ net.hop \in [Peers \X Peers -> Nat]
  BY SequenceManagerAssumption DEF ArgsInv
<1>3. spans \in spans_by_priority(module_infos)
  BY DEF ArgsInv
<1> QED BY <1>1, <1>2, <1>3, PriorityFacts, SequenceManagerAssumption

\* p's span contains block b.
Serves(p, b) == \E i \in DOMAIN spans : /\ spans[i].peer = p
                                       /\ spans[i].start <= b /\ b < spans[i].end

\* SpanAt finds a server's span.
LEMMA SpanAtFacts ==
    ASSUME ArgsInv, NEW i \in DOMAIN spans
    PROVE  SpanAt(spans[i].peer) = spans[i] /\ spans[i] \in Span
<1>1. \A j \in DOMAIN spans : spans[j].peer = spans[i].peer => j = i
  BY ArgsFacts
<1>2. (CHOOSE j \in DOMAIN spans : spans[j].peer = spans[i].peer) = i
  BY <1>1
<1>3. spans[i] \in Span
  BY ArgsFacts
<1> QED BY <1>2, <1>3 DEF SpanAt

\* The span of a server of a block contains that block.
LEMMA ServesFacts ==
    ASSUME ArgsInv, NEW p, NEW b, Serves(p, b)
    PROVE  /\ p \in Peers /\ SpanAt(p).start <= b /\ b < SpanAt(p).end
           /\ SpanAt(p).start \in Nat /\ SpanAt(p).end \in Nat /\ SpanAt(p).end <= NumBlocks
<1>1. PICK i \in DOMAIN spans : spans[i].peer = p /\ spans[i].start <= b /\ b < spans[i].end
  BY DEF Serves
<1>2. SpanAt(p) = spans[i] /\ spans[i] \in Span
  BY <1>1, SpanAtFacts
<1> QED BY <1>1, <1>2, SpanFields

\* spans_containing_block has the servers of the block.
LEMMA ContainingFacts ==
    ASSUME ArgsInv, NEW b
    PROVE  /\ \A p : p \in PeersOf(Containing(spans, b)) <=> Serves(p, b)
           /\ Containing(spans, b) = <<>> => \A p : ~Serves(p, b)
           /\ Containing(spans, b) # <<>> => Serves(Containing(spans, b)[1].peer, b)
           /\ Containing(spans, b) # <<>> =>
                Containing(spans, b)[1] = SpanAt(Containing(spans, b)[1].peer)
<1> DEFINE kept == {s \in Range(spans) : s.start <= b /\ b < s.end}
           r == Retain(spans, kept)
<1>1. r \in Seq(Span) /\ Range(r) = Range(spans) \cap kept
  BY ArgsFacts, RetainFacts
<1>2. r = Containing(spans, b)
  BY DEF Containing
<1> HIDE DEF r
<1>3. \A s : s \in Range(r) <=> \E i \in DOMAIN spans : spans[i] = s /\ s.start <= b /\ b < s.end
  BY <1>1 DEF Range
<1>4. \A p : p \in PeersOf(r) <=> \E s \in Range(r) : s.peer = p
  BY <1>1 DEF PeersOf, Range
<1>5. \A p : p \in PeersOf(r) <=> Serves(p, b)
  BY <1>3, <1>4 DEF Serves
<1>6. r = <<>> => PeersOf(r) = {}
  BY DEF PeersOf
<1>7. ASSUME r # <<>> PROVE Serves(r[1].peer, b) /\ r[1] = SpanAt(r[1].peer)
  <2>1. 1 \in DOMAIN r
    BY <1>1, <1>7
  <2>2. r[1] \in Range(r)
    BY <2>1 DEF Range
  <2>3. PICK i \in DOMAIN spans : spans[i] = r[1] /\ r[1].start <= b /\ b < r[1].end
    BY <1>3, <2>2
  <2> QED BY <2>3, SpanAtFacts DEF Serves
<1> QED BY <1>2, <1>5, <1>6, <1>7

\* The start, the end and the servers are different nodes.
LEMMA NodeFacts ==
    /\ StartNode # EndNode /\ StartNode.at = "start" /\ EndNode.at = "end"
    /\ \A p, b : /\ Node(p, b) # StartNode /\ Node(p, b) # EndNode /\ Node(p, b).at = "server"
                 /\ Node(p, b).peer = p /\ Node(p, b).block = b
BY DEF StartNode, EndNode, Node

\* The nodes are the start, the end, and the servers of each block.
LEMMA NodesAre ==
    ASSUME ArgsInv
    PROVE  \A n : n \in Nodes <=> \/ n = StartNode \/ n = EndNode
                                  \/ \E b \in Blocks : \E p : Serves(p, b) /\ n = Node(p, b)
BY ContainingFacts DEF Nodes

Level(n) == IF n = StartNode THEN 0 ELSE IF n = EndNode THEN NumBlocks + 1 ELSE n.block + 1

\* Only the start is on level 0, and only the end on the last one.
LEMMA LevelFacts ==
    ASSUME ArgsInv, NEW n \in Nodes
    PROVE  /\ Level(n) \in 0..(NumBlocks + 1)
           /\ Level(n) = 0 <=> n = StartNode
           /\ Level(n) = NumBlocks + 1 <=> n = EndNode
           /\ n \notin {StartNode, EndNode} =>
                \E p : n = Node(p, Level(n) - 1) /\ Serves(p, Level(n) - 1)
                         /\ Level(n) \in 1..NumBlocks
<1>1. CASE n = StartNode
  BY <1>1, NodeFacts, BlockFacts DEF Level
<1>2. CASE n = EndNode
  BY <1>2, NodeFacts, BlockFacts DEF Level
<1>3. CASE n \notin {StartNode, EndNode}
  <2>1. PICK b \in Blocks : \E p : Serves(p, b) /\ n = Node(p, b)
    BY <1>3, NodesAre
  <2>2. PICK p : Serves(p, b) /\ n = Node(p, b)
    BY <2>1
  <2>3. Level(n) = b + 1
    BY <1>3, <2>2, NodeFacts DEF Level
  <2>4. b \in Nat /\ b + 1 \in 1..NumBlocks /\ Level(n) - 1 = b
    BY <2>3, BlockFacts
  <2> QED BY <1>3, <2>2, <2>3, <2>4, BlockFacts
<1> QED BY <1>1, <1>2, <1>3

\* Where an edge leads: from the start to a server of the first block, from a
\* server to itself at the next block or, at the end of its span, to any other
\* one there, and from the last block to the end.
FromStart(edge) ==
    \E p : Serves(p, 0) /\ edge.to = Node(p, 0) /\ edge.weight = net.half_rtt[p] + Overhead
StepOn(edge, p, b) ==
    /\ b + 1 < SpanAt(p).end /\ b + 1 \in Blocks /\ Serves(p, b + 1)
    /\ edge.to = Node(p, b + 1) /\ edge.weight = net.step[p]
Leave(edge, p, b) ==
    b = NumBlocks - 1 /\ edge.to = EndNode /\ edge.weight = net.half_rtt[p]
HopOn(edge, p, b) ==
    /\ b + 1 = SpanAt(p).end /\ b + 1 \in Blocks
    /\ \E q : /\ Serves(q, b + 1) /\ edge.to = Node(q, b + 1)
              /\ edge.weight = net.hop[<<p, q>>] + Overhead

\* The four kinds of edges.
LEMMA EdgeCases ==
    ASSUME ArgsInv, NEW n \in Nodes, NEW edge \in Edges(n)
    PROVE  /\ edge.weight \in Nat /\ n # EndNode
           /\ n = StartNode => FromStart(edge)
           /\ n # StartNode =>
                \E b \in Blocks : \E p : /\ n = Node(p, b)
                                         /\ \/ StepOn(edge, p, b) \/ Leave(edge, p, b)
                                            \/ HopOn(edge, p, b)
<1> USE NodeFacts
<1>1. CASE n = StartNode
  <2>1. edge \in {[to |-> Node(p, 0), weight |-> net.half_rtt[p] + Overhead] :
                     p \in PeersOf(Containing(spans, 0))}
    BY <1>1 DEF Edges, Hops
  <2>2. PICK p \in PeersOf(Containing(spans, 0)) :
          edge = [to |-> Node(p, 0), weight |-> net.half_rtt[p] + Overhead]
    BY <2>1
  <2>3. Serves(p, 0) /\ p \in Peers
    BY ContainingFacts, ServesFacts
  <2>4. edge.weight \in Nat
    BY <2>2, <2>3, ArgsFacts
  <2> QED BY <1>1, <2>2, <2>3, <2>4 DEF FromStart
<1>2. CASE n = EndNode
  BY <1>2 DEF Edges, Hops
<1>3. CASE n \notin {StartNode, EndNode}
  <2>1. PICK b \in Blocks : \E p : Serves(p, b) /\ n = Node(p, b)
    BY <1>3, NodesAre
  <2>2. PICK p : Serves(p, b) /\ n = Node(p, b)
    BY <2>1
  <2>3. /\ p \in Peers /\ SpanAt(p).start <= b /\ b < SpanAt(p).end
        /\ SpanAt(p).start \in Nat /\ SpanAt(p).end \in Nat /\ SpanAt(p).end <= NumBlocks
    BY <2>2, ServesFacts
  <2>4. b \in Nat /\ \A c \in Nat : c < NumBlocks => c \in Blocks
    BY BlockFacts DEF Blocks
  <2>5. n.at = "server" /\ n.peer = p /\ n.block = b
    BY <2>2
  <2>6. \/ b + 1 < SpanAt(p).end /\ edge = [to |-> Node(p, b + 1), weight |-> net.step[p]]
        \/ b = NumBlocks - 1 /\ edge = [to |-> EndNode, weight |-> net.half_rtt[p]]
        \/ edge \in Hops(n)
    BY <2>5 DEF Edges
  <2>7. CASE b + 1 < SpanAt(p).end /\ edge = [to |-> Node(p, b + 1), weight |-> net.step[p]]
    <3>1. b + 1 \in Blocks
      BY <2>3, <2>4, <2>7, BlockFacts
    <3>2. Serves(p, b + 1)
      <4>1. PICK i \in DOMAIN spans : spans[i].peer = p /\ spans[i].start <= b
        BY <2>2 DEF Serves
      <4>2. SpanAt(p) = spans[i]
        BY <4>1, SpanAtFacts
      <4>3. spans[i].start <= b + 1 /\ b + 1 < spans[i].end
        BY <2>3, <2>4, <2>7, <4>2
      <4> QED BY <4>1, <4>3 DEF Serves
    <3>3. edge.weight \in Nat
      BY <2>3, <2>7, ArgsFacts
    <3>4. StepOn(edge, p, b)
      BY <2>7, <3>1, <3>2 DEF StepOn
    <3> QED BY <1>3, <2>2, <3>3, <3>4
  <2>8. CASE b = NumBlocks - 1 /\ edge = [to |-> EndNode, weight |-> net.half_rtt[p]]
    <3>1. edge.weight \in Nat
      BY <2>3, <2>8, ArgsFacts
    <3>2. Leave(edge, p, b)
      BY <2>8 DEF Leave
    <3> QED BY <1>3, <2>2, <3>1, <3>2
  <2>9. CASE edge \in Hops(n)
    <3>1. b + 1 = SpanAt(p).end /\ b + 1 < NumBlocks
      BY <2>5, <2>9 DEF Hops
    <3>2. PICK q \in PeersOf(Containing(spans, b + 1)) :
            edge = [to |-> Node(q, b + 1), weight |-> net.hop[<<p, q>>] + Overhead]
      BY <2>5, <2>9, <3>1 DEF Hops
    <3>3. Serves(q, b + 1)
      BY ContainingFacts
    <3>4. q \in Peers
      BY <3>3, ServesFacts
    <3>5. edge.weight \in Nat
      <4>1. net.hop[<<p, q>>] \in Nat
        BY <2>3, <3>4, ArgsFacts
      <4> QED BY <3>2, <4>1, ArgsFacts
    <3>6. b + 1 \in Blocks
      BY <2>4, <3>1
    <3>7. HopOn(edge, p, b)
      BY <3>1, <3>2, <3>3, <3>6 DEF HopOn
    <3> QED BY <1>3, <2>2, <3>5, <3>7
  <2> QED BY <2>6, <2>7, <2>8, <2>9
<1> QED BY <1>1, <1>2, <1>3

-----------------------------------------------------------------------------
(* What the search and the greedy choice maintain *)

\* n's edges have been followed, from its distance or a greater one.
Relaxed(n) ==
    \A edge \in Edges(n) : edge.to \in DOMAIN dist /\ dist[edge.to] <= dist[n] + edge.weight

\* An entry of n will still be taken from the heap and not be skipped.
Awaited(n) == \E e \in heap : e.node = n /\ e.cost_ns * NS <= dist[n]

\* n was reached from prev[n], at a cost that was less than a nanosecond off.
ReachedFrom(n) ==
    \E m \in DOMAIN dist : \E edge \in Edges(m) :
        /\ m = prev[n] /\ edge.to = n
        /\ dist[m] + edge.weight < dist[n] + NS
        /\ m = StartNode => edge.weight <= dist[n]

SearchInv ==
    /\ DOMAIN dist \subseteq Nodes /\ \A n \in DOMAIN dist : dist[n] \in Nat
    /\ StartNode \in DOMAIN dist /\ dist[StartNode] = 0
    /\ DOMAIN prev = DOMAIN dist \ {StartNode}
    /\ \A n \in DOMAIN prev : ReachedFrom(n)
    /\ \A e \in heap : /\ e.node \in DOMAIN dist /\ e.cost_ns \in Nat
                       /\ dist[e.node] < e.cost_ns * NS + NS
    /\ overshot \in BOOLEAN
    /\ ~overshot => \A n \in DOMAIN dist : Awaited(n) \/ Relaxed(n)

\* A chain from block `from` up to block `to`, as ChainIsWhole has it.
Whole(chain, from, to) ==
    /\ chain \in Seq(Hop) /\ chain # <<>>
    /\ chain[1].start = from /\ chain[Len(chain)].end = to
    /\ \A i \in 1..Len(chain) :
         /\ chain[i].start < chain[i].end
         /\ SpanAt(chain[i].peer).start <= chain[i].start
         /\ chain[i].end <= SpanAt(chain[i].peer).end
    /\ \A i \in 1..(Len(chain) - 1) :
         chain[i].end = chain[i + 1].start /\ chain[i].peer # chain[i + 1].peer

\* Nodes that no edge leaves, with the start and without the end.
Cut(nodes) ==
    /\ nodes \subseteq Nodes /\ StartNode \in nodes /\ EndNode \notin nodes
    /\ \A n \in nodes : \A edge \in Edges(n) : edge.to \in nodes

\* Each server but the last of a greedy chain is left at the end of its span.
GreedyInv ==
    pc = "greedy" =>
        IF result = None THEN current_index = start_index
        ELSE /\ Whole(result, start_index, current_index)
             /\ SpanAt(result[Len(result)].peer).end = current_index

DoneInv ==
    pc = "done" =>
        /\ result # None => Whole(result, start_index, NumBlocks)
        /\ EndNode \in DOMAIN dist => \A e \in heap : Top(e) => e.node = EndNode
        /\ result = None /\ ~overshot => \E nodes \in SUBSET Nodes : Cut(nodes)

PhaseInv ==
    /\ pc \in {"greedy", "ready", "searching", "done"}
    /\ current_index \in 0..NumBlocks /\ result \in Seq(Hop)
    /\ pc \in {"ready", "searching"} => start_index = 0 /\ result = None
    /\ pc \in {"greedy", "ready"} => EndNode \notin DOMAIN dist

ChainInv == ArgsInv /\ SearchInv /\ PhaseInv /\ GreedyInv /\ DoneInv

-----------------------------------------------------------------------------
(* Edges, and the shape of the graph *)

\* An edge leads one level on.
LEMMA EdgeFacts ==
    ASSUME ArgsInv, NEW n \in Nodes, NEW edge \in Edges(n)
    PROVE  /\ edge.to \in Nodes /\ edge.weight \in Nat /\ edge.to # StartNode /\ n # EndNode
           /\ Level(n) \in Nat /\ Level(edge.to) = Level(n) + 1
<1>1. edge.weight \in Nat /\ n # EndNode
  BY EdgeCases
<1>2. \A p, b : b \in Blocks /\ Serves(p, b) => /\ Node(p, b) \in Nodes
                                               /\ Level(Node(p, b)) = b + 1
  BY NodesAre, NodeFacts DEF Level
<1>3. EndNode \in Nodes /\ Level(EndNode) = NumBlocks + 1 /\ Level(StartNode) = 0
  BY NodesAre, NodeFacts DEF Level
<1>4. CASE n = StartNode
  <2>1. PICK p : Serves(p, 0) /\ edge.to = Node(p, 0)
    BY <1>4, EdgeCases DEF FromStart
  <2>2. 0 \in Blocks
    BY BlockFacts DEF Blocks
  <2> QED BY <1>1, <1>2, <1>3, <1>4, <2>1, <2>2, NodeFacts
<1>5. CASE n # StartNode
  <2>1. PICK b \in Blocks : \E p : /\ n = Node(p, b)
                                   /\ \/ StepOn(edge, p, b) \/ Leave(edge, p, b)
                                      \/ HopOn(edge, p, b)
    BY <1>5, EdgeCases
  <2>2. PICK p : /\ n = Node(p, b)
                 /\ StepOn(edge, p, b) \/ Leave(edge, p, b) \/ HopOn(edge, p, b)
    BY <2>1
  <2>3. b \in Nat /\ Level(n) = b + 1
    BY <2>1, <2>2, NodeFacts, BlockFacts DEF Level
  <2>4. CASE \E q : b + 1 \in Blocks /\ Serves(q, b + 1) /\ edge.to = Node(q, b + 1)
    <3>1. PICK q : b + 1 \in Blocks /\ Serves(q, b + 1) /\ edge.to = Node(q, b + 1)
      BY <2>4
    <3>2. edge.to \in Nodes /\ Level(edge.to) = (b + 1) + 1
      BY <1>2, <3>1
    <3> QED BY <1>1, <2>3, <3>1, <3>2, NodeFacts
  <2>5. CASE Leave(edge, p, b)
    BY <1>1, <1>3, <2>3, <2>5, NodeFacts, BlockFacts DEF Leave
  <2> QED BY <2>2, <2>4, <2>5 DEF StepOn, HopOn
<1> QED BY <1>4, <1>5

\* A node tells its server and its block.
LEMMA NodeEqual == \A p, b, q, c : Node(p, b) = Node(q, c) => p = q /\ b = c
BY DEF Node

\* There is one delay from a node to another.
LEMMA EdgeUnique ==
    ASSUME ArgsInv, NEW n \in Nodes, NEW edge \in Edges(n), NEW other \in Edges(n),
           edge.to = other.to
    PROVE  edge.weight = other.weight
<1> DEFINE FromServer(x, p, b) == StepOn(x, p, b) \/ Leave(x, p, b) \/ HopOn(x, p, b)
<1>1. CASE n = StartNode
  <2>1. FromStart(edge) /\ FromStart(other)
    BY <1>1, EdgeCases
  <2>2. PICK p : edge.to = Node(p, 0) /\ edge.weight = net.half_rtt[p] + Overhead
    BY <2>1 DEF FromStart
  <2>3. PICK q : other.to = Node(q, 0) /\ other.weight = net.half_rtt[q] + Overhead
    BY <2>1 DEF FromStart
  <2>4. p = q
    BY <2>2, <2>3, NodeEqual
  <2> QED BY <2>2, <2>3, <2>4
<1>2. CASE n # StartNode
  <2>1. ASSUME NEW x \in Edges(n)
        PROVE  \E b \in Blocks : \E p : n = Node(p, b) /\ FromServer(x, p, b)
    BY <1>2, EdgeCases
  <2>2. PICK b \in Blocks : \E p : n = Node(p, b) /\ FromServer(edge, p, b)
    BY <2>1
  <2>3. PICK p : n = Node(p, b) /\ FromServer(edge, p, b)
    BY <2>2
  <2>4. PICK b2 \in Blocks : \E p2 : n = Node(p2, b2) /\ FromServer(other, p2, b2)
    BY <2>1
  <2>5. PICK p2 : n = Node(p2, b2) /\ FromServer(other, p2, b2)
    BY <2>4
  <2>6. b2 = b /\ p2 = p
    <3>1. Node(p, b) = Node(p2, b2)
      BY <2>3, <2>5
    <3> QED BY <3>1, NodeEqual
  <2>7. FromServer(edge, p, b) /\ FromServer(other, p, b)
    BY <2>3, <2>5, <2>6
  <2>8. b + 1 \in Int /\ ~(b + 1 < SpanAt(p).end /\ b + 1 = SpanAt(p).end)
    BY BlockFacts
  <2>9. CASE StepOn(edge, p, b)
    <3>1. edge.to = Node(p, b + 1) /\ b + 1 < SpanAt(p).end
      BY <2>9 DEF StepOn
    <3>2. ~Leave(other, p, b) /\ ~HopOn(other, p, b)
      BY <2>8, <3>1, NodeFacts DEF Leave, HopOn
    <3> QED BY <2>7, <2>9, <3>2 DEF StepOn
  <2>10. CASE Leave(edge, p, b)
    <3>1. edge.to = EndNode
      BY <2>10 DEF Leave
    <3>2. \A q, c : other.to # Node(q, c)
      BY <3>1, NodeFacts
    <3>3. ~StepOn(other, p, b) /\ ~HopOn(other, p, b)
      BY <3>2 DEF StepOn, HopOn
    <3> QED BY <2>7, <2>10, <3>3 DEF Leave
  <2>11. CASE HopOn(edge, p, b)
    <3>1. PICK q : edge.to = Node(q, b + 1) /\ edge.weight = net.hop[<<p, q>>] + Overhead
      BY <2>11 DEF HopOn
    <3>2. ~StepOn(other, p, b) /\ ~Leave(other, p, b)
      BY <2>8, <2>11, <3>1, NodeFacts DEF StepOn, Leave, HopOn
    <3>3. PICK r : other.to = Node(r, b + 1) /\ other.weight = net.hop[<<p, r>>] + Overhead
      BY <2>7, <3>2 DEF HopOn
    <3>4. q = r
      BY <3>1, <3>3, NodeEqual
    <3> QED BY <3>1, <3>3, <3>4
  <2> QED BY <2>7, <2>9, <2>10, <2>11
<1> QED BY <1>1, <1>2

\* The graph depends on the arguments only.
LEMMA SameGraph ==
    ASSUME UNCHANGED args
    PROVE  /\ ArgsInv' <=> ArgsInv
           /\ Nodes' = Nodes
           /\ \A n : Edges(n)' = Edges(n)
           /\ \A p : SpanAt(p)' = SpanAt(p)
           /\ \A n : NodeNumber(n)' = NodeNumber(n)
<1>1. module_infos' = module_infos /\ net' = net /\ spans' = spans /\ start_index' = start_index
  BY DEF args
<1>2. ArgsInv' <=> ArgsInv
  BY <1>1 DEF ArgsInv
<1>3. Nodes' = Nodes
  BY <1>1 DEF Nodes
<1>4. \A p : SpanAt(p)' = SpanAt(p)
  BY <1>1 DEF SpanAt
<1>5. \A n : Edges(n)' = Edges(n)
  BY <1>1 DEF Edges, Hops, SpanAt
<1>6. \A n : NodeNumber(n)' = NodeNumber(n)
  BY <1>1 DEF NodeNumber
<1> QED BY <1>2, <1>3, <1>4, <1>5, <1>6

-----------------------------------------------------------------------------
(* The heap *)

\* A product grows with its factor.
LEMMA TimesMonotone ==
    ASSUME NEW a \in Nat, NEW b \in Nat, a <= b, NEW m \in Nat
    PROVE  a * m \in Nat /\ b * m \in Nat /\ a * m <= b * m
<1>1. PICK d \in Nat : b = a + d
  <2>1. b - a \in Nat /\ b = a + (b - a)
    OBVIOUS
  <2> QED BY <2>1
<1>2. (a + d) * m = a * m + d * m /\ a * m \in Nat /\ d * m \in Nat
  OBVIOUS
<1> QED BY <1>1, <1>2

\* The nodes' numbers have a bound.
LEMMA NumbersAreBounded ==
    ASSUME ArgsInv
    PROVE  \E bound \in Nat : \A n \in Nodes : NodeNumber(n) \in Nat /\ NodeNumber(n) <= bound
<1> DEFINE C == Cardinality(Peers)
           Index(n) == SelectInSeq(spans, LAMBDA s : s.peer = n.peer)
           most == NumBlocks * C
           bound == 2 + most + Len(spans)
<1>1. C \in Nat /\ Len(spans) \in Nat
  BY BlockFacts, FS_CardinalityType, ArgsFacts
<1>2. most \in Nat /\ \A b \in Blocks : b * C \in Nat /\ b * C <= most
  <2> HIDE DEF C
  <2>1. ASSUME NEW b \in Blocks PROVE b * C \in Nat /\ b * C <= NumBlocks * C
    <3>1. b \in Nat /\ NumBlocks \in Nat /\ b <= NumBlocks
      BY BlockFacts DEF Blocks
    <3> QED BY <1>1, <3>1, TimesMonotone
  <2>2. NumBlocks * C \in Nat
    BY <1>1, BlockFacts
  <2> QED BY <2>1, <2>2
<1>3. ASSUME NEW n PROVE Index(n) \in Nat /\ Index(n) <= Len(spans)
  <2> DEFINE I == {i \in 1..Len(spans) : spans[i].peer = n.peer}
  <2>1. Index(n) = IF I # {} THEN Min(I) ELSE 0
    BY DEF SelectInSeq
  <2>2. I \subseteq Nat /\ \A i \in I : i <= Len(spans)
    BY <1>1
  <2>3. I # {} => Min(I) \in I
    <3> HIDE DEF I
    <3> QED BY <2>2, MinOfNumbers
  <2> HIDE DEF I, Index
  <2>4. CASE I = {}
    <3>1. Index(n) = 0
      BY <2>1, <2>4
    <3> QED BY <1>1, <3>1
  <2>5. CASE I # {}
    <3>1. Index(n) \in I
      BY <2>1, <2>3, <2>5
    <3> QED BY <2>2, <3>1
  <2> QED BY <2>4, <2>5
<1>4. bound \in Nat /\ bound >= 2
  BY <1>1, <1>2
<1>5. ASSUME NEW n \in Nodes PROVE NodeNumber(n) \in Nat /\ NodeNumber(n) <= bound
  <2>1. CASE n = StartNode \/ n = EndNode
    <3>1. NodeNumber(n) \in {0, 1}
      BY <2>1, NodeFacts DEF NodeNumber
    <3> HIDE DEF bound
    <3> QED BY <1>4, <3>1
  <2>2. CASE n # StartNode /\ n # EndNode
    <3>1. PICK b \in Blocks : \E p : Serves(p, b) /\ n = Node(p, b)
      BY <2>2, NodesAre
    <3>2. n.at = "server" /\ n.block = b
      BY <3>1, NodeFacts
    <3>3. NodeNumber(n) = 2 + b * C + Index(n)
      BY <3>2 DEF NodeNumber
    <3>4. b * C \in Nat /\ b * C <= most
      BY <1>2
    <3> HIDE DEF C, Index, most
    <3> QED BY <1>1, <1>2, <1>3, <3>3, <3>4
  <2> QED BY <2>1, <2>2
<1> HIDE DEF bound
<1> QED BY <1>4, <1>5

\* A bounded set of numbers that is not empty has a greatest one.
LEMMA GreatestNumber ==
    ASSUME NEW T, T # {}, T \subseteq Nat, NEW bound \in Nat, \A n \in T : n <= bound
    PROVE  \E n \in T : \A m \in T : m <= n
<1> DEFINE U == {bound - n : n \in T}
<1>1. U \subseteq Nat /\ U # {}
  <2>1. \A n \in T : bound - n \in Nat
    OBVIOUS
  <2> QED BY <2>1
<1>2. PICK u \in U : \A v \in U : u <= v
  <2> HIDE DEF U
  <2> QED BY <1>1, LeastNumber
<1>3. PICK n \in T : u = bound - n
  OBVIOUS
<1>4. ASSUME NEW m \in T PROVE m <= n
  <2>1. bound - n <= bound - m
    BY <1>2, <1>3
  <2> QED BY <2>1
<1> QED BY <1>4

\* A heap that is not empty has an entry on top, and none is cheaper.
LEMMA TopExists ==
    ASSUME ArgsInv, heap # {}, \A e \in heap : e.cost_ns \in Nat /\ e.node \in Nodes
    PROVE  \E e \in heap : Top(e) /\ \A f \in heap : e.cost_ns <= f.cost_ns
<1> DEFINE costs == {e.cost_ns : e \in heap}
<1>1. PICK cost \in costs : \A c \in costs : cost <= c
  <2>1. costs \subseteq Nat /\ costs # {}
    OBVIOUS
  <2> HIDE DEF costs
  <2> QED BY <2>1, LeastNumber
<1>2. cost \in Nat /\ \A f \in heap : cost <= f.cost_ns
  BY <1>1
<1> DEFINE cheapest == {e \in heap : e.cost_ns = cost}
           numbers == {NodeNumber(e.node) : e \in cheapest}
<1>3. PICK bound \in Nat : \A n \in Nodes : NodeNumber(n) \in Nat /\ NodeNumber(n) <= bound
  BY NumbersAreBounded
<1>4. PICK number \in numbers : \A n \in numbers : n <= number
  <2>1. numbers # {} /\ numbers \subseteq Nat /\ \A n \in numbers : n <= bound
    BY <1>1, <1>3
  <2> HIDE DEF numbers
  <2> QED BY <2>1, GreatestNumber
<1>5. PICK e \in cheapest : number = NodeNumber(e.node)
  OBVIOUS
<1>6. e \in heap /\ e.cost_ns = cost
  OBVIOUS
<1>7. Top(e)
  <2> SUFFICES ASSUME NEW f \in heap
               PROVE  \/ e.cost_ns < f.cost_ns
                      \/ e.cost_ns = f.cost_ns /\ NodeNumber(e.node) >= NodeNumber(f.node)
    BY DEF Top
  <2>1. cost < f.cost_ns \/ cost = f.cost_ns
    BY <1>2
  <2>2. CASE cost = f.cost_ns
    <3>1. NodeNumber(f.node) <= NodeNumber(e.node)
      BY <1>4, <1>5, <2>2
    <3>2. NodeNumber(f.node) \in Nat /\ NodeNumber(e.node) \in Nat
      BY <1>3, <1>6
    <3> QED BY <1>6, <2>2, <3>1, <3>2
  <2> QED BY <1>6, <2>1, <2>2
<1> QED BY <1>2, <1>6, <1>7

\* A cost on the heap is less than a nanosecond off its distance.
LEMMA NanosFacts ==
    ASSUME NEW d \in Nat, NEW nanos \in Nanos(d), NS \in Nat \ {0}
    PROVE  /\ nanos \in Nat /\ d < nanos * NS + NS
           /\ ~(nanos * NS > d) => nanos * NS <= d
<1>1. CASE nanos = d \div NS
  <2>1. ASSUME NEW n \in Nat \ {0}
        PROVE  d \div n \in Nat /\ d < (d \div n) * n + n /\ (d \div n) * n \in Nat
    OBVIOUS
  <2> QED BY <1>1, <2>1
<1>2. CASE (d + 1) % NS = 0 /\ nanos = (d + 1) \div NS
  <2>1. ASSUME NEW n \in Nat \ {0}, NEW k \in Nat, k % n = 0
        PROVE  k \div n \in Nat /\ (k \div n) * n = k
    BY <2>1
  <2>2. nanos \in Nat /\ nanos * NS = d + 1
    BY <1>2, <2>1
  <2> QED BY <2>2
<1> QED BY <1>1, <1>2 DEF Nanos

-----------------------------------------------------------------------------
(* The search, step by step *)

\* The search starts as it should be.
LEMMA InitSearch == Init => ArgsInv /\ SearchInv
<1> SUFFICES ASSUME Init PROVE ArgsInv /\ SearchInv
  OBVIOUS
<1>1. ArgsInv
  BY DEF Init, ArgsInv
<1>2. DOMAIN dist = {StartNode} /\ dist[StartNode] = 0 /\ DOMAIN prev = {}
  BY DEF Init
<1>3. StartNode \in Nodes
  BY DEF Nodes
<1>4. heap = {[cost_ns |-> 0, node |-> StartNode]} /\ overshot = FALSE
  BY DEF Init
<1>5. \A e \in heap : e.node = StartNode /\ e.cost_ns = 0
  BY <1>4
<1>6. 0 * NS = 0 /\ NS \in Nat \ {0}
  BY SequenceManagerAssumption
<1>7. Awaited(StartNode)
  <2>1. [cost_ns |-> 0, node |-> StartNode] \in heap
    BY <1>4
  <2> QED BY <1>2, <1>6, <2>1 DEF Awaited
<1>8. \A n \in DOMAIN dist : dist[n] \in Nat
  BY <1>2
<1>9. \A e \in heap : /\ e.node \in DOMAIN dist /\ e.cost_ns \in Nat
                     /\ dist[e.node] < e.cost_ns * NS + NS
  <2>1. ASSUME NEW e \in heap PROVE dist[e.node] < e.cost_ns * NS + NS
    <3>1. e.cost_ns * NS = 0
      BY <1>5, <1>6
    <3> QED BY <1>2, <1>5, <1>6, <3>1
  <2> QED BY <1>2, <1>5, <2>1
<1>10. DOMAIN dist \subseteq Nodes /\ DOMAIN prev = DOMAIN dist \ {StartNode}
  BY <1>2, <1>3
<1>11. \A n \in DOMAIN prev : ReachedFrom(n)
  BY <1>2
<1>12. \A n \in DOMAIN dist : Awaited(n)
  BY <1>2, <1>7
<1> QED BY <1>1, <1>2, <1>4, <1>8, <1>9, <1>10, <1>11, <1>12 DEF SearchInv

\* Skipping an outdated entry leaves a better one of its node.
LEMMA SkipSearch == ASSUME ArgsInv, SearchInv, Skip PROVE SearchInv'
<1>1. PICK e \in heap : /\ Stale(e) /\ heap' = heap \ {e}
                        /\ UNCHANGED <<args, dist, prev, overshot>>
  BY DEF Skip
<1>2. UNCHANGED args /\ dist' = dist /\ prev' = prev /\ overshot' = overshot
  BY <1>1
<1>3. Nodes' = Nodes /\ \A n : Edges(n)' = Edges(n)
  BY <1>2, SameGraph
<1>4. \A n : ReachedFrom(n) => ReachedFrom(n)'
  BY <1>2, <1>3 DEF ReachedFrom
<1>5. \A n : Relaxed(n) => Relaxed(n)'
  BY <1>2, <1>3 DEF Relaxed
<1>6. ASSUME NEW n \in DOMAIN dist, Awaited(n) PROVE Awaited(n)'
  <2>1. PICK f \in heap : f.node = n /\ f.cost_ns * NS <= dist[n]
    BY <1>6 DEF Awaited
  <2>2. e.cost_ns * NS > dist[e.node] /\ e.node \in DOMAIN dist /\ e.cost_ns \in Nat
    BY <1>1 DEF Stale, SearchInv
  <2>3. f # e
    <3>1. e.cost_ns * NS \in Nat /\ dist[e.node] \in Nat
      BY <2>2, ArgsFacts DEF SearchInv
    <3> QED BY <2>1, <2>2, <3>1
  <2> QED BY <1>1, <1>2, <2>1, <2>3 DEF Awaited
<1> QED BY <1>1, <1>2, <1>3, <1>4, <1>5, <1>6 DEF SearchInv

\* What following the edges of an entry's node does to the search.
Followed(e, found) ==
    /\ e \in heap /\ e.node \in DOMAIN dist /\ e.node \in Nodes
    /\ e.cost_ns * NS \in Nat /\ e.cost_ns * NS <= dist[e.node]
    /\ dist[e.node] < e.cost_ns * NS + NS
    /\ found = {edge.to : edge \in Better(e)}
    /\ DOMAIN dist' = DOMAIN dist \cup found
    /\ DOMAIN prev' = DOMAIN prev \cup found
    /\ \A n \in DOMAIN dist \ found : dist'[n] = dist[n]
    /\ \A n \in DOMAIN prev \ found : prev'[n] = prev[n]
    /\ \A n \in found :
         /\ prev'[n] = e.node /\ dist'[n] \in Nat
         /\ \E edge \in Edges(e.node) : edge.to = n /\ dist'[n] = e.cost_ns * NS + edge.weight
         /\ n \in DOMAIN dist => dist'[n] < dist[n]
         /\ \E nanos \in Nanos(dist'[n]) :
              /\ [cost_ns |-> nanos, node |-> n] \in heap'
              /\ ~overshot' => ~(nanos * NS > dist'[n])
    /\ \A f \in heap' : \/ f \in heap
                        \/ f.node \in found /\ f.cost_ns \in Nanos(dist'[f.node])
    /\ \A f \in heap : f # e => f \in heap'
    /\ overshot' \in BOOLEAN /\ (overshot => overshot')

\* A relaxation follows the edges that improve a neighbour.
LEMMA RelaxFacts ==
    ASSUME ArgsInv, SearchInv, Relax
    PROVE  \E e, found : Followed(e, found) /\ UNCHANGED <<args, current_index, pc, result>>
<1> DEFINE Found(e) == {edge.to : edge \in Better(e)}
           Cost(e, n) == e.cost_ns * NS + (CHOOSE edge \in Better(e) : edge.to = n).weight
           All(e) == UNION {Nanos(Cost(e, n)) : n \in Found(e)}
<1>1. PICK e \in heap :
        /\ ~Stale(e)
        /\ dist' = [n \in DOMAIN dist \cup Found(e) |->
                      IF n \in Found(e) THEN Cost(e, n) ELSE dist[n]]
        /\ prev' = [n \in DOMAIN prev \cup Found(e) |->
                      IF n \in Found(e) THEN e.node ELSE prev[n]]
        /\ \E nanos \in [Found(e) -> All(e)] :
             /\ \A n \in Found(e) : nanos[n] \in Nanos(Cost(e, n))
             /\ heap' = (heap \ {e}) \cup {[cost_ns |-> nanos[n], node |-> n] : n \in Found(e)}
             /\ overshot' = (overshot \/ \E n \in Found(e) : nanos[n] * NS > Cost(e, n))
        /\ UNCHANGED <<args, current_index, pc, result>>
  BY DEF Relax
<1> DEFINE found == Found(e)
<1>2. PICK nanos \in [found -> All(e)] :
             /\ \A n \in found : nanos[n] \in Nanos(Cost(e, n))
             /\ heap' = (heap \ {e}) \cup {[cost_ns |-> nanos[n], node |-> n] : n \in found}
             /\ overshot' = (overshot \/ \E n \in found : nanos[n] * NS > Cost(e, n))
  BY <1>1
<1>3. /\ e.node \in DOMAIN dist /\ e.node \in Nodes /\ e.cost_ns \in Nat
      /\ dist[e.node] < e.cost_ns * NS + NS /\ dist[e.node] \in Nat
  BY DEF SearchInv
<1>4. e.cost_ns * NS \in Nat /\ e.cost_ns * NS <= dist[e.node]
  <2>1. e.cost_ns * NS \in Nat
    BY <1>3, ArgsFacts
  <2> QED BY <1>1, <1>3, <2>1 DEF Stale
<1>5. ASSUME NEW n \in found
      PROVE  \E edge \in Edges(e.node) :
                /\ edge.to = n /\ Cost(e, n) = e.cost_ns * NS + edge.weight
                /\ Cost(e, n) \in Nat
                /\ n \in DOMAIN dist => Cost(e, n) < dist[n]
  <2>1. PICK edge \in Better(e) : edge.to = n /\ edge = CHOOSE x \in Better(e) : x.to = n
    OBVIOUS
  <2>2. edge \in Edges(e.node) /\ Cost(e, n) = e.cost_ns * NS + edge.weight
    BY <2>1 DEF Better
  <2>3. edge.weight \in Nat
    BY <1>3, <2>2, EdgeFacts
  <2>4. n \in DOMAIN dist => e.cost_ns * NS + edge.weight < dist[n]
    BY <2>1 DEF Better
  <2> HIDE DEF Cost
  <2>5. Cost(e, n) \in Nat
    BY <1>4, <2>2, <2>3
  <2>6. n \in DOMAIN dist => Cost(e, n) < dist[n]
    BY <2>2, <2>4
  <2> QED BY <2>1, <2>2, <2>5, <2>6
<1>6. \A n \in found : dist'[n] = Cost(e, n) /\ prev'[n] = e.node
  BY <1>1
<1>7. /\ DOMAIN dist' = DOMAIN dist \cup found
      /\ DOMAIN prev' = DOMAIN prev \cup found
      /\ \A n \in DOMAIN dist \ found : dist'[n] = dist[n]
      /\ \A n \in DOMAIN prev \ found : prev'[n] = prev[n]
  BY <1>1
<1>8. found = {edge.to : edge \in Better(e)}
  OBVIOUS
<1> HIDE DEF found, Cost, All
<1>9. ASSUME NEW n \in found
      PROVE  \E k \in Nanos(dist'[n]) :
              /\ [cost_ns |-> k, node |-> n] \in heap'
              /\ ~overshot' => ~(k * NS > dist'[n])
  <2>1. nanos[n] \in Nanos(dist'[n])
    BY <1>2, <1>6
  <2>2. [cost_ns |-> nanos[n], node |-> n] \in heap'
    BY <1>2
  <2>3. ~overshot' => ~(nanos[n] * NS > dist'[n])
    BY <1>2, <1>6
  <2> QED BY <2>1, <2>2, <2>3
<1>10. ASSUME NEW f \in heap', f \notin heap
       PROVE  f.node \in found /\ f.cost_ns \in Nanos(dist'[f.node])
  <2>1. PICK n \in found : f = [cost_ns |-> nanos[n], node |-> n]
    BY <1>2, <1>10
  <2>2. f.node = n /\ f.cost_ns = nanos[n]
    BY <2>1
  <2> QED BY <1>2, <1>6, <2>2
<1>11. \A f \in heap : f # e => f \in heap'
  BY <1>2
<1>12. overshot' \in BOOLEAN /\ (overshot => overshot')
  BY <1>2 DEF SearchInv
<1>13. \A n \in found :
         /\ prev'[n] = e.node /\ dist'[n] \in Nat
         /\ \E edge \in Edges(e.node) : edge.to = n /\ dist'[n] = e.cost_ns * NS + edge.weight
         /\ n \in DOMAIN dist => dist'[n] < dist[n]
  BY <1>5, <1>6
<1>14. Followed(e, found)
  BY <1>3, <1>4, <1>7, <1>8, <1>9, <1>10, <1>11, <1>12, <1>13 DEF Followed
<1> QED BY <1>1, <1>14

\* Following them keeps the search as it should be.
LEMMA RelaxSearch ==
    ASSUME ArgsInv, SearchInv, UNCHANGED args, NEW e, NEW found, Followed(e, found)
    PROVE  SearchInv'
<1>1. /\ DOMAIN dist \subseteq Nodes /\ \A n \in DOMAIN dist : dist[n] \in Nat
      /\ StartNode \in DOMAIN dist /\ dist[StartNode] = 0
      /\ DOMAIN prev = DOMAIN dist \ {StartNode}
      /\ \A n \in DOMAIN prev : ReachedFrom(n)
      /\ \A f \in heap : /\ f.node \in DOMAIN dist /\ f.cost_ns \in Nat
                         /\ dist[f.node] < f.cost_ns * NS + NS
      /\ ~overshot => \A n \in DOMAIN dist : Awaited(n) \/ Relaxed(n)
  BY DEF SearchInv
<1> DEFINE base == e.cost_ns * NS
           here == e.node
<1>2. /\ e \in heap /\ here \in DOMAIN dist /\ here \in Nodes
      /\ base \in Nat /\ base <= dist[here] /\ dist[here] < base + NS
      /\ DOMAIN dist' = DOMAIN dist \cup found
      /\ DOMAIN prev' = DOMAIN prev \cup found
      /\ \A n \in DOMAIN dist \ found : dist'[n] = dist[n]
      /\ \A n \in DOMAIN prev \ found : prev'[n] = prev[n]
      /\ overshot' \in BOOLEAN /\ (overshot => overshot')
  BY DEF Followed
<1>3. \A n \in found :
         /\ prev'[n] = here /\ dist'[n] \in Nat
         /\ \E edge \in Edges(here) : edge.to = n /\ dist'[n] = base + edge.weight
         /\ n \in DOMAIN dist => dist'[n] < dist[n]
  BY DEF Followed
<1>4. \A n \in found : \E nanos \in Nanos(dist'[n]) :
              /\ [cost_ns |-> nanos, node |-> n] \in heap'
              /\ ~overshot' => ~(nanos * NS > dist'[n])
  BY DEF Followed
<1>5. /\ \A f \in heap' : \/ f \in heap
                          \/ f.node \in found /\ f.cost_ns \in Nanos(dist'[f.node])
      /\ \A f \in heap : f # e => f \in heap'
  BY DEF Followed
<1>6. \A edge \in Edges(here) : edge.to \notin found =>
        edge.to \in DOMAIN dist /\ ~(base + edge.weight < dist[edge.to])
  BY DEF Followed, Better
<1>7. Nodes' = Nodes /\ \A n : Edges(n)' = Edges(n)
  BY SameGraph
<1>8. NS \in Nat \ {0}
  BY ArgsFacts
<1> HIDE DEF base, here
<1>9. ASSUME NEW n \in found
      PROVE  n \in Nodes /\ n # StartNode /\ n # here
  <2>1. PICK edge \in Edges(here) : edge.to = n
    BY <1>3
  <2>2. /\ edge.to \in Nodes /\ edge.to # StartNode
        /\ Level(here) \in Nat /\ Level(edge.to) = Level(here) + 1
    BY <1>2, EdgeFacts
  <2> QED BY <2>1, <2>2
<1>10. dist'[here] = dist[here] /\ here \in DOMAIN dist'
  BY <1>2, <1>9
<1>11. ASSUME NEW n \in DOMAIN dist
       PROVE  n \in DOMAIN dist' /\ dist'[n] \in Nat /\ dist'[n] <= dist[n] /\ dist[n] \in Nat
  <2>1. CASE n \in found
    BY <1>1, <1>2, <1>3, <2>1
  <2>2. CASE n \notin found
    BY <1>1, <1>2, <2>2
  <2> QED BY <2>1, <2>2
<1>12. ASSUME NEW n, NEW edge \in Edges(n), n \in Nodes PROVE edge.weight \in Nat
  BY <1>12, EdgeFacts
<1>13. ASSUME NEW n \in DOMAIN prev' PROVE ReachedFrom(n)'
  <2>1. CASE n \in found
    <3>1. PICK edge \in Edges(here) : edge.to = n /\ dist'[n] = base + edge.weight
      BY <1>3, <2>1
    <3>2. edge.weight \in Nat
      BY <1>2, <1>12
    <3>3. dist'[here] + edge.weight < dist'[n] + NS /\ edge.weight <= dist'[n]
      BY <1>1, <1>2, <1>8, <1>10, <3>1, <3>2
    <3>4. prev'[n] = here /\ edge \in Edges(here)'
      BY <1>3, <1>7, <2>1
    <3> QED BY <1>10, <3>1, <3>3, <3>4 DEF ReachedFrom
  <2>2. CASE n \notin found
    <3>1. n \in DOMAIN prev /\ prev'[n] = prev[n] /\ dist'[n] = dist[n] /\ n \in DOMAIN dist
      BY <1>1, <1>2, <2>2
    <3>2. ReachedFrom(n)
      BY <1>1, <3>1
    <3>3. PICK m \in DOMAIN dist : \E edge \in Edges(m) :
            /\ m = prev[n] /\ edge.to = n /\ dist[m] + edge.weight < dist[n] + NS
            /\ m = StartNode => edge.weight <= dist[n]
      BY <3>2 DEF ReachedFrom
    <3>4. PICK edge \in Edges(m) :
            /\ m = prev[n] /\ edge.to = n /\ dist[m] + edge.weight < dist[n] + NS
            /\ m = StartNode => edge.weight <= dist[n]
      BY <3>3
    <3>5. edge.weight \in Nat
      BY <1>1, <1>12
    <3>6. /\ m \in DOMAIN dist' /\ dist'[m] \in Nat /\ dist[m] \in Nat /\ dist'[m] <= dist[m]
          /\ dist[n] \in Nat
      BY <1>11, <3>1
    <3>7. dist'[m] + edge.weight < dist'[n] + NS
      BY <1>8, <3>1, <3>4, <3>5, <3>6
    <3>8. edge \in Edges(m)'
      BY <1>7
    <3> QED BY <3>1, <3>4, <3>6, <3>7, <3>8 DEF ReachedFrom
  <2> QED BY <2>1, <2>2
<1>14. ASSUME NEW f \in heap'
       PROVE  f.node \in DOMAIN dist' /\ f.cost_ns \in Nat /\ dist'[f.node] < f.cost_ns * NS + NS
  <2>1. CASE f \in heap
    <3>1. /\ f.node \in DOMAIN dist /\ f.cost_ns \in Nat
          /\ dist[f.node] < f.cost_ns * NS + NS
      BY <1>1, <2>1
    <3>2. f.cost_ns * NS \in Nat
      BY <1>8, <3>1
    <3> QED BY <1>8, <1>11, <3>1, <3>2
  <2>2. CASE f.node \in found /\ f.cost_ns \in Nanos(dist'[f.node])
    <3>1. dist'[f.node] \in Nat
      BY <1>3, <2>2
    <3>2. f.cost_ns \in Nat /\ dist'[f.node] < f.cost_ns * NS + NS
      BY <1>8, <2>2, <3>1, NanosFacts
    <3> QED BY <1>2, <2>2, <3>2
  <2> QED BY <1>5, <2>1, <2>2
<1>15. ASSUME ~overshot', NEW n \in DOMAIN dist' PROVE Awaited(n)' \/ Relaxed(n)'
  <2>1. CASE n \in found
    <3>1. PICK nanos \in Nanos(dist'[n]) :
              /\ [cost_ns |-> nanos, node |-> n] \in heap'
              /\ ~(nanos * NS > dist'[n])
      BY <1>4, <1>15, <2>1
    <3>2. nanos * NS <= dist'[n]
      BY <1>3, <1>8, <2>1, <3>1, NanosFacts
    <3> QED BY <3>1, <3>2 DEF Awaited
  <2>2. CASE n = here
    <3> SUFFICES ASSUME NEW edge \in Edges(here)
                 PROVE  edge.to \in DOMAIN dist' /\ dist'[edge.to] <= dist'[here] + edge.weight
      BY <1>7, <2>2 DEF Relaxed
    <3>1. edge.weight \in Nat
      BY <1>2, <1>12
    <3>2. CASE edge.to \in found
      <4>1. PICK other \in Edges(here) : other.to = edge.to /\ dist'[edge.to] = base + other.weight
        BY <1>3, <3>2
      <4>2. other.weight = edge.weight
        BY <1>2, <4>1, EdgeUnique
      <4> QED BY <1>1, <1>2, <1>10, <3>1, <3>2, <4>1, <4>2
    <3>3. CASE edge.to \notin found
      <4>1. edge.to \in DOMAIN dist /\ ~(base + edge.weight < dist[edge.to])
        BY <1>6, <3>3
      <4>2. dist'[edge.to] = dist[edge.to] /\ dist[edge.to] \in Nat /\ dist[here] \in Nat
        BY <1>1, <1>2, <3>3, <4>1
      <4>3. dist[edge.to] <= dist[here] + edge.weight
        BY <1>2, <3>1, <4>1, <4>2
      <4> QED BY <1>2, <1>10, <4>1, <4>2, <4>3
    <3> QED BY <3>2, <3>3
  <2>3. CASE n \notin found /\ n # here
    <3>1. n \in DOMAIN dist /\ dist'[n] = dist[n] /\ ~overshot /\ n \in Nodes
      BY <1>1, <1>2, <1>15, <2>3
    <3>2. CASE Awaited(n)
      <4>1. PICK f \in heap : f.node = n /\ f.cost_ns * NS <= dist[n]
        BY <3>2 DEF Awaited
      <4>2. f \in heap'
        BY <1>5, <2>3, <4>1 DEF here
      <4> QED BY <3>1, <4>1, <4>2 DEF Awaited
    <3>3. CASE Relaxed(n)
      <4> SUFFICES ASSUME NEW edge \in Edges(n)
                   PROVE  edge.to \in DOMAIN dist' /\ dist'[edge.to] <= dist'[n] + edge.weight
        BY <1>7 DEF Relaxed
      <4>1. edge.to \in DOMAIN dist /\ dist[edge.to] <= dist[n] + edge.weight
        BY <3>3 DEF Relaxed
      <4>2. edge.weight \in Nat
        BY <1>12, <3>1
      <4> QED BY <1>11, <3>1, <4>1, <4>2
    <3> QED BY <1>1, <3>1, <3>2, <3>3
  <2> QED BY <2>1, <2>2, <2>3
<1>16. DOMAIN dist' \subseteq Nodes' /\ \A n \in DOMAIN dist' : dist'[n] \in Nat
  BY <1>1, <1>2, <1>3, <1>7, <1>9, <1>11
<1>17. StartNode \in DOMAIN dist' /\ dist'[StartNode] = 0
  BY <1>1, <1>2, <1>9
<1>18. DOMAIN prev' = DOMAIN dist' \ {StartNode}
  BY <1>1, <1>2, <1>9
<1> QED BY <1>2, <1>13, <1>14, <1>15, <1>16, <1>17, <1>18 DEF SearchInv

\* Every step keeps the search as it should be.
LEMMA NextSearch ==
    ASSUME ArgsInv, SearchInv, [Next]_vars PROVE ArgsInv' /\ SearchInv'
<1>1. UNCHANGED args
  BY DEF Next, GreedyStep, Begin, Arrive, Skip, Relax, vars
<1>2. ArgsInv'
  BY <1>1, SameGraph
<1>3. CASE UNCHANGED search
  <2>1. dist' = dist /\ prev' = prev /\ heap' = heap /\ overshot' = overshot
    BY <1>3 DEF search
  <2>2. Nodes' = Nodes /\ \A n : Edges(n)' = Edges(n)
    BY <1>1, SameGraph
  <2>3. \A n : /\ ReachedFrom(n)' <=> ReachedFrom(n)
               /\ Awaited(n)' <=> Awaited(n)
               /\ Relaxed(n)' <=> Relaxed(n)
    BY <2>1, <2>2 DEF ReachedFrom, Awaited, Relaxed
  <2>4. SearchInv'
    BY <2>1, <2>2, <2>3 DEF SearchInv
  <2> QED BY <1>2, <2>4
<1>4. CASE Skip
  BY <1>2, <1>4, SkipSearch
<1>5. CASE Relax
  BY <1>1, <1>2, <1>5, RelaxFacts, RelaxSearch
<1>6. \/ UNCHANGED search \/ Skip \/ Relax
  BY DEF Next, GreedyStep, Begin, Arrive, vars
<1> QED BY <1>3, <1>4, <1>5, <1>6

\* f goes from its base by a step at a time.
Iterates(f, n, base, step) == f[0] = base /\ \A k \in 1..n : f[k] = step[f[k - 1]]

\* There is such a function.
LEMMA IterationExists ==
    ASSUME NEW n \in Nat, NEW V, NEW base \in V, NEW step \in [V -> V]
    PROVE  \E f \in [0..n -> V] : Iterates(f, n, base, step)
<1> DEFINE steps == [i \in 1..n |-> step]
<1>1. steps \in [1..n -> [V -> V]]
  OBVIOUS
<1>2. PICK g \in [SUBSET (1..n) -> V] : FoldsIndices(g, n, base, steps)
  <2> HIDE DEF steps
  <2> QED BY <1>1, SequenceFoldExists
<1> DEFINE f == [k \in 0..n |-> g[1..k]]
<1>3. f \in [0..n -> V]
  <2>1. \A k \in 0..n : 1..k \in SUBSET (1..n)
    OBVIOUS
  <2> QED BY <2>1
<1>4. g[{}] = base /\ \A i \in 1..n : g[1..i] = steps[i][g[1..(i - 1)]]
  <2> HIDE DEF steps
  <2>1. g[{}] = base
    BY <1>2 DEF FoldsIndices
  <2>2. ASSUME NEW i \in 1..n PROVE g[1..i] = steps[i][g[1..(i - 1)]]
    <3>1. 1..i \in SUBSET (1..n) /\ 1..i # {} /\ Max(1..i) = i /\ (1..i) \ {i} = 1..(i - 1)
      BY PrefixIndices
    <3> QED BY <1>2, <3>1 DEF FoldsIndices
  <2> QED BY <2>1, <2>2
<1>5. f[0] = base
  BY <1>4, 1..0 = {}
<1>6. ASSUME NEW k \in 1..n PROVE f[k] = step[f[k - 1]]
  <2>1. k \in 0..n /\ k - 1 \in 0..n
    OBVIOUS
  <2>2. f[k] = g[1..k] /\ f[k - 1] = g[1..(k - 1)]
    BY <2>1
  <2> QED BY <1>4, <2>2
<1> HIDE DEF f
<1> QED BY <1>3, <1>5, <1>6 DEF Iterates

\* What an element before a sequence makes of it.
LEMMA PrependFacts ==
    ASSUME NEW S, NEW x \in S, NEW s \in Seq(S)
    PROVE  /\ <<x>> \o s \in Seq(S) /\ Len(<<x>> \o s) = Len(s) + 1
           /\ (<<x>> \o s)[1] = x /\ \A i \in 1..Len(s) : (<<x>> \o s)[i + 1] = s[i]
OBVIOUS

-----------------------------------------------------------------------------
(* The path back from the end *)

\* The nodes of the path that ends in the node reached after k steps back.
PathTo(s, k) ==
    /\ s \in Seq(Nodes) /\ Len(s) = k + 1 /\ s[k + 1] = EndNode
    /\ \A i \in 1..(k + 1) : s[i] \in DOMAIN dist /\ Level(s[i]) = NumBlocks - k + i
    /\ \A i \in 1..k : s[i + 1] \in DOMAIN prev /\ s[i] = prev[s[i + 1]]

\* One step back.
LEMMA StepBack ==
    ASSUME ArgsInv, SearchInv, NEW n \in DOMAIN prev
    PROVE  /\ prev[n] \in DOMAIN dist /\ prev[n] \in Nodes /\ n \in Nodes /\ n \in DOMAIN dist
           /\ Level(n) = Level(prev[n]) + 1 /\ Level(prev[n]) \in Nat
<1>1. ReachedFrom(n) /\ DOMAIN dist \subseteq Nodes /\ n \in DOMAIN dist
  BY DEF SearchInv
<1>2. PICK m \in DOMAIN dist : \E edge \in Edges(m) : m = prev[n] /\ edge.to = n
  BY <1>1 DEF ReachedFrom
<1>3. PICK edge \in Edges(m) : m = prev[n] /\ edge.to = n
  BY <1>2
<1>4. m \in Nodes /\ Level(m) \in Nat /\ Level(edge.to) = Level(m) + 1
  BY <1>1, EdgeFacts
<1> QED BY <1>1, <1>3, <1>4

BackFrom(s) == IF Head(s) \in DOMAIN prev THEN <<prev[Head(s)]>> \o s ELSE s

\* A path back to level 1 or above goes one step further.
LEMMA PathToNext ==
    ASSUME ArgsInv, SearchInv, NEW k \in Nat, k <= NumBlocks, NEW s, PathTo(s, k)
    PROVE  PathTo(BackFrom(s), k + 1)
<1>1. /\ s \in Seq(Nodes) /\ Len(s) = k + 1 /\ s[k + 1] = EndNode
      /\ \A i \in 1..(k + 1) : s[i] \in DOMAIN dist /\ Level(s[i]) = NumBlocks - k + i
      /\ \A i \in 1..k : s[i + 1] \in DOMAIN prev /\ s[i] = prev[s[i + 1]]
  BY DEF PathTo
<1>2. Head(s) = s[1] /\ 1 \in 1..(k + 1)
  BY <1>1
<1>3. s[1] \in DOMAIN dist /\ Level(s[1]) = NumBlocks - k + 1
  BY <1>1, <1>2
<1>4. s[1] \in DOMAIN prev
  <2>1. s[1] # StartNode
    BY <1>3, BlockFacts DEF Level
  <2> QED BY <1>3, <2>1 DEF SearchInv
<1> DEFINE x == prev[s[1]]
           t == BackFrom(s)
<1>5. x \in DOMAIN dist /\ x \in Nodes /\ Level(s[1]) = Level(x) + 1 /\ Level(x) \in Nat
  BY <1>4, StepBack
<1>6. t = <<x>> \o s
  BY <1>2, <1>4 DEF BackFrom
<1> HIDE DEF x, t
<1>7. /\ t \in Seq(Nodes) /\ Len(t) = (k + 1) + 1
      /\ t[1] = x /\ \A i \in 1..(k + 1) : t[i + 1] = s[i]
  <2>1. /\ <<x>> \o s \in Seq(Nodes) /\ Len(<<x>> \o s) = Len(s) + 1
        /\ (<<x>> \o s)[1] = x /\ \A i \in 1..Len(s) : (<<x>> \o s)[i + 1] = s[i]
    BY <1>1, <1>5, PrependFacts
  <2> QED BY <1>1, <1>6, <2>1
<1>8. ASSUME NEW i \in 1..((k + 1) + 1)
      PROVE  t[i] \in DOMAIN dist /\ Level(t[i]) = NumBlocks - (k + 1) + i
  <2>1. CASE i = 1
    BY <1>3, <1>5, <1>7, <2>1, BlockFacts
  <2>2. CASE i # 1
    <3>1. i - 1 \in 1..(k + 1) /\ (i - 1) + 1 = i
      BY <2>2
    <3>2. t[i] = s[i - 1]
      BY <1>7, <3>1
    <3>3. s[i - 1] \in DOMAIN dist /\ Level(s[i - 1]) = NumBlocks - k + (i - 1)
      BY <1>1, <3>1
    <3> QED BY <3>2, <3>3, BlockFacts
  <2> QED BY <2>1, <2>2
<1>9. ASSUME NEW i \in 1..(k + 1) PROVE t[i + 1] \in DOMAIN prev /\ t[i] = prev[t[i + 1]]
  <2>1. t[i + 1] = s[i]
    BY <1>7
  <2>2. CASE i = 1
    BY <1>4, <1>7, <2>1, <2>2 DEF x
  <2>3. CASE i # 1
    <3>1. i - 1 \in 1..k /\ i - 1 \in 1..(k + 1) /\ (i - 1) + 1 = i
      BY <2>3
    <3>2. t[i] = s[i - 1]
      BY <1>7, <3>1
    <3> QED BY <1>1, <2>1, <3>1, <3>2
  <2> QED BY <2>2, <2>3
<1>10. t[(k + 1) + 1] = EndNode
  <2>1. k + 1 \in 1..(k + 1)
    OBVIOUS
  <2> QED BY <1>1, <1>7, <2>1
<1>11. PathTo(t, k + 1)
  BY <1>7, <1>8, <1>9, <1>10 DEF PathTo
<1> QED BY <1>11 DEF t

\* The path runs through every level, from the start to the end.
LEMMA PathFacts ==
    ASSUME ArgsInv, SearchInv, EndNode \in DOMAIN dist
    PROVE  \E w : /\ PathTo(w, NumBlocks + 1) /\ w[1] = StartNode
                  /\ Path = [i \in 1..NumBlocks |-> w[i + 1]]
<1> DEFINE last == NumBlocks + 2
           V == {s \in Seq(Nodes) : s # <<>>}
           base == <<EndNode>>
           step == [s \in V |-> BackFrom(s)]
           Backs(f) == f = [k \in 0..last |->
                              IF k = 0 THEN base
                              ELSE IF Head(f[k - 1]) \in DOMAIN prev
                              THEN <<prev[Head(f[k - 1])]>> \o f[k - 1] ELSE f[k - 1]]
<1>1. last \in Nat /\ EndNode \in Nodes
  BY BlockFacts, NodesAre
<1>2. base \in V
  BY <1>1
<1>3. step \in [V -> V]
  <2> SUFFICES ASSUME NEW s \in V PROVE BackFrom(s) \in V
    OBVIOUS
  <2>1. CASE Head(s) \in DOMAIN prev
    <3>1. prev[Head(s)] \in Nodes
      BY <2>1, StepBack
    <3>2. BackFrom(s) = <<prev[Head(s)]>> \o s
      BY <2>1 DEF BackFrom
    <3> QED BY <3>1, <3>2, PrependFacts
  <2>2. CASE Head(s) \notin DOMAIN prev
    BY <2>2 DEF BackFrom
  <2> QED BY <2>1, <2>2
<1>4. PICK g \in [0..last -> V] : Iterates(g, last, base, step)
  <2> HIDE DEF last, V, base, step
  <2> QED BY <1>1, <1>2, <1>3, IterationExists
<1>5. ASSUME NEW k \in 1..last PROVE g[k] = BackFrom(g[k - 1])
  <2>1. g[k - 1] \in V
    BY <1>1, <1>4
  <2> QED BY <1>4, <2>1 DEF Iterates
<1> HIDE DEF base, V, step
<1>6. Backs(g)
  <2>1. ASSUME NEW k \in 0..last, k # 0
        PROVE  g[k] = IF Head(g[k - 1]) \in DOMAIN prev
                      THEN <<prev[Head(g[k - 1])]>> \o g[k - 1] ELSE g[k - 1]
    <3>1. k \in 1..last
      BY <1>1, <2>1
    <3> QED BY <1>5, <3>1 DEF BackFrom
  <2> QED BY <1>4, <2>1 DEF Iterates
<1> DEFINE back == CHOOSE f : Backs(f)
<1>7. Backs(back)
  BY <1>6
<1>8. Path = Front(Tail(back[last]))
  BY DEF Path, base
<1> HIDE DEF back
<1>9. back[0] = base /\ \A k \in 1..last : back[k] = BackFrom(back[k - 1])
  <2>1. back[0] = base
    BY <1>1, <1>7
  <2>2. ASSUME NEW k \in 1..last PROVE back[k] = BackFrom(back[k - 1])
    <3>1. k \in 0..last /\ k # 0
      OBVIOUS
    <3> QED BY <1>7, <3>1 DEF BackFrom
  <2> QED BY <2>1, <2>2
<1> DEFINE T == {k \in Nat : k <= NumBlocks + 1 => PathTo(back[k], k)}
<1>10. 0 \in T
  <2>1. Level(EndNode) = NumBlocks + 1
    BY NodeFacts DEF Level
  <2>2. PathTo(base, 0)
    BY <1>1, <2>1, BlockFacts DEF base, PathTo
  <2> QED BY <1>9, <2>2
<1>11. ASSUME NEW k \in Nat, k \in T PROVE k + 1 \in T
  <2> SUFFICES ASSUME k + 1 <= NumBlocks + 1 PROVE PathTo(back[k + 1], k + 1)
    OBVIOUS
  <2>1. k <= NumBlocks /\ k + 1 \in 1..last /\ (k + 1) - 1 = k /\ k <= NumBlocks + 1
    BY BlockFacts
  <2>2. PathTo(back[k], k)
    BY <1>11, <2>1
  <2>3. back[k + 1] = BackFrom(back[k])
    BY <1>9, <2>1
  <2> QED BY <2>1, <2>2, <2>3, PathToNext
<1> DEFINE w == back[NumBlocks + 1]
<1>12. PathTo(w, NumBlocks + 1)
  <2>1. NumBlocks + 1 \in T
    <3> HIDE DEF T
    <3> QED BY <1>10, <1>11, NumberInduction, BlockFacts
  <2> QED BY <2>1
<1>13. /\ w \in Seq(Nodes) /\ Len(w) = (NumBlocks + 1) + 1
       /\ w[1] \in DOMAIN dist /\ Level(w[1]) = NumBlocks - (NumBlocks + 1) + 1
  <2> HIDE DEF w
  <2>1. 1 \in 1..((NumBlocks + 1) + 1)
    BY BlockFacts
  <2> QED BY <1>12, <2>1 DEF PathTo
<1>14. w[1] = StartNode
  <2> HIDE DEF w
  <2>1. w[1] \in Nodes /\ Level(w[1]) = 0
    BY <1>13, BlockFacts DEF SearchInv
  <2> QED BY <2>1, LevelFacts
<1>15. back[last] = w
  <2>1. last \in 1..last /\ last - 1 = NumBlocks + 1
    BY BlockFacts
  <2>2. back[last] = BackFrom(w)
    BY <1>9, <2>1
  <2> HIDE DEF w
  <2>3. Head(w) = w[1] /\ StartNode \notin DOMAIN prev
    BY <1>13, BlockFacts DEF SearchInv
  <2> QED BY <1>14, <2>2, <2>3 DEF BackFrom
<1>16. Front(Tail(w)) = [i \in 1..NumBlocks |-> w[i + 1]]
  <2> HIDE DEF w
  <2>1. Tail(w) \in Seq(Nodes) /\ Len(Tail(w)) = NumBlocks + 1
        /\ \A i \in 1..(NumBlocks + 1) : Tail(w)[i] = w[i + 1]
    BY <1>13, BlockFacts
  <2> DEFINE t == Tail(w)
  <2> HIDE DEF t
  <2>2. Front(t) = SubSeq(t, 1, NumBlocks)
    BY <2>1, BlockFacts DEF t, Front
  <2>3. SubSeq(t, 1, NumBlocks) = [i \in 1..NumBlocks |-> t[i]]
    BY <2>1, BlockFacts DEF t
  <2>4. \A i \in 1..NumBlocks : t[i] = w[i + 1]
    BY <2>1, BlockFacts DEF t
  <2> QED BY <2>2, <2>3, <2>4 DEF t
<1> QED BY <1>8, <1>12, <1>14, <1>15, <1>16

-----------------------------------------------------------------------------
(* Chains, hop by hop *)

\* A chain that ends where the hop starts, on another server.
LEMMA WholeAppend ==
    ASSUME NEW chain, NEW from, NEW hop \in Hop, hop.start < hop.end,
           SpanAt(hop.peer).start <= hop.start, hop.end <= SpanAt(hop.peer).end,
           IF chain = None THEN hop.start = from
           ELSE Whole(chain, from, hop.start) /\ chain[Len(chain)].peer # hop.peer
    PROVE  /\ Whole(Append(chain, hop), from, hop.end)
           /\ Append(chain, hop)[Len(Append(chain, hop))] = hop
<1> DEFINE longer == Append(chain, hop)
           n == Len(chain)
<1>1. chain \in Seq(Hop)
  <2>1. CASE chain = None
    <3>1. <<>> \in Seq(Hop)
      OBVIOUS
    <3> QED BY <2>1, <3>1 DEF None
  <2>2. CASE chain # None
    BY <2>2 DEF Whole
  <2> QED BY <2>1, <2>2
<1>2. /\ longer \in Seq(Hop) /\ longer # <<>> /\ n \in Nat
      /\ Len(longer) = n + 1 /\ longer[n + 1] = hop
      /\ \A i \in 1..n : longer[i] = chain[i]
  <2>1. /\ Append(chain, hop) \in Seq(Hop) /\ Append(chain, hop) # <<>>
        /\ Len(Append(chain, hop)) = Len(chain) + 1
        /\ Append(chain, hop)[Len(chain) + 1] = hop
        /\ \A i \in 1..Len(chain) : Append(chain, hop)[i] = chain[i]
    BY <1>1, AppendFacts
  <2>2. Len(chain) \in Nat
    BY <1>1
  <2> QED BY <2>1, <2>2
<1> HIDE DEF longer
<1>3. CASE chain = None
  <2>1. n = 0
    BY <1>3 DEF None
  <2> HIDE DEF n
  <2>2. 1..(n + 1) = {1} /\ 1..((n + 1) - 1) = {} /\ longer[1] = hop
    BY <1>2, <2>1
  <2>3. hop.start = from
    BY <1>3
  <2>4. Whole(longer, from, hop.end)
    BY <1>2, <2>1, <2>2, <2>3 DEF Whole
  <2> QED BY <1>2, <2>4 DEF longer
<1>4. CASE chain # None
  <2>1. Whole(chain, from, hop.start) /\ chain[n].peer # hop.peer
    BY <1>4
  <2> HIDE DEF n
  <2>2. n >= 1
    BY <1>1, <1>4 DEF None, n
  <2>3. /\ chain[1].start = from /\ chain[n].end = hop.start
        /\ \A i \in 1..n :
             /\ chain[i].start < chain[i].end
             /\ SpanAt(chain[i].peer).start <= chain[i].start
             /\ chain[i].end <= SpanAt(chain[i].peer).end
        /\ \A i \in 1..(n - 1) :
             chain[i].end = chain[i + 1].start /\ chain[i].peer # chain[i + 1].peer
    BY <2>1 DEF Whole, n
  <2>4. longer[1].start = from
    BY <1>2, <2>2, <2>3
  <2>5. ASSUME NEW i \in 1..(n + 1)
        PROVE  /\ longer[i].start < longer[i].end
               /\ SpanAt(longer[i].peer).start <= longer[i].start
               /\ longer[i].end <= SpanAt(longer[i].peer).end
    <3>1. CASE i = n + 1
      BY <1>2, <3>1
    <3>2. CASE i # n + 1
      <4>1. i \in 1..n /\ longer[i] = chain[i]
        BY <1>2, <3>2
      <4> QED BY <2>3, <4>1
    <3> QED BY <3>1, <3>2
  <2>6. ASSUME NEW i \in 1..((n + 1) - 1)
        PROVE  longer[i].end = longer[i + 1].start /\ longer[i].peer # longer[i + 1].peer
    <3>1. longer[i] = chain[i] /\ i \in 1..n
      BY <1>2
    <3>2. CASE i = n
      BY <1>2, <2>1, <2>3, <3>1, <3>2
    <3>3. CASE i # n
      <4>1. i \in 1..(n - 1) /\ i + 1 \in 1..n
        BY <1>2, <3>1, <3>3
      <4>2. longer[i + 1] = chain[i + 1]
        BY <1>2, <4>1
      <4> QED BY <2>3, <3>1, <4>1, <4>2
    <3> QED BY <3>2, <3>3
  <2>7. Whole(longer, from, hop.end)
    BY <1>2, <2>4, <2>5, <2>6 DEF Whole
  <2> QED BY <1>2, <2>7 DEF longer
<1> QED BY <1>3, <1>4

\* The last server of a chain goes one block further.
LEMMA WholeExtend ==
    ASSUME NEW chain, NEW from, NEW to \in Nat, Whole(chain, from, to), to + 1 <= NumBlocks,
           to + 1 <= SpanAt(chain[Len(chain)].peer).end
    PROVE  Whole([chain EXCEPT ![Len(chain)].end = to + 1], from, to + 1)
<1> DEFINE n == Len(chain)
           longer == [chain EXCEPT ![n].end = to + 1]
<1>1. /\ chain \in Seq(Hop) /\ chain # <<>> /\ n \in Nat
      /\ chain[1].start = from /\ chain[n].end = to
      /\ \A i \in 1..n :
             /\ chain[i].start < chain[i].end
             /\ SpanAt(chain[i].peer).start <= chain[i].start
             /\ chain[i].end <= SpanAt(chain[i].peer).end
      /\ \A i \in 1..(n - 1) :
             chain[i].end = chain[i + 1].start /\ chain[i].peer # chain[i + 1].peer
  BY DEF Whole
<1>2. n >= 1 /\ n \in 1..n /\ chain[n] \in Hop
  BY <1>1
<1> DEFINE hop == [peer |-> chain[n].peer, start |-> chain[n].start, end |-> to + 1]
<1>3. to + 1 \in 0..NumBlocks /\ hop \in Hop
  BY <1>2, BlockFacts DEF Hop
<1>4. longer = [chain EXCEPT ![n] = hop]
  <2>1. [chain[n] EXCEPT !.end = to + 1] = hop
    BY <1>2 DEF Hop
  <2>2. longer = [chain EXCEPT ![n] = [chain[n] EXCEPT !.end = to + 1]]
    BY <1>1, <1>2
  <2> QED BY <2>1, <2>2
<1>5. /\ longer \in Seq(Hop) /\ Len(longer) = n /\ longer # <<>>
      /\ longer[n] = hop /\ \A i \in 1..n : i # n => longer[i] = chain[i]
  <2> HIDE DEF hop
  <2> QED BY <1>1, <1>2, <1>3, <1>4
<1>6. hop.peer = chain[n].peer /\ hop.start = chain[n].start /\ hop.end = to + 1
  OBVIOUS
<1>7. to + 1 <= SpanAt(chain[n].peer).end
  OBVIOUS
<1>8. chain[n].start \in Nat
  BY <1>2, BlockFacts DEF Hop
<1> HIDE DEF longer, hop, n
<1>9. \A i \in 1..n : longer[i].peer = chain[i].peer /\ longer[i].start = chain[i].start
  BY <1>5, <1>6
<1>10. ASSUME NEW i \in 1..n
       PROVE  /\ longer[i].start < longer[i].end
              /\ SpanAt(longer[i].peer).start <= longer[i].start
              /\ longer[i].end <= SpanAt(longer[i].peer).end
  <2>1. CASE i = n
    <3>1. longer[n] = hop /\ chain[n].start < to + 1
      BY <1>1, <1>2, <1>5, <1>8
    <3> QED BY <1>1, <1>2, <1>6, <1>7, <2>1, <3>1
  <2>2. CASE i # n
    BY <1>1, <1>5, <2>2
  <2> QED BY <2>1, <2>2
<1>11. ASSUME NEW i \in 1..(n - 1)
       PROVE  longer[i].end = longer[i + 1].start /\ longer[i].peer # longer[i + 1].peer
  <2>1. i \in 1..n /\ i # n /\ i + 1 \in 1..n
    BY <1>1
  <2> QED BY <1>1, <1>5, <1>9, <2>1
<1>12. longer[1].start = from /\ longer[n].end = to + 1
  <2>1. 1 \in 1..n
    BY <1>1, <1>2
  <2> QED BY <1>1, <1>5, <1>6, <1>9, <2>1
<1>13. Whole(longer, from, to + 1)
  BY <1>5, <1>10, <1>11, <1>12 DEF Whole
<1> QED BY <1>13 DEF longer, n

\* A node of the path makes a chain up to its block one up to the next.
LEMMA AddNodeFacts ==
    ASSUME ArgsInv, NEW i \in Blocks, NEW p, Serves(p, i), NEW chain,
           IF i = 0 THEN chain = None ELSE Whole(chain, 0, i)
    PROVE  Whole(AddNode(chain, Node(p, i)), 0, i + 1)
<1>1. /\ p \in Peers /\ SpanAt(p).start <= i /\ i < SpanAt(p).end
      /\ SpanAt(p).end \in Nat /\ SpanAt(p).end <= NumBlocks
  BY ServesFacts
<1>2. i \in Nat /\ i + 1 <= NumBlocks /\ i + 1 <= SpanAt(p).end
  BY <1>1, BlockFacts
<1> DEFINE hop == [peer |-> p, start |-> i, end |-> i + 1]
<1>3. hop \in Hop
  BY <1>1, <1>2, BlockFacts DEF Hop
<1>4. Node(p, i).peer = p /\ Node(p, i).block = i
  BY NodeFacts
<1>5. chain # None => Last(chain) = chain[Len(chain)]
  BY DEF Last
<1>6. CASE chain = None \/ Last(chain).peer # p
  <2>1. AddNode(chain, Node(p, i)) = Append(chain, hop)
    BY <1>4, <1>6 DEF AddNode, None
  <2>2. hop.peer = p /\ hop.start = i /\ hop.end = i + 1
    OBVIOUS
  <2> HIDE DEF hop
  <2>3. IF chain = None THEN hop.start = 0
        ELSE Whole(chain, 0, hop.start) /\ chain[Len(chain)].peer # hop.peer
    <3>1. CASE i = 0
      BY <1>6, <2>2, <3>1
    <3>2. CASE i # 0
      <4>1. Whole(chain, 0, i) /\ chain # None
        BY <3>2 DEF Whole, None
      <4> QED BY <1>5, <1>6, <2>2, <4>1
    <3> QED BY <3>1, <3>2
  <2>4. hop.start < hop.end /\ SpanAt(hop.peer).start <= hop.start
          /\ hop.end <= SpanAt(hop.peer).end
    BY <1>1, <1>2, <2>2
  <2>5. Whole(Append(chain, hop), 0, hop.end)
    BY <1>3, <2>3, <2>4, WholeAppend
  <2> QED BY <2>1, <2>2, <2>5
<1>7. CASE chain # None /\ Last(chain).peer = p
  <2>1. AddNode(chain, Node(p, i)) = [chain EXCEPT ![Len(chain)].end = i + 1]
    BY <1>4, <1>7 DEF AddNode, None
  <2>2. Whole(chain, 0, i)
    BY <1>7
  <2>3. chain[Len(chain)].peer = p
    BY <1>5, <1>7
  <2>4. i + 1 <= SpanAt(chain[Len(chain)].peer).end
    BY <1>2, <2>3
  <2>5. Whole([chain EXCEPT ![Len(chain)].end = i + 1], 0, i + 1)
    BY <1>2, <2>2, <2>4, WholeExtend
  <2> QED BY <2>1, <2>5
<1> QED BY <1>6, <1>7

\* A node makes a chain of hops from one.
LEMMA AddNodeType ==
    ASSUME ArgsInv, NEW b \in Blocks, NEW p, Serves(p, b), NEW chain \in Seq(Hop)
    PROVE  AddNode(chain, Node(p, b)) \in Seq(Hop)
<1> DEFINE hop == [peer |-> p, start |-> b, end |-> b + 1]
<1>1. p \in Peers /\ b \in 0..NumBlocks /\ b + 1 \in 0..NumBlocks
  BY ServesFacts, BlockFacts
<1>2. hop \in Hop
  BY <1>1 DEF Hop
<1>3. Node(p, b).peer = p /\ Node(p, b).block = b
  BY NodeFacts
<1>4. CASE chain = None \/ Last(chain).peer # p
  <2>1. AddNode(chain, Node(p, b)) = Append(chain, hop)
    BY <1>3, <1>4 DEF AddNode, None
  <2> HIDE DEF hop
  <2> QED BY <1>2, <2>1, AppendFacts
<1>5. CASE chain # None /\ Last(chain).peer = p
  <2> DEFINE n == Len(chain)
             e == [chain[n] EXCEPT !.end = b + 1]
  <2>1. n \in 1..n
    BY <1>5 DEF None
  <2>2. e \in Hop
    <3>1. chain[n] \in Hop
      BY <2>1
    <3> QED BY <1>1, <3>1 DEF Hop
  <2>3. AddNode(chain, Node(p, b)) = [chain EXCEPT ![n] = e]
    BY <1>3, <1>5 DEF AddNode, None
  <2> HIDE DEF e
  <2> QED BY <2>1, <2>2, <2>3
<1> QED BY <1>4, <1>5

\* f has, for each set of indices of the path, the chain through its nodes.
ChainedBy(f, path) ==
    f = [u \in SUBSET (DOMAIN path) |->
           IF u = {} THEN None ELSE AddNode(f[u \ {Max(u)}], path[Max(u)])]

\* A path through a server of each block makes a whole chain.
LEMMA ChainOfPath ==
    ASSUME ArgsInv, NEW path, DOMAIN path = 1..NumBlocks,
           \A i \in 1..NumBlocks : \E p : Serves(p, i - 1) /\ path[i] = Node(p, i - 1)
    PROVE  Whole(FoldLeft(AddNode, None, path), 0, NumBlocks)
<1> DEFINE n == NumBlocks
           V == Seq(Hop)
           step == [i \in 1..n |-> [chain \in V |-> AddNode(chain, path[i])]]
<1>1. n \in Nat /\ n >= 1 /\ \A i \in 1..n : i - 1 \in Blocks
  BY BlockFacts DEF Blocks
<1>2. None \in V
  BY DEF None
<1>3. ASSUME NEW i \in 1..n, NEW chain \in V PROVE AddNode(chain, path[i]) \in V
  BY <1>1, AddNodeType
<1>4. step \in [1..n -> [V -> V]]
  BY <1>3
<1>5. PICK g \in [SUBSET (1..n) -> V] : FoldsIndices(g, n, None, step)
  <2> HIDE DEF step, V, n
  <2> QED BY <1>1, <1>2, <1>4, SequenceFoldExists
<1>6. ChainedBy(g, path)
  <2>1. ASSUME NEW u \in SUBSET (1..n), u # {}
        PROVE  g[u] = AddNode(g[u \ {Max(u)}], path[Max(u)])
    <3>1. Max(u) \in 1..n /\ u \ {Max(u)} \in SUBSET (1..n)
      BY <1>1, <2>1, PrefixIndices
    <3>2. g[u \ {Max(u)}] \in V
      BY <3>1
    <3>3. g[u] = step[Max(u)][g[u \ {Max(u)}]]
      <4> HIDE DEF step, n
      <4> QED BY <1>5, <2>1 DEF FoldsIndices
    <3>4. step[Max(u)][g[u \ {Max(u)}]] = AddNode(g[u \ {Max(u)}], path[Max(u)])
      BY <3>1, <3>2
    <3> QED BY <3>3, <3>4
  <2>2. g[{}] = None
    <3> HIDE DEF step, n
    <3> QED BY <1>5 DEF FoldsIndices
  <2> HIDE DEF step, V
  <2> QED BY <2>1, <2>2 DEF ChainedBy
<1> DEFINE G == CHOOSE f : ChainedBy(f, path)
<1>7. ChainedBy(G, path)
  BY <1>6
<1>8. FoldLeft(AddNode, None, path) = G[1..n]
  BY DEF FoldLeft, MapThenFoldSet, ChainedBy
<1> HIDE DEF G, step, V
<1>9. G[{}] = None
  BY <1>7, {} \in SUBSET (1..n) DEF ChainedBy
<1>10. ASSUME NEW i \in 1..n PROVE G[1..i] = AddNode(G[1..(i - 1)], path[i])
  <2>1. /\ 1..i \in SUBSET (1..n) /\ 1..i # {}
        /\ Max(1..i) = i /\ (1..i) \ {i} = 1..(i - 1)
    BY <1>1, PrefixIndices
  <2>2. G[1..i] = AddNode(G[(1..i) \ {Max(1..i)}], path[Max(1..i)])
    BY <1>7, <2>1 DEF ChainedBy
  <2> QED BY <2>1, <2>2
<1> DEFINE h(i) == G[1..i]
           Good(i) == IF i = 0 THEN h(i) = None ELSE Whole(h(i), 0, i)
           T == {i \in Nat : i <= n => Good(i)}
<1>11. 0 \in T
  BY <1>9, 1..0 = {}
<1>12. ASSUME NEW i \in Nat, i \in T PROVE i + 1 \in T
  <2> SUFFICES ASSUME i + 1 <= n PROVE Good(i + 1)
    OBVIOUS
  <2>1. i + 1 \in 1..n /\ (i + 1) - 1 = i /\ i \in Blocks /\ i + 1 # 0 /\ i <= n
    BY <1>1, BlockFacts DEF Blocks
  <2>2. Good(i)
    BY <1>12, <2>1
  <2>3. PICK p : Serves(p, i) /\ path[i + 1] = Node(p, i)
    BY <2>1
  <2>4. h(i + 1) = AddNode(h(i), Node(p, i))
    BY <1>10, <2>1, <2>3
  <2> HIDE DEF h
  <2>5. Whole(AddNode(h(i), Node(p, i)), 0, i + 1)
    BY <2>1, <2>2, <2>3, AddNodeFacts
  <2> QED BY <2>1, <2>4, <2>5
<1>13. Whole(h(n), 0, n)
  <2>1. n \in T
    <3> HIDE DEF T, n
    <3> QED BY <1>1, <1>11, <1>12, NumberInduction
  <2> HIDE DEF h
  <2> QED BY <1>1, <2>1
<1> QED BY <1>8, <1>13

\* The path that is taken makes a whole chain.
LEMMA PathIsWhole ==
    ASSUME ArgsInv, SearchInv, EndNode \in DOMAIN dist
    PROVE  Whole(FoldLeft(AddNode, None, Path), 0, NumBlocks)
<1>1. PICK w : /\ PathTo(w, NumBlocks + 1) /\ w[1] = StartNode
               /\ Path = [i \in 1..NumBlocks |-> w[i + 1]]
  BY PathFacts
<1> DEFINE path == Path
<1>2. DOMAIN path = 1..NumBlocks /\ \A i \in 1..NumBlocks : path[i] = w[i + 1]
  BY <1>1
<1>3. ASSUME NEW i \in 1..NumBlocks
      PROVE  \E p : Serves(p, i - 1) /\ path[i] = Node(p, i - 1)
  <2> DEFINE x == w[i + 1]
  <2>1. i + 1 \in 1..((NumBlocks + 1) + 1) /\ i \in Nat
    BY BlockFacts
  <2>2. x \in DOMAIN dist /\ Level(x) = NumBlocks - (NumBlocks + 1) + (i + 1)
    BY <1>1, <2>1 DEF PathTo
  <2>3. x \in Nodes /\ Level(x) = i
    BY <2>1, <2>2, BlockFacts DEF SearchInv
  <2> HIDE DEF x
  <2>4. Level(x) # 0 /\ Level(x) # NumBlocks + 1
    BY <2>3, BlockFacts
  <2>5. x \notin {StartNode, EndNode}
    BY <2>3, <2>4, LevelFacts
  <2>6. \E p : x = Node(p, i - 1) /\ Serves(p, i - 1)
    BY <2>3, <2>5, LevelFacts
  <2> QED BY <1>2, <2>6 DEF x
<1> HIDE DEF path
<1>4. Whole(FoldLeft(AddNode, None, path), 0, NumBlocks)
  BY <1>2, <1>3, ChainOfPath
<1> QED BY <1>4 DEF path

-----------------------------------------------------------------------------
(* Where there is no chain *)

\* No edge passes a block that no server has.
LEMMA UncoveredCut ==
    ASSUME ArgsInv, NEW b \in Blocks, \A p : ~Serves(p, b)
    PROVE  \E nodes \in SUBSET Nodes : Cut(nodes)
<1> DEFINE nodes == {n \in Nodes : Level(n) <= b}
<1>1. b \in Nat /\ b + 1 \in 1..NumBlocks
  BY BlockFacts
<1>2. StartNode \in nodes /\ EndNode \notin nodes
  BY <1>1, BlockFacts, NodesAre, NodeFacts DEF Level
<1>3. ASSUME NEW n \in nodes, NEW edge \in Edges(n) PROVE edge.to \in nodes
  <2>1. edge.to \in Nodes /\ Level(n) \in Nat /\ Level(edge.to) = Level(n) + 1
    BY EdgeFacts
  <2>2. Level(edge.to) # b + 1
    <3> SUFFICES ASSUME Level(edge.to) = b + 1 PROVE FALSE
      OBVIOUS
    <3>1. edge.to \notin {StartNode, EndNode}
      BY <1>1, <2>1, BlockFacts, NodeFacts DEF Level
    <3>2. \E p : Serves(p, Level(edge.to) - 1)
      BY <2>1, <3>1, LevelFacts
    <3>3. Level(edge.to) - 1 = b
      BY <1>1
    <3> QED BY <3>2, <3>3
  <2> QED BY <1>1, <2>1, <2>2
<1>4. Cut(nodes)
  <2> HIDE DEF nodes
  <2>1. nodes \subseteq Nodes
    BY DEF nodes
  <2> QED BY <1>2, <1>3, <2>1 DEF Cut
<1> QED BY <1>4

\* When the heap is empty, no edge leaves the nodes that were reached.
LEMMA ExhaustedCut ==
    ASSUME ArgsInv, SearchInv, ~overshot, EndNode \notin DOMAIN dist,
           \A e \in heap : Top(e) => e.node = EndNode
    PROVE  \E nodes \in SUBSET Nodes : Cut(nodes)
<1>1. /\ DOMAIN dist \subseteq Nodes /\ StartNode \in DOMAIN dist
      /\ \A e \in heap : e.node \in DOMAIN dist /\ e.node \in Nodes /\ e.cost_ns \in Nat
      /\ \A n \in DOMAIN dist : Awaited(n) \/ Relaxed(n)
  BY DEF SearchInv
<1>2. heap = {}
  BY <1>1, TopExists
<1>3. \A n \in DOMAIN dist : \A edge \in Edges(n) : edge.to \in DOMAIN dist
  BY <1>1, <1>2 DEF Awaited, Relaxed
<1>4. Cut(DOMAIN dist)
  BY <1>1, <1>3 DEF Cut
<1> QED BY <1>1, <1>4

-----------------------------------------------------------------------------
(* The phases, step by step *)

\* Chains stay whole while the arguments stay the same,
LEMMA WholeSame ==
    ASSUME UNCHANGED args
    PROVE  \A chain, from, to : Whole(chain, from, to)' <=> Whole(chain, from, to)
<1>1. \A p : SpanAt(p)' = SpanAt(p)
  BY SameGraph
<1> QED BY <1>1 DEF Whole

\* and cuts stay cuts.
LEMMA CutSame ==
    ASSUME UNCHANGED args
    PROVE  (\E nodes \in SUBSET Nodes : Cut(nodes)) => (\E nodes \in SUBSET Nodes : Cut(nodes))'
<1>1. Nodes' = Nodes /\ \A n : Edges(n)' = Edges(n)
  BY SameGraph
<1> QED BY <1>1 DEF Cut

\* The phases start as they should.
LEMMA InitPhase == Init => PhaseInv /\ GreedyInv /\ DoneInv
<1> SUFFICES ASSUME Init PROVE PhaseInv /\ GreedyInv /\ DoneInv
  OBVIOUS
<1>1. /\ start_index \in Blocks /\ current_index = start_index /\ result = None
      /\ DOMAIN dist = {StartNode}
      /\ pc \in IF start_index = 0 THEN {"greedy", "ready"} ELSE {"greedy"}
  BY DEF Init
<1>2. current_index \in 0..NumBlocks /\ EndNode \notin DOMAIN dist
  BY <1>1, BlockFacts, NodeFacts
<1>3. result \in Seq(Hop)
  <2>1. <<>> \in Seq(Hop)
    OBVIOUS
  <2> QED BY <1>1, <2>1 DEF None
<1>4. pc \in {"greedy", "ready"} /\ (pc = "ready" => start_index = 0)
  BY <1>1
<1> QED BY <1>1, <1>2, <1>3, <1>4 DEF PhaseInv, GreedyInv, DoneInv

\* The greedy choice extends a whole chain, or ends it at the last block.
LEMMA GreedyPhase ==
    ASSUME ChainInv, GreedyStep PROVE PhaseInv' /\ GreedyInv' /\ DoneInv'
<1> DEFINE here == Containing(spans, current_index)
<1>1. /\ pc = "greedy" /\ UNCHANGED args /\ UNCHANGED search
      /\ \/ current_index = NumBlocks /\ pc' = "done" /\ UNCHANGED <<result, current_index>>
         \/ /\ current_index # NumBlocks /\ here = <<>>
            /\ pc' = "done" /\ result' = None /\ UNCHANGED current_index
         \/ /\ current_index # NumBlocks /\ here # <<>>
            /\ current_index' = Min({here[1].end, NumBlocks})
            /\ result' = Append(result, [peer |-> here[1].peer, start |-> current_index,
                                         end |-> current_index'])
            /\ UNCHANGED pc
  BY DEF GreedyStep, Finish
<1>2. ArgsInv /\ PhaseInv /\ GreedyInv /\ EndNode \notin DOMAIN dist
  BY <1>1 DEF ChainInv, PhaseInv
<1>3. current_index \in 0..NumBlocks /\ result \in Seq(Hop) /\ start_index \in Blocks
  BY <1>2 DEF PhaseInv, ArgsInv
<1>4. dist' = dist /\ heap' = heap /\ overshot' = overshot /\ start_index' = start_index
  BY <1>1 DEF args, search
<1> HIDE DEF here
<1>5. None \in Seq(Hop)
  BY DEF None
<1>6. CASE current_index = NumBlocks /\ pc' = "done" /\ UNCHANGED <<result, current_index>>
  <2>1. result # None
    BY <1>1, <1>2, <1>3, <1>6, BlockFacts DEF GreedyInv, Blocks
  <2>2. Whole(result, start_index, NumBlocks)
    BY <1>1, <1>2, <1>6, <2>1 DEF GreedyInv
  <2>3. Whole(result', start_index', NumBlocks)
    BY <1>4, <1>6, <2>2
  <2>4. Whole(result, start_index, NumBlocks)'
    BY <1>1, <2>3, WholeSame
  <2> QED BY <1>2, <1>3, <1>4, <1>6, <2>1, <2>4 DEF PhaseInv, GreedyInv, DoneInv
<1>7. CASE /\ current_index # NumBlocks /\ here = <<>>
           /\ pc' = "done" /\ result' = None /\ UNCHANGED current_index
  <2>1. current_index \in Blocks
    BY <1>3, <1>7, BlockFacts DEF Blocks
  <2>2. \A p : ~Serves(p, current_index)
    BY <1>2, <1>7, ContainingFacts DEF here
  <2>3. \E nodes \in SUBSET Nodes : Cut(nodes)
    BY <1>2, <2>1, <2>2, UncoveredCut
  <2>4. (\E nodes \in SUBSET Nodes : Cut(nodes))'
    BY <1>1, <2>3, CutSame
  <2> QED BY <1>2, <1>3, <1>4, <1>5, <1>7, <2>4 DEF PhaseInv, GreedyInv, DoneInv
<1>8. CASE /\ current_index # NumBlocks /\ here # <<>>
           /\ current_index' = Min({here[1].end, NumBlocks})
           /\ result' = Append(result, [peer |-> here[1].peer, start |-> current_index,
                                        end |-> current_index'])
           /\ UNCHANGED pc
  <2> DEFINE p == here[1].peer
             next == current_index'
             hop == [peer |-> p, start |-> current_index, end |-> next]
  <2>1. Serves(p, current_index) /\ here[1] = SpanAt(p)
    BY <1>2, <1>8, ContainingFacts DEF here
  <2>2. /\ p \in Peers /\ SpanAt(p).start <= current_index /\ current_index < SpanAt(p).end
        /\ SpanAt(p).end \in Nat /\ SpanAt(p).end <= NumBlocks
    BY <1>2, <2>1, ServesFacts
  <2>3. next = SpanAt(p).end
    <3>1. here[1].end = SpanAt(p).end
      BY <2>1
    <3> HIDE DEF p
    <3>2. ASSUME NEW e \in Nat, e <= NumBlocks PROVE Min({e, NumBlocks}) = e
      <4>1. e \in Int /\ NumBlocks \in Int
        BY BlockFacts
      <4>2. Min({e, NumBlocks}) = IF e <= NumBlocks THEN e ELSE NumBlocks
        BY <4>1, MaxMin
      <4> QED BY <3>2, <4>2
    <3> QED BY <1>8, <2>2, <3>1, <3>2
  <2>4. result' = Append(result, hop)
    BY <1>8
  <2> HIDE DEF next, p
  <2>5. hop \in Hop /\ hop.peer = p /\ hop.start = current_index /\ hop.end = next
    BY <1>3, <2>2, <2>3, BlockFacts DEF Hop
  <2> HIDE DEF hop
  <2>6. hop.start < hop.end /\ SpanAt(hop.peer).start <= hop.start
          /\ hop.end <= SpanAt(hop.peer).end
    BY <2>2, <2>3, <2>5
  <2>7. IF result = None THEN hop.start = start_index
        ELSE Whole(result, start_index, hop.start) /\ result[Len(result)].peer # hop.peer
    <3>1. CASE result = None
      BY <1>1, <1>2, <2>5, <3>1 DEF GreedyInv
    <3>2. CASE result # None
      <4>1. /\ Whole(result, start_index, current_index)
            /\ SpanAt(result[Len(result)].peer).end = current_index
        BY <1>1, <1>2, <3>2 DEF GreedyInv
      <4>2. result[Len(result)].peer # p
        BY <1>3, <2>2, <4>1
      <4> QED BY <2>5, <3>2, <4>1, <4>2
    <3> QED BY <3>1, <3>2
  <2>8. /\ Whole(Append(result, hop), start_index, hop.end)
        /\ Append(result, hop)[Len(Append(result, hop))] = hop
    BY <2>5, <2>6, <2>7, WholeAppend
  <2>9. Whole(result', start_index', next) /\ result'[Len(result')] = hop
    BY <1>4, <2>4, <2>5, <2>8
  <2>10. Whole(result, start_index, current_index)'
    BY <1>1, <2>9, WholeSame DEF next
  <2>11. SpanAt(result[Len(result)].peer)' = SpanAt(p)
    <3>1. \A q : SpanAt(q)' = SpanAt(q)
      BY <1>1, SameGraph
    <3> QED BY <2>5, <2>9, <3>1
  <2>12. GreedyInv'
    BY <2>3, <2>10, <2>11 DEF GreedyInv, Whole, None, next
  <2>13. current_index' \in 0..NumBlocks /\ result' \in Seq(Hop)
    BY <2>2, <2>3, <2>9, BlockFacts DEF next, Whole
  <2>14. PhaseInv' /\ DoneInv'
    BY <1>1, <1>2, <1>4, <1>8, <2>13 DEF PhaseInv, DoneInv
  <2> QED BY <2>12, <2>14
<1> QED BY <1>1, <1>6, <1>7, <1>8

\* Without a server at an end of the blocks, there is a cut.
LEMMA BeginPhase ==
    ASSUME ChainInv, Begin PROVE PhaseInv' /\ GreedyInv' /\ DoneInv'
<1>1. /\ pc = "ready" /\ UNCHANGED args /\ UNCHANGED search /\ current_index' = current_index
      /\ \/ /\ \E b \in {0, NumBlocks - 1} : Containing(spans, b) = <<>>
            /\ pc' = "done" /\ result' = None
         \/ pc' = "searching" /\ result' = result
  BY DEF Begin, Finish
<1>2. /\ ArgsInv /\ PhaseInv /\ EndNode \notin DOMAIN dist
      /\ start_index = 0 /\ result = None /\ result \in Seq(Hop)
  BY <1>1 DEF ChainInv, PhaseInv
<1>3. dist' = dist /\ overshot' = overshot /\ start_index' = start_index
  BY <1>1 DEF args, search
<1>4. CASE /\ \E b \in {0, NumBlocks - 1} : Containing(spans, b) = <<>>
           /\ pc' = "done" /\ result' = None
  <2>1. PICK b \in {0, NumBlocks - 1} : Containing(spans, b) = <<>>
    BY <1>4
  <2>2. b \in Blocks
    BY BlockFacts DEF Blocks
  <2>3. \A p : ~Serves(p, b)
    BY <1>2, <2>1, ContainingFacts
  <2>4. (\E nodes \in SUBSET Nodes : Cut(nodes))'
    BY <1>1, <1>2, <2>2, <2>3, UncoveredCut, CutSame
  <2> QED BY <1>1, <1>2, <1>3, <1>4, <2>4 DEF PhaseInv, GreedyInv, DoneInv
<1>5. CASE pc' = "searching" /\ result' = result
  BY <1>1, <1>2, <1>3, <1>5 DEF PhaseInv, GreedyInv, DoneInv
<1> QED BY <1>1, <1>4, <1>5

\* The search ends with the path that it found, or with a cut.
LEMMA ArrivePhase ==
    ASSUME ChainInv, Arrive PROVE PhaseInv' /\ GreedyInv' /\ DoneInv'
<1>1. /\ pc = "searching" /\ UNCHANGED args /\ UNCHANGED search /\ current_index' = current_index
      /\ \A e \in heap : Top(e) => e.node = EndNode
      /\ pc' = "done"
      /\ result' = IF EndNode \in DOMAIN dist THEN FoldLeft(AddNode, None, Path) ELSE None
  BY DEF Arrive, Finish
<1>2. /\ ArgsInv /\ SearchInv /\ start_index = 0 /\ current_index \in 0..NumBlocks
  BY <1>1 DEF ChainInv, PhaseInv
<1>3. dist' = dist /\ heap' = heap /\ overshot' = overshot /\ start_index' = start_index
  BY <1>1 DEF args, search
<1>4. (\A e \in heap : Top(e) => e.node = EndNode)'
  <2>1. \A n : NodeNumber(n)' = NodeNumber(n)
    BY <1>1, SameGraph
  <2> QED BY <1>1, <1>3, <2>1 DEF Top
<1>5. CASE EndNode \in DOMAIN dist
  <2>1. Whole(result', start_index', NumBlocks)
    BY <1>1, <1>2, <1>3, <1>5, PathIsWhole
  <2>2. Whole(result, start_index, NumBlocks)'
    BY <1>1, <2>1, WholeSame
  <2>3. result' # None /\ result' \in Seq(Hop)
    BY <2>1 DEF Whole, None
  <2> QED BY <1>1, <1>2, <1>3, <1>4, <2>2, <2>3 DEF PhaseInv, GreedyInv, DoneInv
<1>6. CASE EndNode \notin DOMAIN dist
  <2>1. result' = None /\ None \in Seq(Hop)
    BY <1>1, <1>6 DEF None
  <2>2. ~overshot' => (\E nodes \in SUBSET Nodes : Cut(nodes))'
    BY <1>1, <1>2, <1>3, <1>6, ExhaustedCut, CutSame
  <2> QED BY <1>1, <1>2, <1>3, <1>4, <1>6, <2>1, <2>2 DEF PhaseInv, GreedyInv, DoneInv
<1> QED BY <1>5, <1>6

\* Every step keeps the phases as they should be.
LEMMA NextPhase ==
    ASSUME ChainInv, [Next]_vars PROVE PhaseInv' /\ GreedyInv' /\ DoneInv'
<1>1. CASE GreedyStep
  BY <1>1, GreedyPhase
<1>2. CASE Begin
  BY <1>2, BeginPhase
<1>3. CASE Arrive
  BY <1>3, ArrivePhase
<1>4. CASE Skip \/ Relax
  <2>1. pc = "searching" /\ UNCHANGED <<args, current_index, pc, result>>
    BY <1>4 DEF Skip, Relax
  <2>2. start_index' = start_index
    BY <2>1 DEF args
  <2> QED BY <2>1, <2>2 DEF ChainInv, PhaseInv, GreedyInv, DoneInv
<1>5. CASE UNCHANGED vars
  <2>1. UNCHANGED args /\ UNCHANGED search /\ UNCHANGED <<current_index, pc, result>>
    BY <1>5 DEF vars
  <2>2. /\ dist' = dist /\ heap' = heap /\ overshot' = overshot /\ start_index' = start_index
        /\ result' = result /\ current_index' = current_index /\ pc' = pc
    BY <2>1 DEF args, search
  <2>3. PhaseInv'
    BY <2>2 DEF ChainInv, PhaseInv
  <2>4. GreedyInv'
    <3>1. SpanAt(result[Len(result)].peer)' = SpanAt(result[Len(result)].peer)
      BY <2>1, <2>2, SameGraph
    <3>2. Whole(result, start_index, current_index)' <=> Whole(result, start_index, current_index)
      BY <2>1, <2>2, WholeSame
    <3> QED BY <2>2, <3>1, <3>2 DEF ChainInv, GreedyInv
  <2>5. DoneInv'
    <3>1. \A n : NodeNumber(n)' = NodeNumber(n)
      BY <2>1, SameGraph
    <3>2. (\A e \in heap : Top(e) => e.node = EndNode)
            => (\A e \in heap : Top(e) => e.node = EndNode)'
      BY <2>2, <3>1 DEF Top
    <3>3. Whole(result, start_index, NumBlocks)' <=> Whole(result, start_index, NumBlocks)
      BY <2>1, <2>2, WholeSame
    <3> QED BY <2>1, <2>2, <3>2, <3>3, CutSame DEF ChainInv, DoneInv
  <2> QED BY <2>3, <2>4, <2>5
<1> QED BY <1>1, <1>2, <1>3, <1>4, <1>5 DEF Next

-----------------------------------------------------------------------------
(* The cheapest way to the end *)

\* A set that has each node whose neighbours it has, has all nodes.
LEMMA BackwardInduction ==
    ASSUME ArgsInv, NEW T,
           \A n \in Nodes : (\A edge \in Edges(n) : edge.to \in T) => n \in T
    PROVE  \A n \in Nodes : n \in T
<1> DEFINE N == {k \in Nat : \A n \in Nodes : NumBlocks + 1 - Level(n) < k => n \in T}
<1>1. \A n \in Nodes : Level(n) \in 0..(NumBlocks + 1)
  BY LevelFacts
<1>2. 0 \in N
  BY <1>1, BlockFacts
<1>3. ASSUME NEW k \in Nat, k \in N PROVE k + 1 \in N
  <2> SUFFICES ASSUME NEW n \in Nodes, NumBlocks + 1 - Level(n) < k + 1 PROVE n \in T
    OBVIOUS
  <2>1. ASSUME NEW edge \in Edges(n) PROVE edge.to \in T
    <3>1. edge.to \in Nodes /\ Level(n) \in Nat /\ Level(edge.to) = Level(n) + 1
      BY EdgeFacts
    <3>2. NumBlocks + 1 - Level(edge.to) < k
      BY <3>1, BlockFacts
    <3> QED BY <1>3, <3>1, <3>2
  <2> QED BY <2>1
<1>4. \A k \in Nat : k \in N
  <2> HIDE DEF N
  <2> QED BY <1>2, <1>3, NumberInduction
<1>5. NumBlocks + 2 \in N
  <2> HIDE DEF N
  <2> QED BY <1>4, BlockFacts
<1> QED BY <1>1, <1>5, BlockFacts

\* The cost of the ways on from n by an edge, when f has that of the rest.
Ways(f, n) == UNION {{edge.weight + c : c \in f[edge.to]} : edge \in Edges(n)}
OnFrom(f, n) ==
    IF n = EndNode THEN {0} ELSE IF Ways(f, n) = {} THEN {} ELSE {Min(Ways(f, n))}

\* A way on is an edge, and a way from where it leads.
LEMMA WaysFacts ==
    ASSUME NEW f, NEW n
    PROVE  \A x : x \in Ways(f, n) <=> \E edge \in Edges(n) : \E c \in f[edge.to] :
                                          x = edge.weight + c
BY DEF Ways

\* Ways depend on the neighbours only.
LEMMA WaysAgree ==
    ASSUME NEW f, NEW g, NEW n, \A edge \in Edges(n) : f[edge.to] = g[edge.to]
    PROVE  Ways(f, n) = Ways(g, n) /\ OnFrom(f, n) = OnFrom(g, n)
<1>1. \A x : x \in Ways(f, n) <=> x \in Ways(g, n)
  BY WaysFacts
<1>2. Ways(f, n) = Ways(g, n)
  BY <1>1
<1> QED BY <1>2 DEF OnFrom

\* The cheapest way on costs a number, and is a way.
LEMMA OnFromType ==
    ASSUME ArgsInv, NEW f, NEW n \in Nodes, \A edge \in Edges(n) : f[edge.to] \subseteq Nat
    PROVE  /\ OnFrom(f, n) \subseteq Nat
           /\ n # EndNode => \A x \in OnFrom(f, n) : x \in Ways(f, n)
<1>1. Ways(f, n) \subseteq Nat
  <2>1. ASSUME NEW edge \in Edges(n), NEW c \in f[edge.to] PROVE edge.weight + c \in Nat
    <3>1. edge.weight \in Nat
      BY EdgeFacts
    <3> QED BY <3>1
  <2> QED BY <2>1, WaysFacts
<1>2. Ways(f, n) # {} => Min(Ways(f, n)) \in Ways(f, n)
  BY <1>1, MinOfNumbers
<1> QED BY <1>1, <1>2 DEF OnFrom

LeftBy(f) ==
    f = [n \in Nodes |->
           IF n = EndNode THEN {0}
           ELSE LET ways == UNION {{edge.weight + c : c \in f[edge.to]} : edge \in Edges(n)}
                IN  IF ways = {} THEN {} ELSE {Min(ways)}]

\* There is a cheapest way, or none, from each node.
LEMMA LeftExists == ASSUME ArgsInv PROVE \E f : LeftBy(f)
<1> DEFINE F == [Nodes -> SUBSET Nat]
           Near(f, k) == \A n \in Nodes : NumBlocks + 1 - Level(n) < k => f[n] = OnFrom(f, n)
           N == {k \in Nat : \E f \in F : Near(f, k)}
<1>1. \A n \in Nodes : Level(n) \in 0..(NumBlocks + 1)
  BY LevelFacts
<1>2. 0 \in N
  <2> DEFINE f == [n \in Nodes |-> {}]
  <2>1. f \in F
    OBVIOUS
  <2>2. Near(f, 0)
    BY <1>1, BlockFacts
  <2> QED BY <2>1, <2>2
<1>3. ASSUME NEW k \in Nat, k \in N PROVE k + 1 \in N
  <2>1. PICK f \in F : Near(f, k)
    BY <1>3
  <2> DEFINE g == [n \in Nodes |-> OnFrom(f, n)]
  <2>2. g \in F
    <3>1. ASSUME NEW n \in Nodes PROVE OnFrom(f, n) \in SUBSET Nat
      <4>1. \A edge \in Edges(n) : f[edge.to] \subseteq Nat
        BY EdgeFacts
      <4> QED BY <4>1, OnFromType
    <3> QED BY <3>1
  <2>3. ASSUME NEW n \in Nodes, NumBlocks + 1 - Level(n) < k + 1
        PROVE  g[n] = OnFrom(g, n)
    <3>1. ASSUME NEW edge \in Edges(n) PROVE f[edge.to] = g[edge.to]
      <4>1. edge.to \in Nodes /\ Level(n) \in Nat /\ Level(edge.to) = Level(n) + 1
        BY EdgeFacts
      <4>2. NumBlocks + 1 - Level(edge.to) < k
        BY <2>3, <4>1, BlockFacts
      <4> QED BY <2>1, <4>1, <4>2
    <3>2. OnFrom(f, n) = OnFrom(g, n)
      <4> HIDE DEF g
      <4> QED BY <3>1, WaysAgree
    <3> QED BY <3>2
  <2>4. Near(g, k + 1)
    <3> HIDE DEF g
    <3> QED BY <2>3
  <2> HIDE DEF g, Near
  <2> QED BY <2>2, <2>4
<1>4. NumBlocks + 2 \in N
  <2> HIDE DEF N
  <2>1. \A k \in Nat : k \in N
    BY <1>2, <1>3, NumberInduction
  <2> QED BY <2>1, BlockFacts
<1>5. PICK f \in F : Near(f, NumBlocks + 2)
  BY <1>4
<1>6. \A n \in Nodes : f[n] = OnFrom(f, n)
  BY <1>1, <1>5, BlockFacts
<1>7. f = [n \in Nodes |-> OnFrom(f, n)]
  BY <1>6
<1> QED BY <1>7 DEF LeftBy, OnFrom, Ways

\* CheapestFrom is made of the cheapest ways on from each node.
LEMMA CheapestFacts ==
    ASSUME ArgsInv
    PROVE  \E left : /\ CheapestFrom = left[StartNode]
                     /\ \A n \in Nodes : left[n] = OnFrom(left, n) /\ left[n] \subseteq Nat
<1> DEFINE left == CHOOSE f : LeftBy(f)
<1>1. LeftBy(left)
  BY LeftExists
<1>2. CheapestFrom = left[StartNode]
  BY DEF CheapestFrom, LeftBy
<1> HIDE DEF left
<1>3. \A n \in Nodes : left[n] = OnFrom(left, n)
  BY <1>1 DEF LeftBy, OnFrom, Ways
<1>4. \A n \in Nodes : left[n] \subseteq Nat
  <2> DEFINE T == {n \in Nodes : left[n] \subseteq Nat}
  <2>1. ASSUME NEW n \in Nodes, \A edge \in Edges(n) : edge.to \in T PROVE n \in T
    <3>1. OnFrom(left, n) \subseteq Nat
      BY <2>1, OnFromType
    <3> QED BY <1>3, <3>1
  <2> HIDE DEF T
  <2>2. \A n \in Nodes : n \in T
    BY <2>1, BackwardInduction
  <2> QED BY <2>2 DEF T
<1> QED BY <1>2, <1>3, <1>4

\* There is no way out of a cut.
LEMMA NoWayOut ==
    ASSUME ArgsInv, NEW nodes \in SUBSET Nodes, Cut(nodes)
    PROVE  CheapestFrom = {}
<1>1. PICK left : /\ CheapestFrom = left[StartNode]
                  /\ \A n \in Nodes : left[n] = OnFrom(left, n) /\ left[n] \subseteq Nat
  BY CheapestFacts
<1> DEFINE T == {n \in Nodes : n \in nodes => left[n] = {}}
<1>2. ASSUME NEW n \in Nodes, \A edge \in Edges(n) : edge.to \in T PROVE n \in T
  <2> SUFFICES ASSUME n \in nodes PROVE left[n] = {}
    OBVIOUS
  <2>1. n # EndNode /\ \A edge \in Edges(n) : left[edge.to] = {}
    BY <1>2 DEF Cut
  <2>2. Ways(left, n) = {}
    BY <2>1, WaysFacts
  <2> QED BY <1>1, <2>1, <2>2 DEF OnFrom
<1>3. StartNode \in nodes
  BY DEF Cut
<1> HIDE DEF T
<1>4. \A n \in Nodes : n \in T
  BY <1>2, BackwardInduction
<1> QED BY <1>1, <1>3, <1>4 DEF T

\* When the end is on top of the heap, its distance is less than a nanosecond
\* above that of the cheapest way through any node that was reached.
LEMMA EndIsNearlyCheapest ==
    ASSUME ArgsInv, SearchInv, ~overshot, EndNode \in DOMAIN dist,
           \A e \in heap : Top(e) => e.node = EndNode,
           NEW cheapest \in CheapestFrom
    PROVE  cheapest \in Nat /\ dist[EndNode] < cheapest + NS
<1>1. PICK left : /\ CheapestFrom = left[StartNode]
                  /\ \A n \in Nodes : left[n] = OnFrom(left, n) /\ left[n] \subseteq Nat
  BY CheapestFacts
<1>2. /\ DOMAIN dist \subseteq Nodes /\ StartNode \in DOMAIN dist /\ dist[StartNode] = 0
      /\ \A n \in DOMAIN dist : dist[n] \in Nat
      /\ \A e \in heap : /\ e.node \in DOMAIN dist /\ e.node \in Nodes /\ e.cost_ns \in Nat
                         /\ dist[e.node] < e.cost_ns * NS + NS
      /\ \A n \in DOMAIN dist : Awaited(n) \/ Relaxed(n)
  BY DEF SearchInv
<1>3. NS \in Nat \ {0} /\ dist[EndNode] \in Nat
  BY <1>2, ArgsFacts
<1> DEFINE T == {n \in Nodes : n \in DOMAIN dist =>
                    \A c \in left[n] : dist[EndNode] < dist[n] + c + NS}
<1>4. ASSUME NEW n \in Nodes, \A edge \in Edges(n) : edge.to \in T PROVE n \in T
  <2> SUFFICES ASSUME n \in DOMAIN dist, NEW c \in left[n]
               PROVE  dist[EndNode] < dist[n] + c + NS
    OBVIOUS
  <2>1. c \in Nat /\ dist[n] \in Nat
    BY <1>1, <1>2
  <2>2. CASE n = EndNode
    BY <1>3, <2>1, <2>2
  <2>3. CASE n # EndNode /\ Relaxed(n)
    <3>1. c \in Ways(left, n)
      <4>1. \A edge \in Edges(n) : left[edge.to] \subseteq Nat
        BY <1>1, EdgeFacts
      <4> QED BY <1>1, <2>3, <4>1, OnFromType
    <3>2. PICK edge \in Edges(n) : \E d \in left[edge.to] : c = edge.weight + d
      BY <3>1, WaysFacts
    <3>3. PICK d \in left[edge.to] : c = edge.weight + d
      BY <3>2
    <3>4. edge.to \in DOMAIN dist /\ dist[edge.to] <= dist[n] + edge.weight
      BY <2>3 DEF Relaxed
    <3>5. edge.weight \in Nat /\ edge.to \in Nodes
      BY EdgeFacts
    <3>6. d \in Nat /\ dist[edge.to] \in Nat
      BY <1>1, <1>2, <3>4, <3>5
    <3>7. dist[EndNode] < dist[edge.to] + d + NS
      BY <1>4, <3>4
    <3> QED BY <1>3, <2>1, <3>3, <3>4, <3>5, <3>6, <3>7
  <2>4. CASE Awaited(n)
    <3>1. PICK f \in heap : f.node = n /\ f.cost_ns * NS <= dist[n]
      BY <2>4 DEF Awaited
    <3>2. PICK e \in heap : Top(e) /\ \A g \in heap : e.cost_ns <= g.cost_ns
      BY <1>2, <3>1, TopExists
    <3>3. dist[EndNode] < e.cost_ns * NS + NS
      BY <1>2, <3>2
    <3>4. e.cost_ns \in Nat /\ f.cost_ns \in Nat /\ e.cost_ns <= f.cost_ns
      BY <1>2, <3>2
    <3>5. e.cost_ns * NS \in Nat /\ f.cost_ns * NS \in Nat /\ e.cost_ns * NS <= f.cost_ns * NS
      BY <1>3, <3>4, TimesMonotone
    <3> QED BY <1>3, <2>1, <3>1, <3>3, <3>5
  <2> QED BY <1>2, <2>2, <2>3, <2>4
<1> HIDE DEF T
<1>5. \A n \in Nodes : n \in T
  BY <1>4, BackwardInduction
<1>6. cheapest \in Nat /\ dist[EndNode] < dist[StartNode] + cheapest + NS
  BY <1>1, <1>2, <1>5 DEF T
<1> QED BY <1>2, <1>3, <1>6

-----------------------------------------------------------------------------
(* What the path costs *)

\* The weight of the i-th edge along the nodes, and the sums of the weights.
WeightOf(nodes, i) == (CHOOSE edge \in Edges(nodes[i]) : edge.to = nodes[i + 1]).weight
SummedBy(f, nodes, along) ==
    f = [u \in SUBSET (DOMAIN along) |->
           IF u = {} THEN 0 ELSE f[u \ {Max(u)}] + WeightOf(nodes, along[Max(u)])]

\* The sum of the weights is reached one edge after the other.
LEMMA SumsOfWeights ==
    ASSUME NEW n \in Nat, NEW nodes, Len(nodes) = n + 1,
           \A i \in 1..n : WeightOf(nodes, i) \in Nat
    PROVE  \E s : /\ s[0] = 0 /\ \A i \in 1..n : s[i] = s[i - 1] + WeightOf(nodes, i)
                  /\ CostAlong(nodes) = s[n]
<1> DEFINE along == [i \in 1..(Len(nodes) - 1) |-> i]
<1> DEFINE step == [i \in 1..n |-> [sum \in Nat |-> sum + WeightOf(nodes, i)]]
<1>1. DOMAIN along = 1..n /\ \A i \in 1..n : along[i] = i
  OBVIOUS
<1> HIDE DEF along
<1>2. step \in [1..n -> [Nat -> Nat]]
  <2>1. ASSUME NEW i \in 1..n, NEW sum \in Nat PROVE sum + WeightOf(nodes, i) \in Nat
    <3>1. WeightOf(nodes, i) \in Nat
      OBVIOUS
    <3> QED BY <3>1
  <2> QED BY <2>1
<1>3. PICK g \in [SUBSET (1..n) -> Nat] : FoldsIndices(g, n, 0, step)
  <2> HIDE DEF step
  <2> QED BY <1>2, SequenceFoldExists
<1>4. SummedBy(g, nodes, along)
  <2>1. ASSUME NEW u \in SUBSET (1..n), u # {}
        PROVE  g[u] = g[u \ {Max(u)}] + WeightOf(nodes, along[Max(u)])
    <3>1. Max(u) \in 1..n /\ u \ {Max(u)} \in SUBSET (1..n)
      BY <2>1, PrefixIndices
    <3>2. g[u \ {Max(u)}] \in Nat
      BY <3>1
    <3>3. g[u] = step[Max(u)][g[u \ {Max(u)}]]
      <4> HIDE DEF step
      <4> QED BY <1>3, <2>1 DEF FoldsIndices
    <3>4. step[Max(u)][g[u \ {Max(u)}]] = g[u \ {Max(u)}] + WeightOf(nodes, Max(u))
      BY <3>1, <3>2
    <3> QED BY <1>1, <3>1, <3>3, <3>4
  <2>2. g[{}] = 0
    <3> HIDE DEF step
    <3> QED BY <1>3 DEF FoldsIndices
  <2> HIDE DEF step
  <2> QED BY <1>1, <2>1, <2>2 DEF SummedBy
<1> DEFINE G == CHOOSE f : SummedBy(f, nodes, along)
<1>5. SummedBy(G, nodes, along)
  BY <1>4
<1>6. CostAlong(nodes) = G[1..n]
  <2>1. CostAlong(nodes) = G[DOMAIN along]
    BY DEF CostAlong, WeightOf, FoldLeft, MapThenFoldSet, SummedBy, along
  <2> HIDE DEF G
  <2> QED BY <1>1, <2>1
<1> HIDE DEF G, step
<1>7. G[{}] = 0
  BY <1>1, <1>5, {} \in SUBSET (1..n) DEF SummedBy
<1>8. ASSUME NEW i \in 1..n PROVE G[1..i] = G[1..(i - 1)] + WeightOf(nodes, i)
  <2>1. /\ 1..i \in SUBSET (1..n) /\ 1..i # {}
        /\ Max(1..i) = i /\ (1..i) \ {i} = 1..(i - 1)
    BY PrefixIndices
  <2>2. G[1..i] = G[(1..i) \ {Max(1..i)}] + WeightOf(nodes, along[Max(1..i)])
    BY <1>1, <1>5, <2>1 DEF SummedBy
  <2> QED BY <1>1, <2>1, <2>2
<1> DEFINE s == [i \in 0..n |-> G[1..i]]
<1>9. s[0] = 0
  BY <1>7, 1..0 = {}
<1>10. ASSUME NEW i \in 1..n PROVE s[i] = s[i - 1] + WeightOf(nodes, i)
  <2>1. i \in 0..n /\ i - 1 \in 0..n
    OBVIOUS
  <2> QED BY <1>8, <2>1
<1>11. s[n] = G[1..n]
  OBVIOUS
<1> HIDE DEF s
<1> QED BY <1>6, <1>9, <1>10, <1>11

\* Each edge of the path but the first may cost nearly a nanosecond more than
\* the distances say.
LEMMA LatencyFacts ==
    ASSUME ArgsInv, SearchInv, EndNode \in DOMAIN dist
    PROVE  Latency \in Nat /\ Latency <= dist[EndNode] + NumBlocks * NS
<1>1. PICK w : /\ PathTo(w, NumBlocks + 1) /\ w[1] = StartNode
               /\ Path = [i \in 1..NumBlocks |-> w[i + 1]]
  BY PathFacts
<1> DEFINE n == NumBlocks + 1
<1>2. n \in Nat /\ n >= 1 /\ NS \in Nat
  BY BlockFacts, ArgsFacts
<1>3. /\ w \in Seq(Nodes) /\ Len(w) = n + 1 /\ w[n + 1] = EndNode
      /\ \A i \in 1..(n + 1) : w[i] \in DOMAIN dist
      /\ \A i \in 1..n : w[i + 1] \in DOMAIN prev /\ w[i] = prev[w[i + 1]]
  BY <1>1 DEF PathTo
<1>4. /\ DOMAIN dist \subseteq Nodes /\ \A x \in DOMAIN dist : dist[x] \in Nat
      /\ dist[StartNode] = 0 /\ \A x \in DOMAIN prev : ReachedFrom(x)
  BY DEF SearchInv
<1>5. <<StartNode>> \o Path \o <<EndNode>> = w
  <2> DEFINE path == Path
  <2>1. path \in Seq(Nodes) /\ Len(path) = NumBlocks
        /\ \A i \in 1..NumBlocks : path[i] = w[i + 1]
    BY <1>1, <1>3, BlockFacts
  <2>2. StartNode \in Nodes /\ EndNode \in Nodes
    BY NodesAre
  <2> HIDE DEF path
  <2>3. <<StartNode>> \o path \in Seq(Nodes) /\ Len(<<StartNode>> \o path) = n
        /\ (<<StartNode>> \o path)[1] = StartNode
        /\ \A i \in 1..NumBlocks : (<<StartNode>> \o path)[i + 1] = path[i]
    BY <2>1, <2>2, PrependFacts
  <2> DEFINE front == <<StartNode>> \o path
  <2>4. \A i \in 1..n : front[i] = w[i]
    <3> SUFFICES ASSUME NEW i \in 1..n PROVE front[i] = w[i]
      OBVIOUS
    <3>1. CASE i = 1
      BY <1>1, <2>3, <3>1
    <3>2. CASE i # 1
      <4>1. i - 1 \in 1..NumBlocks /\ (i - 1) + 1 = i
        BY <3>2, BlockFacts
      <4> QED BY <2>1, <2>3, <4>1
    <3> QED BY <3>1, <3>2
  <2>5. front \in Seq(Nodes) /\ Len(front) = n
    BY <2>3
  <2> HIDE DEF front
  <2>6. front \o <<EndNode>> = w
    <3>1. /\ front \o <<EndNode>> \in Seq(Nodes) /\ Len(front \o <<EndNode>>) = n + 1
          /\ \A i \in 1..n : (front \o <<EndNode>>)[i] = front[i]
          /\ (front \o <<EndNode>>)[n + 1] = EndNode
      BY <1>2, <2>2, <2>5
    <3>2. \A i \in 1..(n + 1) : (front \o <<EndNode>>)[i] = w[i]
      BY <1>2, <1>3, <2>4, <3>1
    <3> QED BY <1>3, <3>1, <3>2
  <2> QED BY <2>6 DEF front, path
<1>6. ASSUME NEW i \in 1..n
      PROVE  /\ WeightOf(w, i) \in Nat
             /\ dist[w[i]] + WeightOf(w, i) < dist[w[i + 1]] + NS
             /\ i = 1 => WeightOf(w, i) <= dist[w[i + 1]]
  <2>1. ReachedFrom(w[i + 1]) /\ w[i] = prev[w[i + 1]]
    BY <1>3, <1>4
  <2>2. PICK m \in DOMAIN dist : \E edge \in Edges(m) :
            /\ m = prev[w[i + 1]] /\ edge.to = w[i + 1]
            /\ dist[m] + edge.weight < dist[w[i + 1]] + NS
            /\ m = StartNode => edge.weight <= dist[w[i + 1]]
    BY <2>1 DEF ReachedFrom
  <2>3. PICK edge \in Edges(m) :
            /\ m = prev[w[i + 1]] /\ edge.to = w[i + 1]
            /\ dist[m] + edge.weight < dist[w[i + 1]] + NS
            /\ m = StartNode => edge.weight <= dist[w[i + 1]]
    BY <2>2
  <2>4. m = w[i] /\ m \in Nodes
    BY <1>4, <2>1, <2>3
  <2> DEFINE other == CHOOSE x \in Edges(w[i]) : x.to = w[i + 1]
  <2>5. other \in Edges(m) /\ other.to = w[i + 1]
    BY <2>3, <2>4
  <2> HIDE DEF other
  <2>6. other.weight = edge.weight /\ edge.weight \in Nat
    BY <2>3, <2>4, <2>5, EdgeUnique, EdgeFacts
  <2>7. WeightOf(w, i) = edge.weight
    BY <2>6 DEF WeightOf, other
  <2> QED BY <1>1, <2>3, <2>4, <2>6, <2>7
<1>7. Latency = CostAlong(w)
  BY <1>5 DEF Latency
<1>8. PICK s : /\ s[0] = 0 /\ \A i \in 1..n : s[i] = s[i - 1] + WeightOf(w, i)
               /\ Latency = s[n]
  <2> HIDE DEF n
  <2>1. \A i \in 1..n : WeightOf(w, i) \in Nat
    BY <1>6
  <2>2. n \in Nat /\ Len(w) = n + 1
    BY <1>2, <1>3
  <2>3. \E s : /\ s[0] = 0 /\ \A i \in 1..n : s[i] = s[i - 1] + WeightOf(w, i)
               /\ CostAlong(w) = s[n]
    BY <2>1, <2>2, SumsOfWeights
  <2> QED BY <1>7, <2>3
<1> DEFINE T == {i \in Nat : i + 1 <= n =>
                    s[i + 1] \in Nat /\ s[i + 1] <= dist[w[(i + 1) + 1]] + i * NS}
<1>9. 0 \in T
  <2>1. 1 \in 1..n /\ s[1] = s[0] + WeightOf(w, 1)
    BY <1>2, <1>8
  <2>2. WeightOf(w, 1) \in Nat /\ WeightOf(w, 1) <= dist[w[1 + 1]]
    BY <1>6, <2>1
  <2>3. dist[w[1 + 1]] \in Nat
    BY <1>2, <1>3, <1>4, 1 + 1 \in 1..(n + 1)
  <2> HIDE DEF n
  <2> QED BY <1>2, <1>8, <2>1, <2>2, <2>3
<1>10. ASSUME NEW i \in Nat, i \in T PROVE i + 1 \in T
  <2> HIDE DEF n
  <2> SUFFICES ASSUME (i + 1) + 1 <= n
               PROVE  /\ s[(i + 1) + 1] \in Nat
                      /\ s[(i + 1) + 1] <= dist[w[((i + 1) + 1) + 1]] + (i + 1) * NS
    OBVIOUS
  <2> DEFINE j == (i + 1) + 1
  <2>1. j \in 1..n /\ j - 1 = i + 1 /\ j \in 1..(n + 1) /\ j + 1 \in 1..(n + 1)
    BY <1>2
  <2>2. s[i + 1] \in Nat /\ s[i + 1] <= dist[w[j]] + i * NS
    BY <1>2, <1>10, <2>1
  <2>3. s[j] = s[i + 1] + WeightOf(w, j)
    BY <1>8, <2>1
  <2>4. WeightOf(w, j) \in Nat /\ dist[w[j]] + WeightOf(w, j) < dist[w[j + 1]] + NS
    BY <1>6, <2>1
  <2>5. dist[w[j]] \in Nat /\ dist[w[j + 1]] \in Nat
    BY <1>3, <1>4, <2>1
  <2>6. i * NS \in Nat /\ (i + 1) * NS = i * NS + NS
    BY <1>2
  <2> DEFINE c == i * NS
             d == (i + 1) * NS
  <2>7. c \in Nat /\ d = c + NS
    BY <2>6
  <2>8. s[i + 1] <= dist[w[j]] + c
    BY <2>2
  <2> HIDE DEF c, d
  <2>9. s[j] \in Nat /\ s[j] <= dist[w[j + 1]] + d
    BY <1>2, <2>2, <2>3, <2>4, <2>5, <2>7, <2>8
  <2> QED BY <2>9 DEF d
<1>11. NumBlocks \in T
  <2> HIDE DEF T
  <2>1. \A i \in Nat : i \in T
    BY <1>9, <1>10, NumberInduction
  <2> QED BY <2>1, BlockFacts
<1>12. s[n] \in Nat /\ s[n] <= dist[w[n + 1]] + NumBlocks * NS
  BY <1>11, BlockFacts
<1> QED BY <1>3, <1>8, <1>12

-----------------------------------------------------------------------------
(* Where a server that joins is put *)

\* The throughput of a block is a number, and it is positive when some server
\* that is at least Joining adds to it.
LEMMA ThroughputFacts ==
    ASSUME NEW infos, IsModuleInfos(infos), NEW b \in Blocks
    PROVE  /\ compute_throughputs(infos, Joining)[b] \in Nat
           /\ compute_throughputs(infos, Joining)[b] > 0 <=>
                \E p \in DOMAIN infos[b] :
                    infos[b][p].state >= Joining /\ infos[b][p].throughput > 0
<1> DEFINE f == [p \in DOMAIN infos[b] |-> infos[b][p].throughput]
           S == {p \in DOMAIN infos[b] : infos[b][p].state >= Joining}
<1>1. compute_throughputs(infos, Joining)[b] = Total(f, S)
  BY DEF compute_throughputs
<1>2. IsFiniteSet(S)
  <2>1. S \subseteq Peers
    BY DEF IsModuleInfos
  <2> QED BY <2>1, BlockFacts, FS_Subset
<1>3. Numbers(f, S)
  BY DEF Numbers, IsModuleInfos, ServerInfo
<1>4. (\E p \in S : f[p] > 0) <=>
        \E p \in DOMAIN infos[b] : infos[b][p].state >= Joining /\ infos[b][p].throughput > 0
  OBVIOUS
<1> HIDE DEF f, S
<1>5. Total(f, S) \in Nat /\ (Total(f, S) > 0 <=> \E p \in S : f[p] > 0)
  BY <1>2, <1>3, TotalType, TotalPositive
<1> QED BY <1>1, <1>4, <1>5

\* The first of the blocks with the least throughput.
LEMMA FirstWeakest ==
    ASSUME NEW infos, IsModuleInfos(infos), NEW th, th = compute_throughputs(infos, Joining),
           NEW f, f = Min(Weakest(infos))
    PROVE  /\ f \in Blocks /\ \A b \in Blocks : th[b] \in Nat /\ th[f] <= th[b]
           /\ \A b \in Blocks : b < f => th[f] < th[b]
<1>1. \A b \in Blocks : th[b] \in Nat
  BY ThroughputFacts
<1> DEFINE values == {th[b] : b \in Blocks}
<1>2. 0 \in Blocks
  BY BlockFacts DEF Blocks
<1>3. values \subseteq Nat /\ values # {}
  BY <1>1, <1>2
<1>4. PICK n \in values : \A m \in values : n <= m
  <2> HIDE DEF values
  <2> QED BY <1>3, LeastNumber
<1>5. PICK b \in Blocks : th[b] = n
  BY <1>4
<1> DEFINE weak == {x \in Blocks : \A y \in Blocks : th[x] <= th[y]}
<1>6. Weakest(infos) = weak
  BY DEF Weakest
<1>7. b \in weak /\ weak \subseteq Nat
  BY <1>4, <1>5, BlockFacts
<1>8. f \in weak /\ \A x \in weak : f <= x
  <2> HIDE DEF weak
  <2> QED BY <1>6, <1>7, MinOfNumbers
<1>9. ASSUME NEW x \in Blocks, x < f PROVE th[f] < th[x]
  <2>1. x \notin weak
    BY <1>8, <1>9, BlockFacts
  <2>2. PICK y \in Blocks : ~(th[x] <= th[y])
    BY <2>1
  <2>3. th[f] <= th[y]
    BY <1>8
  <2> QED BY <1>1, <1>8, <2>2, <2>3
<1> QED BY <1>1, <1>8, <1>9

\* The least throughput in the window of num_blocks that starts at a block.
LeastIn(th, num_blocks, start) == Min({th[b] : b \in start..(start + num_blocks - 1)})

\* It is a throughput in the window, and none there is less.
LEMMA LeastInWindow ==
    ASSUME NEW n \in 1..NumBlocks, NEW s \in WindowStarts(n), NEW th,
           \A b \in Blocks : th[b] \in Nat
    PROVE  /\ s \in Nat /\ s..(s + n - 1) \subseteq Blocks /\ LeastIn(th, n, s) \in Nat
           /\ \E b \in s..(s + n - 1) : LeastIn(th, n, s) = th[b]
           /\ \A b \in s..(s + n - 1) : LeastIn(th, n, s) <= th[b]
<1> DEFINE values == {th[b] : b \in s..(s + n - 1)}
<1>1. s \in Nat /\ n \in Nat /\ n >= 1 /\ s + n <= NumBlocks
  BY BlockFacts DEF WindowStarts
<1>2. s..(s + n - 1) \subseteq Blocks /\ s \in s..(s + n - 1)
  BY <1>1, BlockFacts DEF Blocks
<1>3. values \subseteq Nat /\ values # {}
  BY <1>2
<1>4. Min(values) \in values /\ \A v \in values : Min(values) <= v
  <2> HIDE DEF values
  <2> QED BY <1>3, MinOfNumbers
<1> QED BY <1>1, <1>2, <1>3, <1>4 DEF LeastIn

\* The window chosen is the first one that the first weakest block is in.
LEMMA WindowChosen ==
    ASSUME NEW infos, IsModuleInfos(infos), NEW n \in 1..NumBlocks
    PROVE  \E w \in WindowStarts(n) :
              /\ choose_best_blocks(n, infos) = w..(w + n - 1)
              /\ Min(Weakest(infos)) \in w..(w + n - 1)
              /\ w > 0 => Min(Weakest(infos)) = w + n - 1
<1> DEFINE th == compute_throughputs(infos, Joining)
           f  == Min(Weakest(infos))
           Best(t) == /\ \A s \in WindowStarts(n) : LeastIn(th, n, t) <= LeastIn(th, n, s)
                      /\ \A s \in 0..(t - 1) : LeastIn(th, n, t) < LeastIn(th, n, s)
           best == CHOOSE t \in WindowStarts(n) : Best(t)
<1>1. n \in Nat /\ n >= 1 /\ n <= NumBlocks /\ NumBlocks \in Nat
  BY BlockFacts
<1>2. choose_best_blocks(n, infos) = best..(best + n - 1)
  BY <1>1 DEF choose_best_blocks, LeastIn
<1>3. /\ f \in Blocks /\ \A b \in Blocks : th[b] \in Nat /\ th[f] <= th[b]
      /\ \A b \in Blocks : b < f => th[f] < th[b]
  <2> HIDE DEF th, f
  <2>1. th = compute_throughputs(infos, Joining) /\ f = Min(Weakest(infos))
    BY DEF th, f
  <2> QED BY <2>1, FirstWeakest
<1> HIDE DEF th, f
<1>4. PICK w \in Nat : w <= f /\ f < w + n /\ w + n <= NumBlocks /\ (w > 0 => f = w + n - 1)
  <2>1. f \in Nat /\ f < NumBlocks
    BY <1>3, BlockFacts DEF Blocks
  <2>2. CASE f < n
    <3> WITNESS 0 \in Nat
    <3> QED BY <1>1, <2>1, <2>2
  <2>3. CASE ~(f < n)
    <3>1. f - n + 1 \in Nat
      BY <1>1, <2>1, <2>3
    <3> WITNESS f - n + 1 \in Nat
    <3> QED BY <1>1, <2>1, <2>3
  <2> QED BY <2>2, <2>3
<1>5. w \in WindowStarts(n) /\ f \in w..(w + n - 1)
  BY <1>1, <1>3, <1>4, BlockFacts DEF WindowStarts
<1>6. \A s \in WindowStarts(n) :
        /\ s \in Nat /\ LeastIn(th, n, s) \in Nat /\ th[f] <= LeastIn(th, n, s)
        /\ s < w => th[f] < LeastIn(th, n, s)
  <2> TAKE s \in WindowStarts(n)
  <2>1. /\ s \in Nat /\ s..(s + n - 1) \subseteq Blocks /\ LeastIn(th, n, s) \in Nat
        /\ \E b \in s..(s + n - 1) : LeastIn(th, n, s) = th[b]
    BY <1>3, LeastInWindow
  <2>2. PICK b \in s..(s + n - 1) : LeastIn(th, n, s) = th[b]
    BY <2>1
  <2>3. s < w => b < f
    BY <1>1, <1>4, <2>1
  <2> QED BY <1>3, <2>1, <2>2, <2>3
<1>7. th[f] \in Nat /\ LeastIn(th, n, w) = th[f]
  <2>1. LeastIn(th, n, w) <= th[f] /\ LeastIn(th, n, w) \in Nat
    BY <1>3, <1>5, LeastInWindow
  <2>2. th[f] <= LeastIn(th, n, w) /\ th[f] \in Nat
    BY <1>3, <1>5, <1>6
  <2> QED BY <2>1, <2>2
<1>8. Best(w)
  <2>1. 0..(w - 1) \subseteq WindowStarts(n)
    BY <1>1, <1>4 DEF WindowStarts
  <2> QED BY <1>4, <1>6, <1>7, <2>1
<1>9. ASSUME NEW t \in WindowStarts(n), Best(t) PROVE t = w
  <2>1. t \in Nat /\ LeastIn(th, n, t) \in Nat /\ LeastIn(th, n, t) <= th[f]
    BY <1>5, <1>6, <1>7, <1>9
  <2>2. ~(t < w)
    BY <1>6, <1>7, <2>1
  <2>3. ASSUME w < t PROVE FALSE
    <3>1. w \in 0..(t - 1)
      BY <1>4, <2>1, <2>3
    <3>2. LeastIn(th, n, t) < th[f]
      BY <1>7, <1>9, <3>1
    <3> QED BY <1>6, <1>7, <2>1, <3>2
  <2> QED BY <1>4, <2>1, <2>2, <2>3
<1> HIDE DEF Best
<1>10. best = w
  BY <1>5, <1>8, <1>9
<1> QED BY <1>2, <1>4, <1>5, <1>10 DEF f

\* An interval of numbers is as many as its ends say, and they are its ends.
LEMMA IntervalFacts ==
    ASSUME NEW i \in Int, NEW j \in Int, i <= j
    PROVE  Cardinality(i..j) = j - i + 1 /\ Min(i..j) = i /\ Max(i..j) = j
<1>1. Cardinality(i..j) = j - i + 1
  BY FS_Interval
<1>2. i..j \subseteq Int /\ i \in i..j /\ j \in i..j
      /\ (\A n \in i..j : i <= n) /\ (\A n \in i..j : j >= n)
  OBVIOUS
<1> DEFINE S == i..j
<1>3. S \subseteq Int /\ i \in S /\ j \in S /\ (\A n \in S : i <= n) /\ (\A n \in S : j >= n)
  BY <1>2
<1>4. Min(S) = i /\ Max(S) = j
  <2> HIDE DEF S
  <2> QED BY <1>3, ExtremeIs
<1> QED BY <1>1, <1>4

\* The lesser of two numbers.
LEMMA LesserIs ==
    ASSUME NEW i \in Nat, NEW j \in Nat
    PROVE  (i <= j => Min({i, j}) = i) /\ (j <= i => Min({i, j}) = j)
<1> DEFINE S == {i, j}
<1>1. S \subseteq Int /\ i \in S /\ j \in S
      /\ (i <= j => \A n \in S : i <= n) /\ (j <= i => \A n \in S : j <= n)
  OBVIOUS
<1>2. (i <= j => Min(S) = i) /\ (j <= i => Min(S) = j)
  <2> HIDE DEF S
  <2> QED BY <1>1, ExtremeIs
<1> QED BY <1>2

\* A server that joins takes the block that needs it most.
LEMMA ServesWeakest ==
    ASSUME NEW infos, IsModuleInfos(infos)
    PROVE  ChoiceServesWeakest(infos)
<1> DEFINE f == Min(Weakest(infos))
<1>1. f \in Blocks
  BY FirstWeakest
<1> SUFFICES ASSUME NEW n \in 1..(NumBlocks + 1)
             PROVE  LET chosen == choose_best_blocks(n, infos)
                    IN  /\ Cardinality(chosen) = Min({n, NumBlocks})
                        /\ chosen = Min(chosen)..Max(chosen)
                        /\ f \in chosen
                        /\ Min(chosen) > 0 => Max(chosen) = f
  BY DEF ChoiceServesWeakest
<1> HIDE DEF f
<1> DEFINE chosen == choose_best_blocks(n, infos)
<1>2. n \in Nat /\ NumBlocks \in Nat /\ NumBlocks >= 1 /\ n >= 1
  BY BlockFacts
<1>3. CASE n <= NumBlocks
  <2>1. PICK w \in WindowStarts(n) :
            chosen = w..(w + n - 1) /\ f \in w..(w + n - 1) /\ (w > 0 => f = w + n - 1)
    BY <1>2, <1>3, WindowChosen DEF f
  <2>2. w \in Int
    BY DEF WindowStarts
  <2>3. Cardinality(chosen) = n /\ Min(chosen) = w /\ Max(chosen) = w + n - 1
    <3> DEFINE j == w + n - 1
    <3>1. j \in Int /\ w <= j /\ j - w + 1 = n /\ chosen = w..j
      BY <1>2, <2>1, <2>2
    <3> HIDE DEF j, chosen
    <3>2. Cardinality(chosen) = n /\ Min(chosen) = w /\ Max(chosen) = j
      BY <2>2, <3>1, IntervalFacts
    <3> QED BY <3>2 DEF j
  <2>4. Min({n, NumBlocks}) = n
    BY <1>2, <1>3, LesserIs
  <2> HIDE DEF chosen
  <2> QED BY <2>1, <2>3, <2>4 DEF chosen
<1>4. CASE ~(n <= NumBlocks)
  <2>1. chosen = 0..(NumBlocks - 1)
    BY <1>2, <1>4 DEF choose_best_blocks, Blocks
  <2>2. Cardinality(chosen) = NumBlocks /\ Min(chosen) = 0 /\ Max(chosen) = NumBlocks - 1
    <3> DEFINE j == NumBlocks - 1
    <3>1. j \in Int /\ 0 <= j /\ j - 0 + 1 = NumBlocks /\ chosen = 0..j
      BY <1>2, <2>1
    <3> HIDE DEF j, chosen
    <3>2. Cardinality(chosen) = NumBlocks /\ Min(chosen) = 0 /\ Max(chosen) = j
      BY <3>1, IntervalFacts
    <3> QED BY <3>2 DEF j
  <2>3. Min({n, NumBlocks}) = NumBlocks
    BY <1>2, <1>4, LesserIs
  <2> HIDE DEF chosen
  <2> QED BY <1>1, <2>1, <2>2, <2>3 DEF chosen, Blocks
<1> QED BY <1>3, <1>4

\* The advice to move compares the least throughput with itself.
LEMMA AdviceIsBlind ==
    ASSUME NEW infos, IsModuleInfos(infos)
    PROVE  AdviceIgnoresBalance(infos)
<1> SUFFICES ASSUME NEW quality \in 1..(2 * Quarters)
             PROVE  should_choose_other_blocks(infos, quality) <=>
                       /\ quality < Quarters
                       /\ \A b \in Blocks : \E p \in DOMAIN infos[b] :
                            infos[b][p].state >= Joining /\ infos[b][p].throughput > 0
  BY DEF AdviceIgnoresBalance
<1> DEFINE th == compute_throughputs(infos, Joining)
           least == Min(Range(th))
           Served(b) == \E p \in DOMAIN infos[b] :
                            infos[b][p].state >= Joining /\ infos[b][p].throughput > 0
<1>1. should_choose_other_blocks(infos, quality) <=>
        least > 0 /\ least * quality < least * Quarters
  BY DEF should_choose_other_blocks, NeededMin
<1>2. \A b \in Blocks : th[b] \in Nat /\ (th[b] > 0 <=> Served(b))
  BY ThroughputFacts
<1>3. Range(th) = {th[b] : b \in Blocks}
  BY DEF Range, compute_throughputs
<1> HIDE DEF Served, th
<1>4. 0 \in Blocks
  BY BlockFacts DEF Blocks
<1>5. Range(th) \subseteq Nat /\ Range(th) # {}
  BY <1>2, <1>3, <1>4
<1>6. least \in Range(th) /\ \A v \in Range(th) : least <= v
  BY <1>5, MinOfNumbers
<1> HIDE DEF least
<1>7. least \in Nat /\ (least > 0 <=> \A b \in Blocks : Served(b))
  <2>1. PICK b \in Blocks : least = th[b]
    BY <1>3, <1>6
  <2>2. \A x \in Blocks : least <= th[x]
    BY <1>3, <1>6
  <2> QED BY <1>2, <2>1, <2>2
<1>8. ASSUME least > 0 PROVE least * quality < least * Quarters <=> quality < Quarters
  <2>1. quality \in 1..8 /\ Quarters = 4
    BY DEF Quarters
  <2>2. CASE quality < 4
    <3>1. quality \in {1, 2, 3}
      BY <2>1, <2>2
    <3> QED BY <1>7, <1>8, <2>1, <3>1
  <2>3. CASE ~(quality < 4)
    <3>1. quality \in {4, 5, 6, 7, 8}
      BY <2>1, <2>3
    <3> QED BY <1>7, <1>8, <2>1, <3>1
  <2> QED BY <2>2, <2>3
<1> QED BY <1>1, <1>7, <1>8 DEF Served

-----------------------------------------------------------------------------
(* Theorems *)

\* The invariant holds of the reachable states.
THEOREM Invariance == Spec => []ChainInv
<1>1. Init => ChainInv
  BY InitSearch, InitPhase DEF ChainInv
<1>2. ChainInv /\ [Next]_vars => ChainInv'
  <2> SUFFICES ASSUME ChainInv, [Next]_vars PROVE ChainInv'
    OBVIOUS
  <2>1. ArgsInv' /\ SearchInv'
    BY NextSearch DEF ChainInv
  <2> QED BY <2>1, NextPhase DEF ChainInv
<1> QED BY <1>1, <1>2, PTL DEF Spec

\* The variables have their types.
THEOREM TypeCorrect == Spec => []TypeOK
<1>1. ChainInv => TypeOK
  <2> SUFFICES ASSUME ChainInv PROVE TypeOK
    OBVIOUS
  <2>1. spans \in Seq([peer : Peers, state : 0..2, start : Nat, end : 0..NumBlocks])
    BY ArgsFacts DEF ChainInv, Span
  <2> QED BY <2>1 DEF ChainInv, ArgsInv, SearchInv, PhaseInv, TypeOK
<1> QED BY <1>1, Invariance, PTL

\* Whatever the records say, and in whatever order the states of a server come
\* in them, its span is where they list it in its best state, and a claim cuts
\* it only (compute_spans).
THEOREM SpansFollowRecords == Spec => []SpansAreRight
<1>1. ChainInv => SpansAreRight
  BY ArgsFacts, SpansRight DEF ChainInv, SpansAreRight
<1> QED BY <1>1, Invariance, PTL

\* A chain runs through all the blocks asked for, whether the greedy choice or
\* the search found it, on servers that have the blocks it gives them.
THEOREM ChainsAreWhole == Spec => []ChainIsWhole
<1>1. ChainInv => ChainIsWhole
  <2> SUFFICES ASSUME ChainInv, pc = "done", result # None
               PROVE  /\ result[1].start = start_index /\ Last(result).end = NumBlocks
                      /\ \A i \in DOMAIN result :
                           /\ result[i].start < result[i].end
                           /\ SpanAt(result[i].peer).start <= result[i].start
                           /\ result[i].end <= SpanAt(result[i].peer).end
                      /\ \A i \in 1..(Len(result) - 1) :
                           result[i].end = result[i + 1].start
                             /\ result[i].peer # result[i + 1].peer
    BY DEF ChainIsWhole
  <2>1. Whole(result, start_index, NumBlocks)
    BY DEF ChainInv, DoneInv
  <2>2. Last(result) = result[Len(result)] /\ DOMAIN result = 1..Len(result)
    BY <2>1 DEF Last, Whole
  <2> QED BY <2>1, <2>2 DEF Whole
<1> QED BY <1>1, Invariance, PTL

\* A chain that the search returns is slower than the fastest one by less than
\* a nanosecond for each node on its way, unless a cost was rounded up.
THEOREM ChainsAreNearlyCheapest == Spec => []ChainIsNearlyCheapest
<1>1. ChainInv => ChainIsNearlyCheapest
  <2> SUFFICES ASSUME ChainInv, pc = "done", EndNode \in DOMAIN dist, ~overshot,
                      NEW cheapest \in CheapestFrom
               PROVE  Latency < cheapest + (NumBlocks + 1) * NS
    BY DEF ChainIsNearlyCheapest
  <2>1. ArgsInv /\ SearchInv /\ \A e \in heap : Top(e) => e.node = EndNode
    BY DEF ChainInv, DoneInv
  <2>2. cheapest \in Nat /\ dist[EndNode] < cheapest + NS
    BY <2>1, EndIsNearlyCheapest
  <2>3. Latency \in Nat /\ Latency <= dist[EndNode] + NumBlocks * NS
    BY <2>1, LatencyFacts
  <2>4. dist[EndNode] \in Nat /\ NS \in Nat /\ NumBlocks \in Nat
    BY <2>1, ArgsFacts, BlockFacts DEF SearchInv
  <2> DEFINE c == NumBlocks * NS
             d == (NumBlocks + 1) * NS
  <2>5. c \in Nat /\ d = c + NS /\ Latency <= dist[EndNode] + c
    BY <2>3, <2>4
  <2> HIDE DEF c, d
  <2>6. Latency < cheapest + d
    BY <2>2, <2>3, <2>4, <2>5
  <2> QED BY <2>6 DEF d
<1> QED BY <1>1, Invariance, PTL

\* When the search finds no chain there is none, unless a cost was rounded up.
THEOREM NoneIsRight == Spec => []NoneMeansNoChain
<1>1. ChainInv => NoneMeansNoChain
  <2> SUFFICES ASSUME ChainInv, pc = "done", result = None, ~overshot
               PROVE  CheapestFrom = {}
    BY DEF NoneMeansNoChain
  <2>1. ArgsInv /\ \E nodes \in SUBSET Nodes : Cut(nodes)
    BY DEF ChainInv, DoneInv
  <2> QED BY <2>1, NoWayOut
<1> QED BY <1>1, Invariance, PTL

\* On the records that chains are made from, a server that joins is given the
\* blocks around the first one that needs it most, however many it asks for;
\* the advice to move depends on the quality asked for only.
THEOREM ChoicesServeTheWeakest == Spec => []BlockChoices
<1>1. ChainInv => BlockChoices
  BY ArgsFacts, ServesWeakest, AdviceIsBlind DEF ChainInv, BlockChoices
<1> QED BY <1>1, Invariance, PTL
=============================================================================
