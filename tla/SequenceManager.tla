-------------------------- MODULE SequenceManager --------------------------
(***************************************************************************)
(* How the sequence manager turns spans into a chain: the greedy choice of *)
(* make_sequence_max_throughput, and dijkstra_min_latency, whose distances *)
(* are floating-point seconds while the costs on its heap are truncated to *)
(* nanoseconds.  A distance is a number of sub-units, NS to a nanosecond.  *)
(***************************************************************************)
EXTENDS Spans

CONSTANTS
    NS,          \* sub-units in a nanosecond
    Inputs,      \* the records of the blocks: module_infos
    Networks,    \* [half_rtt, step, hop]: the measured delays
    Overhead     \* overhead_delay

ASSUME SequenceManagerAssumption ==
    /\ NS \in Nat \ {0} /\ Overhead \in Nat
    /\ \A infos \in Inputs : IsModuleInfos(infos)
    /\ \A n \in Networks : /\ n.half_rtt \in [Peers -> Nat] /\ n.step \in [Peers -> Nat]
                          /\ n.hop \in [Peers \X Peers -> Nat]

VARIABLES
    module_infos, net,          \* the arguments
    spans,                      \* spans_by_priority(module_infos)
    dist, prev,                 \* of the nodes reached so far
    heap,                       \* [cost_ns, node] records; equal ones count once
    start_index, current_index, \* of the greedy choice
    pc, result,
    overshot                    \* history: some cost was rounded above its distance

args   == <<module_infos, net, spans, start_index>>
search == <<dist, prev, heap, overshot>>
vars   == <<args, search, current_index, pc, result>>

None == <<>>     \* every chain found is non-empty

-----------------------------------------------------------------------------
(* The graph *)

Node(p, b) == [at |-> "server", peer |-> p, block |-> b]
StartNode  == [at |-> "start"]
EndNode    == [at |-> "end"]

PeersOf(ss) == {ss[i].peer : i \in DOMAIN ss}
SpanAt(p) == spans[CHOOSE i \in DOMAIN spans : spans[i].peer = p]

\* The start, the end, and each server at each block that its span contains.
Nodes == {StartNode, EndNode}
           \cup UNION {{Node(p, b) : p \in PeersOf(Containing(spans, b))} : b \in Blocks}

\* From the last block of a server's span to the servers of the next block.
Hops(n) ==
    IF n.at = "server" /\ n.block + 1 = SpanAt(n.peer).end /\ n.block + 1 < NumBlocks
    THEN {[to |-> Node(q, n.block + 1), weight |-> net.hop[<<n.peer, q>>] + Overhead] :
             q \in PeersOf(Containing(spans, n.block + 1))}
    ELSE {}

\* adj[n]
Edges(n) ==
    (IF n.at = "start"
     THEN {[to |-> Node(p, 0), weight |-> net.half_rtt[p] + Overhead] :
              p \in PeersOf(Containing(spans, 0))}
     ELSE {})
    \cup (IF n.at = "server" /\ n.block + 1 < SpanAt(n.peer).end
          THEN {[to |-> Node(n.peer, n.block + 1), weight |-> net.step[n.peer]]} ELSE {})
    \cup (IF n.at = "server" /\ n.block = NumBlocks - 1
          THEN {[to |-> EndNode, weight |-> net.half_rtt[n.peer]]} ELSE {})
    \cup Hops(n)

\* The order of the nodes' numbers, which settles ties on the heap.
NodeNumber(n) ==
    CASE n.at = "start"  -> 0
      [] n.at = "end"    -> 1
      [] n.at = "server" -> 2 + n.block * Cardinality(Peers)
                              + SelectInSeq(spans, LAMBDA s : s.peer = n.peer)

\* cost_to_nanos truncates, but the product in f64 may round a distance just
\* below a whole number of nanoseconds up to it.
Nanos(distance) ==
    {distance \div NS} \cup
        (IF (distance + 1) % NS = 0 THEN {(distance + 1) \div NS} ELSE {})

-----------------------------------------------------------------------------
Init ==
    /\ module_infos \in Inputs
    /\ net \in Networks
    /\ spans \in spans_by_priority(module_infos)
    /\ start_index \in Blocks /\ current_index = start_index
    /\ dist = [n \in {StartNode} |-> 0] /\ prev = <<>>
    /\ heap = {[cost_ns |-> 0, node |-> StartNode]}
    /\ pc \in IF start_index = 0 THEN {"greedy", "ready"} ELSE {"greedy"}
    /\ result = None
    /\ overshot = FALSE

Finish(chain) == pc' = "done" /\ result' = chain

-----------------------------------------------------------------------------
(* make_sequence_max_throughput(spans, NumBlocks, start_index, NumBlocks) *)

\* Mutant: an uncovered block is waited for.
GreedyWaits ==
    LET here == Containing(spans, current_index)
    IN  /\ pc = "greedy"
        /\ IF current_index = NumBlocks
           THEN pc' = "done" /\ UNCHANGED <<result, current_index>>
           ELSE /\ here # <<>>
                /\ current_index' = Min({here[1].end, NumBlocks})
                /\ result' = Append(result, [peer |-> here[1].peer, start |-> current_index,
                                             end |-> current_index'])
                /\ UNCHANGED pc
        /\ UNCHANGED <<args, search>>

GreedyStep ==
    LET here == Containing(spans, current_index)
    IN  /\ pc = "greedy"
        /\ IF current_index = NumBlocks
           THEN pc' = "done" /\ UNCHANGED <<result, current_index>>
           ELSE IF here = <<>>
           THEN Finish(None) /\ UNCHANGED current_index
           ELSE /\ current_index' = Min({here[1].end, NumBlocks})
                /\ result' = Append(result, [peer |-> here[1].peer, start |-> current_index,
                                             end |-> current_index'])
                /\ UNCHANGED pc
        /\ UNCHANGED <<args, search>>

-----------------------------------------------------------------------------
(* dijkstra_min_latency(spans, NumBlocks, ..) *)

\* Without a server at the first or at the last block there is no search.
Begin ==
    /\ pc = "ready"
    /\ IF \E b \in {0, NumBlocks - 1} : Containing(spans, b) = <<>>
       THEN Finish(None)
       ELSE pc' = "searching" /\ UNCHANGED result
    /\ UNCHANGED <<args, search, current_index>>

\* The walk back along prev from the end, and the runs of blocks on the same
\* server that it is made of.
Path ==
    LET back[k \in 0..(NumBlocks + 2)] ==
            IF k = 0 THEN <<EndNode>>
            ELSE IF Head(back[k - 1]) \in DOMAIN prev
            THEN <<prev[Head(back[k - 1])]>> \o back[k - 1] ELSE back[k - 1]
    IN  Front(Tail(back[NumBlocks + 2]))
AddNode(chain, n) ==
    IF chain = <<>> \/ Last(chain).peer # n.peer
    THEN Append(chain, [peer |-> n.peer, start |-> n.block, end |-> n.block + 1])
    ELSE [chain EXCEPT ![Len(chain)].end = n.block + 1]

\* Mutant: the most expensive entry comes first.
TopFirst(e) == \A f \in heap : f.cost_ns <= e.cost_ns

\* The entry BinaryHeap::pop returns.
Top(e) ==
    \A f \in heap : \/ e.cost_ns < f.cost_ns
                    \/ e.cost_ns = f.cost_ns /\ NodeNumber(e.node) >= NodeNumber(f.node)

\* The edges that improve a neighbour, by the truncated cost that was popped.
Better(e) ==
    {edge \in Edges(e.node) : edge.to \notin DOMAIN dist
                                \/ e.cost_ns * NS + edge.weight < dist[edge.to]}

\* Mutant: an entry as good as the distance is taken for an outdated one.
StaleWhenEqual(e) == e.cost_ns * NS >= dist[e.node]

\* cost > dist[node]: taken for an entry that a better one has replaced.
Stale(e) == e.cost_ns * NS > dist[e.node]

\* The end is on top, or the heap is empty: take the path if there is one.
Arrive ==
    /\ pc = "searching"
    /\ \A e \in heap : Top(e) => e.node = EndNode
    /\ Finish(IF EndNode \in DOMAIN dist THEN FoldLeft(AddNode, None, Path) ELSE None)
    /\ UNCHANGED <<args, search, current_index>>

Skip ==
    \E e \in heap :
        /\ pc = "searching" /\ Top(e) /\ e.node # EndNode
        /\ Stale(e)
        /\ heap' = heap \ {e}
        /\ UNCHANGED <<args, dist, prev, overshot, current_index, pc, result>>

Relax ==
    \E e \in heap :
        LET found   == {edge.to : edge \in Better(e)}
            Cost(n) == e.cost_ns * NS + (CHOOSE edge \in Better(e) : edge.to = n).weight
        IN  /\ pc = "searching" /\ Top(e) /\ e.node # EndNode
            /\ ~Stale(e)
            /\ dist' = [n \in DOMAIN dist \cup found |-> IF n \in found THEN Cost(n) ELSE dist[n]]
            /\ prev' = [n \in DOMAIN prev \cup found |-> IF n \in found THEN e.node ELSE prev[n]]
            /\ \E nanos \in [found -> UNION {Nanos(Cost(n)) : n \in found}] :
                 /\ \A n \in found : nanos[n] \in Nanos(Cost(n))
                 /\ heap' = (heap \ {e}) \cup {[cost_ns |-> nanos[n], node |-> n] : n \in found}
                 /\ overshot' = (overshot \/ \E n \in found : nanos[n] * NS > Cost(n))
            /\ UNCHANGED <<args, current_index, pc, result>>

-----------------------------------------------------------------------------
Next == GreedyStep \/ Begin \/ Arrive \/ Skip \/ Relax
Spec == Init /\ [][Next]_vars /\ WF_vars(Next)

-----------------------------------------------------------------------------
(* Properties *)

Hop  == [peer : Peers, start : 0..NumBlocks, end : 0..NumBlocks]

TypeOK ==
    /\ spans \in Seq([peer : Peers, state : 0..2, start : Nat, end : 0..NumBlocks])
    /\ DOMAIN dist \subseteq Nodes /\ DOMAIN prev = DOMAIN dist \ {StartNode}
    /\ \A e \in heap : e.node \in DOMAIN dist /\ e.cost_ns \in Nat
    /\ start_index \in Blocks /\ current_index \in 0..NumBlocks
    /\ pc \in {"greedy", "ready", "searching", "done"}
    /\ result \in Seq(Hop)
    /\ overshot \in BOOLEAN

\* See Spans: a server's span is where its records list it in its best state,
\* in whatever order its states come, and a claim only ever cuts it.
SpansAreRight == SpansAreBestState(module_infos) /\ ClaimsOnlyCut(module_infos)

\* A chain that is returned runs through the blocks asked for without a gap
\* or an overlap, on servers whose spans hold the blocks given to them, and
\* never from a server to itself.
ChainIsWhole ==
    pc = "done" /\ result # None =>
        /\ result[1].start = start_index /\ Last(result).end = NumBlocks
        /\ \A i \in DOMAIN result :
             /\ result[i].start < result[i].end
             /\ SpanAt(result[i].peer).start <= result[i].start
             /\ result[i].end <= SpanAt(result[i].peer).end
        /\ \A i \in 1..(Len(result) - 1) :
             result[i].end = result[i + 1].start /\ result[i].peer # result[i + 1].peer

\* The cheapest way from each node to the end: {} where there is none.
CheapestFrom ==
    LET left[n \in Nodes] ==
            IF n = EndNode THEN {0}
            ELSE LET ways == UNION {{edge.weight + c : c \in left[edge.to]} : edge \in Edges(n)}
                 IN  IF ways = {} THEN {} ELSE {Min(ways)}
    IN  left[StartNode]

\* What the path that was taken costs without any rounding.
CostAlong(nodes) ==
    LET Weight(i) == (CHOOSE edge \in Edges(nodes[i]) : edge.to = nodes[i + 1]).weight
    IN  FoldLeft(LAMBDA sum, i : sum + Weight(i), 0, [i \in 1..(Len(nodes) - 1) |-> i])
Latency == CostAlong(<<StartNode>> \o Path \o <<EndNode>>)

\* Truncation to nanoseconds may make the search prefer a slower chain, but
\* by less than a nanosecond for each node it passes.
ChainIsNearlyCheapest ==
    pc = "done" /\ EndNode \in DOMAIN dist /\ ~overshot =>
        \A cheapest \in CheapestFrom : Latency < cheapest + (NumBlocks + 1) * NS

\* None means that there is no chain, unless a cost was rounded above its
\* distance: then the node's only entry is skipped as an outdated one.
NoneMeansNoChain ==
    pc = "done" /\ dist # <<>> /\ result = None /\ start_index = 0 /\ ~overshot =>
        CheapestFrom = {}

\* The greedy choice and the search both end.
SearchEnds == <>(pc = "done")
=============================================================================
