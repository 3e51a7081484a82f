# Inference-Mesh: a verification project

TLA+ models of Inference-Mesh, a peer-to-peer mesh in which workers host ranges
of a transformer's layers, announce them on a Kademlia DHT, and clients send a
tensor along a chain of workers. The modules are translated from the Rust
sources (`src/src/...`); TLC checks them on small instances and TLAPS proves,
for instances of any size, the safety of the relay, of both clients, of the
sequence manager, of `MemoryCache` and of the peers' tables, and that the relay
and the clients implement their abstract specifications. `PROJECT.json` names,
for every definition, the lines it stands for.

    tlc -workers 2 -config ForwardPass_interleaved.cfg MCForwardPass
    tlapm ForwardPassProofs.tla

## 1. The system

| component | state | operations | what makes it correct |
|---|---|---|---|
| **worker relay** (`run_worker` in `p2p/src/swarm.rs`, `routing.rs`) | `pending_forwards`: outbound request id → the upstream's response channel | receive a request (answer it at the terminal hop, relay it otherwise), relay a response, turn an `OutboundFailure` into an empty response | an answer goes to the request it answers; no entry and no channel is lost or kept for ever |
| **worker life cycle** (`run_worker`, `dht.rs`) | `bootstrapped`, `bootstrap_triggered`, `layers_announced`, `listen_addr`; records not published yet | first connection → Kademlia bootstrap; first new peer → announce the layers, once; publish; end | a worker that serves is found under all of its layers; it announces once |
| **single-shot client** (`run_client`) | `bootstrapped`, `queries_sent`, `chain_built`, `providers`, `pending_queries`, `provider_cache`, `failed_peers`, `retry_count` | look up each layer, build the chain, send, return the response, fail over | one request at a time, at most `MAX_RETRIES` + 1; the chain serves the layers in their order; it returns |
| **stream client** (`run_stream_client`) and the **Generate loop** (`cli/src/main.rs`) | the above, `pending_payload`, `inflight_payload`, two channels of capacity 1 | take a payload, send it, hand the reply over, fail over with the payload kept; submit, receive, stop | the k-th reply answers the k-th payload; no payload lost or doubled; both tasks end |
| **MemoryCache** (`compute/src/memory_cache.rs`) | two atomic counters, a mutex-protected map | `allocate`, `free`, `get`, `bytes_left` | bytes are counted exactly; handles are unique; the limit is kept |
| **sequence manager** (`p2p/src/sequence_manager.rs`) | none (functions) | spans from block records, greedy chain, cheapest chain | spans are what servers offer; chains have no gap; the cheapest is found |
| **block selection** (`block_selection.rs`) | none | choose the range of blocks with the least throughput | the range holds the block that needs it most; what the advice to move depends on |
| **provider cache** (`provider_cache.rs`) | layer → entries with their time of insertion | insert, look up, evict, build a chain without some peers | what is on offer is what a table with a time to live would offer; a retry keeps to its peers |
| **ping aggregator** (`ping.rs`) | two maps | record, drop the stale ones | a measurement lives for its age; the maps stay aligned |
| **wire messages and codec** (`protocol/`) | none | Cap'n Proto build and read, length-prefixed frames | a message that is written is read back, or refused |
| **compute engine** (`compute/`) | the layers loaded; a cache of keys and values between calls | run a range of layers on a hidden state; decode token by token | an output depends on its own sequence up to its own position; decoding in parts equals one pass |
| **bootstrap node, behaviours, CLI** | Kademlia's own | feed the address table; parse arguments | — |

**How they interact.** Every process is one event loop over a libp2p swarm.
Clients and workers exchange `ForwardPassRequest`s through libp2p's
`request_response`: a request carries its whole route and a hop index
(`Routing.tla`); the last worker of the route runs its engine on the tensor; a
worker that is not the last sends the request on under a new outbound id and
keeps the channel of the one it came by, so that answers travel the route
backwards, a failure as an empty tensor. Clients and workers meet through the
DHT: workers announce, clients look up, and a record outlives its worker.
`run_stream_client` and the Generate loop share two channels; threads share a
`MemoryCache` by reference.

**What is hard.** Requests of several clients interleave at a worker while the
request id in every message is the constant 1; a timeout fires while the request
it gives up is still delivered, relayed and answered; a worker dies with other
people's channels; every step of a failover waits for the next Kademlia event;
the Kademlia arm's answers come in any order; a bounded channel blocks an event
loop; two atomics are updated by two instructions; a lookup may come before the
announcement it looks for; heads and positions are reshaped into each other;
costs in `f64` are compared with costs in whole nanoseconds. `PROJECT.json`
lists these hazards at their lines, with the properties that would notice each
going wrong.

## 2. Modules

| module | models |
|---|---|
| `Routing` | `ForwardPassRequest::is_terminal`, `routing::build_next_request` |
| `RemoteCall` | **abstract**: what a forward pass promises its callers |
| `ForwardPass` | clients after discovery, workers' request arms, and the network between them; implements `RemoteCall` |
| `Discovery` | the Kademlia arm both clients have: lookups, chain building, failover's resets |
| `Client` | `run_client` = `Discovery` + one request; implements `RemoteCall` |
| `Worker` | a worker's life cycle: joining, announcing, publishing, ending |
| `Mesh` | `Client` and `Worker`s around one DHT |
| `Pipeline` | **abstract**: what a stream session promises the loop that feeds it |
| `StreamClient` | `run_stream_client` = `Discovery` + payload slots + channels, composed with the Generate loop; implements `Pipeline` |
| `MemoryCache` | `allocate` and `free` with every atomic operation and lock a step |
| `Retain` | `Vec::retain` and filters, as a fold over a vector |
| `Spans` | `compute_spans`, `spans_by_priority`, `spans_containing_block` as operators |
| `SequenceManager` | `make_sequence_max_throughput` and `dijkstra_min_latency`, a step per choice and per heap entry |
| `BlockSelection` | `choose_best_blocks`, `compute_throughputs`, `should_choose_other_blocks` as operators |
| `BlockPlanning` | `SequenceManager` and `BlockSelection` on the same records |
| `Totals` | the sum of a function over a finite set |
| `ExpiringTable` | **abstract**: a table whose entries live for a time |
| `ProviderCache`, `Ping` | the two tables of a node; each takes a step of an `ExpiringTable` with its own |
| `PeerTables` | both, under one clock |
| `Tensors` | candle's operations on shapes: row-major tensors of any elements |
| `TransformerBlock` | `forward_inner` and what it calls, by what each element is computed from |
| `ComputeEngine` | the terminal pass through all layers, and decoding with a cache |
| `Compute` | `MemoryCache` and `ComputeEngine`, which share nothing: a behaviour uses one of them |
| `MC*` | values for the constants, and the few definitions that only a bounded instance has |
| `FoldLemmas` | **proofs**: induction, and what folds and `Retain` compute |
| `ForwardPassProofs`, `DiscoveryProofs`, `MeshProofs`, `StreamClientProofs`, `ComputeProofs`, `PeerTablesProofs`, `SequenceManagerProofs` | **proofs**: each component's inductive invariant, its safety theorems and, where it has one, its refinement |

Variables and actions keep the names of the code's variables and match arms.

**`ForwardPass`.** `waiting`, `sent`, `held` and `answers` are libp2p's share of
the state: requests whose sender has had no event yet, requests not handled yet,
requests whose `ResponseChannel` is kept, and responses on their way. What the
model takes from libp2p, as the code uses it: an outbound request ends in
exactly one event, `Message::Response` or `OutboundFailure`; the timeout may
fire at any moment (`RelayFailure`, `ClientFailure` are always enabled for a
waiting request, whatever has become of it); a request given up may still be
delivered; an answer nobody waits for is lost (`Deliverable`). `next_id` stands
for `OutboundRequestId`. Deliveries are a set, so they come in any order. A
tensor is the payload it began as and the list of workers that computed on it:
that is all that the properties tell apart. The client's payload may be one that
the accessors cannot read back (`unreadable`, some of the clients `NearLimit`:
the reading limits of Cap'n Proto's default `ReaderOptions` are counted over
everything a reader has traversed), in which case `build_next_request` fails at
a relay (`ForwardError`: logged, channel dropped) and `handle_terminal_hop`
fails at the last hop, ending the whole worker (`TerminalHopError`). `Stops` is
also `Crash`. A worker that is restarted draws a new key and is a different
peer, so the model has no restart. Discovery is one step here, choosing any
chain. An answer is an output or empty whenever the worker has an engine; which
it is, `ComputeEngine` tells: `run_client`'s own payload has two dimensions,
`[1, len / 4]`, so that an engine always refuses it.

**`Discovery`, `Client`, `StreamClient`.** `KadArm` is the Kademlia match arm
with everything that follows its inner match: sending the lookups, testing for
completeness, building the chain. Each action evaluates all of it on the state
that its event leaves, as the code does. `fruitless` and `blamed` are history
variables. A lookup takes any peer `announced` for the layer (the code takes the
first of a `HashSet`), finds none when nobody is announced, may find none, or
may end in an error, which the code leaves pending for ever. Setup is left out:
dialling, listening, and the arms that only add addresses to Kademlia's table
(`Identify`, `ConnectionEstablished`). In `StreamClient` the suspended
`response_tx.send(..).await` is a state of its own (`task = "sending"`): the
event loop handles nothing else meanwhile. The Generate loop's sampling and
detokenising is left out; it ends on an error, on an empty response
(`Tensor::from_vec` refuses it), on a closed channel, or with the last token.
`Abort` has no fairness: `run_stream_client` must return by itself when its
caller is gone.

**`Worker`, `Mesh`.** `AnnounceLayers` belongs to the Kademlia event that
bootstraps the worker, as in the code. `start_providing` only queues a record;
the running swarm stores the records one by one (`Publish`), so that a worker
whose announcement fails for one layer, which ends `run_worker`, publishes none.
It fails beyond `MaxProvidedKeys` (1024 in libp2p's `MemoryStore`). Records stay
when a worker ends; their expiry after two days is left out. In `Mesh` the
outcome of a request is not tied to the health of the chain's workers, which is
more than can happen. `StreamClient` has all workers announced from the start.

**`MemoryCache`.** A step per `load`, `fetch_add`, `fetch_sub` and critical
section. `Create`/`CreateFails` is `Tensor::zeros`. `tensors` maps a handle to a
size.

**`Spans`, `SequenceManager`.** A record per block says which servers it lists,
in which state and with which claimed range. `spans_by_priority` returns any
order that the sort allows, since equal lengths come out of a `HashMap`. `usize`
is counted modulo `USIZE`, standing for 2^64: a claim beyond the block it is
listed at makes `end - start` wrap (release build; a debug build panics). A
distance is a number of sub-units, `NS` to the nanosecond, and `Nanos` is what
`cost_to_nanos` does: truncate, except that `cost * 1e9` in `f64` may round a
cost just below a whole nanosecond up to it. `dist` and `prev` are defined at the
nodes reached, where the code has infinity and `None` elsewhere. Equal entries
on the heap count once, as the second one to be popped changes nothing.

**`BlockSelection`.** Operators over the same records as `Spans`; throughputs
are integers and the quality a number of quarters, so that the comparison with a
quotient is exact.

**`ProviderCache`, `Ping`.** `left` and `recent` are history variables in which
an `ExpiringTable` takes the step that each operation should amount to: learn,
forget, nothing for pruning. The properties compare what the code's reading
functions return with them. `PeerTables` adds the clock; a behaviour uses one of
the tables, since they share nothing else. The clients insert into a
`ProviderCache` and evict from it (in `Discovery`), but nothing calls its other
functions, or `Ping`.

**`Tensors`, `TransformerBlock`, `ComputeEngine`.** Numbers are replaced by their
origins. Between layers an element is the set of input elements it depends on;
inside attention it is which query, key and value columns, rotated by which
position and frequency, it is made of. A value that a reshape, a transposition,
a repetition or a mask puts in the wrong place then shows as a wrong set, though
all shapes fit. Normalisation, `o_proj`, the residuals and the MLP work row by row
and count as mixing a row's columns. Inputs of the terminal pass are any lists of
entries with their dtype, shape and number of bytes; what candle refuses
(`from_raw_buffer`, `dims3`, a product of mismatched widths or types) is a step to
`"error"`. A behaviour either runs the pass or decodes.

## 3. Runs

| run | instance | what it shows |
|---|---|---|
| `forward_interleaved` | 2 clients, 2 workers (one with an engine), all chains of up to 3 hops without immediate repetition, no retry | two requests in flight, sharing workers, even one request passing a worker twice (A, B, A), with timeouts, late deliveries and crashes: `AnswersMatchRequests`, `ResultsMatchPayloads`, `PendingMatchesWaiting`, `HeldChannelsHaveOneOwner` |
| `forward_failover` | 1 client with 2 retries, its tensor readable or not, 2 workers, 2 hops, fair | late remains of earlier attempts meet later ones, and requests fail in every way: `OneAttemptAtATime`, `Amplification`, `ImplementsRemoteCall`, `CallsReturn`, `ChannelsDrain` |
| `mesh_joining` | 2 layers; a worker for both, one for the second, and one whose 3 layers are more than it may provide; each may have known peers or not, and die; 1 retry; a payload that may be too large | `ChainServesLayers`, `AnnouncedOnce`, `WorkersAreFound`, `ImplementsRemoteCall`, `ClientReturns`, with lookups before, between and after announcements |
| `stream_lockstep` | 3 layers, 2 workers, chains `<<p1>>` and `<<p1, p2, p1>>`; lookups that find nobody or fail; 4 tokens, the fourth payload too large, 3 retries as in the code | `ChainServesLayers`, `EachPayloadInOnePlace`, `InflightIsOutstanding`, `ImplementsPipeline`, `SessionEnds` |
| `sequence_chains` | 3 blocks, two servers with any of 11 listings (gaps, mixed states, a claim narrower than the listing, a stale claim), a third at the end, delays a fraction of a nanosecond apart | `SpansAreRight`, `ChainIsWhole`, `ChainIsNearlyCheapest`, `NoneMeansNoChain`, `SearchEnds`; on the same records `BlockChoices` |
| `compute` | memory: 3 threads, sizes 0, 1 and 2, limit 3, 4 handles, symmetric threads | `AccountingIsExact`, `HandlesAreUnique`, `OverrunIsBounded` |
| | engine: 2 layers, 4 heads in 2 groups of 2 columns each; every shape up to 2 x 3 rows, two-dimensional and too wide ones, 3 dtypes, right and wrong numbers of bytes, a byte too many or too few included, one entry or two; 4 tokens of 1 or 2 sequences decoded in any division | `OutputsAreCausal`, `RefusalsAreExact`, `DecodeIsFullPass` |
| `peer_tables` | 2 peers, 2 layers, a time to live of 2, 4 instants, 3 entries a layer | `OffersAreExact`, `FindingKeepsChain`, `RttsAreRecent` |

Most runs also check their module's `TypeOK`. Five further
runs exhibit findings (section 6) and are expected to be violated.

**Bounds and why they are enough.** Two requests in flight are what it takes to
mix up two answers, and three hops let one request wait at the same worker
twice. With one retry an attempt can meet the remains of another; the second
lets a third begin while both are about. Three layers are the fewest for a chain
that comes back to a worker. Four tokens separate the first, two middle ones and
one that cannot be sent. Two layers and two workers that can be found make a
chain of two and a chain of one; the third worker makes an announcement fail.
Three threads are the fewest for two to overrun the limit while a third frees.
In a chain of three blocks a server can be entered, crossed and left. With a
time to live of 2, four instants let an entry be fresh, expire and be renewed,
and three entries a layer let one of two duplicates expire. Two groups of two
heads are the fewest in which repeating heads in the wrong order differs from
the right one, two layers let a dependence spread twice, and a division of four
tokens has a call of several tokens on a filled cache. `MaxHandles` bounds how
often `allocate` succeeds; the other counters are bounded by the code's own
limits (`MAX_RETRIES`, `max_tokens`). Deadlock is not checked: the programs end.

**Fairness and why the code justifies it.** `ForwardPass`: a client goes on
(discovery yields a chain in the end, which is `Discovery`'s own question), and
`request_response`'s timeout ends every request, so that `RelayStep` is fair. No
fairness is assumed of delivery or of a worker's handling of requests.
`Discovery`: libp2p emits `RoutingUpdated` for some peer, ends each query, and
goes on emitting Kademlia events (periodic bootstrap); requests end. A client
whose lookup finds nobody really may wait for ever: the liveness properties say
"or a lookup was fruitless", and one of the findings is that case.
`Worker`: Kademlia reports the first peer of its table and its queries end;
nothing is assumed of connections, of addresses, or of a worker staying alive,
so that `WorkersAreFound` speaks of those that have joined and not ended.
`StreamClient` adds that both tasks are scheduled and that `select!`, which
chooses at random among the ready branches, starves none. `SequenceManager` and
the Generate loop are sequential code that keeps running. `MemoryCache` has no
liveness property.

**Mutants.** For each property `PROJECT.json` names an operator beside the
definition it changes, marked "Mutant:" in its module, with which the run finds
the property violated. They are never used by a specification.

## 4. What is proved

Everything in this section is proved with TLAPS for **any** values of the
constants that the modules' named assumptions admit. These say what the
constants are and no more: `ForwardPassAssumption`, `DiscoveryAssumption`,
`MeshAssumption` and `StreamAssumption` that chains and the layers asked for are
sequences and not empty, that there are finitely many clients, that no chain has
more than `MaxHops` workers (a chain has one for each block at most), that a worker serves a finite set of layers, that a
session has at least one token and retries are a number; `MemoryCacheAssumption`
that there are finitely many threads, and that sizes and limits are numbers;
`CacheAssumption` and `PingAssumption` that times are; `SpansAssumption` and
`SequenceManagerAssumption` that there are finitely many servers and at least one
block, fewer than `USIZE`, that records have the types of `types.rs`, and that
delays are not negative; `ConfigAssumption` that the key heads divide the heads and
a head has an even width, and `EngineAssumption` that there is a layer to run and
that every list of entries has one entry at least, of a shape that is nowhere 0 (the
model leaves out what candle does with an empty tensor).

| module | theorem | says |
|---|---|---|
| `ForwardPassProofs` | `TypeCorrect`, `NoCrossTalk`, `ResultsAreOwn`, `PendingIsExact`, `ChannelsOwned`, `OneAttempt` | `[]` of `TypeOK`, `AnswersMatchRequests`, `ResultsMatchPayloads`, `PendingMatchesWaiting`, `HeldChannelsHaveOneOwner`, `OneAttemptAtATime` |
| | `AmplificationBounded` | `[]Amplification` |
| | `Refinement` | `Spec => ImplementsRemoteCall` |
| `MeshProofs` | `MeshTypeCorrect`, `ChainAlwaysServes` | `[]` of `MeshTypeOK`, `ChainServesLayers` |
| | `WorkersAnnounceOnce` | `MeshSpec => AnnouncedOnce`, an action property |
| | `Refinement` | `MeshSpec => ImplementsRemoteCall` |
| `StreamClientProofs` | `StreamTypeCorrect`, `StreamChainServes`, `InflightMirrorsRequest`, `PayloadInOnePlace` | `[]` of `TypeOK`, `ChainServesLayers`, `InflightIsOutstanding`, `EachPayloadInOnePlace` |
| | `SessionRefinement` | `Spec => ImplementsPipeline` |
| `ComputeProofs` | `TypeCorrect`, `AccountingExact`, `UniqueHandles`, `BoundedOverrun` | `[]` of `TypeOK`, `AccountingIsExact`, `HandlesAreUnique`, `OverrunIsBounded` |
| | `EngineTypes`, `TerminalPassIsCausal`, `RefusalsExact`, `DecodingIsFullPass` | `EngineSpec => []` of `EngineTypeOK`, `OutputsAreCausal`, `RefusalsAreExact`, `DecodeIsFullPass` |
| | `PartsBehaveAlone` | `ComputeSpec => Spec /\ EngineSpec`: what is proved of either component holds of what the run checks |
| | `ShapeMatchesForOne` | a terminal hop's answer has `OutputShapeMatches` if, and only if, its request is a batch of one sequence |
| `PeerTablesProofs` | `OffersExact`, `RttsRecent` | `[]` of `OffersAreExact`, `RttsAreRecent` |
| | `FindingKeeps` | `Spec => FindingKeepsChain`, an action property |
| `SequenceManagerProofs` | `TypeCorrect`, `SpansFollowRecords`, `ChainsAreWhole`, `ChainsAreNearlyCheapest`, `NoneIsRight` | `[]` of `TypeOK`, `SpansAreRight`, `ChainIsWhole`, `ChainIsNearlyCheapest`, `NoneMeansNoChain` |
| | `ChoicesServeTheWeakest` | `[]BlockChoices` |

Each rests on an inductive invariant that TLC checked on the module's run before
it was proved. None of the properties is inductive alone; what each needs:

**`ForwardPass`: `IInv`.** That an answer handed upstream is the right one needs
the entry it is handed to by to be the one made for that very request. `IInv` is
the conjunction of

- `CoreTypes`, `RequestsWellFormed`: types, hop indices within the route, each
  request addressed to its hop's worker, its tensor not computed on yet;
- `IdsIdentify`: ids are below `next_id`, and two requests anywhere with the same
  id are the same request, which is what the key of `pending_forwards` relies on;
- `EntriesLink`: an entry's outbound request is its upstream one a hop further,
  sent by the worker that holds it, and both belong to the same entry only;
- `EntriesComplete`: each waiting request of a worker, and each held channel, has
  an entry;
- `AnswersGood`: an answer's sender still waits, and its content is the terminal
  output for its request, or empty;
- `OneAttemptAtATime` and `ResultsMatchPayloads`.

There is a lemma per action. `Refinement` maps `tries`, `busy` and `outcome` and
shows that each step is an abstract step or a stutter, using `OneAttemptAtATime`
(a failure belongs to the current attempt) and `ResultsMatchPayloads`.

`Amplification` counts requests, and a request that is on its way will be sent
on. `SentOK` counts those in advance: the requests sent so far, plus the hops
that each request on its way still has before it (`HopsLeft`), are at most
`MaxHops` for each attempt made (`Tries`, `retry_count` and the one under way).
A relay takes a hop off one request and adds it to another; a failover replaces
an attempt that failed by one that was counted, which needs `OneAttemptAtATime`;
whatever is lost, dropped or answered only makes the sum smaller.

**`Discovery`, `Mesh`: `DiscoveryInv`, `MeshInv`.** A chain serves its layers
because a record names a worker that serves its layer (`AnnouncedServe`), a
lookup's answer is such a record (`ProvidersServe`), the client builds the chain
only when every layer has an answer (`QueriesCounted`), and removing adjacent
repetitions keeps what each layer is served by (the lemmas about the fold in
`BuildChain`). Both clients' proofs use `DiscoveryInv` as it is. In `Mesh`,
records come from workers: `WorkersInv` says that a worker queues layers that it
serves, and announces at its first bootstrap only. For the refinement,
`RequestsFollowChain` and `RetriesAccount` tie the request out to the chain and
the abstract number of tries to `retry_count`.

**`StreamClient`: `StreamInv`.** `OnePlace` says that exactly one of the channel,
`pending_payload`, the request, the reply being sent and the reply channel has
the outstanding payload, and none when nothing is outstanding; `PlacesHoldLast`
that it is the last one submitted; `TaskFollows`, `RequestsCounted` what the
task's own flags say of it; `RepliesInOrder` that the k-th reply is for the k-th
payload. `SessionRefinement` maps the replies and the outstanding payload.

**`MemoryCache`: `IInv`.** Bytes are a sum over the map, which changes by the
size of an entry that is put in or taken out (`TotalAdd`, `TotalRemove` of
`FoldLemmas`). The invariant adds to the properties that each thread's
locals fit its place in the code (`LocalsOK`), and that of the threads between
their load and their `fetch_add`, each would fit the limit alone (`ReservedOK`),
from which the bound on the overrun follows.

**`ComputeEngine`: `DecodeInv`, `PassInv`.** `Volume` and `Number` are folds over a
shape of any length. Their prefixes, one dimension at a time, solve a recursive
equation (`VolumePrefixes`, `NumberPrefixes`), from which follows that an index
tuple's number is below the volume, and that every index tuple of a shape with two
to four dimensions is found again from its number (`Places`). What an operation of
the block has at an index is then a fact of the form `At(Transpose(t), <<i, k, j, l>>)
= At(t, <<i, j, k, l>>)`: there is one for each transposition, reshaping, repetition,
concatenation, mask, projection and rotation (`TransposeAt`, `FlatAt`, `RepeatKvAt`,
...). They compose to `AttentionAt` and `KeysAndValues`, which say of one call what
an element of its output is made of, and what it keeps.

- `DecodeInv`: the keys and values kept are those of the tokens so far, each rotated
  by its own position, and every output so far is what one pass over the whole
  sequence gives. A call of any length keeps it (`CallOnTokens`): its mask hides the
  later tokens of the call and none of the kept ones, its positions go on where the
  last call's ended, and each query head finds the keys of its group.
- `PassInv`: the hidden state has the shape of the batch (`Batched`); before the first
  layer each element is its own cell of the entry or of the stack (`SingleBatch`,
  `StackIs`), after it all of its row up to its position (`Passed`), which one more
  layer does not change (`LayerAt`). For `RefusalsAreExact` it says besides that what
  has been loaded could be read, that each layer passed is loaded and the first entry
  f32, and that whatever has failed was not `Acceptable`; the shape that a block
  accepts is tied to the entries' by `BatchFits`. `ShapeMatchesForOne` follows from
  what the rows of a finished pass are (`SplitAt`, `AnswerIs`).

**`PeerTables`: `PeerTablesInv`.** The history variables' countdowns are what is
left of each entry's time (`EntriesTell`): an entry is fresh exactly as long as
the table with expiring entries has it, whichever of several entries of a peer is
looked at. `FindingKeeps` needs that `get_excluding` keeps the order of
insertion, so that later insertions never come first.

**`SequenceManager`: `ChainInv`.**

- `ArgsInv`: the arguments are as `Init` chose them. All that is said of spans
  follows: `SpansFollowRecords` goes through the blocks in their order and shows
  what a record's visit and a claim's cut make of an entry, field by field.
- `SearchInv`: a node that was reached either has an entry on the heap that will
  not be skipped, or each of its edges leads to a node whose distance is at most
  the edge's weight more (`Awaited`, `Relaxed`), as long as no cost was rounded
  up; and along `prev` a distance is less than a nanosecond short
  (`ReachedFrom`), exact for the first edge.
- `PhaseInv`, `GreedyInv`: the chain so far is whole and ends where its last
  server's span does, so that the next hop cannot be the same server again.
- `DoneInv`: a chain that is returned is whole; when the end was reached it was
  on top of the heap; when nothing was found there is a `Cut`, a set of nodes
  with the start and without the end that no edge leaves.

`ChainsAreWhole` then needs that the walk back along `prev` passes one node of
each block. `ChainsAreNearlyCheapest` goes backwards from the end: for every node
that was reached, the end's distance is less than a nanosecond above the node's
plus the cheapest way on from it, since the end was the cheapest entry on the
heap; and the path costs at most `NumBlocks` nanoseconds more than the end's
distance. `overshot` is needed: with a cost rounded up, the node's only entry is
skipped, and both properties fail (section 6).

`BlockChoices` follows from the types of the records: the windows that start
before the first weakest block can reach it have a greater least throughput, so
the first window with the least one is the first that holds that block
(`WindowChosen`); and a sum of throughputs is positive when one of them is.

**Induction.** The library's induction theorems take an operator as a parameter.
`FoldLemmas` derives from the well-foundedness of the numbers, with a *set* of
numbers, of sets or of sequences in place of the predicate: `LeastNumber`,
`NumberInduction`, `SubsetInduction` and `AppendInduction`. With them it proves
that a fold has a solution (`FoldExists`) and only one (`FoldUnique`), which
links the folds and recursive functions of the models (`Retain`, `Total`,
`SpanOf`, `Path`, `CheapestFrom`, ...) to the equations that they satisfy, and
what `Retain` returns (`RetainFacts`, `RetainAppend`, `RetainTwice`), and what a
sum is when its set or its function changes (`TotalAdd` to `TotalPositive`).

## 5. What is only model-checked, and what is not modelled

Liveness (`CallsReturn`, `ChannelsDrain`, `ClientReturns`, `SessionEnds`,
`SearchEnds`, `WorkersAreFound`) is beyond the prover, which has no rule for fairness
and `ENABLED`, and stays with TLC. Every safety property of a passing run is proved.

Not modelled: wire encoding beyond whether a message can be built and read back;
the codec's framing, a length and the bytes on a substream used for one message
(its 32-bit length is far beyond what Cap'n Proto lets be read); the numerics of
the compute engine, a user mask (run_worker passes none) and the loading of
weights; the bootstrap node, which keeps no state of its own; `server_info`
records, which nothing puts or gets; CLI parsing, logging, downloads. Four smaller
things are left out of the modelled parts: an error of Kademlia's `bootstrap`, whose
one cause is a table without peers and which follows the `add_address` of a peer; a
greedy choice that is to end before the last block; a session with `max_tokens` = 0,
which sends nothing; and, in `client_lookup_retry`, lookups that end in an error,
which `stream_lockstep` has and its liveness property excepts.

## 6. Findings

1. **Only the last worker computes** (`forward_every_hop`). A worker that is not
   terminal copies the tensor on; `README.md:21` has each worker process it.
2. **A failure signal is a result** (`forward_failure_signal`). A failure beyond
   the first hop comes back as an empty response, which `run_client` returns as
   `Ok`; no failover happens.
3. **The failed peer is chosen again** (`client_failed_peers`). Nothing fills or
   reads `failed_peers`, against the comment at `swarm.rs:590`.
4. **A fruitless lookup is final** (`client_lookup_retry`). The branch that would
   repeat it (`swarm.rs:536`) cannot be reached: a client that is started before
   its workers have announced waits for ever.
5. **A batch is answered with its first sequence** (`engine_answer_shape`).
   `handle_terminal_hop` sends the first output under the shape of the whole
   request, against the comment at `swarm.rs:377-378`. `ShapeMatchesForOne` proves
   that the comment is right for batches of one, which is what the Generate loop
   sends, and wrong for every other.

Met while modelling, and stated by properties that hold: `MemoryCache`'s limit is
checked and taken in two steps, so that concurrent allocations may exceed it, by
one for each other thread at most (`OverrunIsBounded`), and the bytes of a
tensor that could not be created stay counted (`lost` in `AccountingIsExact`, which
states this leak and does not rule it out). Requests of three dimensions that are
stacked to a batch gain one that every block refuses (`RefusalsAreExact`).
`should_choose_other_blocks` compares a number with a fraction of itself: it
advises every server to move whenever the quality asked for is below one and all
blocks are served (`BlockChoices`).

Met with no statement of the repository to hold against it:
`dijkstra_min_latency` skips a node whose cost rounds up (`cost > dist[node]`
with a client rtt of 0.081 s, say) and returns `None` although a chain exists;
`NoneMeansNoChain` says that this is the only way, and without its `overshot`
disjunct TLC finds it. `retry_count` of a stream session is never reset. A second
payload submitted before the chain is built would replace the first
(`pending_payload` is one slot); the Generate loop never does that.

## 7. Plan

Done, in this order: relay and clients (`ForwardPass`, its proofs), `Discovery`,
`Client`, `StreamClient`, `MemoryCache`, `Spans`/`SequenceManager`; the compute
engine, the worker's life cycle and `Mesh`, the peers' tables and
`BlockSelection`; then the proofs about `MemoryCache`, `Mesh`, `StreamClient`,
the tables, the sequence manager and `BlockSelection`, and last those about
`ComputeEngine`, from lemmas about row-major indices.
