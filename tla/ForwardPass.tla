---------------------------- MODULE ForwardPass ----------------------------
(***************************************************************************)
(* The forward pass: clients that send a tensor along a chain of workers,  *)
(* and the workers' event loop that relays it hop by hop and relays the    *)
(* answer back.  The network is libp2p's request_response behaviour:       *)
(*  - an outbound request ends in exactly one event at its sender, the     *)
(*    response or an OutboundFailure (dial error, closed connection,       *)
(*    dropped channel, or the timeout, which may fire at any moment);      *)
(*  - a request whose sender has given up may still be delivered;          *)
(*  - an answer to a sender that has given up is lost.                     *)
(* A worker that stops never returns: a restarted process draws a new      *)
(* keypair, hence a new PeerId.                                            *)
(***************************************************************************)
EXTENDS Routing, FiniteSets

CONSTANTS
    Clients,      \* run_client instances; each one has a payload of its own
    Workers,      \* run_worker instances
    Engines,      \* the workers started with a model: the others echo
    Chains,       \* the chains discovery may resolve (after dedup_chain)
    NearLimit,    \* the clients whose tensor may be too large to be read back
    MaxRetries,   \* MAX_RETRIES
    MaxHops       \* the workers of a chain at most: one for each block

ASSUME ForwardPassAssumption ==
    /\ Clients \cap Workers = {} /\ IsFiniteSet(Clients)
    /\ Engines \subseteq Workers
    /\ Chains \subseteq Seq(Workers) \ {<<>>}
    /\ NearLimit \subseteq Clients
    /\ MaxRetries \in Nat
    /\ MaxHops \in Nat /\ \A chain \in Chains : Len(chain) <= MaxHops

VARIABLES
    alive,             \* the workers whose event loop runs
    next_id,           \* the next OutboundRequestId
    waiting,           \* requests whose sender has had no event for them yet
    sent,              \* requests on their way to their worker
    held,              \* requests whose ResponseChannel a worker still holds
    answers,           \* responses on their way back
    pending_forwards,  \* per worker: outbound request -> upstream channel
    chain_built,       \* per client: a chain is resolved and its request sent
    retry_count,       \* per client
    result,            \* per client: what run_client returned, if it has
    unreadable         \* the clients whose tensor the accessors cannot read back

network == <<next_id, waiting, sent, held, answers>>
client  == <<chain_built, retry_count, result>>
vars    == <<alive, pending_forwards, network, client, unreadable>>

-----------------------------------------------------------------------------
\* A tensor is the payload it started as and the workers that computed on it.
Tensor  == [payload : Clients, ran : Seq(Workers)]
Request == [id : Nat, from : Clients \cup Workers, to : Workers,
            route : Chains, hop_index : Nat, tensor : Tensor]
Output(tensor) == [kind |-> "output", tensor |-> tensor]
Empty(rid)     == [kind |-> "empty", rid |-> rid]    \* shape [], no data
Reply   == [kind : {"output"}, tensor : Tensor] \cup [kind : {"empty"}, rid : {0, 1}]
Running == [kind |-> "running"]
Failed  == [kind |-> "err"]

Init ==
    /\ alive = Workers
    /\ next_id = 1
    /\ waiting = {} /\ sent = {} /\ held = {} /\ answers = {}
    /\ pending_forwards = [w \in Workers |-> {}]
    /\ chain_built = [c \in Clients |-> FALSE]
    /\ retry_count = [c \in Clients |-> 0]
    /\ result = [c \in Clients |-> Running]
    /\ unreadable \in SUBSET NearLimit

-----------------------------------------------------------------------------
(* Sending and answering *)

\* The answers that reach a sender still waiting for them.
Deliverable(as) == {a \in as : a.req \in waiting}

\* request_response.send_response for request r, which leaves `sent`.
AnswerRequest(r, reply) ==
    /\ sent' = sent \ {r}
    /\ answers' = answers \cup Deliverable({[req |-> r, reply |-> reply]})
    /\ UNCHANGED <<alive, pending_forwards, next_id, waiting, held>>

\* The sender's one event for r: it waits no more, and no answer comes later.
Settle(r) ==
    /\ waiting' = waiting \ {r}
    /\ answers' = {a \in answers : a.req # r}

-----------------------------------------------------------------------------
(* Clients: run_client once its chain is resolved *)

\* Mutant: the client forgets that it has sent its request.
SendForwardPassAgain(c) ==
    \E chain \in Chains :
        LET r == [id |-> next_id, from |-> c, to |-> chain[1], route |-> chain,
                  hop_index |-> 0, tensor |-> [payload |-> c, ran |-> <<>>]]
        IN  /\ result[c] = Running
            /\ next_id' = next_id + 1
            /\ sent' = sent \cup {r} /\ waiting' = waiting \cup {r}
            /\ UNCHANGED <<alive, held, answers, pending_forwards, client>>

\* The chain is complete: build the request at hop 0 and send it to chain[0].
SendForwardPass(c) ==
    \E chain \in Chains :
        LET r == [id |-> next_id, from |-> c, to |-> chain[1], route |-> chain,
                  hop_index |-> 0, tensor |-> [payload |-> c, ran |-> <<>>]]
        IN  /\ result[c] = Running
            /\ ~chain_built[c]
            /\ chain_built' = [chain_built EXCEPT ![c] = TRUE]
            /\ next_id' = next_id + 1
            /\ sent' = sent \cup {r}
            /\ waiting' = waiting \cup {r}
            /\ UNCHANGED <<alive, held, answers, pending_forwards, retry_count, result>>

\* Any Response event ends run_client with Ok(response).
ClientResponse(c) ==
    \E a \in answers :
        /\ a.req.from = c
        /\ result[c] = Running
        /\ Settle(a.req)
        /\ result' = [result EXCEPT ![c] = a.reply]
        /\ UNCHANGED <<alive, next_id, sent, held, pending_forwards, chain_built, retry_count>>

\* Mutants: one retry too many; one too few; the chain is not resolved anew.
FailOverOnceMore(c) ==
    IF retry_count[c] > MaxRetries
    THEN result' = [result EXCEPT ![c] = Failed] /\ UNCHANGED <<chain_built, retry_count>>
    ELSE /\ retry_count' = [retry_count EXCEPT ![c] = @ + 1]
         /\ chain_built' = [chain_built EXCEPT ![c] = FALSE]
         /\ UNCHANGED result
FailOverOnceLess(c) ==
    IF retry_count[c] + 1 >= MaxRetries
    THEN result' = [result EXCEPT ![c] = Failed] /\ UNCHANGED <<chain_built, retry_count>>
    ELSE /\ retry_count' = [retry_count EXCEPT ![c] = @ + 1]
         /\ chain_built' = [chain_built EXCEPT ![c] = FALSE]
         /\ UNCHANGED result
FailOverKeepsChain(c) ==
    IF retry_count[c] >= MaxRetries
    THEN result' = [result EXCEPT ![c] = Failed] /\ UNCHANGED <<chain_built, retry_count>>
    ELSE /\ retry_count' = [retry_count EXCEPT ![c] = @ + 1]
         /\ UNCHANGED <<chain_built, result>>

\* An OutboundFailure event: fail over, or give up after MAX_RETRIES.
FailOver(c) ==
    IF retry_count[c] >= MaxRetries
    THEN /\ result' = [result EXCEPT ![c] = Failed]
         /\ UNCHANGED <<chain_built, retry_count>>
    ELSE /\ retry_count' = [retry_count EXCEPT ![c] = @ + 1]
         /\ chain_built' = [chain_built EXCEPT ![c] = FALSE]
         /\ UNCHANGED result

ClientFailure(c) ==
    \E r \in waiting :
        /\ r.from = c
        /\ result[c] = Running
        /\ Settle(r)
        /\ FailOver(c)
        /\ UNCHANGED <<alive, next_id, sent, held, pending_forwards>>

-----------------------------------------------------------------------------
(* Workers: the request_response arms of run_worker *)

Stops(w) ==
    /\ alive' = alive \ {w}
    /\ pending_forwards' = [pending_forwards EXCEPT ![w] = {}]
    /\ waiting' = {r \in waiting : r.from # w}
    /\ sent' = {r \in sent : r.to # w}
    /\ held' = {r \in held : r.to # w}
    /\ answers' = {a \in answers : a.req.from # w}
    /\ UNCHANGED <<next_id, client>>

\* What the terminal worker may answer: its engine's output, an empty tensor
\* when the engine fails, or the echo of a worker without an engine.
TerminalReplies(w, tensor) ==
    IF w \in Engines
    THEN {Output([tensor EXCEPT !.ran = Append(@, w)]), Empty(1)}
    ELSE {Output(tensor)}

\* handle_terminal_hop.
HandleTerminalHop(w) ==
    \E r \in sent :
        /\ w \in alive /\ r.to = w /\ IsTerminal(r)
        /\ r.tensor.payload \notin unreadable
        /\ \E reply \in TerminalReplies(w, r.tensor) : AnswerRequest(r, reply)
        /\ UNCHANGED client

\* handle_terminal_hop returns Err through `?`, and so does run_worker.
TerminalHopError(w) ==
    /\ w \in alive
    /\ \E r \in sent : r.to = w /\ IsTerminal(r) /\ r.tensor.payload \in unreadable
    /\ Stops(w)

\* What w sends to the next hop for r.
Forwarded(w, r) ==
    LET built == BuildNextRequest(r)
    IN  [id |-> next_id, from |-> w, to |-> NextPeer(r), route |-> built.route,
         hop_index |-> built.hop_index, tensor |-> built.tensor]

\* Mutant: pending_forwards keyed by the request id on the wire, always 1, so
\* that an insertion replaces the entry before it.
ForwardRequestOneSlot(w) ==
    \E r \in sent :
        LET next == Forwarded(w, r)
        IN  /\ w \in alive /\ r.to = w /\ ~IsTerminal(r)
            /\ r.tensor.payload \notin unreadable
            /\ next_id' = next_id + 1
            /\ sent' = (sent \ {r}) \cup {next}
            /\ waiting' = waiting \cup {next}
            /\ held' = held \cup {r}
            /\ pending_forwards' = [pending_forwards EXCEPT ![w] = {[out |-> next, up |-> r]}]
            /\ UNCHANGED <<alive, answers, client>>

\* A non-terminal hop: send the request on and keep the channel it came in by.
ForwardRequest(w) ==
    \E r \in sent :
        LET next == Forwarded(w, r)
        IN  /\ w \in alive /\ r.to = w /\ ~IsTerminal(r)
            /\ r.tensor.payload \notin unreadable
            /\ next_id' = next_id + 1
            /\ sent' = (sent \ {r}) \cup {next}
            /\ waiting' = waiting \cup {next}
            /\ held' = held \cup {r}
            /\ pending_forwards' =
                 [pending_forwards EXCEPT ![w] = @ \cup {[out |-> next, up |-> r]}]
            /\ UNCHANGED <<alive, answers, client>>

\* build_next_request failed: the error is logged and the channel dropped.
ForwardError(w) ==
    \E r \in sent :
        /\ w \in alive /\ r.to = w /\ ~IsTerminal(r)
        /\ r.tensor.payload \in unreadable
        /\ sent' = sent \ {r}
        /\ UNCHANGED <<alive, next_id, waiting, held, answers, pending_forwards, client>>

\* Mutants: entries looked up by the request id on the wire, which they all
\* share; by the upstream request's id.
MatchingByWireId(w, r) == pending_forwards[w]
MatchingByUpstream(w, r) == {p \in pending_forwards[w] : p.up.id = r.id}

\* pending_forwards.remove(&request_id).
Matching(w, r) == {p \in pending_forwards[w] : p.out.id = r.id}

\* An event for the outbound request r: pass reply to the channel it stands for.
Relay(w, r, reply) ==
    LET ups == {p.up : p \in Matching(w, r)}
    IN  /\ pending_forwards' = [pending_forwards EXCEPT ![w] = @ \ Matching(w, r)]
        /\ held' = held \ ups
        /\ waiting' = waiting \ {r}
        /\ answers' = {a \in answers : a.req # r}
                        \cup Deliverable({[req |-> u, reply |-> reply] : u \in ups})
        /\ UNCHANGED <<alive, next_id, sent, client>>

RelayResponse(w) ==
    \E a \in answers : w \in alive /\ a.req.from = w /\ Relay(w, a.req, a.reply)

\* OutboundFailure: an empty tensor with request id 0 goes upstream.
RelayFailure(w) ==
    \E r \in waiting : w \in alive /\ r.from = w /\ Relay(w, r, Empty(0))

\* The process dies; its connections close and its channels are lost.
Crash(w) == w \in alive /\ Stops(w)

-----------------------------------------------------------------------------
ClientStep(c) ==
    /\ SendForwardPass(c) \/ ClientResponse(c) \/ ClientFailure(c)
    /\ UNCHANGED unreadable
RelayStep(w) == (RelayResponse(w) \/ RelayFailure(w)) /\ UNCHANGED unreadable
RequestStep(w) ==
    /\ HandleTerminalHop(w) \/ TerminalHopError(w) \/ ForwardRequest(w) \/ ForwardError(w)
    /\ UNCHANGED unreadable
WorkerStep(w) == RequestStep(w) \/ RelayStep(w) \/ (Crash(w) /\ UNCHANGED unreadable)

Next == (\E c \in Clients : ClientStep(c)) \/ (\E w \in Workers : WorkerStep(w))

Spec == Init /\ [][Next]_vars

\* Discovery yields a chain in the end (that is the subject of Discovery.tla),
\* and the request timeout ends every request that nothing else ends.
\* Nothing is assumed of workers' handling of requests or of delivery.
Fairness ==
    /\ \A c \in Clients : WF_vars(ClientStep(c))
    /\ \A w \in Workers : WF_vars(RelayStep(w))
FairSpec == Spec /\ Fairness
-----------------------------------------------------------------------------
(* Properties *)

TypeOK ==
    /\ alive \subseteq Workers
    /\ next_id \in Nat
    /\ waiting \subseteq Request /\ sent \subseteq Request /\ held \subseteq Request
    /\ answers \subseteq [req : Request, reply : Reply]
    /\ pending_forwards \in [Workers -> SUBSET [out : Request, up : Request]]
    /\ chain_built \in [Clients -> BOOLEAN]
    /\ retry_count \in [Clients -> 0..MaxRetries]
    /\ result \in [Clients -> Reply \cup {Running, Failed}]
    /\ unreadable \subseteq NearLimit

\* What the whole chain makes of a request: the terminal worker's output.
TerminalTensor(r) ==
    LET last == r.route[Len(r.route)]
    IN  [payload |-> r.tensor.payload, ran |-> IF last \in Engines THEN <<last>> ELSE <<>>]

\* An answer on its way back, at whatever hop, is the output of the terminal
\* worker of that very request's chain on that request's payload, or an empty
\* tensor: interleaved requests that share workers never get each other's
\* answers, though the request id on the wire is always 1 (run_worker's
\* pending_forwards, keyed by OutboundRequestId, is what keeps them apart).
AnswersMatchRequests ==
    \A a \in answers : a.reply.kind = "output" => a.reply.tensor = TerminalTensor(a.req)

\* The same seen from the client: run_client returns its own payload's output.
ResultsMatchPayloads ==
    \A c \in Clients : result[c].kind = "output" => result[c].tensor.payload = c

\* A running worker's pending_forwards has an entry for each request it sent
\* on that has had no event yet, and no other: nothing leaks, nothing is
\* forgotten, whatever the order of responses, failures and late deliveries.
PendingMatchesWaiting ==
    \A w \in alive : {p.out : p \in pending_forwards[w]} = {r \in waiting : r.from = w}

\* Every ResponseChannel a running worker still holds belongs to exactly one
\* entry of its pending_forwards, so no upstream is left to its own timeout
\* while the worker runs, and no channel is answered twice.
HeldChannelsHaveOneOwner ==
    /\ \A r \in held : \E p \in pending_forwards[r.to] : p.up = r
    /\ \A w \in Workers : \A p, q \in pending_forwards[w] : p.up = q.up => p = q
    /\ \A w \in Workers : \A p \in pending_forwards[w] : p.up \in held /\ p.up.to = w

\* run_client has at most one request out, and only while it has a chain; a
\* failover never leaves the failed attempt's request behind.
OneAttemptAtATime ==
    \A r \in waiting : r.from \in Clients =>
        /\ chain_built[r.from] /\ result[r.from] = Running
        /\ \A q \in waiting : q.from = r.from => q = r

\* Retries and relaying amplify a call to at most MAX_RETRIES + 1 attempts of
\* one request per hop: no event makes a worker send a request twice.
Amplification ==
    next_id - 1 <= Cardinality(Clients) * (MaxRetries + 1) * MaxHops

\* Every call returns, with a response or an error.
CallsReturn == \A c \in Clients : <>(result[c] # Running)

\* Every channel a worker keeps is given up in the end.
ChannelsDrain == \A w \in Workers : []<>(pending_forwards[w] = {})

-----------------------------------------------------------------------------
(* What is promised to the callers *)

OutcomeOf(c) ==
    CASE result[c].kind = "running" -> "none"
      [] result[c].kind = "err"     -> "error"
      [] result[c].kind = "empty"   -> "empty"
      [] result[c].kind = "output"  ->
            IF result[c].tensor.payload = c THEN "answer" ELSE "foreign answer"

Call == INSTANCE RemoteCall WITH
    Callers  <- Clients,
    MaxTries <- MaxRetries + 1,
    tries    <- [c \in Clients |-> retry_count[c] + IF chain_built[c] THEN 1 ELSE 0],
    busy     <- chain_built,
    outcome  <- [c \in Clients |-> OutcomeOf(c)]

\* Clients, workers and network together implement RemoteCall: run_client
\* returns once, an error only after MAX_RETRIES + 1 failed attempts, and
\* never the answer to somebody else's payload.
ImplementsRemoteCall == Call!Spec

-----------------------------------------------------------------------------
(* What the repository says of the program, and the code does not do *)

\* README.md:21: each worker of the chain "processes hidden states piped
\* through the chain".  Only the terminal worker runs its engine.
EveryHopComputes ==
    \A a \in answers : a.reply.kind = "output" =>
        a.reply.tensor.ran = SelectSeq(a.req.route, LAMBDA w : w \in Engines)

\* swarm.rs:314 sends an "empty failure signal upstream", and chaos_test.rs:10
\* has the client detect the failure and retry.  The client takes the signal
\* for its response.
FailureSignalIsRetried == \A c \in Clients : result[c] # Empty(0)

=============================================================================
