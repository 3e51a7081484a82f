---------------------------- MODULE StreamClient ----------------------------
(***************************************************************************)
(* run_stream_client and the Generate loop of the CLI that feeds it: two   *)
(* tasks joined by two channels of capacity 1.  The loop submits a payload *)
(* per token and waits for its answer; the client resolves a chain, sends  *)
(* each payload along it, and after an OutboundFailure resolves a new      *)
(* chain and sends the payload again.  pending_payload and                 *)
(* inflight_payload hold one payload each.                                 *)
(***************************************************************************)
EXTENDS Discovery

CONSTANTS
    MaxTokens,  \* max_tokens; payload i carries the prompt and i - 1 tokens
    Oversize    \* payloads ForwardPassRequest::build rejects

ASSUME StreamAssumption ==
    /\ MaxTokens \in Nat \ {0}
    /\ Oversize \subseteq 1..MaxTokens

VARIABLES
    task,              \* run_stream_client: see TaskStates
    pending_payload, inflight_payload,    \* NoPayload for None
    requests,          \* [id, payload, to]: outbound requests without an event
    next_id,           \* the next OutboundRequestId
    unsent,            \* the reply response_tx.send is suspended on
    requests_rx, response_tx,             \* the channels' contents
    driver,            \* the Generate loop: "running" or "left"
    submitted,         \* payloads it has submitted
    received           \* the replies it has received

slots    == <<pending_payload, inflight_payload>>
channels == <<requests_rx, response_tx>>
caller   == <<driver, submitted, received>>
vars     == <<discovery, task, slots, requests, next_id, unsent, channels, caller>>

Payloads   == 1..MaxTokens
NoPayload  == 0
Reply      == [kind : {"output", "empty"}, payload : Payloads] \cup [kind : {"err"}]
NoReply    == [kind |-> "none"]
TaskStates == {"running", "sending", "ok", "err", "aborted"}
Capacity   == 1     \* of both channels

TypeOK ==
    /\ DiscoveryTypeOK
    /\ task \in TaskStates
    /\ {pending_payload, inflight_payload} \subseteq Payloads \cup {NoPayload}
    /\ requests \subseteq [id : 1..(MaxTokens + MaxRetries), payload : Payloads, to : Peers]
    /\ unsent \in Reply \cup {NoReply}
    /\ requests_rx \in Seq(Payloads) /\ Len(requests_rx) <= Capacity
    /\ response_tx \in Seq(Reply) /\ Len(response_tx) <= Capacity
    /\ driver \in {"running", "left"}
    /\ submitted \in 0..MaxTokens /\ received \in Seq(Reply)

\* The workers have announced their layers before the session begins.
Init ==
    /\ DiscoveryInit
    /\ announced = [l \in LayerSet |-> {w \in Peers : l \in Serves[w]}]
    /\ task = "running"
    /\ pending_payload = NoPayload /\ inflight_payload = NoPayload
    /\ requests = {} /\ next_id = 1 /\ unsent = NoReply
    /\ requests_rx = <<>> /\ response_tx = <<>>
    /\ driver = "running" /\ submitted = 0 /\ received = <<>>

-----------------------------------------------------------------------------
(* run_stream_client *)

\* Build the request for p and send it to the head of the chain; a failing
\* build ends the task through `?`, with nothing sent on response_tx.
SendPayload(p, chain) ==
    IF p \in Oversize
    THEN /\ task' = "err"
         /\ UNCHANGED <<inflight_payload, requests, next_id>>
    ELSE /\ inflight_payload' = p
         /\ requests' = requests \cup {[id |-> next_id, payload |-> p, to |-> chain[1]]}
         /\ next_id' = next_id + 1
         /\ UNCHANGED task

RecvPayload ==
    /\ task = "running" /\ requests_rx # <<>>
    /\ requests_rx' = Tail(requests_rx)
    /\ IF chain_built
       THEN SendPayload(Head(requests_rx), current_chain) /\ UNCHANGED pending_payload
       ELSE /\ pending_payload' = Head(requests_rx)
            /\ UNCHANGED <<task, inflight_payload, requests, next_id>>
    /\ UNCHANGED <<discovery, unsent, response_tx, caller>>

\* Mutant: a closed channel does not end the loop.
RecvClosedIgnored ==
    /\ task = "running" /\ requests_rx = <<>> /\ driver = "left"
    /\ UNCHANGED vars

\* recv() = None: the caller is gone and its channel drained.
RecvClosed ==
    /\ task = "running" /\ requests_rx = <<>> /\ driver = "left"
    /\ task' = "ok"
    /\ UNCHANGED <<discovery, slots, requests, next_id, unsent, channels, caller>>

\* The Kademlia arm; a chain just built takes the pending payload with it.
Kademlia ==
    /\ task = "running"
    /\ KadEvent
    /\ IF ChainReady /\ pending_payload # NoPayload
       THEN SendPayload(pending_payload, current_chain') /\ pending_payload' = NoPayload
       ELSE UNCHANGED <<task, slots, requests, next_id>>
    /\ UNCHANGED <<unsent, channels, caller>>

\* Mutant: inflight_payload outlives its response.
ResponseKeepsInflight ==
    \E r \in requests, kind \in {"output", "empty"} :
        /\ task = "running"
        /\ requests' = requests \ {r}
        /\ unsent' = [kind |-> kind, payload |-> r.payload]
        /\ task' = "sending"
        /\ UNCHANGED <<discovery, slots, next_id, channels, caller>>

\* A Response event: the loop stops handling events until the reply is sent.
Response ==
    \E r \in requests, kind \in {"output", "empty"} :
        /\ task = "running"
        /\ requests' = requests \ {r}
        /\ inflight_payload' = NoPayload
        /\ unsent' = [kind |-> kind, payload |-> r.payload]
        /\ task' = "sending"
        /\ UNCHANGED <<discovery, pending_payload, next_id, channels, caller>>

\* Mutant: the payload in flight is not queued again.
OutboundFailureDropsPayload ==
    \E r \in requests :
        /\ task = "running"
        /\ requests' = requests \ {r}
        /\ \/ FailOver(r.to) /\ inflight_payload' = NoPayload
              /\ UNCHANGED <<task, unsent, pending_payload>>
           \/ /\ retry_count >= MaxRetries
              /\ unsent' = [kind |-> "err"] /\ task' = "sending"
              /\ UNCHANGED <<discovery, slots>>
        /\ UNCHANGED <<next_id, channels, caller>>

OutboundFailure ==
    \E r \in requests :
        /\ task = "running"
        /\ requests' = requests \ {r}
        /\ \/ /\ FailOver(r.to)
              /\ IF inflight_payload # NoPayload
                 THEN pending_payload' = inflight_payload /\ inflight_payload' = NoPayload
                 ELSE UNCHANGED slots
              /\ UNCHANGED <<task, unsent>>
           \/ /\ retry_count >= MaxRetries
              /\ unsent' = [kind |-> "err"]
              /\ task' = "sending"
              /\ UNCHANGED <<discovery, slots>>
        /\ UNCHANGED <<next_id, channels, caller>>

\* response_tx.send(..).await completes: there is room, or the receiver is
\* gone.  After an error the task returns it.
SendCompletes ==
    /\ task = "sending"
    /\ \/ /\ driver = "running" /\ Len(response_tx) < Capacity
          /\ response_tx' = Append(response_tx, unsent)
          /\ task' = IF unsent.kind = "err" THEN "err" ELSE "running"
       \/ /\ driver = "left"
          /\ task' = IF unsent.kind = "err" THEN "err" ELSE "ok"
          /\ UNCHANGED response_tx
    /\ unsent' = NoReply
    /\ UNCHANGED <<discovery, slots, requests, next_id, requests_rx, caller>>

TaskStep == RecvPayload \/ RecvClosed \/ Kademlia \/ Response \/ OutboundFailure
              \/ SendCompletes

-----------------------------------------------------------------------------
(* The Generate loop *)

Ended == task \in {"ok", "err", "aborted"}

\* Mutant: the loop submits the next payload before the answer to the last.
SubmitAhead ==
    /\ driver = "running" /\ ~Ended
    /\ submitted < MaxTokens /\ submitted <= Len(received) + 1
    /\ Len(requests_rx) < Capacity
    /\ submitted' = submitted + 1
    /\ requests_rx' = Append(requests_rx, submitted')
    /\ UNCHANGED <<discovery, task, slots, requests, next_id, unsent, response_tx, received,
                   driver>>

\* req_tx.send(payload).await
Submit ==
    /\ driver = "running"
    /\ submitted < MaxTokens /\ submitted = Len(received)
    /\ IF Ended
       THEN driver' = "left" /\ UNCHANGED <<submitted, requests_rx>>
       ELSE /\ Len(requests_rx) < Capacity
            /\ submitted' = submitted + 1
            /\ requests_rx' = Append(requests_rx, submitted')
            /\ UNCHANGED driver
    /\ UNCHANGED <<discovery, task, slots, requests, next_id, unsent, response_tx, received>>

\* res_rx.recv().await.  An error breaks the loop; an empty response fails in
\* Tensor::from_vec and ends it too; so does the last token.
Receive ==
    /\ driver = "running" /\ response_tx # <<>>
    /\ received' = Append(received, Head(response_tx))
    /\ response_tx' = Tail(response_tx)
    /\ driver' = IF Head(response_tx).kind # "output" \/ Len(received') = MaxTokens
                 THEN "left" ELSE "running"
    /\ UNCHANGED <<discovery, task, slots, requests, next_id, unsent, requests_rx, submitted>>

\* res_rx.recv() = None: "Pipeline closed".
ReceiveClosed ==
    /\ driver = "running" /\ response_tx = <<>> /\ Ended
    /\ Len(received) < submitted
    /\ driver' = "left"
    /\ UNCHANGED <<discovery, task, slots, requests, next_id, unsent, channels,
                   submitted, received>>

\* swarm_task.abort(), or the end of the runtime after a `?`: the task is
\* dropped at the await it has reached.
Abort ==
    /\ driver = "left" /\ ~Ended
    /\ task' = "aborted" /\ unsent' = NoReply
    /\ UNCHANGED <<discovery, slots, requests, next_id, channels, caller>>

DriverStep == Submit \/ Receive \/ ReceiveClosed

-----------------------------------------------------------------------------
Next == TaskStep \/ DriverStep \/ Abort
Spec == Init /\ [][Next]_vars

\* As in Client; both tasks are scheduled, and select! starves no branch.
Fairness ==
    /\ WF_vars(Kademlia /\ RoutingUpdated)
    /\ WF_vars(Kademlia /\ QueryEvent)
    /\ WF_vars(Kademlia /\ OtherKadEvent)
    /\ WF_vars(Response \/ OutboundFailure)
    /\ WF_vars(RecvPayload) /\ WF_vars(RecvClosed) /\ WF_vars(SendCompletes)
    /\ WF_vars(DriverStep)
FairSpec == Spec /\ Fairness

-----------------------------------------------------------------------------
(* Properties *)

\* In how many of the places a payload passes through p now is.
Copies(p) ==
    Cardinality({r \in requests : r.payload = p})
    + Cardinality({i \in DOMAIN requests_rx : requests_rx[i] = p})
    + (IF pending_payload = p THEN 1 ELSE 0)
    + (IF "payload" \in DOMAIN unsent /\ unsent.payload = p THEN 1 ELSE 0)
    + Cardinality({i \in DOMAIN response_tx :
                      response_tx[i].kind # "err" /\ response_tx[i].payload = p})

Serving == ~Ended /\ unsent.kind # "err" /\ driver = "running"

\* A payload the caller waits for is in exactly one place while the client
\* serves it: a failover neither loses it nor sends it twice.
EachPayloadInOnePlace ==
    Serving => \A p \in (Len(received) + 1)..submitted : Copies(p) = 1

\* inflight_payload is the payload of the one outbound request, so that what
\* an OutboundFailure puts back is what has failed.
InflightIsOutstanding ==
    task = "running" =>
        /\ \A r \in requests : r.payload = inflight_payload /\ chain_built
        /\ inflight_payload # NoPayload => requests # {}

Session == INSTANCE Pipeline WITH
    Window  <- 1,
    asked   <- submitted,
    replies <- [i \in {k \in DOMAIN received : received[k].kind # "err"} |->
                   received[i].payload],
    open    <- driver = "running"

\* The two tasks implement the lockstep pipeline: whatever the failovers in
\* between, the k-th reply the loop gets is the one to its k-th payload.
ImplementsPipeline == Session!Spec

\* The Generate loop ends, unless a lookup finds no provider; and no task
\* outlives the session: with the caller gone the client returns too, from
\* whichever of its waits it is in, though nobody may abort it.
SessionEnds == <>(driver = "left" \/ fruitless # {}) /\ (driver = "left" ~> Ended)
=============================================================================
