-------------------------- MODULE StreamClientProofs --------------------------
(***************************************************************************)
(* Proofs about StreamClient, for any number of tokens, retries, layers    *)
(* and workers, and any payloads that cannot be sent.                      *)
(*                                                                         *)
(* The loop and the client share one payload: the one submitted last and   *)
(* not answered yet.  The invariant says where it is.  It has at most one  *)
(* place; while the client serves, it has one; and what is in that place   *)
(* is that payload and no other.                                           *)
(***************************************************************************)
EXTENDS StreamClient, DiscoveryProofs

\* The places a payload passes through, in the order it does: the channel to
\* the client, pending_payload, an outbound request, the reply that is being
\* sent, and the channel back.
Queued    == requests_rx # <<>>
Pending   == pending_payload # NoPayload
Requested == requests # {}
Replying  == unsent # NoReply
Replied   == response_tx # <<>>
Somewhere == Queued \/ Pending \/ Requested \/ Replying \/ Replied

Outstanding == submitted = Len(received) + 1

\* The last payload is in one place at most, only while its answer is
\* outstanding, and then always unless the session is over.
OnePlace ==
    /\ Queued    => ~Pending /\ ~Requested /\ ~Replying /\ ~Replied
    /\ Pending   => ~Requested /\ ~Replying /\ ~Replied
    /\ Requested => ~Replying /\ ~Replied
    /\ Replying  => ~Replied
    /\ Outstanding \/ submitted = Len(received)
    /\ Somewhere => Outstanding
    /\ Outstanding /\ driver = "running" /\ ~Ended => Somewhere

\* A reply is the one to the payload submitted last, or an error.
ReplyToLast(a) == a \in Reply /\ (a.kind # "err" => a.payload = submitted)

\* What a place holds is the last payload, or the reply to it.
PlacesHoldLast ==
    /\ Queued  => requests_rx = <<submitted>>
    /\ Pending => pending_payload = submitted /\ ~chain_built
    /\ \A r, q \in requests : r = q
    /\ \A r \in requests : r.payload = submitted
    /\ Replying => ReplyToLast(unsent)
    /\ Replied  => \E a : /\ response_tx = <<a>> /\ ReplyToLast(a)
                          /\ a.kind = "err" => task = "err"

\* inflight_payload mirrors the request, and the client stops for a reply.
TaskFollows ==
    /\ task = "sending" <=> Replying
    /\ task = "running" /\ Requested => inflight_payload = submitted /\ chain_built
    /\ task \in {"running", "sending"} /\ inflight_payload # NoPayload =>
          Requested \/ unsent.kind = "err"

\* A request is made for each payload and for each retry, and not before.
RequestsCounted ==
    /\ next_id \in Nat \ {0} /\ next_id <= 1 + submitted + retry_count
    /\ Queued \/ Pending => next_id <= submitted + retry_count

\* While the loop runs it has had outputs only; an error or an empty reply was
\* the last; and the k-th reply is the one to the k-th payload.
RepliesInOrder ==
    /\ \A i \in 1..Len(received) : received[i].kind # "err" => received[i].payload = i
    /\ \A i \in 1..Len(received) : received[i].kind = "err" => i = Len(received)
    /\ driver = "running" =>
          /\ Len(received) < MaxTokens
          /\ \A i \in 1..Len(received) : received[i].kind = "output"

StreamInv ==
    /\ DiscoveryInv /\ TypeOK
    /\ OnePlace /\ PlacesHoldLast /\ TaskFollows /\ RequestsCounted /\ RepliesInOrder

-----------------------------------------------------------------------------
(* Lemmas *)

\* Types of what the proofs speak of.
LEMMA StreamTypes ==
    ASSUME TypeOK
    PROVE  /\ MaxTokens \in Nat \ {0} /\ MaxRetries \in Nat
           /\ retry_count \in 0..MaxRetries /\ chain_built \in BOOLEAN
           /\ submitted \in 0..MaxTokens /\ received \in Seq(Reply) /\ Len(received) \in Nat
           /\ requests_rx \in Seq(Payloads) /\ response_tx \in Seq(Reply)
           /\ pending_payload \in Payloads \cup {NoPayload}
           /\ inflight_payload \in Payloads \cup {NoPayload}
           /\ Payloads \subseteq Nat \ {0}
<1>1. MaxTokens \in Nat \ {0} /\ MaxRetries \in Nat
  BY StreamAssumption, DiscoveryAssumption
<1>2. received \in Seq(Reply) /\ Len(received) \in Nat
  BY DEF TypeOK
<1>3. Payloads \subseteq Nat \ {0}
  BY <1>1 DEF Payloads
<1> QED BY <1>1, <1>2, <1>3 DEF TypeOK, DiscoveryTypeOK

\* A channel that holds one thing.
LEMMA OneElement ==
    \A x : /\ Len(<<x>>) = 1 /\ Head(<<x>>) = x /\ Tail(<<x>>) = <<>> /\ <<x>> # <<>>
           /\ Append(<<>>, x) = <<x>> /\ <<x>>[1] = x
OBVIOUS

\* The channels take it, or nothing.
LEMMA ChannelTypes ==
    /\ Len(<<>>) <= Capacity /\ \A x : Len(<<x>>) <= Capacity
    /\ <<>> \in Seq(Payloads) /\ \A p \in Payloads : <<p>> \in Seq(Payloads)
    /\ <<>> \in Seq(Reply) /\ \A a \in Reply : <<a>> \in Seq(Reply)
<1>1. Len(<<>>) <= Capacity /\ \A x : Len(<<x>>) <= Capacity
  BY DEF Capacity
<1> QED BY <1>1

\* Replies are told from the absence of one.
LEMMA ReplyKinds ==
    /\ NoReply \notin Reply /\ NoReply.kind = "none" /\ NoReply.kind # "err"
    /\ \A p \in Payloads, kind \in {"output", "empty"} : [kind |-> kind, payload |-> p] \in Reply
    /\ [kind |-> "err"] \in Reply
    /\ \A a \in Reply : /\ a.kind \in {"output", "empty", "err"}
                        /\ a.kind # "err" => a.payload \in Payloads
BY DEF Reply, NoReply

-----------------------------------------------------------------------------
(* The client's steps *)

\* Sending the last payload moves it from where it waited to a request; a
\* payload of which no request can be built ends the client instead.
LEMMA SendKeeps ==
    ASSUME StreamInv, DiscoveryInv', task = "running",
           NEW chain \in Seq(Peers), chain # <<>>, SendPayload(submitted, chain),
           Queued \/ Pending, requests_rx' = <<>>, pending_payload' = NoPayload,
           chain_built', retry_count' = retry_count,
           UNCHANGED <<unsent, response_tx, driver, submitted, received>>
    PROVE  StreamInv'
<1>1. /\ ~Requested /\ ~Replying /\ ~Replied /\ Outstanding
      /\ next_id \in Nat \ {0} /\ next_id <= submitted + retry_count
  <2>1. ~Requested /\ ~Replying /\ ~Replied /\ Outstanding
    BY DEF StreamInv, OnePlace, Somewhere
  <2> QED BY <2>1 DEF StreamInv, RequestsCounted
<1>2. /\ submitted \in 0..MaxTokens /\ retry_count \in 0..MaxRetries
      /\ MaxTokens \in Nat \ {0} /\ MaxRetries \in Nat /\ Len(received) \in Nat
  BY StreamTypes DEF StreamInv
<1>3. submitted \in Payloads /\ submitted # NoPayload
  BY <1>1, <1>2 DEF Outstanding, Payloads, NoPayload
<1>4. ~Queued' /\ ~Pending' /\ ~Replying' /\ ~Replied' /\ Outstanding'
  BY <1>1 DEF Queued, Pending, Replying, Replied, Outstanding
<1>5. RepliesInOrder'
  BY DEF StreamInv, RepliesInOrder
<1>6. CASE submitted \in Oversize
  <2>1. task' = "err" /\ UNCHANGED <<inflight_payload, requests, next_id>>
    BY <1>6 DEF SendPayload
  <2>2. ~Requested'
    BY <1>1, <2>1 DEF Requested
  <2>3. TypeOK'
    BY <2>1, ChannelTypes DEF StreamInv, TypeOK, DiscoveryInv, TaskStates
  <2>4. OnePlace'
    BY <1>4, <2>1, <2>2 DEF OnePlace, Somewhere, Ended
  <2>5. PlacesHoldLast'
    BY <1>4, <2>2 DEF PlacesHoldLast, Requested
  <2>6. TaskFollows'
    BY <1>4, <2>1 DEF TaskFollows
  <2>7. RequestsCounted'
    BY <1>4, <2>1 DEF StreamInv, RequestsCounted
  <2> QED BY <1>5, <2>3, <2>4, <2>5, <2>6, <2>7 DEF StreamInv
<1>7. CASE submitted \notin Oversize
  <2> DEFINE r == [id |-> next_id, payload |-> submitted, to |-> chain[1]]
  <2>1. /\ inflight_payload' = submitted /\ next_id' = next_id + 1 /\ task' = "running"
        /\ requests' = requests \cup {r}
    BY <1>7 DEF SendPayload
  <2>2. requests' = {r} /\ Requested'
    BY <1>1, <2>1 DEF Requested
  <2>3. r \in [id : 1..(MaxTokens + MaxRetries), payload : Payloads, to : Peers]
    <3>1. next_id \in 1..(MaxTokens + MaxRetries)
      BY <1>1, <1>2
    <3>2. chain[1] \in Peers
      OBVIOUS
    <3> QED BY <1>3, <3>1, <3>2
  <2>4. r.payload = submitted
    OBVIOUS
  <2> HIDE DEF r
  <2>5. TypeOK'
    BY <1>3, <2>1, <2>2, <2>3, ChannelTypes DEF StreamInv, TypeOK, DiscoveryInv, TaskStates
  <2>6. OnePlace'
    BY <1>4, <2>1, <2>2 DEF OnePlace, Somewhere
  <2>7. PlacesHoldLast'
    BY <1>4, <2>2, <2>4 DEF PlacesHoldLast
  <2>8. TaskFollows'
    BY <1>4, <2>1, <2>2 DEF TaskFollows
  <2>9. RequestsCounted'
    BY <1>1, <1>2, <1>4, <2>1 DEF RequestsCounted
  <2> QED BY <1>5, <2>5, <2>6, <2>7, <2>8, <2>9 DEF StreamInv
<1> QED BY <1>6, <1>7

\* A step of discovery that sends nothing disturbs nothing else: if it builds
\* a chain, no payload is pending.
LEMMA DiscoveryStepKeeps ==
    ASSUME StreamInv, DiscoveryInv', retry_count' = retry_count,
           \/ chain_built' = chain_built
           \/ chain_built' = TRUE /\ pending_payload = NoPayload,
           UNCHANGED <<task, slots, requests, next_id, unsent, channels, caller>>
    PROVE  StreamInv'
<1>1. /\ task' = task /\ requests' = requests /\ next_id' = next_id /\ unsent' = unsent
      /\ pending_payload' = pending_payload /\ inflight_payload' = inflight_payload
      /\ requests_rx' = requests_rx /\ response_tx' = response_tx
      /\ driver' = driver /\ submitted' = submitted /\ received' = received
  BY DEF slots, channels, caller
<1>2. /\ Queued' = Queued /\ Pending' = Pending /\ Requested' = Requested
      /\ Replying' = Replying /\ Replied' = Replied
  BY <1>1 DEF Queued, Pending, Requested, Replying, Replied
<1>3. TypeOK'
  BY <1>1 DEF StreamInv, TypeOK, DiscoveryInv
<1>4. OnePlace'
  BY <1>1, <1>2 DEF StreamInv, OnePlace, Somewhere, Outstanding, Ended
<1>5. PlacesHoldLast'
  BY <1>1, <1>2 DEF StreamInv, PlacesHoldLast, ReplyToLast, Pending
<1>6. TaskFollows'
  BY <1>1, <1>2 DEF StreamInv, TaskFollows
<1>7. RequestsCounted' /\ RepliesInOrder'
  BY <1>1, <1>2 DEF StreamInv, RequestsCounted, RepliesInOrder
<1> QED BY <1>3, <1>4, <1>5, <1>6, <1>7 DEF StreamInv

\* A payload that arrives is sent at once along a chain that stands, and waits
\* for one otherwise.
LEMMA RecvPayloadKeeps ==
    ASSUME StreamInv, RecvPayload
    PROVE  StreamInv'
<1>1. DiscoveryInv' /\ chain_built' = chain_built /\ retry_count' = retry_count
  BY DiscoveryKept DEF RecvPayload, StreamInv
<1>2. /\ task = "running" /\ Queued /\ requests_rx = <<submitted>>
      /\ requests_rx' = Tail(requests_rx)
      /\ UNCHANGED <<unsent, response_tx, driver, submitted, received>>
  BY DEF RecvPayload, caller, StreamInv, PlacesHoldLast, Queued
<1>3. Head(requests_rx) = submitted /\ requests_rx' = <<>>
  BY <1>2, OneElement
<1>4. ~Pending /\ ~Requested /\ ~Replying /\ ~Replied /\ Outstanding
  BY <1>2 DEF StreamInv, OnePlace, Somewhere
<1>5. CASE chain_built
  <2>1. SendPayload(submitted, current_chain) /\ pending_payload' = NoPayload
    BY <1>3, <1>4, <1>5 DEF RecvPayload, Pending
  <2>2. current_chain \in Seq(Peers) /\ current_chain # <<>>
    BY <1>5 DEF StreamInv, DiscoveryInv, ChainOK, DiscoveryTypeOK
  <2> QED BY <1>1, <1>2, <1>3, <1>5, <2>1, <2>2, SendKeeps
<1>6. CASE ~chain_built
  <2>1. /\ pending_payload' = submitted
        /\ UNCHANGED <<task, inflight_payload, requests, next_id>>
    BY <1>3, <1>6 DEF RecvPayload
  <2>2. submitted \in Payloads /\ submitted # NoPayload
    BY <1>4, StreamTypes DEF StreamInv, Outstanding, Payloads, NoPayload
  <2>3. ~Queued' /\ Pending' /\ ~Requested' /\ ~Replying' /\ ~Replied' /\ Outstanding'
    BY <1>2, <1>3, <1>4, <2>1, <2>2
       DEF Queued, Pending, Requested, Replying, Replied, Outstanding
  <2>4. TypeOK'
    BY <1>1, <1>2, <1>3, <2>1, <2>2, ChannelTypes DEF StreamInv, TypeOK, DiscoveryInv
  <2>5. OnePlace'
    BY <2>3 DEF OnePlace, Somewhere
  <2>6. PlacesHoldLast'
    BY <1>1, <1>2, <1>6, <2>1, <2>3 DEF PlacesHoldLast, Requested
  <2>7. TaskFollows'
    BY <1>2, <1>4, <2>1, <2>3 DEF StreamInv, TaskFollows
  <2>8. RequestsCounted' /\ RepliesInOrder'
    BY <1>1, <1>2, <2>1, <2>3 DEF StreamInv, RequestsCounted, RepliesInOrder
  <2> QED BY <1>1, <2>4, <2>5, <2>6, <2>7, <2>8 DEF StreamInv
<1> QED BY <1>1, <1>5, <1>6, StreamTypes DEF StreamInv

\* A chain that the Kademlia arm builds takes the pending payload with it.
LEMMA KademliaKeeps ==
    ASSUME StreamInv, Kademlia
    PROVE  StreamInv'
<1>1. /\ DiscoveryInv' /\ retry_count' = retry_count
      /\ chain_built' = (chain_built \/ ChainReady)
      /\ ChainReady => current_chain' \in Seq(Peers) /\ current_chain' # <<>>
  BY KadEventKeeps DEF Kademlia, StreamInv
<1>2. task = "running" /\ UNCHANGED <<unsent, channels, caller>>
  BY DEF Kademlia
<1>3. CASE ChainReady /\ pending_payload # NoPayload
  <2>1. SendPayload(pending_payload, current_chain') /\ pending_payload' = NoPayload
    BY <1>3 DEF Kademlia
  <2>2. Pending /\ pending_payload = submitted /\ ~Queued
    BY <1>3 DEF StreamInv, PlacesHoldLast, OnePlace, Pending
  <2>3. chain_built' /\ requests_rx' = <<>>
    BY <1>1, <1>2, <1>3, <2>2 DEF Queued, channels
  <2>4. UNCHANGED <<unsent, response_tx, driver, submitted, received>>
    BY <1>2 DEF channels, caller
  <2>5. current_chain' \in Seq(Peers) /\ current_chain' # <<>>
    BY <1>1, <1>3
  <2>6. SendPayload(submitted, current_chain')
    BY <2>1, <2>2
  <2> QED BY <1>1, <1>2, <2>1, <2>2, <2>3, <2>4, <2>5, <2>6, SendKeeps
<1>4. CASE ~(ChainReady /\ pending_payload # NoPayload)
  <2>1. UNCHANGED <<task, slots, requests, next_id>>
    BY <1>4 DEF Kademlia
  <2>2. \/ chain_built' = chain_built
        \/ chain_built' = TRUE /\ pending_payload = NoPayload
    <3>1. CASE ChainReady
      BY <1>1, <1>4, <3>1
    <3>2. CASE ~ChainReady
      BY <1>1, <3>2, StreamTypes DEF StreamInv
    <3> QED BY <3>1, <3>2
  <2> QED BY <1>1, <1>2, <2>1, <2>2, DiscoveryStepKeeps
<1> QED BY <1>3, <1>4

\* Nobody is left to serve: the client returns, with nothing in a place that
\* it would have to give up.
LEMMA RecvClosedKeeps ==
    ASSUME StreamInv, RecvClosed
    PROVE  StreamInv'
<1>1. DiscoveryInv' /\ chain_built' = chain_built /\ retry_count' = retry_count
  BY DiscoveryKept DEF RecvClosed, StreamInv
<1>2. /\ task = "running" /\ task' = "ok" /\ driver = "left" /\ driver' = driver
      /\ requests' = requests /\ next_id' = next_id /\ unsent' = unsent
      /\ pending_payload' = pending_payload /\ inflight_payload' = inflight_payload
      /\ requests_rx' = requests_rx /\ response_tx' = response_tx
      /\ submitted' = submitted /\ received' = received
  BY DEF RecvClosed, slots, channels, caller
<1>3. /\ Queued' = Queued /\ Pending' = Pending /\ Requested' = Requested
      /\ Replying' = Replying /\ Replied' = Replied
  BY <1>2 DEF Queued, Pending, Requested, Replying, Replied
<1>4. TypeOK'
  BY <1>1, <1>2 DEF StreamInv, TypeOK, DiscoveryInv, TaskStates
<1>5. OnePlace'
  BY <1>2, <1>3 DEF StreamInv, OnePlace, Somewhere, Outstanding, Ended
<1>6. PlacesHoldLast'
  <2>1. \A a : ~(response_tx = <<a>> /\ a.kind = "err" /\ Replied /\ task # "err")
    BY OneElement DEF StreamInv, PlacesHoldLast
  <2> QED BY <1>1, <1>2, <1>3, <2>1 DEF StreamInv, PlacesHoldLast, ReplyToLast
<1>7. TaskFollows' /\ RequestsCounted' /\ RepliesInOrder'
  BY <1>1, <1>2, <1>3 DEF StreamInv, TaskFollows, RequestsCounted, RepliesInOrder
<1> QED BY <1>1, <1>4, <1>5, <1>6, <1>7 DEF StreamInv

\* A response turns the request into the reply to the same payload.
LEMMA ResponseKeeps ==
    ASSUME StreamInv, Response
    PROVE  StreamInv'
<1>1. DiscoveryInv' /\ chain_built' = chain_built /\ retry_count' = retry_count
  BY DiscoveryKept DEF Response, StreamInv
<1>2. PICK r \in requests, kind \in {"output", "empty"} :
        /\ task = "running"
        /\ requests' = requests \ {r}
        /\ inflight_payload' = NoPayload
        /\ unsent' = [kind |-> kind, payload |-> r.payload]
        /\ task' = "sending"
        /\ UNCHANGED <<discovery, pending_payload, next_id, channels, caller>>
  BY DEF Response
<1>3. /\ pending_payload' = pending_payload /\ next_id' = next_id
      /\ requests_rx' = requests_rx /\ response_tx' = response_tx
      /\ driver' = driver /\ submitted' = submitted /\ received' = received
  BY <1>2 DEF channels, caller
<1>4. Requested /\ ~Queued /\ ~Pending /\ ~Replied /\ Outstanding
  BY <1>2 DEF StreamInv, OnePlace, Requested, Somewhere
<1>5. requests' = {} /\ r.payload = submitted
  BY <1>2 DEF StreamInv, PlacesHoldLast
<1>6. submitted \in Payloads
  BY <1>4, StreamTypes DEF StreamInv, Outstanding, Payloads
<1>7. /\ unsent' \in Reply /\ unsent' # NoReply
      /\ unsent'.kind # "err" => unsent'.payload = submitted
  BY <1>2, <1>5, <1>6, ReplyKinds
<1>8. Replying' /\ ~Requested' /\ ~Queued' /\ ~Pending' /\ ~Replied' /\ Outstanding'
  BY <1>3, <1>4, <1>5, <1>7 DEF Replying, Requested, Queued, Pending, Replied, Outstanding
<1>9. TypeOK'
  BY <1>1, <1>2, <1>3, <1>5, <1>7 DEF StreamInv, TypeOK, DiscoveryInv, TaskStates
<1>10. OnePlace' /\ TaskFollows'
  BY <1>2, <1>8 DEF OnePlace, Somewhere, TaskFollows
<1>11. PlacesHoldLast'
  BY <1>3, <1>5, <1>7, <1>8 DEF PlacesHoldLast, ReplyToLast
<1>12. RequestsCounted' /\ RepliesInOrder'
  BY <1>1, <1>3, <1>8 DEF StreamInv, RequestsCounted, RepliesInOrder
<1> QED BY <1>1, <1>9, <1>10, <1>11, <1>12 DEF StreamInv

\* A failure puts the payload that failed back to pending while a retry is
\* left, and turns it into an error otherwise.
LEMMA OutboundFailureKeeps ==
    ASSUME StreamInv, OutboundFailure
    PROVE  StreamInv'
<1>1. PICK r \in requests :
        /\ task = "running"
        /\ requests' = requests \ {r}
        /\ \/ /\ FailOver(r.to)
              /\ IF inflight_payload # NoPayload
                 THEN pending_payload' = inflight_payload /\ inflight_payload' = NoPayload
                 ELSE UNCHANGED slots
              /\ UNCHANGED <<task, unsent>>
           \/ /\ retry_count >= MaxRetries
              /\ unsent' = [kind |-> "err"]
              /\ task' = "sending"
              /\ UNCHANGED <<discovery, slots>>
        /\ UNCHANGED <<next_id, channels, caller>>
  BY DEF OutboundFailure
<1>2. /\ next_id' = next_id /\ requests_rx' = requests_rx /\ response_tx' = response_tx
      /\ driver' = driver /\ submitted' = submitted /\ received' = received
  BY <1>1 DEF channels, caller
<1>3. Requested /\ ~Queued /\ ~Pending /\ ~Replying /\ ~Replied /\ Outstanding
  BY <1>1 DEF StreamInv, OnePlace, Requested, Somewhere
<1>4. requests' = {} /\ inflight_payload = submitted
  BY <1>1, <1>3 DEF StreamInv, PlacesHoldLast, TaskFollows
<1>5. /\ submitted \in Payloads /\ submitted # NoPayload
      /\ submitted \in Nat /\ retry_count \in Nat
  BY <1>3, StreamTypes DEF StreamInv, Outstanding, Payloads, NoPayload
<1>6. ~Queued' /\ ~Requested' /\ ~Replied' /\ Outstanding' /\ RepliesInOrder'
  BY <1>2, <1>3, <1>4
     DEF Queued, Requested, Replied, Outstanding, StreamInv, RepliesInOrder
<1>7. next_id \in Nat \ {0} /\ next_id <= 1 + submitted + retry_count
  BY DEF StreamInv, RequestsCounted
<1>8. CASE /\ FailOver(r.to)
           /\ pending_payload' = inflight_payload /\ inflight_payload' = NoPayload
           /\ UNCHANGED <<task, unsent>>
  <2>1. DiscoveryInv' /\ chain_built' = FALSE /\ retry_count' = retry_count + 1
    BY <1>8, FailOverKeeps DEF StreamInv
  <2>2. Pending' /\ ~Replying'
    BY <1>3, <1>4, <1>5, <1>8 DEF Pending, Replying
  <2>3. TypeOK'
    BY <1>2, <1>4, <1>5, <1>8, <2>1 DEF StreamInv, TypeOK, DiscoveryInv
  <2>4. OnePlace' /\ TaskFollows'
    BY <1>1, <1>6, <1>8, <2>2 DEF OnePlace, Somewhere, TaskFollows
  <2>5. PlacesHoldLast'
    BY <1>2, <1>4, <1>6, <1>8, <2>1, <2>2 DEF PlacesHoldLast
  <2>6. RequestsCounted'
    BY <1>2, <1>5, <1>7, <2>1 DEF RequestsCounted
  <2> QED BY <1>6, <2>1, <2>3, <2>4, <2>5, <2>6 DEF StreamInv
<1>9. CASE /\ unsent' = [kind |-> "err"]
           /\ task' = "sending"
           /\ UNCHANGED <<discovery, slots>>
  <2>1. DiscoveryInv' /\ chain_built' = chain_built /\ retry_count' = retry_count
    BY <1>9, DiscoveryKept DEF StreamInv
  <2>2. pending_payload' = pending_payload /\ inflight_payload' = inflight_payload
    BY <1>9 DEF slots
  <2>3. ReplyToLast(unsent)' /\ Replying' /\ ~Pending'
    BY <1>3, <1>9, <2>2, ReplyKinds DEF ReplyToLast, Replying, Pending
  <2>4. TypeOK'
    BY <1>2, <1>4, <1>9, <2>1, <2>2, <2>3
       DEF StreamInv, TypeOK, DiscoveryInv, TaskStates, ReplyToLast
  <2>5. OnePlace' /\ TaskFollows'
    BY <1>6, <1>9, <2>3 DEF OnePlace, Somewhere, TaskFollows
  <2>6. PlacesHoldLast'
    BY <1>4, <1>6, <2>3 DEF PlacesHoldLast
  <2>7. RequestsCounted'
    BY <1>2, <1>6, <1>7, <2>1, <2>3 DEF RequestsCounted
  <2> QED BY <1>6, <2>1, <2>4, <2>5, <2>6, <2>7 DEF StreamInv
<1> QED BY <1>1, <1>4, <1>5, <1>8, <1>9

\* The reply goes into the channel, or nowhere when the loop has gone.
LEMMA SendCompletesKeeps ==
    ASSUME StreamInv, SendCompletes
    PROVE  StreamInv'
<1>1. DiscoveryInv' /\ chain_built' = chain_built /\ retry_count' = retry_count
  BY DiscoveryKept DEF SendCompletes, StreamInv
<1>2. /\ task = "sending" /\ unsent' = NoReply
      /\ requests' = requests /\ next_id' = next_id
      /\ pending_payload' = pending_payload /\ inflight_payload' = inflight_payload
      /\ requests_rx' = requests_rx
      /\ driver' = driver /\ submitted' = submitted /\ received' = received
  BY DEF SendCompletes, slots, caller
<1>3. Replying /\ ~Queued /\ ~Pending /\ ~Requested /\ ~Replied /\ Outstanding
  BY <1>2 DEF StreamInv, OnePlace, TaskFollows, Somewhere
<1>4. ReplyToLast(unsent) /\ response_tx = <<>>
  BY <1>3 DEF StreamInv, PlacesHoldLast, Replied
<1>5. ~Replying' /\ ~Queued' /\ ~Pending' /\ ~Requested' /\ Outstanding'
  BY <1>2, <1>3 DEF Replying, Queued, Pending, Requested, Outstanding
<1>6. RequestsCounted' /\ RepliesInOrder'
  BY <1>1, <1>2, <1>5 DEF StreamInv, RequestsCounted, RepliesInOrder
<1>7. task' = "running" => inflight_payload' = NoPayload
  <2>1. task' = "running" => unsent.kind # "err"
    BY DEF SendCompletes
  <2> QED BY <1>2, <1>3, <2>1 DEF StreamInv, TaskFollows
<1>8. task' \in {"running", "ok", "err"} /\ (unsent.kind = "err" => task' = "err")
  BY DEF SendCompletes
<1>9. TaskFollows'
  BY <1>5, <1>7, <1>8 DEF TaskFollows
<1>10. CASE driver = "running" /\ response_tx' = Append(response_tx, unsent)
  <2>1. response_tx' = <<unsent>> /\ Replied'
    BY <1>4, <1>10, OneElement DEF Replied
  <2>2. TypeOK'
    BY <1>1, <1>2, <1>4, <1>8, <2>1, ChannelTypes
       DEF StreamInv, TypeOK, DiscoveryInv, TaskStates, ReplyToLast
  <2>3. OnePlace'
    BY <1>5, <2>1 DEF OnePlace, Somewhere
  <2>4. PlacesHoldLast'
    BY <1>2, <1>3, <1>4, <1>5, <1>8, <2>1 DEF PlacesHoldLast, ReplyToLast, Requested
  <2> QED BY <1>1, <1>6, <1>9, <2>2, <2>3, <2>4 DEF StreamInv
<1>11. CASE driver = "left" /\ response_tx' = response_tx
  <2>1. ~Replied'
    BY <1>4, <1>11 DEF Replied
  <2>2. TypeOK'
    BY <1>1, <1>2, <1>8, <1>11 DEF StreamInv, TypeOK, DiscoveryInv, TaskStates
  <2>3. OnePlace'
    BY <1>2, <1>5, <1>11, <2>1 DEF OnePlace, Somewhere
  <2>4. PlacesHoldLast'
    BY <1>2, <1>3, <1>5, <2>1 DEF PlacesHoldLast, Requested
  <2> QED BY <1>1, <1>6, <1>9, <2>2, <2>3, <2>4 DEF StreamInv
<1> QED BY <1>10, <1>11 DEF SendCompletes

-----------------------------------------------------------------------------
(* The loop's steps *)

\* The loop submits its next payload when it has the answer to the last.
LEMMA SubmitKeeps ==
    ASSUME StreamInv, Submit
    PROVE  StreamInv'
<1>1. DiscoveryInv' /\ chain_built' = chain_built /\ retry_count' = retry_count
  BY DiscoveryKept DEF Submit, StreamInv
<1>2. /\ driver = "running" /\ submitted < MaxTokens /\ submitted = Len(received)
      /\ task' = task /\ requests' = requests /\ next_id' = next_id /\ unsent' = unsent
      /\ pending_payload' = pending_payload /\ inflight_payload' = inflight_payload
      /\ response_tx' = response_tx /\ received' = received
  BY DEF Submit, slots
<1>3. /\ submitted \in Nat /\ Len(received) \in Nat /\ MaxTokens \in Nat
      /\ retry_count \in Nat /\ next_id \in Nat \ {0}
      /\ next_id <= 1 + submitted + retry_count
  BY StreamTypes DEF StreamInv, RequestsCounted
<1>4. ~Outstanding /\ ~Somewhere
  BY <1>2, <1>3 DEF StreamInv, OnePlace, Outstanding
<1>5. ~Pending' /\ ~Requested' /\ ~Replying' /\ ~Replied'
  BY <1>2, <1>4 DEF Somewhere, Pending, Requested, Replying, Replied
<1>6. TaskFollows'
  BY <1>1, <1>2, <1>4, <1>5 DEF StreamInv, TaskFollows, Somewhere
<1>7. CASE Ended
  <2>1. driver' = "left" /\ submitted' = submitted /\ requests_rx' = requests_rx
    BY <1>7 DEF Submit
  <2>2. ~Queued' /\ submitted' = Len(received')
    BY <1>2, <1>4, <2>1 DEF Somewhere, Queued
  <2>3. TypeOK'
    BY <1>1, <1>2, <2>1 DEF StreamInv, TypeOK, DiscoveryInv
  <2>4. OnePlace' /\ PlacesHoldLast'
    BY <1>5, <2>1, <2>2 DEF OnePlace, PlacesHoldLast, Somewhere, Requested
  <2>5. RequestsCounted' /\ RepliesInOrder'
    BY <1>1, <1>2, <1>5, <2>1, <2>2 DEF StreamInv, RequestsCounted, RepliesInOrder
  <2> QED BY <1>1, <1>6, <2>3, <2>4, <2>5 DEF StreamInv
<1>8. CASE ~Ended
  <2>1. /\ submitted' = submitted + 1 /\ requests_rx' = Append(requests_rx, submitted')
        /\ driver' = driver
    BY <1>8 DEF Submit
  <2>2. requests_rx' = <<submitted'>> /\ Queued'
    BY <1>4, <2>1, OneElement DEF Somewhere, Queued
  <2>3. submitted' \in Payloads /\ submitted' \in 0..MaxTokens /\ Outstanding'
    BY <1>2, <1>3, <2>1 DEF Payloads, Outstanding
  <2>4. TypeOK'
    BY <1>1, <1>2, <2>1, <2>2, <2>3, ChannelTypes DEF StreamInv, TypeOK, DiscoveryInv
  <2>5. OnePlace' /\ PlacesHoldLast'
    BY <1>5, <2>2, <2>3 DEF OnePlace, PlacesHoldLast, Somewhere, Requested
  <2>6. RequestsCounted'
    BY <1>1, <1>2, <1>3, <2>1 DEF RequestsCounted
  <2>7. RepliesInOrder'
    BY <1>2, <2>1 DEF StreamInv, RepliesInOrder
  <2> QED BY <1>1, <1>6, <2>4, <2>5, <2>6, <2>7 DEF StreamInv
<1> QED BY <1>7, <1>8

\* The answer comes back, and no place holds the payload any more.
LEMMA ReceiveKeeps ==
    ASSUME StreamInv, Receive
    PROVE  StreamInv'
<1>1. DiscoveryInv' /\ chain_built' = chain_built /\ retry_count' = retry_count
  BY DiscoveryKept DEF Receive, StreamInv
<1>2. /\ driver = "running" /\ Replied
      /\ task' = task /\ requests' = requests /\ next_id' = next_id /\ unsent' = unsent
      /\ pending_payload' = pending_payload /\ inflight_payload' = inflight_payload
      /\ requests_rx' = requests_rx /\ submitted' = submitted
      /\ driver' \in {"running", "left"}
  BY DEF Receive, slots, Replied
<1>3. PICK a : response_tx = <<a>> /\ ReplyToLast(a)
  BY <1>2 DEF StreamInv, PlacesHoldLast
<1>4. /\ response_tx' = <<>> /\ received' = Append(received, a)
      /\ driver' = "running" => a.kind = "output" /\ Len(received') # MaxTokens
  BY <1>3, OneElement DEF Receive
<1>5. /\ Outstanding /\ ~Queued /\ ~Pending /\ ~Requested /\ ~Replying
  BY <1>2 DEF StreamInv, OnePlace, Somewhere
<1>6. /\ received \in Seq(Reply) /\ Len(received) \in Nat /\ MaxTokens \in Nat
      /\ submitted \in 0..MaxTokens /\ submitted \in Nat
  BY StreamTypes DEF StreamInv
<1>7. a \in Reply /\ (a.kind # "err" => a.payload = submitted)
  BY <1>3 DEF ReplyToLast
<1>8. /\ received' \in Seq(Reply) /\ Len(received') = Len(received) + 1
      /\ received'[Len(received) + 1] = a
      /\ \A i \in 1..Len(received) : received'[i] = received[i]
  BY <1>4, <1>6, <1>7, AppendFacts
<1>9. submitted' = Len(received') /\ ~Outstanding'
  BY <1>2, <1>5, <1>6, <1>8 DEF Outstanding
<1>10. ~Queued' /\ ~Pending' /\ ~Requested' /\ ~Replying' /\ ~Replied'
  BY <1>2, <1>4, <1>5 DEF Queued, Pending, Requested, Replying, Replied
<1>11. TypeOK'
  BY <1>1, <1>2, <1>4, <1>8, ChannelTypes DEF StreamInv, TypeOK, DiscoveryInv
<1>12. OnePlace' /\ PlacesHoldLast'
  BY <1>9, <1>10 DEF OnePlace, PlacesHoldLast, Somewhere, Requested
<1>13. TaskFollows' /\ RequestsCounted'
  BY <1>1, <1>2, <1>5, <1>10 DEF StreamInv, TaskFollows, RequestsCounted
<1>14. RepliesInOrder'
  <2>1. \A i \in 1..Len(received') : i \in 1..Len(received) \/ i = Len(received) + 1
    BY <1>6, <1>8
  <2>2. /\ \A i \in 1..Len(received) : received[i].kind = "output" /\ received[i].payload = i
        /\ Len(received) < MaxTokens
    BY <1>2 DEF StreamInv, RepliesInOrder
  <2>3. a.kind # "err" => a.payload = Len(received) + 1
    BY <1>5, <1>7 DEF Outstanding
  <2>4. \A i \in 1..Len(received') : received'[i].kind # "err" => received'[i].payload = i
    BY <1>8, <2>1, <2>2, <2>3
  <2>5. \A i \in 1..Len(received') : received'[i].kind = "err" => i = Len(received')
    BY <1>8, <2>1, <2>2
  <2>6. driver' = "running" =>
          /\ Len(received') < MaxTokens
          /\ \A i \in 1..Len(received') : received'[i].kind = "output"
    BY <1>4, <1>6, <1>8, <2>1, <2>2
  <2> QED BY <2>4, <2>5, <2>6 DEF RepliesInOrder
<1> QED BY <1>1, <1>11, <1>12, <1>13, <1>14 DEF StreamInv

\* The loop leaves when the client has ended without an answer.
LEMMA ReceiveClosedKeeps ==
    ASSUME StreamInv, ReceiveClosed
    PROVE  StreamInv'
<1>1. DiscoveryInv' /\ chain_built' = chain_built /\ retry_count' = retry_count
  BY DiscoveryKept DEF ReceiveClosed, StreamInv
<1>2. /\ driver' = "left"
      /\ task' = task /\ requests' = requests /\ next_id' = next_id /\ unsent' = unsent
      /\ pending_payload' = pending_payload /\ inflight_payload' = inflight_payload
      /\ requests_rx' = requests_rx /\ response_tx' = response_tx
      /\ submitted' = submitted /\ received' = received
  BY DEF ReceiveClosed, slots, channels
<1>3. /\ Queued' = Queued /\ Pending' = Pending /\ Requested' = Requested
      /\ Replying' = Replying /\ Replied' = Replied
  BY <1>2 DEF Queued, Pending, Requested, Replying, Replied
<1>4. TypeOK'
  BY <1>1, <1>2 DEF StreamInv, TypeOK, DiscoveryInv
<1>5. OnePlace'
  BY <1>2, <1>3 DEF StreamInv, OnePlace, Somewhere, Outstanding
<1>6. PlacesHoldLast'
  BY <1>1, <1>2, <1>3 DEF StreamInv, PlacesHoldLast, ReplyToLast
<1>7. TaskFollows' /\ RequestsCounted' /\ RepliesInOrder'
  BY <1>1, <1>2, <1>3 DEF StreamInv, TaskFollows, RequestsCounted, RepliesInOrder
<1> QED BY <1>1, <1>4, <1>5, <1>6, <1>7 DEF StreamInv

\* An aborted client leaves nothing that anyone would use.
LEMMA AbortKeeps ==
    ASSUME StreamInv, Abort
    PROVE  StreamInv'
<1>1. DiscoveryInv' /\ chain_built' = chain_built /\ retry_count' = retry_count
  BY DiscoveryKept DEF Abort, StreamInv
<1>2. /\ driver = "left" /\ driver' = driver /\ ~Ended
      /\ task' = "aborted" /\ unsent' = NoReply
      /\ requests' = requests /\ next_id' = next_id
      /\ pending_payload' = pending_payload /\ inflight_payload' = inflight_payload
      /\ requests_rx' = requests_rx /\ response_tx' = response_tx
      /\ submitted' = submitted /\ received' = received
  BY DEF Abort, slots, channels, caller
<1>3. /\ Queued' = Queued /\ Pending' = Pending /\ Requested' = Requested
      /\ ~Replying' /\ Replied' = Replied
  BY <1>2 DEF Queued, Pending, Requested, Replying, Replied
<1>4. TypeOK'
  BY <1>1, <1>2 DEF StreamInv, TypeOK, DiscoveryInv, TaskStates
<1>5. OnePlace'
  BY <1>2, <1>3 DEF StreamInv, OnePlace, Somewhere, Outstanding
<1>6. PlacesHoldLast'
  <2>1. task # "err"
    BY <1>2 DEF Ended
  <2> QED BY <1>1, <1>2, <1>3, <2>1 DEF StreamInv, PlacesHoldLast, ReplyToLast
<1>7. TaskFollows' /\ RequestsCounted' /\ RepliesInOrder'
  BY <1>1, <1>2, <1>3 DEF StreamInv, TaskFollows, RequestsCounted, RepliesInOrder
<1> QED BY <1>1, <1>4, <1>5, <1>6, <1>7 DEF StreamInv

-----------------------------------------------------------------------------
(* The invariant of the session *)

\* The invariant holds initially,
LEMMA StreamInvInit == Init => StreamInv
<1> SUFFICES ASSUME Init PROVE StreamInv
  OBVIOUS
<1>1. DiscoveryInv
  <2>1. announced = [l \in LayerSet |-> {w \in Peers : l \in Serves[w]}]
    BY DEF Init
  <2>2. AnnouncedServe /\ announced \in [LayerSet -> SUBSET Peers]
    BY <2>1 DEF AnnouncedServe
  <2> QED BY <2>2, DiscoveryInvInit DEF Init
<1>2. /\ task = "running" /\ driver = "running" /\ submitted = 0 /\ received = <<>>
      /\ pending_payload = NoPayload /\ inflight_payload = NoPayload
      /\ requests = {} /\ next_id = 1 /\ unsent = NoReply
      /\ requests_rx = <<>> /\ response_tx = <<>> /\ retry_count = 0
  BY DEF Init, DiscoveryInit
<1>3. MaxTokens \in Nat \ {0} /\ 0 \in 0..MaxTokens
  BY StreamAssumption
<1>4. ~Queued /\ ~Pending /\ ~Requested /\ ~Replying /\ ~Replied
  BY <1>2 DEF Queued, Pending, Requested, Replying, Replied
<1>5. TypeOK
  BY <1>1, <1>2, <1>3, ChannelTypes DEF TypeOK, DiscoveryInv, TaskStates
<1>6. OnePlace /\ PlacesHoldLast /\ TaskFollows /\ RequestsCounted
  BY <1>2, <1>4 DEF OnePlace, Outstanding, Somewhere, PlacesHoldLast, TaskFollows,
                   RequestsCounted
<1>7. RepliesInOrder
  BY <1>2, <1>3 DEF RepliesInOrder
<1> QED BY <1>1, <1>5, <1>6, <1>7 DEF StreamInv

\* is kept by every step,
LEMMA StreamInvStep == StreamInv /\ [Next]_vars => StreamInv'
<1> SUFFICES ASSUME StreamInv, [Next]_vars PROVE StreamInv'
  OBVIOUS
<1>1. CASE TaskStep
  BY <1>1, RecvPayloadKeeps, RecvClosedKeeps, KademliaKeeps, ResponseKeeps,
     OutboundFailureKeeps, SendCompletesKeeps DEF TaskStep
<1>2. CASE DriverStep
  BY <1>2, SubmitKeeps, ReceiveKeeps, ReceiveClosedKeeps DEF DriverStep
<1>3. CASE Abort
  BY <1>3, AbortKeeps
<1>4. CASE UNCHANGED vars
  <2>1. /\ UNCHANGED discovery
        /\ UNCHANGED <<task, slots, requests, next_id, unsent, channels, caller>>
    BY <1>4 DEF vars
  <2>2. DiscoveryInv' /\ chain_built' = chain_built /\ retry_count' = retry_count
    BY <2>1, DiscoveryKept DEF StreamInv
  <2> QED BY <2>1, <2>2, DiscoveryStepKeeps
<1> QED BY <1>1, <1>2, <1>3, <1>4 DEF Next

\* and holds of the reachable states of the client.
THEOREM StreamInvAlways == Spec => []StreamInv
<1>1. Init => StreamInv
  BY StreamInvInit
<1>2. StreamInv /\ [Next]_vars => StreamInv'
  BY StreamInvStep
<1> QED BY <1>1, <1>2, PTL DEF Spec

\* The client, the loop and their channels keep their types: a channel never
\* holds more than one thing, and no request id is used beyond one for each
\* payload and one for each retry.
THEOREM StreamTypeCorrect == Spec => []TypeOK
<1>1. StreamInv => TypeOK
  BY DEF StreamInv
<1> QED BY <1>1, StreamInvAlways, PTL

\* The chain that the payloads are sent along serves the layers in their order.
THEOREM StreamChainServes == Spec => []ChainServesLayers
<1>1. StreamInv => ChainServesLayers
  BY DEF StreamInv, DiscoveryInv, ChainOK
<1> QED BY <1>1, StreamInvAlways, PTL

\* What an OutboundFailure puts back is what has failed.
THEOREM InflightMirrorsRequest == Spec => []InflightIsOutstanding
<1>1. StreamInv => InflightIsOutstanding
  <2> SUFFICES ASSUME StreamInv, task = "running"
               PROVE  /\ \A r \in requests : r.payload = inflight_payload /\ chain_built
                      /\ inflight_payload # NoPayload => requests # {}
    BY DEF InflightIsOutstanding
  <2>1. \A r \in requests : r.payload = inflight_payload /\ chain_built
    BY DEF StreamInv, TaskFollows, PlacesHoldLast, Requested
  <2>2. unsent.kind # "err"
    BY ReplyKinds DEF StreamInv, TaskFollows, Replying
  <2> QED BY <2>1, <2>2 DEF StreamInv, TaskFollows, Requested
<1> QED BY <1>1, StreamInvAlways, PTL

-----------------------------------------------------------------------------
(* Each payload in one place *)

\* How often the last payload is in each of its places.
LEMMA CopiesByPlace ==
    ASSUME StreamInv, Serving, Outstanding
    PROVE  /\ Cardinality({r \in requests : r.payload = submitted})
                = IF Requested THEN 1 ELSE 0
           /\ Cardinality({i \in DOMAIN requests_rx : requests_rx[i] = submitted})
                = IF Queued THEN 1 ELSE 0
           /\ pending_payload = submitted <=> Pending
           /\ "payload" \in DOMAIN unsent /\ unsent.payload = submitted <=> Replying
           /\ Cardinality({i \in DOMAIN response_tx :
                              response_tx[i].kind # "err" /\ response_tx[i].payload = submitted})
                = IF Replied THEN 1 ELSE 0
<1>1. submitted \in Payloads /\ submitted # NoPayload
  BY StreamTypes DEF StreamInv, Outstanding, Payloads, NoPayload
<1>2. Cardinality({}) = 0 /\ \A x : Cardinality({x}) = 1
  BY FS_EmptySet, FS_Singleton
<1>3. Cardinality({r \in requests : r.payload = submitted}) = IF Requested THEN 1 ELSE 0
  <2> DEFINE s == {r \in requests : r.payload = submitted}
  <2>1. s = requests
    BY DEF StreamInv, PlacesHoldLast
  <2>2. CASE Requested
    <3>1. PICK r : requests = {r}
      BY <2>2 DEF StreamInv, PlacesHoldLast, Requested
    <3> QED BY <1>2, <2>1, <2>2, <3>1
  <2>3. CASE ~Requested
    BY <1>2, <2>1, <2>3 DEF Requested
  <2> QED BY <2>2, <2>3
<1>4. Cardinality({i \in DOMAIN requests_rx : requests_rx[i] = submitted})
        = IF Queued THEN 1 ELSE 0
  <2> DEFINE s == {i \in DOMAIN requests_rx : requests_rx[i] = submitted}
  <2>1. CASE Queued
    <3>1. requests_rx = <<submitted>>
      BY <2>1 DEF StreamInv, PlacesHoldLast
    <3>2. s = {1}
      BY <3>1
    <3> QED BY <1>2, <2>1, <3>2
  <2>2. CASE ~Queued
    <3>1. s = {}
      BY <2>2 DEF Queued
    <3> QED BY <1>2, <2>2, <3>1
  <2> QED BY <2>1, <2>2
<1>5. pending_payload = submitted <=> Pending
  BY <1>1 DEF StreamInv, PlacesHoldLast, Pending
<1>6. "payload" \in DOMAIN unsent /\ unsent.payload = submitted <=> Replying
  <2>1. CASE Replying
    <3>1. unsent \in Reply /\ unsent.kind # "err" /\ unsent.payload = submitted
      BY <2>1 DEF StreamInv, PlacesHoldLast, ReplyToLast, Serving
    <3>2. "payload" \in DOMAIN unsent
      BY <3>1 DEF Reply
    <3> QED BY <2>1, <3>1, <3>2
  <2>2. CASE ~Replying
    <3>1. "payload" \notin DOMAIN unsent
      BY <2>2 DEF Replying, NoReply
    <3> QED BY <2>2, <3>1
  <2> QED BY <2>1, <2>2
<1>7. Cardinality({i \in DOMAIN response_tx :
                      response_tx[i].kind # "err" /\ response_tx[i].payload = submitted})
        = IF Replied THEN 1 ELSE 0
  <2> DEFINE s == {i \in DOMAIN response_tx :
                      response_tx[i].kind # "err" /\ response_tx[i].payload = submitted}
  <2>1. CASE Replied
    <3>1. PICK a : response_tx = <<a>> /\ a.kind # "err" /\ a.payload = submitted
      BY <2>1 DEF StreamInv, PlacesHoldLast, ReplyToLast, Serving, Ended
    <3>2. s = {1}
      BY <3>1
    <3> QED BY <1>2, <2>1, <3>2
  <2>2. CASE ~Replied
    <3>1. s = {}
      BY <2>2 DEF Replied
    <3> QED BY <1>2, <2>2, <3>1
  <2> QED BY <2>1, <2>2
<1> QED BY <1>3, <1>4, <1>5, <1>6, <1>7

\* A failover neither loses the payload that the caller waits for nor sends it
\* twice, for any number of failovers at any time.
THEOREM PayloadInOnePlace == Spec => []EachPayloadInOnePlace
<1>1. StreamInv => EachPayloadInOnePlace
  <2> SUFFICES ASSUME StreamInv, Serving, NEW p \in (Len(received) + 1)..submitted
               PROVE  Copies(p) = 1
    BY DEF EachPayloadInOnePlace
  <2>1. Outstanding /\ p = submitted
    BY StreamTypes DEF StreamInv, OnePlace, Outstanding
  <2>2. Somewhere
    BY <2>1 DEF StreamInv, OnePlace, Serving
  <2>3. Copies(p) = (IF Requested THEN 1 ELSE 0) + (IF Queued THEN 1 ELSE 0)
                    + (IF Pending THEN 1 ELSE 0) + (IF Replying THEN 1 ELSE 0)
                    + (IF Replied THEN 1 ELSE 0)
    BY <2>1, CopiesByPlace, Zenon DEF Copies
  <2>4. CASE Queued
    BY <2>3, <2>4 DEF StreamInv, OnePlace
  <2>5. CASE Pending
    BY <2>3, <2>5 DEF StreamInv, OnePlace
  <2>6. CASE Requested
    BY <2>3, <2>6 DEF StreamInv, OnePlace
  <2>7. CASE Replying
    BY <2>3, <2>7 DEF StreamInv, OnePlace
  <2>8. CASE Replied
    BY <2>3, <2>8 DEF StreamInv, OnePlace
  <2> QED BY <2>2, <2>4, <2>5, <2>6, <2>7, <2>8 DEF Somewhere
<1> QED BY <1>1, StreamInvAlways, PTL

-----------------------------------------------------------------------------
(* The refinement *)

\* The payloads answered, and whether the session is open, as Pipeline sees
\* them.
Answered == [i \in {k \in DOMAIN received : received[k].kind # "err"} |-> received[i].payload]
Open     == driver = "running"

\* While the loop runs it has been answered each payload up to the last reply.
LEMMA AnsweredInOrder ==
    ASSUME StreamInv, driver = "running"
    PROVE  /\ Answered = [i \in 1..Len(received) |-> i]
           /\ Answered \in Seq(Nat) /\ Len(Answered) = Len(received)
<1>1. received \in Seq(Reply) /\ Len(received) \in Nat /\ DOMAIN received = 1..Len(received)
  BY StreamTypes DEF StreamInv
<1>2. \A i \in 1..Len(received) : received[i].kind = "output" /\ received[i].payload = i
  BY DEF StreamInv, RepliesInOrder
<1>3. {k \in DOMAIN received : received[k].kind # "err"} = 1..Len(received)
  BY <1>1, <1>2
<1>4. Answered = [i \in 1..Len(received) |-> i]
  BY <1>2, <1>3 DEF Answered
<1> QED BY <1>1, <1>4

\* Submitting is asking, or finding the session closed.
LEMMA SubmitImplements ==
    ASSUME StreamInv, Submit
    PROVE  Session!Ask \/ Session!Close
<1>1. /\ Open = TRUE /\ submitted = Len(received) /\ received' = received
  BY DEF Submit, Open
<1>2. Answered' = Answered /\ Len(Answered) = submitted /\ submitted \in Nat
  BY <1>1, AnsweredInOrder, StreamTypes DEF Answered, StreamInv, Submit
<1>3. CASE Ended
  <2>1. Open' = FALSE /\ submitted' = submitted
    BY <1>3 DEF Submit, Open
  <2> QED BY <1>1, <1>2, <2>1 DEF Session!Close, Answered, Open
<1>4. CASE ~Ended
  <2>1. Open' = Open /\ submitted' = submitted + 1
    BY <1>4 DEF Submit, Open
  <2>2. submitted - Len(Answered) < 1
    BY <1>2
  <2> QED BY <1>1, <1>2, <2>1, <2>2 DEF Session!Ask, Answered, Open
<1> QED BY <1>3, <1>4

\* Receiving is the answer to the next payload, or the end of the session.
LEMMA ReceiveImplements ==
    ASSUME StreamInv, Receive
    PROVE  Session!Answer \/ Session!Close
<1> DEFINE n == Len(received)
<1>1. PICK a : response_tx = <<a>> /\ ReplyToLast(a)
  BY DEF Receive, StreamInv, PlacesHoldLast, Replied
<1>2. /\ received' = Append(received, a) /\ submitted' = submitted
      /\ driver = "running" /\ driver' \in {"running", "left"}
      /\ a.kind = "err" => driver' = "left"
  BY <1>1, OneElement DEF Receive
<1>3. received \in Seq(Reply) /\ n \in Nat /\ a \in Reply
  BY <1>1, StreamTypes DEF StreamInv, ReplyToLast
<1>4. /\ Len(received') = n + 1 /\ received'[n + 1] = a
      /\ DOMAIN received' = 1..(n + 1)
      /\ \A i \in 1..n : received'[i] = received[i]
  BY <1>2, <1>3, AppendFacts
<1>5. submitted = n + 1
  BY <1>2, OneElement DEF Receive, Replied, StreamInv, OnePlace, Somewhere, Outstanding
<1>6. Answered = [i \in 1..n |-> i] /\ Answered \in Seq(Nat) /\ Len(Answered) = n
  BY <1>2, AnsweredInOrder
<1>7. \A i \in 1..n : received[i].kind = "output" /\ received[i].payload = i
  BY <1>2 DEF StreamInv, RepliesInOrder
<1>8. Open = TRUE /\ Open' \in BOOLEAN
  BY <1>2 DEF Open
<1>9. CASE a.kind = "err"
  <2>1. {k \in DOMAIN received' : received'[k].kind # "err"} = 1..n
    BY <1>3, <1>4, <1>7, <1>9
  <2>2. Answered' = [i \in 1..n |-> i]
    BY <1>4, <1>7, <2>1 DEF Answered
  <2>3. Answered' = Answered /\ Open' = FALSE
    BY <1>2, <1>6, <1>9, <2>2 DEF Open
  <2> QED BY <1>2, <1>8, <2>3 DEF Session!Close, Answered, Open
<1>10. CASE a.kind # "err"
  <2>1. a.payload = n + 1
    BY <1>1, <1>5, <1>10 DEF ReplyToLast
  <2>2. {k \in DOMAIN received' : received'[k].kind # "err"} = 1..(n + 1)
    BY <1>3, <1>4, <1>7, <1>10
  <2>3. Answered' = [i \in 1..(n + 1) |-> i]
    BY <1>3, <1>4, <1>7, <2>1, <2>2 DEF Answered
  <2>4. Answered' = Append(Answered, n + 1)
    <3> DEFINE b == Append(Answered, n + 1)
    <3>1. /\ b \in Seq(Nat) /\ Len(b) = n + 1 /\ b[n + 1] = n + 1
          /\ \A i \in 1..n : b[i] = i
      BY <1>3, <1>6, AppendFacts
    <3> HIDE DEF b
    <3>2. b = [i \in 1..(n + 1) |-> i]
      BY <1>3, <3>1
    <3> QED BY <2>3, <3>2 DEF b
  <2>5. Len(Answered) < submitted
    BY <1>3, <1>5, <1>6
  <2> QED BY <1>2, <1>6, <1>8, <2>4, <2>5 DEF Session!Answer, Answered, Open
<1> QED BY <1>9, <1>10

\* The session's other end.
LEMMA ReceiveClosedImplements ==
    ASSUME ReceiveClosed
    PROVE  Session!Close
BY DEF ReceiveClosed, Session!Close

\* The client's steps are not seen.
LEMMA UncalledStutters ==
    ASSUME UNCHANGED caller
    PROVE  UNCHANGED Session!vars
BY DEF caller, Session!vars

\* The two tasks implement the lockstep pipeline.
THEOREM SessionRefinement == Spec => ImplementsPipeline
<1>1. Init => Session!Init
  <2> SUFFICES ASSUME Init PROVE Session!Init
    OBVIOUS
  <2>1. received = <<>> /\ submitted = 0 /\ driver = "running"
    BY DEF Init
  <2>2. Answered = <<>>
    BY <2>1 DEF Answered
  <2> QED BY <2>1, <2>2 DEF Session!Init, Answered
<1>2. StreamInv /\ [Next]_vars => [Session!Next]_(Session!vars)
  <2> SUFFICES ASSUME StreamInv, [Next]_vars PROVE [Session!Next]_(Session!vars)
    OBVIOUS
  <2>1. TaskStep \/ Abort => UNCHANGED caller
    BY DEF TaskStep, Abort, RecvPayload, RecvClosed, Kademlia, Response, OutboundFailure,
           SendCompletes
  <2>2. UNCHANGED vars => UNCHANGED caller
    BY DEF vars
  <2>3. DriverStep => Session!Next
    BY SubmitImplements, ReceiveImplements, ReceiveClosedImplements DEF DriverStep, Session!Next
  <2> QED BY <2>1, <2>2, <2>3, UncalledStutters DEF Next
<1> QED BY <1>1, <1>2, StreamInvAlways, PTL DEF Spec, ImplementsPipeline, Session!Spec
=============================================================================
