-------------------------- MODULE ForwardPassProofs --------------------------
(***************************************************************************)
(* Proofs about ForwardPass, for any clients, workers, chains and number   *)
(* of retries.                                                             *)
(*                                                                         *)
(* None of the safety properties is inductive by itself.  What makes them  *)
(* hold is a bookkeeping invariant of the whole network, IInv: outbound    *)
(* request ids identify requests, so that the entry of pending_forwards    *)
(* that a response removes is the one of its own request; each entry links *)
(* an outbound request to an upstream one with the same route and tensor;  *)
(* and no tensor in a request has been computed on.                        *)
(***************************************************************************)
EXTENDS ForwardPass, FoldLemmas

Records == waiting \cup sent \cup held

\* A request is addressed to the worker at its hop, its tensor is untouched,
\* and a client's request carries the client's payload.
WellFormed(r) ==
    /\ r \in Request
    /\ r.hop_index < Len(r.route)
    /\ r.to = r.route[r.hop_index + 1]
    /\ r.tensor.ran = <<>>
    /\ r.from \in Clients => r.tensor.payload = r.from

\* The types of what the other parts of the invariant say nothing of.
CoreTypes ==
    /\ alive \subseteq Workers
    /\ next_id \in Nat
    /\ pending_forwards \in [Workers -> SUBSET [out : Request, up : Request]]
    /\ chain_built \in [Clients -> BOOLEAN]
    /\ retry_count \in [Clients -> 0..MaxRetries]
    /\ result \in [Clients -> Reply \cup {Running, Failed}]

RequestsWellFormed == \A r \in Records : WellFormed(r) /\ r.id < next_id

IdsIdentify ==
    /\ \A r, q \in Records : r.id = q.id => r = q
    /\ sent \cap held = {}

Link(w, p) ==
    /\ p.out.from = w /\ p.up.to = w
    /\ p.out.route = p.up.route /\ p.out.tensor = p.up.tensor
    /\ p.out.hop_index = p.up.hop_index + 1
    /\ p.out \in waiting /\ p.up \in held

EntriesLink == \A w \in Workers : \A p \in pending_forwards[w] : Link(w, p)

\* Whatever waits or is held has its entry, at a running worker.
EntriesComplete ==
    /\ \A r \in waiting : r.from \in Workers =>
          r.from \in alive /\ \E p \in pending_forwards[r.from] : p.out = r
    /\ \A r \in held : \E p \in pending_forwards[r.to] : p.up = r
    /\ \A w \in Workers : \A p, q \in pending_forwards[w] : p.up = q.up => p = q

GoodAnswer(a) ==
    /\ a \in [req : Request, reply : Reply]
    /\ a.req \in waiting
    /\ a.reply.kind = "output" => a.reply.tensor = TerminalTensor(a.req)
AnswersGood == \A a \in answers : GoodAnswer(a)

IInv ==
    /\ CoreTypes
    /\ RequestsWellFormed
    /\ IdsIdentify
    /\ EntriesLink
    /\ EntriesComplete
    /\ AnswersGood
    /\ OneAttemptAtATime
    /\ ResultsMatchPayloads

-----------------------------------------------------------------------------
\* The invariant holds initially.
LEMMA InitIInv == Init => IInv
<1> SUFFICES ASSUME Init PROVE IInv
  OBVIOUS
<1>1. CoreTypes
  BY ForwardPassAssumption DEF Init, CoreTypes, Running, Failed
<1>2. RequestsWellFormed /\ IdsIdentify /\ EntriesLink /\ AnswersGood
  BY DEF Init, RequestsWellFormed, IdsIdentify, EntriesLink, AnswersGood, Records
<1>3. EntriesComplete /\ OneAttemptAtATime
  BY DEF Init, EntriesComplete, OneAttemptAtATime
<1>4. ResultsMatchPayloads
  BY DEF Init, ResultsMatchPayloads, Running
<1> QED BY <1>1, <1>2, <1>3, <1>4 DEF IInv

-----------------------------------------------------------------------------
(* The clients' actions *)

\* The client keeps it when it sends a request,
LEMMA SendForwardPassIInv ==
    ASSUME IInv, NEW c \in Clients, SendForwardPass(c)
    PROVE  IInv'
<1>1. PICK chain \in Chains :
        LET r == [id |-> next_id, from |-> c, to |-> chain[1], route |-> chain,
                  hop_index |-> 0, tensor |-> [payload |-> c, ran |-> <<>>]]
        IN  /\ result[c] = Running
            /\ ~chain_built[c]
            /\ chain_built' = [chain_built EXCEPT ![c] = TRUE]
            /\ next_id' = next_id + 1
            /\ sent' = sent \cup {r}
            /\ waiting' = waiting \cup {r}
            /\ UNCHANGED <<alive, held, answers, pending_forwards, retry_count, result>>
  BY DEF SendForwardPass
<1> DEFINE r == [id |-> next_id, from |-> c, to |-> chain[1], route |-> chain,
                 hop_index |-> 0, tensor |-> [payload |-> c, ran |-> <<>>]]
<1>2. chain \in Seq(Workers) /\ Len(chain) > 0 /\ chain[1] \in Workers /\ Len(chain) \in Nat
  BY ForwardPassAssumption
<1>3. next_id \in Nat /\ c \notin Workers
  BY ForwardPassAssumption DEF IInv, CoreTypes
<1>4. r \in Request
  BY <1>2, <1>3 DEF Request, Tensor
<1>5. WellFormed(r) /\ r.id = next_id /\ r.from = c
  BY <1>2, <1>4 DEF WellFormed
<1>6. Records' = Records \cup {r}
  BY <1>1 DEF Records
<1>7. \A q \in Records : q.id < next_id /\ q.id \in Nat /\ q # r
  BY <1>3, <1>5 DEF IInv, RequestsWellFormed, WellFormed, Request
<1> HIDE DEF r
<1>8. CoreTypes'
  BY <1>1, <1>3 DEF IInv, CoreTypes
<1>9. RequestsWellFormed'
  <2>1. next_id' = next_id + 1
    BY <1>1
  <2>2. \A q : WellFormed(q)' <=> WellFormed(q)
    BY DEF WellFormed
  <2> QED BY <2>1, <2>2, <1>3, <1>5, <1>6, <1>7 DEF IInv, RequestsWellFormed
<1>10. IdsIdentify'
  BY <1>1, <1>3, <1>5, <1>6, <1>7 DEF IInv, IdsIdentify, Records, r
<1>11. EntriesLink'
  BY <1>1 DEF IInv, EntriesLink, Link, r
<1>12. EntriesComplete'
  BY <1>1, <1>3, <1>5 DEF IInv, EntriesComplete, r
<1>13. AnswersGood'
  BY <1>1 DEF IInv, AnswersGood, GoodAnswer, TerminalTensor, r
<1>14. OneAttemptAtATime'
  BY <1>1, <1>5 DEF IInv, OneAttemptAtATime, CoreTypes, r
<1>15. ResultsMatchPayloads'
  BY <1>1 DEF IInv, ResultsMatchPayloads
<1> QED BY <1>8, <1>9, <1>10, <1>11, <1>12, <1>13, <1>14, <1>15 DEF IInv

\* The one event a client gets for its request leaves it with none, and
\* touches nothing of the workers'.
LEMMA ClientSettles ==
    ASSUME IInv, NEW c \in Clients, NEW r \in waiting, r.from = c, Settle(r),
           UNCHANGED <<alive, next_id, sent, held, pending_forwards>>
    PROVE  /\ RequestsWellFormed' /\ IdsIdentify' /\ EntriesLink' /\ EntriesComplete'
           /\ AnswersGood'
           /\ \A q \in waiting' : q \in waiting /\ q.from # c
<1>1. c \notin Workers
  BY ForwardPassAssumption
<1>2. Records' \subseteq Records
  BY DEF Records, Settle
<1>3. RequestsWellFormed' /\ IdsIdentify'
  BY <1>2 DEF IInv, RequestsWellFormed, WellFormed, IdsIdentify
<1>4. EntriesLink'
  BY <1>1 DEF IInv, EntriesLink, Link, Settle
<1>5. EntriesComplete'
  BY DEF IInv, EntriesComplete, Settle
<1>6. AnswersGood'
  BY DEF IInv, AnswersGood, GoodAnswer, TerminalTensor, Settle
<1>7. \A q \in waiting' : q \in waiting /\ q.from # c
  BY DEF IInv, OneAttemptAtATime, Settle
<1> QED BY <1>3, <1>4, <1>5, <1>6, <1>7

\* when it takes a response,
LEMMA ClientResponseIInv ==
    ASSUME IInv, NEW c \in Clients, ClientResponse(c)
    PROVE  IInv'
<1>1. PICK a \in answers :
        /\ a.req.from = c /\ Settle(a.req)
        /\ result' = [result EXCEPT ![c] = a.reply]
        /\ UNCHANGED <<alive, next_id, sent, held, pending_forwards, chain_built, retry_count>>
  BY DEF ClientResponse
<1>2. GoodAnswer(a)
  BY DEF IInv, AnswersGood
<1>3. a.req \in waiting /\ a.reply \in Reply
  BY <1>2 DEF GoodAnswer
<1>4. /\ RequestsWellFormed' /\ IdsIdentify' /\ EntriesLink' /\ EntriesComplete'
      /\ AnswersGood'
      /\ \A q \in waiting' : q \in waiting /\ q.from # c
  BY <1>1, <1>3, ClientSettles
<1>5. CoreTypes'
  BY <1>1, <1>3 DEF IInv, CoreTypes
<1>6. OneAttemptAtATime'
  BY <1>1, <1>4 DEF IInv, OneAttemptAtATime, CoreTypes
<1>7. ResultsMatchPayloads'
  <2>1. a.reply.kind = "output" => a.reply.tensor.payload = c
    BY <1>1, <1>2, <1>3 DEF IInv, RequestsWellFormed, WellFormed, Records, GoodAnswer,
       TerminalTensor
  <2> QED BY <1>1, <2>1 DEF IInv, ResultsMatchPayloads, CoreTypes
<1> QED BY <1>4, <1>5, <1>6, <1>7 DEF IInv

\* and when it takes a failure;
LEMMA ClientFailureIInv ==
    ASSUME IInv, NEW c \in Clients, ClientFailure(c)
    PROVE  IInv'
<1>1. PICK r \in waiting :
        /\ r.from = c /\ Settle(r) /\ FailOver(c)
        /\ UNCHANGED <<alive, next_id, sent, held, pending_forwards>>
  BY DEF ClientFailure
<1>2. /\ RequestsWellFormed' /\ IdsIdentify' /\ EntriesLink' /\ EntriesComplete'
      /\ AnswersGood'
      /\ \A q \in waiting' : q \in waiting /\ q.from # c
  BY <1>1, ClientSettles
<1>3. CoreTypes'
  <2>1. CASE retry_count[c] >= MaxRetries
    BY <1>1, <2>1 DEF IInv, CoreTypes, FailOver
  <2>2. CASE ~(retry_count[c] >= MaxRetries)
    <3>1. retry_count[c] + 1 \in 0..MaxRetries
      BY <2>2, ForwardPassAssumption DEF IInv, CoreTypes
    <3> QED BY <1>1, <2>2, <3>1 DEF IInv, CoreTypes, FailOver
  <2> QED BY <2>1, <2>2
<1>4. OneAttemptAtATime'
  BY <1>1, <1>2 DEF IInv, OneAttemptAtATime, CoreTypes, FailOver
<1>5. ResultsMatchPayloads'
  BY <1>1 DEF IInv, ResultsMatchPayloads, CoreTypes, FailOver, Failed
<1> QED BY <1>2, <1>3, <1>4, <1>5 DEF IInv

-----------------------------------------------------------------------------
(* The workers' actions *)

\* the last worker keeps it,
LEMMA HandleTerminalHopIInv ==
    ASSUME IInv, NEW w \in Workers, HandleTerminalHop(w)
    PROVE  IInv'
<1>1. PICK r \in sent :
        /\ r.to = w /\ IsTerminal(r) /\ UNCHANGED client
        /\ \E reply \in TerminalReplies(w, r.tensor) : AnswerRequest(r, reply)
  BY DEF HandleTerminalHop
<1>2. PICK reply \in TerminalReplies(w, r.tensor) : AnswerRequest(r, reply)
  BY <1>1
<1>3. WellFormed(r)
  BY DEF IInv, RequestsWellFormed, Records
<1>4. r.route \in Seq(Workers) /\ r.route # <<>> /\ Len(r.route) \in Nat
  BY <1>3, ForwardPassAssumption DEF WellFormed, Request
<1>5. r.route[Len(r.route)] = w
  BY <1>1, <1>3, <1>4 DEF WellFormed, IsTerminal, Request
<1>6. r.tensor = [payload |-> r.tensor.payload, ran |-> <<>>] /\ r.tensor \in Tensor
  BY <1>3 DEF WellFormed, Request, Tensor
<1>7. reply \in Reply
  BY <1>2, <1>6 DEF TerminalReplies, Reply, Output, Empty, Tensor
<1>8. reply.kind = "output" => reply.tensor = TerminalTensor(r)
  BY <1>2, <1>5, <1>6 DEF TerminalReplies, Output, Empty, TerminalTensor
<1>9. Records' \subseteq Records
  BY <1>2 DEF Records, AnswerRequest
<1>10. AnswersGood'
  <2>1. \A a \in answers' : a \in answers \/ (a = [req |-> r, reply |-> reply] /\ r \in waiting)
    BY <1>2 DEF AnswerRequest, Deliverable
  <2>2. waiting' = waiting
    BY <1>2 DEF AnswerRequest
  <2>3. r \in Request
    BY <1>3 DEF WellFormed
  <2>4. ASSUME NEW a \in answers' PROVE GoodAnswer(a)'
    <3>1. CASE a \in answers
      BY <2>2, <3>1 DEF IInv, AnswersGood, GoodAnswer, TerminalTensor
    <3>2. CASE a = [req |-> r, reply |-> reply] /\ r \in waiting
      BY <2>2, <2>3, <3>2, <1>7, <1>8 DEF GoodAnswer, TerminalTensor
    <3> QED BY <2>1, <3>1, <3>2
  <2> QED BY <2>4 DEF AnswersGood
<1>11. CoreTypes' /\ OneAttemptAtATime' /\ ResultsMatchPayloads'
  BY <1>1, <1>2 DEF IInv, CoreTypes, OneAttemptAtATime, ResultsMatchPayloads, AnswerRequest,
     client
<1>12. RequestsWellFormed' /\ IdsIdentify'
  BY <1>2, <1>9 DEF IInv, RequestsWellFormed, WellFormed, IdsIdentify, AnswerRequest
<1>13. EntriesLink' /\ EntriesComplete'
  BY <1>2 DEF IInv, EntriesLink, Link, EntriesComplete, AnswerRequest
<1> QED BY <1>10, <1>11, <1>12, <1>13 DEF IInv

\* and so do a worker that cannot forward a request,
LEMMA ForwardErrorIInv ==
    ASSUME IInv, NEW w \in Workers, ForwardError(w)
    PROVE  IInv'
<1>1. /\ sent' \subseteq sent
      /\ UNCHANGED <<alive, next_id, waiting, held, answers, pending_forwards, client>>
  BY DEF ForwardError
<1>2. CoreTypes' /\ OneAttemptAtATime' /\ ResultsMatchPayloads'
  BY <1>1 DEF IInv, CoreTypes, OneAttemptAtATime, ResultsMatchPayloads, client
<1>3. RequestsWellFormed' /\ IdsIdentify'
  BY <1>1 DEF IInv, RequestsWellFormed, WellFormed, IdsIdentify, Records
<1>4. EntriesLink' /\ EntriesComplete' /\ AnswersGood'
  BY <1>1 DEF IInv, EntriesLink, Link, EntriesComplete, AnswersGood, GoodAnswer, TerminalTensor
<1> QED BY <1>2, <1>3, <1>4 DEF IInv

\* one that forwards the request,
LEMMA ForwardRequestIInv ==
    ASSUME IInv, NEW w \in Workers, ForwardRequest(w)
    PROVE  IInv'
<1>1. PICK r \in sent :
        LET next == Forwarded(w, r)
        IN  /\ w \in alive /\ r.to = w /\ ~IsTerminal(r)
            /\ next_id' = next_id + 1
            /\ sent' = (sent \ {r}) \cup {next}
            /\ waiting' = waiting \cup {next}
            /\ held' = held \cup {r}
            /\ pending_forwards' =
                 [pending_forwards EXCEPT ![w] = @ \cup {[out |-> next, up |-> r]}]
            /\ UNCHANGED <<alive, answers, client>>
  BY DEF ForwardRequest
<1> DEFINE next == Forwarded(w, r)
           entry == [out |-> next, up |-> r]
<1>2. WellFormed(r) /\ r \in Request
  BY DEF IInv, RequestsWellFormed, Records, WellFormed
<1>3. r.route \in Seq(Workers) /\ r.route # <<>> /\ Len(r.route) \in Nat /\ r.hop_index \in Nat
  BY <1>2, ForwardPassAssumption DEF Request
<1>4. r.hop_index + 1 < Len(r.route)
  BY <1>1, <1>2, <1>3 DEF IsTerminal, WellFormed
<1>5. next_id \in Nat /\ w \notin Clients
  BY ForwardPassAssumption DEF IInv, CoreTypes
<1>6. next = [id |-> next_id, from |-> w, to |-> r.route[r.hop_index + 2], route |-> r.route,
              hop_index |-> r.hop_index + 1, tensor |-> r.tensor]
  BY <1>2 DEF Forwarded, BuildNextRequest, NextPeer, Request
<1>7. next \in Request
  BY <1>2, <1>3, <1>4, <1>5, <1>6 DEF Request
<1>8. WellFormed(next) /\ next.id = next_id /\ next.from = w
  BY <1>2, <1>3, <1>4, <1>5, <1>6, <1>7 DEF WellFormed
<1>9. Records' = Records \cup {next}
  BY <1>1 DEF Records
<1>10. \A q \in Records : q.id < next_id /\ q.id \in Nat /\ q # next
  BY <1>5, <1>8 DEF IInv, RequestsWellFormed, WellFormed, Request
<1>11. /\ entry.out = next /\ entry.up = r
       /\ next.route = r.route /\ next.tensor = r.tensor /\ next.hop_index = r.hop_index + 1
  BY <1>6
<1>12. entry \in [out : Request, up : Request]
  BY <1>2, <1>7
<1>13. pending_forwards' = [pending_forwards EXCEPT ![w] = @ \cup {entry}]
  BY <1>1
<1>14. /\ next_id' = next_id + 1
       /\ sent' = (sent \ {r}) \cup {next} /\ waiting' = waiting \cup {next}
       /\ held' = held \cup {r}
       /\ w \in alive /\ r.to = w
       /\ UNCHANGED <<alive, answers, client>>
  BY <1>1
<1> HIDE DEF next, entry
<1>15. pending_forwards \in [Workers -> SUBSET [out : Request, up : Request]]
  BY DEF IInv, CoreTypes
<1>16. /\ pending_forwards'[w] = pending_forwards[w] \cup {entry}
       /\ \A v \in Workers \ {w} : pending_forwards'[v] = pending_forwards[v]
  BY <1>13, <1>15
<1>17. CoreTypes'
  BY <1>5, <1>12, <1>13, <1>14 DEF IInv, CoreTypes, client
<1>18. RequestsWellFormed'
  BY <1>5, <1>8, <1>9, <1>10, <1>14 DEF IInv, RequestsWellFormed, WellFormed
<1>19. IdsIdentify'
  <2>1. \A p, q \in Records' : p.id = q.id => p = q
    BY <1>5, <1>8, <1>9, <1>10 DEF IInv, IdsIdentify
  <2>2. next \notin held
    BY <1>10 DEF Records
  <2>3. next # r
    BY <1>10 DEF Records
  <2> QED BY <1>14, <2>1, <2>2, <2>3 DEF IInv, IdsIdentify
<1>20. EntriesLink'
  BY <1>8, <1>11, <1>14, <1>16 DEF IInv, EntriesLink, Link
<1>21. EntriesComplete'
  <2>1. r \notin held
    BY DEF IInv, IdsIdentify
  <2>2. \A p \in pending_forwards[w] : p.up # r
    BY <2>1 DEF IInv, EntriesLink, Link
  <2>3. \A q \in waiting' : q.from \in Workers =>
          q.from \in alive' /\ \E p \in pending_forwards'[q.from] : p.out = q
    BY <1>8, <1>11, <1>14, <1>16 DEF IInv, EntriesComplete
  <2>4. \A q \in held : q.to \in Workers
    BY DEF IInv, RequestsWellFormed, WellFormed, Records, Request
  <2>5. \A q \in held' : \E p \in pending_forwards'[q.to] : p.up = q
    BY <1>11, <1>14, <1>16, <2>4 DEF IInv, EntriesComplete
  <2>6. \A v \in Workers : \A p, q \in pending_forwards'[v] : p.up = q.up => p = q
    BY <1>11, <1>16, <2>2 DEF IInv, EntriesComplete
  <2> QED BY <2>3, <2>5, <2>6 DEF EntriesComplete
<1>22. AnswersGood'
  BY <1>14 DEF IInv, AnswersGood, GoodAnswer, TerminalTensor
<1>23. OneAttemptAtATime' /\ ResultsMatchPayloads'
  BY <1>5, <1>8, <1>14 DEF IInv, OneAttemptAtATime, ResultsMatchPayloads, client
<1> QED BY <1>17, <1>18, <1>19, <1>20, <1>21, <1>22, <1>23 DEF IInv

\* An event for an outbound request removes its own entry and no other, and
\* hands the reply to that entry's upstream request, whose chain and tensor
\* are the same.
LEMMA RelayIInv ==
    ASSUME IInv, NEW w \in Workers, w \in alive, NEW r \in waiting, r.from = w,
           NEW reply \in Reply, reply.kind = "output" => reply.tensor = TerminalTensor(r),
           Relay(w, r, reply)
    PROVE  IInv'
<1> DEFINE mine == Matching(w, r)
           ups  == {p.up : p \in mine}
<1>1. /\ pending_forwards' = [pending_forwards EXCEPT ![w] = @ \ mine]
      /\ held' = held \ ups
      /\ waiting' = waiting \ {r}
      /\ answers' = {a \in answers : a.req # r}
                       \cup Deliverable({[req |-> u, reply |-> reply] : u \in ups})
      /\ UNCHANGED <<alive, next_id, sent, client>>
  BY DEF Relay
<1>2. pending_forwards \in [Workers -> SUBSET [out : Request, up : Request]]
  BY DEF IInv, CoreTypes
<1>3. /\ pending_forwards'[w] = pending_forwards[w] \ mine
      /\ \A v \in Workers \ {w} : pending_forwards'[v] = pending_forwards[v]
  BY <1>1, <1>2
<1>4. mine = {p \in pending_forwards[w] : p.out = r}
  BY DEF IInv, IdsIdentify, Records, EntriesLink, Link, Matching
<1>5. \A u \in ups : \E p \in pending_forwards[w] : p.out = r /\ p.up = u
  BY <1>4
<1>6. \A p \in pending_forwards[w] : p.out = r => p.up \in ups
  BY <1>4
<1>7. \A p \in pending_forwards'[w] :
        p \in pending_forwards[w] /\ p.out # r /\ p.up \notin ups
  <2>1. ASSUME NEW p \in pending_forwards'[w], p.up \in ups PROVE FALSE
    <3>1. PICK m \in pending_forwards[w] : m.out = r /\ m.up = p.up
      BY <1>5, <2>1
    <3>2. p \in pending_forwards[w] /\ p.out # r
      BY <1>3, <1>4
    <3> QED BY <3>1, <3>2 DEF IInv, EntriesComplete
  <2> QED BY <1>3, <1>4, <2>1
<1> HIDE DEF mine, ups
<1>8. \A u \in ups : u \in held /\ u.to = w
  BY <1>5 DEF IInv, EntriesLink, Link
<1>9. Records' \subseteq Records
  BY <1>1 DEF Records
<1>10. CoreTypes'
  BY <1>1, <1>2 DEF IInv, CoreTypes, client
<1>11. RequestsWellFormed' /\ IdsIdentify'
  BY <1>1, <1>9 DEF IInv, RequestsWellFormed, WellFormed, IdsIdentify
<1>12. EntriesLink'
  <2>1. ASSUME NEW v \in Workers, NEW p \in pending_forwards'[v] PROVE Link(v, p)'
    <3>1. p \in pending_forwards[v] /\ Link(v, p)
      BY <1>3, <1>7 DEF IInv, EntriesLink
    <3>2. p.out # r /\ p.up \notin ups
      BY <1>7, <1>8, <3>1 DEF Link
    <3> QED BY <1>1, <3>1, <3>2 DEF Link
  <2> QED BY <2>1 DEF EntriesLink
<1>13. EntriesComplete'
  <2>1. ASSUME NEW q \in waiting', q.from \in Workers
        PROVE  q.from \in alive' /\ \E p \in pending_forwards'[q.from] : p.out = q
    <3>1. q \in waiting /\ q # r
      BY <1>1
    <3>2. PICK p \in pending_forwards[q.from] : p.out = q
      BY <2>1, <3>1 DEF IInv, EntriesComplete
    <3>3. p \in pending_forwards'[q.from]
      BY <1>3, <1>4, <2>1, <3>1, <3>2
    <3> QED BY <1>1, <2>1, <3>1, <3>2, <3>3 DEF IInv, EntriesComplete
  <2>2. ASSUME NEW q \in held' PROVE \E p \in pending_forwards'[q.to] : p.up = q
    <3>1. q \in held /\ q \notin ups /\ q.to \in Workers
      BY <1>1 DEF IInv, RequestsWellFormed, WellFormed, Records, Request
    <3>2. PICK p \in pending_forwards[q.to] : p.up = q
      BY <3>1 DEF IInv, EntriesComplete
    <3>3. p \in pending_forwards'[q.to]
      BY <1>3, <1>4, <1>6, <3>1, <3>2
    <3> QED BY <3>2, <3>3
  <2>3. \A v \in Workers : \A p, q \in pending_forwards'[v] : p.up = q.up => p = q
    BY <1>3 DEF IInv, EntriesComplete
  <2> QED BY <2>1, <2>2, <2>3 DEF EntriesComplete
<1>14. AnswersGood'
  <2>1. ASSUME NEW a \in answers' PROVE GoodAnswer(a)'
    <3>1. CASE a \in answers /\ a.req # r
      BY <1>1, <3>1 DEF IInv, AnswersGood, GoodAnswer, TerminalTensor
    <3>2. CASE \E u \in ups : a = [req |-> u, reply |-> reply] /\ u \in waiting
      <4>1. PICK u \in ups : a = [req |-> u, reply |-> reply] /\ u \in waiting
        BY <3>2
      <4>2. PICK p \in pending_forwards[w] : p.out = r /\ p.up = u
        BY <1>5
      <4>3. u.route = r.route /\ u.tensor = r.tensor /\ r.hop_index = u.hop_index + 1
        BY <4>2 DEF IInv, EntriesLink, Link
      <4>4. u \in Request /\ u.hop_index \in Nat
        BY <4>1 DEF IInv, RequestsWellFormed, WellFormed, Records, Request
      <4>5. u \in waiting'
        BY <1>1, <4>1, <4>3, <4>4
      <4> QED BY <4>1, <4>3, <4>4, <4>5 DEF GoodAnswer, TerminalTensor
    <3> QED BY <1>1, <3>1, <3>2 DEF Deliverable
  <2> QED BY <2>1 DEF AnswersGood
<1>15. OneAttemptAtATime' /\ ResultsMatchPayloads'
  BY <1>1 DEF IInv, OneAttemptAtATime, ResultsMatchPayloads, client
<1> QED BY <1>10, <1>11, <1>12, <1>13, <1>14, <1>15 DEF IInv

\* and one that relays the answer.
LEMMA RelayStepIInv ==
    ASSUME IInv, NEW w \in Workers, RelayStep(w)
    PROVE  IInv'
<1>1. CASE RelayResponse(w)
  <2>1. PICK a \in answers : w \in alive /\ a.req.from = w /\ Relay(w, a.req, a.reply)
    BY <1>1 DEF RelayResponse
  <2>2. /\ a.req \in waiting /\ a.reply \in Reply
        /\ a.reply.kind = "output" => a.reply.tensor = TerminalTensor(a.req)
    BY DEF IInv, AnswersGood, GoodAnswer
  <2> QED BY <2>1, <2>2, RelayIInv
<1>2. CASE RelayFailure(w)
  <2>1. PICK r \in waiting : w \in alive /\ r.from = w /\ Relay(w, r, Empty(0))
    BY <1>2 DEF RelayFailure
  <2>2. Empty(0) \in Reply /\ Empty(0).kind # "output"
    BY DEF Empty, Reply
  <2> QED BY <2>1, <2>2, RelayIInv
<1> QED BY <1>1, <1>2 DEF RelayStep

\* A worker that stops takes with it what it waits for, what it holds and
\* what is on its way to it; the other workers' books stay balanced.
LEMMA StopsIInv ==
    ASSUME IInv, NEW w \in Workers, Stops(w)
    PROVE  IInv'
<1>1. /\ alive' = alive \ {w}
      /\ pending_forwards' = [pending_forwards EXCEPT ![w] = {}]
      /\ waiting' = {r \in waiting : r.from # w}
      /\ sent' = {r \in sent : r.to # w}
      /\ held' = {r \in held : r.to # w}
      /\ answers' = {a \in answers : a.req.from # w}
      /\ UNCHANGED <<next_id, client>>
  BY DEF Stops
<1>2. pending_forwards \in [Workers -> SUBSET [out : Request, up : Request]]
  BY DEF IInv, CoreTypes
<1>3. /\ pending_forwards'[w] = {}
      /\ \A v \in Workers \ {w} : pending_forwards'[v] = pending_forwards[v]
  BY <1>1, <1>2
<1>4. Records' \subseteq Records
  BY <1>1 DEF Records
<1>5. CoreTypes'
  BY <1>1, <1>2 DEF IInv, CoreTypes, client
<1>6. RequestsWellFormed' /\ IdsIdentify'
  BY <1>1, <1>4 DEF IInv, RequestsWellFormed, WellFormed, IdsIdentify
<1>7. EntriesLink'
  BY <1>1, <1>3 DEF IInv, EntriesLink, Link
<1>8. EntriesComplete'
  <2>1. \A q \in held : q.to \in Workers
    BY DEF IInv, RequestsWellFormed, WellFormed, Records, Request
  <2> QED BY <1>1, <1>3, <2>1 DEF IInv, EntriesComplete
<1>9. AnswersGood'
  BY <1>1 DEF IInv, AnswersGood, GoodAnswer, TerminalTensor
<1>10. OneAttemptAtATime' /\ ResultsMatchPayloads'
  BY <1>1 DEF IInv, OneAttemptAtATime, ResultsMatchPayloads, client
<1> QED BY <1>5, <1>6, <1>7, <1>8, <1>9, <1>10 DEF IInv

-----------------------------------------------------------------------------
\* Every step keeps it.
LEMMA NextIInv == IInv /\ [Next]_vars => IInv'
<1> SUFFICES ASSUME IInv, [Next]_vars PROVE IInv'
  OBVIOUS
<1>1. CASE UNCHANGED vars
  <2>1. CoreTypes' /\ OneAttemptAtATime' /\ ResultsMatchPayloads'
    BY <1>1 DEF IInv, CoreTypes, OneAttemptAtATime, ResultsMatchPayloads, vars, network, client
  <2>2. RequestsWellFormed' /\ IdsIdentify' /\ AnswersGood'
    BY <1>1 DEF IInv, RequestsWellFormed, WellFormed, IdsIdentify, Records, AnswersGood,
       GoodAnswer, TerminalTensor, vars, network
  <2>3. EntriesLink' /\ EntriesComplete'
    BY <1>1 DEF IInv, EntriesLink, Link, EntriesComplete, vars, network
  <2> QED BY <2>1, <2>2, <2>3 DEF IInv
<1>2. ASSUME NEW c \in Clients, ClientStep(c) PROVE IInv'
  BY <1>2, SendForwardPassIInv, ClientResponseIInv, ClientFailureIInv DEF ClientStep
<1>3. ASSUME NEW w \in Workers, WorkerStep(w) PROVE IInv'
  <2>1. CASE HandleTerminalHop(w)
    BY <2>1, HandleTerminalHopIInv
  <2>2. CASE TerminalHopError(w) \/ Crash(w)
    BY <2>2, StopsIInv DEF TerminalHopError, Crash
  <2>3. CASE ForwardRequest(w)
    BY <2>3, ForwardRequestIInv
  <2>4. CASE ForwardError(w)
    BY <2>4, ForwardErrorIInv
  <2>5. CASE RelayStep(w)
    BY <2>5, RelayStepIInv
  <2> QED BY <1>3, <2>1, <2>2, <2>3, <2>4, <2>5 DEF WorkerStep, RequestStep
<1> QED BY <1>1, <1>2, <1>3 DEF Next

\* The bookkeeping invariant holds in every state.
THEOREM IInvAlways == Spec => []IInv
<1>1. IInv /\ [Next]_vars => IInv'
  BY NextIInv
<1> QED BY InitIInv, <1>1, PTL DEF Spec

-----------------------------------------------------------------------------
(* The properties *)

\* Every variable has its type.
THEOREM TypeCorrect == Spec => []TypeOK
<1>1. IInv /\ unreadable \subseteq NearLimit => TypeOK
  <2> SUFFICES ASSUME IInv, unreadable \subseteq NearLimit PROVE TypeOK
    OBVIOUS
  <2>1. waiting \subseteq Request /\ sent \subseteq Request /\ held \subseteq Request
    BY DEF IInv, RequestsWellFormed, WellFormed, Records
  <2>2. answers \subseteq [req : Request, reply : Reply]
    BY DEF IInv, AnswersGood, GoodAnswer
  <2> QED BY <2>1, <2>2 DEF IInv, CoreTypes, TypeOK
<1>2. Init => unreadable \subseteq NearLimit
  BY DEF Init
<1>3. unreadable \subseteq NearLimit /\ [Next]_vars => (unreadable \subseteq NearLimit)'
  BY DEF Next, vars, ClientStep, WorkerStep, RequestStep, RelayStep
<1> QED BY <1>1, <1>2, <1>3, IInvAlways, PTL DEF Spec

\* However requests of different clients interleave at the workers they
\* share, an answer is the output for the request it answers.
THEOREM NoCrossTalk == Spec => []AnswersMatchRequests
<1>1. IInv => AnswersMatchRequests
  BY DEF IInv, AnswersGood, GoodAnswer, AnswersMatchRequests
<1> QED BY <1>1, IInvAlways, PTL

\* run_client never returns another client's output.
THEOREM ResultsAreOwn == Spec => []ResultsMatchPayloads
<1>1. IInv => ResultsMatchPayloads
  BY DEF IInv
<1> QED BY <1>1, IInvAlways, PTL

\* A running worker's pending_forwards is exactly the set of its outbound
\* requests that have had no event.
THEOREM PendingIsExact == Spec => []PendingMatchesWaiting
<1>1. IInv => PendingMatchesWaiting
  <2> SUFFICES ASSUME IInv, NEW w \in alive
               PROVE  {p.out : p \in pending_forwards[w]} = {r \in waiting : r.from = w}
    BY DEF PendingMatchesWaiting
  <2>1. w \in Workers
    BY DEF IInv, CoreTypes
  <2>2. \A p \in pending_forwards[w] : p.out \in waiting /\ p.out.from = w
    BY <2>1 DEF IInv, EntriesLink, Link
  <2>3. \A r \in waiting : r.from = w => \E p \in pending_forwards[w] : p.out = r
    BY <2>1 DEF IInv, EntriesComplete
  <2> QED BY <2>2, <2>3
<1> QED BY <1>1, IInvAlways, PTL

\* No upstream channel is orphaned or owned twice.
THEOREM ChannelsOwned == Spec => []HeldChannelsHaveOneOwner
<1>1. IInv => HeldChannelsHaveOneOwner
  BY DEF IInv, EntriesLink, Link, EntriesComplete, HeldChannelsHaveOneOwner
<1> QED BY <1>1, IInvAlways, PTL

\* run_client has one request out at the most.
THEOREM OneAttempt == Spec => []OneAttemptAtATime
<1>1. IInv => OneAttemptAtATime
  BY DEF IInv
<1> QED BY <1>1, IInvAlways, PTL

-----------------------------------------------------------------------------
(* How many requests are ever sent: those that were, and those that the    *)
(* ones on their way can still become, are MaxHops for each attempt.       *)

\* The attempts of a client, and the hops that a request has before it.
Tries    == [c \in Clients |-> retry_count[c] + IF chain_built[c] THEN 1 ELSE 0]
HopsLeft == [r \in Request |-> Len(r.route) - 1 - r.hop_index]

Allowed == MaxHops * Total(Tries, Clients)
SentOK  == IsFiniteSet(sent) /\ next_id - 1 + Total(HopsLeft, sent) <= Allowed

\* Attempts are counted by numbers, and the bound is one.
LEMMA TriesType ==
    ASSUME IInv
    PROVE  /\ \A c \in Clients : Tries[c] \in Nat /\ Tries[c] <= MaxRetries + 1
           /\ Numbers(Tries, Clients) /\ IsFiniteSet(Clients)
           /\ Total(Tries, Clients) \in Nat /\ Allowed \in Nat
<1>1. /\ chain_built \in [Clients -> BOOLEAN]
      /\ retry_count \in [Clients -> 0..MaxRetries]
      /\ MaxRetries \in Nat /\ MaxHops \in Nat /\ IsFiniteSet(Clients)
  BY ForwardPassAssumption DEF IInv, CoreTypes
<1>2. \A c \in Clients : Tries[c] \in Nat /\ Tries[c] <= MaxRetries + 1
  <2> TAKE c \in Clients
  <2>1. CASE chain_built[c]
    BY <1>1, <2>1 DEF Tries
  <2>2. CASE ~chain_built[c]
    BY <1>1, <2>2 DEF Tries
  <2> QED BY <2>1, <2>2
<1>3. Numbers(Tries, Clients)
  BY <1>2 DEF Numbers
<1>4. Total(Tries, Clients) \in Nat
  BY <1>1, <1>3, TotalType
<1>5. Allowed \in Nat
  BY <1>1, <1>4 DEF Allowed
<1> QED BY <1>1, <1>2, <1>3, <1>4, <1>5

\* A request on its way has a number of hops before it.
LEMMA HopsLeftType ==
    ASSUME NEW r, WellFormed(r)
    PROVE  HopsLeft[r] = Len(r.route) - 1 - r.hop_index /\ HopsLeft[r] \in Nat
<1>1. r \in Request /\ r.hop_index < Len(r.route)
  BY DEF WellFormed
<1>2. r.route \in Chains /\ r.hop_index \in Nat
  BY <1>1 DEF Request
<1>3. Len(r.route) \in Nat
  BY <1>2, ForwardPassAssumption
<1> QED BY <1>1, <1>2, <1>3 DEF HopsLeft

\* So those of any requests that are on their way add up to one.
LEMMA SentSums ==
    ASSUME IInv, SentOK, NEW s \in SUBSET sent
    PROVE  IsFiniteSet(s) /\ Numbers(HopsLeft, s) /\ Total(HopsLeft, s) \in Nat
<1>1. IsFiniteSet(s)
  BY FS_Subset DEF SentOK
<1>2. Numbers(HopsLeft, s)
  BY HopsLeftType DEF IInv, RequestsWellFormed, Records, Numbers
<1> QED BY <1>1, <1>2, TotalType

\* The bound holds when nothing has been sent.
LEMMA InitSentOK == ASSUME Init PROVE SentOK
<1>1. IsFiniteSet(sent) /\ Total(HopsLeft, sent) = 0 /\ next_id = 1
  BY FS_EmptySet, TotalOfNothing DEF Init
<1>2. Allowed \in Nat
  BY InitIInv, TriesType
<1> QED BY <1>1, <1>2 DEF SentOK

\* It is kept when requests leave and nothing is sent;
LEMMA LeavingSentOK ==
    ASSUME IInv, SentOK, sent' \subseteq sent, next_id' = next_id, Allowed' = Allowed
    PROVE  SentOK'
<1> DEFINE left == sent'
<1>1. /\ IsFiniteSet(sent) /\ Numbers(HopsLeft, sent) /\ Total(HopsLeft, sent) \in Nat
      /\ IsFiniteSet(left) /\ Total(HopsLeft, left) \in Nat /\ left \in SUBSET sent
  BY SentSums
<1>2. next_id \in Nat /\ Allowed \in Nat
  BY TriesType DEF IInv, CoreTypes
<1>3. next_id - 1 + Total(HopsLeft, sent) <= Allowed
  BY DEF SentOK
<1> HIDE DEF left
<1>4. Total(HopsLeft, left) <= Total(HopsLeft, sent)
  BY <1>1, TotalOfPart
<1>5. next_id - 1 + Total(HopsLeft, left) <= Allowed
  BY <1>1, <1>2, <1>3, <1>4
<1> QED BY <1>1, <1>5 DEF SentOK, left

\* The attempts of the clients are as many as they were when no client's have
\* changed, and one more when one client's have become one more.
LEMMA TriesKept ==
    ASSUME IInv, IInv', \A d \in Clients : Tries'[d] = Tries[d]
    PROVE  Allowed' = Allowed
<1> DEFINE after == Tries'
<1>1. Numbers(Tries, Clients) /\ IsFiniteSet(Clients)
  BY TriesType
<1> HIDE DEF after
<1>2. Total(after, Clients) = Total(Tries, Clients)
  BY <1>1, TotalSame DEF after
<1> QED BY <1>2 DEF Allowed, after

LEMMA TriesGrow ==
    ASSUME IInv, IInv', NEW c \in Clients, Tries'[c] = Tries[c] + 1,
           \A d \in Clients \ {c} : Tries'[d] = Tries[d]
    PROVE  Allowed' = Allowed + MaxHops
<1> DEFINE after  == Tries'
           others == Clients \ {c}
<1>1. Numbers(Tries, Clients) /\ IsFiniteSet(Clients) /\ Total(Tries, Clients) \in Nat
  BY TriesType
<1>2. /\ \A d \in others : after[d] = Tries[d]
      /\ after[c] = Tries[c] + 1 /\ Tries[c] \in Nat
  BY TriesType
<1>3. Numbers(Tries, others) /\ IsFiniteSet(others)
  BY <1>1, FS_Subset DEF Numbers
<1>4. Numbers(after, Clients)
  BY <1>1, <1>2 DEF Numbers
<1> HIDE DEF after, others
<1>5. Total(Tries, others) = Total(after, others) /\ Total(Tries, others) \in Nat
  BY <1>2, <1>3, TotalSame, TotalType
<1>6. Total(Tries, Clients) = Tries[c] + Total(Tries, others)
  BY <1>1, TotalRemove DEF others
<1>7. Total(after, Clients) = after[c] + Total(after, others)
  BY <1>1, <1>4, TotalRemove DEF others
<1>8. Total(after, Clients) = Total(Tries, Clients) + 1
  BY <1>2, <1>5, <1>6, <1>7
<1>9. MaxHops * (Total(Tries, Clients) + 1) = MaxHops * Total(Tries, Clients) + MaxHops
  BY <1>1, ForwardPassAssumption
<1> QED BY <1>8, <1>9 DEF Allowed, after

\* a client's attempt is sent as one request with at most MaxHops - 1 to come,
LEMMA SendForwardPassSentOK ==
    ASSUME IInv, SentOK, IInv', NEW c \in Clients, SendForwardPass(c)
    PROVE  SentOK'
<1>1. PICK chain \in Chains :
        LET r == [id |-> next_id, from |-> c, to |-> chain[1], route |-> chain,
                  hop_index |-> 0, tensor |-> [payload |-> c, ran |-> <<>>]]
        IN  /\ ~chain_built[c]
            /\ chain_built' = [chain_built EXCEPT ![c] = TRUE]
            /\ next_id' = next_id + 1
            /\ sent' = sent \cup {r}
            /\ retry_count' = retry_count
  BY DEF SendForwardPass
<1> DEFINE r == [id |-> next_id, from |-> c, to |-> chain[1], route |-> chain,
                 hop_index |-> 0, tensor |-> [payload |-> c, ran |-> <<>>]]
<1>2. r.id = next_id /\ r.route = chain /\ r.hop_index = 0
  OBVIOUS
<1>3. sent' = sent \cup {r} /\ next_id' = next_id + 1
  BY <1>1
<1> HIDE DEF r
<1>4. next_id \in Nat /\ Allowed \in Nat /\ MaxHops \in Nat
  BY TriesType, ForwardPassAssumption DEF IInv, CoreTypes
<1>5. r \notin sent
  BY <1>2, <1>4 DEF IInv, RequestsWellFormed, Records
<1>6. WellFormed(r)
  BY <1>3 DEF IInv, RequestsWellFormed, WellFormed, Records
<1>7. HopsLeft[r] \in Nat /\ HopsLeft[r] + 1 <= MaxHops
  <2>1. HopsLeft[r] = Len(chain) - 1 /\ HopsLeft[r] \in Nat
    BY <1>2, <1>6, HopsLeftType
  <2>2. Len(chain) <= MaxHops /\ Len(chain) \in Nat
    BY ForwardPassAssumption
  <2> QED BY <1>4, <2>1, <2>2
<1>8. IsFiniteSet(sent) /\ Numbers(HopsLeft, sent) /\ Total(HopsLeft, sent) \in Nat
  BY SentSums
<1>9. Total(HopsLeft, sent \cup {r}) = HopsLeft[r] + Total(HopsLeft, sent)
  BY <1>5, <1>7, <1>8, TotalAdd
<1>10. IsFiniteSet(sent \cup {r})
  BY <1>8, FS_AddElement
<1>11. Allowed' = Allowed + MaxHops
  <2>1. chain_built \in [Clients -> BOOLEAN] /\ retry_count \in [Clients -> 0..MaxRetries]
    BY DEF IInv, CoreTypes
  <2>2. Tries'[c] = Tries[c] + 1
    <3>1. Tries[c] = retry_count[c] + 0
      BY <1>1 DEF Tries
    <3>2. Tries'[c] = retry_count[c] + 1
      BY <1>1, <2>1 DEF Tries
    <3>3. retry_count[c] \in Nat
      BY <2>1, ForwardPassAssumption
    <3> QED BY <3>1, <3>2, <3>3
  <2>3. \A d \in Clients \ {c} : Tries'[d] = Tries[d]
    BY <1>1, <2>1 DEF Tries
  <2> QED BY <2>2, <2>3, TriesGrow
<1>12. next_id - 1 + Total(HopsLeft, sent) <= Allowed
  BY DEF SentOK
<1>13. next_id + Total(HopsLeft, sent \cup {r}) <= Allowed + MaxHops
  BY <1>4, <1>7, <1>8, <1>9, <1>12
<1> DEFINE now == sent'
<1>14. now = sent \cup {r} /\ IsFiniteSet(now)
  BY <1>3, <1>10
<1> HIDE DEF now
<1>15. next_id + Total(HopsLeft, now) <= Allowed + MaxHops
  BY <1>13, <1>14
<1>16. next_id' - 1 = next_id
  BY <1>3, <1>4
<1> QED BY <1>11, <1>14, <1>15, <1>16 DEF SentOK, now

\* a failover replaces the attempt that failed,
LEMMA ClientFailureSentOK ==
    ASSUME IInv, SentOK, IInv', NEW c \in Clients, ClientFailure(c)
    PROVE  SentOK'
<1>1. /\ FailOver(c) /\ sent' = sent /\ next_id' = next_id
      /\ chain_built[c]
  BY DEF ClientFailure, IInv, OneAttemptAtATime
<1>2. chain_built \in [Clients -> BOOLEAN] /\ retry_count \in [Clients -> 0..MaxRetries]
  BY DEF IInv, CoreTypes
<1>3. \A d \in Clients : Tries'[d] = Tries[d]
  <2>1. CASE retry_count[c] >= MaxRetries
    BY <1>1, <2>1 DEF FailOver, Tries
  <2>2. CASE ~(retry_count[c] >= MaxRetries)
    <3>1. /\ retry_count' = [retry_count EXCEPT ![c] = @ + 1]
          /\ chain_built' = [chain_built EXCEPT ![c] = FALSE]
      BY <1>1, <2>2 DEF FailOver
    <3>2. \A d \in Clients \ {c} : Tries'[d] = Tries[d]
      BY <1>2, <3>1 DEF Tries
    <3>3. Tries'[c] = retry_count[c] + 1 + 0
      BY <1>2, <3>1 DEF Tries
    <3>4. Tries[c] = retry_count[c] + 1
      BY <1>1 DEF Tries
    <3>5. retry_count[c] \in Nat
      BY <1>2, ForwardPassAssumption
    <3> QED BY <3>2, <3>3, <3>4, <3>5
  <2> QED BY <2>1, <2>2
<1>4. Allowed' = Allowed
  BY <1>3, TriesKept
<1> QED BY <1>1, <1>4, LeavingSentOK

\* a relay sends one request for one that leaves, with a hop less to go,
LEMMA ForwardRequestSentOK ==
    ASSUME IInv, SentOK, IInv', NEW w \in Workers, ForwardRequest(w), Allowed' = Allowed
    PROVE  SentOK'
<1>1. PICK r \in sent :
        LET next == Forwarded(w, r)
        IN  /\ next_id' = next_id + 1
            /\ sent' = (sent \ {r}) \cup {next}
  BY DEF ForwardRequest
<1> DEFINE next == Forwarded(w, r)
           rest == sent \ {r}
<1>2. WellFormed(r) /\ r \in Request
  BY DEF IInv, RequestsWellFormed, Records, WellFormed
<1>3. next.id = next_id /\ next.route = r.route /\ next.hop_index = r.hop_index + 1
  BY <1>2 DEF Forwarded, BuildNextRequest, Request
<1>4. sent' = rest \cup {next} /\ next_id' = next_id + 1
  BY <1>1
<1> HIDE DEF next
<1>5. next_id \in Nat /\ Allowed \in Nat
  BY TriesType DEF IInv, CoreTypes
<1>6. next \notin rest
  BY <1>3, <1>5 DEF IInv, RequestsWellFormed, Records
<1>7. WellFormed(next)
  BY <1>4 DEF IInv, RequestsWellFormed, WellFormed, Records
<1>8. /\ HopsLeft[r] \in Nat /\ HopsLeft[next] \in Nat
      /\ HopsLeft[r] = HopsLeft[next] + 1
  <2>1. r.hop_index \in Nat /\ Len(r.route) \in Nat
    BY <1>2, ForwardPassAssumption DEF Request
  <2>2. HopsLeft[r] = Len(r.route) - 1 - r.hop_index /\ HopsLeft[r] \in Nat
    BY <1>2, HopsLeftType
  <2>3. HopsLeft[next] = Len(r.route) - 1 - (r.hop_index + 1) /\ HopsLeft[next] \in Nat
    BY <1>3, <1>7, HopsLeftType
  <2> QED BY <2>1, <2>2, <2>3
<1>9. /\ IsFiniteSet(sent) /\ Numbers(HopsLeft, sent) /\ Total(HopsLeft, sent) \in Nat
      /\ IsFiniteSet(rest) /\ Numbers(HopsLeft, rest) /\ Total(HopsLeft, rest) \in Nat
  BY SentSums
<1>10. Total(HopsLeft, sent) = HopsLeft[r] + Total(HopsLeft, rest)
  BY <1>9, TotalRemove
<1> HIDE DEF rest
<1>11. Total(HopsLeft, rest \cup {next}) = HopsLeft[next] + Total(HopsLeft, rest)
  BY <1>6, <1>8, <1>9, TotalAdd
<1>12. IsFiniteSet(rest \cup {next})
  BY <1>9, FS_AddElement
<1>13. next_id - 1 + Total(HopsLeft, sent) <= Allowed
  BY DEF SentOK
<1>14. next_id + Total(HopsLeft, rest \cup {next}) <= Allowed
  BY <1>5, <1>8, <1>9, <1>10, <1>11, <1>13
<1> DEFINE now == sent'
<1>15. now = rest \cup {next} /\ IsFiniteSet(now)
  BY <1>4, <1>12
<1> HIDE DEF now
<1>16. next_id + Total(HopsLeft, now) <= Allowed
  BY <1>14, <1>15
<1>17. next_id' - 1 = next_id
  BY <1>4, <1>5
<1> QED BY <1>15, <1>16, <1>17 DEF SentOK, now

\* and everything else sends nothing.
LEMMA NextSentOK == ASSUME IInv, SentOK, [Next]_vars PROVE SentOK'
<1>1. IInv'
  BY NextIInv
<1>2. ASSUME UNCHANGED <<chain_built, retry_count>> PROVE Allowed' = Allowed
  BY <1>1, <1>2, TriesKept DEF Tries
<1>3. CASE UNCHANGED vars
  BY <1>2, <1>3, LeavingSentOK DEF vars, network, client
<1>4. ASSUME NEW c \in Clients, ClientStep(c) PROVE SentOK'
  <2>1. CASE SendForwardPass(c)
    BY <1>1, <2>1, SendForwardPassSentOK
  <2>2. CASE ClientResponse(c)
    BY <1>2, <2>2, LeavingSentOK DEF ClientResponse
  <2>3. CASE ClientFailure(c)
    BY <1>1, <2>3, ClientFailureSentOK
  <2> QED BY <1>4, <2>1, <2>2, <2>3 DEF ClientStep
<1>5. ASSUME NEW w \in Workers, WorkerStep(w) PROVE SentOK'
  <2>1. UNCHANGED client
    BY <1>5 DEF WorkerStep, RequestStep, RelayStep, HandleTerminalHop, TerminalHopError,
       ForwardRequest, ForwardError, Crash, Stops, RelayResponse, RelayFailure, Relay
  <2>2. Allowed' = Allowed
    BY <1>2, <2>1 DEF client
  <2>3. CASE ForwardRequest(w)
    BY <1>1, <2>2, <2>3, ForwardRequestSentOK
  <2>4. CASE ~ForwardRequest(w)
    <3>1. sent' \subseteq sent /\ next_id' = next_id
      BY <1>5, <2>4 DEF WorkerStep, RequestStep, RelayStep, HandleTerminalHop, AnswerRequest,
         TerminalHopError, ForwardError, Crash, Stops, RelayResponse, RelayFailure, Relay
    <3> QED BY <2>2, <3>1, LeavingSentOK
  <2> QED BY <2>3, <2>4
<1> QED BY <1>3, <1>4, <1>5 DEF Next

\* Retries and relaying multiply a call by no more than the attempts and hops
\* it may take, whatever fails and whatever is delivered late.
THEOREM AmplificationBounded == Spec => []Amplification
<1>1. IInv /\ SentOK => Amplification
  <2> SUFFICES ASSUME IInv, SentOK PROVE Amplification
    OBVIOUS
  <2> DEFINE tries == Total(Tries, Clients)
             calls == Cardinality(Clients)
             most  == MaxRetries + 1
  <2>1. next_id \in Nat /\ most \in Nat /\ MaxHops \in Nat
    BY ForwardPassAssumption DEF IInv, CoreTypes
  <2>2. Total(HopsLeft, sent) \in Nat
    BY SentSums
  <2>3. tries \in Nat /\ calls \in Nat /\ tries <= calls * most
    <3>1. /\ Numbers(Tries, Clients) /\ IsFiniteSet(Clients) /\ tries \in Nat
          /\ \A c \in Clients : Tries[c] <= most
      BY TriesType
    <3> HIDE DEF most
    <3> QED BY <2>1, <3>1, TotalBound, FS_CardinalityType
  <2>4. next_id - 1 + Total(HopsLeft, sent) <= MaxHops * tries
    BY DEF SentOK, Allowed
  <2> HIDE DEF tries, calls, most
  <2>5. MaxHops * tries <= calls * most * MaxHops
    BY <2>1, <2>3
  <2>6. MaxHops * tries \in Nat /\ calls * most * MaxHops \in Nat
    BY <2>1, <2>3
  <2>7. next_id - 1 <= calls * most * MaxHops
    BY <2>1, <2>2, <2>4, <2>5, <2>6
  <2> QED BY <2>7 DEF Amplification, calls, most
<1>2. Init => IInv /\ SentOK
  BY InitIInv, InitSentOK
<1>3. IInv /\ SentOK /\ [Next]_vars => (IInv /\ SentOK)'
  BY NextIInv, NextSentOK
<1> QED BY <1>1, <1>2, <1>3, PTL DEF Spec

-----------------------------------------------------------------------------
(* The refinement *)

Outcomes == [c \in Clients |-> OutcomeOf(c)]

\* An outcome stays what it is.
LEMMA OutcomeKept ==
    ASSUME NEW d \in Clients, result'[d] = result[d]
    PROVE  Outcomes'[d] = Outcomes[d]
<1>1. OutcomeOf(d)' = OutcomeOf(d)
  BY Zenon DEF OutcomeOf
<1>2. Outcomes[d] = OutcomeOf(d) /\ Outcomes'[d] = OutcomeOf(d)'
  BY Zenon DEF Outcomes
<1> QED BY <1>1, <1>2

\* The first state is one of the call.
LEMMA InitImplements == Init => Call!Init
BY DEF Init, Call!Init, OutcomeOf, Running

\* What the workers do is not seen by the caller.
LEMMA WorkersStutter ==
    ASSUME UNCHANGED client
    PROVE  UNCHANGED Call!vars
<1>1. /\ retry_count' = retry_count /\ chain_built' = chain_built /\ result' = result
  BY DEF client
<1> QED BY <1>1 DEF Call!vars, OutcomeOf

\* Sending is the start of the call.
LEMMA SendImplements ==
    ASSUME IInv, NEW c \in Clients, SendForwardPass(c)
    PROVE  Call!Attempt(c)
<1>1. /\ result[c] = Running /\ ~chain_built[c]
      /\ chain_built' = [chain_built EXCEPT ![c] = TRUE]
      /\ retry_count' = retry_count /\ result' = result
  BY DEF SendForwardPass
<1>2. /\ chain_built \in [Clients -> BOOLEAN] /\ retry_count \in [Clients -> 0..MaxRetries]
      /\ MaxRetries \in Nat
  BY ForwardPassAssumption DEF IInv, CoreTypes
<1>3. Outcomes[c] = "none" /\ Outcomes' = Outcomes
  BY <1>1 DEF Outcomes, OutcomeOf, Running
<1>4. Tries[c] = retry_count[c] /\ Tries[c] < MaxRetries + 1
  BY <1>1, <1>2 DEF Tries
<1>5. Tries' = [Tries EXCEPT ![c] = @ + 1]
  <2>1. \A d \in Clients : Tries'[d] = IF d = c THEN Tries[c] + 1 ELSE Tries[d]
    <3>1. Tries'[c] = Tries[c] + 1
      BY <1>1, <1>2 DEF Tries
    <3>2. ASSUME NEW d \in Clients, d # c PROVE Tries'[d] = Tries[d]
      <4>1. chain_built'[d] = chain_built[d] /\ retry_count'[d] = retry_count[d]
        BY <1>1, <1>2, <3>2
      <4> QED BY <4>1 DEF Tries
    <3> QED BY <3>1, <3>2
  <2> QED BY <2>1 DEF Tries
<1> QED BY <1>1, <1>3, <1>4, <1>5 DEF Call!Attempt, Tries, Outcomes

\* A response is the end of the call.
LEMMA ResponseImplements ==
    ASSUME IInv, NEW c \in Clients, ClientResponse(c)
    PROVE  Call!Return(c)
<1>1. PICK a \in answers :
        /\ a.req.from = c /\ result[c] = Running
        /\ result' = [result EXCEPT ![c] = a.reply]
        /\ UNCHANGED <<chain_built, retry_count>>
  BY DEF ClientResponse
<1>2. a.req \in waiting /\ a.reply \in Reply /\ GoodAnswer(a)
  BY DEF IInv, AnswersGood, GoodAnswer
<1>3. chain_built[c]
  BY <1>1, <1>2 DEF IInv, OneAttemptAtATime
<1>4. result \in [Clients -> Reply \cup {Running, Failed}]
  BY DEF IInv, CoreTypes
<1>5. Outcomes[c] = "none"
  BY <1>1 DEF Outcomes, OutcomeOf, Running
<1>6. Outcomes'[c] \in {"answer", "empty"}
  <2>1. result'[c] = a.reply
    BY <1>1, <1>4
  <2>2. CASE a.reply.kind = "output"
    <3>1. a.reply.tensor.payload = c
      BY <1>1, <1>2, <2>2 DEF IInv, RequestsWellFormed, WellFormed, Records, GoodAnswer,
         TerminalTensor
    <3> QED BY <2>1, <2>2, <3>1 DEF Outcomes, OutcomeOf
  <2>3. CASE a.reply.kind = "empty"
    BY <2>1, <2>3 DEF Outcomes, OutcomeOf
  <2> QED BY <1>2, <2>2, <2>3 DEF Reply
<1>7. \A d \in Clients : d # c => Outcomes'[d] = Outcomes[d]
  <2> SUFFICES ASSUME NEW d \in Clients, d # c PROVE Outcomes'[d] = Outcomes[d]
    OBVIOUS
  <2>1. result'[d] = result[d]
    BY <1>1, <1>4
  <2> QED BY <2>1, OutcomeKept
<1>8. Outcomes' = [Outcomes EXCEPT ![c] = Outcomes'[c]]
  BY <1>7 DEF Outcomes
<1>9. Tries' = Tries
  BY <1>1 DEF Tries
<1> QED BY <1>1, <1>3, <1>5, <1>6, <1>8, <1>9 DEF Call!Return, Tries, Outcomes

\* A failure is a failed attempt, or the last one.
LEMMA FailureImplements ==
    ASSUME IInv, NEW c \in Clients, ClientFailure(c)
    PROVE  Call!AttemptFails(c) \/ Call!GiveUp(c)
<1>1. PICK r \in waiting : r.from = c /\ result[c] = Running /\ FailOver(c)
  BY DEF ClientFailure
<1>2. chain_built[c]
  BY <1>1 DEF IInv, OneAttemptAtATime
<1>3. /\ chain_built \in [Clients -> BOOLEAN] /\ retry_count \in [Clients -> 0..MaxRetries]
      /\ result \in [Clients -> Reply \cup {Running, Failed}] /\ MaxRetries \in Nat
  BY ForwardPassAssumption DEF IInv, CoreTypes
<1>4. Outcomes[c] = "none"
  BY <1>1 DEF Outcomes, OutcomeOf, Running
<1>5. Tries[c] = retry_count[c] + 1
  BY <1>2 DEF Tries
<1>6. CASE retry_count[c] >= MaxRetries
  <2>1. /\ result' = [result EXCEPT ![c] = Failed]
        /\ chain_built' = chain_built /\ retry_count' = retry_count
    BY <1>1, <1>6 DEF FailOver
  <2>2. Outcomes'[c] = "error"
    BY <1>3, <2>1 DEF Outcomes, OutcomeOf, Failed
  <2>3. ASSUME NEW d \in Clients, d # c PROVE Outcomes'[d] = Outcomes[d]
    <3>1. result'[d] = result[d]
      BY <1>3, <2>1, <2>3
    <3> QED BY <3>1, OutcomeKept
  <2>4. Outcomes' = [Outcomes EXCEPT ![c] = "error"]
    BY <2>2, <2>3 DEF Outcomes
  <2>5. Tries[c] = MaxRetries + 1 /\ Tries' = Tries
    BY <1>3, <1>5, <1>6, <2>1 DEF Tries
  <2> QED BY <1>2, <1>4, <2>1, <2>4, <2>5 DEF Call!GiveUp, Tries, Outcomes
<1>7. CASE ~(retry_count[c] >= MaxRetries)
  <2>1. /\ retry_count' = [retry_count EXCEPT ![c] = @ + 1]
        /\ chain_built' = [chain_built EXCEPT ![c] = FALSE]
        /\ result' = result
    BY <1>1, <1>7 DEF FailOver
  <2>2. Outcomes' = Outcomes
    BY <2>1 DEF Outcomes, OutcomeOf
  <2>3. Tries[c] < MaxRetries + 1
    BY <1>3, <1>5, <1>7
  <2>4. Tries'[c] = Tries[c]
    BY <1>3, <1>5, <2>1 DEF Tries
  <2>5. ASSUME NEW d \in Clients, d # c PROVE Tries'[d] = Tries[d]
    <3>1. retry_count'[d] = retry_count[d] /\ chain_built'[d] = chain_built[d]
      BY <1>3, <2>1, <2>5
    <3> QED BY <3>1 DEF Tries
  <2>6. Tries' = Tries
    BY <2>4, <2>5 DEF Tries
  <2> QED BY <1>2, <1>4, <2>1, <2>2, <2>3, <2>6 DEF Call!AttemptFails, Tries, Outcomes
<1> QED BY <1>6, <1>7

\* Every step is one of the call, or none.
LEMMA StepImplements == IInv /\ [Next]_vars => [Call!Next]_(Call!vars)
<1> SUFFICES ASSUME IInv, [Next]_vars PROVE [Call!Next]_(Call!vars)
  OBVIOUS
<1>1. CASE UNCHANGED vars
  BY <1>1, WorkersStutter DEF vars
<1>2. ASSUME NEW c \in Clients, ClientStep(c) PROVE Call!Next
  BY <1>2, SendImplements, ResponseImplements, FailureImplements DEF ClientStep, Call!Next
<1>3. ASSUME NEW w \in Workers, WorkerStep(w) PROVE UNCHANGED client
  <2>1. Stops(w) => UNCHANGED client
    BY DEF Stops
  <2>2. RelayStep(w) => UNCHANGED client
    BY DEF RelayStep, RelayResponse, RelayFailure, Relay
  <2> QED BY <1>3, <2>1, <2>2 DEF WorkerStep, RequestStep, HandleTerminalHop, TerminalHopError,
          ForwardRequest, ForwardError, Crash
<1> QED BY <1>1, <1>2, <1>3, WorkersStutter DEF Next

\* Clients, workers and network implement the abstract remote call.
THEOREM Refinement == Spec => ImplementsRemoteCall
<1>1. IInv /\ [Next]_vars => [Call!Next]_(Call!vars)
  BY StepImplements
<1> QED BY <1>1, InitImplements, IInvAlways, PTL DEF Spec, ImplementsRemoteCall, Call!Spec
=============================================================================
